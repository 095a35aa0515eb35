--------------------------- MODULE MCPipelineIrq ----------------------------
(***************************************************************************)
(* Eight words, so that CP0_STATUS has its IE, EXL and ERL bits.  A        *)
(* program enables interrupts in slots 0 and 1 and runs three slots of its *)
(* own; the vector is slot 6 and the handler is one slot and ERET.         *)
(***************************************************************************)
EXTENDS PipelineIrq

MCReg == 0 .. 2
MCFunc == {"SLL", "ADD", "FULL"}
MCBootMem == [a \in Word |-> W - 1 - a]
MCAlu(f, a, b) == IF f = "ADD" THEN (a + b) % W ELSE b
MCTest(f, a, b) == IF f = "ADD" THEN a = b ELSE a # b
MCNarrow(f, w) == w
MCMerge(f, old, new) == new

Is(op, f, rs, rt, rd, imm) ==
    [op |-> op, f |-> f, rs |-> rs, rt |-> rt, rd |-> rd, imm |-> imm]

Enable == << Is("ITYPE", "ADD", 0, 1, 0, 1),    \* r1 = IE
             Is("MTC0", "FULL", 0, 1, 1, 0) >>  \* STATUS = r1

Body == {
    Is("ITYPE", "ADD", 1, 1, 0, 1),     \* r1 = r1 + 1
    Is("LOAD",  "FULL", 1, 1, 0, 0),    \* r1 = mem[r1]
    Is("STORE", "FULL", 0, 1, 0, 2),    \* mem[2] = r1
    Is("BEQ",   "ADD", 0, 0, 0, 3),     \* always taken
    Is("BEQL",  "ADD", 0, 1, 0, 1),     \* likely, if r1 = 0
    Is("JAL",   "SLL", 0, 0, 0, 4)
}

Return == Is("ERET", "SLL", 0, 0, 0, 0)

Handlers == { Is("ITYPE", "ADD", 1, 2, 0, 1),   \* r2 = r1 + 1
              Is("MTC0", "FULL", 0, 2, 2, 0) }  \* EPC = r2

IrqPrograms ==
    {p \in { [a \in Word |-> CASE a < 2 -> Enable[a + 1]
                               [] a \in 2 .. 4 -> body[a]
                               [] a = 5 -> Is("CACHE", "SLL", 0, 0, 0, 0)
                               [] a = 6 -> h
                               [] a = 7 -> Return] :
             body \in [2 .. 4 -> Body], h \in Handlers} :
        LegalProgram(p) /\ BootSafe(p)}
=============================================================================
