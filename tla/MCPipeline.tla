----------------------------- MODULE MCPipeline -----------------------------
(***************************************************************************)
(* A small processor for TLC: five words, three registers, programs of     *)
(* five slots.  A byte is the low bit of a word.  Each instruction set     *)
(* below is a set of slots; a run takes all programs made of them.         *)
(***************************************************************************)
EXTENDS PipelineISA, FiniteSets

MCReg == 0 .. 2
MCFunc == {"SLL", "ADD", "BYTE", "FULL"}
MCBootMem == [a \in Word |-> W - 1 - a]

MCAlu(f, a, b) == IF f = "ADD" THEN (a + b) % W ELSE b
MCTest(f, a, b) == IF f = "ADD" THEN a = b ELSE a # b
MCNarrow(f, w) == IF f = "BYTE" THEN w % 2 ELSE w
MCSignExtend(f, w) == IF f = "BYTE" THEN (W - 1) * (w % 2) ELSE w
MCMerge(f, old, new) ==
    IF f = "BYTE" THEN (2 * (old \div 2) + (new % 2)) % W ELSE new

Is(op, f, rs, rt, rd, imm) ==
    [op |-> op, f |-> f, rs |-> rs, rt |-> rt, rd |-> rd, imm |-> imm]

Legal(slots) ==
    {p \in [Word -> slots] : LegalProgram(p) /\ BootSafe(p)}

(* r1 and r2 depend on each other in every way; r0 is read and written.    *)
MemorySlots == {
    Is("ITYPE", "ADD", 0, 1, 0, 1),     \* r1 = 1
    Is("RTYPE", "ADD", 1, 2, 2, 0),     \* r2 = r1 + r2
    Is("RTYPE", "ADD", 1, 2, 0, 0),     \* r0 = r1 + r2
    Is("LOAD",  "FULL", 1, 2, 0, 1),    \* r2 = mem[r1 + 1]
    Is("LOADS", "BYTE", 0, 1, 0, 2),    \* r1 = signed byte of mem[2]
    Is("LOAD",  "BYTE", 2, 0, 0, 0),    \* r0 = byte of mem[r2]
    Is("STORE", "FULL", 0, 2, 0, 2),    \* mem[2] = r2
    Is("STORE", "BYTE", 2, 1, 0, 1)     \* byte of mem[r2 + 1] = r1
}
MemoryPrograms == Legal(MemorySlots)

BranchSlots == {
    Is("ITYPE", "ADD", 1, 1, 0, 1),     \* r1 = r1 + 1
    Is("LOAD",  "FULL", 0, 1, 0, 3),    \* r1 = mem[3]
    Is("BEQ",   "ADD", 0, 1, 0, 2),     \* if r1 = 0
    Is("BEQL",  "SLL", 1, 2, 0, 3),     \* likely, if r1 # r2
    Is("BGEZAL", "ADD", 1, 2, 0, 1),    \* r2 = link; if r1 = r2
    Is("J",     "SLL", 0, 0, 0, 2),
    Is("JAL",   "SLL", 1, 1, 0, 0),
    Is("JR",    "SLL", 1, 0, 0, 0),
    Is("JALR",  "SLL", 1, 0, 1, 0),     \* r1 = link, jump to old r1
    Is("ERET",  "SLL", 0, 0, 0, 0)      \* to EPC, which is 0
}
BranchPrograms == Legal(BranchSlots)

SystemSlots == {
    Is("ITYPE", "ADD", 1, 1, 0, 3),     \* r1 = r1 + 3
    Is("LOAD",  "FULL", 0, 1, 0, 1),    \* r1 = mem[1]
    Is("MTC0",  "FULL", 0, 1, 1, 0),    \* STATUS = r1
    Is("MTC0",  "FULL", 0, 1, 2, 0),    \* EPC = r1
    Is("MFC0",  "BYTE", 0, 1, 1, 0),    \* r1 = STATUS
    Is("ERET",  "SLL", 0, 0, 0, 0),
    Is("MULT",  "ADD", 1, 1, 0, 0),     \* hi/lo = r1 + r1
    Is("MFHILO", "SLL", 0, 0, 1, 0),    \* r1 = hi/lo
    Is("CACHE", "SLL", 0, 0, 0, 0),
    Is("ERROR", "SLL", 0, 0, 0, 0)
}
SystemPrograms == Legal(SystemSlots)

(* Four slots of data instructions and a bubble; five around branches.     *)
AllPrograms ==
    BranchPrograms \cup
    {p \in Legal(MemorySlots \cup {Nop}) \cup Legal(SystemSlots \cup {Nop}) :
        \A a \in Word : p[a] = Nop <=> a = W - 1}

(* Programs that end in front of the unmapped word W - 1, or jump back.    *)
FaultSlots == {
    Is("ITYPE", "ADD", 1, 1, 0, 1),     \* r1 = r1 + 1
    Is("LOAD",  "FULL", 1, 2, 0, 1),    \* r2 = mem[r1 + 1]
    Is("STORE", "FULL", 1, 1, 0, 2),    \* mem[r1 + 2] = r1
    Is("LWL",   "BYTE", 0, 1, 0, 2),    \* part of r1 = mem[2]
    Is("SDL",   "BYTE", 1, 1, 0, 2),    \* part of mem[r1 + 2] = r1
    Is("LDC1",  "FULL", 1, 2, 0, 2),    \* f2 = mem[r1 + 2]
    Is("FOP",   "ADD", 2, 2, 1, 0),     \* f1 = f2 + f2
    Is("SDC1",  "FULL", 0, 1, 0, 2),    \* mem[2] = f1
    Is("J",     "SLL", 0, 0, 0, 0),
    Is("ERROR", "SLL", 0, 0, 0, 0)
}
FaultPrograms == {p \in Legal(FaultSlots) : p[W - 1].op = "FOP"}
=============================================================================
