-------------------------------- MODULE MCN64 ------------------------------
(***************************************************************************)
(* Sixteen words.  A program sets VI_V_INTR to line 1, lets VI interrupts  *)
(* pass in MI_MASK, enables them in CP0_STATUS and then loops over three   *)
(* slots of its own; CP0_STATUS or CP0_COMPARE may be written already by   *)
(* the second instruction, in fill_pipeline.  The vector is slot 12; the   *)
(* handler acknowledges the interrupt, with its store right at the vector  *)
(* or right in front of ERET.                                              *)
(***************************************************************************)
EXTENDS N64

MCReg == 0 .. 4
MCFunc == {"SLL", "ADD", "FULL", "BYTE"}
MCBootMem == [a \in Word |-> W - 1 - a]
MCAlu(f, a, b) == IF f = "ADD" THEN (a + b) % W ELSE b
MCTest(f, a, b) == IF f = "ADD" THEN a = b ELSE a # b
MCNarrow(f, w) == w
MCMerge(f, old, new) == new
MCStoreSize(f) == IF f = "BYTE" THEN 1 ELSE 4

Is(op, f, rs, rt, rd, imm) ==
    [op |-> op, f |-> f, rs |-> rs, rt |-> rt, rd |-> rd, imm |-> imm]

AddOne == Is("ITYPE", "ADD", 1, 1, 0, 1)            \* r1 = r1 + 1
Pause  == Is("CACHE", "SLL", 0, 0, 0, 0)

Store(f, rt, a) == Is("STORE", f, 0, rt, 0, a)
Move(rd, rt) == Is("MTC0", "FULL", 0, rt, rd, 0)

Enable == Is("ITYPE", "ADD", 0, 1, 0, 9)            \* r1 = IE and IM2
Line1  == Is("ITYPE", "ADD", 0, 2, 0, 1)            \* r2 = line 1
Arm    == Store("BYTE", 2, ViIntr)
Unmask == Store("FULL", 2, MiMask)

LateStart   == << Enable, Line1, Arm, Unmask, Move(StatusReg, 1), Pause >>
EarlyStarts ==
    { << Enable, Move(StatusReg, 1), Line1, Arm, Unmask, Pause >>,
      << Enable, Move(CompareReg, 1), Line1, Arm, Unmask, Move(StatusReg, 1) >> }

Loads == { AddOne, Is("LOAD", "FULL", 0, 1, 0, 6) } \* r1 = mem[6], 9 again
Body == Loads \cup
        { Arm,                                      \* line 1 once more
          Store("FULL", 2, ViIntr),                 \* in the host: no line
          Store("BYTE", 1, MiInterrupt),            \* raises VI from r1
          Store("BYTE", 0, MiInterrupt),            \* drops what is pending
          Move(StatusReg, 1),
          Move(CompareReg, 1),
          Move(CauseReg, 0) }                       \* drops a pending IP2

Ack == Store("FULL", 2, ViCurrent)
Handlers == { <<Ack, AddOne>>, <<AddOne, Ack>> }

ProgramOf(start, b1, b2, b3, h) ==
    [a \in Word |-> CASE a < 6         -> start[a + 1]
                      [] a \in 6 .. 8   -> <<b1, b2, b3>>[a - 5]
                      [] a = 9          -> Is("J", "SLL", 0, 0, 0, 6)
                      [] a \in 12 .. 13 -> h[a - 11]
                      [] a = 14         -> Is("ERET", "SLL", 0, 0, 0, 0)
                      [] OTHER          -> Pause]

MCPrograms ==
    { ProgramOf(LateStart, b1, b2, b3, h) :
        b1 \in Body, b2 \in Body, b3 \in Loads, h \in Handlers }
    \cup
    { ProgramOf(start, b1, AddOne, AddOne, h) :
        start \in EarlyStarts, b1 \in Body, h \in Handlers }

MCStatuses == {StatusOf(w) : w \in Word}
MCViStores == {1, 4} \X Word
MCPendingStores == SUBSET DOMAIN MiBit
MCMaskStores == {[set |-> {"VI"}, clear |-> {}]}
=============================================================================
