--------------------------- MODULE WrapperProofs ----------------------------
(***************************************************************************)
(* Proofs about module Wrapper, for every length of a batch.  WrapperInv   *)
(* is inductive; each bound is one of its conjuncts.                       *)
(***************************************************************************)
EXTENDS Wrapper, TLAPS

LEMMA InitWrapper == Init => WrapperInv
<1> SUFFICES ASSUME Init PROVE WrapperInv  OBVIOUS
<1>0. /\ stopped = FALSE /\ paused = FALSE /\ step = FALSE /\ draw = FALSE
      /\ thrown = FALSE
    BY DEF Init
<1>1. ~step /\ ~thrown  BY <1>0, Zenon
<1>2. /\ stopped \in BOOLEAN /\ paused \in BOOLEAN /\ step \in BOOLEAN
      /\ draw \in BOOLEAN /\ thrown \in BOOLEAN
    BY <1>0, Zenon
<1>3. TypeOK BY <1>2, BatchAssumption DEF Init, TypeOK, Control
<1> QED
    BY <1>1, <1>3, BatchAssumption DEF Init, WrapperInv, LoopInv, AfterInv,
        ThrowInv, StepInv, ClosesInABatch, ThrowEndsBatch, StepsAskedFor

(* The thread on its way into the loop.                                    *)
LEMMA StartPreserves ==
    WrapperInv /\ (Start \/ ClearPaused \/ ClearStopped \/ ClearStep
                     \/ ResetMachine \/ FirstPaused) => WrapperInv'
<1> USE BatchAssumption DEF WrapperInv, TypeOK, LoopInv, AfterInv,
        ThrowInv, StepInv, ClosesInABatch, ThrowEndsBatch, StepsAskedFor,
        Control, Running, Starting, flags, bounds, history, Goto
<1> SUFFICES ASSUME WrapperInv PROVE
        Start \/ ClearPaused \/ ClearStopped \/ ClearStep \/ ResetMachine
            \/ FirstPaused => WrapperInv'
    OBVIOUS
<1>1. CASE Start        BY <1>1 DEF Start
<1>2. CASE ClearPaused  BY <1>2 DEF ClearPaused
<1>3. CASE ClearStopped
    <2>0. stopped' = FALSE /\ thrown' = FALSE  BY <1>3 DEF ClearStopped
    <2>1. ~stopped' /\ ~thrown'  BY <2>0, Zenon
    <2>2. stopped' \in BOOLEAN /\ thrown' \in BOOLEAN  BY <2>0, Zenon
    <2> QED BY <1>3, <2>1, <2>2 DEF ClearStopped
<1>4. CASE ClearStep    BY <1>4 DEF ClearStep
<1>5. CASE ResetMachine
    <2>1. CASE UNCHANGED <<stopped, cur>>
        BY <1>5, <2>1 DEF ResetMachine
    <2>2. CASE stopped' = TRUE /\ cur' = Batch - 1
        <3>1. stopped' /\ cur' \in 0 .. Batch  BY <2>2
        <3> QED BY <1>5, <2>2, <3>1 DEF ResetMachine
    <2> QED BY <1>5, <2>1, <2>2 DEF ResetMachine
<1>6. CASE FirstPaused  BY <1>6 DEF FirstPaused
<1> QED BY <1>1, <1>2, <1>3, <1>4, <1>5, <1>6

(* The batch: what runs and counts.                                        *)
LEMMA LoopPreserves ==
    WrapperInv /\ (Zero \/ Test \/ Update \/ TrapEscapes \/ Read \/ Write)
        => WrapperInv'
<1> USE BatchAssumption DEF WrapperInv, TypeOK, LoopInv, AfterInv,
        ThrowInv, StepInv, ClosesInABatch, ThrowEndsBatch, StepsAskedFor,
        Control, Running, Starting, flags, bounds, history, Goto
<1> SUFFICES ASSUME WrapperInv PROVE
        Zero \/ Test \/ Update \/ TrapEscapes \/ Read \/ Write => WrapperInv'
    OBVIOUS
<1>1. CASE Zero  BY <1>1 DEF Zero
<1>2. CASE Test  BY <1>2 DEF Test
<1>3. CASE Update
    <2>1. CASE Quiet BY <1>3, <2>1 DEF Update, Cycle, Quiet
    <2>2. CASE Catch BY <1>3, <2>2 DEF Update, Cycle, Catch
    <2> QED BY <1>3, <2>1, <2>2 DEF Update
<1>4. CASE TrapEscapes BY <1>4 DEF TrapEscapes
<1>5. CASE Read  BY <1>5 DEF Read
<1>6. CASE Write BY <1>6 DEF Write
<1> QED BY <1>1, <1>2, <1>3, <1>4, <1>5, <1>6

(* Between two batches.                                                    *)
LEMMA BreakPreserves ==
    WrapperInv /\ (CheckStopped \/ CheckPaused \/ ShouldDraw \/ Wait \/ Take
                     \/ Single) => WrapperInv'
<1> USE BatchAssumption DEF WrapperInv, TypeOK, LoopInv, AfterInv,
        ThrowInv, StepInv, ClosesInABatch, ThrowEndsBatch, StepsAskedFor,
        Control, Running, Starting, flags, bounds, history, Goto
<1> SUFFICES ASSUME WrapperInv PROVE
        CheckStopped \/ CheckPaused \/ ShouldDraw \/ Wait \/ Take \/ Single
            => WrapperInv'
    OBVIOUS
<1>1. CASE CheckStopped BY <1>1 DEF CheckStopped
<1>2. CASE CheckPaused  BY <1>2 DEF CheckPaused
<1>3. CASE ShouldDraw   BY <1>3 DEF ShouldDraw
<1>4. CASE Wait         BY <1>4 DEF Wait
<1>5. CASE Take
    <2>0. step' = FALSE  BY <1>5 DEF Take
    <2>1. ~step'  BY <2>0, Zenon
    <2>2. step' \in BOOLEAN  BY <2>0, Zenon
    <2>3. singles < requests  BY <1>5 DEF Take
    <2> QED BY <1>5, <2>1, <2>2, <2>3 DEF Take
<1>6. CASE Single
    <2>1. CASE Quiet BY <1>6, <2>1 DEF Single, Cycle, Quiet
    <2>2. CASE Catch BY <1>6, <2>2 DEF Single, Cycle, Catch
    <2> QED BY <1>6, <2>1, <2>2 DEF Single
<1> QED BY <1>1, <1>2, <1>3, <1>4, <1>5, <1>6

(* The other thread, between any two steps of the first.                   *)
LEMMA FrontEndPreserves == WrapperInv /\ FrontEnd => WrapperInv'
<1> USE BatchAssumption DEF WrapperInv, TypeOK, LoopInv, AfterInv,
        ThrowInv, StepInv, ClosesInABatch, ThrowEndsBatch, StepsAskedFor,
        Control, Running, Starting, flags, bounds, history, Call
<1> SUFFICES ASSUME WrapperInv, FrontEnd PROVE WrapperInv'  OBVIOUS
<1>1. CASE RequestStop BY <1>1 DEF RequestStop
<1>2. CASE ExtraClose  BY <1>2 DEF ExtraClose
<1>3. CASE SetPaused   BY <1>3 DEF SetPaused
<1>4. CASE RequestStep BY <1>4 DEF RequestStep
<1>5. CASE Draw        BY <1>5 DEF Draw
<1> QED BY <1>1, <1>2, <1>3, <1>4, <1>5 DEF FrontEnd

LEMMA NextPreserves == WrapperInv /\ [Next]_vars => WrapperInv'
<1> SUFFICES ASSUME WrapperInv, [Next]_vars PROVE WrapperInv'  OBVIOUS
<1>1. CASE UNCHANGED vars
    BY <1>1 DEF vars, WrapperInv, TypeOK, LoopInv, AfterInv, ThrowInv,
        StepInv, ClosesInABatch, ThrowEndsBatch, StepsAskedFor
<1>2. CASE Start \/ Emulate
    BY <1>2, StartPreserves, LoopPreserves, BreakPreserves DEF Emulate
<1>3. CASE FrontEnd BY <1>3, FrontEndPreserves
<1> QED BY <1>1, <1>2, <1>3 DEF Next, Terminated

LEMMA WrapperInvariant == Spec => []WrapperInv
BY InitWrapper, NextPreserves, PTL DEF Spec

(* The loop counter, which two threads write without a lock, never leaves  *)
(* its range, and neither does any other variable.                         *)
THEOREM WrapperTypeCorrect == Spec => []TypeOK
<1>1. WrapperInv => TypeOK BY DEF WrapperInv
<1> QED BY <1>1, WrapperInvariant, PTL

(* A stop is obeyed within one batch, a single step and one update for     *)
(* each store to the counter that the loop's increment has met.            *)
THEOREM StopWithinABatch == Spec => []ClosesInABatch
<1>1. WrapperInv => ClosesInABatch BY DEF WrapperInv
<1> QED BY <1>1, WrapperInvariant, PTL

(* A machine that has thrown in a batch is left alone.                     *)
THEOREM NoUpdateAfterThrow == Spec => []ThrowEndsBatch
<1>1. WrapperInv => ThrowEndsBatch BY DEF WrapperInv
<1> QED BY <1>1, WrapperInvariant, PTL

(* No step without a request.                                              *)
THEOREM EveryStepRequested == Spec => []StepsAskedFor
<1>1. WrapperInv => StepsAskedFor BY DEF WrapperInv
<1> QED BY <1>1, WrapperInvariant, PTL
=============================================================================
