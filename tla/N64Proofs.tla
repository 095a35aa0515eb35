----------------------------- MODULE N64Proofs ------------------------------
(***************************************************************************)
(* The machine of module N64 is both of its halves: each of its steps is a *)
(* step of PipelineIrq, or none, and a step of Scheduler, or none.  What   *)
(* PipelineIrqProofs proves of the pipeline under interrupts that come at  *)
(* any time therefore holds under those that the queue really sends.       *)
(* What needs both halves comes after that: how many cycles a VI event is  *)
(* away from its handler, and that the handler acknowledges it in time.    *)
(***************************************************************************)
EXTENDS N64, PipelineIrqProofs, Integers

(* N64 implements PipelineIrq.                                             *)
THEOREM DrivesThePipeline == N64Spec => ImplementsPipelineIrq
<1>1. N64Init => IrqInit
  BY DEF N64Init
<1>2. ASSUME [N64Next]_n64Vars
      PROVE  [IrqNext]_<<vars, irqVars>>
  <2>1. CASE Update \/ EndDrain \/ Horizon \/ UNCHANGED n64Vars
    BY <2>1 DEF Update, EndDrain, Horizon, n64Vars, pipeline
  <2>2. CASE HandleEvent
    <3>1. TakeInterrupt \/ UNCHANGED pipeline
      BY <2>2 DEF HandleEvent
    <3> QED
      BY <3>1 DEF IrqNext, pipeline
  <2>3. CASE RunWB \/ RunEX \/ RunFillEX \/ RunOther \/ N64Reset
    BY <2>3 DEF RunWB, RunEX, RunFillEX, Execute, RunOther, N64Reset, IrqNext
  <2> QED
    BY <1>2, <2>1, <2>2, <2>3 DEF N64Next
<1> QED
  BY <1>1, <1>2, PTL DEF N64Spec, ImplementsPipelineIrq, IrqSpec

LEMMA LatchesTyped == N64Spec => []TypeOK
<1>1. IrqInv => TypeOK
  BY DEF IrqInv
<1>2. IrqSpec => []IrqInv
  BY IrqInvInit, IrqInvNext, PTL DEF IrqSpec, allVars
<1> QED
  BY <1>1, <1>2, DrivesThePipeline, PTL DEF ImplementsPipelineIrq

(* ClearEXL clears the one bit.                                            *)
LEMMA ClearEXLStatus ==
    ASSUME NEW w \in Nat
    PROVE  StatusOf(ClearEXL(w)) = [StatusOf(w) EXCEPT !.exl = FALSE]
<1>1. /\ IE(ClearEXL(w)) <=> IE(w)
      /\ ~EXL(ClearEXL(w))
      /\ ERL(ClearEXL(w)) <=> ERL(w)
      /\ Bit2(ClearEXL(w)) <=> Bit2(w)
  BY DEF ClearEXL, EXL, IE, ERL, Bit2
<1>2. [StatusOf(w) EXCEPT !.exl = FALSE] =
        [ie |-> IE(w), exl |-> FALSE, erl |-> ERL(w), im2 |-> Bit2(w)]
  <2>1. ASSUME NEW t
        PROVE  [StatusOf(w) EXCEPT !.exl = t] =
               [ie |-> IE(w), exl |-> t, erl |-> ERL(w), im2 |-> Bit2(w)]
    BY DEF StatusOf
  <2> QED
    BY <2>1, Zenon
<1>3. /\ IE(ClearEXL(w)) = IE(w) /\ EXL(ClearEXL(w)) = FALSE
      /\ ERL(ClearEXL(w)) = ERL(w) /\ Bit2(ClearEXL(w)) = Bit2(w)
  <2>1. /\ IE(w) \in BOOLEAN /\ IE(ClearEXL(w)) \in BOOLEAN
        /\ EXL(ClearEXL(w)) \in BOOLEAN
        /\ ERL(w) \in BOOLEAN /\ ERL(ClearEXL(w)) \in BOOLEAN
        /\ Bit2(w) \in BOOLEAN /\ Bit2(ClearEXL(w)) \in BOOLEAN
    BY DEF IE, EXL, ERL, Bit2
  <2> QED
    BY <1>1, <2>1, Zenon
<1> QED
  BY <1>2, <1>3, Zenon DEF StatusOf

(* The registers of CP0 that the queue looks at, behind an instruction.    *)
LEMMA Cp0InEX ==
    ASSUME TypeOK, EX
    PROVE  /\ ~Moves(StatusReg) /\ I.op # "ERET" =>
                cp0'[StatusReg] = cp0[StatusReg]
           /\ I.op = "ERET" => cp0'[StatusReg] = ClearEXL(cp0[StatusReg])
           /\ ~Moves(CompareReg) => cp0'[CompareReg] = cp0[CompareReg]
<1>1. /\ cp0 \in [Reg -> Word] /\ {StatusReg, CompareReg} \subseteq Reg
      /\ StatusReg # CompareReg
  BY RegAssumption, DeviceAssumption DEF TypeOK
<1>2. UNCHANGED cp0 \/ ExMoveToCp0 \/ ExERET
  BY DEF EX, ExCompute, ExLoad, ExStore, ExStorePart, ExLoadPart,
         ExLoadFloat, ExStoreFloat, ExBranch, ExMultiply, ExFloat,
         ExNothing, regs
<1>3. CASE ExMoveToCp0
  <2>1. cp0' = [cp0 EXCEPT ![I.rd] = SignExtend(I.f, gpr[I.rt])]
        /\ I.op = "MTC0"
    BY <1>3 DEF ExMoveToCp0, Executes
  <2> QED
    BY <1>1, <2>1 DEF Moves
<1>4. CASE ExERET
  <2>1. cp0' = [cp0 EXCEPT ![StatusReg] = ClearEXL(@)] /\ I.op = "ERET"
    BY <1>4 DEF ExERET, Executes
  <2> QED
    BY <1>1, <2>1
<1>5. CASE UNCHANGED cp0 /\ ~ExERET
  <2>1. I.op # "ERET"
    BY <1>5 DEF EX, ExCompute, ExLoad, ExStore, ExStorePart, ExLoadPart,
       ExLoadFloat, ExStoreFloat, ExBranch, ExMultiply, ExMoveToCp0,
       ExFloat, ExNothing, Executes, ComputeOps, LoadOps, BranchOps,
       PlainOps, LikelyOps, JumpOps
  <2> QED
    BY <1>5, <2>1
<1> QED
  BY <1>2, <1>3, <1>4, <1>5

LEMMA QueueRegistersInEX ==
    ASSUME TypeOK, TypeOK', EX
    PROVE  /\ status' \in Statuses /\ compare' \in Compares
           /\ ~Moves(StatusReg) /\ I.op # "ERET" => status' = status
           /\ I.op = "ERET" => status' = [status EXCEPT !.exl = FALSE]
           /\ ~Moves(CompareReg) => compare' = compare
<1>1. /\ cp0 \in [Reg -> Word] /\ cp0' \in [Reg -> Word]
      /\ {StatusReg, CompareReg} \subseteq Reg
  BY RegAssumption, DeviceAssumption DEF TypeOK
<1>2. status' \in Statuses /\ compare' \in Compares
  <2>1. cp0'[StatusReg] \in Word /\ cp0'[CompareReg] \in Word
    BY <1>1
  <2>2. StatusOf(cp0'[StatusReg]) \in Statuses /\ cp0'[CompareReg] \in Compares
    BY <2>1, StoreAssumption
  <2> QED
    BY <2>2 DEF status, compare
<1>3. ASSUME I.op = "ERET"
      PROVE  status' = [status EXCEPT !.exl = FALSE]
  <2>1. cp0'[StatusReg] = ClearEXL(cp0[StatusReg])
    BY <1>3, Cp0InEX
  <2>2. cp0[StatusReg] \in Nat
    BY <1>1, WordAssumption DEF Word
  <2> QED
    BY <2>1, <2>2, ClearEXLStatus DEF status
<1> QED
  BY <1>2, <1>3, Cp0InEX DEF status, compare

(* EX is one of the moves that the queue allows, or none of its business.  *)
LEMMA ExecuteInQueue ==
    ASSUME TypeOK, TypeOK', Execute
    PROVE  S!Execute
<1>1. /\ EX /\ QueueEX
      /\ UNCHANGED <<viIntr, halflines, miInterrupt, miMask, owed, resets>>
      /\ IF \E r \in {StatusReg, CauseReg, CompareReg} : Moves(r)
         THEN writes < MaxWrites /\ writes' = writes + 1
         ELSE UNCHANGED writes
  BY DEF Execute
<1>2. /\ StatusReg # CauseReg /\ StatusReg # CompareReg
      /\ CauseReg # CompareReg
  BY DeviceAssumption
<1>3. /\ status' \in Statuses /\ compare' \in Compares
      /\ ~Moves(StatusReg) /\ I.op # "ERET" => status' = status
      /\ I.op = "ERET" => status' = [status EXCEPT !.exl = FALSE]
      /\ ~Moves(CompareReg) => compare' = compare
  BY <1>1, QueueRegistersInEX
<1>4. CASE Moves(StatusReg)
  <2>1. S!MoveToStatus
    BY <1>1, <1>2, <1>3, <1>4 DEF QueueEX, Moves, S!MoveToStatus
  <2> QED
    BY <1>1, <1>4, <2>1 DEF S!Execute, S!rcp
<1>5. CASE Moves(CauseReg)
  <2>1. ip2' \in BOOLEAN /\ UNCHANGED <<scheduler, pushes>>
    <3>1. ip2' = Bit2(cp0'[CauseReg]) /\ UNCHANGED <<scheduler, pushes>>
      BY <1>1, <1>2, <1>5 DEF QueueEX, Moves
    <3>2. Bit2(cp0'[CauseReg]) \in BOOLEAN
      BY DEF Bit2
    <3> QED
      BY <3>1, <3>2, Zenon
  <2>2. S!MoveToCause
    BY <1>2, <1>3, <1>5, <2>1 DEF Moves, S!MoveToCause
  <2> QED
    BY <1>1, <1>5, <2>2 DEF S!Execute, S!rcp
<1>6. CASE Moves(CompareReg)
  <2>1. S!MoveToCompare
    BY <1>1, <1>2, <1>3, <1>6 DEF QueueEX, Moves, S!MoveToCompare
  <2> QED
    BY <1>1, <1>6, <2>1 DEF S!Execute, S!rcp
<1>7. CASE I.op = "ERET"
  <2>1. UNCHANGED <<scheduler, pushes, ip2, writes>>
    BY <1>1, <1>7 DEF QueueEX, Moves
  <2>2. S!ERET
    BY <1>3, <1>7, <2>1 DEF Moves, S!ERET
  <2> QED
    BY <1>1, <2>1, <2>2 DEF S!Execute, S!rcp
<1>8. CASE /\ I.op # "ERET"
           /\ \A r \in {StatusReg, CauseReg, CompareReg} : ~Moves(r)
  <2>1. UNCHANGED <<scheduler, pushes, ip2, writes>>
    BY <1>1, <1>8 DEF QueueEX
  <2> QED
    BY <1>1, <1>3, <1>8, <2>1 DEF S!Execute, S!rcp, S!cp0
<1> QED
  BY <1>4, <1>5, <1>6, <1>7, <1>8

(* What WB may do to the queue.                                            *)
LEMMA StoreCases ==
    ASSUME RunWB
    PROVE  \/ S!StoreViIntrOf({<<StoreSize(dcwb.f), StoreData>>})
           \/ S!StoreMiMaskOf({MaskVi})
           \/ S!StoreViCurrent
           \/ /\ StoresTo(MiInterrupt)
              /\ S!StoreMiInterruptOf({StoredPending(dcwb.f, StoreData)})
           \/ S!NoStore
BY DEF RunWB

LEMMA StoreInQueue ==
    ASSUME TypeOK, RunWB
    PROVE  S!Step
<1>1. /\ <<StoreSize(dcwb.f), StoreData>> \in ViStores
      /\ StoredPending(dcwb.f, StoreData) \in PendingStores
  BY StoreAssumption DEF TypeOK, DCWB, StoreData
<1>2. MaskVi \in MaskStores
  BY StoreAssumption DEF MaskVi
<1>3. S!StoreViIntrOf({<<StoreSize(dcwb.f), StoreData>>}) => S!StoreViIntr
  BY <1>1 DEF S!StoreViIntr, S!StoreViIntrOf
<1>4. S!StoreMiMaskOf({MaskVi}) => S!StoreMiMask
  BY <1>2 DEF S!StoreMiMask, S!StoreMiMaskOf
<1>5. S!StoreMiInterruptOf({StoredPending(dcwb.f, StoreData)}) => S!StoreMiInterrupt
  BY <1>1 DEF S!StoreMiInterrupt, S!StoreMiInterruptOf
<1> QED
  BY <1>3, <1>4, <1>5, StoreCases DEF S!Step

(* EX leaves RF/EX and IC/RF as they are or puts a bubble there, and the   *)
(* program counter too while fill_pipeline fetches.                        *)
LEMMA FrontAfterEX ==
    ASSUME TypeOK, EX
    PROVE  /\ stage = "EX" /\ UNCHANGED fill
           /\ icrf' = icrf \/ icrf'.instr = Nop
           /\ fill < 4 => stage' = "RF"
<1>1. icrf' = icrf \/ icrf'.instr = Nop
  <2>1. icrf' = icrf \/ Squash
    BY DEF EX, ExCompute, ExLoad, ExStore, ExStorePart, ExLoadPart,
           ExLoadFloat, ExStoreFloat, ExBranch, ExMultiply, ExMoveToCp0,
           ExFloat, ExNothing, ExERET
  <2> QED
    BY <2>1 DEF Squash, TypeOK, ICRF
<1>2. stage = "EX" /\ UNCHANGED fill
  BY DEF EX, ExCompute, ExLoad, ExStore, ExStorePart, ExLoadPart,
         ExLoadFloat, ExStoreFloat, ExBranch, ExMultiply, ExMoveToCp0,
         ExFloat, ExNothing, ExERET, Executes, Runs, program
<1>3. ASSUME fill < 4
      PROVE  stage' = "RF"
  <2>1. ExLoad => stage' = "RF"
    BY <1>3 DEF ExLoad, EndEX
  <2>2. ~ExLoad => EndEX(ldi)
    BY DEF EX, ExCompute, ExStore, ExStorePart, ExLoadPart,
         ExLoadFloat, ExStoreFloat, ExBranch, ExMultiply, ExMoveToCp0,
         ExFloat, ExNothing, ExERET
  <2> QED
    BY <1>3, <2>1, <2>2 DEF EndEX
<1> QED
  BY <1>1, <1>2, <1>3

(* The clock does not run before fill_pipeline is through.                 *)
FillInv == fill < 4 => phase = "idle" /\ time = 0

LEMMA FillNext ==
    ASSUME TypeOK, FillInv, [N64Next]_n64Vars
    PROVE  FillInv'
<1>1. CASE Update \/ EndDrain \/ Horizon \/ UNCHANGED n64Vars
  BY <1>1 DEF Update, EndDrain, Horizon, n64Vars, pipeline, vars, queue,
     FillInv, S!EndDrain
<1>2. CASE HandleEvent
  <2>1. fill = 4
    BY <1>2 DEF FillInv, HandleEvent, S!HandleEventOf, TypeOK
  <2>2. fill' = fill
    BY <1>2, InterruptFrame DEF HandleEvent, pipeline, vars
  <2> QED
    BY <2>1, <2>2 DEF FillInv
<1>3. CASE RunWB
  BY <1>3 DEF RunWB, WB, program, FillInv
<1>4. CASE RunEX \/ RunFillEX
  BY <1>4, FrontAfterEX DEF RunEX, RunFillEX, Execute, FillInv
<1>5. CASE RunOther
  <2>1. fill' < 4 => fill < 4
    BY <1>5 DEF RunOther, DC, RF, IC, program, TypeOK
  <2> QED
    BY <1>5, <2>1 DEF RunOther, queue, FillInv
<1>6. CASE N64Reset
  BY <1>6 DEF N64Reset, S!Reset, FillInv
<1> QED
  BY <1>1, <1>2, <1>3, <1>4, <1>5, <1>6 DEF N64Next

(* N64 implements Scheduler: what the pipeline does to the registers, in   *)
(* WB, in EX and in fill_pipeline, is what the queue was checked against.  *)
THEOREM DrivesTheQueue == N64Spec => ImplementsScheduler
<1>1. N64Init => S!Init
  BY DEF N64Init
<1>2. ASSUME TypeOK, TypeOK', FillInv, [N64Next]_n64Vars
      PROVE  [S!Next]_(S!vars)
  <2>1. CASE Update \/ HandleEvent \/ EndDrain \/ Horizon
    BY <2>1 DEF Update, HandleEvent, EndDrain, Horizon,
       S!HandleEvent, S!Next, S!Step
  <2>2. CASE N64Reset
    BY <2>2 DEF N64Reset, S!Next
  <2>3. CASE RunOther \/ UNCHANGED n64Vars
    <3>1. UNCHANGED <<queue, cp0>>
      BY <2>3 DEF RunOther, DC, RF, IC, regs, n64Vars, pipeline, vars
    <3> QED
      BY <3>1 DEF queue, S!vars, status, compare
  <2>4. CASE RunWB
    BY <1>2, <2>4, StoreInQueue DEF S!Next
  <2>5. CASE RunEX
    <3>1. S!EX
      BY <1>2, <2>5, ExecuteInQueue DEF RunEX, S!EX
    <3> QED
      BY <3>1 DEF S!Next, S!Step
  <2>6. CASE RunFillEX
    <3>1. S!FillEX
      BY <1>2, <2>6, ExecuteInQueue DEF RunFillEX, FillInv, S!FillEX
    <3> QED
      BY <3>1 DEF S!Next
  <2> QED
    BY <1>2, <2>1, <2>2, <2>3, <2>4, <2>5, <2>6 DEF N64Next
<1>3. N64Init => FillInv
  BY DEF N64Init, S!Init, FillInv
<1>4. TypeOK /\ FillInv /\ [N64Next]_n64Vars => FillInv'
  BY FillNext
<1> QED
  BY <1>1, <1>2, <1>3, <1>4, LatchesTyped, PTL
     DEF N64Spec, ImplementsScheduler, S!Spec

(* With the events of the queue as with any others, an interrupt with no   *)
(* branch in flight goes to the handler.                                   *)
THEOREM HandlerIsFetchedInN64 == N64Spec => []HandlerFetched
  BY DrivesThePipeline, HandlerIsFetched DEF ImplementsPipelineIrq

(* And the return from the first interrupt of the queue skips nothing.     *)
THEOREM ReturnSkipsNothingInN64 == N64Spec => NothingSkipped
  BY DrivesThePipeline, ReturnSkipsNothing DEF ImplementsPipelineIrq
-----------------------------------------------------------------------------
(* What SchedulerProofs knows of interrupts, in the machine: the queue of  *)
(* N64 is the one those proofs are about.                                  *)
Q == INSTANCE SchedulerProofs

(* No interrupt is requested and not yet decided.                          *)
NoneQueued == \A e \in scheduler : e.type # "Interrupt"

(* Requests are decided within the drain; one that is owed will pass.      *)
QueueInv ==
    /\ phase # "drain" => NoneQueued
    /\ owed => /\ \E e \in S!Due : e.type = "Interrupt"
               /\ miInterrupt \cap miMask # {} /\ S!Serviceable

LEMMA SameInit == S!Init <=> Q!Init
BY DEF S!Init, Q!Init, S!ClearStatus, Q!ClearStatus

LEMMA SameNext == S!Next <=> Q!Next
BY Zenon DEF S!Next, Q!Next, S!Step, Q!Step, S!Update, Q!Update,
   S!EndDrain, Q!EndDrain, S!StoreViCurrent, Q!StoreViCurrent,
   S!StoreViSync, Q!StoreViSync, S!StoreMiMask, Q!StoreMiMask,
   S!StoreMiMaskOf, Q!StoreMiMaskOf, S!StoreMiInterrupt,
   Q!StoreMiInterrupt, S!StoreMiInterruptOf, Q!StoreMiInterruptOf,
   S!Execute, Q!Execute, S!FillEX, Q!FillEX, S!NoStore, Q!NoStore, S!Reset, Q!Reset,
   S!Horizon, Q!Horizon, S!StoreViIntr, Q!StoreViIntr, S!StoreViIntrOf,
   Q!StoreViIntrOf, S!EX, Q!EX, S!MoveToStatus, Q!MoveToStatus,
   S!MoveToCause, Q!MoveToCause, S!MoveToCompare, Q!MoveToCompare, S!ERET,
   Q!ERET, S!HandleEvent, Q!HandleEvent, S!HandleEventOf, Q!HandleEventOf,
   S!HandleCount, Q!HandleCount, S!HandleInterrupt, Q!HandleInterrupt,
   S!HandleVi, Q!HandleVi, S!Serviceable, Q!Serviceable, S!Outdated,
   Q!Outdated, S!Due, Q!Due, S!Tops, Q!Tops, S!PopAfter, Q!PopAfter, S!Push,
   Q!Push, S!Write, Q!Write, S!ViEvent, Q!ViEvent, S!InterruptEvent,
   Q!InterruptEvent, S!CountEvent, Q!CountEvent, S!StoreBytes, Q!StoreBytes,
   S!Swap, Q!Swap, S!Size, Q!Size, S!TimePer, Q!TimePer, S!CurLine,
   Q!CurLine, S!LinesLeft, Q!LinesLeft, S!Line, Q!Line, S!Arms, Q!Arms,
   S!ToInt, Q!ToInt, S!rcp, Q!rcp, S!cp0, Q!cp0, S!bounds, Q!bounds,
   S!ClearStatus, Q!ClearStatus, S!vars, Q!vars

LEMMA SameAssumptions ==
    Q!FrameAssumption /\ Q!WidthAssumption /\ Q!InputAssumption
BY QueueAssumption DEF S!FrameAssumption, Q!FrameAssumption,
   S!WidthAssumption, Q!WidthAssumption, S!InputAssumption,
   Q!InputAssumption, S!Size, Q!Size, S!Bits, Q!Bits, S!Status, Q!Status

LEMMA QueueInvariant == N64Spec => []QueueInv
<1>1. [S!Next]_(S!vars) => [Q!Next]_(Q!vars)
  BY SameNext DEF S!vars, Q!vars
<1>2. N64Spec => Q!Spec
  BY <1>1, SameInit, DrivesTheQueue, PTL
     DEF ImplementsScheduler, S!Spec, Q!Spec
<1>3. Q!Spec => []Q!InterruptInv
  BY SameAssumptions, Q!InterruptInvariant
<1>4. Q!InterruptInv => QueueInv
  BY DEF Q!InterruptInv, Q!Serviceable, QueueInv, NoneQueued, S!Due,
     S!Serviceable
<1> QED
  BY <1>2, <1>3, <1>4, PTL
-----------------------------------------------------------------------------
(* EntryLatency.                                                           *)

(* The latches hold what was fetched, or a bubble.                         *)
LatchInv ==
    /\ icrf.live => icrf.instr = prog[icrf.addr]
    /\ rfex.live => rfex.instr = prog[rfex.addr]
    /\ ~icrf.live => icrf.instr = Nop
    /\ ~rfex.live => rfex.instr = Nop

(* The queue is drained between two cycles of the pipeline.                *)
DrainInv ==
    /\ phase = "drain" => stage = "WB" /\ fill = 4
    /\ time \in Nat /\ asked \in Nat

(* What is in front of the next fetch does not write pc_.                  *)
ClearAhead ==
    /\ stage # "RF" => rfex.instr.op \notin ControlOps
    /\ stage # "IC" => icrf.instr.op \notin ControlOps

Late == time - asked

(* Four places on the way to the handler, in their order, and how late     *)
(* each may be reached.  An instruction in front of the handler can cost   *)
(* an interlock cycle, but the bubble that it leaves in RF/EX cannot.      *)
Requested ==
    /\ phase = "drain" /\ owed
    /\ ClearAhead /\ Late = 0

Redirected ==
    /\ pc = Vector /\ ClearAhead
    /\ Late <= IF stage \in {"RF", "IC"} THEN 2
               ELSE IF rfex.instr = Nop THEN 1 ELSE 0

Fetched ==
    /\ NoneQueued
    /\ stage # "IC"
    /\ icrf.live /\ icrf.addr = Vector /\ pc = Inc(Vector)
    /\ stage # "RF" => rfex.instr.op \notin ControlOps
    /\ Late <= IF stage = "RF" THEN 4
               ELSE IF rfex.instr = Nop THEN 3 ELSE 2

Entering ==
    /\ NoneQueued
    /\ stage # "RF"
    /\ rfex.live /\ rfex.addr = Vector
    /\ IF stage = "IC" THEN pc = Inc(Vector)
       ELSE icrf.live /\ icrf.addr = Inc(Vector) /\ pc = Inc(icrf.addr)
    /\ Late <= 4

EntryInv ==
    entry = "wait" =>
        fill = 4 /\ (Requested \/ Redirected \/ Fetched \/ Entering)

(* EX leaves DC/WB alone, keeps what a latch in front of it holds or turns *)
(* it into a bubble, and calls for an interlock cycle only behind a load.  *)
LEMMA FrontInEX ==
    ASSUME TypeOK, EX
    PROVE  /\ icrf' = icrf
              \/ (icrf'.instr = Nop /\ ~icrf'.live /\ icrf'.addr = icrf.addr)
           /\ rfex' = rfex
              \/ (rfex'.instr = Nop /\ ~rfex'.live /\ rfex'.addr = rfex.addr)
           /\ UNCHANGED <<dcwb, prog>>
<1>1. icrf' = icrf \/ Squash
  BY DEF EX, ExCompute, ExLoad, ExStore, ExStorePart, ExLoadPart,
         ExLoadFloat, ExStoreFloat, ExBranch, ExMultiply, ExMoveToCp0,
         ExFloat, ExNothing, ExERET
<1>2. rfex' = rfex \/ rfex' = [rfex EXCEPT !.instr = Nop, !.live = FALSE]
  BY DEF EX, ExCompute, ExLoad, ExStore, ExStorePart, ExLoadPart,
         ExLoadFloat, ExStoreFloat, ExBranch, ExMultiply, ExMoveToCp0,
         ExFloat, ExNothing, ExERET
<1>3. UNCHANGED <<dcwb, prog>>
  BY DEF EX, ExCompute, ExLoad, ExStore, ExStorePart, ExLoadPart,
         ExLoadFloat, ExStoreFloat, ExBranch, ExMultiply, ExMoveToCp0,
         ExFloat, ExNothing, ExERET, program
<1> QED
  BY <1>1, <1>2, <1>3 DEF Squash, TypeOK, ICRF, RFEX

LEMMA StallInEX ==
    ASSUME TypeOK, EX, ~ldi, stage' # "RF"
    PROVE  I.op \in LoadOps /\ rfex'.instr = Nop /\ ~rfex'.live
<1>1. ExLoad
  BY DEF EX, ExCompute, ExStore, ExStorePart, ExLoadPart,
         ExLoadFloat, ExStoreFloat, ExBranch, ExMultiply, ExMoveToCp0,
         ExFloat, ExNothing, ExERET, EndEX
<1>2. rfex' = [rfex EXCEPT !.instr = Nop, !.live = FALSE]
  BY <1>1 DEF ExLoad
<1> QED
  BY <1>1, <1>2 DEF ExLoad, Executes, TypeOK, RFEX

LEMMA LatchNext ==
    ASSUME TypeOK, LatchInv, [IrqNext]_allVars
    PROVE  LatchInv'
<1>1. CASE WB \/ DC \/ Throw
  <2>1. UNCHANGED <<prog, icrf, rfex>>
    BY <1>1, StepsBesideEX DEF WB, DC, Throw, program
  <2> QED
    BY <2>1 DEF LatchInv
<1>2. CASE EX
  BY <1>2, FrontInEX DEF LatchInv
<1>3. CASE RF
  BY <1>3, FetchSteps DEF LatchInv, RF, program
<1>4. CASE IC
  BY <1>4, FetchSteps DEF LatchInv, IC
<1>5. CASE Reset
  BY <1>5 DEF LatchInv, Reset, EmptyICRF, EmptyRFEX
<1>6. CASE TakeInterrupt
  BY <1>6, InterruptFrame DEF LatchInv
<1>7. CASE UNCHANGED allVars
  BY <1>7 DEF allVars, vars, LatchInv
<1> QED
  BY <1>1, <1>2, <1>3, <1>4, <1>5, <1>6, <1>7 DEF IrqNext, Cycle, Next, Step

LEMMA DrainNext ==
    ASSUME DrainInv, [N64Next]_n64Vars
    PROVE  DrainInv'
<1>1. CASE Update \/ EndDrain \/ Horizon \/ UNCHANGED n64Vars
  BY <1>1 DEF DrainInv, Update, EndDrain, Horizon, n64Vars, pipeline, vars,
     queue, history, S!Update, S!EndDrain
<1>2. CASE HandleEvent
  BY <1>2, InterruptFrame DEF DrainInv, HandleEvent, S!HandleEventOf,
     pipeline, vars, history
<1>3. CASE RunWB
  <2>1. phase' = "EX" /\ UNCHANGED <<time, history>>
    BY <1>3, StoreCases DEF RunWB, S!StoreViIntrOf, S!StoreMiMaskOf,
       S!StoreViCurrent, S!StoreMiInterruptOf, S!NoStore, S!Write
  <2> QED
    BY <2>1 DEF DrainInv, history
<1>4. CASE RunEX \/ N64Reset
  BY <1>4 DEF DrainInv, RunEX, N64Reset, S!Reset
<1>5. CASE RunFillEX
  BY <1>5 DEF DrainInv, RunFillEX, Execute, history
<1>6. CASE RunOther
  BY <1>6 DEF DrainInv, RunOther, queue, history, DC, RF, IC, Runs
<1> QED
  BY <1>1, <1>2, <1>3, <1>4, <1>5, <1>6 DEF N64Next

(* What the steps of the machine mean to the clock and to the queue.       *)
LEMMA PopShrinks ==
    ASSUME NEW e
    PROVE  S!PopAfter(e, {}) \subseteq scheduler
BY DEF S!PopAfter

LEMMA WBFrame ==
    ASSUME TypeOK, RunWB
    PROVE  /\ stage = "WB" /\ stage' = "DC" /\ fill = 4
           /\ phase = "WB" /\ phase' = "EX"
           /\ UNCHANGED <<time, history, prog, pc, fill, icrf, rfex, exdc,
                          dcwb>>
<1>1. WB /\ fill = 4 /\ UNCHANGED history
  BY DEF RunWB
<1>2. /\ stage = "WB" /\ stage' = "DC"
      /\ UNCHANGED <<prog, pc, fill, icrf, rfex, exdc, dcwb>>
  BY <1>1 DEF WB, Runs, program, latches
<1>3. phase = "WB" /\ phase' = "EX" /\ UNCHANGED time
  BY StoreCases DEF S!StoreViIntrOf, S!StoreMiMaskOf, S!StoreViCurrent,
     S!StoreMiInterruptOf, S!NoStore, S!Write
<1> QED
  BY <1>1, <1>2, <1>3

LEMMA OtherFrame ==
    ASSUME RunOther
    PROVE  /\ DC \/ RF \/ IC
           /\ UNCHANGED <<queue, history>>
BY DEF RunOther

LEMMA EntryByEvent ==
    ASSUME TypeOK, DrainInv, QueueInv, EntryInv, HandleEvent, entry' = "wait"
    PROVE  fill' = 4 /\ (Requested \/ Redirected \/ Fetched \/ Entering)'
<1>1. PICK e \in S!Due \cap S!Tops :
        /\ S!HandleEventOf(e)
        /\ IF Interrupts(e) THEN TakeInterrupt ELSE UNCHANGED pipeline
        /\ IF e.type # "Vi" THEN UNCHANGED history
           ELSE /\ asked' = time
                /\ entry' = IF owed' /\ NoControlInFlight THEN "wait"
                            ELSE "none"
  BY DEF HandleEvent
<1>2. phase = "drain" /\ UNCHANGED <<phase, time>> /\ e \in scheduler
  BY <1>1 DEF S!HandleEventOf, S!Due
<1>3. stage = "WB" /\ fill = 4
  BY <1>2 DEF DrainInv
<1>4. CASE e.type = "Vi"
  <2>1. UNCHANGED pipeline
    BY <1>1, <1>4 DEF Interrupts
  <2>2. owed' /\ NoControlInFlight /\ asked' = time
    BY <1>1, <1>4
  <2>3. Late' = 0
    BY <1>2, <2>2 DEF Late, DrainInv
  <2>4. ClearAhead'
    BY <2>1, <2>2 DEF ClearAhead, NoControlInFlight, pipeline, vars
  <2> QED
    BY <1>2, <1>3, <2>1, <2>2, <2>3, <2>4 DEF Requested, pipeline, vars
<1>5. CASE Interrupts(e)
  <2>1. e.type = "Interrupt" /\ entry = "wait" /\ UNCHANGED asked
    BY <1>1, <1>5 DEF Interrupts, history
  <2>2. Requested \/ Redirected
    BY <1>2, <2>1 DEF EntryInv, Fetched, Entering, NoneQueued
  <2>3. ClearAhead /\ Late <= IF rfex.instr = Nop THEN 1 ELSE 0
    BY <1>3, <2>2 DEF Requested, Redirected
  <2>4. /\ pc' = Vector
        /\ UNCHANGED <<stage, fill, icrf, rfex>>
    BY <1>1, <1>5, InterruptFrame
  <2>5. ClearAhead' /\ Late' = Late
    BY <1>2, <2>1, <2>3, <2>4 DEF ClearAhead, Late
  <2> QED
    BY <1>3, <2>3, <2>4, <2>5 DEF Redirected
<1>6. CASE e.type # "Vi" /\ ~Interrupts(e)
  <2>1. entry = "wait" /\ UNCHANGED <<pipeline, asked>>
    BY <1>1, <1>6 DEF history
  <2>2. UNCHANGED <<stage, fill, pc, icrf, rfex>>
    BY <2>1 DEF pipeline, vars
  <2>3. Late' = Late /\ ClearAhead' = ClearAhead
    BY <1>2, <2>1, <2>2 DEF Late, ClearAhead
  <2>4. S!HandleInterrupt(e) \/ S!HandleCount(e)
    BY <1>1, <1>6 DEF S!HandleEventOf, S!HandleVi
  <2>5. owed' = owed
    BY <1>6, <2>4 DEF S!HandleInterrupt, S!HandleCount, Interrupts
  <2>6. NoneQueued => NoneQueued'
    <3>1. scheduler' = S!PopAfter(e, {})
      BY <2>4 DEF S!HandleInterrupt, S!HandleCount
    <3> QED
      BY <3>1, PopShrinks DEF NoneQueued
  <2> QED
    BY <1>2, <2>1, <2>2, <2>3, <2>5, <2>6
       DEF EntryInv, Requested, Redirected, Fetched, Entering
<1> QED
  BY <1>4, <1>5, <1>6 DEF Interrupts

LEMMA EntryByEX ==
    ASSUME TypeOK, LdiInv, LatchInv, DrainInv, QueueInv', EntryInv, RunEX,
           entry' = "wait"
    PROVE  fill' = 4 /\ (Requested \/ Redirected \/ Fetched \/ Entering)'
<1>1. /\ EX /\ fill = 4 /\ time' = time + 1 /\ asked' = asked
      /\ phase = "EX" /\ phase' = "idle"
      /\ entry = "wait" /\ ~(rfex.live /\ rfex.addr = Vector)
  BY DEF RunEX, Execute
<1>2. stage = "EX" /\ UNCHANGED fill /\ ~ldi
  BY <1>1, FrontAfterEX DEF LdiInv
<1>3. Late \in Int /\ Late' = Late + 1
  BY <1>1 DEF Late, DrainInv
<1>4. NoneQueued'
  BY <1>1 DEF QueueInv
<1>5. Redirected \/ Fetched
  BY <1>1, <1>2 DEF EntryInv, Requested, Entering
<1>7. I.op \notin ControlOps
  BY <1>2, <1>5 DEF Redirected, Fetched, ClearAhead, I
<1>8. /\ UNCHANGED <<pc, icrf>>
      /\ stage' \in {"RF", "WB"}
      /\ stage' = "WB" => I # Nop /\ rfex'.instr = Nop
  <2>1. Nop.op \notin LoadOps
    BY DEF Nop, LoadOps
  <2> QED
    BY <1>1, <1>2, <1>7, <2>1, PlainEX, StallInEX
<1>9. Nop.op \notin ControlOps
  BY DEF Nop, ControlOps, BranchOps, PlainOps, LikelyOps, JumpOps
<1>10. CASE Redirected
  BY <1>1, <1>2, <1>3, <1>8, <1>9, <1>10 DEF Redirected, ClearAhead, I
<1>11. CASE Fetched
  BY <1>1, <1>2, <1>3, <1>4, <1>8, <1>9, <1>11 DEF Fetched, I
<1> QED
  BY <1>5, <1>10, <1>11

LEMMA EntryNext ==
    ASSUME TypeOK, LdiInv, LatchInv, DrainInv, QueueInv, QueueInv', EntryInv,
           [N64Next]_n64Vars
    PROVE  EntryInv'
<1> SUFFICES ASSUME entry' = "wait"
             PROVE  fill' = 4 /\ (Requested \/ Redirected \/ Fetched \/ Entering)'
  BY DEF EntryInv
<1>1. CASE HandleEvent
  BY <1>1, EntryByEvent
<1>2. CASE RunEX
  BY <1>2, EntryByEX
<1>3. CASE N64Reset
  BY <1>3 DEF N64Reset
<1>4. entry = "wait" => fill = 4 /\ (Requested \/ Redirected \/ Fetched \/ Entering)
  BY DEF EntryInv
<1>5. CASE Update \/ Horizon \/ UNCHANGED n64Vars
  <2>1. /\ UNCHANGED <<pipeline, history, time, scheduler, owed>>
        /\ phase = "drain" => phase' = "drain"
    BY <1>5 DEF Update, Horizon, n64Vars, queue, S!Update, S!Horizon
  <2> QED
    BY <1>4, <2>1 DEF Requested, Redirected, Fetched, Entering, ClearAhead,
       Late, NoneQueued, pipeline, vars, history
<1>6. CASE EndDrain
  <2>1. UNCHANGED <<pipeline, history, time, scheduler>> /\ ~owed
    BY <1>6 DEF EndDrain, S!EndDrain, QueueInv
  <2> QED
    BY <1>4, <2>1 DEF Requested, Redirected, Fetched, Entering, ClearAhead,
       Late, NoneQueued, pipeline, vars, history
<1>7. CASE RunWB
  <2>1. /\ stage = "WB" /\ stage' = "DC" /\ fill' = 4 /\ ~Requested
        /\ UNCHANGED <<time, history, pc, icrf, rfex>>
        /\ NoneQueued'
    BY <1>7, WBFrame DEF QueueInv, Requested
  <2> QED
    BY <1>4, <2>1 DEF Redirected, Fetched, Entering, ClearAhead, Late,
       history
<1>8. CASE RunOther
  <2>1. fill = 4 /\ (DC \/ RF \/ IC) /\ UNCHANGED <<queue, history>>
    BY <1>4, <1>8, OtherFrame DEF RunOther, history
  <2>2. Late' = Late /\ (NoneQueued => NoneQueued') /\ entry = "wait"
    BY <2>1 DEF Late, NoneQueued, queue, history
  <2>3. CASE DC
    <3>1. stage = "DC" /\ stage' = "EX" /\ UNCHANGED <<pc, fill, icrf, rfex>>
      BY <2>3, StepsBesideEX DEF DC, Runs
    <3> QED
      BY <1>4, <2>2, <3>1 DEF Requested, Redirected, Fetched, Entering,
         ClearAhead, DrainInv
  <2>4. CASE RF
    BY <1>4, <2>2, <2>4, FetchSteps DEF Requested, Redirected, Fetched,
       Entering, ClearAhead, DrainInv
  <2>5. CASE IC
    <3>1. /\ stage = "IC" /\ stage' = "WB" /\ fill' = 4
          /\ pc' = Inc(pc) /\ icrf'.addr = pc /\ icrf'.live = TRUE
          /\ UNCHANGED rfex
      <4>1. /\ stage = "IC" /\ stage' = StartOf(fill') /\ pc' = Inc(pc)
            /\ icrf'.addr = pc /\ icrf'.live = TRUE /\ UNCHANGED rfex
            /\ fill' = IF fill < 4 THEN fill + 1 ELSE 4
        BY <2>5, FetchSteps
      <4>2. fill' = 4
        BY <2>1, <4>1
      <4>3. stage' = "WB"
        BY <4>1, <4>2 DEF StartOf
      <4> QED
        BY <4>1, <4>2, <4>3
    <3>2. NoneQueued' /\ ~Requested /\ ~Fetched
      BY <2>2, <3>1 DEF DrainInv, QueueInv, Requested, Fetched
    <3>3. Late \in Int
      BY DEF Late, DrainInv
    <3>4. CASE Redirected
      BY <2>2, <3>1, <3>2, <3>3, <3>4 DEF Redirected, Fetched, ClearAhead
    <3>5. CASE Entering
      BY <2>2, <3>1, <3>2, <3>5 DEF Entering
    <3> QED
      BY <1>4, <2>2, <3>2, <3>4, <3>5
  <2> QED
    BY <2>1, <2>3, <2>4, <2>5
<1>9. CASE RunFillEX
  BY <1>4, <1>9 DEF RunFillEX, history
<1> QED
  BY <1>1, <1>2, <1>3, <1>5, <1>6, <1>7, <1>8, <1>9 DEF N64Next

LEMMA PipelineInvariant ==
    N64Spec => [](TypeOK /\ LdiInv) /\ [][IrqNext]_allVars
<1>1. IrqInv => TypeOK /\ LdiInv
  BY DEF IrqInv
<1> QED
  BY <1>1, IrqInvInit, IrqInvNext, DrivesThePipeline, PTL
     DEF ImplementsPipelineIrq, IrqSpec, allVars

(* A VI interrupt that finds no branch in flight has the handler in EX     *)
(* four cycles after its event at the latest, whatever the program, the    *)
(* word size and the frame.                                                *)
THEOREM HandlerWithinFourCycles == N64Spec => []EntryLatency
<1>1. N64Init => LatchInv /\ DrainInv /\ EntryInv
  BY DEF N64Init, IrqInit, Init, EmptyICRF, EmptyRFEX, S!Init, LatchInv,
     DrainInv, EntryInv
<1>2. TypeOK /\ LatchInv /\ [IrqNext]_allVars => LatchInv'
  BY LatchNext
<1>3. DrainInv /\ [N64Next]_n64Vars => DrainInv'
  BY DrainNext
<1>4. /\ TypeOK /\ LdiInv /\ LatchInv /\ DrainInv /\ QueueInv /\ QueueInv'
      /\ EntryInv /\ [N64Next]_n64Vars
      => EntryInv'
  BY EntryNext
<1>5. N64Spec => [](TypeOK /\ LdiInv) /\ [][IrqNext]_allVars
  BY PipelineInvariant
<1>6. EntryInv /\ DrainInv => EntryLatency
  <2> SUFFICES ASSUME EntryInv, DrainInv, entry = "wait" PROVE Late <= 4
    BY DEF EntryLatency, Late
  <2>1. Late \in Int
    BY DEF Late, DrainInv
  <2> QED
    BY <2>1 DEF EntryInv, Requested, Redirected, Fetched, Entering
<1> QED
  BY <1>1, <1>2, <1>3, <1>4, <1>5, <1>6, QueueInvariant, PTL DEF N64Spec
-----------------------------------------------------------------------------
(* AcknowledgedOnReturn.                                                   *)

(* The program has a handler that runs straight from the vector to the     *)
(* ERET at r, with a store at k.                                           *)
Straight(k, r) ==
    /\ r \in Word /\ k \in Vector .. r - 1
    /\ \A a \in Vector .. r - 1 : prog[a].op \notin ControlOps
    /\ prog[k].op = "STORE" /\ prog[r].op = "ERET"

(* Whenever that store executes, it is one to VI_V_CURRENT, and not of     *)
(* zero, which acknowledges nothing.                                       *)
StoresToCurrent(k) ==
    stage = "EX" /\ fill = 4 /\ rfex.live /\ rfex.addr = k =>
        Addr = ViCurrent /\ Narrow(I.f, rfex.rt) # 0

(* While the handler runs, and until the program does again, no store to   *)
(* MI_INTERRUPT raises VI.                                                 *)
RaisesNoVi ==
    entry \in {"in", "back"} /\ stage = "WB" /\ StoresTo(MiInterrupt) =>
        "VI" \notin StoredPending(dcwb.f, StoreData)

(* The acknowledgement is made, or on its way to the next WB.              *)
IsAck(latch) ==
    /\ latch.write = "MMU" /\ latch.loc = ViCurrent
    /\ Narrow(latch.f, latch.data) # 0
Acked ==
    \/ "VI" \notin miInterrupt
    \/ stage # "DC" /\ IsAck(dcwb)
    \/ stage # "EX" /\ IsAck(exdc)

(* The instruction fetched last.                                           *)
LastAddr == IF stage = "IC" THEN rfex.addr ELSE icrf.addr
LastLive == IF stage = "IC" THEN rfex.live ELSE icrf.live

(* The first interrupt is on its way to the handler, the last fetch was    *)
(* one of the handler, or ERET is about to execute.                        *)
Outside == pc = Vector /\ ClearAhead

Within(k, r) ==
    /\ NoneQueued
    /\ LastLive /\ LastAddr \in Vector .. r /\ pc = Inc(LastAddr)
    /\ stage \in {"WB", "DC", "EX"} =>
          IF LastAddr = Vector THEN rfex.instr.op \notin ControlOps
          ELSE /\ rfex.live => LastAddr = rfex.addr + 1
               /\ LastAddr = k + 1 => rfex.live
    /\ LastAddr = k + 1 /\ stage \in {"RF", "IC"} => Acked
    /\ LastAddr > k + 1 => Acked

Leaving(r) ==
    /\ NoneQueued /\ Acked
    /\ stage \in {"WB", "DC", "EX"}
    /\ rfex.live /\ rfex.addr = r

Inside(k, r) == Outside \/ Within(k, r) \/ Leaving(r)

InsideInv(k, r) == entry = "in" => fill = 4 /\ Inside(k, r)

BackInv ==
    entry = "back" =>
        /\ fill = 4
        /\ \/ "VI" \notin miInterrupt
           \/ stage \in {"RF", "IC", "WB"} /\ IsAck(dcwb)

LEMMA StoreInEX ==
    ASSUME EX, ~ldi, I.op = "STORE"
    PROVE  /\ stage' = "RF"
           /\ exdc'.write = "MMU" /\ exdc'.loc = Addr
           /\ exdc'.f = I.f /\ exdc'.data = rfex.rt
<1>1. ExStore
  BY DEF EX, ExCompute, ExLoad, ExStorePart, ExLoadPart,
         ExLoadFloat, ExStoreFloat, ExBranch, ExMultiply, ExMoveToCp0,
         ExFloat, ExNothing, ExERET, Executes, ComputeOps, LoadOps,
         BranchOps, PlainOps, LikelyOps, JumpOps
<1> QED
  BY <1>1 DEF ExStore, EndEX, EmptyEXDC

(* An acknowledgement in DC/WB lowers VI, and WB does not raise it.        *)
LEMMA AckByWB ==
    ASSUME RunWB, RaisesNoVi, entry \in {"in", "back"}
    PROVE  /\ "VI" \notin miInterrupt => "VI" \notin miInterrupt'
           /\ IsAck(dcwb) => "VI" \notin miInterrupt'
<1>1. ASSUME IsAck(dcwb)
      PROVE  "VI" \notin miInterrupt'
  <2>1. StoresTo(ViCurrent) /\ StoreData # 0
    BY <1>1 DEF IsAck, StoresTo, StoreData
  <2>2. ~StoresTo(ViIntr) /\ ~StoresTo(MiMask) /\ ~StoresTo(MiInterrupt)
    BY <2>1, DeviceAssumption DEF StoresTo
  <2>3. S!StoreViCurrent
    BY <2>1, <2>2 DEF RunWB
  <2> QED
    BY <2>3 DEF S!StoreViCurrent
<1>2. ASSUME "VI" \notin miInterrupt
      PROVE  "VI" \notin miInterrupt'
  <2>1. stage = "WB"
    BY DEF RunWB, WB, Runs
  <2>2. CASE /\ StoresTo(MiInterrupt)
             /\ S!StoreMiInterruptOf({StoredPending(dcwb.f, StoreData)})
    BY <2>1, <2>2 DEF RaisesNoVi, S!StoreMiInterruptOf
  <2>3. CASE \/ S!StoreViIntrOf({<<StoreSize(dcwb.f), StoreData>>})
             \/ S!StoreMiMaskOf({MaskVi}) \/ S!StoreViCurrent \/ S!NoStore
    BY <1>2, <2>3 DEF S!StoreViIntrOf, S!StoreMiMaskOf, S!StoreViCurrent,
       S!NoStore
  <2> QED
    BY <2>2, <2>3, StoreCases
<1> QED
  BY <1>1, <1>2

LEMMA AckByDC ==
    ASSUME TypeOK, DC
    PROVE  IsAck(exdc) => IsAck(dcwb')
BY DEF DC, IsAck, TypeOK, EXDC

(* On its way an acknowledgement is not lost.                              *)
LEMMA AckedNext ==
    ASSUME TypeOK, DrainInv, fill = 4, Acked, RunOther \/ RunEX
    PROVE  Acked'
<1>1. CASE RunEX
  <2>1. EX /\ miInterrupt' = miInterrupt
    BY <1>1 DEF RunEX, Execute
  <2>2. stage = "EX" /\ stage' \in {"RF", "WB"} /\ dcwb' = dcwb
    <3>1. ExLoad \/ EndEX(ldi)
      BY <2>1 DEF EX, ExCompute, ExStore, ExStorePart, ExLoadPart,
         ExLoadFloat, ExStoreFloat, ExBranch, ExMultiply, ExMoveToCp0,
         ExFloat, ExNothing, ExERET
    <3> QED
      BY <2>1, <3>1, FrontAfterEX, FrontInEX DEF ExLoad, EndEX
  <2> QED
    BY <2>1, <2>2 DEF Acked, IsAck
<1>2. CASE RunOther
  <2>1. (DC \/ RF \/ IC) /\ UNCHANGED miInterrupt
    BY <1>2, OtherFrame DEF queue
  <2>2. CASE DC
    <3>1. stage = "DC" /\ stage' = "EX"
      BY <2>2 DEF DC, Runs
    <3> QED
      BY <2>1, <2>2, <3>1, AckByDC DEF Acked
  <2>3. CASE RF
    BY <2>1, <2>3 DEF Acked, IsAck, RF, Runs
  <2>4. CASE IC
    <3>1. stage = "IC" /\ stage' = "WB" /\ UNCHANGED <<exdc, dcwb>>
      <4>1. fill' = 4
        BY <2>4, FetchSteps
      <4> QED
        BY <2>4, <4>1 DEF IC, Runs, StartOf
    <3> QED
      BY <2>1, <3>1 DEF Acked, IsAck
  <2> QED
    BY <2>1, <2>2, <2>3, <2>4
<1> QED
  BY <1>1, <1>2

(* What an acknowledgement has to do with the step of EX.                  *)
LEMMA InsideByEX ==
    ASSUME NEW k, NEW r, Straight(k, r), StoresToCurrent(k),
           TypeOK, LdiInv, LatchInv, DrainInv, QueueInv', RunEX,
           Outside \/ Within(k, r)
    PROVE  I.op \notin ControlOps /\ Inside(k, r)'
<1>1. /\ EX /\ fill = 4 /\ phase' = "idle"
      /\ stage = "EX" /\ ~ldi /\ Vector \in Nat
      /\ k \in Nat /\ r \in Nat
  BY FrontAfterEX, WordAssumption, VectorAssumption
     DEF RunEX, Execute, LdiInv, Straight, Word
<1>2. Nop.op \notin ControlOps /\ Nop.op \notin LoadOps
  BY DEF Nop, ControlOps, BranchOps, PlainOps, LikelyOps, JumpOps, LoadOps
<1>3. Within(k, r) /\ rfex.live /\ LastAddr # Vector =>
        rfex.addr \in Vector .. r - 1
  <2>1. rfex.addr \in Nat
    BY WordAssumption DEF TypeOK, RFEX, Word
  <2> QED
    BY <1>1, <2>1 DEF Within
<1>4. I.op \notin ControlOps
  <2>1. CASE Outside
    BY <1>1, <2>1 DEF Outside, ClearAhead, I
  <2>2. CASE Within(k, r) /\ LastAddr = Vector
    BY <1>1, <2>2 DEF Within, I
  <2>3. CASE Within(k, r) /\ LastAddr # Vector
    BY <1>2, <1>3, <2>3 DEF LatchInv, Straight, I
  <2> QED
    BY <2>1, <2>2, <2>3
<1>5. /\ UNCHANGED <<pc, fill, icrf>>
      /\ rfex' = rfex \/ (rfex'.instr = Nop /\ ~rfex'.live)
      /\ stage' \in {"RF", "WB"}
      /\ stage' = "WB" => I.op \in LoadOps /\ rfex'.instr = Nop /\ ~rfex'.live
  BY <1>1, <1>4, PlainEX, StallInEX
<1>6. NoneQueued'
  BY <1>1 DEF QueueInv
<1>7. CASE Outside
  <2>1. Outside'
    BY <1>1, <1>2, <1>5, <1>7 DEF Outside, ClearAhead
  <2> QED
    BY <1>4, <2>1 DEF Inside
<1>8. CASE Within(k, r)
  <2>1. LastAddr' = LastAddr /\ LastLive' = LastLive
    BY <1>1, <1>5 DEF LastAddr, LastLive
  <2>2. ASSUME LastAddr = k + 1
        PROVE  stage' = "RF" /\ Acked'
    <3>1. rfex.live /\ rfex.addr = k
      <4>1. rfex.live /\ LastAddr = rfex.addr + 1
        BY <1>1, <1>8, <2>2 DEF Within, Straight
      <4> QED
        BY <1>1, <2>2, <4>1 DEF TypeOK, RFEX, Word
    <3>2. /\ I.op = "STORE" /\ Addr = ViCurrent
          /\ Narrow(I.f, rfex.rt) # 0
      BY <1>1, <3>1 DEF LatchInv, Straight, StoresToCurrent, I
    <3> QED
      BY <1>1, <3>2, StoreInEX DEF Acked, IsAck
  <2>3. LastAddr > k + 1 => Acked'
    BY <1>1, <1>8, AckedNext DEF Within
  <2>4. Within(k, r)'
    BY <1>1, <1>2, <1>5, <1>6, <1>8, <2>1, <2>2, <2>3 DEF Within
  <2> QED
    BY <1>4, <2>4 DEF Inside
<1> QED
  BY <1>7, <1>8

(* A handler whose first instruction is about to execute.                  *)
LEMMA InsideFromEntry ==
    ASSUME NEW k, NEW r, Straight(k, r),
           TypeOK, EntryInv, entry = "wait", stage = "EX", phase = "EX"
    PROVE  Outside \/ Within(k, r)
<1>1. Redirected \/ Fetched \/ Entering
  BY DEF EntryInv, Requested
<1>2. /\ Vector \in Nat /\ k \in Nat /\ r \in Nat
      /\ Vector <= k /\ k < r /\ r < W /\ W \in Nat
  BY WordAssumption, VectorAssumption DEF Straight, Word
<1>3. CASE Redirected
  BY <1>3 DEF Redirected, Outside
<1>4. CASE Fetched
  BY <1>2, <1>4 DEF Fetched, Within, LastAddr, LastLive
<1>5. CASE Entering
  <2>1. Inc(Vector) = Vector + 1
    BY <1>2 DEF Inc
  <2> QED
    BY <1>2, <1>5, <2>1 DEF Entering, Within, LastAddr, LastLive
<1> QED
  BY <1>1, <1>3, <1>4, <1>5

LEMMA InsideByOther ==
    ASSUME NEW k, NEW r, Straight(k, r), TypeOK, DrainInv, QueueInv,
           LatchInv, Inside(k, r), fill = 4, RunOther
    PROVE  Inside(k, r)'
<1>1. (DC \/ RF \/ IC) /\ UNCHANGED <<queue, history>>
  BY OtherFrame
<1>2. NoneQueued /\ NoneQueued'
  <2>1. stage # "WB"
    BY <1>1 DEF DC, RF, IC, Runs
  <2> QED
    BY <1>1, <2>1 DEF DrainInv, QueueInv, NoneQueued, queue
<1>3. Acked => Acked'
  BY AckedNext
<1>4. CASE DC
  <2>1. stage = "DC" /\ stage' = "EX" /\ UNCHANGED <<pc, icrf, rfex>>
    BY <1>4, StepsBesideEX DEF DC, Runs
  <2> QED
    BY <1>2, <1>3, <2>1 DEF Inside, Outside, Within, Leaving, ClearAhead,
       LastAddr, LastLive
<1>5. CASE RF
  <2>1. /\ stage = "RF" /\ stage' = "IC" /\ UNCHANGED <<pc, icrf>>
        /\ rfex'.instr = icrf.instr /\ rfex'.live = icrf.live
        /\ rfex'.addr = icrf.addr
    BY <1>5, FetchSteps
  <2> QED
    BY <1>2, <1>3, <2>1 DEF Inside, Outside, Within, Leaving, ClearAhead,
       LastAddr, LastLive
<1>6. CASE IC
  <2>1. /\ stage = "IC" /\ pc' = Inc(pc) /\ icrf'.addr = pc
        /\ icrf'.live = TRUE /\ UNCHANGED rfex
        /\ stage' = StartOf(fill')
        /\ fill' = IF fill < 4 THEN fill + 1 ELSE 4
    BY <1>6, FetchSteps
  <2>2. stage' = "WB"
    BY <2>1 DEF StartOf
  <2>3. /\ Vector \in Nat /\ k \in Nat /\ r \in Nat
        /\ Vector <= k /\ k < r /\ r < W /\ W \in Nat
    BY WordAssumption, VectorAssumption DEF Straight, Word
  <2>4. CASE Outside
    <3>1. Within(k, r)'
      BY <1>2, <2>1, <2>2, <2>3, <2>4 DEF Outside, ClearAhead, Within,
         LastAddr, LastLive
    <3> QED
      BY <3>1 DEF Inside
  <2>5. CASE Within(k, r)
    <3>1. /\ rfex.live /\ rfex.addr \in Vector .. r /\ pc = Inc(rfex.addr)
          /\ rfex.addr >= k + 1 => Acked'
      BY <1>3, <2>1, <2>3, <2>5 DEF Within, LastAddr, LastLive
    <3>2. CASE rfex.addr = r
      <4>1. Leaving(r)'
        BY <1>2, <2>1, <2>2, <2>3, <3>1, <3>2 DEF Leaving
      <4> QED
        BY <4>1 DEF Inside
    <3>3. CASE rfex.addr # r
      <4>1. pc = rfex.addr + 1 /\ rfex.addr < r
        BY <2>3, <3>1, <3>3 DEF Inc
      <4>2. Within(k, r)'
        BY <1>2, <2>1, <2>2, <2>3, <3>1, <4>1 DEF Within, LastAddr, LastLive
      <4> QED
        BY <4>2 DEF Inside
    <3> QED
      BY <3>2, <3>3
  <2> QED
    BY <2>1, <2>4, <2>5 DEF Inside, Leaving
<1> QED
  BY <1>1, <1>4, <1>5, <1>6

LEMMA InsideNext ==
    ASSUME NEW k, NEW r, Straight(k, r), StoresToCurrent(k),
           TypeOK, LdiInv, LatchInv, DrainInv, QueueInv, QueueInv',
           EntryInv, InsideInv(k, r), RaisesNoVi, [N64Next]_n64Vars
    PROVE  InsideInv(k, r)'
<1> SUFFICES ASSUME entry' = "in"
             PROVE  fill' = 4 /\ Inside(k, r)'
  BY DEF InsideInv
<1>1. CASE RunEX
  <2>1. stage = "EX" /\ fill = 4 /\ phase = "EX" /\ EX /\ fill' = 4
    BY <1>1, FrontAfterEX DEF RunEX, Execute
  <2>2. entry = "wait" \/ (entry = "in" /\ I.op # "ERET")
    BY <1>1 DEF RunEX
  <2>3. Outside \/ Within(k, r)
    <3>1. CASE entry = "wait"
      BY <2>1, <3>1, InsideFromEntry
    <3>2. CASE entry = "in" /\ I.op # "ERET"
      <4>1. ~Leaving(r)
        BY <3>2 DEF Leaving, LatchInv, Straight, I
      <4> QED
        BY <3>2, <4>1 DEF InsideInv, Inside
    <3> QED
      BY <2>2, <3>1, <3>2
  <2> QED
    BY <1>1, <2>1, <2>3, InsideByEX
<1>2. CASE HandleEvent
  <2>1. PICK e \in S!Due \cap S!Tops :
          /\ S!HandleEventOf(e)
          /\ IF Interrupts(e) THEN TakeInterrupt ELSE UNCHANGED pipeline
          /\ IF e.type # "Vi" THEN UNCHANGED history
             ELSE /\ asked' = time
                  /\ entry' = IF owed' /\ NoControlInFlight THEN "wait"
                              ELSE "none"
    BY <1>2 DEF HandleEvent
  <2>2. e.type # "Vi" /\ entry = "in" /\ e \in scheduler
    BY <2>1 DEF history, S!Due
  <2>3. S!HandleInterrupt(e) \/ S!HandleCount(e)
    BY <2>1, <2>2 DEF S!HandleEventOf, S!HandleVi
  <2>4. UNCHANGED miInterrupt /\ (NoneQueued => NoneQueued')
    <3>1. scheduler' = S!PopAfter(e, {}) /\ UNCHANGED miInterrupt
      BY <2>3 DEF S!HandleInterrupt, S!HandleCount
    <3> QED
      BY <3>1, PopShrinks DEF NoneQueued
  <2>5. CASE Interrupts(e)
    <3>1. Outside
      BY <2>2, <2>5 DEF InsideInv, Inside, Within, Leaving, NoneQueued,
         Interrupts
    <3>2. /\ stage = "WB" /\ fill = 4 /\ pc' = Vector
          /\ UNCHANGED <<stage, fill, icrf, rfex>>
      BY <2>1, <2>5, InterruptFrame
    <3>3. Outside'
      BY <3>1, <3>2 DEF Outside, ClearAhead
    <3> QED
      BY <3>2, <3>3 DEF Inside
  <2>6. CASE ~Interrupts(e)
    <3>1. UNCHANGED <<stage, fill, pc, icrf, rfex, exdc, dcwb>>
      BY <2>1, <2>6 DEF pipeline, vars
    <3> QED
      BY <2>2, <2>4, <3>1 DEF InsideInv, Inside, Outside, Within, Leaving,
         ClearAhead, Acked, IsAck, LastAddr, LastLive
  <2> QED
    BY <2>5, <2>6
<1>3. CASE N64Reset
  BY <1>3 DEF N64Reset
<1>4. CASE Update \/ EndDrain \/ Horizon \/ UNCHANGED n64Vars
  <2>1. /\ UNCHANGED <<pipeline, history, scheduler>>
        /\ miInterrupt' \in {miInterrupt, miInterrupt \cup {"AI"}}
    BY <1>4 DEF Update, EndDrain, Horizon, n64Vars, queue, S!Update,
       S!EndDrain
  <2>2. UNCHANGED <<entry, stage, fill, pc, icrf, rfex, exdc, dcwb>>
    BY <2>1 DEF pipeline, vars, history
  <2>3. Acked => Acked'
    BY <2>1, <2>2 DEF Acked, IsAck
  <2> QED
    BY <2>1, <2>2, <2>3 DEF InsideInv, Inside, Outside, Within, Leaving,
       ClearAhead, NoneQueued, LastAddr, LastLive
<1>5. CASE RunWB
  <2>1. /\ stage = "WB" /\ stage' = "DC" /\ fill' = 4
        /\ UNCHANGED <<history, pc, fill, icrf, rfex>>
        /\ NoneQueued'
    BY <1>5, WBFrame DEF QueueInv
  <2>2. Acked => Acked'
    <3>1. entry = "in" /\ UNCHANGED exdc
      BY <1>5, <2>1, WBFrame DEF history
    <3> QED
      BY <1>5, <2>1, <3>1, AckByWB DEF Acked, IsAck
  <2> QED
    BY <2>1, <2>2 DEF InsideInv, Inside, Outside, Within, Leaving,
       ClearAhead, LastAddr, LastLive, history
<1>6. CASE RunOther
  <2>1. entry = "in" /\ fill = 4 /\ Inside(k, r)
    BY <1>6 DEF RunOther, history, InsideInv
  <2>2. Inside(k, r)'
    BY <1>6, <2>1, InsideByOther
  <2>3. fill' = 4
    <3>1. DC \/ RF \/ IC
      BY <1>6, <2>1, OtherFrame
    <3>2. DC \/ RF => UNCHANGED fill
      BY StepsBesideEX, FetchSteps
    <3>3. IC => fill' = IF fill < 4 THEN fill + 1 ELSE 4
      BY FetchSteps
    <3> QED
      BY <2>1, <3>1, <3>2, <3>3
  <2> QED
    BY <2>2, <2>3
<1>7. CASE RunFillEX
  BY <1>7 DEF RunFillEX, history, InsideInv
<1> QED
  BY <1>1, <1>2, <1>3, <1>4, <1>5, <1>6, <1>7 DEF N64Next

LEMMA BackNext ==
    ASSUME NEW k, NEW r, Straight(k, r), StoresToCurrent(k),
           TypeOK, LdiInv, LatchInv, DrainInv, QueueInv',
           InsideInv(k, r), BackInv, RaisesNoVi, [N64Next]_n64Vars
    PROVE  BackInv'
<1> SUFFICES ASSUME entry' = "back"
             PROVE  /\ fill' = 4
                    /\ \/ "VI" \notin miInterrupt'
                       \/ stage' \in {"RF", "IC", "WB"} /\ IsAck(dcwb')
  BY DEF BackInv, IsAck
<1>1. CASE RunEX
  <2>1. /\ stage = "EX" /\ fill = 4 /\ EX /\ fill' = 4 /\ ~ldi
        /\ UNCHANGED <<miInterrupt, dcwb>>
    BY <1>1, FrontAfterEX, FrontInEX DEF RunEX, Execute, LdiInv
  <2>2. entry = "back" \/ (entry = "in" /\ I.op = "ERET")
    BY <1>1 DEF RunEX
  <2>3. CASE entry = "back"
    BY <2>1, <2>3 DEF BackInv
  <2>4. CASE entry = "in" /\ I.op = "ERET"
    <3>1. I.op \in ControlOps
      BY <2>4 DEF ControlOps
    <3>2. Leaving(r)
      BY <1>1, <2>4, <3>1, InsideByEX DEF InsideInv, Inside
    <3>3. "VI" \notin miInterrupt \/ IsAck(dcwb)
      BY <2>1, <3>2 DEF Leaving, Acked
    <3>4. stage' = "RF"
      BY <2>1, <3>1, ControlEX
    <3> QED
      BY <2>1, <3>3, <3>4 DEF IsAck
  <2> QED
    BY <2>2, <2>3, <2>4
<1>2. CASE HandleEvent
  <2>1. PICK e \in S!Due \cap S!Tops :
          /\ S!HandleEventOf(e)
          /\ IF Interrupts(e) THEN TakeInterrupt ELSE UNCHANGED pipeline
          /\ IF e.type # "Vi" THEN UNCHANGED history
             ELSE /\ asked' = time
                  /\ entry' = IF owed' /\ NoControlInFlight THEN "wait"
                              ELSE "none"
    BY <1>2 DEF HandleEvent
  <2>2. e.type # "Vi" /\ entry = "back"
    BY <2>1 DEF history
  <2>3. UNCHANGED miInterrupt
    BY <2>1, <2>2 DEF S!HandleEventOf, S!HandleVi, S!HandleInterrupt,
       S!HandleCount
  <2>4. UNCHANGED <<stage, fill, dcwb>>
    BY <2>1, InterruptFrame DEF pipeline, vars
  <2> QED
    BY <2>2, <2>3, <2>4 DEF BackInv, IsAck
<1>3. CASE N64Reset
  BY <1>3 DEF N64Reset
<1>4. CASE Update \/ EndDrain \/ Horizon \/ UNCHANGED n64Vars
  <2>1. /\ UNCHANGED <<pipeline, history>>
        /\ miInterrupt' \in {miInterrupt, miInterrupt \cup {"AI"}}
    BY <1>4 DEF Update, EndDrain, Horizon, n64Vars, queue, S!Update,
       S!EndDrain
  <2>2. UNCHANGED <<entry, stage, fill, dcwb>>
    BY <2>1 DEF pipeline, vars, history
  <2> QED
    BY <2>1, <2>2 DEF BackInv, IsAck
<1>5. CASE RunWB
  <2>1. fill' = 4 /\ entry = "back"
    BY <1>5, WBFrame DEF history
  <2> QED
    BY <1>5, <2>1, AckByWB DEF BackInv
<1>6. CASE RunOther
  <2>1. entry = "back" /\ fill = 4
    BY <1>6 DEF RunOther, history, BackInv
  <2>2. (DC \/ RF \/ IC) /\ UNCHANGED miInterrupt
    BY <1>6, <2>1, OtherFrame DEF queue
  <2>3. CASE DC
    <3>1. stage = "DC" /\ UNCHANGED fill
      BY <2>3, StepsBesideEX DEF DC, Runs
    <3> QED
      BY <2>1, <2>2, <3>1 DEF BackInv
  <2>4. CASE RF
    BY <2>1, <2>2, <2>4 DEF BackInv, RF, Runs, program, IsAck
  <2>5. CASE IC
    <3>1. /\ stage' = StartOf(fill') /\ UNCHANGED dcwb
          /\ fill' = IF fill < 4 THEN fill + 1 ELSE 4
      BY <2>5, FetchSteps DEF IC
    <3>2. stage' = "WB" /\ fill' = 4
      BY <2>1, <3>1 DEF StartOf
    <3> QED
      BY <2>1, <2>2, <3>1, <3>2 DEF BackInv, IsAck
  <2> QED
    BY <2>2, <2>3, <2>4, <2>5
<1>7. CASE RunFillEX
  BY <1>7 DEF RunFillEX, history, BackInv
<1> QED
  BY <1>1, <1>2, <1>3, <1>4, <1>5, <1>6, <1>7 DEF N64Next

(* The store of any straight handler has lowered VI before an instruction  *)
(* of the interrupted program executes again, wherever in the handler it   *)
(* is and whatever the handler interrupted, unless the handler raises VI   *)
(* itself.                                                                 *)
THEOREM AcknowledgedByReturn ==
    ASSUME NEW k, NEW r
    PROVE  /\ N64Spec /\ Straight(k, r)
           /\ []StoresToCurrent(k) /\ []RaisesNoVi
           => []AcknowledgedOnReturn
<1>1. N64Init => LatchInv /\ DrainInv /\ EntryInv /\ InsideInv(k, r) /\ BackInv
  BY DEF N64Init, IrqInit, Init, EmptyICRF, EmptyRFEX, S!Init, LatchInv,
     DrainInv, EntryInv, InsideInv, BackInv
<1>2. Straight(k, r) /\ [IrqNext]_allVars => Straight(k, r)'
  <2> SUFFICES ASSUME [IrqNext]_allVars PROVE UNCHANGED prog
    BY DEF Straight
  <2>1. CASE TakeInterrupt
    BY <2>1, InterruptFrame
  <2>2. CASE UNCHANGED allVars
    BY <2>2 DEF allVars, vars
  <2>3. CASE EX
    BY <2>3 DEF EX, ExCompute, ExLoad, ExStore, ExStorePart, ExLoadPart,
       ExLoadFloat, ExStoreFloat, ExBranch, ExMultiply, ExMoveToCp0,
       ExFloat, ExNothing, ExERET, program
  <2>4. CASE WB \/ DC \/ RF \/ IC \/ Throw \/ Reset
    BY <2>4 DEF WB, DC, RF, IC, Throw, Reset, program
  <2> QED
    BY <2>1, <2>2, <2>3, <2>4 DEF IrqNext, Cycle, Next, Step
<1>3. TypeOK /\ LatchInv /\ [IrqNext]_allVars => LatchInv'
  BY LatchNext
<1>4. DrainInv /\ [N64Next]_n64Vars => DrainInv'
  BY DrainNext
<1>5. /\ TypeOK /\ LdiInv /\ LatchInv /\ DrainInv /\ QueueInv /\ QueueInv'
      /\ EntryInv /\ [N64Next]_n64Vars
      => EntryInv'
  BY EntryNext
<1>6. /\ TypeOK /\ LdiInv /\ LatchInv /\ DrainInv /\ QueueInv /\ QueueInv'
      /\ EntryInv /\ Straight(k, r) /\ StoresToCurrent(k)
      /\ InsideInv(k, r) /\ BackInv /\ RaisesNoVi /\ [N64Next]_n64Vars
      => InsideInv(k, r)' /\ BackInv'
  BY InsideNext, BackNext
<1>7. N64Spec => [](TypeOK /\ LdiInv) /\ [][IrqNext]_allVars
  BY PipelineInvariant
<1>8. BackInv => AcknowledgedOnReturn
  BY DEF BackInv, AcknowledgedOnReturn
<1> QED
  BY <1>1, <1>2, <1>3, <1>4, <1>5, <1>6, <1>7, <1>8, QueueInvariant, PTL
     DEF N64Spec
=============================================================================
