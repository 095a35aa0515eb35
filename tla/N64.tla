-------------------------------- MODULE N64 --------------------------------
(***************************************************************************)
(* The machine of n64_impl.cxx: the pipeline with its interrupts (module   *)
(* PipelineIrq) and the event queue with the VI and MI registers (module   *)
(* Scheduler), joined where the code joins them.  A cycle is N64::Update:  *)
(* the events that are due, then WB, DC, EX, RF and IC.                    *)
(*                                                                         *)
(* Each module leaves open what the other one decides, so the actions here *)
(* are conjunctions of one action of each:                                 *)
(*   - an Interrupt event that check_interrupts lets pass is the moment of *)
(*     TakeInterrupt, and no other moment is;                              *)
(*   - a store to a device register is made by WB, from the DC/WB latch;   *)
(*   - the queue hears of MTC0 and ERET when EX runs them, in             *)
(*     fill_pipeline too.                                                  *)
(* `status' and `compare' of the queue are registers of cp0 seen from      *)
(* there.  IP2 is held in `ip2' alone; the programs do not read CP0_CAUSE  *)
(* or a device register, do not store a double word to one, and do not     *)
(* throw.                                                                  *)
(*                                                                         *)
(* `entry' and `asked' are history: the way of the last VI interrupt into  *)
(* the handler and back, and the cycle of its event.                       *)
(***************************************************************************)
EXTENDS PipelineIrq

CONSTANTS
    Frame, HalfLines, ResetLines, LineMod, Byte, IntRange, TimeRange,
    ViStores, MaskStores, PendingStores, Statuses, Compares,
    MaxTime, MaxWrites, MaxResets,
    CauseReg, CompareReg,       \* numbers of CP0_CAUSE and CP0_COMPARE
    ViIntr, ViCurrent, MiMask, MiInterrupt,  \* addresses of the registers
    StoreSize(_)                \* StoreSize(f): bytes of a store

VARIABLES
    time, scheduler, viIntr, halflines, miInterrupt, miMask, ip2, phase,
    pushes, owed, writes, resets,
    entry,      \* "none", "wait", "in" or "back"
    asked

(* CP0_STATUS as the queue sees it.  IM2, and IP2 in CP0_CAUSE, is the bit *)
(* above ERL here.                                                         *)
Bit2(w) == (w \div 8) % 2 = 1
StatusOf(w) ==
    [ie |-> IE(w), exl |-> EXL(w), erl |-> ERL(w), im2 |-> Bit2(w)]

status  == StatusOf(cp0[StatusReg])
compare == cp0[CompareReg]

S == INSTANCE Scheduler

pipeline == <<vars, irqVars>>
queue    == <<time, scheduler, viIntr, halflines, miInterrupt, miMask, ip2,
              phase, pushes, owed, writes, resets>>
history  == <<entry, asked>>
n64Vars  == <<pipeline, queue, history>>

ASSUME DeviceAssumption ==
    /\ {CauseReg, CompareReg} \subseteq Reg
    /\ {ViIntr, ViCurrent, MiMask, MiInterrupt} \subseteq Word
    /\ {StatusReg, EpcReg} \cap {CauseReg, CompareReg} = {}
    /\ CauseReg # CompareReg
    /\ ViCurrent \notin {ViIntr, MiMask, MiInterrupt}

(* What store_memory copies over the host variable, as far as it is one of *)
(* six interrupts: enum class Interrupt.                                   *)
MiBit == [SP |-> 1, SI |-> 2, AI |-> 4, VI |-> 8, PI |-> 16, DP |-> 32]
StoredPending(f, w) ==
    LET b == S!Swap(StoreSize(f), w) % Byte
    IN  {i \in S!Bits : (b \div MiBit[i]) % 2 = 1}

(* What the bounds of Scheduler must admit.                                *)
ASSUME StoreAssumption ==
    /\ \A f \in Func, w \in Word :
          /\ <<StoreSize(f), Narrow(f, w)>> \in ViStores
          /\ StoredPending(f, Narrow(f, w)) \in PendingStores
    /\ [set |-> {"VI"}, clear |-> {}] \in MaskStores
    /\ \A w \in Word : StatusOf(w) \in Statuses
    /\ Word \subseteq Compares

(* The constants of Scheduler are those of its own assumptions.            *)
ASSUME QueueAssumption ==
    S!FrameAssumption /\ S!WidthAssumption /\ S!InputAssumption

-----------------------------------------------------------------------------
N64Init ==
    /\ IrqInit
    /\ S!Init
    /\ entry = "none" /\ asked = 0

(* Events are handled between two cycles of the pipeline.                  *)
Update ==
    /\ stage = "WB" /\ fill = 4
    /\ UNCHANGED <<pipeline, history>>
    /\ S!Update

Interrupts(e) ==
    e.type = "Interrupt" /\ miInterrupt \cap miMask # {} /\ S!Serviceable

(* An interrupt that is not let pass enters the handler all the same. *)
BadHandleEvent ==
    /\ \E e \in S!Due \cap S!Tops :
        /\ IF Interrupts(e) THEN TakeInterrupt
           ELSE /\ pc' = IF e.type = "Interrupt" THEN Vector ELSE pc
                /\ UNCHANGED <<program, regs, mem, latches, stage, irqVars>>
        /\ S!HandleEventOf(e)
    /\ UNCHANGED history

HandleEvent ==
    \E e \in S!Due \cap S!Tops :
        /\ IF Interrupts(e) THEN TakeInterrupt ELSE UNCHANGED pipeline
        /\ S!HandleEventOf(e)
        /\ IF e.type # "Vi" THEN UNCHANGED history
           ELSE /\ asked' = time
                /\ entry' = IF owed' /\ NoControlInFlight THEN "wait"
                            ELSE "none"

MaskVi == [set |-> {"VI"}, clear |-> {}]

EndDrain == UNCHANGED <<pipeline, history>> /\ S!EndDrain

(* The store in WB, as EX has narrowed it: SB and SH put the low bytes of  *)
(* the register in the latch.                                              *)
StoresTo(a) == dcwb.write = "MMU" /\ dcwb.loc = a
StoreData == Narrow(dcwb.f, dcwb.data)

(* An acknowledgement is only taken while the line is on the screen. *)
BadRunWB ==
    /\ Cycle /\ WB /\ fill = 4
    /\ CASE StoresTo(ViIntr) ->
              S!StoreViIntrOf({<<StoreSize(dcwb.f), StoreData>>})
         [] StoresTo(MiMask) /\ StoreData # 0 -> S!StoreMiMaskOf({MaskVi})
         [] StoresTo(ViCurrent) /\ StoreData = S!CurLine -> S!StoreViCurrent
         [] StoresTo(MiInterrupt) ->
              S!StoreMiInterruptOf({StoredPending(dcwb.f, StoreData)})
         [] OTHER -> S!NoStore
    /\ UNCHANGED history

(* store_memory and invalidate_hwio.  MI_MASK has one use here, to let VI  *)
(* interrupts pass.                                                        *)
RunWB ==
    /\ Cycle /\ WB /\ fill = 4
    /\ CASE StoresTo(ViIntr) ->
              S!StoreViIntrOf({<<StoreSize(dcwb.f), StoreData>>})
         [] StoresTo(MiMask) /\ StoreData # 0 -> S!StoreMiMaskOf({MaskVi})
         [] StoresTo(ViCurrent) /\ StoreData # 0 -> S!StoreViCurrent
         [] StoresTo(MiInterrupt) ->
              S!StoreMiInterruptOf({StoredPending(dcwb.f, StoreData)})
         [] OTHER -> S!NoStore
    /\ UNCHANGED history

Moves(r) == I.op = "MTC0" /\ I.rd = r

(* The queue does not hear of a new COMPARE. *)
BadQueueEX ==
    IF Moves(CauseReg)
    THEN ip2' = Bit2(cp0'[CauseReg]) /\ UNCHANGED <<scheduler, pushes>>
    ELSE UNCHANGED <<scheduler, pushes, ip2>>

(* What execute_cp0_instruction does besides writing the register.         *)
QueueEX ==
    CASE Moves(CauseReg) ->
           ip2' = Bit2(cp0'[CauseReg]) /\ UNCHANGED <<scheduler, pushes>>
      [] Moves(CompareReg) /\ compare' # 0 ->
           S!Push(S!CountEvent(compare', pushes)) /\ UNCHANGED ip2
      [] OTHER -> UNCHANGED <<scheduler, pushes, ip2>>

Execute ==
    /\ Cycle /\ EX /\ QueueEX
    /\ IF \E r \in {StatusReg, CauseReg, CompareReg} : Moves(r)
       THEN writes < MaxWrites /\ writes' = writes + 1
       ELSE UNCHANGED writes
    /\ UNCHANGED <<viIntr, halflines, miInterrupt, miMask, owed, resets>>

(* RF and IC do not read time_, so ++time_ comes with EX, as in Scheduler. *)
RunEX ==
    /\ Execute /\ fill = 4
    /\ phase = "EX" /\ phase' = "idle" /\ time' = time + 1
    /\ entry' = CASE entry = "wait" /\ rfex.live /\ rfex.addr = Vector -> "in"
                  [] entry = "in" /\ I.op = "ERET" -> "back"
                  [] entry = "back" /\ rfex.live -> "none"
                  [] OTHER -> entry
    /\ UNCHANGED asked

(* fill_pipeline, before the first Update.                                 *)
RunFillEX == Execute /\ fill < 4 /\ UNCHANGED <<phase, time, history>>

(* The stages that no device hears of.                                     *)
RunOther ==
    /\ Cycle
    /\ DC \/ RF \/ IC
    /\ UNCHANGED <<queue, history>>

(* N64::Reset.                                                             *)
N64Reset ==
    /\ Cycle /\ Reset /\ S!Reset
    /\ entry' = "none" /\ asked' = 0

Horizon == UNCHANGED n64Vars /\ S!Horizon

N64Next ==
    \/ Update \/ HandleEvent \/ EndDrain
    \/ RunWB \/ RunEX \/ RunFillEX \/ RunOther \/ N64Reset \/ Horizon

N64Spec == N64Init /\ [][N64Next]_n64Vars

-----------------------------------------------------------------------------
(* The two halves of the machine keep the promises they were modelled      *)
(* with: what check_interrupts, MTC0, ERET and WB do to the queue is a     *)
(* behaviour of Scheduler.                                                 *)
ImplementsScheduler == S!Spec

(* And what the queue does to the pipeline is a behaviour of PipelineIrq,  *)
(* so its properties hold with real events too.                            *)
ImplementsPipelineIrq == IrqSpec

(* From the line on the screen to the handler: a VI event that finds       *)
(* interrupts enabled and no branch in flight has the first instruction of *)
(* the handler in EX at most four cycles later, with the two instructions  *)
(* in the latches and their interlocks in front of it.                     *)
EntryLatency == entry = "wait" => time - asked <= 4

(* A handler that stores to VI_V_CURRENT, and does not raise VI again in   *)
(* MI_INTERRUPT, has acknowledged the interrupt before the interrupted     *)
(* program goes on, even with ERET right behind the store, and whatever    *)
(* was still on its way to MI_INTERRUPT when the interrupt came.           *)
AcknowledgedOnReturn ==
    stage = "EX" /\ fill = 4 /\ entry = "back" /\ rfex.live =>
        "VI" \notin miInterrupt
=============================================================================
