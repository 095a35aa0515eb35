------------------------- MODULE PipelineIrqProofs --------------------------
(***************************************************************************)
(* Proofs about interrupts in the pipeline, for every program, word size   *)
(* and number of interrupts: operands stay fresh, the handler is entered,  *)
(* EPC survives nested interrupts and returning skips nothing.             *)
(***************************************************************************)
EXTENDS PipelineIrq, PipelineProofs

allVars == <<vars, irqVars>>

LEMMA SetEXLType ==
    ASSUME NEW s \in Word
    PROVE  SetEXL(s) \in Word
<1>1. W \in Nat /\ W % 4 = 0 /\ s \in 0 .. W - 1
  BY WordAssumption, StatusAssumption DEF Word
<1>2. ~EXL(s) => s + 2 < W
  BY <1>1 DEF EXL
<1> QED
  BY <1>1, <1>2 DEF SetEXL, Word

LEMMA IncDec ==
    ASSUME NEW a \in Word
    PROVE  Inc(Dec(a)) = a
BY WordAssumption DEF Inc, Dec, Word

(* What TakeInterrupt leaves alone.                                        *)
LEMMA InterruptFrame ==
    ASSUME TakeInterrupt
    PROVE  /\ stage = "WB" /\ fill = 4 /\ ~halted /\ pc' = Vector
           /\ UNCHANGED <<prog, halted, fill, gpr, fpr, hilo, mem, icrf, rfex,
                          exdc, dcwb, ldi, stage>>
BY DEF TakeInterrupt, program, latches

LEMMA InterruptType == TypeOK /\ TakeInterrupt => TypeOK'
<1> SUFFICES ASSUME TypeOK, TakeInterrupt PROVE TypeOK'
  OBVIOUS
<1>1. Vector \in Word /\ StatusReg \in Reg /\ EpcReg \in Reg
  BY VectorAssumption, RegAssumption
<1>2. cp0 \in [Reg -> Word] /\ pc \in Word
  BY DEF TypeOK
<1>3. Epc \in Word
  BY <1>2, AddressType, WordAssumption DEF Epc, Dec, Word
<1>4. SetEXL(cp0[StatusReg]) \in Word
  BY <1>1, <1>2, SetEXLType
<1>5. cp0' \in [Reg -> Word]
  BY <1>1, <1>2, <1>3, <1>4 DEF TakeInterrupt
<1> QED
  BY <1>1, <1>5, InterruptFrame DEF TypeOK

-----------------------------------------------------------------------------
(* OperandsFresh: an interrupt comes at stage WB, changes no register of   *)
(* the general file and no latch.                                          *)
LEMMA InterruptData == DataInv /\ TakeInterrupt => DataInv'
<1> SUFFICES ASSUME DataInv, TakeInterrupt PROVE DataInv'
  OBVIOUS
<1>1. TypeOK'
  BY InterruptType DEF DataInv
<1>2. BootInv'
  BY InterruptFrame DEF BootInv
<1>3. InterlockInv'
  BY InterruptFrame DEF DataInv, InterlockInv, LoadPending
<1>4. FreshInv'
  BY InterruptFrame DEF DataInv, FreshInv, View
<1> QED
  BY <1>1, <1>2, <1>3, <1>4 DEF DataInv

(* With interrupts between any two cycles no instruction executes with an  *)
(* operand that RF fetched too early.                                      *)
THEOREM InterruptsKeepOperandsFresh ==
    ASSUME AllBootSafe
    PROVE  IrqSpec => []OperandsFresh
<1>1. IrqInit => DataInv
  BY DataInit DEF IrqInit
<1>2. DataInv /\ [IrqNext]_allVars => DataInv'
  <2> SUFFICES ASSUME DataInv, [IrqNext]_allVars PROVE DataInv'
    OBVIOUS
  <2>1. CASE Cycle
    BY <2>1, DataNext DEF Cycle
  <2>2. CASE TakeInterrupt
    BY <2>2, InterruptData
  <2>3. CASE UNCHANGED allVars
    <3>1. UNCHANGED vars
      BY <2>3 DEF allVars
    <3> QED
      BY <3>1, DataNext
  <2> QED
    BY <2>1, <2>2, <2>3 DEF IrqNext
<1>3. DataInv => OperandsFresh
  BY DEF DataInv, FreshInv, OperandsFresh, View, I
<1> QED
  BY <1>1, <1>2, <1>3, PTL DEF IrqSpec, allVars

-----------------------------------------------------------------------------
(* What a step does to the program counter and to the first two latches.   *)

LEMMA StepsBesideEX ==
    ASSUME TypeOK, WB \/ DC \/ Throw
    PROVE  /\ UNCHANGED <<pc, fill, icrf, rfex>>
           /\ exdc'.branch = exdc.branch
           /\ \/ stage = "WB" /\ stage' = "DC"
              \/ stage = "DC" /\ stage' = "EX"
              \/ stage' = stage
<1>1. CASE WB
  <2>1. /\ stage = "WB" /\ stage' = "DC"
        /\ UNCHANGED <<pc, fill, icrf, rfex, exdc>>
    BY <1>1 DEF WB, Runs, program, latches
  <2> QED
    BY <2>1
<1>2. CASE DC
  <2>1. exdc' = [exdc EXCEPT !.sext = FALSE] \/ exdc' = exdc
    BY <1>2 DEF DC
  <2>2. exdc \in EXDC
    BY DEF TypeOK
  <2>3. exdc'.branch = exdc.branch
    BY <2>1, <2>2 DEF EXDC
  <2> QED
    BY <1>2, <2>3 DEF DC, Runs, program
<1>3. CASE Throw
  BY <1>3 DEF Throw, program, latches
<1> QED
  BY <1>1, <1>2, <1>3

(* EX of an instruction that is no branch, jump or ERET.                   *)
LEMMA PlainEX ==
    ASSUME TypeOK, EX, I.op \notin ControlOps
    PROVE  /\ stage = "EX" /\ (stage' = "RF" \/ (stage' = "WB" /\ fill = 4))
           /\ UNCHANGED <<pc, fill, icrf>>
           /\ rfex' = rfex \/ (rfex'.instr = Nop /\ rfex'.live = FALSE)
           /\ stage' = "WB" => ldi \/ rfex'.live = FALSE
<1>1. ~ExBranch /\ ~ExERET
  BY DEF ExBranch, ExERET, Executes, ControlOps
<1>2. CASE ExLoad
  <2>1. rfex' = [rfex EXCEPT !.instr = Nop, !.live = FALSE]
    BY <1>2 DEF ExLoad
  <2>2. rfex'.instr = Nop /\ rfex'.live = FALSE
    BY <2>1 DEF TypeOK, RFEX
  <2> QED
    BY <1>2, <2>2 DEF ExLoad, Executes, Runs, EndEX, program
<1>3. CASE ~ExLoad
  BY <1>1, <1>3
     DEF EX, ExCompute, ExStore, ExStorePart, ExLoadPart, ExLoadFloat,
         ExStoreFloat, ExMultiply, ExMoveToCp0, ExFloat, ExNothing,
         Executes, Runs, EndEX, program, Idle
<1> QED
  BY <1>2, <1>3

(* EX of a branch, a jump or ERET.                                         *)
LEMMA ControlEX ==
    ASSUME TypeOK, EX, I.op \in ControlOps, ~ldi
    PROVE  /\ stage = "EX" /\ stage' = "RF"
           /\ UNCHANGED <<fill, rfex>>
           /\ exdc'.branch \/ icrf'.live = FALSE
<1>1. ExBranch \/ ExERET
  BY DEF EX, ExCompute, ExLoad, ExStore, ExStorePart, ExLoadPart,
         ExLoadFloat, ExStoreFloat, ExMultiply, ExMoveToCp0, ExFloat,
         ExNothing, Executes, ComputeOps, LoadOps, ControlOps, BranchOps,
         PlainOps, LikelyOps, JumpOps
<1>2. CASE ExBranch
  BY <1>2 DEF ExBranch, Executes, Runs, EndEX, program, Idle, EmptyEXDC
<1>3. CASE ExERET
  <2>1. icrf'.live = FALSE
    BY <1>3 DEF ExERET, Squash, TypeOK, ICRF
  <2> QED
    BY <1>3, <2>1 DEF ExERET, Executes, Runs, EndEX, program
<1> QED
  BY <1>1, <1>2, <1>3

(* RF and IC move an instruction on; Reset and IC leave few cases.         *)
LEMMA FetchSteps ==
    ASSUME TypeOK
    PROVE  /\ RF => /\ stage = "RF" /\ stage' = "IC"
                    /\ UNCHANGED <<pc, fill, icrf, exdc, ldi>>
                    /\ rfex'.instr = icrf.instr /\ rfex'.live = icrf.live
                    /\ rfex'.addr = icrf.addr
           /\ IC => /\ stage = "IC" /\ stage' = StartOf(fill')
                    /\ fill' = IF fill < 4 THEN fill + 1 ELSE 4
                    /\ pc' = Inc(pc) /\ icrf'.addr = pc /\ icrf'.live = TRUE
                    /\ UNCHANGED <<rfex, exdc, ldi>>
           /\ Reset => /\ stage' = "IC" /\ fill' = 0 /\ ldi' = FALSE
                       /\ rfex'.live = FALSE /\ icrf'.live = FALSE
<1>1. ASSUME RF
      PROVE  /\ stage = "RF" /\ stage' = "IC"
             /\ UNCHANGED <<pc, fill, icrf, exdc, ldi>>
             /\ rfex'.instr = icrf.instr /\ rfex'.live = icrf.live
             /\ rfex'.addr = icrf.addr
  BY <1>1 DEF RF, Runs, program
<1>2. ASSUME IC
      PROVE  /\ stage = "IC" /\ stage' = StartOf(fill')
             /\ fill' = IF fill < 4 THEN fill + 1 ELSE 4
             /\ pc' = Inc(pc) /\ icrf'.addr = pc /\ icrf'.live = TRUE
             /\ UNCHANGED <<rfex, exdc, ldi>>
  BY <1>2 DEF IC, Runs
<1>3. ASSUME Reset
      PROVE  /\ stage' = "IC" /\ fill' = 0 /\ ldi' = FALSE
             /\ rfex'.live = FALSE /\ icrf'.live = FALSE
  BY <1>3 DEF Reset, StartOf, EmptyRFEX, EmptyICRF
<1> QED
  BY <1>1, <1>2, <1>3

(* A load that holds the pipeline back is in EX/DC, and DC lets go before  *)
(* EX runs again; also in programs that fill_pipeline mishandles.          *)
LdiInv ==
    /\ ldi => exdc.write = "LATEREGISTER" /\ stage # "EX" /\ fill >= 2
    /\ stage \in {"WB", "DC", "EX"} => fill >= 2

LEMMA LdiNext == TypeOK /\ LdiInv /\ [Next]_vars => LdiInv'
<1> SUFFICES ASSUME TypeOK, LdiInv, [Next]_vars PROVE LdiInv'
  OBVIOUS
<1> USE DEF LdiInv
<1>0. fill \in 0 .. 4
  BY DEF TypeOK
<1>1. CASE WB
  BY <1>1 DEF WB, Runs, program, latches
<1>2. CASE DC
  BY <1>2 DEF DC, Runs, program
<1>3. CASE EX
  <2>1. stage = "EX" /\ ~ldi /\ fill' = fill /\ stage' # "EX"
    BY <1>3 DEF EX, ExCompute, ExLoad, ExStore, ExStorePart, ExLoadPart,
         ExLoadFloat, ExStoreFloat, ExBranch, ExMultiply, ExMoveToCp0,
         ExFloat, ExNothing, ExERET, Executes, Runs, program, EndEX
  <2>2. CASE ExLoad
    <3>1. exdc'.write = "LATEREGISTER"
      BY <2>2 DEF ExLoad, EmptyEXDC
    <3> QED
      BY <2>1, <3>1
  <2>3. CASE ~ExLoad
    <3>1. ldi' = ldi
      BY <1>3, <2>3 DEF EX, ExCompute, ExStore, ExStorePart, ExLoadPart,
         ExLoadFloat, ExStoreFloat, ExBranch, ExMultiply, ExMoveToCp0,
         ExFloat, ExNothing, ExERET
    <3> QED
      BY <3>1, <2>1
  <2> QED
    BY <2>2, <2>3
<1>4. CASE RF
  BY <1>4, FetchSteps
<1>5. CASE IC
  BY <1>0, <1>5, FetchSteps DEF StartOf
<1>6. CASE Throw
  <2>1. UNCHANGED <<ldi, exdc, stage, fill>>
    BY <1>6 DEF Throw, latches
  <2> QED
    BY <2>1
<1>7. CASE Reset
  BY <1>7, FetchSteps
<1>8. CASE UNCHANGED vars
  BY <1>8 DEF vars
<1> QED
  BY <1>1, <1>2, <1>3, <1>4, <1>5, <1>6, <1>7, <1>8 DEF Next, Step

IrqInv == TypeOK /\ LdiInv /\ HandlerInv /\ ReturnInv /\ irqs \in Nat

LEMMA IrqInvInit == IrqInit => IrqInv
<1> SUFFICES ASSUME IrqInit PROVE IrqInv
  OBVIOUS
<1>1. TypeOK /\ stage = "IC" /\ fill = 0 /\ ldi = FALSE /\ clean = FALSE
        /\ ~rfex.live /\ ~icrf.live
  BY TypeInit, EmptyFacts DEF IrqInit, Init, StartOf
<1> QED
  BY <1>1 DEF IrqInit, IrqInv, LdiInv, HandlerInv, ReturnInv

(* One step of update_pipeline keeps HandlerInv and ReturnInv.             *)
LEMMA CycleKeeps ==
    ASSUME IrqInv, Cycle
    PROVE  HandlerInv' /\ ReturnInv'
<1> USE DEF IrqInv
<1>0. /\ irqs' = irqs /\ clean' = (clean /\ stage # "IC" /\ fill' = 4)
      /\ Next
  BY DEF Cycle, irqVars
<1>1. CASE WB \/ DC \/ Throw
  <2>1. HandlerInv'
    BY <1>0, <1>1, StepsBesideEX DEF HandlerInv
  <2>2. ReturnInv'
    BY <1>0, <1>1, StepsBesideEX DEF ReturnInv
  <2> QED
    BY <2>1, <2>2
<1>2. CASE EX /\ I.op \notin ControlOps
  <2>1. Nop.op \notin ControlOps
    BY DEF Nop, ControlOps, BranchOps, PlainOps, LikelyOps, JumpOps
  <2>2. stage = "EX" /\ ~ldi
    BY <1>2, PlainEX DEF LdiInv
  <2>3. HandlerInv'
    BY <1>0, <1>2, <2>1, PlainEX DEF HandlerInv
  <2>4. ReturnInv'
    BY <1>0, <1>2, <2>2, PlainEX DEF ReturnInv
  <2> QED
    BY <2>3, <2>4
<1>3. CASE EX /\ I.op \in ControlOps
  <2>1. stage = "EX" /\ ~ldi
    BY <1>3 DEF EX, ExCompute, ExLoad, ExStore, ExStorePart, ExLoadPart,
         ExLoadFloat, ExStoreFloat, ExBranch, ExMultiply, ExMoveToCp0,
         ExFloat, ExNothing, ExERET, Executes, Runs, LdiInv
  <2>2. stage' = "RF" /\ (exdc'.branch \/ icrf'.live = FALSE)
    BY <1>3, <2>1, ControlEX
  <2>3. ~clean
    BY <1>3, <2>1 DEF HandlerInv, I
  <2> QED
    BY <1>0, <2>2, <2>3 DEF HandlerInv, ReturnInv
<1>4. CASE RF
  <2>1. HandlerInv'
    BY <1>0, <1>4, FetchSteps DEF HandlerInv
  <2>2. ReturnInv'
    BY <1>0, <1>4, FetchSteps DEF ReturnInv
  <2> QED
    BY <2>1, <2>2
<1>5. CASE IC
  <2>1. HandlerInv'
    BY <1>0, <1>5, FetchSteps DEF HandlerInv
  <2>2. pc = Dec(pc')
    BY <1>5, FetchSteps, DecInc DEF TypeOK
  <2>3. stage' \in {"RF", "EX", "DC", "WB"}
    <3>1. fill \in 0 .. 4
      BY DEF TypeOK
    <3>2. fill' \in {1, 2, 3, 4} /\ stage' = StartOf(fill')
      BY <1>5, <3>1, FetchSteps
    <3> QED
      BY <3>2 DEF StartOf
  <2>4. /\ icrf'.addr = pc /\ icrf'.live = TRUE
        /\ rfex' = rfex /\ exdc' = exdc /\ stage = "IC"
    BY <1>5, FetchSteps
  <2>5. ASSUME irqs = 0, rfex'.live, ~exdc'.branch
        PROVE  rfex'.addr = Dec(Dec(pc'))
    <3>1. rfex.live /\ ~exdc.branch
      BY <2>4, <2>5
    <3> QED
      BY <2>2, <2>4, <2>5, <3>1 DEF ReturnInv
  <2>6. icrf'.addr = Dec(pc') /\ icrf'.live /\ stage' # "IC"
    BY <2>2, <2>3, <2>4
  <2>7. ReturnInv'
    BY <1>0, <2>5, <2>6 DEF ReturnInv
  <2> QED
    BY <2>1, <2>7
<1>6. CASE Reset
  <2>1. /\ stage' = "IC" /\ fill' = 0
        /\ rfex'.live = FALSE /\ icrf'.live = FALSE
    BY <1>6, FetchSteps
  <2>2. fill' # 4
    BY <2>1
  <2>3. ~clean'
    BY <1>0, <2>2
  <2> QED
    BY <2>1, <2>3 DEF HandlerInv, ReturnInv
<1> QED
  BY <1>0, <1>1, <1>2, <1>3, <1>4, <1>5, <1>6 DEF Next, Step

LEMMA IrqInvNext == IrqInv /\ [IrqNext]_allVars => IrqInv'
<1> SUFFICES ASSUME IrqInv, [IrqNext]_allVars PROVE IrqInv'
  OBVIOUS
<1>1. CASE Cycle
  <2>1. TypeOK' /\ LdiInv' /\ irqs' \in Nat
    BY <1>1, TypeNext, LdiNext DEF IrqInv, Cycle
  <2> QED
    BY <1>1, <2>1, CycleKeeps DEF IrqInv
<1>2. CASE TakeInterrupt
  <2>1. TypeOK'
    BY <1>2, InterruptType DEF IrqInv
  <2>2. LdiInv'
    BY <1>2, InterruptFrame DEF IrqInv, LdiInv
  <2>3. HandlerInv'
    <3>1. clean' = NoControlInFlight
      BY <1>2 DEF TakeInterrupt
    <3> QED
      BY <1>2, <3>1, InterruptFrame DEF HandlerInv, NoControlInFlight
  <2>4. ReturnInv'
    <3>1. irqs' # 0
      BY <1>2 DEF TakeInterrupt, IrqInv
    <3> QED
      BY <3>1 DEF ReturnInv
  <2>5. irqs' \in Nat
    BY <1>2 DEF TakeInterrupt, IrqInv
  <2> QED
    BY <2>1, <2>2, <2>3, <2>4, <2>5 DEF IrqInv
<1>3. CASE UNCHANGED allVars
  BY <1>3 DEF IrqInv, TypeOK, LdiInv, HandlerInv, ReturnInv, allVars, vars,
       irqVars
<1> QED
  BY <1>1, <1>2, <1>3 DEF IrqNext

(* An interrupt that finds no branch in flight enters the handler.         *)
THEOREM HandlerIsFetched == IrqSpec => []HandlerFetched
<1>1. IrqInv => HandlerFetched
  BY DEF IrqInv, HandlerInv, HandlerFetched
<1> QED
  BY <1>1, IrqInvInit, IrqInvNext, PTL DEF IrqSpec, allVars

(* Apart from delay slots, returning from the first interrupt skips no     *)
(* instruction.                                                            *)
THEOREM ReturnSkipsNothing == IrqSpec => NothingSkipped
<1>1. ASSUME IrqInv, TakeInterrupt, irqs = 0, ~EXL(cp0[StatusReg]),
             ~exdc.branch
      PROVE  OldestPending \in {cp0'[EpcReg], Inc(cp0'[EpcReg])}
  <2>1. cp0 \in [Reg -> Word] /\ pc \in Word
    BY <1>1 DEF IrqInv, TypeOK
  <2>2. cp0'[EpcReg] = Dec(Dec(pc))
    BY <1>1, <2>1, RegAssumption DEF TakeInterrupt, Epc
  <2>3. Inc(Dec(Dec(pc))) = Dec(pc)
    BY <2>1, IncDec, AddressType DEF Word
  <2>4. /\ rfex.live => rfex.addr = Dec(Dec(pc))
        /\ icrf.live /\ icrf.addr = Dec(pc)
    BY <1>1, InterruptFrame DEF IrqInv, ReturnInv
  <2> QED
    BY <2>2, <2>3, <2>4 DEF OldestPending
<1> QED
  BY <1>1, IrqInvInit, IrqInvNext, PTL DEF IrqSpec, NothingSkipped, allVars

=============================================================================
