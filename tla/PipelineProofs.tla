--------------------------- MODULE PipelineProofs ---------------------------
(***************************************************************************)
(* Proofs about the pipeline, for every word size, register set, memory    *)
(* image and arithmetic, and for every set of programs: its types, its     *)
(* operands and its pc, and that it implements the sequential machine.     *)
(***************************************************************************)
EXTENDS PipelineISA, TLAPS

USE DEF Word

(* Address arithmetic stays within the address space.                      *)
LEMMA AddressType ==
    ASSUME NEW a \in Word, NEW b \in Word
    PROVE  Inc(a) \in Word /\ Dec(a) \in Word /\ Plus(a, b) \in Word
BY WordAssumption DEF Inc, Dec, Plus

(* Stepping forward is undone by stepping back: what makes a branch, which *)
(* computes its target from the fetched-ahead pc, relative to its slot.    *)
LEMMA DecInc ==
    ASSUME NEW a \in Word
    PROVE  Dec(Inc(a)) = a
BY WordAssumption DEF Inc, Dec

(* ERET's status is a word.                                                *)
LEMMA ClearEXLType ==
    ASSUME NEW s \in Word
    PROVE  ClearEXL(s) \in Word
BY WordAssumption DEF ClearEXL, EXL

LEMMA NopType == Nop \in Instr
BY RegAssumption, PlaceAssumption, WordAssumption
   DEF Nop, Instr, Op, ComputeOps

LEMMA DestType ==
    ASSUME NEW i \in Instr
    PROVE  Dest(i) \in Reg
BY RegAssumption DEF Dest, Instr

LEMMA AccessType ==
    ASSUME NEW f \in Func, NEW w \in Word
    PROVE  Narrow(f, w) \in Word /\ SignExtend(f, w) \in Word
BY DataAssumption

(* Whatever a computing instruction writes is a word.                      *)
LEMMA ResultType ==
    ASSUME NEW i \in Instr, i.op \in ComputeOps, NEW a \in Word, NEW b \in Word,
           NEW h \in Word, NEW c \in [Reg -> Word]
    PROVE  Result(i, a, b, h, c) \in Word
BY DataAssumption DEF Result, Instr, ComputeOps

LEMMA EmptyTypes ==
    /\ EmptyICRF \in ICRF /\ EmptyRFEX \in RFEX
    /\ EmptyEXDC \in EXDC /\ EmptyDCWB \in DCWB
BY NopType, RegAssumption, PlaceAssumption, WordAssumption
   DEF EmptyICRF, EmptyRFEX, EmptyEXDC, EmptyDCWB, ICRF, RFEX, EXDC, DCWB

-----------------------------------------------------------------------------
LEMMA TypeInit == Init => TypeOK
<1> SUFFICES ASSUME Init PROVE TypeOK
  OBVIOUS
<1>1. ResetPc \in Word /\ 0 \in Word
  BY PlaceAssumption, WordAssumption
<1>2. mem \in [Word -> Word] /\ hilo \in Word
  BY ProgramAssumption DEF Init
<1>3. [r \in Reg |-> 0] \in [Reg -> Word]
  BY <1>1
<1>4. icrf \in ICRF /\ rfex \in RFEX /\ exdc \in EXDC /\ dcwb \in DCWB
  BY EmptyTypes DEF Init
<1>5. stage = "IC" /\ fill \in 0 .. 4
  BY DEF Init, StartOf
<1> QED
  BY <1>1, <1>2, <1>3, <1>4, <1>5 DEF Init, TypeOK

LEMMA TypeNext == TypeOK /\ [Next]_vars => TypeOK'
<1> SUFFICES ASSUME TypeOK, [Next]_vars PROVE TypeOK'
  OBVIOUS
<1> USE DEF TypeOK
<1>0. prog[pc] \in Instr
  BY ProgramAssumption DEF Program
<1>a. rfex \in RFEX /\ I \in Instr /\ I.imm \in Word /\ I.rt \in Reg
        /\ I.rs \in Reg /\ I.rd \in Reg /\ I.f \in Func
        /\ rfex.rs \in Word /\ rfex.rt \in Word /\ Addr \in Word
  BY AddressType DEF RFEX, I, Instr, Addr
<1>b. \A b \in BOOLEAN : [EmptyEXDC EXCEPT !.sext = exdc.sext, !.branch = b] \in EXDC
  BY EmptyTypes DEF EXDC
<1>c. \A stall \in BOOLEAN : EndEX(stall) => stage' \in {"WB", "DC", "EX", "RF", "IC"}
  BY DEF EndEX
<1>1. CASE WB
  <2>1. mem' \in [Word -> Word]
    <3>1. CASE dcwb.write = "MMU"
      <4>1. dcwb.loc \in Word /\ Merge(dcwb.f, mem[dcwb.loc], dcwb.data) \in Word
        BY DataAssumption DEF DCWB
      <4> QED
        BY <1>1, <3>1, <4>1 DEF WB
    <3>2. CASE dcwb.write # "MMU"
      BY <1>1, <3>2 DEF WB
    <3> QED
      BY <3>1, <3>2
  <2> QED
    BY <1>1, <2>1 DEF WB, program, regs, latches
<1>2. CASE DC
  <2>1. CASE exdc.write = "LATEREGISTER"
    <3>1. exdc.dest \in Reg /\ exdc.f \in Func /\ mem[exdc.loc] \in Word
      BY DEF EXDC
    <3>2. gpr' \in [Reg -> Word]
      <4>1. SignExtend(exdc.f, mem[exdc.loc]) \in Word
        BY <3>1, AccessType
      <4>2. Narrow(exdc.f, mem[exdc.loc]) \in Word
        BY <3>1, AccessType
      <4> QED
        BY <1>2, <2>1, <3>1, <4>1, <4>2 DEF DC
    <3>3. exdc' = [exdc EXCEPT !.sext = FALSE] /\ dcwb' = EmptyDCWB
      BY <1>2, <2>1 DEF DC
    <3>4. exdc' \in EXDC
      BY <3>3 DEF EXDC
    <3>5. dcwb' \in DCWB
      BY <3>3, EmptyTypes
    <3> QED
      BY <1>2, <2>1, <3>2, <3>4, <3>5 DEF DC, program
  <2>2. CASE exdc.write # "LATEREGISTER"
    <3>1. dcwb' \in DCWB
      BY <1>2, <2>2 DEF DC, EXDC, DCWB
    <3> QED
      BY <1>2, <2>2, <3>1 DEF DC, program
  <2> QED
    BY <2>1, <2>2
<1>3. CASE RF
  <2>1. icrf.instr \in Instr /\ icrf.addr \in Word /\ icrf.live \in BOOLEAN
    BY DEF ICRF
  <2>2. gpr' \in [Reg -> Word]
    <3>1. CASE fill = 4
      <4>1. gpr' = [gpr EXCEPT ![0] = 0]
        BY <1>3, <3>1 DEF RF
      <4> QED
        BY <4>1, RegAssumption, WordAssumption
    <3>2. CASE fill # 4
      BY <1>3, <3>2 DEF RF
    <3> QED
      BY <3>1, <3>2
  <2>3. gpr'[icrf.instr.rs] \in Word /\ gpr'[icrf.instr.rt] \in Word
    BY <2>1, <2>2 DEF Instr
  <2>4. rfex' \in RFEX
    BY <1>3, <2>1, <2>3 DEF RF, RFEX
  <2> QED
    BY <1>3, <2>2, <2>4 DEF RF, program
<1>4. CASE IC
  <2>1. pc' \in Word /\ icrf' \in ICRF
    BY <1>0, <1>4, AddressType DEF IC, ICRF
  <2>2. fill' \in 0 .. 4 /\ stage' \in {"WB", "DC", "EX", "RF", "IC"}
    BY <1>4 DEF IC, StartOf
  <2> QED
    BY <1>4, <2>1, <2>2 DEF IC, regs
<1>5. CASE Throw
  BY <1>5 DEF Throw, regs, latches
<1>6. CASE Reset
  <2>1. [r \in Reg |-> 0] \in [Reg -> Word] /\ ResetPc \in Word
    BY PlaceAssumption, WordAssumption
  <2>2. /\ gpr' \in [Reg -> Word] /\ fpr' \in [Reg -> Word]
        /\ cp0' \in [Reg -> Word] /\ pc' \in Word
    BY <1>6, <2>1 DEF Reset
  <2>3. /\ icrf' \in ICRF /\ rfex' \in RFEX
        /\ exdc' \in EXDC /\ dcwb' \in DCWB
    BY <1>6, EmptyTypes DEF Reset
  <2>4. /\ stage' = "IC" /\ fill' \in 0 .. 4
        /\ ldi' = FALSE /\ halted' = FALSE
        /\ UNCHANGED <<prog, hilo, mem>>
    BY <1>6 DEF Reset, StartOf
  <2> QED
    BY <2>2, <2>3, <2>4
<1>7. CASE ExCompute
  <2>1. gpr' \in [Reg -> Word]
    BY <1>7, <1>a, DestType, ResultType DEF ExCompute, Executes
  <2> QED
    BY <1>7, <1>b, <1>c, <2>1 DEF ExCompute, Idle, program
<1>8. CASE ExLoad
  <2>1. exdc' \in EXDC
    BY <1>8, <1>a, EmptyTypes DEF ExLoad, EXDC
  <2>2. rfex' \in RFEX
    BY <1>8, NopType DEF ExLoad, RFEX
  <2>3. ldi' \in BOOLEAN
    BY <1>8 DEF ExLoad
  <2> QED
    BY <1>8, <1>c, <2>1, <2>2, <2>3 DEF ExLoad, program, regs
<1>9. CASE ExStore
  <2>1. exdc' \in EXDC
    BY <1>9, <1>a, EmptyTypes DEF ExStore, EXDC
  <2> QED
    BY <1>9, <1>c, <2>1 DEF ExStore, program, regs
<1>10. CASE ExStorePart
  <2>1. Merge(I.f, mem[Addr], rfex.rt) \in Word
    BY <1>a, DataAssumption
  <2>2. exdc' \in EXDC
    BY <1>10, <1>a, <2>1, EmptyTypes DEF ExStorePart, EXDC
  <2> QED
    BY <1>10, <1>c, <2>2 DEF ExStorePart, program, regs
<1>11. CASE ExLoadPart
  <2>1. gpr' \in [Reg -> Word]
    BY <1>11, <1>a, DataAssumption DEF ExLoadPart
  <2> QED
    BY <1>11, <1>c, <2>1, EmptyTypes DEF ExLoadPart, program
<1>12. CASE ExLoadFloat
  BY <1>12, <1>a, <1>c, EmptyTypes DEF ExLoadFloat, program
<1>13. CASE ExStoreFloat
  BY <1>13, <1>a, <1>b, <1>c DEF ExStoreFloat, Idle, program, regs
<1>14. CASE ExBranch
  <2>1. gpr' \in [Reg -> Word]
    BY <1>14, <1>a, DestType DEF ExBranch
  <2>2. Target \in Word
    BY <1>a, AddressType DEF Target
  <2>3. icrf' \in ICRF
    BY <1>14, NopType DEF ExBranch, Squash, ICRF
  <2>4. pc' \in Word
    BY <1>14, <2>2 DEF ExBranch
  <2> QED
    BY <1>14, <1>b, <1>c, <2>1, <2>3, <2>4 DEF ExBranch, Idle, program
<1>15. CASE ExMultiply
  BY <1>15, <1>a, <1>b, <1>c, DataAssumption DEF ExMultiply, Idle, program
<1>16. CASE ExMoveToCp0
  <2>1. cp0' \in [Reg -> Word]
    BY <1>16, <1>a, DataAssumption DEF ExMoveToCp0
  <2> QED
    BY <1>16, <1>b, <1>c, <2>1 DEF ExMoveToCp0, Idle, program
<1>17. CASE ExFloat
  <2>1. fpr' \in [Reg -> Word]
    BY <1>17, <1>a, DataAssumption DEF ExFloat
  <2> QED
    BY <1>17, <1>b, <1>c, <2>1 DEF ExFloat, Idle, program
<1>18. CASE ExNothing
  BY <1>18, <1>b, <1>c DEF ExNothing, Idle, program, regs
<1>19. CASE ExERET
  <2>1. pc' \in Word /\ cp0' \in [Reg -> Word]
    BY <1>19, RegAssumption, ClearEXLType DEF ExERET
  <2>2. icrf' \in ICRF
    BY <1>19, NopType DEF ExERET, Squash, ICRF
  <2> QED
    BY <1>19, <1>b, <1>c, <2>1, <2>2 DEF ExERET, Idle, program
<1>20. CASE UNCHANGED vars
  BY <1>20 DEF vars
<1> QED
  BY <1>1, <1>2, <1>3, <1>4, <1>5, <1>6, <1>7, <1>8, <1>9, <1>10, <1>11,
     <1>12, <1>13, <1>14, <1>15, <1>16, <1>17, <1>18, <1>19, <1>20
     DEF Next, Step, EX

(* The latches, the registers and the memory keep their types in every run *)
(* of the pipeline, whatever it executes.                                  *)
THEOREM TypeCorrect == Spec => []TypeOK
BY TypeInit, TypeNext, PTL DEF Spec
-----------------------------------------------------------------------------
(* OperandsFresh.  The invariant says, at every control point, for which   *)
(* instruction a pending load may still change an operand: none that RF    *)
(* has passed.  BootInv is there because fill_pipeline has no interlock.   *)
DataInv == TypeOK /\ BootInv /\ InterlockInv /\ FreshInv

LEMMA NopFacts ==
    /\ Nop.op = "RTYPE" /\ Nop.f = NopFunc
    /\ Nop.rs = 0 /\ Nop.rt = 0 /\ Nop.rd = 0
    /\ Dest(Nop) = 0 /\ SafeAtBoot(Nop)
BY DEF Nop, Dest, SafeAtBoot, LoadOps

LEMMA EmptyFacts ==
    /\ EmptyICRF.instr = Nop /\ EmptyICRF.live = FALSE
    /\ EmptyRFEX.instr = Nop /\ EmptyRFEX.live = FALSE
    /\ EmptyRFEX.rs = 0 /\ EmptyRFEX.rt = 0
    /\ EmptyEXDC.write = "NONE"
BY DEF EmptyICRF, EmptyRFEX, EmptyEXDC

LEMMA DataInit == Init => DataInv
<1> SUFFICES ASSUME Init PROVE DataInv
  OBVIOUS
<1>1. stage = "IC" /\ fill = 0
  BY DEF Init, StartOf
<1>2. gpr[0] = 0
  BY RegAssumption DEF Init
<1> QED
  BY <1>1, <1>2, TypeInit, EmptyFacts
     DEF Init, DataInv, BootInv, InterlockInv, FreshInv, LoadPending, View

(* What an instruction in EX that is not a load leaves behind.             *)
LEMMA DataNotLoad ==
    ASSUME DataInv, Runs("EX"), I.op \notin LoadOps,
           UNCHANGED <<fill, rfex, ldi>>, EndEX(ldi), exdc'.write # "LATEREGISTER",
           icrf' = icrf \/ (icrf'.instr = Nop /\ icrf'.live = FALSE),
           fill < 4 => gpr'[0] = 0, TypeOK'
    PROVE  DataInv'
<1> USE DEF DataInv
<1>1. stage = "EX" /\ ~ldi /\ stage' = "RF"
  BY DEF Runs, InterlockInv, EndEX
<1>2. BootInv'
  BY <1>1, NopFacts DEF BootInv, TypeOK
<1>3. InterlockInv'
  BY <1>1 DEF InterlockInv, LoadPending
<1>4. FreshInv'
  BY <1>1 DEF FreshInv
<1> QED
  BY <1>2, <1>3, <1>4
(* The instruction at the two first addresses is safe while fill_pipeline  *)
(* runs, and r0 is written only by a bubble, with zero.                    *)
LEMMA BootR0 ==
    ASSUME DataInv, fill < 4, stage = "EX", I.op \in ComputeOps, Dest(I) = 0
    PROVE  Result(I, rfex.rs, rfex.rt, hilo, cp0) = 0
<1>1. SafeAtBoot(I)
  BY DEF DataInv, BootInv, TypeOK, I
<1>2. I = Nop
  BY <1>1 DEF SafeAtBoot, WritesGpr
<1>3. rfex.rs = 0 /\ rfex.rt = 0
  BY <1>2, NopFacts DEF DataInv, FreshInv, View, I
<1> QED
  BY <1>2, <1>3, NopFacts, NopAssumption DEF Result

LEMMA DataNext == AllBootSafe /\ DataInv /\ [Next]_vars => DataInv'
<1> SUFFICES ASSUME AllBootSafe, DataInv, [Next]_vars PROVE DataInv'
  OBVIOUS
<1>t. TypeOK /\ TypeOK'
  BY TypeNext DEF DataInv
<1>p. SafeAtBoot(prog[ResetPc]) /\ SafeAtBoot(prog[Inc(ResetPc)])
  BY <1>t DEF AllBootSafe, BootSafe, SafeAtBoot, TypeOK
<1>1. CASE WB
  <2>1. stage = "WB" /\ stage' = "DC" /\ UNCHANGED <<pc, fill, gpr, icrf, rfex, exdc, ldi>>
    BY <1>1 DEF WB, Runs, program, regs, latches
  <2>2. fill = 4
    BY <2>1, <1>t DEF DataInv, BootInv, TypeOK
  <2> QED
    BY <1>t, <2>1, <2>2
       DEF DataInv, BootInv, InterlockInv, FreshInv, LoadPending, View
<1>2. CASE DC
  <2>1. /\ stage = "DC" /\ stage' = "EX"
        /\ UNCHANGED <<pc, fill, icrf, rfex>>
    BY <1>2 DEF DC, Runs, program
  <2>2. CASE exdc.write = "LATEREGISTER"
    <3>1. /\ ldi' = FALSE
          /\ \A r \in Reg : r # exdc.dest => gpr'[r] = gpr[r]
      BY <1>2, <2>2, <1>t DEF DC, TypeOK
    <3>2. rfex.live => exdc.dest \notin {rfex.instr.rs, rfex.instr.rt}
      BY <2>1, <2>2 DEF DataInv, InterlockInv, LoadPending
    <3>3. rfex.live => rfex.instr.rs \in Reg /\ rfex.instr.rt \in Reg
      BY <1>t DEF TypeOK, RFEX, Instr
    <3>4. fill = 4
      BY <1>t, <2>2 DEF DataInv, BootInv, TypeOK
    <3>5. FreshInv'
      BY <2>1, <3>1, <3>2, <3>3, <3>4 DEF DataInv, FreshInv, View
    <3> QED
      BY <1>t, <2>1, <3>1, <3>4, <3>5
         DEF DataInv, BootInv, InterlockInv, LoadPending
  <2>3. CASE exdc.write # "LATEREGISTER"
    <3>1. UNCHANGED <<gpr, exdc, ldi>>
      BY <1>2, <2>3 DEF DC
    <3> QED
      BY <1>t, <2>1, <2>3, <3>1
         DEF DataInv, BootInv, InterlockInv, FreshInv, LoadPending, View
  <2> QED
    BY <2>2, <2>3
<1>3. CASE RF
  <2>1. /\ stage = "RF" /\ stage' = "IC"
        /\ UNCHANGED <<pc, fill, icrf, exdc, ldi>>
        /\ rfex'.instr = icrf.instr /\ rfex'.live = icrf.live
        /\ rfex'.rs = gpr'[icrf.instr.rs] /\ rfex'.rt = gpr'[icrf.instr.rt]
    BY <1>3 DEF RF, Runs, program
  <2>2. gpr'[0] = 0
    <3>1. CASE fill = 4
      BY <1>3, <3>1, <1>t, RegAssumption DEF RF, TypeOK
    <3>2. CASE fill # 4
      BY <1>3, <3>2, <1>t DEF RF, TypeOK, DataInv, BootInv
    <3> QED
      BY <3>1, <3>2
  <2>3. BootInv'
    BY <1>t, <2>1, <2>2 DEF DataInv, BootInv
  <2>4. InterlockInv'
    BY <2>1 DEF DataInv, InterlockInv, LoadPending
  <2>5. FreshInv'
    BY <2>1, <2>2, NopFacts DEF DataInv, FreshInv, View
  <2> QED
    BY <1>t, <2>3, <2>4, <2>5 DEF DataInv
<1>4. CASE IC
  <2>1. /\ stage = "IC" /\ UNCHANGED <<gpr, rfex, exdc, ldi>>
        /\ pc' = Inc(pc) /\ icrf'.instr = prog[pc] /\ icrf'.live = TRUE
        /\ fill' = IF fill < 4 THEN fill + 1 ELSE 4
        /\ stage' = StartOf(fill')
    BY <1>4 DEF IC, Runs, regs
  <2>2. ~ldi
    BY <2>1 DEF DataInv, InterlockInv
  <2>3. BootInv'
    BY <1>t, <1>p, <2>1 DEF DataInv, BootInv, TypeOK, StartOf
  <2>4. stage' # "IC"
    BY <1>t, <2>1 DEF StartOf, TypeOK
  <2>5. fill = 0 => stage' = "RF"
    BY <2>1 DEF StartOf
  <2>6. fill # 0 => stage' # "RF"
    BY <1>t, <2>1 DEF StartOf, TypeOK
  <2>7. InterlockInv'
    BY <1>t, <2>1, <2>2, <2>5, <2>6
       DEF DataInv, BootInv, InterlockInv, LoadPending
  <2>8. FreshInv'
    BY <1>t, <2>1, <2>5, <2>6 DEF DataInv, FreshInv, View, TypeOK
  <2> QED
    BY <1>t, <2>3, <2>7, <2>8 DEF DataInv
<1>5. CASE Throw
  BY <1>5, <1>t DEF Throw, regs, latches, DataInv, BootInv, InterlockInv,
                    FreshInv, LoadPending, View
<1>6. CASE Reset
  <2>1. /\ stage' = "IC" /\ fill' = 0 /\ pc' = ResetPc /\ ldi' = FALSE
        /\ icrf' = EmptyICRF /\ rfex' = EmptyRFEX /\ exdc' = EmptyEXDC
    BY <1>6 DEF Reset, StartOf
  <2>2. gpr'[0] = 0
    BY <1>6, RegAssumption DEF Reset
  <2> QED
    BY <1>t, <2>1, <2>2, EmptyFacts
       DEF DataInv, BootInv, InterlockInv, FreshInv, LoadPending
<1>7. CASE ExLoad
  <2>1. /\ stage = "EX" /\ I.op \in LoadOps
        /\ exdc'.dest = I.rt /\ exdc'.write = "LATEREGISTER"
        /\ ldi' = (I.rt \in {icrf.instr.rs, icrf.instr.rt})
        /\ rfex'.instr = Nop /\ rfex'.live = FALSE
        /\ UNCHANGED <<pc, fill, gpr, icrf>>
    BY <1>7, <1>t DEF ExLoad, Executes, Runs, program, regs, EmptyEXDC, TypeOK, RFEX
  <2>2. fill = 4
    BY <1>t, <2>1 DEF DataInv, BootInv, SafeAtBoot, TypeOK, I
  <2>3. stage' = IF ldi' THEN "WB" ELSE "RF"
    BY <1>7, <2>2 DEF ExLoad, EndEX
  <2>4. InterlockInv'
    BY <2>1, <2>3 DEF InterlockInv, LoadPending
  <2>5. FreshInv'
    BY <2>1, <2>2 DEF DataInv, FreshInv
  <2> QED
    BY <1>t, <2>2, <2>1, <2>4, <2>5 DEF DataInv, BootInv
<1>8. CASE ExCompute
  <2>1. fill < 4 => gpr'[0] = 0
    BY <1>8, <1>t, BootR0
       DEF ExCompute, Executes, Runs, TypeOK, DataInv, BootInv
  <2>2. I.op \notin LoadOps
    BY <1>8 DEF ExCompute, Executes, ComputeOps, LoadOps
  <2>3. exdc'.write # "LATEREGISTER"
    BY <1>8 DEF ExCompute, Idle, EmptyEXDC
  <2> QED
    BY <1>8, <1>t, <2>1, <2>2, <2>3, DataNotLoad DEF ExCompute, Executes, program
<1>9. CASE ExStore
  <2>1. fill < 4 => gpr'[0] = 0
    BY <1>9 DEF ExStore, regs, DataInv, BootInv
  <2>2. I.op \notin LoadOps
    BY <1>9 DEF ExStore, Executes, LoadOps
  <2>3. exdc'.write # "LATEREGISTER"
    BY <1>9 DEF ExStore, EmptyEXDC
  <2> QED
    BY <1>9, <1>t, <2>1, <2>2, <2>3, DataNotLoad DEF ExStore, Executes, program
<1>10. CASE ExStorePart
  <2>1. fill < 4 => gpr'[0] = 0
    BY <1>10 DEF ExStorePart, regs, DataInv, BootInv
  <2>2. I.op \notin LoadOps
    BY <1>10 DEF ExStorePart, Executes, LoadOps
  <2>3. exdc'.write # "LATEREGISTER"
    BY <1>10 DEF ExStorePart, EmptyEXDC
  <2> QED
    BY <1>10, <1>t, <2>1, <2>2, <2>3, DataNotLoad DEF ExStorePart, Executes, program
<1>11. CASE ExLoadPart
  <2>1. fill < 4 => gpr'[0] = 0
    <3>1. SUFFICES ASSUME fill < 4 PROVE gpr'[0] = 0
      OBVIOUS
    <3>2. I.op = "LWL" /\ stage = "EX"
      BY <1>11 DEF ExLoadPart, Executes, Runs
    <3>3. SafeAtBoot(I)
      BY <1>t, <3>1, <3>2 DEF DataInv, BootInv, TypeOK, I
    <3>4. I.rt # 0
      BY <3>2, <3>3, NopFacts DEF SafeAtBoot, WritesGpr, Dest
    <3> QED
      BY <1>11, <1>t, <3>1, <3>4, RegAssumption
         DEF ExLoadPart, TypeOK, DataInv, BootInv
  <2>2. I.op \notin LoadOps
    BY <1>11 DEF ExLoadPart, Executes, LoadOps
  <2>3. exdc'.write # "LATEREGISTER"
    BY <1>11, EmptyFacts DEF ExLoadPart
  <2> QED
    BY <1>11, <1>t, <2>1, <2>2, <2>3, DataNotLoad DEF ExLoadPart, Executes, program
<1>12. CASE ExLoadFloat
  <2>1. I.op \notin LoadOps
    BY <1>12 DEF ExLoadFloat, Executes, LoadOps
  <2>2. exdc'.write # "LATEREGISTER"
    BY <1>12, EmptyFacts DEF ExLoadFloat
  <2> QED
    BY <1>12, <1>t, <2>1, <2>2, DataNotLoad
       DEF ExLoadFloat, Executes, program, DataInv, BootInv
<1>13. CASE ExStoreFloat
  <2>1. I.op \notin LoadOps
    BY <1>13 DEF ExStoreFloat, Executes, LoadOps
  <2>2. exdc'.write # "LATEREGISTER"
    BY <1>13 DEF ExStoreFloat, Idle, EmptyEXDC
  <2> QED
    BY <1>13, <1>t, <2>1, <2>2, DataNotLoad
       DEF ExStoreFloat, Executes, program, regs, DataInv, BootInv
<1>14. CASE ExBranch
  <2>1. fill < 4 => gpr'[0] = 0
    <3>1. I.op \in LinkOps => Dest(I) # 0
      BY RegAssumption DEF LinkOps, Dest, LoadOps
    <3> QED
      BY <1>14, <1>t, <3>1, RegAssumption DEF ExBranch, TypeOK, DataInv, BootInv
  <2>2. I.op \notin LoadOps
    BY <1>14 DEF ExBranch, Executes, BranchOps, PlainOps, LikelyOps, JumpOps, LoadOps
  <2>3. exdc'.write # "LATEREGISTER"
    BY <1>14 DEF ExBranch, Idle, EmptyEXDC
  <2>4. icrf' = icrf \/ (icrf'.instr = Nop /\ icrf'.live = FALSE)
    BY <1>14, <1>t DEF ExBranch, Squash, TypeOK, ICRF
  <2> QED
    BY <1>14, <1>t, <2>1, <2>2, <2>3, <2>4, DataNotLoad
       DEF ExBranch, Executes, program
<1>15. CASE ExMultiply
  <2>1. I.op \notin LoadOps
    BY <1>15 DEF ExMultiply, Executes, LoadOps
  <2>2. exdc'.write # "LATEREGISTER"
    BY <1>15 DEF ExMultiply, Idle, EmptyEXDC
  <2> QED
    BY <1>15, <1>t, <2>1, <2>2, DataNotLoad
       DEF ExMultiply, Executes, program, DataInv, BootInv
<1>16. CASE ExMoveToCp0
  <2>1. I.op \notin LoadOps
    BY <1>16 DEF ExMoveToCp0, Executes, LoadOps
  <2>2. exdc'.write # "LATEREGISTER"
    BY <1>16 DEF ExMoveToCp0, Idle, EmptyEXDC
  <2> QED
    BY <1>16, <1>t, <2>1, <2>2, DataNotLoad
       DEF ExMoveToCp0, Executes, program, DataInv, BootInv
<1>17. CASE ExFloat
  <2>1. I.op \notin LoadOps
    BY <1>17 DEF ExFloat, Executes, LoadOps
  <2>2. exdc'.write # "LATEREGISTER"
    BY <1>17 DEF ExFloat, Idle, EmptyEXDC
  <2> QED
    BY <1>17, <1>t, <2>1, <2>2, DataNotLoad
       DEF ExFloat, Executes, program, DataInv, BootInv
<1>18. CASE ExNothing
  <2>1. I.op \notin LoadOps
    BY <1>18 DEF ExNothing, Executes, LoadOps
  <2>2. exdc'.write # "LATEREGISTER"
    BY <1>18 DEF ExNothing, Idle, EmptyEXDC
  <2> QED
    BY <1>18, <1>t, <2>1, <2>2, DataNotLoad
       DEF ExNothing, Executes, program, regs, DataInv, BootInv
<1>19. CASE ExERET
  <2>1. I.op \notin LoadOps
    BY <1>19 DEF ExERET, Executes, LoadOps
  <2>2. exdc'.write # "LATEREGISTER"
    BY <1>19 DEF ExERET, Idle, EmptyEXDC
  <2>3. icrf'.instr = Nop /\ icrf'.live = FALSE
    BY <1>19, <1>t DEF ExERET, Squash, TypeOK, ICRF
  <2> QED
    BY <1>19, <1>t, <2>1, <2>2, <2>3, DataNotLoad
       DEF ExERET, Executes, program, DataInv, BootInv
<1>20. CASE UNCHANGED vars
  BY <1>20, <1>t DEF vars, DataInv, BootInv, InterlockInv, FreshInv,
                     LoadPending, View
<1> QED
  BY <1>1, <1>2, <1>3, <1>4, <1>5, <1>6, <1>7, <1>8, <1>9, <1>10, <1>11,
     <1>12, <1>13, <1>14, <1>15, <1>16, <1>17, <1>18, <1>19, <1>20
     DEF Next, Step, EX

(* No instruction of a program executes with a stale operand, for every    *)
(* program that does not start with a load or a write to r0.               *)
THEOREM OperandsAreFresh ==
    ASSUME AllBootSafe
    PROVE  Spec => []OperandsFresh
<1>1. Init => DataInv
  BY DataInit
<1>2. DataInv /\ [Next]_vars => DataInv'
  BY DataNext
<1>3. DataInv => OperandsFresh
  BY DEF DataInv, FreshInv, OperandsFresh, View, I
<1> QED
  BY <1>1, <1>2, <1>3, PTL DEF Spec
-----------------------------------------------------------------------------
(* PcTwoAhead.  The latches hold what the memory holds at their addresses; *)
(* behind a branch the delay slot sits in IC/RF, and it is no branch.  The *)
(* interlock is off in EX, so a branch is never executed twice.            *)
PcInv ==
    /\ TypeOK
    /\ FetchInv
    /\ ldi => exdc.write = "LATEREGISTER" /\ stage # "EX" /\ fill >= 2
    /\ stage \in {"WB", "DC", "EX"} => fill >= 2

LEMMA BranchFacts ==
    /\ Nop.op \notin BranchOps
    /\ \A o \in BranchOps : o \in ControlOps
BY DEF Nop, BranchOps, ControlOps, PlainOps, LikelyOps, JumpOps

LEMMA PcInit == Init => PcInv
<1> SUFFICES ASSUME Init PROVE PcInv
  OBVIOUS
<1>1. /\ ~icrf.live /\ ~rfex.live /\ rfex.instr = Nop /\ icrf.instr = Nop
      /\ ~ldi /\ stage = "IC"
  BY EmptyFacts DEF Init, StartOf
<1> QED
  BY <1>1, TypeInit DEF PcInv, FetchInv

(* The handlers that leave the pc and the two front latches alone.         *)
LEMMA PcNotControl ==
    ASSUME PcInv, TypeOK', stage = "EX", EndEX(ldi),
           UNCHANGED <<prog, pc, fill, icrf, rfex, ldi>>
    PROVE  PcInv'
<1>1. ~ldi /\ stage' = "RF"
  BY DEF PcInv, EndEX
<1> QED
  BY <1>1 DEF PcInv, FetchInv

LEMMA PcNext == AllLegal /\ PcInv /\ [Next]_vars => PcInv'
<1> SUFFICES ASSUME AllLegal, PcInv, [Next]_vars PROVE PcInv'
  OBVIOUS
<1>t. TypeOK /\ TypeOK'
  BY TypeNext DEF PcInv
<1>1. CASE WB
  <2>1. stage = "WB" /\ stage' = "DC" /\ UNCHANGED <<prog, pc, fill, icrf, rfex, exdc, ldi>>
    BY <1>1 DEF WB, Runs, program, latches
  <2> QED
    BY <1>t, <2>1 DEF PcInv, FetchInv
<1>2. CASE DC
  <2>1. stage = "DC" /\ stage' = "EX" /\ UNCHANGED <<prog, pc, fill, icrf, rfex>>
    BY <1>2 DEF DC, Runs, program
  <2>2. ~ldi'
    BY <1>2 DEF DC, PcInv
  <2>3. fill >= 2
    BY <2>1, <1>t DEF PcInv, TypeOK
  <2> QED
    BY <1>t, <2>1, <2>2, <2>3 DEF PcInv, FetchInv
<1>3. CASE RF
  <2>1. /\ stage = "RF" /\ stage' = "IC"
        /\ UNCHANGED <<prog, pc, fill, icrf, exdc, ldi>>
        /\ rfex'.instr = icrf.instr /\ rfex'.live = icrf.live
        /\ rfex'.addr = icrf.addr
    BY <1>3 DEF RF, Runs, program
  <2> QED
    BY <1>t, <2>1 DEF PcInv, FetchInv
<1>4. CASE IC
  <2>1. /\ stage = "IC" /\ UNCHANGED <<prog, rfex, exdc, ldi>>
        /\ pc' = Inc(pc) /\ icrf'.instr = prog[pc]
        /\ icrf'.addr = pc /\ icrf'.live = TRUE
    BY <1>4 DEF IC, Runs, regs
  <2>2. ldi => stage' # "EX" /\ fill' >= 2
    BY <1>4, <1>t DEF IC, PcInv, TypeOK, StartOf
  <2>3. stage' # "IC" /\ (stage' # "RF" => fill' >= 2)
    BY <1>4, <1>t DEF IC, TypeOK, StartOf
  <2> QED
    BY <1>t, <2>1, <2>2, <2>3 DEF PcInv, FetchInv
<1>5. CASE Throw
  BY <1>5, <1>t DEF Throw, regs, latches, PcInv, FetchInv
<1>6. CASE Reset
  <2>1. stage' = "IC" /\ ~ldi' /\ icrf' = EmptyICRF /\ rfex' = EmptyRFEX
    BY <1>6 DEF Reset, StartOf
  <2> QED
    BY <1>t, <2>1, EmptyFacts DEF PcInv, FetchInv
<1>7. CASE ExLoad
  <2>1. /\ rfex'.instr = Nop /\ rfex'.live = FALSE /\ exdc'.write = "LATEREGISTER"
        /\ stage' \in {"WB", "RF"} /\ stage = "EX"
        /\ UNCHANGED <<prog, pc, fill, icrf>>
    BY <1>7, <1>t DEF ExLoad, Executes, Runs, EndEX, program, EmptyEXDC, TypeOK, RFEX
  <2> QED
    BY <1>t, <2>1 DEF PcInv, FetchInv
<1>8. CASE ExBranch
  <2>1. /\ stage = "EX" /\ I.op \in BranchOps /\ UNCHANGED <<prog, fill, rfex, ldi>>
        /\ EndEX(ldi)
    BY <1>8 DEF ExBranch, Executes, Runs, program
  <2>2. ~ldi' /\ stage' = "RF"
    BY <2>1 DEF PcInv, EndEX
  <2>3. rfex.live
    BY <2>1, BranchFacts DEF PcInv, FetchInv, I
  <2>4. icrf.live => icrf.instr.op \notin BranchOps
    <3>1. SUFFICES ASSUME icrf.live PROVE icrf.instr.op \notin BranchOps
      OBVIOUS
    <3>2. icrf.addr = Inc(rfex.addr) /\ icrf.instr = prog[icrf.addr]
            /\ rfex.instr = prog[rfex.addr] /\ rfex.addr \in Word
      BY <1>t, <2>1, <2>3, <3>1 DEF PcInv, FetchInv, TypeOK, RFEX, I
    <3>3. LegalProgram(prog)
      BY <1>t DEF AllLegal, TypeOK
    <3> QED
      BY <2>1, <3>2, <3>3, BranchFacts DEF LegalProgram, I
  <2>5. icrf' = icrf \/ (icrf'.instr = Nop /\ icrf'.live = FALSE)
    BY <1>8, <1>t DEF ExBranch, Squash, TypeOK, ICRF
  <2> QED
    BY <1>t, <2>1, <2>2, <2>4, <2>5 DEF PcInv, FetchInv
<1>9. CASE ExERET
  <2>1. /\ stage = "EX" /\ EndEX(ldi) /\ UNCHANGED <<prog, fill, rfex, ldi>>
        /\ icrf' = [icrf EXCEPT !.instr = Nop, !.live = FALSE]
    BY <1>9 DEF ExERET, Squash, Executes, Runs, program
  <2>2. ~ldi' /\ stage' = "RF"
    BY <2>1 DEF PcInv, EndEX
  <2>3. icrf'.instr = Nop /\ icrf'.live = FALSE
    BY <2>1, <1>t DEF TypeOK, ICRF
  <2> QED
    BY <1>t, <2>1, <2>2, <2>3 DEF PcInv, FetchInv
<1>10. CASE ExCompute
  BY <1>10, <1>t, PcNotControl DEF ExCompute, Executes, Runs, program
<1>11. CASE ExStore
  BY <1>11, <1>t, PcNotControl DEF ExStore, Executes, Runs, program
<1>12. CASE ExStorePart
  BY <1>12, <1>t, PcNotControl DEF ExStorePart, Executes, Runs, program
<1>13. CASE ExLoadPart
  BY <1>13, <1>t, PcNotControl DEF ExLoadPart, Executes, Runs, program
<1>14. CASE ExLoadFloat
  BY <1>14, <1>t, PcNotControl DEF ExLoadFloat, Executes, Runs, program
<1>15. CASE ExStoreFloat
  BY <1>15, <1>t, PcNotControl DEF ExStoreFloat, Executes, Runs, program
<1>16. CASE ExMultiply
  BY <1>16, <1>t, PcNotControl DEF ExMultiply, Executes, Runs, program
<1>17. CASE ExMoveToCp0
  BY <1>17, <1>t, PcNotControl DEF ExMoveToCp0, Executes, Runs, program
<1>18. CASE ExFloat
  BY <1>18, <1>t, PcNotControl DEF ExFloat, Executes, Runs, program
<1>19. CASE ExNothing
  BY <1>19, <1>t, PcNotControl DEF ExNothing, Executes, Runs, program
<1>20. CASE UNCHANGED vars
  BY <1>20, <1>t DEF vars, PcInv, FetchInv
<1> QED
  BY <1>1, <1>2, <1>3, <1>4, <1>5, <1>6, <1>7, <1>8, <1>9, <1>10, <1>11,
     <1>12, <1>13, <1>14, <1>15, <1>16, <1>17, <1>18, <1>19, <1>20
     DEF Next, Step, EX

(* Every branch executes with the pc two fetches past its own address, for *)
(* every program without control transfers in delay slots: its target and  *)
(* its link address are the architectural ones.                            *)
THEOREM BranchesSeePcTwoAhead ==
    ASSUME AllLegal
    PROVE  Spec => []PcTwoAhead
<1>1. Init => PcInv
  BY PcInit
<1>2. PcInv /\ [Next]_vars => PcInv'
  BY PcNext
<1>3. PcInv => PcTwoAhead
  BY DEF PcInv, FetchInv, PcTwoAhead, I
<1> QED
  BY <1>1, <1>2, <1>3, PTL DEF Spec

-----------------------------------------------------------------------------
(***************************************************************************)
(* The pipeline implements the sequential machine, for every set of legal  *)
(* programs.                                                               *)
(*                                                                         *)
(* Only EX and Reset are steps of the sequential machine.  WB, DC, RF and  *)
(* IC move what is in flight and leave the mapped state alone; a bubble in *)
(* EX does the same.                                                       *)
(***************************************************************************)
HIDE DEF Word

ISAInv == DataInv /\ PcInv /\ MapInv

-----------------------------------------------------------------------------
LEMMA MapInit == Init => MapInv
BY EmptyFacts DEF Init, MapInv, StartOf, EmptyICRF, EmptyRFEX, EmptyEXDC, EmptyDCWB

(* Handlers that issue no load and write no pc: what EX leaves for RF.     *)
LEMMA MapEX ==
    ASSUME ISAInv, stage = "EX", EndEX(ldi), UNCHANGED <<fill, dcwb>>,
           exdc'.sext = exdc.sext \/ exdc'.sext = FALSE,
           UNCHANGED rfex
    PROVE  MapInv'
<1>1. ~ldi /\ stage' = "RF"
  BY DEF ISAInv, PcInv, EndEX
<1>2. fill \in 2 .. 4
  BY DEF ISAInv, PcInv, TypeOK
<1>3. exdc.sext = FALSE
  BY DEF ISAInv, PcInv, TypeOK, MapInv, LoadPending, EXDC
<1> QED
  BY <1>1, <1>2, <1>3 DEF ISAInv, MapInv

LEMMA MapNext ==
    ASSUME ISAInv, [Next]_vars, TypeOK'
    PROVE  MapInv'
<1>t. TypeOK
  BY DEF ISAInv, PcInv
<1>1. CASE WB
  <2>1. stage = "WB" /\ stage' = "DC" /\ UNCHANGED <<pc, fill, gpr, latches>>
    BY <1>1 DEF WB, Runs, program, regs
  <2>2. fill = 4
    BY <1>t, <2>1 DEF ISAInv, DataInv, BootInv, TypeOK
  <2> QED
    BY <2>1, <2>2 DEF ISAInv, MapInv, latches, LoadPending
<1>2. CASE DC
  <2>1. stage = "DC" /\ stage' = "EX" /\ UNCHANGED <<pc, fill, icrf, rfex>>
    BY <1>2 DEF DC, Runs, program
  <2>2. fill \in 3 .. 4
    BY <1>t, <2>1 DEF ISAInv, DataInv, BootInv, TypeOK
  <2>3. ~exdc'.sext
    BY <1>2, <1>t, <2>1 DEF DC, ISAInv, MapInv, LoadPending, TypeOK, EXDC
  <2>4. rfex.live => gpr'[0] = 0 \/ 0 \notin {rfex.instr.rs, rfex.instr.rt}
    <3>1. CASE exdc.write = "LATEREGISTER"
      <4>1. exdc.dest # 0 => gpr'[0] = gpr[0]
        BY <1>2, <1>t, <3>1, RegAssumption DEF DC, TypeOK
      <4> QED
        BY <2>1, <3>1, <4>1
           DEF ISAInv, MapInv, DataInv, InterlockInv, LoadPending
    <3>2. CASE exdc.write # "LATEREGISTER"
      BY <1>2, <2>1, <3>2 DEF DC, ISAInv, MapInv
    <3> QED
      BY <3>1, <3>2
  <2> QED
    BY <2>1, <2>2, <2>3, <2>4 DEF ISAInv, MapInv
<1>3. CASE RF
  <2>1. stage = "RF" /\ stage' = "IC" /\ UNCHANGED <<pc, fill, icrf, exdc, dcwb>>
    BY <1>3 DEF RF, Runs, program
  <2>2. gpr'[0] = 0
    <3>1. CASE fill = 4
      BY <1>3, <3>1, <1>t, RegAssumption DEF RF, TypeOK
    <3>2. CASE fill # 4
      BY <1>3, <3>2, <1>t DEF RF, TypeOK, ISAInv, DataInv, BootInv
    <3> QED
      BY <3>1, <3>2
  <2>3. fill # 0
    BY <2>1 DEF ISAInv, DataInv, BootInv
  <2> QED
    BY <2>1, <2>2, <2>3 DEF ISAInv, MapInv, LoadPending
<1>4. CASE IC
  <2>1. /\ stage = "IC" /\ UNCHANGED <<gpr, rfex, exdc, dcwb>>
        /\ pc' = Inc(pc) /\ icrf'.addr = pc /\ icrf'.live
        /\ fill' = IF fill < 4 THEN fill + 1 ELSE 4
        /\ stage' = StartOf(fill')
    BY <1>4 DEF IC, Runs, regs
  <2>2. fill' \in 1 .. 4 /\ fill \in 0 .. 4 /\ (fill # 4 => fill' = fill + 1)
    BY <1>t, <2>1 DEF TypeOK
  <2>3. /\ stage' # "IC" /\ (fill' = 1 => stage' = "RF")
        /\ (stage' = "EX" <=> fill' = 2) /\ (stage' = "DC" => fill' = 3)
    BY <2>1, <2>2 DEF StartOf
  <2>4. exdc'.sext => LoadPending'
    BY <1>t, <2>1, <2>2, <2>3 DEF ISAInv, MapInv, LoadPending
  <2>5. rfex.live => gpr[0] = 0
    BY <2>1 DEF ISAInv, MapInv
  <2>6. /\ fill' <= 1 => exdc.write = "NONE"
        /\ fill' <= 3 => dcwb.write = "NONE"
    BY <2>1, <2>2 DEF ISAInv, MapInv
  <2> QED
    BY <2>1, <2>2, <2>3, <2>4, <2>5, <2>6 DEF MapInv
<1>5. CASE Throw
  BY <1>5 DEF Throw, regs, latches, ISAInv, MapInv, LoadPending
<1>6. CASE Reset
  <2>1. /\ stage' = "IC" /\ fill' = 0
        /\ rfex' = EmptyRFEX /\ exdc' = EmptyEXDC /\ dcwb' = EmptyDCWB
    BY <1>6 DEF Reset, StartOf
  <2> QED
    BY <2>1 DEF MapInv, EmptyRFEX, EmptyEXDC, EmptyDCWB
<1>7. CASE ExLoad
  <2>1. /\ stage = "EX" /\ I.op \in LoadOps
        /\ exdc'.write = "LATEREGISTER" /\ rfex'.live = FALSE
        /\ UNCHANGED <<pc, fill, icrf, dcwb>>
        /\ EndEX(ldi')
    BY <1>7, <1>t DEF ExLoad, Executes, Runs, program, EmptyEXDC, TypeOK, RFEX
  <2>2. fill = 4
    BY <1>t, <2>1 DEF ISAInv, DataInv, BootInv, SafeAtBoot, TypeOK, I
  <2>3. stage' \in {"WB", "RF"}
    BY <2>1 DEF EndEX
  <2> QED
    BY <2>1, <2>2, <2>3 DEF ISAInv, MapInv, LoadPending
<1>8. CASE ExCompute
  BY <1>8, MapEX DEF ExCompute, Executes, Runs, Idle, program, EmptyEXDC
<1>9. CASE ExStore
  BY <1>9, MapEX DEF ExStore, Executes, Runs, program, EmptyEXDC
<1>10. CASE ExStorePart
  BY <1>10, MapEX DEF ExStorePart, Executes, Runs, program, EmptyEXDC
<1>11. CASE ExLoadPart
  BY <1>11, MapEX DEF ExLoadPart, Executes, Runs, program, EmptyEXDC
<1>12. CASE ExLoadFloat
  BY <1>12, MapEX DEF ExLoadFloat, Executes, Runs, program, EmptyEXDC
<1>13. CASE ExStoreFloat
  BY <1>13, MapEX DEF ExStoreFloat, Executes, Runs, Idle, program, EmptyEXDC
<1>14. CASE ExBranch
  BY <1>14, MapEX DEF ExBranch, Executes, Runs, Idle, program, EmptyEXDC
<1>15. CASE ExMultiply
  BY <1>15, MapEX DEF ExMultiply, Executes, Runs, Idle, program, EmptyEXDC
<1>16. CASE ExMoveToCp0
  BY <1>16, MapEX DEF ExMoveToCp0, Executes, Runs, Idle, program, EmptyEXDC
<1>17. CASE ExFloat
  BY <1>17, MapEX DEF ExFloat, Executes, Runs, Idle, program, EmptyEXDC
<1>18. CASE ExNothing
  BY <1>18, MapEX DEF ExNothing, Executes, Runs, Idle, program, EmptyEXDC
<1>19. CASE ExERET
  BY <1>19, MapEX DEF ExERET, Executes, Runs, Idle, program, EmptyEXDC
<1>20. CASE UNCHANGED vars
  BY <1>20 DEF vars, ISAInv, MapInv, LoadPending
<1> QED
  BY <1>1, <1>2, <1>3, <1>4, <1>5, <1>6, <1>7, <1>8, <1>9, <1>10, <1>11,
     <1>12, <1>13, <1>14, <1>15, <1>16, <1>17, <1>18, <1>19, <1>20
     DEF Next, Step, EX

(* The invariant of the refinement, in every run of legal programs.        *)
LEMMA ISAInvariant ==
    ASSUME AllBootSafe, AllLegal
    PROVE  Spec => []ISAInv
<1>1. Init => ISAInv
  BY DataInit, PcInit, MapInit DEF ISAInv
<1>2. ISAInv /\ [Next]_vars => ISAInv'
  <2>1. ISAInv /\ [Next]_vars => DataInv' /\ PcInv'
    BY DataNext, PcNext DEF ISAInv
  <2>2. ISAInv /\ [Next]_vars => MapInv'
    BY <2>1, MapNext DEF DataInv
  <2> QED
    BY <2>1, <2>2 DEF ISAInv
<1> QED
  BY <1>1, <1>2, PTL DEF Spec
-----------------------------------------------------------------------------
(* The mapping at the control points.                                      *)

(* Both machines count and decode in the same way.                         *)
LEMMA SameOperators ==
    /\ \A a, b : ISA!Inc(a) = Inc(a) /\ ISA!Plus(a, b) = Plus(a, b)
    /\ \A s : ISA!ClearEXL(s) = ClearEXL(s)
    /\ \A i : ISA!Dest(i) = Dest(i)
    /\ \A i, a, b : ISA!Taken(i, a, b) <=> Taken(i, a, b)
    /\ \A i, a, b, h, c : ISA!Result(i, a, b, h, c) = Result(i, a, b, h, c)
    /\ ISA!ComputeOps = ComputeOps /\ ISA!LoadOps = LoadOps
    /\ ISA!StoreOps = StoreOps /\ ISA!BranchOps = BranchOps
    /\ ISA!LinkOps = LinkOps /\ ISA!LikelyOps = LikelyOps
    /\ ISA!Word = Word
<1>1. /\ ISA!ComputeOps = ComputeOps /\ ISA!LoadOps = LoadOps
      /\ ISA!StoreOps = StoreOps /\ ISA!BranchOps = BranchOps
      /\ ISA!LinkOps = LinkOps /\ ISA!LikelyOps = LikelyOps
      /\ ISA!JumpOps = JumpOps
  BY DEF ISA!ComputeOps, ComputeOps, ISA!LoadOps, LoadOps, ISA!StoreOps,
         StoreOps, ISA!BranchOps, BranchOps, ISA!LinkOps, LinkOps,
         ISA!LikelyOps, LikelyOps, ISA!PlainOps, PlainOps,
         ISA!JumpOps, JumpOps
<1>2. \A a, b : ISA!Inc(a) = Inc(a) /\ ISA!Plus(a, b) = Plus(a, b)
  BY DEF ISA!Inc, Inc, ISA!Plus, Plus
<1>3. \A s : ISA!ClearEXL(s) = ClearEXL(s)
  BY DEF ISA!ClearEXL, ClearEXL, ISA!EXL, EXL
<1>4. \A i : ISA!Dest(i) = Dest(i)
  BY <1>1 DEF ISA!Dest, Dest
<1>5. \A i, a, b : ISA!Taken(i, a, b) <=> Taken(i, a, b)
  BY <1>1 DEF ISA!Taken, Taken
<1>6. \A i, a, b, h, c : ISA!Result(i, a, b, h, c) = Result(i, a, b, h, c)
  BY DEF ISA!Result, Result
<1>7. ISA!Word = Word
  BY DEF ISA!Word, Word
<1> QED
  BY <1>1, <1>2, <1>3, <1>4, <1>5, <1>6, <1>7

(* The program counters, by the latches that hold what EX has not seen.    *)
LEMMA MapPc ==
    /\ stage = "RF" =>
          /\ AbsPc = IF icrf.live THEN icrf.addr ELSE pc
          /\ AbsNpc = IF icrf.live THEN pc ELSE Inc(pc)
    /\ stage = "IC" =>
          /\ AbsPc = IF rfex.live THEN rfex.addr ELSE pc
          /\ AbsNpc = IF rfex.live THEN pc ELSE Inc(pc)
    /\ stage \in {"WB", "DC", "EX"} /\ icrf.live =>
          /\ AbsPc = IF rfex.live THEN rfex.addr ELSE icrf.addr
          /\ AbsNpc = IF rfex.live THEN icrf.addr ELSE pc
BY DEF AbsPc, AbsNpc, Pending

(* Memory and registers without what is in flight.                         *)
LEMMA MapMem ==
    /\ dcwb.write # "MMU" \/ stage = "DC" =>
          AbsMem = IF exdc.write = "MMU" /\ stage # "EX"
                   THEN [mem EXCEPT ![exdc.loc] = Merge(exdc.f, @, exdc.data)]
                   ELSE mem
    /\ exdc.write # "MMU" \/ stage = "EX" =>
          AbsMem = IF dcwb.write = "MMU" /\ stage # "DC"
                   THEN [mem EXCEPT ![dcwb.loc] = Merge(dcwb.f, @, dcwb.data)]
                   ELSE mem
BY DEF AbsMem

LEMMA MapGpr ==
    ~LoadPending => AbsGpr = [gpr EXCEPT ![0] = 0]
BY DEF AbsGpr, LoadPending

-----------------------------------------------------------------------------
(* The stages that only move data.                                         *)

(* WB performs the older store, which the mapping had counted already.     *)
LEMMA WritesBack ==
    ASSUME ISAInv, WB
    PROVE  UNCHANGED ISA!vars
<1>1. /\ stage = "WB" /\ stage' = "DC" /\ UNCHANGED <<program, pc, regs, latches>>
      /\ mem' = IF dcwb.write = "MMU"
                THEN [mem EXCEPT ![dcwb.loc] = Merge(dcwb.f, @, dcwb.data)]
                ELSE mem
  BY DEF WB, Runs
<1>2. UNCHANGED AbsMem
  BY <1>1 DEF AbsMem, latches
<1>3. UNCHANGED <<AbsPc, AbsNpc>>
  BY <1>1 DEF AbsPc, AbsNpc, Pending, latches
<1>4. UNCHANGED AbsGpr
  BY <1>1, <1>2 DEF AbsGpr, latches, regs
<1> QED
  BY <1>1, <1>2, <1>3, <1>4 DEF ISA!vars, program, regs

(* DC finishes the load or hands the store to DC/WB.                       *)
LEMMA Loads ==
    ASSUME ISAInv, DC
    PROVE  UNCHANGED ISA!vars
<1>t. TypeOK
  BY DEF ISAInv, PcInv
<1>1. /\ stage = "DC" /\ stage' = "EX"
      /\ UNCHANGED <<program, pc, fpr, cp0, hilo, mem, icrf, rfex>>
  BY DEF DC, Runs
<1>2. UNCHANGED <<AbsPc, AbsNpc>>
  BY <1>1 DEF AbsPc, AbsNpc, Pending
<1>3. CASE exdc.write = "LATEREGISTER"
  <2>1. AbsMem = mem /\ AbsMem' = mem
    BY <1>1, <1>3 DEF AbsMem, DC, EmptyDCWB
  <2>2. UNCHANGED AbsGpr
    BY <1>1, <1>3, <2>1 DEF AbsGpr, DC
  <2> QED
    BY <1>1, <1>2, <2>1, <2>2 DEF ISA!vars, program
<1>4. CASE exdc.write # "LATEREGISTER"
  <2>1. /\ dcwb' = [write |-> exdc.write, f |-> exdc.f, loc |-> exdc.loc,
                    data |-> exdc.data]
        /\ UNCHANGED <<gpr, exdc>>
    BY <1>4 DEF DC
  <2>2. UNCHANGED AbsMem
    BY <1>1, <2>1 DEF AbsMem
  <2>3. UNCHANGED AbsGpr
    BY <1>1, <1>4, <2>1 DEF AbsGpr
  <2> QED
    BY <1>1, <1>2, <2>1, <2>2, <2>3 DEF ISA!vars, program
<1> QED
  BY <1>3, <1>4

(* RF moves the oldest instruction; r0 reads as zero before and after.     *)
LEMMA Fetches ==
    ASSUME ISAInv, RF
    PROVE  UNCHANGED ISA!vars
<1>1. /\ stage = "RF" /\ stage' = "IC"
      /\ UNCHANGED <<program, pc, fpr, cp0, hilo, mem, icrf, exdc, dcwb, ldi>>
      /\ rfex'.addr = icrf.addr /\ rfex'.live = icrf.live
      /\ gpr' = IF fill = 4 THEN [gpr EXCEPT ![0] = 0] ELSE gpr
  BY DEF RF, Runs
<1>2. UNCHANGED AbsMem
  BY <1>1 DEF AbsMem
<1>3. UNCHANGED <<AbsPc, AbsNpc>>
  BY <1>1 DEF AbsPc, AbsNpc, Pending
<1>4. UNCHANGED AbsGpr
  <2>1. gpr \in [Reg -> Word] /\ exdc.dest \in Reg
    BY DEF ISAInv, PcInv, TypeOK, EXDC
  <2> QED
    BY <1>1, <1>2, <2>1, RegAssumption DEF AbsGpr
<1> QED
  BY <1>1, <1>2, <1>3, <1>4 DEF ISA!vars, program

(* IC fetches what the mapping expected at pc.                             *)
LEMMA Decodes ==
    ASSUME ISAInv, IC
    PROVE  UNCHANGED ISA!vars
<1>t. TypeOK
  BY DEF ISAInv, PcInv
<1>1. /\ stage = "IC" /\ UNCHANGED <<prog, regs, mem, rfex, exdc, dcwb>>
      /\ pc' = Inc(pc) /\ icrf'.addr = pc /\ icrf'.live
      /\ fill' = IF fill < 4 THEN fill + 1 ELSE 4
      /\ stage' = StartOf(fill')
  BY DEF IC, Runs
<1>2. /\ fill \in 0 .. 4
      /\ fill' \in 1 .. 4 /\ (fill = 0 <=> fill' = 1) /\ (fill = 1 <=> fill' = 2)
      /\ (fill = 2 <=> fill' = 3)
  BY <1>t, <1>1 DEF TypeOK
<1>3. /\ stage' # "IC" /\ (stage' = "RF" <=> fill = 0)
      /\ (stage' = "EX" <=> fill = 1) /\ (stage' = "DC" <=> fill = 2)
  BY <1>1, <1>2 DEF StartOf
<1>4. /\ fill = 0 => ~rfex.live
      /\ fill = 1 => exdc.write = "NONE"
      /\ fill = 2 => dcwb.write = "NONE"
  BY DEF ISAInv, MapInv
<1>5. UNCHANGED <<AbsPc, AbsNpc>>
  BY <1>1, <1>3, <1>4 DEF AbsPc, AbsNpc, Pending
<1>6. UNCHANGED AbsMem
  BY <1>1, <1>3, <1>4 DEF AbsMem
<1>7. UNCHANGED AbsGpr
  BY <1>1, <1>3, <1>4, <1>6 DEF AbsGpr, regs
<1> QED
  BY <1>1, <1>5, <1>6, <1>7 DEF ISA!vars, regs

LEMMA Stops ==
    ASSUME Throw
    PROVE  UNCHANGED ISA!vars
<1>1. UNCHANGED <<prog, pc, regs, mem, latches, stage>>
  BY DEF Throw
<1>2. UNCHANGED AbsMem
  BY <1>1 DEF AbsMem, latches
<1>3. UNCHANGED <<AbsPc, AbsNpc, AbsGpr>>
  BY <1>1, <1>2 DEF AbsPc, AbsNpc, Pending, AbsGpr, latches, regs
<1> QED
  BY <1>1, <1>2, <1>3 DEF ISA!vars, regs

(* A reset loses the stores in flight, at most two cells of the memory.    *)
LEMMA Resets ==
    ASSUME ISAInv, Reset
    PROVE  ISA!Reset
<1>t. TypeOK
  BY DEF ISAInv, PcInv
<1>1. AbsMem' = mem
  BY DEF Reset, AbsMem, EmptyEXDC, EmptyDCWB
<1>2. AbsPc' = ResetPc /\ AbsNpc' = Inc(ResetPc)
  BY DEF Reset, StartOf, AbsPc, AbsNpc, Pending, EmptyRFEX
<1>3. AbsGpr' = [r \in Reg |-> 0]
  BY RegAssumption DEF Reset, AbsGpr, EmptyEXDC
<1>4. \E a, b, v, w \in Word : mem = [AbsMem EXCEPT ![a] = v, ![b] = w]
  <2>1. /\ dcwb.loc \in Word /\ exdc.loc \in Word /\ mem \in [Word -> Word]
        /\ mem[dcwb.loc] \in Word /\ mem[exdc.loc] \in Word
    BY <1>t DEF TypeOK, EXDC, DCWB
  <2>2. mem = [AbsMem EXCEPT ![dcwb.loc] = mem[dcwb.loc],
                             ![exdc.loc] = mem[exdc.loc]]
    BY <2>1 DEF AbsMem
  <2> QED
    BY <2>1, <2>2
<1>5. \E a, b, v, w \in ISA!Word : AbsMem' = [AbsMem EXCEPT ![a] = v, ![b] = w]
  <2>1. ISA!Word = Word
    BY SameOperators
  <2> QED
    BY <1>1, <1>4, <2>1
<1>6. AbsNpc' = ISA!Inc(ResetPc)
  BY <1>2, SameOperators
<1>7. /\ fpr' = [r \in Reg |-> 0] /\ cp0' = [r \in Reg |-> 0]
      /\ UNCHANGED <<prog, hilo>>
  BY DEF Reset
<1> QED
  BY <1>2, <1>3, <1>5, <1>6, <1>7 DEF ISA!Reset
-----------------------------------------------------------------------------
(* EX.  What is in RF/EX is what the sequential machine runs next, with    *)
(* the same operands and the same address.                                 *)
LEMMA Executing ==
    ASSUME ISAInv, stage = "EX"
    PROVE  /\ icrf.live /\ pc = Inc(icrf.addr) /\ ~ldi /\ ~exdc.sext
           /\ AbsGpr = [gpr EXCEPT ![0] = 0]
           /\ rfex.live =>
                 /\ AbsPc = rfex.addr /\ AbsNpc = icrf.addr
                 /\ ISA!I = I /\ ISA!A = rfex.rs /\ ISA!B = rfex.rt
                 /\ ISA!Addr = Addr
           /\ ~rfex.live => AbsPc = icrf.addr /\ AbsNpc = pc /\ I = Nop
<1>t. TypeOK
  BY DEF ISAInv, PcInv
<1>1. icrf.live /\ pc = Inc(icrf.addr) /\ ~ldi /\ ~exdc.sext
  BY DEF ISAInv, PcInv, MapInv, LoadPending
<1>2. AbsGpr = [gpr EXCEPT ![0] = 0]
  BY MapGpr DEF LoadPending
<1>3. ~rfex.live => AbsPc = icrf.addr /\ AbsNpc = pc /\ I = Nop
  BY <1>1, MapPc DEF ISAInv, PcInv, FetchInv, I
<1>4. ASSUME rfex.live
      PROVE  /\ AbsPc = rfex.addr /\ AbsNpc = icrf.addr
             /\ ISA!I = I /\ ISA!A = rfex.rs /\ ISA!B = rfex.rt
             /\ ISA!Addr = Addr
  <2>1. AbsPc = rfex.addr /\ AbsNpc = icrf.addr
    BY <1>1, <1>4, MapPc
  <2>2. ISA!I = I
    BY <1>4, <2>1 DEF ISA!I, I, ISAInv, PcInv, FetchInv
  <2>3. I.rs \in Reg /\ I.rt \in Reg /\ gpr \in [Reg -> Word]
    BY <1>t DEF TypeOK, RFEX, Instr, I
  <2>4. rfex.rs = View(I.rs) /\ rfex.rt = View(I.rt)
    BY <1>4 DEF ISAInv, DataInv, FreshInv, I
  <2>5. ISA!A = rfex.rs /\ ISA!B = rfex.rt
    BY <1>2, <2>2, <2>3, <2>4, RegAssumption DEF ISA!A, ISA!B, View
  <2>6. ISA!Addr = Addr
    BY <2>2, <2>5, SameOperators DEF ISA!Addr, Addr
  <2> QED
    BY <2>1, <2>2, <2>5, <2>6
<1> QED
  BY <1>1, <1>2, <1>3, <1>4

(* An instruction that is no branch leaves the next one in IC/RF.          *)
LEMMA MovesOn ==
    ASSUME ISAInv, stage = "EX", stage' = "RF" \/ (stage' = "WB" /\ ~rfex'.live),
           UNCHANGED <<pc, icrf>>
    PROVE  /\ rfex.live => ISA!Advance
           /\ ~rfex.live => UNCHANGED <<AbsPc, AbsNpc>>
<1>1. icrf.live /\ pc = Inc(icrf.addr)
  BY Executing
<1>2. AbsPc' = icrf.addr /\ AbsNpc' = pc
  BY <1>1 DEF AbsPc, AbsNpc, Pending
<1> QED
  BY <1>1, <1>2, Executing, SameOperators DEF ISA!Advance

(* Handlers other than loads: the registers hold the result at once.       *)
LEMMA GprAfterEX ==
    ASSUME exdc'.write # "LATEREGISTER"
    PROVE  AbsGpr' = [gpr' EXCEPT ![0] = 0]
BY DEF AbsGpr

(* Handlers other than stores leave the memory and the store in front.     *)
LEMMA MemAfterEX ==
    ASSUME stage = "EX", stage' \in {"RF", "WB"}, exdc'.write # "MMU",
           UNCHANGED <<mem, dcwb>>
    PROVE  UNCHANGED AbsMem
BY DEF AbsMem

(* Writing a register and then forgetting r0 is Set of the machine.        *)
LEMMA SetGpr ==
    ASSUME ISAInv, AbsGpr = [gpr EXCEPT ![0] = 0], NEW r \in Reg, NEW v,
           AbsGpr' = [[gpr EXCEPT ![r] = v] EXCEPT ![0] = 0]
    PROVE  ISA!Set(r, v)
<1>1. gpr \in [Reg -> Word]
  BY DEF ISAInv, PcInv, TypeOK
<1> QED
  BY <1>1, RegAssumption DEF ISA!Set

(* A bubble writes r0 at most.                                             *)
LEMMA Bubbles ==
    ASSUME ISAInv, EX, ~rfex.live
    PROVE  UNCHANGED ISA!vars
<1>1. I = Nop /\ stage = "EX"
  <2>1. stage = "EX"
    BY DEF EX, ExCompute, ExLoad, ExStore, ExStorePart, ExLoadPart,
           ExLoadFloat, ExStoreFloat, ExBranch, ExMultiply, ExMoveToCp0,
           ExFloat, ExNothing, ExERET, Executes, Runs
  <2> QED
    BY <2>1, Executing
<1>2. ExCompute
  <2>1. I.op = "RTYPE"
    BY <1>1 DEF Nop
  <2> QED
    BY <2>1 DEF EX, ExLoad, ExStore, ExStorePart, ExLoadPart,
           ExLoadFloat, ExStoreFloat, ExBranch, ExMultiply, ExMoveToCp0,
           ExFloat, ExNothing, ExERET, Executes, LoadOps, BranchOps, PlainOps,
           LikelyOps, JumpOps
<1>3. /\ gpr' = [gpr EXCEPT ![0] = Result(I, rfex.rs, rfex.rt, hilo, cp0)]
      /\ exdc'.write = "NONE" /\ EndEX(ldi)
      /\ UNCHANGED <<program, pc, fpr, cp0, hilo, mem, icrf, rfex, dcwb, ldi>>
  BY <1>1, <1>2 DEF ExCompute, Idle, EmptyEXDC, Dest, Nop
<1>4. stage' = "RF"
  BY <1>1, <1>3, Executing DEF EndEX
<1>5. UNCHANGED <<AbsPc, AbsNpc>>
  BY <1>1, <1>3, <1>4, MovesOn
<1>6. UNCHANGED AbsMem
  BY <1>1, <1>3, <1>4, MemAfterEX
<1>7. UNCHANGED AbsGpr
  <2>1. gpr \in [Reg -> Word]
    BY DEF ISAInv, PcInv, TypeOK
  <2> QED
    BY <1>1, <1>3, <2>1, GprAfterEX, Executing, RegAssumption
<1> QED
  BY <1>3, <1>5, <1>6, <1>7 DEF ISA!vars, program
-----------------------------------------------------------------------------
(* One lemma per handler: an instruction of the program in EX is the step  *)
(* of the sequential machine with the same name.                           *)

LEMMA InstrType ==
    ASSUME ISAInv
    PROVE  /\ I \in Instr /\ I.rs \in Reg /\ I.rt \in Reg /\ I.rd \in Reg
           /\ I.f \in Func /\ I.imm \in Word /\ Dest(I) \in Reg
           /\ rfex.rs \in Word /\ rfex.rt \in Word /\ Addr \in Word
BY AddressType, DestType DEF ISAInv, PcInv, TypeOK, RFEX, Instr, I, Addr

LEMMA Computes ==
    ASSUME ISAInv, rfex.live, ExCompute
    PROVE  ISA!Compute
<1>1. /\ stage = "EX" /\ I.op \in ComputeOps
      /\ gpr' = [gpr EXCEPT ![Dest(I)] = Result(I, rfex.rs, rfex.rt, hilo, cp0)]
      /\ exdc'.write = "NONE" /\ EndEX(ldi)
      /\ UNCHANGED <<prog, pc, fpr, cp0, hilo, mem, icrf, rfex, dcwb, ldi>>
  BY DEF ExCompute, Executes, Runs, Idle, EmptyEXDC, program
<1>2. stage' = "RF"
  BY <1>1, Executing DEF EndEX
<1>3. ISA!Advance /\ UNCHANGED AbsMem
  BY <1>1, <1>2, MovesOn, MemAfterEX
<1>4. ISA!Set(Dest(I), Result(I, rfex.rs, rfex.rt, hilo, cp0))
  BY <1>1, Executing, GprAfterEX, SetGpr, InstrType
<1>5. ISA!Set(ISA!Dest(ISA!I), ISA!Result(ISA!I, ISA!A, ISA!B, hilo, cp0))
  BY <1>1, <1>4, Executing, SameOperators
<1> QED
  BY <1>1, <1>3, <1>5, Executing, SameOperators DEF ISA!Compute

LEMMA LoadsIssue ==
    ASSUME ISAInv, rfex.live, ExLoad
    PROVE  ISA!Load
<1> DEFINE v == IF I.op = "LOADS" THEN SignExtend(I.f, AbsMem[Addr])
                                  ELSE Narrow(I.f, AbsMem[Addr])
<1>1. /\ stage = "EX" /\ I.op \in LoadOps
      /\ exdc' = [EmptyEXDC EXCEPT !.write = "LATEREGISTER", !.f = I.f,
                      !.dest = I.rt, !.loc = Addr,
                      !.sext = exdc.sext \/ I.op = "LOADS"]
      /\ rfex' = [rfex EXCEPT !.instr = Nop, !.live = FALSE]
      /\ EndEX(ldi')
      /\ UNCHANGED <<prog, pc, gpr, fpr, cp0, hilo, mem, icrf, dcwb>>
  BY DEF ExLoad, Executes, Runs, program, regs
<1>2. /\ exdc'.write = "LATEREGISTER" /\ exdc'.f = I.f /\ exdc'.dest = I.rt
      /\ exdc'.loc = Addr /\ (exdc'.sext <=> I.op = "LOADS")
  BY <1>1, Executing DEF EmptyEXDC
<1>3. stage' \in {"RF", "WB"} /\ ~rfex'.live
  BY <1>1 DEF EndEX, ISAInv, PcInv, TypeOK, RFEX
<1>4. ISA!Advance /\ UNCHANGED AbsMem
  BY <1>1, <1>2, <1>3, MovesOn, MemAfterEX
<1>5. AbsGpr' = [[gpr EXCEPT ![I.rt] = v] EXCEPT ![0] = 0]
  <2>1. stage' # "EX" /\ AbsMem' = AbsMem /\ gpr' = gpr
    BY <1>1, <1>3, <1>4
  <2> QED
    BY <1>2, <2>1 DEF AbsGpr
<1>6. ISA!Set(I.rt, v)
  BY <1>1, <1>5, Executing, SetGpr, InstrType
<1>7. ISA!Set(ISA!I.rt, IF ISA!I.op = "LOADS"
                        THEN SignExtend(ISA!I.f, AbsMem[ISA!Addr])
                        ELSE Narrow(ISA!I.f, AbsMem[ISA!Addr]))
  BY <1>1, <1>6, Executing
<1> QED
  BY <1>1, <1>4, <1>7, Executing, SameOperators DEF ISA!Load

LEMMA StoresIssue ==
    ASSUME ISAInv, rfex.live, ExStore
    PROVE  ISA!Store
<1>1. /\ stage = "EX" /\ I.op = "STORE" /\ EndEX(ldi)
      /\ exdc' = [EmptyEXDC EXCEPT !.write = "MMU", !.f = I.f, !.loc = Addr,
                      !.data = rfex.rt, !.sext = exdc.sext]
      /\ UNCHANGED <<prog, pc, gpr, fpr, cp0, hilo, mem, icrf, rfex, dcwb, ldi>>
  BY DEF ExStore, Executes, Runs, program, regs
<1>2. /\ exdc'.write = "MMU" /\ exdc'.f = I.f /\ exdc'.loc = Addr
      /\ exdc'.data = rfex.rt
  BY <1>1 DEF EmptyEXDC
<1>3. stage' = "RF"
  BY <1>1, Executing DEF EndEX
<1>4. ISA!Advance
  BY <1>1, <1>3, MovesOn
<1>5. AbsMem' = [AbsMem EXCEPT ![Addr] = Merge(I.f, @, rfex.rt)]
  BY <1>1, <1>2, <1>3 DEF AbsMem
<1>6. UNCHANGED AbsGpr
  BY <1>1, <1>2, GprAfterEX, Executing
<1>7. ISA!I.op \in ISA!StoreOps
  BY <1>1, Executing, SameOperators DEF StoreOps
<1>8. AbsMem' = [AbsMem EXCEPT ![ISA!Addr] = Merge(ISA!I.f, @, ISA!B)]
  BY <1>1, <1>5, Executing
<1> QED
  BY <1>1, <1>4, <1>6, <1>7, <1>8 DEF ISA!Store

(* SWL, SWR, SDL and SDR merge in EX with the memory as it is then.        *)
LEMMA PartialStoresIssue ==
    ASSUME ISAInv, rfex.live, ExStorePart, ~Overtakes
    PROVE  ISA!Store
<1>1. /\ stage = "EX" /\ I.op = "SDL" /\ EndEX(ldi)
      /\ exdc' = [EmptyEXDC EXCEPT !.write = "MMU", !.loc = Addr,
                      !.data = Merge(I.f, mem[Addr], rfex.rt)]
      /\ UNCHANGED <<prog, pc, gpr, fpr, cp0, hilo, mem, icrf, rfex, dcwb, ldi>>
  BY DEF ExStorePart, Executes, Runs, program, regs
<1>2. /\ exdc'.write = "MMU" /\ exdc'.f = FullWord /\ exdc'.loc = Addr
      /\ exdc'.data = Merge(I.f, mem[Addr], rfex.rt)
  BY <1>1 DEF EmptyEXDC
<1>3. stage' = "RF"
  BY <1>1, Executing DEF EndEX
<1>4. ISA!Advance
  BY <1>1, <1>3, MovesOn
<1>t. mem \in [Word -> Word] /\ dcwb \in DCWB
  BY DEF ISAInv, PcInv, TypeOK
<1>5. AbsMem \in [Word -> Word] /\ AbsMem[Addr] = mem[Addr]
  <2>1. ~(dcwb.write = "MMU" /\ dcwb.loc = Addr)
    BY <1>1 DEF Overtakes, ExMemOps
  <2>2. dcwb.loc \in Word /\ Merge(dcwb.f, mem[dcwb.loc], dcwb.data) \in Word
    BY <1>t, DataAssumption DEF DCWB
  <2>3. AbsMem = IF dcwb.write = "MMU"
                 THEN [mem EXCEPT ![dcwb.loc] = Merge(dcwb.f, @, dcwb.data)]
                 ELSE mem
    BY <1>1 DEF AbsMem
  <2> QED
    BY <1>t, <2>1, <2>2, <2>3, InstrType
<1>6. Merge(FullWord, AbsMem[Addr], exdc'.data) = exdc'.data
  <2>1. exdc'.data \in Word
    BY <1>2, <1>t, InstrType, DataAssumption
  <2> QED
    BY <1>5, <2>1, InstrType, DataAssumption, PlaceAssumption
<1>7. AbsMem' = [AbsMem EXCEPT ![Addr] = Merge(I.f, @, rfex.rt)]
  <2>1. AbsMem' = [AbsMem EXCEPT ![Addr] = Merge(FullWord, @, exdc'.data)]
    BY <1>1, <1>2, <1>3 DEF AbsMem
  <2> QED
    BY <1>2, <1>5, <1>6, <2>1
<1>8. UNCHANGED AbsGpr
  BY <1>1, <1>2, GprAfterEX, Executing
<1>9. ISA!I.op \in ISA!StoreOps
  BY <1>1, Executing, SameOperators DEF StoreOps
<1>10. AbsMem' = [AbsMem EXCEPT ![ISA!Addr] = Merge(ISA!I.f, @, ISA!B)]
  BY <1>1, <1>7, Executing
<1> QED
  BY <1>1, <1>4, <1>8, <1>9, <1>10 DEF ISA!Store

(* Nothing overtaken: the memory in EX is the memory of the machine.       *)
LEMMA MemInEX ==
    ASSUME ISAInv, stage = "EX", I.op \in ExMemOps, ~Overtakes
    PROVE  /\ AbsMem[Addr] = mem[Addr]
           /\ dcwb.write = "MMU" => dcwb.loc # Addr
<1>1. dcwb.write = "MMU" => dcwb.loc # Addr
  BY DEF Overtakes
<1>2. mem \in [Word -> Word] /\ dcwb.loc \in Word
  BY DEF ISAInv, PcInv, TypeOK, DCWB
<1> QED
  BY <1>1, <1>2, InstrType, MapMem

LEMMA LoadsPart ==
    ASSUME ISAInv, rfex.live, ExLoadPart, ~Overtakes
    PROVE  ISA!LoadPart
<1>1. /\ stage = "EX" /\ I.op = "LWL" /\ EndEX(ldi)
      /\ gpr' = [gpr EXCEPT ![I.rt] = Merge(I.f, gpr[I.rt], mem[Addr])]
      /\ exdc'.write = "NONE"
      /\ UNCHANGED <<prog, pc, fpr, cp0, hilo, mem, icrf, rfex, dcwb, ldi>>
  BY DEF ExLoadPart, Executes, Runs, program, EmptyEXDC
<1>2. stage' = "RF"
  BY <1>1, Executing DEF EndEX
<1>3. ISA!Advance /\ UNCHANGED AbsMem
  BY <1>1, <1>2, MovesOn, MemAfterEX
<1>4. AbsMem[Addr] = mem[Addr]
  BY <1>1, MemInEX DEF ExMemOps, ExLoadOps
<1>5. I.rt # 0 => rfex.rt = gpr[I.rt]
  BY <1>1 DEF ISAInv, DataInv, FreshInv, View, I
<1>6. AbsGpr' = [[gpr EXCEPT ![I.rt] = Merge(I.f, rfex.rt, mem[Addr])] EXCEPT ![0] = 0]
  <2>1. AbsGpr' = [gpr' EXCEPT ![0] = 0]
    BY <1>1, GprAfterEX
  <2>2. gpr \in [Reg -> Word]
    BY DEF ISAInv, PcInv, TypeOK
  <2> QED
    BY <1>1, <1>5, <2>1, <2>2, InstrType, RegAssumption
<1>7. ISA!Set(I.rt, Merge(I.f, rfex.rt, mem[Addr]))
  BY <1>1, <1>6, Executing, SetGpr, InstrType
<1>8. ISA!Set(ISA!I.rt, Merge(ISA!I.f, ISA!B, AbsMem[ISA!Addr]))
  BY <1>1, <1>4, <1>7, Executing
<1> QED
  BY <1>1, <1>3, <1>8, Executing DEF ISA!LoadPart

LEMMA LoadsFloat ==
    ASSUME ISAInv, rfex.live, ExLoadFloat, ~Overtakes
    PROVE  ISA!LoadFloat
<1>1. /\ stage = "EX" /\ I.op = "LDC1" /\ EndEX(ldi)
      /\ fpr' = [fpr EXCEPT ![I.rt] = mem[Addr]]
      /\ exdc'.write = "NONE"
      /\ UNCHANGED <<prog, pc, gpr, cp0, hilo, mem, icrf, rfex, dcwb, ldi>>
  BY DEF ExLoadFloat, Executes, Runs, program, EmptyEXDC
<1>2. stage' = "RF"
  BY <1>1, Executing DEF EndEX
<1>3. ISA!Advance /\ UNCHANGED AbsMem
  BY <1>1, <1>2, MovesOn, MemAfterEX
<1>4. UNCHANGED AbsGpr
  BY <1>1, GprAfterEX, Executing
<1>5. AbsMem[Addr] = mem[Addr]
  BY <1>1, MemInEX DEF ExMemOps, ExLoadOps
<1>6. fpr' = [fpr EXCEPT ![ISA!I.rt] = AbsMem[ISA!Addr]]
  BY <1>1, <1>5, Executing
<1> QED
  BY <1>1, <1>3, <1>4, <1>6, Executing DEF ISA!LoadFloat

(* SDC1 writes the memory at once: the store in front of it, to another    *)
(* word, commutes with it.                                                 *)
LEMMA StoresFloat ==
    ASSUME ISAInv, rfex.live, ExStoreFloat, ~Overtakes
    PROVE  ISA!StoreFloat
<1>1. /\ stage = "EX" /\ I.op = "SDC1" /\ EndEX(ldi)
      /\ mem' = [mem EXCEPT ![Addr] = fpr[I.rt]]
      /\ exdc'.write = "NONE"
      /\ UNCHANGED <<prog, pc, gpr, fpr, cp0, hilo, icrf, rfex, dcwb, ldi>>
  BY DEF ExStoreFloat, Executes, Runs, Idle, program, regs, EmptyEXDC
<1>2. stage' = "RF"
  BY <1>1, Executing DEF EndEX
<1>3. ISA!Advance
  BY <1>1, <1>2, MovesOn
<1>4. UNCHANGED AbsGpr
  BY <1>1, GprAfterEX, Executing
<1>5. AbsMem' = [AbsMem EXCEPT ![Addr] = fpr[I.rt]]
  <2>1. dcwb.write = "MMU" => dcwb.loc # Addr
    BY <1>1, MemInEX DEF ExMemOps
  <2>2. mem \in [Word -> Word] /\ dcwb.loc \in Word
    BY DEF ISAInv, PcInv, TypeOK, DCWB
  <2>3. AbsMem = IF dcwb.write = "MMU"
                 THEN [mem EXCEPT ![dcwb.loc] = Merge(dcwb.f, @, dcwb.data)]
                 ELSE mem
    BY <1>1 DEF AbsMem
  <2>4. AbsMem' = IF dcwb.write = "MMU"
                  THEN [mem' EXCEPT ![dcwb.loc] = Merge(dcwb.f, @, dcwb.data)]
                  ELSE mem'
    BY <1>1, <1>2 DEF AbsMem
  <2> QED
    BY <1>1, <2>1, <2>2, <2>3, <2>4, InstrType
<1>6. AbsMem' = [AbsMem EXCEPT ![ISA!Addr] = fpr[ISA!I.rt]]
  BY <1>1, <1>5, Executing
<1> QED
  BY <1>1, <1>3, <1>4, <1>6, Executing DEF ISA!StoreFloat

(* A branch in EX has its slot in IC/RF and the pc two words on.           *)
LEMMA Branches ==
    ASSUME ISAInv, rfex.live, ExBranch
    PROVE  ISA!Branch
<1>1. /\ stage = "EX" /\ I.op \in BranchOps /\ EndEX(ldi)
      /\ gpr' = IF I.op \in LinkOps THEN [gpr EXCEPT ![Dest(I)] = pc] ELSE gpr
      /\ exdc'.write = "NONE"
      /\ UNCHANGED <<prog, fpr, cp0, hilo, mem, rfex, dcwb, ldi>>
  BY DEF ExBranch, Executes, Runs, Idle, program, EmptyEXDC
<1>2. stage' = "RF" /\ UNCHANGED AbsMem
  BY <1>1, Executing, MemAfterEX DEF EndEX
<1>3. /\ pc = Inc(Inc(rfex.addr)) /\ icrf.addr = Inc(rfex.addr)
      /\ pc = Inc(icrf.addr) /\ icrf.live
      /\ AbsPc = rfex.addr /\ AbsNpc = icrf.addr
  BY <1>1, Executing DEF ISAInv, PcInv, FetchInv, I
<1>4. Target = ISA!Target
  <2>1. Dec(pc) = Inc(rfex.addr)
    BY <1>3, AddressType, DecInc DEF ISAInv, PcInv, TypeOK, RFEX
  <2> QED
    BY <1>1, <1>3, <2>1, Executing, SameOperators DEF Target, ISA!Target
<1>5. IF ISA!I.op \in ISA!LinkOps
      THEN ISA!Set(ISA!Dest(ISA!I), ISA!Inc(ISA!Inc(AbsPc))) ELSE UNCHANGED AbsGpr
  <2>1. CASE I.op \in LinkOps
    <3>1. ISA!Set(Dest(I), pc)
      BY <1>1, <2>1, Executing, GprAfterEX, SetGpr, InstrType
    <3> QED
      BY <1>1, <1>3, <2>1, <3>1, Executing, SameOperators
  <2>2. CASE I.op \notin LinkOps
    BY <1>1, <2>2, Executing, GprAfterEX, SameOperators
  <2> QED
    BY <2>1, <2>2
<1>6. /\ AbsPc' = IF icrf'.live THEN icrf'.addr ELSE pc'
      /\ AbsNpc' = IF icrf'.live THEN pc' ELSE Inc(pc')
  BY <1>2 DEF AbsPc, AbsNpc, Pending
<1>7. ISA!Taken(ISA!I, ISA!A, ISA!B) <=> Taken(I, rfex.rs, rfex.rt)
  BY <1>1, Executing, SameOperators
<1>8. \/ ISA!Taken(ISA!I, ISA!A, ISA!B) /\ AbsPc' = AbsNpc /\ AbsNpc' = ISA!Target
      \/ /\ ~ISA!Taken(ISA!I, ISA!A, ISA!B) /\ ISA!I.op \notin ISA!LikelyOps
         /\ ISA!Advance
      \/ /\ ~ISA!Taken(ISA!I, ISA!A, ISA!B) /\ ISA!I.op \in ISA!LikelyOps
         /\ AbsPc' = ISA!Inc(AbsNpc) /\ AbsNpc' = ISA!Inc(ISA!Inc(AbsNpc))
  <2>1. CASE Taken(I, rfex.rs, rfex.rt) /\ pc' = Target /\ UNCHANGED icrf
    BY <1>3, <1>4, <1>6, <1>7, <2>1
  <2>2. CASE ~Taken(I, rfex.rs, rfex.rt) /\ I.op \notin LikelyOps
               /\ UNCHANGED <<pc, icrf>>
    BY <1>1, <1>2, <1>7, <2>2, MovesOn, Executing, SameOperators
  <2>3. CASE ~Taken(I, rfex.rs, rfex.rt) /\ I.op \in LikelyOps
               /\ Squash /\ UNCHANGED pc
    <3>1. ~icrf'.live
      BY <2>3 DEF Squash, ISAInv, PcInv, TypeOK, ICRF
    <3> QED
      BY <1>1, <1>3, <1>6, <1>7, <2>3, <3>1, Executing, SameOperators
  <2> QED
    BY <2>1, <2>2, <2>3 DEF ExBranch
<1>9. ISA!I.op \in ISA!BranchOps
  BY <1>1, Executing, SameOperators
<1> QED
  BY <1>1, <1>2, <1>5, <1>8, <1>9 DEF ISA!Branch

(* Handlers that write none of pc, registers and memory.                   *)
LEMMA LeavesData ==
    ASSUME ISAInv, rfex.live, stage = "EX", EndEX(ldi), exdc'.write = "NONE",
           UNCHANGED <<pc, gpr, mem, icrf, dcwb>>
    PROVE  ISA!Advance /\ UNCHANGED <<AbsGpr, AbsMem>>
<1>1. stage' = "RF"
  BY Executing DEF EndEX
<1> QED
  BY <1>1, MovesOn, MemAfterEX, GprAfterEX, Executing

LEMMA Multiplies ==
    ASSUME ISAInv, rfex.live, ExMultiply
    PROVE  ISA!Multiply
<1>1. /\ stage = "EX" /\ I.op = "MULT" /\ hilo' = Alu(I.f, rfex.rs, rfex.rt)
      /\ EndEX(ldi) /\ exdc'.write = "NONE"
      /\ UNCHANGED <<prog, pc, gpr, fpr, cp0, mem, icrf, dcwb>>
  BY DEF ExMultiply, Executes, Runs, Idle, program, EmptyEXDC
<1> QED
  BY <1>1, LeavesData, Executing DEF ISA!Multiply

(* MTC0 reads the register, not the latch: r0 is still zero there, because *)
(* a load that just wrote it would have been interlocked.                  *)
LEMMA WritesCp0 ==
    ASSUME ISAInv, rfex.live, ExMoveToCp0
    PROVE  ISA!WriteCp0
<1>1. /\ stage = "EX" /\ I.op = "MTC0"
      /\ cp0' = [cp0 EXCEPT ![I.rd] = SignExtend(I.f, gpr[I.rt])]
      /\ EndEX(ldi) /\ exdc'.write = "NONE"
      /\ UNCHANGED <<prog, pc, gpr, fpr, hilo, mem, icrf, dcwb>>
  BY DEF ExMoveToCp0, Executes, Runs, Idle, program, EmptyEXDC
<1>2. rfex.rt = gpr[I.rt]
  BY <1>1 DEF ISAInv, DataInv, FreshInv, View, MapInv, I
<1> QED
  BY <1>1, <1>2, LeavesData, Executing DEF ISA!WriteCp0

LEMMA Floats ==
    ASSUME ISAInv, rfex.live, ExFloat
    PROVE  ISA!FloatOp
<1>1. /\ stage = "EX" /\ I.op = "FOP"
      /\ fpr' = [fpr EXCEPT ![I.rd] = Alu(I.f, fpr[I.rs], fpr[I.rt])]
      /\ EndEX(ldi) /\ exdc'.write = "NONE"
      /\ UNCHANGED <<prog, pc, gpr, cp0, hilo, mem, icrf, dcwb>>
  BY DEF ExFloat, Executes, Runs, Idle, program, EmptyEXDC
<1> QED
  BY <1>1, LeavesData, Executing DEF ISA!FloatOp

LEMMA DoesNothing ==
    ASSUME ISAInv, rfex.live, ExNothing
    PROVE  ISA!Cache
<1>1. /\ stage = "EX" /\ I.op = "CACHE"
      /\ EndEX(ldi) /\ exdc'.write = "NONE"
      /\ UNCHANGED <<prog, pc, gpr, fpr, cp0, hilo, mem, icrf, dcwb>>
  BY DEF ExNothing, Executes, Runs, Idle, program, regs, EmptyEXDC
<1> QED
  BY <1>1, LeavesData, Executing DEF ISA!Cache

(* ERET squashes IC/RF: there is no delay slot.                            *)
LEMMA ReturnsFromException ==
    ASSUME ISAInv, rfex.live, ExERET
    PROVE  ISA!ReturnFromException
<1>1. /\ stage = "EX" /\ I.op = "ERET"
      /\ pc' = cp0[EpcReg]
      /\ cp0' = [cp0 EXCEPT ![StatusReg] = ClearEXL(@)]
      /\ Squash /\ EndEX(ldi) /\ exdc'.write = "NONE"
      /\ UNCHANGED <<prog, gpr, fpr, hilo, mem, dcwb>>
  BY DEF ExERET, Executes, Runs, Idle, program, EmptyEXDC
<1>2. stage' = "RF" /\ UNCHANGED <<AbsMem, AbsGpr>>
  BY <1>1, Executing, MemAfterEX, GprAfterEX DEF EndEX
<1>3. ~icrf'.live
  BY <1>1 DEF Squash, ISAInv, PcInv, TypeOK, ICRF
<1>4. AbsPc' = cp0[EpcReg] /\ AbsNpc' = Inc(cp0[EpcReg])
  BY <1>1, <1>2, <1>3 DEF AbsPc, AbsNpc, Pending
<1>5. cp0' = [cp0 EXCEPT ![StatusReg] = ISA!ClearEXL(@)]
  BY <1>1, SameOperators
<1> QED
  BY <1>1, <1>2, <1>4, <1>5, Executing, SameOperators
     DEF ISA!ReturnFromException

-----------------------------------------------------------------------------
LEMMA StartsAsISA == Init => ISA!Init
<1> SUFFICES ASSUME Init PROVE ISA!Init
  OBVIOUS
<1>1. AbsPc = ResetPc /\ AbsNpc = Inc(ResetPc)
  BY DEF Init, StartOf, AbsPc, AbsNpc, Pending, EmptyRFEX
<1>2. AbsMem = BootMem
  BY DEF Init, AbsMem, EmptyEXDC, EmptyDCWB
<1>3. AbsGpr = [r \in Reg |-> 0]
  BY RegAssumption DEF Init, AbsGpr, EmptyEXDC
<1> QED
  BY <1>1, <1>2, <1>3, SameOperators DEF Init, ISA!Init

(* Every step of the pipeline is a step of the machine or moves nothing    *)
(* that it can see, if EX does not overtake a store.                       *)
LEMMA StepsAsISA ==
    ASSUME ISAInv, [Next]_vars, ~Overtakes
    PROVE  [ISA!Next]_(ISA!vars)
<1>1. CASE WB
  BY <1>1, WritesBack
<1>2. CASE DC
  BY <1>2, Loads
<1>3. CASE RF
  BY <1>3, Fetches
<1>4. CASE IC
  BY <1>4, Decodes
<1>5. CASE Throw
  BY <1>5, Stops
<1>6. CASE Reset
  BY <1>6, Resets DEF ISA!Next
<1>7. CASE EX
  <2>1. CASE ~rfex.live
    BY <1>7, <2>1, Bubbles
  <2>2. CASE rfex.live
    BY <1>7, <2>2, Computes, LoadsIssue, StoresIssue, PartialStoresIssue,
       LoadsPart, LoadsFloat, StoresFloat, Branches, Multiplies, WritesCp0,
       Floats, DoesNothing, ReturnsFromException DEF EX, ISA!Next
  <2> QED
    BY <2>1, <2>2
<1>8. CASE UNCHANGED vars
  <2>1. UNCHANGED AbsMem
    BY <1>8 DEF vars, AbsMem
  <2>2. UNCHANGED <<AbsPc, AbsNpc, AbsGpr>>
    BY <1>8, <2>1 DEF vars, AbsPc, AbsNpc, Pending, AbsGpr
  <2> QED
    BY <1>8, <2>1, <2>2 DEF vars, ISA!vars
<1> QED
  BY <1>1, <1>2, <1>3, <1>4, <1>5, <1>6, <1>7, <1>8 DEF Next, Step

(* For every legal program, the pipeline is the sequential machine except  *)
(* where an instruction that touches the memory in EX overtakes the store  *)
(* in front of it, to the same word.                                       *)
THEOREM KeepsProgramOrder ==
    ASSUME AllBootSafe, AllLegal
    PROVE  Spec => ImplementsISAUnlessOvertaking
<1>1. ISAInv /\ [Next]_vars => [ISA!Next \/ Overtakes]_(ISA!vars)
  BY StepsAsISA
<1> QED
  BY <1>1, ISAInvariant, PTL DEF Spec, ImplementsISAUnlessOvertaking

(* Programs without LWL, LWR, SWL, SWR, SDL, SDR, LDC1 and SDC1, the       *)
(* instructions that touch the memory in EX.                               *)
NoMemoryInEX == \A p \in Programs, a \in Word : p[a].op \notin ExMemOps

(* Without them nothing can be overtaken, and the pipeline implements the  *)
(* sequential machine: no legal program can tell the two apart.            *)
THEOREM PipelineImplementsISA ==
    ASSUME AllBootSafe, AllLegal, NoMemoryInEX
    PROVE  Spec => ImplementsISA
<1>1. ISAInv => ~Overtakes
  <2>1. Nop.op \notin ExMemOps
    BY DEF Nop, ExMemOps, ExLoadOps
  <2>2. ISAInv => I = Nop \/ \E a \in Word : I = prog[a]
    BY DEF ISAInv, PcInv, FetchInv, TypeOK, RFEX, I
  <2> QED
    BY <2>1, <2>2 DEF Overtakes, NoMemoryInEX, ISAInv, PcInv, TypeOK
<1>2. ISAInv /\ [Next]_vars => [ISA!Next]_(ISA!vars)
  BY <1>1, StepsAsISA
<1> QED
  BY <1>2, ISAInvariant, StartsAsISA, PTL DEF Spec, ImplementsISA, ISA!Spec
=============================================================================
