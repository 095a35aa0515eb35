------------------------------ MODULE Pipeline ------------------------------
(***************************************************************************)
(* The CPU of src/core/n64_cpu.cxx: the five stages that update_pipeline   *)
(* calls once per cycle, oldest instruction first (WB, DC, EX, RF, IC), the *)
(* four latches between them, the load interlock, and the priming of the   *)
(* pipeline by Reset and fill_pipeline.                                    *)
(*                                                                         *)
(* A stage call is an action.  The emulation thread runs them one after    *)
(* the other, so `stage' is its control point; `fill' counts the groups of *)
(* calls in fill_pipeline (0..3) and is 4 once update_pipeline runs.       *)
(*                                                                         *)
(* Register and memory names follow the code without the trailing          *)
(* underscore.  `addr' and `live' in the first two latches are history     *)
(* variables: where an instruction was fetched and whether it is one of    *)
(* the program, not a bubble.  No guard reads them.                        *)
(*                                                                         *)
(* Left to other modules: time_, scheduler_ and interrupts (Scheduler,     *)
(* PipelineIrq), memory-mapped registers, MFC0 of CP0_COUNT.               *)
(***************************************************************************)
EXTENDS Mips

CONSTANTS Programs, BootMem, PowerOn

ASSUME ProgramAssumption ==
    /\ Programs \subseteq Program
    /\ BootMem \in [Word -> Word]
    /\ PowerOn \subseteq Word

VARIABLES
    prog, pc, gpr, fpr, cp0, hilo, mem,
    icrf, rfex, exdc, dcwb,     \* icrf_latch_ .. dcwb_latch_
    ldi,                        \* ldi_: the load interlock
    stage, fill,                \* control point of the emulation thread
    halted                      \* a stage threw; only Reset runs again

program == <<prog, halted, fill>>
regs    == <<gpr, fpr, cp0, hilo>>
latches == <<icrf, rfex, exdc, dcwb, ldi>>
vars    == <<prog, pc, gpr, fpr, cp0, hilo, mem, icrf, rfex, exdc, dcwb,
             ldi, stage, fill, halted>>

EmptyICRF == [instr |-> Nop, addr |-> 0, live |-> FALSE]
EmptyRFEX == [instr |-> Nop, rs |-> 0, rt |-> 0, addr |-> 0, live |-> FALSE]
EmptyEXDC == [write |-> "NONE", f |-> FullWord, dest |-> 0, loc |-> 0,
              data |-> 0, sext |-> FALSE, branch |-> FALSE]
EmptyDCWB == [write |-> "NONE", f |-> FullWord, loc |-> 0, data |-> 0]

-----------------------------------------------------------------------------
(* Order of the stage calls.                                               *)

StartOf(g) == CASE g = 0 -> "IC" [] g = 1 -> "RF" [] g = 2 -> "EX"
                [] g = 3 -> "DC" [] g = 4 -> "WB"

(* The address of a memory instruction in EX.                              *)
I == rfex.instr
Addr == Plus(rfex.rs, I.imm)

(* A stage throws on ERROR and on an address that nothing is mapped to.    *)
Throws ==
    CASE stage = "WB" -> dcwb.write = "MMU" /\ dcwb.loc \in Unmapped
      [] stage = "DC" -> exdc.write = "LATEREGISTER" /\ exdc.loc \in Unmapped
      [] stage = "EX" -> \/ I.op = "ERROR"
                         \/ I.op \in ExMemOps /\ Addr \in Unmapped
      [] stage = "RF" -> FALSE
      [] stage = "IC" -> pc \in Unmapped

Runs(s) == ~halted /\ stage = s /\ ~Throws

-----------------------------------------------------------------------------
(* Operators whose names start with Bad are not part of the model: each is *)
(* the definition after it with a mistake that the code could have had,    *)
(* kept to see that a property finds it.                                   *)

(* CPU::Reset between two cycles or after a throw.  The latches and the    *)
(* registers are cleared, the memory and hi_/lo_ are not.                  *)
Reset ==
    /\ halted \/ (stage = "WB" /\ fill = 4)
    /\ pc' = ResetPc
    /\ gpr' = [r \in Reg |-> 0]
    /\ fpr' = [r \in Reg |-> 0]
    /\ cp0' = [r \in Reg |-> 0]
    /\ ldi' = FALSE
    /\ icrf' = EmptyICRF
    /\ rfex' = EmptyRFEX
    /\ exdc' = EmptyEXDC
    /\ dcwb' = EmptyDCWB
    /\ fill' = 0
    /\ stage' = StartOf(0)
    /\ halted' = FALSE
    /\ UNCHANGED <<prog, hilo, mem>>

Init ==
    /\ prog \in Programs
    /\ pc = ResetPc
    /\ gpr = [r \in Reg |-> 0]
    /\ fpr = [r \in Reg |-> 0]
    /\ cp0 = [r \in Reg |-> 0]
    /\ hilo \in PowerOn
    /\ mem = BootMem
    /\ icrf = EmptyICRF /\ rfex = EmptyRFEX
    /\ exdc = EmptyEXDC /\ dcwb = EmptyDCWB
    /\ ldi = FALSE
    /\ fill = 0 /\ stage = StartOf(0)
    /\ halted = FALSE

-----------------------------------------------------------------------------
IC ==
    /\ Runs("IC")
    /\ icrf' = [instr |-> prog[pc], addr |-> pc, live |-> TRUE]
    /\ pc' = Inc(pc)
    /\ fill' = IF fill < 4 THEN fill + 1 ELSE 4
    /\ stage' = StartOf(fill')
    /\ UNCHANGED <<prog, halted, regs, mem, rfex, exdc, dcwb, ldi>>

(* update_pipeline clears r0 in front of this call, fill_pipeline does not. *)
RF ==
    /\ Runs("RF")
    /\ gpr' = IF fill = 4 THEN [gpr EXCEPT ![0] = 0] ELSE gpr
    /\ rfex' = [instr |-> icrf.instr,
                rs |-> gpr'[icrf.instr.rs], rt |-> gpr'[icrf.instr.rt],
                addr |-> icrf.addr, live |-> icrf.live]
    /\ stage' = "IC"
    /\ UNCHANGED <<program, pc, fpr, cp0, hilo, mem, icrf, exdc, dcwb, ldi>>

(* The interlock is never released. *)
BadDC ==
    /\ Runs("DC")
    /\ dcwb' = IF exdc.write = "LATEREGISTER" THEN EmptyDCWB
               ELSE [write |-> exdc.write, f |-> exdc.f, loc |-> exdc.loc,
                     data |-> exdc.data]
    /\ gpr' = IF exdc.write = "LATEREGISTER"
              THEN [gpr EXCEPT ![exdc.dest] = Narrow(exdc.f, mem[exdc.loc])]
              ELSE gpr
    /\ exdc' = [exdc EXCEPT !.sext = FALSE]
    /\ stage' = "EX"
    /\ UNCHANGED <<program, pc, fpr, cp0, hilo, mem, icrf, rfex, ldi>>

(* A finished load is passed on to WB. *)
BadDCWrite ==
    /\ Runs("DC")
    /\ dcwb' = [write |-> exdc.write, f |-> exdc.f, loc |-> exdc.loc,
                data |-> exdc.data]
    /\ gpr' = IF exdc.write = "LATEREGISTER"
              THEN [gpr EXCEPT ![exdc.dest] = Narrow(exdc.f, mem[exdc.loc])]
              ELSE gpr
    /\ ldi' = FALSE
    /\ stage' = "EX"
    /\ UNCHANGED <<program, pc, fpr, cp0, hilo, mem, icrf, rfex, exdc>>

(* Loads finish here and write their register before RF of the same cycle. *)
DC ==
    /\ Runs("DC")
    /\ IF exdc.write = "LATEREGISTER"
       THEN /\ gpr' = [gpr EXCEPT ![exdc.dest] =
                          IF exdc.sext THEN SignExtend(exdc.f, mem[exdc.loc])
                                       ELSE Narrow(exdc.f, mem[exdc.loc])]
            /\ dcwb' = EmptyDCWB
            /\ exdc' = [exdc EXCEPT !.sext = FALSE]
            /\ ldi' = FALSE
       ELSE /\ dcwb' = [write |-> exdc.write, f |-> exdc.f, loc |-> exdc.loc,
                        data |-> exdc.data]
            /\ UNCHANGED <<gpr, exdc, ldi>>
    /\ stage' = "EX"
    /\ UNCHANGED <<program, pc, fpr, cp0, hilo, mem, icrf, rfex>>

(* A store writes the whole cell, whatever its access type. *)
BadWB ==
    /\ Runs("WB")
    /\ mem' = IF dcwb.write = "MMU" THEN [mem EXCEPT ![dcwb.loc] = dcwb.data]
              ELSE mem
    /\ stage' = "DC"
    /\ UNCHANGED <<program, pc, regs, latches>>

(* LATEREGISTER never gets this far: DC has replaced it by NONE.           *)
WB ==
    /\ Runs("WB")
    /\ mem' = IF dcwb.write = "MMU"
              THEN [mem EXCEPT ![dcwb.loc] = Merge(dcwb.f, @, dcwb.data)]
              ELSE mem
    /\ stage' = "DC"
    /\ UNCHANGED <<program, pc, regs, latches>>

(* Thrown out of update(): the emulation loop stops.  What the stage had   *)
(* written to the latches by then is gone with the next Reset.             *)
Throw ==
    /\ ~halted /\ Throws
    /\ halted' = TRUE
    /\ UNCHANGED <<prog, pc, regs, mem, latches, stage, fill>>

-----------------------------------------------------------------------------
(* EX.  It first invalidates the EX/DC latch and then calls the handler of *)
(* the instruction.  Fields that nothing reads while write is NONE are     *)
(* reset here too.                                                         *)

Executes(ops) == Runs("EX") /\ I.op \in ops

Idle(b) == exdc' = [EmptyEXDC EXCEPT !.sext = exdc.sext, !.branch = b]

(* update_pipeline skips RF and IC while the interlock is on.              *)
EndEX(stall) == stage' = IF fill = 4 /\ stall THEN "WB" ELSE "RF"

(* RTYPE, ITYPE, MFHI/MFLO, MFC0: bypass_register writes in this stage.    *)
ExCompute ==
    /\ Executes(ComputeOps)
    /\ gpr' = [gpr EXCEPT ![Dest(I)] = Result(I, rfex.rs, rfex.rt, hilo, cp0)]
    /\ Idle(FALSE) /\ EndEX(ldi)
    /\ UNCHANGED <<program, pc, fpr, cp0, hilo, mem, icrf, rfex, dcwb, ldi>>

(* detect_ldi compares with rs only. *)
BadExLoad ==
    /\ Executes(LoadOps)
    /\ exdc' = [EmptyEXDC EXCEPT !.write = "LATEREGISTER", !.f = I.f,
                    !.dest = I.rt, !.loc = Addr,
                    !.sext = exdc.sext \/ I.op = "LOADS"]
    /\ ldi' = (I.rt = icrf.instr.rs)
    /\ rfex' = [rfex EXCEPT !.instr = Nop, !.live = FALSE]
    /\ EndEX(ldi')
    /\ UNCHANGED <<program, pc, regs, mem, icrf, dcwb>>

(* LBU LHU LWU LD, LB LH LW: detect_ldi compares the target with the       *)
(* instruction behind and turns the load into a bubble.                    *)
ExLoad ==
    /\ Executes(LoadOps)
    /\ exdc' = [EmptyEXDC EXCEPT !.write = "LATEREGISTER", !.f = I.f,
                    !.dest = I.rt, !.loc = Addr,
                    !.sext = exdc.sext \/ I.op = "LOADS"]
    /\ ldi' = (I.rt \in {icrf.instr.rs, icrf.instr.rt})
    /\ rfex' = [rfex EXCEPT !.instr = Nop, !.live = FALSE]
    /\ EndEX(ldi')
    /\ UNCHANGED <<program, pc, regs, mem, icrf, dcwb>>

(* SB SH SW SD.                                                            *)
ExStore ==
    /\ Executes({"STORE"})
    /\ exdc' = [EmptyEXDC EXCEPT !.write = "MMU", !.f = I.f, !.loc = Addr,
                    !.data = rfex.rt, !.sext = exdc.sext]
    /\ EndEX(ldi)
    /\ UNCHANGED <<program, pc, regs, mem, icrf, rfex, dcwb, ldi>>

(* The bytes of the register without those of the memory. *)
BadExStorePart ==
    /\ Executes({"SDL"})
    /\ exdc' = [EmptyEXDC EXCEPT !.write = "MMU", !.loc = Addr, !.data = rfex.rt]
    /\ EndEX(ldi)
    /\ UNCHANGED <<program, pc, regs, mem, icrf, rfex, dcwb, ldi>>

(* SWL SWR SDL SDR: read the word now, write it back whole in WB.          *)
ExStorePart ==
    /\ Executes({"SDL"})
    /\ exdc' = [EmptyEXDC EXCEPT !.write = "MMU", !.loc = Addr,
                    !.data = Merge(I.f, mem[Addr], rfex.rt)]
    /\ EndEX(ldi)
    /\ UNCHANGED <<program, pc, regs, mem, icrf, rfex, dcwb, ldi>>

(* LWL LWR: memory, the old register and the new one, all in EX.           *)
ExLoadPart ==
    /\ Executes({"LWL"})
    /\ gpr' = [gpr EXCEPT ![I.rt] = Merge(I.f, @, mem[Addr])]
    /\ exdc' = EmptyEXDC
    /\ EndEX(ldi)
    /\ UNCHANGED <<program, pc, fpr, cp0, hilo, mem, icrf, rfex, dcwb, ldi>>

ExLoadFloat ==
    /\ Executes({"LDC1"})
    /\ fpr' = [fpr EXCEPT ![I.rt] = mem[Addr]]
    /\ exdc' = EmptyEXDC
    /\ EndEX(ldi)
    /\ UNCHANGED <<program, pc, gpr, cp0, hilo, mem, icrf, rfex, dcwb, ldi>>

(* SDC1 calls store_memory itself instead of leaving the store to WB.      *)
ExStoreFloat ==
    /\ Executes({"SDC1"})
    /\ mem' = [mem EXCEPT ![Addr] = fpr[I.rt]]
    /\ Idle(FALSE) /\ EndEX(ldi)
    /\ UNCHANGED <<program, pc, regs, icrf, rfex, dcwb, ldi>>

Target ==
    CASE I.op \in {"J", "JAL"} -> I.imm
      [] I.op \in {"JR", "JALR"} -> rfex.rs
      [] OTHER -> Plus(Dec(pc), I.imm)

(* The slot is left in the latch. *)
BadSquash == UNCHANGED icrf

Squash == icrf' = [icrf EXCEPT !.instr = Nop, !.live = FALSE]

(* Branches and jumps write pc_ here; the delay slot is already in IC/RF,  *)
(* where a likely branch that is not taken turns it into a bubble.         *)
ExBranch ==
    /\ Executes(BranchOps)
    /\ gpr' = IF I.op \in LinkOps THEN [gpr EXCEPT ![Dest(I)] = pc] ELSE gpr
    /\ \/ Taken(I, rfex.rs, rfex.rt) /\ pc' = Target /\ UNCHANGED icrf
       \/ ~Taken(I, rfex.rs, rfex.rt) /\ I.op \notin LikelyOps
            /\ UNCHANGED <<pc, icrf>>
       \/ ~Taken(I, rfex.rs, rfex.rt) /\ I.op \in LikelyOps
            /\ Squash /\ UNCHANGED pc
    /\ Idle(TRUE) /\ EndEX(ldi)
    /\ UNCHANGED <<program, fpr, cp0, hilo, mem, rfex, dcwb, ldi>>

(* MULT MULTU DIV DIVU MTHI MTLO.                                          *)
ExMultiply ==
    /\ Executes({"MULT"})
    /\ hilo' = Alu(I.f, rfex.rs, rfex.rt)
    /\ Idle(FALSE) /\ EndEX(ldi)
    /\ UNCHANGED <<program, pc, gpr, fpr, cp0, mem, icrf, rfex, dcwb, ldi>>

(* MTC0 reads its register again instead of the value RF fetched.          *)
ExMoveToCp0 ==
    /\ Executes({"MTC0"})
    /\ cp0' = [cp0 EXCEPT ![I.rd] = SignExtend(I.f, gpr[I.rt])]
    /\ Idle(FALSE) /\ EndEX(ldi)
    /\ UNCHANGED <<program, pc, gpr, fpr, hilo, mem, icrf, rfex, dcwb, ldi>>

ExFloat ==
    /\ Executes({"FOP"})
    /\ fpr' = [fpr EXCEPT ![I.rd] = Alu(I.f, fpr[I.rs], fpr[I.rt])]
    /\ Idle(FALSE) /\ EndEX(ldi)
    /\ UNCHANGED <<program, pc, gpr, cp0, hilo, mem, icrf, rfex, dcwb, ldi>>

(* CACHE, LWC1, SWC1 and the other handlers with an empty body.            *)
ExNothing ==
    /\ Executes({"CACHE"})
    /\ Idle(FALSE) /\ EndEX(ldi)
    /\ UNCHANGED <<program, pc, regs, mem, icrf, rfex, dcwb, ldi>>

(* ERET with a delay slot. *)
BadExERET ==
    /\ Executes({"ERET"})
    /\ pc' = cp0[EpcReg]
    /\ cp0' = [cp0 EXCEPT ![StatusReg] = ClearEXL(@)]
    /\ Idle(FALSE) /\ EndEX(ldi)
    /\ UNCHANGED <<program, gpr, fpr, hilo, mem, icrf, rfex, dcwb, ldi>>

(* The error-level branch of ERET tests (x & 0b10) == 1 and never runs.    *)
ExERET ==
    /\ Executes({"ERET"})
    /\ pc' = cp0[EpcReg]
    /\ cp0' = [cp0 EXCEPT ![StatusReg] = ClearEXL(@)]
    /\ Squash
    /\ Idle(FALSE) /\ EndEX(ldi)
    /\ UNCHANGED <<program, gpr, fpr, hilo, mem, rfex, dcwb, ldi>>

EX ==
    \/ ExCompute \/ ExLoad \/ ExStore \/ ExStorePart \/ ExLoadPart
    \/ ExLoadFloat \/ ExStoreFloat \/ ExBranch \/ ExMultiply \/ ExMoveToCp0
    \/ ExFloat \/ ExNothing \/ ExERET

Step == WB \/ DC \/ EX \/ RF \/ IC \/ Throw
Next == Step \/ Reset

Spec == Init /\ [][Next]_vars

(* The emulation loop keeps calling update; nobody has to press reset.     *)
FairSpec == Spec /\ WF_vars(Step)
-----------------------------------------------------------------------------
(* Every variable keeps its shape: the latches hold instructions, register *)
(* numbers, words and write types of the code, whatever stage runs next.   *)
ICRF == [instr: Instr, addr: Word, live: BOOLEAN]
RFEX == [instr: Instr, rs: Word, rt: Word, addr: Word, live: BOOLEAN]
EXDC == [write: {"NONE", "LATEREGISTER", "MMU"}, f: Func, dest: Reg,
         loc: Word, data: Word, sext: BOOLEAN, branch: BOOLEAN]
DCWB == [write: {"NONE", "MMU"}, f: Func, loc: Word, data: Word]

TypeOK ==
    /\ prog \in Programs
    /\ pc \in Word
    /\ gpr \in [Reg -> Word] /\ fpr \in [Reg -> Word] /\ cp0 \in [Reg -> Word]
    /\ hilo \in Word
    /\ mem \in [Word -> Word]
    /\ icrf \in ICRF /\ rfex \in RFEX /\ exdc \in EXDC /\ dcwb \in DCWB
    /\ ldi \in BOOLEAN /\ halted \in BOOLEAN
    /\ stage \in {"WB", "DC", "EX", "RF", "IC"}
    /\ fill \in 0 .. 4

(* The register file as the instruction set shows it: r0 reads as zero.    *)
View(r) == IF r = 0 THEN 0 ELSE gpr[r]

(* Data hazards: an instruction of the program never executes with an      *)
(* operand that RF fetched too early.  What the instruction before it      *)
(* wrote (an ALU result in EX, a load in DC after at most one cycle of     *)
(* interlock) is in the latch when EX uses it (bypass_register, detect_ldi *)
(* and the order of the calls in update_pipeline).                         *)
OperandsFresh ==
    stage = "EX" /\ rfex.live =>
        /\ rfex.rs = View(I.rs)
        /\ rfex.rt = View(I.rt)

(* "By the time this instruction is executed, pc is already incremented by *)
(* 8": every branch executes exactly two fetches after its own, interlock  *)
(* and squashed slots included, or its target and link would be wrong.     *)
PcTwoAhead ==
    stage = "EX" /\ rfex.live /\ I.op \in BranchOps =>
        pc = Inc(Inc(rfex.addr))

(* "Insert NOP so next EX doesn't re-execute the load": the interlock      *)
(* never keeps the pipeline from the next instruction.  Unless a stage     *)
(* throws, an instruction of the program executes again and again.         *)
Progress == []<>(halted \/ (stage = "EX" /\ rfex.live))
-----------------------------------------------------------------------------
(* Inductive invariants behind OperandsFresh and PcTwoAhead.               *)

AllBootSafe == \A p \in Programs : BootSafe(p)
AllLegal    == \A p \in Programs : LegalProgram(p)

(* A load that EX has issued and DC has not finished.                      *)
LoadPending == exdc.write = "LATEREGISTER" /\ stage # "EX"

(* fill_pipeline calls the stages of a group in this order, and while it   *)
(* runs no load is issued and r0 stays zero.                               *)
SafeAtBoot(i) ==
    i.op \notin LoadOps /\ (WritesGpr(i) /\ Dest(i) = 0 => i = Nop)

BootInv ==
    /\ fill = 0 => stage = "IC" /\ pc = ResetPc
    /\ fill = 1 => /\ pc = Inc(ResetPc)
                   /\ \/ stage = "RF" /\ SafeAtBoot(icrf.instr)
                      \/ stage = "IC" /\ SafeAtBoot(rfex.instr)
    /\ fill = 2 => \/ /\ stage = "EX"
                      /\ SafeAtBoot(rfex.instr) /\ SafeAtBoot(icrf.instr)
                   \/ stage = "RF" /\ SafeAtBoot(icrf.instr)
                   \/ stage = "IC" /\ SafeAtBoot(rfex.instr)
    /\ fill = 3 => \/ stage \in {"DC", "EX"} /\ SafeAtBoot(rfex.instr)
                   \/ stage \in {"RF", "IC"}
    /\ fill < 4 => exdc.write # "LATEREGISTER" /\ gpr[0] = 0

(* The interlock is on only from EX to the DC that finishes the load, with *)
(* a bubble in front of EX.  Behind a pending load there is no reader.     *)
InterlockInv ==
    /\ ldi => /\ stage \in {"WB", "DC"}
              /\ exdc.write = "LATEREGISTER"
              /\ ~rfex.live
    /\ LoadPending /\ stage = "RF" =>
          exdc.dest \notin {icrf.instr.rs, icrf.instr.rt}
    /\ LoadPending /\ stage # "RF" /\ rfex.live =>
          exdc.dest \notin {rfex.instr.rs, rfex.instr.rt}

FreshInv ==
    /\ stage # "RF" /\ rfex.live => /\ rfex.rs = View(rfex.instr.rs)
                                    /\ rfex.rt = View(rfex.instr.rt)
    /\ ~rfex.live => rfex.instr = Nop
    /\ ~icrf.live => icrf.instr = Nop
    /\ fill < 4 /\ ~rfex.live => rfex.rs = 0 /\ rfex.rt = 0

(* Where the instructions in the latches come from.                        *)
FetchInv ==
    /\ icrf.live => icrf.instr = prog[icrf.addr]
    /\ rfex.live => rfex.instr = prog[rfex.addr]
    /\ ~icrf.live => icrf.instr = Nop
    /\ ~rfex.live => rfex.instr = Nop
    /\ stage # "IC" /\ icrf.live /\ icrf.instr.op \in BranchOps =>
          pc = Inc(icrf.addr)
    /\ stage = "IC" /\ rfex.live /\ rfex.instr.op \in BranchOps =>
          pc = Inc(rfex.addr)
    /\ stage \in {"WB", "DC", "EX"} /\ rfex.live
          /\ rfex.instr.op \in BranchOps =>
          /\ pc = Inc(Inc(rfex.addr))
          /\ icrf.live => icrf.addr = Inc(rfex.addr)
=============================================================================
