------------------------------ MODULE MipsISA -------------------------------
(***************************************************************************)
(* What a program may rely on: the sequential machine that the pipeline of *)
(* src/core/n64_cpu.cxx promises to be.  One step runs one whole           *)
(* instruction.  The delay slot is the classic pair of program counters:   *)
(* `pc' is the instruction that runs next, `npc' the one after it, and a   *)
(* branch replaces only `npc'.                                             *)
(*                                                                         *)
(* Nothing here knows of latches, stages, interlocks or write-back.        *)
(***************************************************************************)
EXTENDS Mips

CONSTANTS
    Programs,           \* the programs that may be loaded
    BootMem,            \* contents of the memory when the program starts
    PowerOn             \* values hi_ and lo_ may hold when the CPU is built

VARIABLES
    prog,               \* the instructions in memory
    pc, npc,
    gpr, fpr, cp0, hilo,
    mem

vars == <<prog, pc, npc, gpr, fpr, cp0, hilo, mem>>

Init ==
    /\ prog \in Programs
    /\ pc = ResetPc
    /\ npc = Inc(ResetPc)
    /\ gpr = [r \in Reg |-> 0]
    /\ fpr = [r \in Reg |-> 0]
    /\ cp0 = [r \in Reg |-> 0]
    /\ hilo \in PowerOn
    /\ mem = BootMem

-----------------------------------------------------------------------------
I == prog[pc]
A == gpr[I.rs]
B == gpr[I.rt]
Addr == Plus(A, I.imm)

(* r0 swallows what is written to it.                                      *)
Set(r, v) == gpr' = IF r = 0 THEN gpr ELSE [gpr EXCEPT ![r] = v]

Advance == pc' = npc /\ npc' = Inc(npc)

Compute ==
    /\ I.op \in ComputeOps
    /\ Set(Dest(I), Result(I, A, B, hilo, cp0))
    /\ Advance
    /\ UNCHANGED <<prog, fpr, cp0, hilo, mem>>

Load ==
    /\ I.op \in LoadOps
    /\ Set(I.rt, IF I.op = "LOADS" THEN SignExtend(I.f, mem[Addr])
                                   ELSE Narrow(I.f, mem[Addr]))
    /\ Advance
    /\ UNCHANGED <<prog, fpr, cp0, hilo, mem>>

LoadPart ==
    /\ I.op = "LWL"
    /\ Set(I.rt, Merge(I.f, B, mem[Addr]))
    /\ Advance
    /\ UNCHANGED <<prog, fpr, cp0, hilo, mem>>

LoadFloat ==
    /\ I.op = "LDC1"
    /\ fpr' = [fpr EXCEPT ![I.rt] = mem[Addr]]
    /\ Advance
    /\ UNCHANGED <<prog, gpr, cp0, hilo, mem>>

Store ==
    /\ I.op \in StoreOps
    /\ mem' = [mem EXCEPT ![Addr] = Merge(I.f, @, B)]
    /\ Advance
    /\ UNCHANGED <<prog, gpr, fpr, cp0, hilo>>

StoreFloat ==
    /\ I.op = "SDC1"
    /\ mem' = [mem EXCEPT ![Addr] = fpr[I.rt]]
    /\ Advance
    /\ UNCHANGED <<prog, gpr, fpr, cp0, hilo>>

Target ==
    CASE I.op \in {"J", "JAL"} -> I.imm
      [] I.op \in {"JR", "JALR"} -> A
      [] OTHER -> Plus(Inc(pc), I.imm)

Branch ==
    /\ I.op \in BranchOps
    /\ IF I.op \in LinkOps THEN Set(Dest(I), Inc(Inc(pc))) ELSE UNCHANGED gpr
    /\ \/ Taken(I, A, B) /\ pc' = npc /\ npc' = Target
       \/ ~Taken(I, A, B) /\ I.op \notin LikelyOps /\ Advance
       \/ ~Taken(I, A, B) /\ I.op \in LikelyOps    \* the slot is skipped
            /\ pc' = Inc(npc) /\ npc' = Inc(Inc(npc))
    /\ UNCHANGED <<prog, fpr, cp0, hilo, mem>>

Multiply ==
    /\ I.op = "MULT"
    /\ hilo' = Alu(I.f, A, B)
    /\ Advance
    /\ UNCHANGED <<prog, gpr, fpr, cp0, mem>>

WriteCp0 ==
    /\ I.op = "MTC0"
    /\ cp0' = [cp0 EXCEPT ![I.rd] = SignExtend(I.f, B)]
    /\ Advance
    /\ UNCHANGED <<prog, gpr, fpr, hilo, mem>>

FloatOp ==
    /\ I.op = "FOP"
    /\ fpr' = [fpr EXCEPT ![I.rd] = Alu(I.f, fpr[I.rs], fpr[I.rt])]
    /\ Advance
    /\ UNCHANGED <<prog, gpr, cp0, hilo, mem>>

Cache ==
    /\ I.op = "CACHE"
    /\ Advance
    /\ UNCHANGED <<prog, gpr, fpr, cp0, hilo, mem>>

ReturnFromException ==
    /\ I.op = "ERET"
    /\ pc' = cp0[EpcReg]
    /\ npc' = Inc(cp0[EpcReg])
    /\ cp0' = [cp0 EXCEPT ![StatusReg] = ClearEXL(@)]
    /\ UNCHANGED <<prog, gpr, fpr, hilo, mem>>

(* A reset clears the registers and keeps the memory and hi_/lo_.  The     *)
(* stores of the last two instructions may have been lost, and hence the   *)
(* memory may differ from that of the running program in two cells.        *)
Reset ==
    /\ pc' = ResetPc
    /\ npc' = Inc(ResetPc)
    /\ gpr' = [r \in Reg |-> 0]
    /\ fpr' = [r \in Reg |-> 0]
    /\ cp0' = [r \in Reg |-> 0]
    /\ \E a, b, v, w \in Word : mem' = [mem EXCEPT ![a] = v, ![b] = w]
    /\ UNCHANGED <<prog, hilo>>

Next ==
    \/ Compute \/ Load \/ LoadPart \/ LoadFloat \/ Store \/ StoreFloat
    \/ Branch \/ Multiply \/ WriteCp0 \/ FloatOp \/ Cache
    \/ ReturnFromException \/ Reset

Spec == Init /\ [][Next]_vars
=============================================================================
