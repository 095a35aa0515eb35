-------------------------------- MODULE Mips --------------------------------
(***************************************************************************)
(* The instruction set that the interpreter of src/core/n64_cpu.cxx runs,  *)
(* as both machines of this project see it: the five-stage pipeline of the *)
(* code (module Pipeline) and the sequential machine it has to look like   *)
(* (module MipsISA).                                                       *)
(*                                                                         *)
(* Data is abstract.  A word is a number below W; an address counts words, *)
(* so the +4 and +8 of the code are +1 and +2 here; the arithmetic, the    *)
(* comparisons and the byte lanes of a memory word are constant operators. *)
(* The instructions of InstructionTable, SpecialTable and RegImmTable are  *)
(* grouped by what their EX handler does to the state: every handler of a  *)
(* group touches the same registers and latches, and differs from the      *)
(* others only by the function `f' it computes.                            *)
(***************************************************************************)
EXTENDS Naturals

CONSTANTS
    W,                  \* number of words: values, code slots, memory cells
    Reg,                \* register numbers; 0 is the hardwired one
    LinkReg,            \* r31
    StatusReg, EpcReg,  \* numbers of CP0_STATUS and CP0_EPC
    ResetPc,            \* where CPU::Reset starts, 0xBFC00000
    Func,               \* functions that instructions of one group compute
    NopFunc,            \* the function of instruction word 0, SLL by 0
    FullWord,           \* the access that covers a whole memory cell
    Alu(_, _, _),       \* Alu(f, a, b): what an arithmetic instruction writes
    Test(_, _, _),      \* Test(f, a, b): whether a branch is taken
    Narrow(_, _),       \* Narrow(f, w): a load of access f, zero extended
    SignExtend(_, _),   \* SignExtend(f, w): the same load, sign extended
    Merge(_, _, _),     \* Merge(f, old, new): new over the bytes f covers
    Unmapped            \* words that redirect_paddress throws for

Word == 0 .. W - 1

ASSUME WordAssumption == W \in Nat \ {0, 1, 2}

ASSUME RegAssumption ==
    /\ 0 \in Reg
    /\ {LinkReg, StatusReg, EpcReg} \subseteq Reg
    /\ LinkReg # 0
    /\ StatusReg # EpcReg

ASSUME PlaceAssumption ==
    /\ ResetPc \in Word
    /\ Unmapped \subseteq Word
    /\ {NopFunc, FullWord} \subseteq Func

ASSUME DataAssumption ==
    \A f \in Func, a, b \in Word :
        /\ Alu(f, a, b) \in Word
        /\ Test(f, a, b) \in BOOLEAN
        /\ Narrow(f, a) \in Word
        /\ SignExtend(f, a) \in Word
        /\ Merge(f, a, b) \in Word
        /\ Merge(FullWord, a, b) = b

ASSUME NopAssumption == Alu(NopFunc, 0, 0) = 0

-----------------------------------------------------------------------------
(* Address arithmetic wraps, as the unsigned 64-bit pc_ of the code does.  *)

Inc(a) == IF a + 1 < W THEN a + 1 ELSE 0
Dec(a) == IF a = 0 THEN W - 1 ELSE a - 1
Plus(a, b) == IF a + b < W THEN a + b ELSE (a + b) - W

(* CP0_STATUS: bit 0 is IE, bit 1 is EXL; ERET clears EXL.                 *)
EXL(status) == (status \div 2) % 2 = 1
ClearEXL(status) == IF EXL(status) THEN status - 2 ELSE status

-----------------------------------------------------------------------------
(* Groups of instructions by the shape of their EX handler.                *)

ComputeOps == {"RTYPE", "ITYPE", "MFHILO", "MFC0"}  \* write a gpr in EX
LoadOps    == {"LOAD", "LOADS"}         \* LBU LHU LWU LD / LB LH LW: gpr in DC
StoreOps   == {"STORE", "SDL"}          \* write memory in WB
ExLoadOps  == {"LWL", "LDC1"}           \* read memory in EX
ExMemOps   == ExLoadOps \cup {"SDL", "SDC1"}  \* touch memory in EX
PlainOps   == {"BEQ", "BGEZAL"}         \* conditional, slot always runs
LikelyOps  == {"BEQL"}                  \* conditional, slot runs if taken
JumpOps    == {"J", "JAL", "JR", "JALR"}
LinkOps    == {"BGEZAL", "JAL", "JALR"}
BranchOps  == PlainOps \cup LikelyOps \cup JumpOps  \* those with a delay slot
ControlOps == BranchOps \cup {"ERET"}
StateOps   == {"MULT", "MTC0", "FOP", "CACHE"}  \* no gpr, memory or pc written

Op == ComputeOps \cup LoadOps \cup StoreOps \cup ExMemOps \cup ControlOps
        \cup StateOps \cup {"ERROR"}

Instr == [op: Op, f: Func, rs: Reg, rt: Reg, rd: Reg, imm: Word]

(* Instruction word 0, which the pipeline uses for a bubble.               *)
Nop == [op |-> "RTYPE", f |-> NopFunc, rs |-> 0, rt |-> 0, rd |-> 0, imm |-> 0]

(* The general register that an instruction writes, LinkReg if it links.   *)
Dest(i) ==
    CASE i.op \in {"RTYPE", "MFHILO"} -> i.rd
      [] i.op \in {"ITYPE", "MFC0", "LWL"} \cup LoadOps -> i.rt
      [] i.op = "JALR" /\ i.rd # 0 -> i.rd
      [] OTHER -> LinkReg
WritesGpr(i) == i.op \in ComputeOps \cup LoadOps \cup LinkOps \cup {"LWL"}

(* What a ComputeOps instruction writes to its destination.                *)
Result(i, a, b, hilo, cp0) ==
    CASE i.op = "RTYPE"  -> Alu(i.f, a, b)
      [] i.op = "ITYPE"  -> Alu(i.f, a, i.imm)
      [] i.op = "MFHILO" -> hilo
      [] i.op = "MFC0"   -> SignExtend(i.f, cp0[i.rd])

Taken(i, a, b) == i.op \in JumpOps \/ Test(i.f, a, b)

-----------------------------------------------------------------------------
(* Programs.  The manual leaves a branch in the delay slot of a branch     *)
(* undefined; no program here has one.                                     *)

Program == [Word -> Instr]

LegalProgram(p) ==
    \A a \in Word : p[a].op \in BranchOps => p[Inc(a)].op \notin ControlOps

(* fill_pipeline runs the first two instructions without the load          *)
(* interlock and without clearing r0.  A boot-safe program does not start  *)
(* with a load or with a write to r0.                                      *)
BootSafe(p) ==
    \A i \in {p[ResetPc], p[Inc(ResetPc)]} :
        /\ i.op \notin LoadOps
        /\ WritesGpr(i) /\ Dest(i) = 0 => i = Nop
=============================================================================
