--------------------------------- MODULE Alu ---------------------------------
(***************************************************************************)
(* What the instruction handlers of src/core/n64_cpu.cxx compute: the      *)
(* casts between 64 and 32 bits, signed and unsigned, that modules Mips    *)
(* and Pipeline leave to the constant operators Alu and Test.              *)
(*                                                                         *)
(* The widths are parameters.  A register is a pattern of 2 * WordBits     *)
(* bits, that is a number below Double; its low half is the union member   *)
(* UW._0; an immediate has ImmBits bits.  In the code they are 64, 32 and  *)
(* 16.  `s' and `t' are the registers that RF fetches for rs and rt.       *)
(***************************************************************************)
EXTENDS Integers

CONSTANTS
    WordBits, ImmBits,
    Operands,       \* words that the registers hold at first
    Immediates,     \* immediates and jump targets that programs use
    Amounts,        \* shift amounts that programs use
    Places,         \* values of pc_ at first
    MaxSteps        \* bound: instructions that are executed

\* The powers of two that a width or a shift can ask for
Pow[n \in 0 .. 2 * WordBits] == IF n = 0 THEN 1 ELSE 2 * Pow[n - 1]

Word == Pow[WordBits]
Double == Pow[2 * WordBits]
Half == Pow[ImmBits]

\* An immediate is half a word, and the width of a word is a power of two, so that
\* an amount modulo the width is its lowest bits
ASSUME WidthAssumption ==
    /\ {WordBits, ImmBits, MaxSteps} \subseteq Nat
    /\ 2 < ImmBits /\ WordBits = 2 * ImmBits
    /\ \E n \in 0 .. WordBits : WordBits = Pow[n]
    /\ Immediates \subseteq 0 .. Half - 1
    /\ Amounts \subseteq 0 .. WordBits - 1
    /\ Operands \subseteq 0 .. Word - 1
    /\ Places \subseteq 0 .. Word - 1

\* UW._0, and the number that a pattern below n stands for in two's complement
Low(x) == x % Word
Signed(x, n) == IF x < n \div 2 THEN x ELSE x - n

\* static_cast<int64_t>(static_cast<int32_t>(x)), and the int16_t of an immediate
Extend(x) == Signed(Low(x), Word) % Double
Imm(i) == Signed(i, Half)
Flag(b) == IF b THEN 1 ELSE 0

\* The bits of a number, and the number below Double that has the bits b
Bit(x, k) == (x \div Pow[k]) % 2
Positions == 0 .. (2 * WordBits) - 1
FromBits(b) ==
    LET sum[k \in 0 .. 2 * WordBits] ==
            IF k = 0 THEN 0 ELSE sum[k - 1] + b[k - 1] * Pow[k - 1]
    IN  sum[2 * WordBits]

-----------------------------------------------------------------------------
(* Handlers that write one register.                                       *)

ADDU(s, t) == Extend(Low(s) + Low(t))       \* overflow is ignored: SKIPEXCEPTIONS
SUBU(s, t) == Extend(Low(s) - Low(t))
ADDIU(s, i) == Extend(Low(s) + Imm(i))
DADDIU(s, i) == (s + Imm(i)) % Double
LUI(i) == Extend(i * Half)

SLL(t, a) == Extend(Low(t) * Pow[a])
BadSRL(t, a) == Low(t) \div Pow[a]
SRL(t, a) == Extend(Low(t) \div Pow[a])
SRA(t, a) == Extend(Signed(t, Double) \div Pow[a])   \* shifts all 64 bits, then cuts
SRAV(s, t) == SRA(t, s % WordBits)
DSLL(t, a) == (t * Pow[a]) % Double
DSLLV(s, t) == DSLL(t, s % (2 * WordBits))
DSRA32(t, a) == (Signed(t, Double) \div Pow[a + WordBits]) % Double

SLT(s, t) == Flag(Signed(s, Double) < Signed(t, Double))
SLTU(s, t) == Flag(s < t)
SLTI(s, i) == Flag(Signed(s, Double) < Imm(i))
BadSLTIU(s, i) == Flag(s < i)
SLTIU(s, i) == Flag(s < Imm(i) % Double)

AND(s, t) == FromBits([k \in Positions |-> Bit(s, k) * Bit(t, k)])
OR(s, t) ==
    FromBits([k \in Positions |-> Bit(s, k) + Bit(t, k) - Bit(s, k) * Bit(t, k)])
XOR(s, t) == FromBits([k \in Positions |-> (Bit(s, k) + Bit(t, k)) % 2])
NOR(s, t) == Double - 1 - OR(s, t)

Value(ins, s, t, hi, lo) ==
    CASE ins.op = "ADDU" -> ADDU(s, t)          [] ins.op = "SUBU" -> SUBU(s, t)
      [] ins.op = "SLT" -> SLT(s, t)            [] ins.op = "SLTU" -> SLTU(s, t)
      [] ins.op = "AND" -> AND(s, t)            [] ins.op = "OR" -> OR(s, t)
      [] ins.op = "XOR" -> XOR(s, t)            [] ins.op = "NOR" -> NOR(s, t)
      [] ins.op = "SRAV" -> SRAV(s, t)          [] ins.op = "DSLLV" -> DSLLV(s, t)
      [] ins.op = "SLL" -> SLL(t, ins.i)        [] ins.op = "SRL" -> SRL(t, ins.i)
      [] ins.op = "SRA" -> SRA(t, ins.i)        [] ins.op = "DSLL" -> DSLL(t, ins.i)
      [] ins.op = "DSLL32" -> DSLL(t, ins.i + WordBits)
      [] ins.op = "DSRA32" -> DSRA32(t, ins.i)
      [] ins.op = "ADDIU" -> ADDIU(s, ins.i)    [] ins.op = "DADDIU" -> DADDIU(s, ins.i)
      [] ins.op = "SLTI" -> SLTI(s, ins.i)      [] ins.op = "SLTIU" -> SLTIU(s, ins.i)
      [] ins.op = "ANDI" -> AND(s, ins.i)       [] ins.op = "ORI" -> OR(s, ins.i)
      [] ins.op = "XORI" -> XOR(s, ins.i)       [] ins.op = "LUI" -> LUI(ins.i)
      [] ins.op = "MFHI" -> hi                  [] ins.op = "MFLO" -> lo

\* SLLV and SRLV keep six bits of the amount and shift 32: from 32 on C++ leaves
\* it undefined, and x86 code takes the amount modulo 32 or shifts everything out
Shifted(op, t, a) == IF op = "SLLV" THEN SLL(t, a) ELSE SRL(t, a)
VariableShifts(op, s, t) ==
    LET a == s % (2 * WordBits)
    IN  IF a < WordBits THEN {Shifted(op, t, a)}
        ELSE {Shifted(op, t, a - WordBits), 0}

-----------------------------------------------------------------------------
(* Handlers that write hi_ and lo_.                                        *)

Product(x, y) == [hi |-> Extend((x * y) \div Word), lo |-> Extend(x * y)]
MULT(s, t) == Product(Signed(Low(s), Word), Signed(Low(t), Word))
BadMULTU(s, t) == MULT(s, t)
MULTU(s, t) == Product(Low(s), Low(t))

\* the division of C++, which rounds to zero
Abs(x) == IF x < 0 THEN -x ELSE x
Quotient(x, y) ==
    IF (x < 0) <=> (y < 0) THEN Abs(x) \div Abs(y) ELSE -(Abs(x) \div Abs(y))
Divided(x, y) ==
    [hi |-> Extend(x - y * Quotient(x, y)), lo |-> Extend(Quotient(x, y))]

\* The type of -1 + 2 * (UW._0 >> 31) is uint32_t: a zero divisor leaves 0xFFFFFFFF
\* in lo_ without its sign extension.  The least word divided by -1 is that word,
\* the case that the code treats apart.
DIV(s, t) ==
    IF Low(t) = 0 THEN [hi |-> s, lo |-> IF Low(s) < Word \div 2 THEN Word - 1 ELSE 1]
    ELSE Divided(Signed(Low(s), Word), Signed(Low(t), Word))

DIVU(s, t) ==
    IF Low(t) = 0 THEN [hi |-> s, lo |-> Double - 1]
    ELSE Divided(Low(s), Low(t))

HiLo(op, s, t) ==
    CASE op = "MULT" -> MULT(s, t)  [] op = "MULTU" -> MULTU(s, t)
      [] op = "DIV" -> DIV(s, t)    [] op = "DIVU" -> DIVU(s, t)

-----------------------------------------------------------------------------
(* Branches, traps and jumps.                                              *)

\* BGEZ and BGEZL look at W._0, BLEZ, BGTZ and BGEZAL at D
BadTaken(op, s, t) ==
    CASE op \in {"BEQ", "BNE"} -> (op = "BEQ") = (s = t)
      [] op = "BLEZ" -> s = 0
      [] OTHER -> (op = "BGTZ" /\ s > 0) \/ s < Word \div 2

Taken(op, s, t) ==
    CASE op = "BEQ" -> s = t
      [] op = "BNE" -> s # t
      [] op = "BLEZ" -> Signed(s, Double) <= 0
      [] op = "BGTZ" -> Signed(s, Double) > 0
      [] op = "BGEZAL" -> Signed(s, Double) >= 0
      [] op = "BGEZ" -> Signed(Low(s), Word) >= 0

\* int16_t offset = immediate << 2; pc_ - 4 + offset
BranchTarget(pc, i) == (pc - 4 + Imm((i * 4) % Half)) % Double

\* (pc_ & 0xF0000000) | (target << 2), a region being what 28 bits reach
Region == Word \div 16
JumpTarget(pc, i) == ((Low(pc) \div Region) * Region) + ((i * 4) % Region)

\* TGE compares UD
TGE(s, t) == s >= t

-----------------------------------------------------------------------------
(* The machine: one instruction after another on two registers.            *)

RegisterOps == {"ADDU", "SUBU", "SLT", "SLTU", "AND", "OR", "XOR", "NOR",
                "SRAV", "DSLLV", "MFHI", "MFLO"}
VariableOps == {"SLLV", "SRLV"}
AmountOps == {"SLL", "SRL", "SRA", "DSLL", "DSLL32", "DSRA32"}
ImmediateOps == {"ADDIU", "DADDIU", "SLTI", "SLTIU", "ANDI", "ORI", "XORI", "LUI"}
HiLoOps == {"MULT", "MULTU", "DIV", "DIVU"}
BranchOps == {"BEQ", "BNE", "BLEZ", "BGTZ", "BGEZAL", "BGEZ"}

\* Instructions on 64 bits: what they leave need not be a word
WideOps == {"DADDIU", "DSLL", "DSLL32", "DSLLV", "DSRA32"}

Instrs ==
         [op : RegisterOps \cup VariableOps, d : {"s", "t"}, i : {0}]
    \cup [op : AmountOps, d : {"s", "t"}, i : Amounts]
    \cup [op : ImmediateOps, d : {"s", "t"}, i : Immediates]
    \cup [op : HiLoOps \cup {"MTHI", "MTLO", "TGE"}, d : {"s"}, i : {0}]
    \cup [op : BranchOps \cup {"J"}, d : {"s"}, i : Immediates]

Idle == [op |-> "none", d |-> "s", i |-> 0]

VARIABLES
    reg,    \* gpr_regs_, two of them
    hi, lo, \* hi_, lo_
    pc,     \* pc_
    ins,    \* rfex_latch_.instruction
    trap,   \* s_TGE has thrown
    wide,   \* history: a 64-bit instruction, or DIV of a number >= 0 by zero
    steps   \* instructions so far

vars == <<reg, hi, lo, pc, ins, trap, wide, steps>>

Init ==
    /\ reg \in [{"s", "t"} -> {Extend(x) : x \in Operands}]
    /\ hi = 0 /\ lo = 0
    /\ pc \in {Extend(x) : x \in Places}
    /\ ins = Idle /\ trap = FALSE /\ wide = FALSE /\ steps = 0

RF ==
    /\ ins = Idle
    /\ ~trap
    /\ steps < MaxSteps
    /\ ins' \in Instrs
    /\ steps' = steps + 1
    /\ UNCHANGED <<reg, hi, lo, pc, trap, wide>>

Execute(ops) == ins.op \in ops /\ ins' = Idle /\ steps' = steps

Compute ==
    /\ Execute(RegisterOps \cup AmountOps \cup ImmediateOps)
    /\ reg' = [reg EXCEPT ![ins.d] = Value(ins, reg["s"], reg["t"], hi, lo)]
    /\ wide' = (wide \/ ins.op \in WideOps)
    /\ UNCHANGED <<hi, lo, pc, trap>>

ShiftVariable ==
    /\ Execute(VariableOps)
    /\ \E v \in VariableShifts(ins.op, reg["s"], reg["t"]) :
            reg' = [reg EXCEPT ![ins.d] = v]
    /\ UNCHANGED <<hi, lo, pc, trap, wide>>

MultiplyDivide ==
    /\ Execute(HiLoOps)
    /\ hi' = HiLo(ins.op, reg["s"], reg["t"]).hi
    /\ lo' = HiLo(ins.op, reg["s"], reg["t"]).lo
    /\ wide' = (wide \/ (/\ ins.op = "DIV" /\ Low(reg["t"]) = 0
                         /\ Low(reg["s"]) < Word \div 2))
    /\ UNCHANGED <<reg, pc, trap>>

MTHI ==
    /\ Execute({"MTHI"})
    /\ hi' = reg["s"]
    /\ UNCHANGED <<reg, lo, pc, trap, wide>>

MTLO ==
    /\ Execute({"MTLO"})
    /\ lo' = reg["s"]
    /\ UNCHANGED <<reg, hi, pc, trap, wide>>

Branch ==
    /\ Execute(BranchOps)
    /\ pc' = IF Taken(ins.op, reg["s"], reg["t"]) THEN BranchTarget(pc, ins.i) ELSE pc
    /\ UNCHANGED <<reg, hi, lo, trap, wide>>

J ==
    /\ Execute({"J"})
    /\ pc' = JumpTarget(pc, ins.i)
    /\ UNCHANGED <<reg, hi, lo, trap, wide>>

Trap ==
    /\ Execute({"TGE"})
    /\ trap' = TGE(reg["s"], reg["t"])
    /\ UNCHANGED <<reg, hi, lo, pc, wide>>

EX == Compute \/ ShiftVariable \/ MultiplyDivide \/ MTHI \/ MTLO \/ Branch \/ J \/ Trap

\* The end of what is explored, or a trap, which ends the program
Horizon == ins = Idle /\ (trap \/ steps = MaxSteps) /\ UNCHANGED vars

Next == RF \/ EX \/ Horizon
Spec == Init /\ [][Next]_vars

=============================================================================
