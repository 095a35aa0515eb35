------------------------------ MODULE AluManual ------------------------------
(***************************************************************************)
(* The instructions of module Alu as the manual defines them: on signed    *)
(* integers and on single bits, with none of the casts of the code.  What  *)
(* the manual leaves undefined is not promised: an instruction on words    *)
(* whose operand is no sign-extended word, and a division by zero.         *)
(***************************************************************************)
EXTENDS Alu

Number(x) == Signed(x, Double)
Wrap(z) == Signed(z % Word, Word)
IsWord(x) == x = Extend(x)

-----------------------------------------------------------------------------
(* Registers.  s, t and v are integers; v is what is left in the target.   *)

\* Instructions on words
OnWords(o, s, t, v) ==
    CASE o.op = "ADDU" -> v = Wrap(s + t)
      [] o.op = "SUBU" -> v = Wrap(s - t)
      [] o.op = "ADDIU" -> v = Wrap(s + Imm(o.i))
      [] o.op = "LUI" -> v = Imm(o.i) * Half
      [] o.op = "SLL" -> v = Wrap(t * Pow[o.i])
      [] o.op = "SRA" -> v = t \div Pow[o.i]
      [] o.op = "SRAV" -> v = t \div Pow[s % WordBits]
      [] o.op = "SLLV" -> v = Wrap(t * Pow[s % WordBits])
      [] o.op \in {"SRL", "SRLV"} ->
            LET a == IF o.op = "SRL" THEN o.i ELSE s % WordBits
            IN  /\ v = Wrap(v)
                /\ \A k \in 0 .. WordBits - 1 :
                    Bit(v, k) = IF k + a < WordBits THEN Bit(t, k + a) ELSE 0

\* Instructions on whole registers
OnDoubles(o, s, t, h, l, v) ==
    CASE o.op = "DADDIU" -> (v - s - Imm(o.i)) % Double = 0
      [] o.op = "SLT" -> v = Flag(s < t)
      [] o.op = "SLTI" -> v = Flag(s < Imm(o.i))
      [] o.op = "SLTU" -> v = Flag(s % Double < t % Double)
      [] o.op = "SLTIU" -> v = Flag(s % Double < Imm(o.i) % Double)
      [] o.op = "DSRA32" -> v = t \div Pow[o.i + WordBits]
      [] o.op = "MFHI" -> v = h
      [] o.op = "MFLO" -> v = l
      [] o.op \in {"DSLL", "DSLL32", "DSLLV"} ->
            LET a == CASE o.op = "DSLL" -> o.i
                       [] o.op = "DSLL32" -> o.i + WordBits
                       [] o.op = "DSLLV" -> s % (2 * WordBits)
            IN  \A k \in 0 .. 2 * WordBits - 1 :
                    Bit(v, k) = IF k < a THEN 0 ELSE Bit(t, k - a)
      [] OTHER ->
            \A k \in 0 .. 2 * WordBits - 1 :
                LET x == Bit(s, k)
                    y == IF o.op \in ImmediateOps THEN Bit(o.i, k) ELSE Bit(t, k)
                IN  Bit(v, k) = CASE o.op \in {"AND", "ANDI"} -> x * y
                                  [] o.op \in {"OR", "ORI"} -> x + y - x * y
                                  [] o.op \in {"XOR", "XORI"} -> (x + y) % 2
                                  [] o.op = "NOR" -> 1 - (x + y - x * y)

WordOps == {"ADDU", "SUBU", "ADDIU", "LUI", "SLL", "SRA", "SRAV", "SLLV", "SRL",
            "SRLV"}

\* What s_SLLV and s_SRLV have an undefined result for, other than the manual
Undefined(o, s) == o.op \in VariableOps /\ s % (2 * WordBits) >= WordBits

-----------------------------------------------------------------------------
(* hi and lo, of words: the product, and the division that rounds to zero. *)

OnHiLo(op, s, t, h, l) ==
    LET us == s % Word
        ut == t % Word
    IN  CASE op = "MULT" -> h * Word + (l % Word) = s * t
          [] op = "MULTU" -> (h % Word) * Word + (l % Word) = us * ut
          [] op = "DIVU" -> us = (l % Word) * ut + (h % Word) /\ h % Word < ut
          [] op = "DIV" -> /\ Wrap(l * t + h) = s
                           /\ Abs(h) < Abs(t)
                           /\ h = 0 \/ (h < 0 <=> s < 0)

-----------------------------------------------------------------------------
(* Branches.                                                               *)

ShouldTake(op, s, t) ==
    CASE op = "BEQ" -> s = t
      [] op = "BNE" -> s # t
      [] op = "BLEZ" -> s <= 0
      [] op = "BGTZ" -> s > 0
      [] op \in {"BGEZ", "BGEZAL"} -> s >= 0

\* Offsets that int16_t still holds once they are shifted
Near(i) == Imm(i) \in -(Half \div 8) .. (Half \div 8) - 1

\* The delay slot and the instruction behind it are in one region
SameRegion == Low(pc) \div Region = Low(pc - 4) \div Region

-----------------------------------------------------------------------------
(* Properties.                                                             *)

\* Registers, hi, lo and pc hold patterns of 64 bits (src/core/n64_types.hxx,
\* MemDataUnionDWBase).
TypeOK ==
    /\ reg \in [{"s", "t"} -> 0 .. Double - 1]
    /\ {hi, lo, pc} \subseteq 0 .. Double - 1
    /\ ins \in Instrs \cup {Idle}
    /\ {trap, wide} \subseteq BOOLEAN
    /\ steps \in 0 .. MaxSteps

\* As long as no instruction on 64 bits and no DIV of a number >= 0 by zero
\* has been executed, every register, hi and lo hold a sign-extended word.  SLT,
\* SLTU, SRA, BEQ and BLEZ of the code look at all 64 bits and depend on it; SRL,
\* LUI, MULTU and DIVU go through unsigned words and could lose it.
WordsStayWords == ~wide => \A x \in {reg["s"], reg["t"], hi, lo} : IsWord(x)

\* What the manual says of the target register
RegisterByManual ==
    ins.op \in RegisterOps \cup VariableOps \cup AmountOps \cup ImmediateOps =>
        LET s == Number(reg["s"])
            t == Number(reg["t"])
            v == Number(reg'[ins.d])
        IN  IF ins.op \in WordOps
            THEN IsWord(reg["s"]) /\ IsWord(reg["t"]) /\ ~Undefined(ins, s) =>
                      OnWords(ins, s, t, v)
            ELSE OnDoubles(ins, s, t, Number(hi), Number(lo), v)

\* A handler leaves in its target register what the manual defines: the sum, the
\* comparison, the bits, in spite of the casts from and to int32_t, uint32_t and
\* int16_t.  Amounts of SLLV and SRLV from 32 on are excepted.
RegistersByManual == [][RegisterByManual]_vars

\* What the manual says of hi and lo
ProductByManual ==
    /\ ins.op \in HiLoOps
    /\ IsWord(reg["s"]) /\ IsWord(reg["t"])
    /\ ins.op \in {"DIV", "DIVU"} => reg["t"] # 0
    => OnHiLo(ins.op, Number(reg["s"]), Number(reg["t"]), Number(hi'), Number(lo'))

\* Of words, hi and lo hold the product, or the quotient rounded to zero with a
\* remainder that has the sign of the dividend, the least word divided by -1
\* included.
HiLoByManual == [][ProductByManual]_vars

\* What the manual says of pc and of the trap
BranchByManual ==
    LET s == Number(reg["s"])
        t == Number(reg["t"])
    IN  /\ ins.op \in BranchOps /\ (ins.op = "BGEZ" => IsWord(reg["s"])) =>
             IF ShouldTake(ins.op, s, t)
             THEN Near(ins.i) => (pc' - (pc - 4 + 4 * Imm(ins.i))) % Double = 0
             ELSE pc' = pc
        /\ ins.op = "J" /\ SameRegion =>
             /\ pc' \div Region = Low(pc - 4) \div Region
             /\ (pc' - 4 * ins.i) % Region = 0
        /\ ins.op = "TGE" /\ s >= 0 /\ t >= 0 => (trap' <=> s >= t)

\* A branch is taken on the condition of the manual, to the delay slot plus its
\* offset; a jump stays in the region of its delay slot; TGE traps on s >= t.
\* Excepted is where the code cannot follow: BGEZ of a register that is no word
\* (it looks at W._0), offsets that lose their upper bits in int16_t, a jump whose
\* delay slot ends a region, and TGE of negative numbers (it compares UD).
BranchesByManual == [][BranchByManual]_vars

=============================================================================
