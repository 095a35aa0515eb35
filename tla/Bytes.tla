------------------------------- MODULE Bytes --------------------------------
(***************************************************************************)
(* Bytes, big-endian numbers and byte arrays.  A byte has Base values; a   *)
(* word has four of them and a doubleword eight, as in the program.        *)
(***************************************************************************)
EXTENDS Integers, Sequences

CONSTANT Base

ASSUME BaseAssumption == Base \in Nat \ {0, 1} /\ Base % 2 = 0

Byte == 0 .. Base - 1

(* The widest access has eight bytes.                                      *)
Power[k \in 0 .. 8] == IF k = 0 THEN 1 ELSE Power[k - 1] * Base

(* The n low bytes of a number, most significant first, and back.          *)
ToBytes(v, n) == [i \in 1 .. n |-> (v \div Power[n - i]) % Base]
Number(s) ==
    LET sum[i \in 0 .. Len(s)] == IF i = 0 THEN 0 ELSE sum[i - 1] * Base + s[i]
    IN  sum[Len(s)]

(* Arrays are functions on an interval of addresses.                       *)
Slice(f, from, n) == [i \in 1 .. n |-> f[from + i - 1]]
Overlay(f, from, s) ==
    [a \in DOMAIN f |-> IF a - from + 1 \in DOMAIN s THEN s[a - from + 1]
                                                     ELSE f[a]]
=============================================================================
