----------------------------- MODULE BusProofs ------------------------------
(***************************************************************************)
(* Theorems about the bus, for every layout of the address space and every *)
(* program: no load, store, DMA, reset or file leaves the host objects,    *)
(* and a register holds what the host works with.  In front of them, facts *)
(* about bytes for every base.                                             *)
(***************************************************************************)
EXTENDS Unaligned, TLAPS

(***************************************************************************)
(* Bytes.  The recursive functions of module Bytes are chosen by their     *)
(* equations, so a function that satisfies the equations has to be shown   *)
(* to exist: one step at a time, up to the eight bytes of a doubleword.    *)
(***************************************************************************)

IsPower(n, p) ==
    p = [k \in 0 .. n |-> IF k = 0 THEN 1 ELSE p[k - 1] * Base]

LEMMA PowerExtends ==
    ASSUME NEW n \in Nat, NEW p, IsPower(n, p)
    PROVE  \E q : IsPower(n + 1, q)
<1> DEFINE q == [k \in 0 .. n + 1 |-> IF k <= n THEN p[k] ELSE p[n] * Base]
<1>1. \A k \in 0 .. n + 1 : q[k] = IF k = 0 THEN 1 ELSE q[k - 1] * Base
  BY DEF IsPower
<1>2. q = [k \in 0 .. n + 1 |-> q[k]]
  OBVIOUS
<1> HIDE DEF q
<1>3. IsPower(n + 1, q)
  BY <1>1, <1>2 DEF IsPower
<1> QED
  BY <1>3

LEMMA PowerTable == IsPower(8, Power)
<1>0. \E p : IsPower(0, p)
  <2>1. IsPower(0, [k \in 0 .. 0 |-> 1])
    BY DEF IsPower
  <2> QED
    BY <2>1
<1>1. \E p : IsPower(1, p)
  BY <1>0, PowerExtends
<1>2. \E p : IsPower(2, p)
  BY <1>1, PowerExtends
<1>3. \E p : IsPower(3, p)
  BY <1>2, PowerExtends
<1>4. \E p : IsPower(4, p)
  BY <1>3, PowerExtends
<1>5. \E p : IsPower(5, p)
  BY <1>4, PowerExtends
<1>6. \E p : IsPower(6, p)
  BY <1>5, PowerExtends
<1>7. \E p : IsPower(7, p)
  BY <1>6, PowerExtends
<1>8. \E p : IsPower(8, p)
  BY <1>7, PowerExtends
<1> QED
  BY <1>8, Zenon DEF IsPower, Power

(* Every power is the one before it, once more.                            *)
LEMMA Powers ==
    /\ Power[0] = 1
    /\ \A k \in 0 .. 7 : Power[k + 1] = Power[k] * Base
    /\ \A k \in 0 .. 8 : Power[k] \in Nat \ {0}
<1>1. \A k \in 0 .. 8 : Power[k] = IF k = 0 THEN 1 ELSE Power[k - 1] * Base
  BY PowerTable DEF IsPower
<1>2. Power[0] = 1
  BY <1>1
<1>3. \A k \in 0 .. 7 : Power[k + 1] = Power[k] * Base
  BY <1>1
<1>4. ASSUME NEW k \in 0 .. 7, Power[k] \in Nat \ {0}
      PROVE  Power[k + 1] \in Nat \ {0}
  <2>1. \A x \in Nat \ {0} : x * Base \in Nat \ {0}
    BY BaseAssumption
  <2> QED
    BY <1>3, <1>4, <2>1
<1>5. Power[1] \in Nat \ {0}
  BY <1>2, <1>4
<1>6. Power[2] \in Nat \ {0}
  BY <1>4, <1>5
<1>7. Power[3] \in Nat \ {0}
  BY <1>4, <1>6
<1>8. Power[4] \in Nat \ {0}
  BY <1>4, <1>7
<1>9. Power[5] \in Nat \ {0}
  BY <1>4, <1>8
<1>10. Power[6] \in Nat \ {0}
  BY <1>4, <1>9
<1>11. Power[7] \in Nat \ {0}
  BY <1>4, <1>10
<1>12. Power[8] \in Nat \ {0}
  BY <1>4, <1>11
<1>13. \A k \in 0 .. 8 : k \in {0, 1, 2, 3, 4, 5, 6, 7, 8}
  OBVIOUS
<1>14. \A k \in 0 .. 8 : Power[k] \in Nat \ {0}
  BY <1>2, <1>5, <1>6, <1>7, <1>8, <1>9, <1>10, <1>11, <1>12, <1>13
<1> QED
  BY <1>2, <1>3, <1>14

(* The bytes of a number are bytes.                                        *)
LEMMA BytesType ==
    ASSUME NEW v \in Int, NEW n \in 0 .. 8
    PROVE  ToBytes(v, n) \in [1 .. n -> Byte]
<1>1. ASSUME NEW i \in 1 .. n
      PROVE  (v \div Power[n - i]) % Base \in Byte
  <2>1. Power[n - i] \in Nat \ {0}
    BY Powers
  <2>2. v \div Power[n - i] \in Int
    BY <2>1
  <2>3. \A x \in Int : x % Base \in 0 .. Base - 1
    BY BaseAssumption
  <2> QED
    BY <2>2, <2>3 DEF Byte
<1> QED
  BY <1>1 DEF ToBytes

LEMMA OverlayType ==
    ASSUME NEW f, NEW D, f \in [D -> Byte], NEW from,
           NEW s, \A i \in DOMAIN s : s[i] \in Byte
    PROVE  Overlay(f, from, s) \in [D -> Byte]
BY DEF Overlay

-----------------------------------------------------------------------------
(* Numbers.                                                                *)

IsSum(s, n, sum) ==
    sum = [i \in 0 .. n |-> IF i = 0 THEN 0 ELSE sum[i - 1] * Base + s[i]]

LEMMA SumExtends ==
    ASSUME NEW s, NEW n \in Nat, NEW sum, IsSum(s, n, sum)
    PROVE  \E t : IsSum(s, n + 1, t)
<1> DEFINE t == [i \in 0 .. n + 1 |-> IF i <= n THEN sum[i]
                                     ELSE sum[n] * Base + s[n + 1]]
<1>1. \A i \in 0 .. n + 1 : t[i] = IF i = 0 THEN 0 ELSE t[i - 1] * Base + s[i]
  BY DEF IsSum
<1>2. t = [i \in 0 .. n + 1 |-> t[i]]
  OBVIOUS
<1> HIDE DEF t
<1>3. IsSum(s, n + 1, t)
  BY <1>1, <1>2 DEF IsSum
<1> QED
  BY <1>3

LEMMA Sums ==
    ASSUME NEW s, NEW n \in 0 .. 8
    PROVE  \E sum : IsSum(s, n, sum)
<1>0. \E t : IsSum(s, 0, t)
  <2>1. IsSum(s, 0, [i \in 0 .. 0 |-> 0])
    BY DEF IsSum
  <2> QED
    BY <2>1
<1>1. \E t : IsSum(s, 1, t)
  BY <1>0, SumExtends
<1>2. \E t : IsSum(s, 2, t)
  BY <1>1, SumExtends
<1>3. \E t : IsSum(s, 3, t)
  BY <1>2, SumExtends
<1>4. \E t : IsSum(s, 4, t)
  BY <1>3, SumExtends
<1>5. \E t : IsSum(s, 5, t)
  BY <1>4, SumExtends
<1>6. \E t : IsSum(s, 6, t)
  BY <1>5, SumExtends
<1>7. \E t : IsSum(s, 7, t)
  BY <1>6, SumExtends
<1>8. \E t : IsSum(s, 8, t)
  BY <1>7, SumExtends
<1>9. n \in {0, 1, 2, 3, 4, 5, 6, 7, 8}
  OBVIOUS
<1> QED
  BY <1>0, <1>1, <1>2, <1>3, <1>4, <1>5, <1>6, <1>7, <1>8, <1>9

LEMMA NumberIsSum ==
    ASSUME NEW s, Len(s) \in 0 .. 8
    PROVE  \E sum : IsSum(s, Len(s), sum) /\ Number(s) = sum[Len(s)]
<1>1. \E sum : IsSum(s, Len(s), sum)
  BY Sums
<1> DEFINE sum == CHOOSE t : IsSum(s, Len(s), t)
<1>2. IsSum(s, Len(s), sum)
  BY <1>1
<1>3. Number(s) = sum[Len(s)]
  BY Zenon DEF Number, IsSum
<1> QED
  BY <1>2, <1>3

(* The bytes of a word or of a doubleword make a number.                   *)
LEMMA NumberType ==
    ASSUME NEW s, Len(s) \in 0 .. 8, \A i \in 1 .. Len(s) : s[i] \in Nat
    PROVE  Number(s) \in Nat
<1> DEFINE n == Len(s)
<1>1. PICK sum : IsSum(s, n, sum) /\ Number(s) = sum[n]
  BY NumberIsSum
<1>2. \A i \in 0 .. n : sum[i] = IF i = 0 THEN 0 ELSE sum[i - 1] * Base + s[i]
  BY <1>1 DEF IsSum
<1>3. n \in 0 .. 8 /\ \A i \in 1 .. n : s[i] \in Nat
  OBVIOUS
<1> HIDE DEF n
<1>4. ASSUME NEW k \in 0 .. n, k < n, sum[k] \in Nat
      PROVE  sum[k + 1] \in Nat
  <2>1. \A x, y \in Nat : x * Base + y \in Nat
    BY BaseAssumption
  <2>2. sum[k + 1] = sum[k] * Base + s[k + 1] /\ s[k + 1] \in Nat
    BY <1>2, <1>3, <1>4
  <2> QED
    BY <1>4, <2>1, <2>2
<1>5. sum[0] \in Nat
  BY <1>2, <1>3
<1>6. \A k \in 0 .. n : k < n /\ sum[k] \in Nat => sum[k + 1] \in Nat
  BY <1>4
<1>7. \A k \in 0 .. n : sum[k] \in Nat
  <2>1. 1 <= n => sum[1] \in Nat
    BY <1>3, <1>5, <1>6
  <2>2. 2 <= n => sum[2] \in Nat
    BY <1>3, <2>1, <1>6
  <2>3. 3 <= n => sum[3] \in Nat
    BY <1>3, <2>2, <1>6
  <2>4. 4 <= n => sum[4] \in Nat
    BY <1>3, <2>3, <1>6
  <2>5. 5 <= n => sum[5] \in Nat
    BY <1>3, <2>4, <1>6
  <2>6. 6 <= n => sum[6] \in Nat
    BY <1>3, <2>5, <1>6
  <2>7. 7 <= n => sum[7] \in Nat
    BY <1>3, <2>6, <1>6
  <2>8. 8 <= n => sum[8] \in Nat
    BY <1>3, <2>7, <1>6
  <2>9. \A k \in 0 .. n : k \in {0, 1, 2, 3, 4, 5, 6, 7, 8}
    BY <1>3
  <2> QED
    BY <1>5, <2>1, <2>2, <2>3, <2>4, <2>5, <2>6, <2>7, <2>8, <2>9
<1> QED
  BY <1>1, <1>3, <1>7

-----------------------------------------------------------------------------
(* Quotients.                                                              *)

LEMMA QuotientRemainder ==
    ASSUME NEW d \in Nat, NEW m \in Nat \ {0}
    PROVE  /\ d \div m \in Nat /\ d % m \in 0 .. m - 1
           /\ d = m * (d \div m) + (d % m)
OBVIOUS

LEMMA Distributes ==
    ASSUME NEW a \in Int, NEW b \in Int, NEW c \in Int
    PROVE  a * b \in Int /\ a * (b + c) = a * b + a * c /\ a * b = b * a
OBVIOUS

LEMMA Associates ==
    ASSUME NEW a \in Nat, NEW b \in Nat, NEW c \in Nat
    PROVE  a * b \in Nat /\ (a * b) * c = a * (b * c)
OBVIOUS

LEMMA Monotone ==
    ASSUME NEW m \in Nat, NEW a \in Int, NEW b \in Int, a <= b
    PROVE  m * a <= m * b
OBVIOUS

LEMMA QuotientUnique ==
    ASSUME NEW m \in Nat \ {0}, NEW q \in Nat, NEW x \in 0 .. m - 1
    PROVE  (m * q + x) \div m = q /\ (m * q + x) % m = x
<1> DEFINE d == m * q + x
           p == d \div m
           y == d % m
<1>1. d \in Nat /\ m * q \in Nat
  OBVIOUS
<1>2. p \in Nat /\ y \in 0 .. m - 1 /\ m * p + y = m * q + x
  BY <1>1, QuotientRemainder
<1> HIDE DEF p, y
<1>3. ~(p <= q - 1)
  <2> SUFFICES ASSUME p <= q - 1 PROVE FALSE
    OBVIOUS
  <2>1. m * p <= m * (q - 1)
    BY <1>2, Monotone
  <2>2. m * (q - 1) = m * q - m
    OBVIOUS
  <2> QED
    BY <1>2, <2>1, <2>2
<1>4. ~(q <= p - 1)
  <2> SUFFICES ASSUME q <= p - 1 PROVE FALSE
    OBVIOUS
  <2>1. m * q <= m * (p - 1)
    BY <1>2, Monotone
  <2>2. m * (p - 1) = m * p - m
    BY <1>2
  <2> QED
    BY <1>2, <2>1, <2>2
<1>5. p = q
  BY <1>2, <1>3, <1>4
<1> QED
  BY <1>2, <1>5 DEF p, y

(* Dividing twice divides by the product.                                  *)
LEMMA QuotientOfQuotient ==
    ASSUME NEW d \in Nat, NEW p \in Nat \ {0}, NEW b \in Nat \ {0}
    PROVE  (d \div p) \div b = d \div (p * b)
<1> DEFINE x == d \div p
           r == d % p
           y == x \div b
           t == x % b
<1>1. x \in Nat /\ r \in 0 .. p - 1 /\ d = p * x + r
  BY QuotientRemainder
<1> HIDE DEF x, r
<1>2. y \in Nat /\ t \in 0 .. b - 1 /\ x = b * y + t
  BY <1>1, QuotientRemainder
<1> HIDE DEF y, t
<1>3. b * y \in Nat /\ t \in Nat /\ p * t \in Nat /\ p \in Nat
  BY <1>2
<1>4. p * x = p * (b * y) + p * t
  BY <1>2, <1>3, Distributes
<1>5. p * (b * y) = (p * b) * y
  BY <1>2, Associates
<1>6. p * t <= p * (b - 1)
  BY <1>2, Monotone
<1>7. p * (b - 1) = p * b - p
  OBVIOUS
<1>8. p * b \in Nat \ {0}
  OBVIOUS
<1>9. p * t + r \in 0 .. (p * b) - 1
  BY <1>1, <1>3, <1>6, <1>7, <1>8
<1>10. d = (p * b) * y + (p * t + r)
  BY <1>1, <1>3, <1>4, <1>5, <1>8, <1>9
<1>11. d \div (p * b) = y
  BY <1>2, <1>8, <1>9, <1>10, QuotientUnique
<1> QED
  BY <1>11 DEF x, y

(* Induction over the bytes of a doubleword.                               *)
LEMMA UpToEight ==
    ASSUME NEW n \in 0 .. 8, NEW T, 0 \in T,
           \A i \in 0 .. n - 1 : i \in T => i + 1 \in T
    PROVE  \A i \in 0 .. n : i \in T
<1>1. 1 <= n => 1 \in T
  OBVIOUS
<1>2. 2 <= n => 2 \in T
  BY <1>1
<1>3. 3 <= n => 3 \in T
  BY <1>2
<1>4. 4 <= n => 4 \in T
  BY <1>3
<1>5. 5 <= n => 5 \in T
  BY <1>4
<1>6. 6 <= n => 6 \in T
  BY <1>5
<1>7. 7 <= n => 7 \in T
  BY <1>6
<1>8. 8 <= n => 8 \in T
  BY <1>7
<1>9. \A i \in 0 .. n : i \in {0, 1, 2, 3, 4, 5, 6, 7, 8}
  OBVIOUS
<1> QED
  BY <1>1, <1>2, <1>3, <1>4, <1>5, <1>6, <1>7, <1>8, <1>9

(* What Number sums up.                                                    *)
LEMMA NumberSum ==
    ASSUME NEW n \in 0 .. 8, NEW s, Len(s) = n
    PROVE  \E sum : /\ Number(s) = sum[n] /\ sum[0] = 0
                    /\ \A i \in 0 .. n - 1 : sum[i + 1] = sum[i] * Base + s[i + 1]
<1>1. Len(s) \in 0 .. 8
  OBVIOUS
<1>2. PICK sum : IsSum(s, Len(s), sum) /\ Number(s) = sum[Len(s)]
  BY <1>1, NumberIsSum, Zenon
<1>3. \A i \in 0 .. n : sum[i] = IF i = 0 THEN 0 ELSE sum[i - 1] * Base + s[i]
  BY <1>2 DEF IsSum
<1>4. sum[0] = 0
  BY <1>3
<1>5. \A i \in 0 .. n - 1 : sum[i + 1] = sum[i] * Base + s[i + 1]
  BY <1>3
<1> QED
  BY <1>2, <1>4, <1>5

(* Powers multiply as powers do.                                           *)
LEMMA PowerSum ==
    ASSUME NEW j \in 0 .. 8, NEW k \in 0 .. 8 - j
    PROVE  Power[j + k] = Power[j] * Power[k]
<1> DEFINE T == {i \in 0 .. 8 - j : Power[j + i] = Power[j] * Power[i]}
<1>1. \A i \in 0 .. 8 : Power[i] \in Nat \ {0}
  BY Powers
<1>2. 0 \in T
  BY <1>1, Powers
<1>3. ASSUME NEW i \in 0 .. (8 - j) - 1, i \in T
      PROVE  i + 1 \in T
  <2>1. i \in 0 .. 7 /\ j + i \in 0 .. 7 /\ (j + i) + 1 = j + (i + 1)
    OBVIOUS
  <2>2. Power[i + 1] = Power[i] * Base /\ Power[j + (i + 1)] = Power[j + i] * Base
    BY <2>1, Powers
  <2>3. (Power[j] * Power[i]) * Base = Power[j] * (Power[i] * Base)
    BY <1>1, <2>1, Associates, BaseAssumption
  <2>4. Power[j + i] = Power[j] * Power[i]
    BY <1>3
  <2> QED
    BY <2>1, <2>2, <2>3, <2>4
<1>4. 8 - j \in 0 .. 8
  OBVIOUS
<1> HIDE DEF T
<1>5. k \in T
  BY <1>2, <1>3, <1>4, UpToEight
<1> QED
  BY <1>5 DEF T

(* The quotients by the powers, from the number down.                      *)
LEMMA NextQuotient ==
    ASSUME NEW d \in Nat, NEW k \in 0 .. 7
    PROVE  /\ d \div Power[k] \in Nat
           /\ d \div Power[k + 1] = (d \div Power[k]) \div Base
           /\ d \div Power[k] = (d \div Power[k + 1]) * Base
                                   + ((d \div Power[k]) % Base)
<1> DEFINE p == Power[k]
           q == d \div p
<1>1. p \in Nat \ {0} /\ Power[k + 1] = p * Base
  BY Powers
<1> HIDE DEF p
<1>2. q \in Nat
  BY <1>1
<1>3. d \div (p * Base) = q \div Base
  BY <1>1, BaseAssumption, QuotientOfQuotient
<1> HIDE DEF q
<1>4. /\ q = Base * (q \div Base) + (q % Base)
      /\ q \div Base \in Nat
  BY <1>2, BaseAssumption, QuotientRemainder
<1>5. Base * (q \div Base) = (q \div Base) * Base
  BY <1>4, BaseAssumption, Distributes
<1> QED
  BY <1>1, <1>2, <1>3, <1>4, <1>5 DEF p, q

(* A small number is the number of its bytes.                              *)
LEMMA NumberOfBytes ==
    ASSUME NEW n \in 0 .. 8, NEW d \in Nat, d < Power[n]
    PROVE  Number(ToBytes(d, n)) = d
<1> DEFINE s == ToBytes(d, n)
           q(i) == d \div Power[n - i]
<1>1. s = [i \in 1 .. n |-> q(i) % Base]
  BY DEF ToBytes
<1>2. Len(s) = n
  BY <1>1
<1>3. q(0) = 0
  <2>1. Power[n] \in Nat \ {0}
    BY Powers
  <2>2. \A p \in Nat \ {0} : d < p => d \div p = 0
    OBVIOUS
  <2> QED
    BY <2>1, <2>2
<1>4. q(n) = d
  BY Powers
<1>5. ASSUME NEW i \in 0 .. n - 1
      PROVE  q(i + 1) = q(i) * Base + (q(i + 1) % Base)
  <2>1. n - (i + 1) \in 0 .. 7 /\ (n - (i + 1)) + 1 = n - i
    OBVIOUS
  <2> QED
    BY <2>1, NextQuotient
<1>6. \A i \in 0 .. n - 1 : s[i + 1] = q(i + 1) % Base
  BY <1>1
<1> HIDE DEF s
<1>7. PICK sum : /\ Number(s) = sum[n] /\ sum[0] = 0
                 /\ \A i \in 0 .. n - 1 : sum[i + 1] = sum[i] * Base + s[i + 1]
  BY <1>2, NumberSum
<1> DEFINE T == {i \in 0 .. n : sum[i] = q(i)}
<1> HIDE DEF q
<1>8. 0 \in T
  BY <1>3, <1>7
<1>9. ASSUME NEW i \in 0 .. n - 1, i \in T
      PROVE  i + 1 \in T
  BY <1>5, <1>6, <1>7, <1>9
<1> HIDE DEF T
<1>10. n \in T
  BY <1>8, <1>9, UpToEight
<1> QED
  BY <1>4, <1>7, <1>10 DEF T, s

(* Bytes make a number of their length, and are its bytes.                 *)
LEMMA NumberBound ==
    ASSUME NEW n \in 0 .. 8, NEW s, s \in [1 .. n -> Byte], Len(s) = n
    PROVE  Number(s) \in 0 .. Power[n] - 1
<1>1. PICK sum : /\ Number(s) = sum[n] /\ sum[0] = 0
                 /\ \A i \in 0 .. n - 1 : sum[i + 1] = sum[i] * Base + s[i + 1]
  BY NumberSum
<1> DEFINE T == {i \in 0 .. n : sum[i] \in 0 .. Power[i] - 1}
<1>2. 0 \in T
  BY <1>1, Powers
<1>3. ASSUME NEW i \in 0 .. n - 1, i \in T
      PROVE  i + 1 \in T
  <2>1. Power[i + 1] = Power[i] * Base /\ Power[i] \in Nat \ {0}
    <3>1. i \in 0 .. 7 /\ i \in 0 .. 8
      OBVIOUS
    <3> QED
      BY <3>1, Powers
  <2>2. sum[i + 1] = sum[i] * Base + s[i + 1] /\ sum[i] \in 0 .. Power[i] - 1
    BY <1>1, <1>3
  <2>3. s[i + 1] \in 0 .. Base - 1 /\ Base \in Nat \ {0}
    BY BaseAssumption DEF Byte
  <2>4. ASSUME NEW b \in Nat \ {0}, NEW p \in Nat \ {0}, NEW x \in 0 .. p - 1,
               NEW y \in 0 .. b - 1
        PROVE  x * b + y \in 0 .. (p * b) - 1
    <3>1. b * x <= b * (p - 1)
      BY Monotone
    <3>2. b * (p - 1) = p * b - b /\ x * b = b * x
      OBVIOUS
    <3>3. p * b \in Nat /\ b * x \in Nat
      OBVIOUS
    <3> QED
      BY <3>1, <3>2, <3>3
  <2>5. sum[i] * Base + s[i + 1] \in 0 .. (Power[i] * Base) - 1
    BY <2>1, <2>2, <2>3, <2>4
  <2>6. sum[i + 1] \in 0 .. Power[i + 1] - 1
    BY <2>1, <2>2, <2>5
  <2> QED
    BY <2>6
<1> HIDE DEF T
<1>4. n \in T
  BY <1>2, <1>3, UpToEight
<1> QED
  BY <1>1, <1>4 DEF T

LEMMA BytesOfNumber ==
    ASSUME NEW n \in 0 .. 8, NEW s, s \in [1 .. n -> Byte], Len(s) = n
    PROVE  ToBytes(Number(s), n) = s
<1> DEFINE d == Number(s)
<1>1. d \in Nat
  <2>1. d \in 0 .. Power[n] - 1
    BY NumberBound
  <2> QED
    BY <2>1
<1>2. PICK sum : /\ d = sum[n] /\ sum[0] = 0
                 /\ \A i \in 0 .. n - 1 : sum[i + 1] = sum[i] * Base + s[i + 1]
  BY NumberSum
<1> HIDE DEF d
<1>3. \A i \in 1 .. n : s[i] \in 0 .. Base - 1
  BY DEF Byte
<1>4. \A i \in 0 .. n : sum[i] \in Nat
  <2> DEFINE T == {i \in 0 .. n : sum[i] \in Nat}
  <2>1. 0 \in T
    BY <1>2
  <2>2. ASSUME NEW i \in 0 .. n - 1, i \in T
        PROVE  i + 1 \in T
    <3>1. \A x, y \in Nat : x * Base + y \in Nat
      BY BaseAssumption
    <3>2. sum[i] \in Nat /\ s[i + 1] \in Nat
      BY <1>3, <2>2
    <3>3. sum[i + 1] \in Nat
      BY <1>2, <3>1, <3>2
    <3> QED
      BY <3>3
  <2> HIDE DEF T
  <2>3. \A i \in 0 .. n : i \in T
    BY <2>1, <2>2, UpToEight
  <2> QED
    BY <2>3 DEF T
<1>5. ASSUME NEW i \in 0 .. n - 1
      PROVE  sum[i + 1] \div Base = sum[i] /\ sum[i + 1] % Base = s[i + 1]
  <2>1. sum[i] \in Nat /\ s[i + 1] \in 0 .. Base - 1
    BY <1>3, <1>4
  <2>2. Base * sum[i] = sum[i] * Base
    BY <2>1, BaseAssumption, Distributes
  <2>3. sum[i + 1] = Base * sum[i] + s[i + 1]
    BY <1>2, <2>2
  <2>4. /\ (Base * sum[i] + s[i + 1]) \div Base = sum[i]
        /\ (Base * sum[i] + s[i + 1]) % Base = s[i + 1]
    BY <2>1, BaseAssumption, QuotientUnique
  <2> QED
    BY <2>3, <2>4
<1> DEFINE T == {i \in 0 .. n : sum[n - i] = d \div Power[i]}
<1>6. 0 \in T
  BY <1>1, <1>2, Powers
<1>7. ASSUME NEW i \in 0 .. n - 1, i \in T
      PROVE  i + 1 \in T
  <2>1. n - (i + 1) \in 0 .. n - 1 /\ (n - (i + 1)) + 1 = n - i /\ i \in 0 .. 7
    OBVIOUS
  <2>2. sum[n - i] \div Base = sum[n - (i + 1)]
    BY <1>5, <2>1
  <2>3. d \div Power[i + 1] = (d \div Power[i]) \div Base
    BY <1>1, <2>1, NextQuotient
  <2>4. sum[n - i] = d \div Power[i]
    BY <1>7
  <2> QED
    BY <2>1, <2>2, <2>3, <2>4
<1> HIDE DEF T
<1>8. \A i \in 0 .. n : i \in T
  BY <1>6, <1>7, UpToEight
<1>9. ASSUME NEW i \in 1 .. n
      PROVE  (d \div Power[n - i]) % Base = s[i]
  <2>1. n - i \in 0 .. n /\ n - (n - i) = i /\ i - 1 \in 0 .. n - 1 /\ (i - 1) + 1 = i
    OBVIOUS
  <2>2. sum[n - (n - i)] = d \div Power[n - i]
    BY <1>8, <2>1 DEF T
  <2> QED
    BY <1>5, <2>1, <2>2
<1>10. s = [i \in 1 .. n |-> s[i]]
  OBVIOUS
<1> QED
  BY <1>9, <1>10 DEF ToBytes, d

(* The upper k bytes of one word and the others of another, and the other  *)
(* way round, fit into a word.                                             *)
LEMMA MergedParts ==
    ASSUME NEW p \in Nat \ {0}, NEW q \in Nat \ {0}, NEW x \in 0 .. (p * q) - 1,
           NEW y \in Nat
    PROVE  /\ (x \div q) * q + ((y % (p * q)) \div p) \in 0 .. (p * q) - 1
           /\ (x % p) + ((y * p) % (p * q)) \in 0 .. (p * q) - 1
<1>1. p * q \in Nat \ {0} /\ p * q = q * p
  OBVIOUS
<1>2. ASSUME NEW d \in 0 .. (p * q) - 1, NEW m \in Nat \ {0}, NEW n \in Nat \ {0},
             p * q = m * n
      PROVE  d \div m \in 0 .. n - 1
  <2> DEFINE z == d \div m
             r == d % m
  <2>1. d \in Nat
    BY <1>1
  <2>2. z \in Nat /\ r \in 0 .. m - 1 /\ d = m * z + r
    BY <2>1, QuotientRemainder
  <2> HIDE DEF z, r
  <2>3. ~(n <= z)
    <3> SUFFICES ASSUME n <= z PROVE FALSE
      OBVIOUS
    <3>1. m * n <= m * z
      BY <2>2, Monotone
    <3> QED
      BY <1>1, <1>2, <2>2, <3>1
  <2>4. z \in 0 .. n - 1
    BY <2>2, <2>3
  <2> QED
    BY <2>4 DEF z
<1>3. (x \div q) * q <= p * q - q
  <2>1. x \div q \in 0 .. p - 1
    BY <1>1, <1>2
  <2>2. q * (x \div q) <= q * (p - 1)
    BY <2>1, Monotone
  <2>3. q * (p - 1) = q * p - q
    OBVIOUS
  <2>4. (x \div q) * q = q * (x \div q)
    BY <2>1, Distributes
  <2> QED
    BY <1>1, <2>2, <2>3, <2>4
<1>4. (y % (p * q)) \div p \in 0 .. q - 1
  <2>1. y % (p * q) \in 0 .. (p * q) - 1
    BY <1>1, QuotientRemainder
  <2> QED
    BY <1>2, <2>1
<1>5. (y * p) % (p * q) <= p * q - p
  <2> DEFINE k == y \div q
             z == y % q
  <2>1. k \in Nat /\ z \in 0 .. q - 1 /\ y = q * k + z
    BY QuotientRemainder
  <2> HIDE DEF k, z
  <2>2. q * k \in Nat /\ p * z \in Nat
    BY <2>1
  <2>3. y * p = p * (q * k) + p * z
    BY <2>1, <2>2, Distributes
  <2>4. p * (q * k) = (p * q) * k
    BY <2>1, Associates
  <2>5. p * z <= p * (q - 1)
    BY <2>1, Monotone
  <2>6. p * (q - 1) = p * q - p
    OBVIOUS
  <2>7. p * z \in 0 .. (p * q) - 1
    BY <1>1, <2>2, <2>5, <2>6
  <2>8. y * p = (p * q) * k + p * z
    BY <2>3, <2>4
  <2>9. (y * p) % (p * q) = p * z
    <3>1. p * q \in Nat \ {0}
      BY <1>1
    <3>2. ((p * q) * k + p * z) % (p * q) = p * z
      BY <2>1, <2>7, <3>1, QuotientUnique, Zenon
    <3> QED
      BY <2>8, <3>2, Zenon
  <2> QED
    BY <2>5, <2>6, <2>9
<1>6. x % p \in 0 .. p - 1
  <2>1. x \in Nat
    BY <1>1
  <2> QED
    BY <2>1, QuotientRemainder
<1>7. (x \div q) * q \in Nat /\ (y * p) % (p * q) \in Nat
  <2>1. x \div q \in Nat
    BY <1>1
  <2>2. y * p \in Nat
    OBVIOUS
  <2>3. \A a \in Nat : a * q \in Nat /\ \A m \in Nat \ {0} : a % m \in Nat
    OBVIOUS
  <2> QED
    BY <1>1, <2>1, <2>2, <2>3
<1> DEFINE u == (x \div q) * q
           v == (y * p) % (p * q)
           w == (y % (p * q)) \div p
           h == p * q
           l == x % p
<1>8. /\ u \in Nat /\ v \in Nat /\ w \in 0 .. q - 1 /\ h \in Nat /\ l \in 0 .. p - 1
      /\ u <= h - q /\ v <= h - p
  BY <1>1, <1>3, <1>4, <1>5, <1>6, <1>7
<1> HIDE DEF u, v, w, h, l
<1>9. u + w \in 0 .. h - 1 /\ l + v \in 0 .. h - 1
  BY <1>8
<1> QED
  BY <1>9 DEF u, v, w, h, l
-----------------------------------------------------------------------------
(* Bytes of numbers that are put together of two parts.                    *)

LEMMA SplitPower ==
    ASSUME NEW n \in 0 .. 8, NEW k \in 0 .. n
    PROVE  /\ Power[k] \in Nat \ {0} /\ Power[n - k] \in Nat \ {0}
           /\ Power[n] = Power[k] * Power[n - k]
<1>1. /\ k \in 0 .. 8 /\ n - k \in 0 .. 8 /\ n - k \in 0 .. 8 - k
      /\ k + (n - k) = n
  OBVIOUS
<1>2. Power[k + (n - k)] = Power[k] * Power[n - k]
  BY <1>1, PowerSum
<1> QED
  BY <1>1, <1>2, Powers

LEMMA Quotients ==
    ASSUME NEW d \in Nat, NEW n \in 0 .. 8, NEW k \in 0 .. n
    PROVE  (d \div Power[k]) \div Power[n - k] = d \div Power[n]
<1>1. /\ Power[k] \in Nat \ {0} /\ Power[n - k] \in Nat \ {0}
      /\ Power[n] = Power[k] * Power[n - k]
  BY SplitPower
<1>2. (d \div Power[k]) \div Power[n - k] = d \div (Power[k] * Power[n - k])
  BY <1>1, QuotientOfQuotient
<1> QED
  BY <1>1, <1>2

(* The number q in front of m bytes that make x.                           *)
LEMMA TwoParts ==
    ASSUME NEW m \in 0 .. 8, NEW q \in Nat, NEW x \in 0 .. Power[m] - 1,
           NEW j \in 0 .. 8
    PROVE  ((q * Power[m] + x) \div Power[j]) % Base
               = IF j < m THEN (x \div Power[j]) % Base
                          ELSE (q \div Power[j - m]) % Base
<1>1. CASE j < m
  <2> DEFINE p == Power[j]
             h == Power[m - 1 - j]
             y == x \div p
             z == x % p
             t == q * h
  <2>1. p \in Nat \ {0} /\ h \in Nat \ {0} /\ Power[m] = p * (h * Base)
    <3>1. /\ j \in 0 .. m /\ m - j = (m - 1 - j) + 1 /\ m - 1 - j \in 0 .. 7
          /\ m - 1 - j \in 0 .. 8
      BY <1>1
    <3> QED
      BY <3>1, SplitPower, Powers
  <2>2. x \in Nat
    BY Powers
  <2>3. y \in Nat /\ z \in 0 .. p - 1 /\ x = p * y + z
    BY <2>1, <2>2, QuotientRemainder
  <2>4. t \in Nat /\ Base \in Nat \ {0}
    BY <2>1, BaseAssumption
  <2>5. q * Power[m] = p * (Base * t)
    <3>1. q * (p * (h * Base)) = p * (Base * (q * h))
      BY <2>1, <2>4
    <3> QED
      BY <2>1, <3>1
  <2> HIDE DEF p, h, y, z, t
  <2>6. q * Power[m] + x = p * (Base * t + y) + z
    <3>1. Base * t \in Nat
      BY <2>4
    <3>2. p * (Base * t + y) = p * (Base * t) + p * y
      BY <2>1, <2>3, <3>1, Distributes
    <3>3. p * (Base * t) \in Nat /\ p * y \in Nat
      BY <2>1, <2>3, <3>1
    <3> QED
      BY <2>3, <2>5, <3>2, <3>3
  <2>7. (p * (Base * t + y) + z) \div p = Base * t + y
    <3>1. Base * t + y \in Nat
      BY <2>3, <2>4
    <3> QED
      BY <2>1, <2>3, <3>1, QuotientUnique
  <2>8. (Base * t + y) % Base = y % Base
    <3> DEFINE u == y \div Base
               w == y % Base
    <3>1. u \in Nat /\ w \in 0 .. Base - 1 /\ y = Base * u + w
      BY <2>3, <2>4, QuotientRemainder
    <3> HIDE DEF u, w
    <3>2. Base * t + y = Base * (t + u) + w
      <4>1. Base * (t + u) = Base * t + Base * u
        BY <2>4, <3>1, Distributes
      <4>2. Base * t \in Nat /\ Base * u \in Nat
        BY <2>4, <3>1
      <4> QED
        BY <3>1, <4>1, <4>2
    <3>3. t + u \in Nat
      BY <2>4, <3>1
    <3>4. (Base * (t + u) + w) % Base = w
      BY <2>4, <3>1, <3>3, QuotientUnique
    <3> QED
      BY <3>2, <3>4 DEF w
  <2> QED
    BY <1>1, <2>6, <2>7, <2>8 DEF p, y
<1>2. CASE ~(j < m)
  <2> DEFINE p == Power[m]
             h == Power[j - m]
  <2>1. p \in Nat \ {0} /\ h \in Nat \ {0} /\ Power[j] = p * h
    <3>1. m \in 0 .. j
      BY <1>2
    <3> QED
      BY <3>1, SplitPower
  <2>2. q * p = p * q
    BY <2>1
  <2>3. x \in 0 .. p - 1
    OBVIOUS
  <2> HIDE DEF p, h
  <2>4. (p * q + x) \div p = q
    BY <2>1, <2>3, QuotientUnique
  <2>5. p * q + x \in Nat
    BY <2>1, <2>3
  <2>6. ((p * q + x) \div p) \div h = (p * q + x) \div (p * h)
    BY <2>1, <2>5, QuotientOfQuotient
  <2> QED
    BY <1>2, <2>1, <2>2, <2>4, <2>6 DEF p, h
<1> QED
  BY <1>1, <1>2

LEMMA LowBytes ==
    ASSUME NEW m \in 0 .. 8, NEW d \in Nat, NEW j \in 0 .. 8, j < m
    PROVE  ((d % Power[m]) \div Power[j]) % Base = (d \div Power[j]) % Base
<1> DEFINE p == Power[m]
           q == d \div p
           x == d % p
<1>1. p \in Nat \ {0}
  BY Powers
<1>2. q \in Nat /\ x \in 0 .. p - 1 /\ d = p * q + x
  BY <1>1, QuotientRemainder
<1> HIDE DEF q, x
<1>3. ((q * p + x) \div Power[j]) % Base = (x \div Power[j]) % Base
  BY <1>2, TwoParts
<1>4. d = q * p + x
  BY <1>1, <1>2, Distributes
<1> QED
  BY <1>3, <1>4 DEF x

(* The upper k bytes of w, then the upper ones of r.                       *)
LEMMA UpperBytes ==
    ASSUME NEW n \in 0 .. 8, NEW k \in 0 .. n, NEW w \in Nat,
           NEW r \in 0 .. Power[n] - 1
    PROVE  ToBytes((w \div Power[n - k]) * Power[n - k] + (r \div Power[k]), n)
               = [i \in 1 .. n |-> IF i <= k THEN ToBytes(w, n)[i]
                                              ELSE ToBytes(r, n)[i - k]]
<1> DEFINE m == n - k
           q == w \div Power[m]
           x == r \div Power[k]
           v == q * Power[m] + x
<1>1. m \in 0 .. 8 /\ m \in 0 .. n /\ k \in 0 .. 8
  OBVIOUS
<1>2. /\ Power[k] \in Nat \ {0} /\ Power[m] \in Nat \ {0}
      /\ Power[n] = Power[k] * Power[m]
  BY <1>1, SplitPower
<1>3. q \in Nat
  BY <1>2
<1>4. x \in 0 .. Power[m] - 1
  <2>1. ASSUME NEW a \in Nat \ {0}, NEW b \in Nat \ {0}, NEW d \in 0 .. (a * b) - 1
        PROVE  d \div a \in 0 .. b - 1
    <3> DEFINE y == d \div a
               z == d % a
    <3>1. d \in Nat
      BY <2>1
    <3>2. y \in Nat /\ z \in 0 .. a - 1 /\ d = a * y + z
      BY <3>1, QuotientRemainder
    <3> HIDE DEF y, z
    <3>3. b <= y => a * b <= a * y
      BY <3>2, Monotone
    <3>4. a * b \in Nat /\ a * y \in Nat
      BY <3>2
    <3> QED
      BY <3>2, <3>3, <3>4 DEF y
  <2> QED
    BY <1>2, <2>1
<1>5. ASSUME NEW i \in 1 .. n
      PROVE  (v \div Power[n - i]) % Base
                 = IF i <= k THEN ToBytes(w, n)[i] ELSE ToBytes(r, n)[i - k]
  <2>1. n - i \in 0 .. 8
    OBVIOUS
  <2>2. (v \div Power[n - i]) % Base
            = IF n - i < m THEN (x \div Power[n - i]) % Base
                           ELSE (q \div Power[n - i - m]) % Base
    BY <1>1, <1>3, <1>4, <2>1, TwoParts
  <2>3. CASE i <= k
    <3>1. ~(n - i < m) /\ m \in 0 .. n - i /\ n - i \in 0 .. 8
      BY <2>3
    <3>2. q \div Power[n - i - m] = w \div Power[n - i]
      BY <3>1, Quotients
    <3>3. ToBytes(w, n)[i] = (w \div Power[n - i]) % Base
      BY DEF ToBytes
    <3> HIDE DEF v, q, x, m
    <3> QED
      BY <2>2, <2>3, <3>1, <3>2, <3>3
  <2>4. CASE ~(i <= k)
    <3>1. /\ n - i < m /\ k \in 0 .. n - (i - k) /\ n - (i - k) \in 0 .. 8
          /\ (n - (i - k)) - k = n - i
      BY <2>4
    <3>2. r \in Nat
      BY Powers
    <3>3. (r \div Power[k]) \div Power[(n - (i - k)) - k] = r \div Power[n - (i - k)]
      BY <3>1, <3>2, Quotients
    <3>4. x \div Power[n - i] = r \div Power[n - (i - k)]
      BY <3>1, <3>3
    <3>5. i - k \in 1 .. n
      BY <2>4
    <3>6. ToBytes(r, n)[i - k] = (r \div Power[n - (i - k)]) % Base
      BY <3>5 DEF ToBytes
    <3> HIDE DEF v, q, x, m
    <3> QED
      BY <2>2, <2>4, <3>1, <3>4, <3>6
  <2> QED
    BY <2>3, <2>4
<1> QED
  BY <1>5 DEF ToBytes

(* The lower n - m bytes of r, then the lower m of w.                      *)
LEMMA LowerBytes ==
    ASSUME NEW n \in 0 .. 8, NEW m \in 0 .. n, NEW w \in Nat, NEW r \in Nat
    PROVE  ToBytes((w % Power[m]) + ((r * Power[m]) % Power[n]), n)
               = [i \in 1 .. n |-> IF i <= n - m THEN ToBytes(r, n)[i + m]
                                                  ELSE ToBytes(w, n)[i]]
<1> DEFINE p == Power[m]
           h == Power[n - m]
           q == r % h
           x == w % p
           v == q * p + x
<1>1. m \in 0 .. 8 /\ n - m \in 0 .. 8
  OBVIOUS
<1>2. /\ p \in Nat \ {0} /\ h \in Nat \ {0} /\ Power[n] = p * h
  BY SplitPower
<1>3. q \in 0 .. h - 1 /\ q \in Nat /\ x \in 0 .. p - 1
  <2>1. \A d \in Nat : \A e \in Nat \ {0} : d % e \in 0 .. e - 1 /\ d % e \in Nat
    OBVIOUS
  <2> HIDE DEF p, h
  <2> QED
    BY <1>2, <2>1
<1>4. (r * p) % (p * h) = q * p
  <2> DEFINE u == r \div h
  <2>1. u \in Nat /\ r = h * u + q
    BY <1>2, QuotientRemainder
  <2> HIDE DEF u, p, h, q
  <2>2. p * r = p * (h * u) + p * q
    <3>1. h * u \in Nat
      BY <1>2, <2>1
    <3>2. p * (h * u + q) = p * (h * u) + p * q
      BY <1>2, <1>3, <3>1, Distributes
    <3> QED
      BY <2>1, <3>2
  <2>3. p * (h * u) = (p * h) * u /\ p * h \in Nat \ {0}
    BY <1>2, <2>1, Associates
  <2>4. p * q \in 0 .. (p * h) - 1
    <3>1. p * q <= p * (h - 1)
      BY <1>2, <1>3, Monotone
    <3>2. p * (h - 1) = p * h - p /\ p * q \in Nat
      BY <1>2, <1>3
    <3> QED
      BY <1>2, <2>3, <3>1, <3>2
  <2>5. ((p * h) * u + p * q) % (p * h) = p * q
    BY <2>1, <2>3, <2>4, QuotientUnique, Zenon
  <2>6. r * p = p * r /\ q * p = p * q
    BY <1>2, <1>3, Distributes
  <2> QED
    BY <2>2, <2>3, <2>5, <2>6
<1>5. (w % p) + ((r * p) % Power[n]) = v
  <2>1. q * p \in Nat
    BY <1>2, <1>3
  <2> HIDE DEF q, p, h
  <2> QED
    BY <1>2, <1>3, <1>4, <2>1
<1>6. ASSUME NEW i \in 1 .. n
      PROVE  (v \div Power[n - i]) % Base
                 = IF i <= n - m THEN ToBytes(r, n)[i + m] ELSE ToBytes(w, n)[i]
  <2>1. n - i \in 0 .. 8
    OBVIOUS
  <2>2. (v \div Power[n - i]) % Base
            = IF n - i < m THEN (x \div Power[n - i]) % Base
                           ELSE (q \div Power[n - i - m]) % Base
    BY <1>1, <1>3, <2>1, TwoParts
  <2>3. CASE i <= n - m
    <3>1. /\ ~(n - i < m) /\ n - i - m \in 0 .. 8 /\ n - i - m < n - m
          /\ n - (i + m) = n - i - m /\ i + m \in 1 .. n
      BY <2>3
    <3>2. (q \div Power[n - i - m]) % Base = (r \div Power[n - i - m]) % Base
      BY <1>1, <3>1, LowBytes
    <3>3. ToBytes(r, n)[i + m] = (r \div Power[n - (i + m)]) % Base
      BY <3>1 DEF ToBytes
    <3> HIDE DEF v, q, x
    <3> QED
      BY <2>2, <2>3, <3>1, <3>2, <3>3
  <2>4. CASE ~(i <= n - m)
    <3>1. n - i < m
      BY <2>4
    <3>2. (x \div Power[n - i]) % Base = (w \div Power[n - i]) % Base
      BY <1>1, <2>1, <3>1, LowBytes
    <3>3. ToBytes(w, n)[i] = (w \div Power[n - i]) % Base
      BY DEF ToBytes
    <3> HIDE DEF v, q, x
    <3> QED
      BY <2>2, <2>4, <3>1, <3>2, <3>3
  <2> QED
    BY <2>3, <2>4
<1> HIDE DEF v
<1> QED
  BY <1>5, <1>6 DEF ToBytes

(* Sign extension.                                                         *)
LEMMA SignByte ==
    ASSUME NEW n \in 1 .. 8, NEW s, s \in [1 .. n -> Byte], Len(s) = n
    PROVE  s[1] >= Base \div 2 <=> ~(Number(s) < Power[n] \div 2)
<1> DEFINE p == Power[n - 1]
           d == Number(s)
           q == d \div p
           x == d % p
           h == Base \div 2
<1>1. n \in 0 .. 8 /\ n - 1 \in 0 .. 7 /\ (n - 1) + 1 = n /\ n - 1 \in 0 .. 8
  OBVIOUS
<1>2. p \in Nat \ {0} /\ Power[n] = p * Base
  BY <1>1, Powers
<1>3. d \in 0 .. Power[n] - 1
  BY <1>1, NumberBound
<1>4. h \in Nat /\ Base = 2 * h /\ Base \in Nat
  BY BaseAssumption
<1>5. d \in Nat
  BY <1>3
<1>6. s[1] = q % Base
  <2>1. ToBytes(d, n) = s
    BY <1>1, BytesOfNumber
  <2>2. ToBytes(d, n)[1] = q % Base
    BY DEF ToBytes
  <2> QED
    BY <2>1, <2>2
<1> HIDE DEF d
<1>7. q \in Nat /\ x \in 0 .. p - 1 /\ d = p * q + x
  BY <1>2, <1>5, QuotientRemainder
<1> HIDE DEF p, q, x, h
<1>8. q < Base
  <2>1. Base <= q => p * Base <= p * q
    BY <1>2, <1>4, <1>7, Monotone
  <2>2. p * Base \in Nat /\ p * q \in Nat
    BY <1>2, <1>4, <1>7
  <2> QED
    BY <1>2, <1>3, <1>4, <1>7, <2>1, <2>2
<1>9. s[1] = q
  BY <1>4, <1>6, <1>7, <1>8
<1>10. Power[n] \div 2 = p * h
  <2>1. p * Base = 2 * (p * h) /\ p * h \in Nat
    BY <1>2, <1>4
  <2>2. \A z \in Nat : (2 * z) \div 2 = z
    OBVIOUS
  <2> QED
    BY <1>2, <2>1, <2>2
<1>11. q >= h <=> ~(d < p * h)
  <2>1. h <= q => p * h <= p * q
    BY <1>2, <1>4, <1>7, Monotone
  <2>2. q <= h - 1 => p * q <= p * (h - 1)
    BY <1>2, <1>4, <1>7, Monotone
  <2>3. p * (h - 1) = p * h - p /\ p * h \in Nat /\ p * q \in Nat
    BY <1>2, <1>4, <1>7
  <2> QED
    BY <1>2, <1>4, <1>7, <2>1, <2>2, <2>3
<1> QED
  BY <1>9, <1>10, <1>11 DEF h, d

(* t is s behind bytes c.                                                  *)
Extends(t, s, n, c) ==
    /\ Len(t) = 8 /\ \A i \in 1 .. 8 - n : t[i] = c
    /\ \A i \in 1 .. n : t[(8 - n) + i] = s[i]

(* Leading zeros add nothing, leading greatest bytes make a number         *)
(* negative in eight bytes.                                                *)
LEMMA Extension ==
    ASSUME NEW t, NEW s, NEW n, NEW c, Extends(t, s, n, c),
           n \in 1 .. 8, s \in [1 .. n -> Byte], Len(s) = n, c \in {0, Base - 1}
    PROVE  /\ c = 0 => Number(t) = Number(s)
           /\ c # 0 => Number(t) = Number(s) + Power[8] - Power[n]
<1> DEFINE z == 8 - n
<1>0. /\ Len(t) = 8 /\ \A i \in 1 .. 8 - n : t[i] = c
      /\ \A i \in 1 .. n : t[(8 - n) + i] = s[i]
  BY DEF Extends
<1>1. n \in 0 .. 8 /\ z \in 0 .. 8 /\ z + n = 8 /\ 8 - z = n
  OBVIOUS
<1>2. PICK sum : /\ Number(t) = sum[8] /\ sum[0] = 0
                 /\ \A i \in 0 .. 8 - 1 : sum[i + 1] = sum[i] * Base + t[i + 1]
  BY <1>0, NumberSum
<1>3. PICK sm : /\ Number(s) = sm[n] /\ sm[0] = 0
                /\ \A i \in 0 .. n - 1 : sm[i + 1] = sm[i] * Base + s[i + 1]
  <2>1. \A k \in 0 .. 8 : Len(s) = k =>
            \E sum1 : /\ Number(s) = sum1[k] /\ sum1[0] = 0
                      /\ \A i \in 0 .. k - 1 :
                            sum1[i + 1] = sum1[i] * Base + s[i + 1]
    <3>1. SUFFICES ASSUME NEW k \in 0 .. 8, Len(s) = k
                   PROVE  \E sum1 : /\ Number(s) = sum1[k] /\ sum1[0] = 0
                                    /\ \A i \in 0 .. k - 1 :
                                          sum1[i + 1] = sum1[i] * Base + s[i + 1]
      OBVIOUS
    <3> QED
      BY <3>1, NumberSum
  <2> QED
    BY <1>1, <2>1, Zenon
<1>4. \A k \in 0 .. 8 : Power[k] \in Nat \ {0}
  BY Powers
<1>5. Base \in Nat \ {0, 1}
  BY BaseAssumption
<1> DEFINE f(i) == IF c = 0 THEN 0 ELSE Power[i] - 1
<1>6. sum[z] = f(z)
  <2> DEFINE T == {i \in 0 .. z : sum[i] = f(i)}
  <2>1. 0 \in T
    BY <1>2, Powers
  <2>2. ASSUME NEW i \in 0 .. z - 1, i \in T
        PROVE  i + 1 \in T
    <3>1. /\ i \in 0 .. 7 /\ i \in 0 .. 8 /\ i \in 0 .. 8 - 1
          /\ i + 1 \in 1 .. 8 - n
      OBVIOUS
    <3>2. sum[i + 1] = sum[i] * Base + c /\ sum[i] = f(i)
      BY <1>0, <1>2, <2>2, <3>1
    <3>3. Power[i + 1] = Power[i] * Base /\ Power[i] \in Nat
      BY <3>1, Powers
    <3>4. (Power[i] - 1) * Base = Power[i] * Base - Base /\ Power[i] * Base \in Nat
      BY <1>5, <3>3
    <3>5. CASE c = 0
      BY <1>5, <3>2, <3>5
    <3>6. CASE c # 0
      BY <1>5, <3>2, <3>3, <3>4, <3>6
    <3> QED
      BY <3>5, <3>6
  <2> HIDE DEF T
  <2>3. z \in T
    BY <1>1, <2>1, <2>2, UpToEight
  <2> QED
    BY <2>3 DEF T
<1> DEFINE b == f(z)
<1>7. b \in Nat
  <2>1. Power[z] \in Nat \ {0}
    BY <1>1, <1>4, Zenon
  <2> QED
    BY <2>1
<1> HIDE DEF b
<1>8. \A i \in 0 .. n : sm[i] \in Nat
  <2> DEFINE T == {i \in 0 .. n : sm[i] \in Nat}
  <2>1. 0 \in T
    BY <1>3
  <2>2. ASSUME NEW i \in 0 .. n - 1, i \in T
        PROVE  i + 1 \in T
    <3>1. \A x, y \in Nat : x * Base + y \in Nat
      BY <1>5
    <3>2. sm[i] \in Nat /\ s[i + 1] \in Nat
      BY <2>2 DEF Byte
    <3>3. sm[i + 1] \in Nat
      BY <1>3, <3>1, <3>2
    <3> QED
      BY <3>3
  <2> HIDE DEF T
  <2>3. \A i \in 0 .. n : i \in T
    BY <1>1, <2>1, <2>2, UpToEight
  <2> QED
    BY <2>3 DEF T
<1>9. sum[z + n] = b * Power[n] + sm[n]
  <2> DEFINE T == {i \in 0 .. n : sum[z + i] = b * Power[i] + sm[i]}
  <2>1. 0 \in T
    BY <1>3, <1>6, <1>7, Powers DEF b
  <2>2. ASSUME NEW i \in 0 .. n - 1, i \in T
        PROVE  i + 1 \in T
    <3>1. /\ i \in 0 .. 7 /\ i \in 0 .. 8 /\ i + 1 \in 0 .. 8
          /\ z + i \in 0 .. 8 - 1 /\ (z + i) + 1 = z + (i + 1)
          /\ i + 1 \in 1 .. n
      OBVIOUS
    <3>2. t[(8 - n) + (i + 1)] = s[i + 1]
      BY <1>0, <3>1
    <3>3. sum[z + (i + 1)] = sum[z + i] * Base + s[i + 1]
      BY <1>2, <3>1, <3>2
    <3>4. sum[z + i] = b * Power[i] + sm[i]
      BY <2>2
    <3>5. Power[i + 1] = Power[i] * Base /\ Power[i] \in Nat
      BY <3>1, Powers
    <3>6. ASSUME NEW u \in Nat, NEW x \in Nat, NEW y \in Nat
          PROVE  (u * x + y) * Base = u * (x * Base) + y * Base
      <4>1. u * x \in Nat /\ (u * x) * Base = u * (x * Base)
        BY <1>5, Associates
      <4>2. Base * (u * x + y) = Base * (u * x) + Base * y
        BY <1>5, <4>1, Distributes
      <4> QED
        BY <1>5, <4>1, <4>2
    <3>7. sm[i] \in Nat /\ sm[i + 1] = sm[i] * Base + s[i + 1] /\ s[i + 1] \in Nat
      BY <1>3, <1>8, <3>1 DEF Byte
    <3>8. (b * Power[i] + sm[i]) * Base = b * (Power[i] * Base) + sm[i] * Base
      BY <1>7, <3>5, <3>6, <3>7
    <3>9. b * Power[i + 1] \in Nat /\ sm[i] * Base \in Nat
      <4>1. \A x, y \in Nat : x * y \in Nat
        OBVIOUS
      <4>2. Power[i + 1] \in Nat /\ Base \in Nat
        BY <1>4, <1>5, <3>1
      <4> QED
        BY <1>7, <3>7, <4>1, <4>2
    <3>10. sum[z + (i + 1)] = b * Power[i + 1] + sm[i + 1]
      BY <3>3, <3>4, <3>5, <3>7, <3>8, <3>9
    <3> QED
      BY <3>10
  <2> HIDE DEF T
  <2>3. n \in T
    BY <1>1, <2>1, <2>2, UpToEight
  <2> QED
    BY <2>3 DEF T
<1>10. Number(t) = b * Power[n] + Number(s) /\ Number(s) \in Nat
  BY <1>1, <1>2, <1>3, <1>8, <1>9
<1>11. CASE c = 0
  <2>1. b = 0 /\ 0 * Power[n] = 0
    <3>1. Power[n] \in Nat
      BY <1>1, <1>4, Zenon
    <3> QED
      BY <1>11, <3>1 DEF b
  <2> QED
    BY <1>10, <1>11, <2>1
<1>12. CASE c # 0
  <2>1. b = Power[z] - 1 /\ Power[z] \in Nat /\ Power[n] \in Nat
    BY <1>1, <1>4, <1>12 DEF b
  <2>2. Power[8] = Power[z] * Power[n]
    <3>1. 8 \in 0 .. 8 /\ z \in 0 .. 8
      OBVIOUS
    <3>2. Power[8] = Power[z] * Power[8 - z]
      BY <3>1, SplitPower, Zenon
    <3> QED
      BY <1>1, <3>2
  <2>3. (Power[z] - 1) * Power[n] = Power[z] * Power[n] - Power[n]
        /\ Power[z] * Power[n] \in Nat
    BY <2>1
  <2> QED
    BY <1>10, <1>12, <2>1, <2>2, <2>3
<1> QED
  BY <1>11, <1>12

-----------------------------------------------------------------------------
(* The bus.                                                                *)

(* The shape of the memory, of which TypeOK is a part.                     *)
Regions == DOMAIN Blank \cup {"ipl"}

Shaped(m) ==
    /\ DOMAIN m = Regions
    /\ \A r \in DOMAIN Blank : m[r] \in [DOMAIN Blank[r] -> Byte]
    /\ \E n \in Nat : m["ipl"] \in [0 .. n - 1 -> Byte]

LEMMA ByteType == Byte \subseteq Nat /\ 0 \in Byte
BY BaseAssumption DEF Byte

LEMMA ArrayType ==
    ASSUME NEW s \in Seq(Byte)
    PROVE  Array(s) \in [0 .. Len(s) - 1 -> Byte]
<1>1. ASSUME NEW i \in 0 .. Len(s) - 1
      PROVE  s[i + 1] \in Byte
  OBVIOUS
<1> QED
  BY <1>1 DEF Array

LEMMA SequenceType ==
    ASSUME NEW S, NEW n \in Nat, NEW f, f \in [1 .. n -> S]
    PROVE  f \in Seq(S) /\ Len(f) = n
<1>1. f = [i \in 1 .. n |-> f[i]]
  OBVIOUS
<1>2. \A i \in 1 .. n : f[i] \in S
  OBVIOUS
<1>3. [i \in 1 .. n |-> f[i]] \in Seq(S) /\ Len([i \in 1 .. n |-> f[i]]) = n
  BY <1>2
<1> QED
  BY <1>1, <1>3, Zenon

(* The cartridge is empty at power on.                                     *)
LEMMA EmptyCartridge ==
    /\ Len(Cartridge) \in Nat
    /\ Array(Cartridge) = Zeros(Len(Cartridge))
<1>1. Cartridge \in Seq({0})
  BY FileAssumption
<1>2. ASSUME NEW i \in 0 .. Len(Cartridge) - 1
      PROVE  Cartridge[i + 1] = 0
  <2>1. i + 1 \in 1 .. Len(Cartridge) /\ Len(Cartridge) \in Nat
    BY <1>1
  <2> QED
    BY <1>1, <2>1
<1> QED
  BY <1>1, <1>2 DEF Array, Zeros

LEMMA BlankShape ==
    /\ DOMAIN Blank = Registers \cup {"rdram", "cart", "dmem", "pif"}
    /\ \A r \in Registers : Blank[r] = Zeros(4)
    /\ Blank["rdram"] = Zeros(RamPages * Page)
    /\ Blank["cart"] = Array(Cartridge)
    /\ Blank["dmem"] = Zeros(DmemSize)
    /\ Blank["pif"] = Zeros(PifSize)
    /\ "ipl" \notin DOMAIN Blank
<1>1. \A r \in Registers : r \notin {"rdram", "cart", "dmem", "pif", "ipl"}
  BY DEF Registers
<1> QED
  BY <1>1 DEF Blank

LEMMA BlankAreas ==
    \A r \in DOMAIN Blank :
        \E n \in Nat : DOMAIN Blank[r] = 0 .. n - 1 /\ Blank[r] \in [0 .. n - 1 -> Byte]
<1>1. \A n \in Nat : Zeros(n) \in [0 .. n - 1 -> Byte]
  BY ByteType DEF Zeros
<1>2. /\ 4 \in Nat /\ RamPages * Page \in Nat
      /\ DmemSize \in Nat /\ PifSize \in Nat /\ Len(Cartridge) \in Nat
  BY BusAssumption, EmptyCartridge
<1>3. Array(Cartridge) \in [0 .. Len(Cartridge) - 1 -> Byte]
  BY <1>1, <1>2, EmptyCartridge
<1>4. ASSUME NEW n \in Nat, NEW f, f \in [0 .. n - 1 -> Byte]
      PROVE  \E k \in Nat : DOMAIN f = 0 .. k - 1 /\ f \in [0 .. k - 1 -> Byte]
  BY <1>4
<1>5. \A r \in Registers : Blank[r] \in [0 .. 4 - 1 -> Byte]
  BY <1>1, <1>2, BlankShape, Zenon
<1>6. /\ Blank["rdram"] \in [0 .. RamPages * Page - 1 -> Byte]
      /\ Blank["cart"] \in [0 .. Len(Cartridge) - 1 -> Byte]
      /\ Blank["dmem"] \in [0 .. DmemSize - 1 -> Byte]
      /\ Blank["pif"] \in [0 .. PifSize - 1 -> Byte]
  BY <1>1, <1>2, <1>3, BlankShape, Zenon
<1>7. \A r \in DOMAIN Blank : \E n \in Nat : Blank[r] \in [0 .. n - 1 -> Byte]
  BY <1>2, <1>5, <1>6, BlankShape, Zenon
<1> QED
  BY <1>4, <1>7, Zenon

LEMMA ShapedAreas ==
    ASSUME NEW m, Shaped(m), NEW r \in Regions
    PROVE  \E n \in Nat : m[r] \in [0 .. n - 1 -> Byte]
BY BlankAreas DEF Shaped, Regions

LEMMA RegisterArea ==
    ASSUME NEW m, Shaped(m), NEW r \in Registers
    PROVE  m[r] \in [0 .. 3 -> Byte]
<1>1. DOMAIN Zeros(4) = 0 .. 3
  BY DEF Zeros
<1> QED
  BY <1>1, BlankShape DEF Shaped

(* A region may be overwritten by one of its size.                         *)
LEMMA PutShaped ==
    ASSUME NEW m, Shaped(m), NEW r \in Regions,
           NEW f, f \in [DOMAIN m[r] -> Byte]
    PROVE  Shaped([m EXCEPT ![r] = f])
<1> DEFINE w == [m EXCEPT ![r] = f]
<1>1. /\ DOMAIN w = Regions
      /\ w[r] = f
      /\ \A x \in Regions \ {r} : w[x] = m[x]
  BY DEF Shaped
<1> HIDE DEF w
<1>2. \A x \in DOMAIN Blank : w[x] \in [DOMAIN Blank[x] -> Byte]
  BY <1>1 DEF Shaped, Regions
<1>3. \E n \in Nat : w["ipl"] \in [0 .. n - 1 -> Byte]
  BY <1>1 DEF Shaped, Regions
<1>4. Shaped(w)
  BY <1>1, <1>2, <1>3 DEF Shaped
<1> QED
  BY <1>4 DEF w

LEMMA OverlayShaped ==
    ASSUME NEW m, Shaped(m), NEW r \in Regions, NEW from,
           NEW s, \A i \in DOMAIN s : s[i] \in Byte
    PROVE  Shaped([m EXCEPT ![r] = Overlay(@, from, s)])
<1>1. m[r] \in [DOMAIN m[r] -> Byte]
  BY ShapedAreas
<1>2. Overlay(m[r], from, s) \in [DOMAIN m[r] -> Byte]
  BY <1>1, OverlayType
<1>3. Shaped([m EXCEPT ![r] = Overlay(m[r], from, s)])
  BY <1>2, PutShaped
<1> QED
  BY <1>3

LEMMA ReverseType ==
    ASSUME NEW S, NEW n \in Nat, NEW s, s \in [1 .. n -> S]
    PROVE  /\ Reverse(s) \in [1 .. n -> S]
           /\ Reverse(s) \in Seq(S) /\ Len(Reverse(s)) = n
<1>1. Len(s) = n
  BY SequenceType
<1>2. Reverse(s) \in [1 .. n -> S]
  BY <1>1 DEF Reverse
<1> QED
  BY <1>2, SequenceType

(* A host register holds the four bytes of any number.                     *)
LEMMA HostBytesType ==
    ASSUME NEW v \in Int
    PROVE  HostBytes(v) \in [0 .. 3 -> Byte]
<1> DEFINE b == ToBytes(v, 4)
<1>1. b \in [1 .. 4 -> Byte]
  BY BytesType
<1> HIDE DEF b
<1>2. Len(b) = 4 /\ b \in Seq(Byte)
  BY <1>1, SequenceType
<1>3. Reverse(b) \in Seq(Byte) /\ Len(Reverse(b)) = 4
  BY <1>1, <1>2, ReverseType
<1>4. Array(Reverse(b)) \in [0 .. 3 -> Byte]
  BY <1>3, ArrayType
<1> QED
  BY <1>4 DEF HostBytes, b

LEMMA SliceType ==
    ASSUME NEW f, NEW n \in Nat, f \in [0 .. n - 1 -> Byte],
           NEW from \in Nat, NEW k \in Nat, from + k <= n
    PROVE  /\ Slice(f, from, k) \in [1 .. k -> Byte]
           /\ Len(Slice(f, from, k)) = k
BY DEF Slice

(* What a load of one to eight bytes returns is a number.                  *)
LEMMA SliceNumber ==
    ASSUME NEW f, NEW n \in Nat, f \in [0 .. n - 1 -> Byte],
           NEW from \in Nat, NEW k \in 0 .. 8, from + k <= n
    PROVE  Number(Slice(f, from, k)) \in Nat
<1> DEFINE s == Slice(f, from, k)
<1>1. Len(s) = k /\ s \in [1 .. k -> Byte]
  BY SliceType
<1> HIDE DEF s
<1>2. Len(s) \in 0 .. 8 /\ \A i \in 1 .. Len(s) : s[i] \in Nat
  BY <1>1, ByteType
<1>3. Number(s) \in Nat
  BY <1>2, NumberType
<1> QED
  BY <1>3 DEF s

LEMMA RegisterNumber ==
    ASSUME NEW m, Shaped(m), NEW r \in Registers
    PROVE  Number(Slice(m[r], 0, 4)) \in Nat /\ Host(m, r) \in Nat
<1>1. m[r] \in [0 .. 3 -> Byte]
  BY RegisterArea
<1>2. m[r] \in [0 .. 4 - 1 -> Byte] /\ 0 + 4 <= 4 /\ 4 \in 0 .. 8
  BY <1>1
<1>3. /\ Slice(m[r], 0, 4) \in [1 .. 4 -> Byte]
      /\ Number(Slice(m[r], 0, 4)) \in Nat
  BY <1>2, SliceType, SliceNumber
<1>4. ASSUME NEW s, s \in [1 .. 4 -> Byte]
      PROVE  Reverse(s) \in Seq(Byte) /\ Len(Reverse(s)) = 4
  <2>1. s \in Seq(Byte) /\ Len(s) = 4
    BY <1>4, SequenceType
  <2> QED
    BY <1>4, <2>1, ReverseType
<1>5. ASSUME NEW s \in [1 .. 4 -> Byte]
      PROVE  Number(Reverse(s)) \in Nat
  <2>1. \A q \in Seq(Byte) : \A i \in 1 .. Len(q) : q[i] \in Byte
    OBVIOUS
  <2>2. Reverse(s) \in Seq(Byte) /\ Len(Reverse(s)) = 4
    BY <1>4
  <2>3. \A i \in 1 .. Len(Reverse(s)) : Reverse(s)[i] \in Nat
    BY <2>1, <2>2, ByteType
  <2> QED
    BY <2>2, <2>3, NumberType
<1> QED
  BY <1>3, <1>5 DEF Host

(* The six bits of MI_INTERRUPT and MI_MASK.                               *)
LEMMA BitValues ==
    /\ Bit[0] = 1 /\ Bit[1] = 2 /\ Bit[2] = 4
    /\ Bit[3] = 8 /\ Bit[4] = 16 /\ Bit[5] = 32
    /\ Bit[6] = 64 /\ Bit[7] = 128 /\ Bit[8] = 256
    /\ Bit[9] = 512 /\ Bit[10] = 1024 /\ Bit[11] = 2048
<1> DEFINE b == [k \in 0 .. 11 |->
        CASE k = 0 -> 1 [] k = 1 -> 2 [] k = 2 -> 4 [] k = 3 -> 8
          [] k = 4 -> 16 [] k = 5 -> 32 [] k = 6 -> 64 [] k = 7 -> 128
          [] k = 8 -> 256 [] k = 9 -> 512 [] k = 10 -> 1024
          [] OTHER -> 2048]
<1>1. b = [k \in 0 .. 11 |-> IF k = 0 THEN 1 ELSE 2 * b[k - 1]]
  OBVIOUS
<1> HIDE DEF b
<1>2. Bit = [k \in 0 .. 11 |-> IF k = 0 THEN 1 ELSE 2 * Bit[k - 1]]
  BY <1>1, Zenon DEF Bit
<1> QED
  BY <1>2

LEMMA SetBitType ==
    ASSUME NEW n \in Nat, NEW k \in 0 .. 5, NEW v \in {0, 1}
    PROVE  SetBit(n, k, v) \in Int
<1>1. Bit[k] \in Nat \ {0}
  BY BitValues
<1>2. \A b \in Nat \ {0} : n + ((v - ((n \div b) % 2)) * b) \in Int
  OBVIOUS
<1> QED
  BY <1>1, <1>2 DEF SetBit

LEMMA FromBitsType == \A S : FromBits(S) \in Nat
BY BitValues DEF FromBits

-----------------------------------------------------------------------------
(* Pointers and what looking at an address changes.                        *)

LEMMA PointerRegion ==
    ASSUME NEW a, Pointer(a) # Null
    PROVE  Pointer(a)[1] \in Regions
<1>1. Registers \cup {"rdram", "cart", "dmem", "pif", "ipl"} = Regions
  BY BlankShape DEF Regions
<1>2. ASSUME NEW p, PageTable(p) # Null
      PROVE  PageTable(p)[1] \in {"rdram", "cart"}
  BY <1>2 DEF PageTable
<1>3. ASSUME redirect_paddress_slow(a) # Null
      PROVE  redirect_paddress_slow(a)[1] \in Regions
  <2>1. CASE \E r \in Registers : Address[r] = a
    <3>1. (CHOOSE r \in Registers : Address[r] = a) \in Registers
      BY <2>1
    <3> QED
      BY <1>1, <2>1, <3>1 DEF redirect_paddress_slow
  <2>2. CASE ~ \E r \in Registers : Address[r] = a
    BY <1>1, <1>3, <2>2 DEF redirect_paddress_slow
  <2> QED
    BY <2>1, <2>2
<1>4. CASE PageTable(a \div Page) = Null
  <2>1. Pointer(a) = redirect_paddress_slow(a)
    BY <1>4 DEF Pointer
  <2> QED
    BY <1>3, <2>1
<1>5. CASE PageTable(a \div Page) # Null
  <2>1. Pointer(a)[1] = PageTable(a \div Page)[1]
    BY <1>5 DEF Pointer
  <2> QED
    BY <1>1, <1>2, <1>5, <2>1
<1> QED
  BY <1>4, <1>5

LEMMA NullRegion == Null[1] \notin Regions
<1>1. "null" \notin Registers \cup {"rdram", "cart", "dmem", "pif", "ipl"}
  BY DEF Registers
<1> QED
  BY <1>1, BlankShape DEF Null, Regions

(* Only the PIF RAM and the current line change by a look at them.         *)
LEMMA TouchFrame ==
    ASSUME NEW m, Shaped(m), NEW a
    PROVE  \A r \in Regions \ {"pif", "VI_V_CURRENT"} : Touch(m, a)[r] = m[r]
BY DEF Touch, Shaped

(* What a legal look requires of the frame.                                *)
Lines(a) == Pointer(a)[1] = "VI_V_CURRENT" => rcp.num_halflines \in 1 .. Frame

LEMMA TouchShaped ==
    ASSUME NEW m, Shaped(m), NEW a, Lines(a), time \in Nat
    PROVE  Shaped(Touch(m, a))
<1>1. CASE Pointer(a)[1] = "pif"
  <2>1. "pif" \in Regions /\ "pif" \in DOMAIN m
    BY BlankShape DEF Regions, Shaped
  <2>2. m["pif"] \in [DOMAIN m["pif"] -> Byte]
    BY <2>1, ShapedAreas
  <2> DEFINE f == [i \in DOMAIN m["pif"] |->
                      IF i \in Seed THEN SeedByte ELSE m["pif"][i]]
  <2>3. f \in [DOMAIN m["pif"] -> Byte]
    BY <2>2, BusAssumption
  <2>4. Touch(m, a) = [m EXCEPT !["pif"] = f]
    BY <1>1, <2>1 DEF Touch
  <2> HIDE DEF f
  <2>5. Shaped([m EXCEPT !["pif"] = f])
    BY <2>1, <2>3, PutShaped, Zenon
  <2> QED
    BY <2>4, <2>5, Zenon
<1>2. CASE Pointer(a)[1] = "VI_V_CURRENT"
  <2>1. "VI_V_CURRENT" \in Registers /\ "VI_V_CURRENT" \in Regions
    BY BlankShape DEF Regions, Registers
  <2> DEFINE line == time \div (Frame \div rcp.num_halflines)
  <2>2. line \in Int
    <3>1. \A x \in Nat \ {0} : \A y \in 1 .. x : x \div y \in Nat \ {0}
      OBVIOUS
    <3>2. Frame \div rcp.num_halflines \in Nat \ {0}
      BY <1>2, <3>1, BusAssumption DEF Lines
    <3> QED
      BY <3>2
  <2>3. Touch(m, a) = [m EXCEPT !["VI_V_CURRENT"] = HostBytes(line)]
    BY <1>2 DEF Touch
  <2> HIDE DEF line
  <2>4. HostBytes(line) \in [0 .. 3 -> Byte]
    BY <2>2, HostBytesType
  <2>5. DOMAIN m["VI_V_CURRENT"] = 0 .. 3
    BY <2>1, RegisterArea
  <2>6. Shaped([m EXCEPT !["VI_V_CURRENT"] = HostBytes(line)])
    BY <2>1, <2>4, <2>5, PutShaped, Zenon
  <2> QED
    BY <2>3, <2>6, Zenon
<1>3. CASE Pointer(a)[1] \notin {"pif", "VI_V_CURRENT"}
  BY <1>3 DEF Touch
<1> QED
  BY <1>1, <1>2, <1>3

LEMMA WriteShaped ==
    ASSUME NEW m, Shaped(m), NEW a, Pointer(a) # Null, Lines(a), time \in Nat,
           NEW d \in Int, NEW n \in 0 .. 8
    PROVE  Shaped(Write(m, a, d, n))
<1> DEFINE s == ToBytes(d, n)
<1>1. \A i \in DOMAIN s : s[i] \in Byte
  BY BytesType
<1>2. Pointer(a)[1] \in Regions
  BY PointerRegion
<1>3. Shaped(Touch(m, a))
  BY TouchShaped
<1>4. Write(m, a, d, n) =
        [Touch(m, a) EXCEPT ![Pointer(a)[1]] = Overlay(@, Pointer(a)[2], s)]
  BY DEF Write
<1> HIDE DEF s
<1>5. Shaped([Touch(m, a) EXCEPT ![Pointer(a)[1]] = Overlay(@, Pointer(a)[2], s)])
  BY <1>1, <1>2, <1>3, OverlayShaped, Zenon
<1> QED
  BY <1>4, <1>5, Zenon

LEMMA PutRegister ==
    ASSUME NEW m, Shaped(m), NEW r \in Registers, NEW f \in [0 .. 3 -> Byte]
    PROVE  Shaped([m EXCEPT ![r] = f])
<1>1. r \in Regions
  BY BlankShape DEF Regions
<1>2. DOMAIN m[r] = 0 .. 3
  BY RegisterArea
<1> QED
  BY <1>1, <1>2, PutShaped

-----------------------------------------------------------------------------
(* The inductive invariant.  TypeOK leaves open how long the IPL is; that  *)
(* it is an interval of addresses makes what a load of it returns a number.*)
Machine ==
    /\ mi_mask \subseteq Interrupts /\ time \in 0 .. Frame - 1
    /\ rcp \in [num_halflines: Nat, width: Nat, bitdepth: {"byte", "5551"},
                framebuffer: {Null} \cup (Regions \X Nat)]
    /\ stale \subseteq Mirrored /\ ops \in 0 .. MaxOps

BusInv == Shaped(mem) /\ Machine

LEMMA BusInvImpliesTypeOK == BusInv => TypeOK
<1> SUFFICES ASSUME BusInv PROVE TypeOK
  OBVIOUS
<1>1. PICK n \in Nat : mem["ipl"] \in [0 .. n - 1 -> Byte]
  BY DEF BusInv, Shaped
<1>2. \A i \in DOMAIN mem["ipl"] : mem["ipl"][i] \in Byte
  BY <1>1
<1>3. /\ DOMAIN mem = DOMAIN Blank \cup {"ipl"}
      /\ \A r \in DOMAIN Blank : mem[r] \in [DOMAIN Blank[r] -> Byte]
  BY DEF BusInv, Shaped, Regions
<1>4. /\ mi_mask \subseteq Interrupts /\ time \in 0 .. Frame - 1
      /\ stale \subseteq Mirrored /\ ops \in 0 .. MaxOps
  BY DEF BusInv, Machine
<1>5. rcp \in [num_halflines: Nat, width: Nat, bitdepth: {"byte", "5551"},
               framebuffer: {Null} \cup ((DOMAIN mem) \X Nat)]
  <2>1. DOMAIN mem = Regions
    BY DEF BusInv, Shaped
  <2> QED
    BY <2>1, Zenon DEF BusInv, Machine
<1> QED
  BY <1>2, <1>3, <1>4, <1>5, Zenon DEF TypeOK

LEMMA TimeIsNatural ==
    ASSUME BusInv
    PROVE  time \in Nat
BY BusAssumption DEF BusInv, Machine

LEMMA RegisterNames ==
    /\ {"MI_INTERRUPT", "PI_STATUS", "VI_V_INTR", "RI_MODE", "PI_CART_ADDR",
        "PI_DRAM_ADDR"} \subseteq Registers
    /\ Registers \cup {"pif", "rdram", "cart", "dmem", "ipl"} = Regions
BY BlankShape DEF Registers, Regions

LEMMA InterruptShaped ==
    ASSUME NEW m, Shaped(m), NEW k \in Interrupts, NEW v \in {0, 1}
    PROVE  Shaped(set_interrupt(m, k, v))
<1>1. "MI_INTERRUPT" \in Registers
  BY RegisterNames
<1>2. Host(m, "MI_INTERRUPT") \in Nat
  BY <1>1, RegisterNumber
<1>3. k \in 0 .. 5
  BY BusAssumption
<1>4. SetBit(Host(m, "MI_INTERRUPT"), k, v) \in Int
  BY <1>2, <1>3, SetBitType
<1>5. HostBytes(SetBit(Host(m, "MI_INTERRUPT"), k, v)) \in [0 .. 3 -> Byte]
  BY <1>4, HostBytesType
<1> QED
  BY <1>1, <1>5, PutRegister DEF set_interrupt

LEMMA ResetShaped ==
    ASSUME NEW m, Shaped(m)
    PROVE  Shaped(BusReset(m)) /\ Shaped(RcpReset(m))
<1>1. {"RI_MODE", "VI_V_INTR"} \subseteq Registers /\ "pif" \in Regions
  BY RegisterNames
<1>2. Shaped([m EXCEPT !["pif"] = Zeros(PifSize)])
  <2>1. DOMAIN m["pif"] = 0 .. PifSize - 1
    BY BlankShape DEF Shaped, Zeros
  <2>2. Zeros(PifSize) \in [0 .. PifSize - 1 -> Byte]
    BY ByteType DEF Zeros
  <2> QED
    BY <1>1, <2>1, <2>2, PutShaped
<1>3. HostBytes(Power[3]) \in [0 .. 3 -> Byte]
  BY Powers, HostBytesType
<1>4. Shaped([[m EXCEPT !["pif"] = Zeros(PifSize)]
                EXCEPT !["RI_MODE"] = HostBytes(Power[3])])
  BY <1>1, <1>2, <1>3, PutRegister, Zenon
<1>5. HostBytes(LineMask - 1) \in [0 .. 3 -> Byte]
  BY BusAssumption, HostBytesType
<1>6. Shaped([m EXCEPT !["VI_V_INTR"] = HostBytes(LineMask - 1)])
  BY <1>1, <1>5, PutRegister, Zenon
<1>7. BusReset(m) = [[m EXCEPT !["pif"] = Zeros(PifSize)]
                        EXCEPT !["RI_MODE"] = HostBytes(Power[3])]
  BY DEF BusReset
<1> QED
  BY <1>4, <1>6, <1>7, Zenon DEF RcpReset

-----------------------------------------------------------------------------
(* DMA.                                                                    *)

LEMMA DmaShaped ==
    ASSUME BusInv, NEW d \in Nat, Copyable(d),
           NEW a, Lines(a)
    PROVE  Shaped(Dma(Touch(mem, a), d))
<1> DEFINE m == Touch(mem, a)
           src == Source(mem)
           s == Slice(m[src[1]], src[2], d + 1)
<1>1. Shaped(mem) /\ Shaped(m)
  BY TimeIsNatural, TouchShaped DEF BusInv
<1>2. m["PI_CART_ADDR"] = mem["PI_CART_ADDR"] /\ "rdram" \in Regions
  BY <1>1, RegisterNames, TouchFrame
<1>3. Source(m) = src
  BY <1>2 DEF Source
<1>4. src # Null /\ Within(mem, src, d + 1)
  BY Zenon DEF Copyable
<1>5. src[1] \in Regions
  BY <1>4, PointerRegion DEF Source
<1>6. PICK n \in Nat : mem[src[1]] \in [0 .. n - 1 -> Byte]
  BY <1>1, <1>5, ShapedAreas
<1>7. src[2] \in 0 .. n - 1 /\ src[2] + (d + 1) - 1 \in 0 .. n - 1
  BY <1>4, <1>6 DEF Within
<1>8. PICK k \in Nat : m[src[1]] \in [0 .. k - 1 -> Byte]
  BY <1>1, <1>5, ShapedAreas
<1>9. k = n
  <2>1. DOMAIN m[src[1]] = DOMAIN mem[src[1]]
    <3>1. CASE src[1] \in DOMAIN Blank
      BY <1>1, <3>1 DEF Shaped
    <3>2. CASE src[1] = "ipl"
      BY <1>1, <1>5, <3>2, TouchFrame
    <3> QED
      BY <1>5, <3>1, <3>2 DEF Regions
  <2> QED
    BY <2>1, <1>6, <1>7, <1>8
<1> HIDE DEF m, src
<1>10. \A i \in DOMAIN s : s[i] \in Byte
  BY <1>7, <1>8, <1>9 DEF Slice
<1>11. Dma(m, d) = [m EXCEPT !["rdram"] = Overlay(@, Target(m), s)]
  BY <1>3 DEF Dma
<1> HIDE DEF s
<1>12. Shaped([m EXCEPT !["rdram"] = Overlay(@, Target(m), s)])
  BY <1>1, <1>2, <1>10, OverlayShaped, Zenon
<1>13. Shaped(Dma(m, d))
  BY <1>11, <1>12, Zenon
<1> QED
  BY <1>13 DEF m

-----------------------------------------------------------------------------
(* Stores.                                                                 *)

Stored == Shaped(mem') /\ mi_mask' \subseteq Interrupts /\ time' = time
          /\ rcp' \in [num_halflines: Nat, width: Nat,
                       bitdepth: {"byte", "5551"},
                       framebuffer: {Null} \cup (Regions \X Nat)]

LEMMA QuietStored ==
    ASSUME BusInv, Quiet, Shaped(mem')
    PROVE  Stored
BY DEF BusInv, Machine, Quiet, Stored

LEMMA PointerNatural ==
    ASSUME Shaped(mem), NEW a, NEW n \in Nat, Accessible(a, n)
    PROVE  /\ Pointer(a) # Null /\ Lines(a)
           /\ Pointer(a) \in Regions \X Nat
<1>1. Pointer(a) # Null /\ Within(mem, Pointer(a), n) /\ Lines(a)
  BY DEF Accessible, Lines
<1>2. Pointer(a)[1] \in Regions
  BY <1>1, PointerRegion
<1>3. PICK k \in Nat : mem[Pointer(a)[1]] \in [0 .. k - 1 -> Byte]
  BY <1>2, ShapedAreas
<1>4. Pointer(a)[2] \in Nat
  BY <1>1, <1>3 DEF Within
<1>5. Pointer(a) = <<Pointer(a)[1], Pointer(a)[2]>>
  BY <1>1 DEF Pointer, redirect_paddress_slow
<1> QED
  BY <1>1, <1>2, <1>4, <1>5

LEMMA StoreStored ==
    ASSUME BusInv, NEW a, NEW d \in Nat, NEW n \in Width,
           store_memory(a, d, n)
    PROVE  Stored /\ stale' \subseteq Mirrored
<1> DEFINE RcpType == [num_halflines: Nat, width: Nat, bitdepth: {"byte", "5551"},
                       framebuffer: {Null} \cup (Regions \X Nat)]
<1>1. /\ Shaped(mem) /\ mi_mask \subseteq Interrupts /\ time \in Nat
      /\ rcp \in RcpType /\ stale \subseteq Mirrored
  BY TimeIsNatural DEF BusInv, Machine
<1>2. n \in 0 .. 8 /\ n \in Nat
  BY DEF Width
<1>3. Pointer(a) # Null /\ Lines(a)
  BY <1>1, <1>2, PointerNatural DEF store_memory
<1>4. ASSUME NEW m, Shaped(m), NEW v \in Int
      PROVE  Shaped(Write(m, a, v, n))
  BY <1>1, <1>2, <1>3, <1>4, WriteShaped
<1>5. stale' \subseteq Mirrored
  BY <1>1 DEF store_memory, Follow
<1> SUFFICES Stored
  BY <1>5
<1>6. CASE StorePlain(a, d, n)
  BY <1>1, <1>4, <1>6, QuietStored DEF StorePlain
<1>7. CASE StorePiStatus(a, d, n)
  <2>1. Shaped([mem EXCEPT !["PI_STATUS"] = Zeros(4)])
    <3>1. Zeros(4) \in [0 .. 3 -> Byte]
      BY ByteType DEF Zeros
    <3> QED
      BY <1>1, <3>1, RegisterNames, PutRegister
  <2> QED
    BY <2>1, <1>4, <1>7, QuietStored DEF StorePiStatus
<1>8. CASE StorePiWrLen(a, d, n)
  <2> DEFINE c == Number(Slice(mem["PI_CART_ADDR"], 0, 4))
             m == Dma(Touch(mem, c), d)
  <2>1. Copyable(d)
    BY <1>8 DEF StorePiWrLen
  <2>2. Lines(c)
    BY <2>1 DEF Copyable, Source, Lines
  <2>3. Shaped(m)
    BY <2>1, <2>2, DmaShaped
  <2>4. mem' = Write(m, a, d, n) /\ Quiet
    BY <1>8 DEF StorePiWrLen
  <2> HIDE DEF m
  <2> QED
    BY <2>3, <2>4, <1>4, QuietStored
<1>9. CASE StoreViCtrl(a, d, n)
  <2>1. Shaped(mem')
    BY <1>1, <1>4, <1>9 DEF StoreViCtrl
  <2>2. rcp' \in RcpType
    BY <1>1, <1>9 DEF StoreViCtrl, Rcp
  <2> QED
    BY <1>1, <1>9, <2>1, <2>2 DEF StoreViCtrl, Rcp, Stored
<1>10. CASE StoreViOrigin(a, d, n)
  <2> DEFINE o == d % OriginMask
  <2>1. Accessible(o, 1) /\ mem' = Write(Touch(mem, o), a, d, n)
    BY <1>10 DEF StoreViOrigin
  <2>2. Lines(o) /\ Pointer(o) \in Regions \X Nat
    BY <1>1, <2>1, PointerNatural
  <2>3. Shaped(Touch(mem, o))
    BY <1>1, <2>2, TouchShaped
  <2>4. Shaped(mem')
    BY <1>4, <2>1, <2>3
  <2>5. rcp' = [rcp EXCEPT !.framebuffer = Pointer(o)]
    BY <1>10 DEF StoreViOrigin, Rcp
  <2>6. rcp' \in RcpType
    BY <1>1, <2>2, <2>5
  <2> QED
    BY <1>1, <1>10, <2>4, <2>6 DEF StoreViOrigin, Rcp, Stored
<1>11. CASE StoreViWidth(a, d, n)
  <2>1. Shaped(mem')
    BY <1>1, <1>4, <1>11 DEF StoreViWidth
  <2>2. rcp' \in RcpType
    BY <1>1, <1>11 DEF StoreViWidth, Rcp
  <2> QED
    BY <1>1, <1>11, <2>1, <2>2 DEF StoreViWidth, Rcp, Stored
<1>12. CASE StoreViCurrent(a, d, n)
  <2>1. Shaped(Acknowledged(mem))
    <3>1. Shaped(set_interrupt(mem, VI, 0))
      BY <1>1, InterruptShaped, BusAssumption
    <3> QED
      BY <3>1 DEF set_interrupt, Acknowledged
  <2> QED
    BY <2>1, <1>4, <1>12, QuietStored DEF StoreViCurrent
<1>13. CASE StoreViIntr(a, d, n)
  <2>1. Shaped([mem EXCEPT !["VI_V_INTR"] = HostBytes(d)])
    BY <1>1, RegisterNames, HostBytesType, PutRegister
  <2>2. d % LineMask \in Int
    BY BusAssumption
  <2> QED
    BY <2>1, <2>2, <1>4, <1>13, QuietStored DEF StoreViIntr
<1>14. CASE StoreViSync(a, d, n)
  <2>1. Shaped(mem')
    BY <1>1, <1>4, <1>14 DEF StoreViSync
  <2>2. rcp' \in RcpType
    <3>1. d \div 2 \in Nat
      OBVIOUS
    <3> QED
      BY <1>1, <1>14, <3>1 DEF StoreViSync, Rcp
  <2> QED
    BY <1>1, <1>14, <2>1, <2>2 DEF StoreViSync, Rcp, Stored
<1>15. CASE StoreMiMask(a, d, n)
  <2>1. mi_mask' \subseteq Interrupts
    BY <1>1, <1>15 DEF StoreMiMask
  <2>2. FromBits(mi_mask') \in Int
    BY FromBitsType
  <2>3. mem' = Write(mem, a, FromBits(mi_mask'), n)
    BY <1>15 DEF StoreMiMask
  <2>4. Shaped(mem')
    BY <1>1, <1>4, <2>2, <2>3
  <2> QED
    BY <1>1, <1>15, <2>1, <2>4 DEF StoreMiMask, Stored
<1>16. CASE StorePifCommand(a, d, n)
  <2>1. PICK z \in Nat, wiped \in {0 .. PifSize - 1, Checksum, {}} :
            mem' = Write([mem EXCEPT !["pif"] = [i \in DOMAIN @ |->
                            IF i \in wiped THEN 0 ELSE @[i]]], a, z, n)
    BY <1>16, BusAssumption DEF StorePifCommand
  <2> DEFINE f == [i \in DOMAIN mem["pif"] |->
                      IF i \in wiped THEN 0 ELSE mem["pif"][i]]
  <2>2. "pif" \in Regions
    BY RegisterNames
  <2>3. mem["pif"] \in [DOMAIN mem["pif"] -> Byte]
    BY <1>1, <2>2, ShapedAreas
  <2>4. f \in [DOMAIN mem["pif"] -> Byte]
    BY <2>3, ByteType
  <2>5. mem' = Write([mem EXCEPT !["pif"] = f], a, z, n)
    BY <2>1
  <2> HIDE DEF f
  <2>6. Shaped([mem EXCEPT !["pif"] = f])
    BY <1>1, <2>2, <2>4, PutShaped, Zenon
  <2>7. Shaped(mem')
    BY <1>4, <2>5, <2>6
  <2> QED
    BY <1>16, <2>7, QuietStored DEF StorePifCommand
<1>17. StorePlain(a, d, n) \/ Invalidate(a, d, n)
  BY DEF store_memory
<1> QED
  BY <1>6, <1>7, <1>8, <1>9, <1>10, <1>11, <1>12, <1>13, <1>14, <1>15,
     <1>16, <1>17, Zenon DEF Invalidate

-----------------------------------------------------------------------------
(* Loads, and the stores that merge what they loaded.                      *)

LEMMA LoadedNumber ==
    ASSUME BusInv, NEW a, NEW n \in Width, Accessible(a, n)
    PROVE  load_memory(a, n) \in 0 .. Power[n] - 1
<1> DEFINE ptr == Pointer(a)
           s == Slice(Touch(mem, a)[ptr[1]], ptr[2], n)
<1>1. Shaped(mem) /\ n \in Nat /\ n \in 0 .. 8 /\ n # 0
  BY DEF BusInv, Width
<1>2. ptr \in Regions \X Nat /\ Lines(a)
  BY <1>1, PointerNatural
<1>3. Shaped(Touch(mem, a))
  BY <1>1, <1>2, TimeIsNatural, TouchShaped
<1>4. DOMAIN Touch(mem, a)[ptr[1]] = DOMAIN mem[ptr[1]]
  <2>1. CASE ptr[1] \in DOMAIN Blank
    BY <1>1, <1>3, <2>1 DEF Shaped
  <2>2. CASE ptr[1] = "ipl"
    BY <1>1, <1>2, <2>2, TouchFrame
  <2> QED
    BY <1>2, <2>1, <2>2 DEF Regions
<1>5. PICK k \in Nat : Touch(mem, a)[ptr[1]] \in [0 .. k - 1 -> Byte]
  BY <1>2, <1>3, ShapedAreas
<1>6. {ptr[2], ptr[2] + n - 1} \subseteq 0 .. k - 1
  <2>1. Within(mem, ptr, n)
    BY DEF Accessible
  <2> QED
    BY <1>4, <1>5, <2>1 DEF Within
<1>7. ptr[2] \in Nat /\ ptr[2] + n <= k
  BY <1>1, <1>2, <1>6
<1> HIDE DEF ptr
<1>8. s \in [1 .. n -> Byte] /\ Len(s) = n
  BY <1>1, <1>5, <1>7, SliceType, Zenon
<1> HIDE DEF s
<1>9. Number(s) \in 0 .. Power[n] - 1
  BY <1>1, <1>8, NumberBound
<1> QED
  BY <1>9 DEF load_memory, s, ptr

(* What an unaligned store merges is a word or doubleword again.           *)
LEMMA MergedNumber ==
    ASSUME NEW n \in {4, 8}, NEW x \in 0 .. Power[n] - 1, NEW rt \in Nat,
           NEW off \in 0 .. n - 1
    PROVE  /\ Upper(x, n, off) + ((rt % Power[n]) \div Power[off])
                 \in 0 .. Power[n] - 1
           /\ Lower(x, n - 1 - off) + Lower(rt * Power[n - 1 - off], n)
                 \in 0 .. Power[n] - 1
<1>1. ASSUME NEW k \in 0 .. n
      PROVE  /\ Power[k] \in Nat \ {0} /\ Power[n - k] \in Nat \ {0}
             /\ Power[n] = Power[k] * Power[n - k]
  <2>1. /\ k \in 0 .. 8 /\ n - k \in 0 .. 8 /\ n - k \in 0 .. 8 - k
        /\ k + (n - k) = n
    OBVIOUS
  <2>2. Power[k + (n - k)] = Power[k] * Power[n - k]
    BY <2>1, PowerSum
  <2> QED
    BY <2>1, <2>2, Powers
<1>2. ASSUME NEW p \in Nat \ {0}, NEW q \in Nat \ {0}, NEW h, h = p * q,
             x \in 0 .. h - 1
      PROVE  /\ (x \div q) * q + ((rt % h) \div p) \in 0 .. h - 1
             /\ (x % p) + ((rt * p) % h) \in 0 .. h - 1
  <2>1. x \in 0 .. (p * q) - 1
    BY <1>2
  <2>2. /\ (x \div q) * q + ((rt % (p * q)) \div p) \in 0 .. (p * q) - 1
        /\ (x % p) + ((rt * p) % (p * q)) \in 0 .. (p * q) - 1
    BY <2>1, MergedParts
  <2> QED
    BY <1>2, <2>2, Zenon
<1>3. /\ Power[off] \in Nat \ {0} /\ Power[n - off] \in Nat \ {0}
      /\ Power[n] = Power[off] * Power[n - off]
  BY <1>1
<1>4. (x \div Power[n - off]) * Power[n - off]
          + ((rt % Power[n]) \div Power[off]) \in 0 .. Power[n] - 1
  BY <1>2, <1>3
<1>5. /\ Power[n - 1 - off] \in Nat \ {0}
      /\ Power[n - (n - 1 - off)] \in Nat \ {0}
      /\ Power[n] = Power[n - 1 - off] * Power[n - (n - 1 - off)]
  <2>1. n - 1 - off \in 0 .. n
    OBVIOUS
  <2> QED
    BY <1>1, <2>1
<1>6. (x % Power[n - 1 - off])
          + ((rt * Power[n - 1 - off]) % Power[n]) \in 0 .. Power[n] - 1
  BY <1>2, <1>5
<1> QED
  BY <1>4, <1>6 DEF Upper, Lower

(* Every store is a store of a number of its size.                         *)
LEMMA RegisterLow ==
    ASSUME NEW n \in Width, NEW rt \in Nat
    PROVE  rt % Power[n] \in 0 .. Power[n] - 1
<1>1. Power[n] \in Nat \ {0}
  BY Powers DEF Width
<1>2. \A q \in Nat \ {0} : rt % q \in 0 .. q - 1
  OBVIOUS
<1> QED
  BY <1>1, <1>2

Merged(x) ==
    \/ StoreLeft(x[1], x[2], x[3], x[4])
    \/ StoreRight(x[1], x[2], x[3], x[4])

LEMMA MergeStores ==
    ASSUME BusInv, NEW x \in Merges, Merged(x)
    PROVE  \E a : \E d \in 0 .. Power[x[3]] - 1 : store_memory(a, d, x[3])
<1> DEFINE n == x[3]
           off == x[2] % n
           a == translate_vaddr(Aligned(x[1], x[2], n))
           l == Upper(load_memory(a, n), n, off)
                    + ((x[4] % Power[n]) \div Power[off])
           r == Lower(load_memory(a, n), n - 1 - off)
                    + Lower(x[4] * Power[n - 1 - off], n)
<1>1. n \in {4, 8} /\ n \in Width /\ x[2] \in Int /\ x[4] \in Nat
  BY MergeAssumption DEF Width
<1>2. off \in 0 .. n - 1
  BY <1>1
<1>3. Accessible(a, n) /\ (store_memory(a, l, n) \/ store_memory(a, r, n))
  BY DEF Merged, StoreLeft, StoreRight
<1>4. load_memory(a, n) \in 0 .. Power[n] - 1
  BY <1>1, <1>3, LoadedNumber
<1>5. l \in 0 .. Power[n] - 1 /\ r \in 0 .. Power[n] - 1
  BY <1>1, <1>2, <1>4, MergedNumber
<1> HIDE DEF a, l, r
<1> QED
  BY <1>3, <1>5

LEMMA StoreActions ==
    ASSUME BusInv,
           \/ \E x \in Stores : Store(x[1], x[2], x[3])
           \/ \E x \in Merges : Merged(x)
    PROVE  /\ ops < MaxOps /\ ops' = ops + 1
           /\ \E a : \E n \in Width : \E d \in 0 .. Power[n] - 1 :
                  store_memory(a, d, n)
<1>1. CASE \E x \in Stores : Store(x[1], x[2], x[3])
  <2>1. PICK x \in Stores : Store(x[1], x[2], x[3])
    BY <1>1
  <2>2. x[2] \in Width /\ x[3] \in Nat
    BY AccessAssumption
  <2>3. x[3] % Power[x[2]] \in 0 .. Power[x[2]] - 1
    BY <2>2, RegisterLow
  <2> QED
    BY <2>1, <2>2, <2>3 DEF Store, Record
<1>2. CASE \E x \in Merges : Merged(x)
  <2>1. PICK x \in Merges : Merged(x)
    BY <1>2
  <2>2. x[3] \in Width
    BY MergeAssumption DEF Width
  <2>3. ops < MaxOps /\ ops' = ops + 1
    BY <2>1 DEF Merged, StoreLeft, StoreRight, Unaligned
  <2> QED
    BY <2>1, <2>2, <2>3, MergeStores
<1> QED
  BY <1>1, <1>2

LEMMA StoreKeeps ==
    ASSUME BusInv, NEW a, NEW d \in Nat, NEW n \in Width,
           store_memory(a, d, n), ops < MaxOps, ops' = ops + 1
    PROVE  BusInv'
<1>1. Stored /\ stale' \subseteq Mirrored
  BY StoreStored
<1>2. ops' \in 0 .. MaxOps
  BY AccessAssumption DEF BusInv, Machine
<1>3. time' \in 0 .. Frame - 1
  BY <1>1 DEF Stored, BusInv, Machine
<1>4. Shaped(mem)'
  BY <1>1 DEF Stored, Shaped
<1> QED
  BY <1>1, <1>2, <1>3, <1>4 DEF Stored, BusInv, Machine

LEMMA LookKeeps ==
    ASSUME BusInv, NEW a, NEW n \in Nat, Accessible(a, n), mem' = Touch(mem, a),
           Quiet, stale' = stale, ops < MaxOps, ops' = ops + 1
    PROVE  BusInv'
<1>1. Lines(a)
  BY PointerNatural DEF BusInv
<1>2. Shaped(mem')
  BY <1>1, TimeIsNatural, TouchShaped DEF BusInv
<1>3. ops' \in 0 .. MaxOps
  BY AccessAssumption DEF BusInv, Machine
<1> QED
  BY <1>2, <1>3 DEF BusInv, Machine, Quiet, Shaped

-----------------------------------------------------------------------------
(* Files.                                                                  *)

LEMMA IplShaped ==
    ASSUME NEW m, Shaped(m), NEW f, \E n \in Nat : f \in [0 .. n - 1 -> Byte]
    PROVE  Shaped([m EXCEPT !["ipl"] = f])
<1> DEFINE w == [m EXCEPT !["ipl"] = f]
<1>1. "ipl" \in Regions /\ "ipl" \notin DOMAIN Blank
  BY BlankShape DEF Regions
<1>2. DOMAIN w = Regions /\ w["ipl"] = f /\ \A x \in DOMAIN Blank : w[x] = m[x]
  BY <1>1 DEF Shaped, Regions
<1> HIDE DEF w
<1>3. Shaped(w)
  BY <1>2 DEF Shaped
<1> QED
  BY <1>3 DEF w

LEMMA FileArray ==
    ASSUME NEW f \in Files
    PROVE  /\ f \in Seq(Byte) /\ Len(f) \in Nat
           /\ Array(f) \in [0 .. Len(f) - 1 -> Byte]
<1>1. f \in Seq(Byte) /\ Len(f) \in Nat
  BY FileAssumption
<1> QED
  BY <1>1, ArrayType

LEMMA FilesKeep ==
    ASSUME BusInv, NEW ipl \in Files \cup {Missing}, NEW rom \in Files \cup {Missing},
           LoadFile(ipl, rom)
    PROVE  BusInv'
<1> DEFINE opened == rom # Missing
           image == IF opened THEN Inserted(rom) ELSE mem["cart"]
           boot == IplAfter(ipl)
           m == [[mem EXCEPT !["ipl"] = boot] EXCEPT !["cart"] = image]
<1>1. Shaped(mem) /\ {"ipl", "cart"} \subseteq Regions
  BY RegisterNames DEF BusInv
<1>2. \E n \in Nat : boot \in [0 .. n - 1 -> Byte]
  <2>1. \E n \in Nat : mem["ipl"] \in [0 .. n - 1 -> Byte]
    BY <1>1 DEF Shaped
  <2>2. ASSUME ipl # Missing
        PROVE  \E n \in Nat : Array(ipl) \in [0 .. n - 1 -> Byte]
    BY <2>2, FileArray
  <2> QED
    BY <2>1, <2>2 DEF IplAfter
<1>3. image \in [DOMAIN mem["cart"] -> Byte]
  <2>1. mem["cart"] \in [DOMAIN mem["cart"] -> Byte]
    BY <1>1, ShapedAreas
  <2>2. ASSUME opened
        PROVE  Inserted(rom) \in [DOMAIN mem["cart"] -> Byte]
    <3>1. rom \in Seq(Byte)
      BY <2>2, FileArray
    <3>2. \A i \in DOMAIN rom : rom[i] \in Byte
      BY <3>1
    <3> QED
      BY <2>1, <3>2, OverlayType DEF Inserted
  <2> QED
    BY <2>1, <2>2
<1>4. mem' = IF opened THEN BusReset(m) ELSE m
  BY DEF LoadFile
<1> HIDE DEF image, boot
<1>5. Shaped([mem EXCEPT !["ipl"] = boot])
  BY <1>1, <1>2, IplShaped
<1>6. [mem EXCEPT !["ipl"] = boot]["cart"] = mem["cart"]
  BY <1>1 DEF Shaped
<1>7. Shaped(m)
  BY <1>1, <1>3, <1>5, <1>6, PutShaped
<1> HIDE DEF m
<1>8. Shaped(mem')
  BY <1>4, <1>7, ResetShaped
<1>9. /\ mi_mask' \subseteq Interrupts /\ time' \in 0 .. Frame - 1
      /\ rcp' = rcp /\ stale' \subseteq Mirrored /\ ops' \in 0 .. MaxOps
  <2>1. /\ ops < MaxOps /\ ops' = ops + 1
        /\ time' = IF opened THEN 0 ELSE time
        /\ UNCHANGED <<mi_mask, rcp, stale>>
    BY DEF LoadFile
  <2> QED
    BY <2>1, BusAssumption, AccessAssumption DEF BusInv, Machine
<1> QED
  BY <1>8, <1>9 DEF BusInv, Machine, Shaped

-----------------------------------------------------------------------------
LEMMA BusInvInit == Init => BusInv
<1> SUFFICES ASSUME Init PROVE BusInv
  OBVIOUS
<1>1. PICK ipl \in Files \cup {<<>>} :
          mem = RcpReset(BusReset([r \in DOMAIN Blank \cup {"ipl"} |->
                    IF r = "ipl" THEN Array(ipl) ELSE Blank[r]]))
  BY Zenon DEF Init
<1> DEFINE m == [r \in DOMAIN Blank \cup {"ipl"} |->
                    IF r = "ipl" THEN Array(ipl) ELSE Blank[r]]
<1>2. ipl \in Seq(Byte) /\ Len(ipl) \in Nat
  <2>1. << >> \in Seq(Byte) /\ \A f \in Files : f \in Seq(Byte)
    BY FileAssumption
  <2>2. \A f \in Seq(Byte) : Len(f) \in Nat
    OBVIOUS
  <2> QED
    BY <2>1, <2>2, Zenon
<1>3. \E n \in Nat : Array(ipl) \in [0 .. n - 1 -> Byte]
  BY <1>2, ArrayType
<1>4. /\ DOMAIN m = Regions /\ m["ipl"] = Array(ipl)
      /\ \A r \in DOMAIN Blank : m[r] = Blank[r]
  BY BlankShape DEF Regions
<1>5. mem = RcpReset(BusReset(m))
  BY <1>1
<1> HIDE DEF m
<1>6. \A r \in DOMAIN Blank : Blank[r] \in [DOMAIN Blank[r] -> Byte]
  BY BlankAreas
<1>7. Shaped(m)
  BY <1>3, <1>4, <1>6 DEF Shaped
<1>8. Shaped(mem)
  BY <1>5, <1>7, ResetShaped
<1>9. /\ mi_mask = {} /\ time = 0 /\ ops = 0 /\ stale \subseteq Mirrored
      /\ rcp = [num_halflines |-> DefaultLines, framebuffer |-> Null,
                width |-> DefaultWidth, bitdepth |-> "byte"]
  BY DEF Init
<1>10. /\ time \in 0 .. Frame - 1 /\ ops \in 0 .. MaxOps
       /\ DefaultLines \in Nat /\ DefaultWidth \in Nat
  BY <1>9, BusAssumption, AccessAssumption
<1> QED
  BY <1>8, <1>9, <1>10 DEF BusInv, Machine

(* A step of the machine itself.                                           *)
LEMMA CycleKeeps ==
    ASSUME BusInv, Tick \/ HandleVi \/ Reset
    PROVE  BusInv'
<1>1. Shaped(mem) /\ {VI, AI} \subseteq Interrupts
  BY BusAssumption DEF BusInv
<1>2. ops' \in 0 .. MaxOps
  BY AccessAssumption DEF BusInv, Machine, Tick, HandleVi, Reset, Record
<1>3. CASE Tick
  <2>1. Shaped(mem')
    BY <1>1, <1>3, InterruptShaped DEF Tick
  <2>2. time' \in 0 .. Frame - 1
    BY <1>3, BusAssumption DEF Tick, BusInv, Machine
  <2> QED
    BY <1>2, <1>3, <2>1, <2>2 DEF Tick, BusInv, Machine, Shaped
<1>4. CASE HandleVi
  <2>1. Shaped(mem')
    BY <1>1, <1>4, InterruptShaped DEF HandleVi
  <2> QED
    BY <1>2, <1>4, <2>1 DEF HandleVi, Quiet, BusInv, Machine, Shaped
<1>5. CASE Reset
  <2>1. Shaped(BusReset(mem))
    BY <1>1, ResetShaped
  <2>2. Shaped(RcpReset(BusReset(mem)))
    BY <2>1, ResetShaped
  <2>3. Shaped(mem')
    BY <1>5, <2>2 DEF Reset
  <2>4. time' \in 0 .. Frame - 1 /\ stale' \subseteq Mirrored
    BY <1>5, BusAssumption DEF Reset, BusInv, Machine, Mirrored
  <2>5. rcp' \in [num_halflines: Nat, width: Nat, bitdepth: {"byte", "5551"},
                  framebuffer: {Null} \cup (Regions \X Nat)]
    BY <1>5, BusAssumption DEF Reset, BusInv, Machine
  <2> QED
    BY <1>2, <1>5, <2>3, <2>4, <2>5 DEF Reset, BusInv, Machine, Shaped
<1> QED
  BY <1>3, <1>4, <1>5

LEMMA BusInvNext ==
    BusInv /\ [UnalignedNext]_vars => BusInv'
<1> SUFFICES ASSUME BusInv, [UnalignedNext]_vars PROVE BusInv'
  OBVIOUS
<1>1. CASE UNCHANGED vars
  BY <1>1 DEF vars, BusInv, Machine, Shaped
<1>2. CASE \E x \in Loads : Load(x[1], x[2], x[3])
  <2>1. PICK x \in Loads : Load(x[1], x[2], x[3])
    BY <1>2
  <2>2. x[2] \in Nat
    BY AccessAssumption DEF Width
  <2> QED
    BY <2>1, <2>2, LookKeeps DEF Load, Record
<1>3. CASE \/ \E x \in Stores : Store(x[1], x[2], x[3])
           \/ \E x \in Merges : Merged(x)
  <2>1. PICK a : \E n \in Width : \E d \in 0 .. Power[n] - 1 :
            store_memory(a, d, n)
    BY <1>3, StoreActions
  <2>2. PICK n \in Width : \E d \in 0 .. Power[n] - 1 : store_memory(a, d, n)
    BY <2>1
  <2>3. PICK d \in 0 .. Power[n] - 1 : store_memory(a, d, n)
    BY <2>2
  <2>4. d \in Nat /\ ops < MaxOps /\ ops' = ops + 1
    BY <1>3, StoreActions
  <2> QED
    BY <2>3, <2>4, StoreKeeps
<1>4. CASE \E ipl, rom \in Files \cup {Missing} : LoadFile(ipl, rom)
  BY <1>4, FilesKeep
<1>5. CASE \E x \in Merges : LoadLeft(x[1], x[2], x[4]) \/ LoadRight(x[1], x[2], x[4])
  BY <1>5, LookKeeps DEF LoadLeft, LoadRight, Unaligned
<1>6. CASE Tick \/ HandleVi \/ Reset
  BY <1>6, CycleKeeps
<1> QED
  BY <1>1, <1>2, <1>3, <1>4, <1>5, <1>6, Zenon
  DEF UnalignedNext, Next, Horizon, Merged

(* No load, store, DMA, reset or file changes the length of a host object  *)
(* or puts anything but bytes into one, and the picture, the interrupt     *)
(* mask and the time stay what the host can work with.                     *)
THEOREM HostObjectsKeepTheirShape == UnalignedSpec => []TypeOK
<1> QED
  BY BusInvInit, BusInvNext, BusInvImpliesTypeOK, PTL DEF UnalignedSpec

-----------------------------------------------------------------------------
(* What the host works with is what the program reads.                     *)

Word(m, r) == Number(Slice(m[r], 0, 4))

(* The part of HostFollowsRegisters about one register.                    *)
Agrees(r) ==
    /\ r = "VI_WIDTH" => rcp.width = Word(mem, r)
    /\ r = "VI_V_SYNC" => rcp.num_halflines = Word(mem, r) \div 2
    /\ r = "VI_ORIGIN" => rcp.framebuffer = Pointer(Word(mem, r) % OriginMask)
    /\ r = "VI_CTRL" => Word(mem, r) % 4 = IF rcp.bitdepth = "byte" THEN 3 ELSE 2
    /\ r = "MI_MASK" => Bits(Word(mem, r)) = mi_mask

LEMMA FollowsIsAgreement ==
    HostFollowsRegisters <=> \A r \in Mirrored \ stale : Agrees(r)
BY DEF HostFollowsRegisters, Agrees, Word, Mirrored

(* Neither the register nor what the host made of it changes.              *)
Same(r) ==
    /\ mem'[r] = mem[r]
    /\ r = "VI_WIDTH" => rcp'.width = rcp.width
    /\ r = "VI_V_SYNC" => rcp'.num_halflines = rcp.num_halflines
    /\ r = "VI_ORIGIN" => rcp'.framebuffer = rcp.framebuffer
    /\ r = "VI_CTRL" => rcp'.bitdepth = rcp.bitdepth
    /\ r = "MI_MASK" => mi_mask' = mi_mask

LEMMA SameAgrees ==
    ASSUME NEW r \in Mirrored, Agrees(r), Same(r)
    PROVE  Agrees(r)'
BY DEF Agrees, Same, Word, Mirrored

LEMMA SixBits ==
    ASSUME NEW u0 \in {0, 1}, NEW u1 \in {0, 1}, NEW u2 \in {0, 1},
           NEW u3 \in {0, 1}, NEW u4 \in {0, 1}, NEW u5 \in {0, 1},
           NEW x, x = u0 + 2 * u1 + 4 * u2 + 8 * u3 + 16 * u4 + 32 * u5
    PROVE  /\ (x \div 1) % 2 = u0 /\ (x \div 2) % 2 = u1
           /\ (x \div 4) % 2 = u2 /\ (x \div 8) % 2 = u3
           /\ (x \div 16) % 2 = u4 /\ (x \div 32) % 2 = u5
           /\ (x \div 64) % 2 = 0 /\ (x \div 128) % 2 = 0
           /\ (x \div 256) % 2 = 0 /\ (x \div 512) % 2 = 0
           /\ (x \div 1024) % 2 = 0 /\ (x \div 2048) % 2 = 0
OBVIOUS

(* The six bits of a set, and the set of them.                             *)
LEMMA BitsOfSix ==
    ASSUME NEW u0 \in {0, 1}, NEW u1 \in {0, 1}, NEW u2 \in {0, 1},
           NEW u3 \in {0, 1}, NEW u4 \in {0, 1}, NEW u5 \in {0, 1},
           NEW x, x = u0 + 2 * u1 + 4 * u2 + 8 * u3 + 16 * u4 + 32 * u5
    PROVE  \A k \in 0 .. 11 :
               k \in Bits(x) <=> \/ (k = 0 /\ u0 = 1) \/ (k = 1 /\ u1 = 1)
                                 \/ (k = 2 /\ u2 = 1) \/ (k = 3 /\ u3 = 1)
                                 \/ (k = 4 /\ u4 = 1) \/ (k = 5 /\ u5 = 1)
<1>1. \A k \in 0 .. 11 : k \in {0, 1, 2, 3, 4, 5, 6, 7, 8, 9, 10, 11}
  OBVIOUS
<1>2. /\ (x \div 1) % 2 = u0 /\ (x \div 2) % 2 = u1
      /\ (x \div 4) % 2 = u2 /\ (x \div 8) % 2 = u3
      /\ (x \div 16) % 2 = u4 /\ (x \div 32) % 2 = u5
      /\ (x \div 64) % 2 = 0 /\ (x \div 128) % 2 = 0
      /\ (x \div 256) % 2 = 0 /\ (x \div 512) % 2 = 0
      /\ (x \div 1024) % 2 = 0 /\ (x \div 2048) % 2 = 0
  BY SixBits
<1> QED
  BY <1>1, <1>2, BitValues DEF Bits

LEMMA BitsOfSet ==
    ASSUME NEW S, S \subseteq 0 .. 5
    PROVE  Bits(FromBits(S)) = S
<1>1. PICK u0, u1, u2, u3, u4, u5 \in {0, 1} :
        /\ u0 = IF 0 \in S THEN 1 ELSE 0
        /\ u1 = IF 1 \in S THEN 1 ELSE 0
        /\ u2 = IF 2 \in S THEN 1 ELSE 0
        /\ u3 = IF 3 \in S THEN 1 ELSE 0
        /\ u4 = IF 4 \in S THEN 1 ELSE 0
        /\ u5 = IF 5 \in S THEN 1 ELSE 0
  OBVIOUS
<1>2. FromBits(S) = u0 + 2 * u1 + 4 * u2 + 8 * u3 + 16 * u4 + 32 * u5
  BY <1>1, BitValues DEF FromBits
<1>3. \A k \in 0 .. 11 :
          k \in Bits(FromBits(S)) <=>
              \/ (k = 0 /\ u0 = 1) \/ (k = 1 /\ u1 = 1)
              \/ (k = 2 /\ u2 = 1) \/ (k = 3 /\ u3 = 1)
              \/ (k = 4 /\ u4 = 1) \/ (k = 5 /\ u5 = 1)
  BY <1>2, BitsOfSix
<1>4. \A k \in 0 .. 11 : k \in Bits(FromBits(S)) <=> k \in S
  BY <1>1, <1>3
<1>5. S \subseteq 0 .. 11 /\ Bits(FromBits(S)) \subseteq 0 .. 11
  BY DEF Bits
<1> QED
  BY <1>4, <1>5

LEMMA MaskFits ==
    ASSUME NEW S, S \subseteq Interrupts
    PROVE  FromBits(S) \in Nat /\ FromBits(S) < Power[4] /\ Bits(FromBits(S)) = S
<1>1. S \subseteq 0 .. 5
  BY BusAssumption
<1>2. FromBits(S) <= FromBits(Interrupts)
  BY BitValues DEF FromBits
<1>3. FromBits(S) < Power[4]
  BY <1>2, FromBitsType, LayoutAssumption, Powers
<1> QED
  BY <1>1, <1>3, BitsOfSet, FromBitsType

(* Every register is behind its address and behind no other.               *)
LEMMA RegisterPointer ==
    /\ \A r \in Registers : Pointer(Address[r]) = <<r, 0>>
    /\ \A a : Pointer(a)[1] \in Registers => a = Address[Pointer(a)[1]]
<1>1. ASSUME NEW a, NEW p, PageTable(p) # Null
      PROVE  PageTable(p)[1] \notin Registers
  BY <1>1 DEF PageTable, Registers
<1>2. Null[1] \notin Registers
  BY DEF Null, Registers
<1>3. ASSUME NEW r \in Registers
      PROVE  Pointer(Address[r]) = <<r, 0>>
  <2>1. PageTable(Address[r] \div Page) = Null
    BY LayoutAssumption
  <2>2. (CHOOSE s \in Registers : Address[s] = Address[r]) = r
    BY LayoutAssumption
  <2>3. redirect_paddress_slow(Address[r]) = <<r, 0>>
    BY <2>2 DEF redirect_paddress_slow
  <2> QED
    BY <2>1, <2>3 DEF Pointer
<1>4. ASSUME NEW a, Pointer(a)[1] \in Registers
      PROVE  a = Address[Pointer(a)[1]]
  <2>1. CASE PageTable(a \div Page) # Null
    <3>1. Pointer(a)[1] = PageTable(a \div Page)[1]
      BY <2>1 DEF Pointer
    <3> QED
      BY <1>1, <1>4, <2>1, <3>1
  <2>2. CASE PageTable(a \div Page) = Null
    <3>1. Pointer(a) = redirect_paddress_slow(a)
      BY <2>2 DEF Pointer
    <3>2. {"ipl", "pif", "dmem"} \cap Registers = {}
      BY DEF Registers
    <3>3. \E r \in Registers : Address[r] = a
      BY <1>2, <1>4, <3>1, <3>2 DEF redirect_paddress_slow
    <3>4. redirect_paddress_slow(a)[1] = CHOOSE r \in Registers : Address[r] = a
      BY <3>3 DEF redirect_paddress_slow
    <3>5. Address[CHOOSE r \in Registers : Address[r] = a] = a
      BY <3>3
    <3> QED
      BY <3>1, <3>4, <3>5
  <2> QED
    BY <2>1, <2>2
<1> QED
  BY <1>3, <1>4

LEMMA MirroredNames ==
    Mirrored \subseteq Registers /\ Mirrored \subseteq Regions \ {"pif", "VI_V_CURRENT",
        "rdram", "cart", "ipl", "MI_INTERRUPT", "PI_STATUS", "VI_V_INTR", "RI_MODE"}
BY BlankShape DEF Mirrored, Registers, Regions

LEMMA WriteFrame ==
    ASSUME NEW m, DOMAIN m = Regions, NEW a, NEW d, NEW n,
           NEW r \in Mirrored, Pointer(a)[1] # r
    PROVE  Write(m, a, d, n)[r] = m[r] /\ Touch(m, a)[r] = m[r]
<1>1. r \in Regions \ {"pif", "VI_V_CURRENT"}
  BY MirroredNames
<1>2. Touch(m, a)[r] = m[r] /\ DOMAIN Touch(m, a) = Regions
  BY <1>1 DEF Touch
<1> QED
  BY <1>1, <1>2 DEF Write

(* A store of a word is what the next load returns.                        *)
LEMMA WholeWrite ==
    ASSUME NEW m, Shaped(m), NEW r \in Mirrored, NEW a, a = Address[r],
           NEW d \in Nat, d < Power[4]
    PROVE  Word(Write(m, a, d, 4), r) = d
<1> DEFINE s == ToBytes(d, 4)
           t == Touch(m, a)
<1>1. Pointer(a) = <<r, 0>>
  BY RegisterPointer, MirroredNames
<1>2. r \in Regions \ {"pif", "VI_V_CURRENT"}
  BY MirroredNames
<1>3. t[r] = m[r] /\ DOMAIN t = Regions
  BY <1>2 DEF Touch, Shaped
<1>4. DOMAIN m[r] = 0 .. 3
  BY MirroredNames, RegisterArea
<1>5. s \in [1 .. 4 -> Byte] /\ DOMAIN s = 1 .. 4
  BY BytesType
<1>6. Write(m, a, d, 4) = [t EXCEPT ![r] = Overlay(@, 0, s)]
  BY <1>1 DEF Write
<1> HIDE DEF s, t
<1>7. Write(m, a, d, 4)[r] = Overlay(m[r], 0, s)
  BY <1>2, <1>3, <1>6
<1>8. Slice(Overlay(m[r], 0, s), 0, 4) = s
  <2>1. ASSUME NEW i \in 1 .. 4
        PROVE  Overlay(m[r], 0, s)[0 + i - 1] = s[i]
    <3>1. 0 + i - 1 \in 0 .. 3 /\ (0 + i - 1) - 0 + 1 = i
      OBVIOUS
    <3> QED
      BY <1>4, <1>5, <3>1 DEF Overlay
  <2>2. Slice(Overlay(m[r], 0, s), 0, 4) = [i \in 1 .. 4 |-> s[i]]
    BY <2>1 DEF Slice
  <2> QED
    BY <1>5, <2>2
<1>9. Number(s) = d
  BY NumberOfBytes DEF s
<1> QED
  BY <1>7, <1>8, <1>9 DEF Word

(* A store leaves the registers it does not go to as they are, and what    *)
(* the host made of them.                                                  *)
LEMMA StoreSame ==
    ASSUME BusInv, NEW a, NEW d \in Nat, NEW n \in Width, store_memory(a, d, n),
           NEW r \in Mirrored, Pointer(a)[1] # r
    PROVE  Same(r)
<1>1. DOMAIN mem = Regions
  BY DEF BusInv, Shaped
<1>2. r \in Regions \ {"pif", "VI_V_CURRENT", "rdram", "cart", "ipl",
                       "MI_INTERRUPT", "PI_STATUS", "VI_V_INTR", "RI_MODE"}
  BY MirroredNames
<1>3. a # Address[r]
  <2>1. Pointer(Address[r]) = <<r, 0>>
    BY RegisterPointer, MirroredNames
  <2> QED
    BY <2>1
<1>4. ASSUME NEW m, DOMAIN m = Regions, m[r] = mem[r], NEW v,
             mem' = Write(m, a, v, n)
      PROVE  mem'[r] = mem[r]
  BY <1>4, WriteFrame
<1>5. \A c : DOMAIN Touch(mem, c) = Regions /\ Touch(mem, c)[r] = mem[r]
  BY <1>1, <1>2 DEF Touch
<1>6. CASE Quiet /\ mem'[r] = mem[r]
  BY <1>6 DEF Quiet, Same
<1>7. CASE StorePlain(a, d, n)
  BY <1>1, <1>4, <1>6, <1>7 DEF StorePlain
<1>8. CASE StorePiStatus(a, d, n)
  <2> DEFINE m == [mem EXCEPT !["PI_STATUS"] = Zeros(4)]
  <2>1. DOMAIN m = Regions /\ m[r] = mem[r]
    BY <1>1, <1>2
  <2>2. mem' = Write(m, a, 0, n) /\ Quiet
    BY <1>8 DEF StorePiStatus
  <2> HIDE DEF m
  <2> QED
    BY <1>4, <1>6, <2>1, <2>2
<1>9. CASE StorePiWrLen(a, d, n)
  <2> DEFINE t == Touch(mem, Number(Slice(mem["PI_CART_ADDR"], 0, 4)))
             m == Dma(t, d)
  <2>1. DOMAIN t = Regions /\ t[r] = mem[r]
    BY <1>5
  <2>2. mem' = Write(m, a, d, n) /\ Quiet
    BY <1>9 DEF StorePiWrLen
  <2> HIDE DEF t
  <2>3. DOMAIN m = Regions /\ m[r] = mem[r]
    BY <1>2, <2>1 DEF Dma
  <2> HIDE DEF m
  <2> QED
    BY <1>4, <1>6, <2>2, <2>3
<1>10. CASE StoreViCtrl(a, d, n)
  <2>1. mem'[r] = mem[r] /\ r # "VI_CTRL"
    BY <1>1, <1>3, <1>4, <1>10 DEF StoreViCtrl
  <2>2. /\ rcp'.width = rcp.width /\ rcp'.num_halflines = rcp.num_halflines
        /\ rcp'.framebuffer = rcp.framebuffer /\ mi_mask' = mi_mask
    BY <1>10 DEF StoreViCtrl, Rcp, BusInv, Machine
  <2> QED
    BY <2>1, <2>2 DEF Same
<1>11. CASE StoreViOrigin(a, d, n)
  <2> DEFINE m == Touch(mem, d % OriginMask)
  <2>1. DOMAIN m = Regions /\ m[r] = mem[r]
    BY <1>5
  <2>2. mem' = Write(m, a, d, n) /\ r # "VI_ORIGIN"
    BY <1>3, <1>11 DEF StoreViOrigin
  <2> HIDE DEF m
  <2>3. mem'[r] = mem[r]
    BY <1>4, <2>1, <2>2
  <2>4. /\ rcp'.width = rcp.width /\ rcp'.num_halflines = rcp.num_halflines
        /\ rcp'.bitdepth = rcp.bitdepth /\ mi_mask' = mi_mask
    BY <1>11 DEF StoreViOrigin, Rcp, BusInv, Machine
  <2> QED
    BY <2>2, <2>3, <2>4 DEF Same
<1>12. CASE StoreViWidth(a, d, n)
  <2>1. mem'[r] = mem[r] /\ r # "VI_WIDTH"
    BY <1>1, <1>3, <1>4, <1>12 DEF StoreViWidth
  <2>2. /\ rcp'.bitdepth = rcp.bitdepth /\ rcp'.num_halflines = rcp.num_halflines
        /\ rcp'.framebuffer = rcp.framebuffer /\ mi_mask' = mi_mask
    BY <1>12 DEF StoreViWidth, Rcp, BusInv, Machine
  <2> QED
    BY <2>1, <2>2 DEF Same
<1>13. CASE StoreViCurrent(a, d, n)
  <2> DEFINE m == Acknowledged(mem)
  <2>1. DOMAIN m = Regions /\ m[r] = mem[r]
    BY <1>1, <1>2 DEF Acknowledged
  <2>2. mem' = Write(m, a, d, n) /\ Quiet
    BY <1>13 DEF StoreViCurrent
  <2> HIDE DEF m
  <2> QED
    BY <1>4, <1>6, <2>1, <2>2
<1>14. CASE StoreViIntr(a, d, n)
  <2> DEFINE m == [mem EXCEPT !["VI_V_INTR"] = HostBytes(d)]
  <2>1. DOMAIN m = Regions /\ m[r] = mem[r]
    BY <1>1, <1>2
  <2>2. mem' = Write(m, a, d % LineMask, n) /\ Quiet
    BY <1>14 DEF StoreViIntr
  <2> HIDE DEF m
  <2> QED
    BY <1>4, <1>6, <2>1, <2>2
<1>15. CASE StoreViSync(a, d, n)
  <2>1. mem'[r] = mem[r] /\ r # "VI_V_SYNC"
    BY <1>1, <1>3, <1>4, <1>15 DEF StoreViSync
  <2>2. /\ rcp'.bitdepth = rcp.bitdepth /\ rcp'.width = rcp.width
        /\ rcp'.framebuffer = rcp.framebuffer /\ mi_mask' = mi_mask
    BY <1>15 DEF StoreViSync, Rcp, BusInv, Machine
  <2> QED
    BY <2>1, <2>2 DEF Same
<1>16. CASE StoreMiMask(a, d, n)
  <2>1. mem'[r] = mem[r] /\ r # "MI_MASK"
    BY <1>1, <1>3, <1>4, <1>16 DEF StoreMiMask
  <2>2. rcp' = rcp
    BY <1>16 DEF StoreMiMask
  <2> QED
    BY <2>1, <2>2 DEF Same
<1>17. CASE StorePifCommand(a, d, n)
  <2>1. PICK z \in Nat, wiped \in {0 .. PifSize - 1, Checksum, {}} :
            mem' = Write([mem EXCEPT !["pif"] = [i \in DOMAIN @ |->
                            IF i \in wiped THEN 0 ELSE @[i]]], a, z, n)
    BY <1>17, BusAssumption DEF StorePifCommand
  <2> DEFINE m == [mem EXCEPT !["pif"] = [i \in DOMAIN @ |->
                            IF i \in wiped THEN 0 ELSE @[i]]]
  <2>2. DOMAIN m = Regions /\ m[r] = mem[r]
    BY <1>1, <1>2
  <2>3. mem' = Write(m, a, z, n) /\ Quiet
    BY <1>17, <2>1 DEF StorePifCommand
  <2> HIDE DEF m
  <2> QED
    BY <1>4, <1>6, <2>2, <2>3
<1>18. StorePlain(a, d, n) \/ Invalidate(a, d, n)
  BY DEF store_memory
<1> QED
  BY <1>7, <1>8, <1>9, <1>10, <1>11, <1>12, <1>13, <1>14, <1>15, <1>16, <1>17,
     <1>18, Zenon DEF Invalidate

(* A store of a word that the host looked at is followed by it.            *)
LEMMA StoreAgrees ==
    ASSUME BusInv, NEW a, NEW d \in Nat, NEW n \in Width, store_memory(a, d, n),
           n = 4 => d < Power[4],
           NEW r \in Mirrored, Pointer(a)[1] = r, r \notin stale'
    PROVE  Agrees(r)'
<1>1. a = Address[r] /\ r \in Registers /\ Pointer(a) = <<r, 0>>
  BY RegisterPointer, MirroredNames
<1>2. d # 0 /\ n >= 4 /\ (r = "VI_CTRL" => d % 4 >= 2)
  <2>1. stale' = IF d = 0 \/ n < 4 \/ (r = "VI_CTRL" /\ d % 4 < 2)
                 THEN stale \cup {r} ELSE stale \ {r}
    BY DEF store_memory, Follow
  <2>2. ~(d = 0 \/ n < 4 \/ (r = "VI_CTRL" /\ d % 4 < 2))
    BY <2>1
  <2>3. n \in Nat /\ d % 4 \in Nat
    BY DEF Width
  <2> QED
    BY <2>2, <2>3
<1>3. n = 4
  <2>1. Within(mem, <<r, 0>>, n)
    BY <1>1 DEF store_memory, Accessible
  <2>2. mem[r] \in [0 .. 3 -> Byte]
    BY <1>1, RegisterArea DEF BusInv
  <2>3. 0 + n - 1 \in 0 .. 3
    BY <2>1, <2>2 DEF Within
  <2> QED
    BY <1>2, <2>3 DEF Width
<1>4. d < Power[4] /\ Shaped(mem)
  BY <1>3 DEF BusInv
<1>5. ASSUME NEW m, Shaped(m), NEW v \in Nat, v < Power[4],
             mem' = Write(m, a, v, n)
      PROVE  Word(mem', r) = v
  BY <1>1, <1>3, <1>5, WholeWrite
<1>6. Invalidate(a, d, n)
  <2>1. a \in Handled
    BY <1>1 DEF Handled, Mirrored
  <2> QED
    BY <1>2, <2>1 DEF store_memory, StorePlain
<1>7. \A s \in Registers : a = Address[s] => s = r
  BY <1>1, LayoutAssumption
<1>8. CASE r = "VI_WIDTH"
  <2>1. StoreViWidth(a, d, n)
    BY <1>1, <1>6, <1>7, <1>8, LayoutAssumption
    DEF Invalidate, StorePiStatus, StorePiWrLen, StoreViCtrl, StoreViOrigin,
        StoreViCurrent, StoreViIntr, StoreViSync, StoreMiMask, StorePifCommand,
        Registers
  <2>2. Word(mem', r) = d
    BY <1>4, <1>5, <2>1 DEF StoreViWidth
  <2>3. rcp'.width = d
    BY <2>1 DEF StoreViWidth, Rcp, BusInv, Machine
  <2> QED
    BY <1>8, <2>2, <2>3 DEF Agrees, Word
<1>9. CASE r = "VI_V_SYNC"
  <2>1. StoreViSync(a, d, n)
    BY <1>1, <1>6, <1>7, <1>9, LayoutAssumption
    DEF Invalidate, StorePiStatus, StorePiWrLen, StoreViCtrl, StoreViOrigin,
        StoreViCurrent, StoreViIntr, StoreViWidth, StoreMiMask, StorePifCommand,
        Registers
  <2>2. Word(mem', r) = d
    BY <1>4, <1>5, <2>1 DEF StoreViSync
  <2>3. rcp'.num_halflines = d \div 2
    BY <2>1 DEF StoreViSync, Rcp, BusInv, Machine
  <2> QED
    BY <1>9, <2>2, <2>3 DEF Agrees, Word
<1>10. CASE r = "VI_ORIGIN"
  <2>1. StoreViOrigin(a, d, n)
    BY <1>1, <1>6, <1>7, <1>10, LayoutAssumption
    DEF Invalidate, StorePiStatus, StorePiWrLen, StoreViCtrl, StoreViSync,
        StoreViCurrent, StoreViIntr, StoreViWidth, StoreMiMask, StorePifCommand,
        Registers
  <2> DEFINE m == Touch(mem, d % OriginMask)
  <2>2. Shaped(m)
    <3>1. Lines(d % OriginMask)
      BY <1>4, <2>1, PointerNatural DEF StoreViOrigin
    <3> QED
      BY <1>4, <3>1, TimeIsNatural, TouchShaped
  <2>3. mem' = Write(m, a, d, n)
    BY <2>1 DEF StoreViOrigin
  <2> HIDE DEF m
  <2>4. Word(mem', r) = d
    BY <1>4, <1>5, <2>2, <2>3
  <2>5. rcp'.framebuffer = Pointer(d % OriginMask)
    BY <2>1 DEF StoreViOrigin, Rcp, BusInv, Machine
  <2>6. rcp'.framebuffer = Pointer(Word(mem', r) % OriginMask)
    BY <2>4, <2>5, Zenon
  <2> QED
    BY <1>10, <2>6 DEF Agrees, Word, Pointer, PageTable, redirect_paddress_slow
<1>11. CASE r = "VI_CTRL"
  <2>1. StoreViCtrl(a, d, n)
    BY <1>1, <1>6, <1>7, <1>11, LayoutAssumption
    DEF Invalidate, StorePiStatus, StorePiWrLen, StoreViOrigin, StoreViSync,
        StoreViCurrent, StoreViIntr, StoreViWidth, StoreMiMask, StorePifCommand,
        Registers
  <2>2. Word(mem', r) = d
    BY <1>4, <1>5, <2>1 DEF StoreViCtrl
  <2>3. d % 4 \in {2, 3}
    BY <1>2, <1>11
  <2>4. rcp'.bitdepth = IF d % 4 = 2 THEN "5551" ELSE "byte"
    BY <2>1, <2>3 DEF StoreViCtrl, Rcp, BusInv, Machine
  <2> QED
    BY <1>11, <2>2, <2>3, <2>4 DEF Agrees, Word
<1>12. CASE r = "MI_MASK"
  <2>1. StoreMiMask(a, d, n)
    BY <1>1, <1>6, <1>7, <1>12, LayoutAssumption
    DEF Invalidate, StorePiStatus, StorePiWrLen, StoreViOrigin, StoreViSync,
        StoreViCurrent, StoreViIntr, StoreViWidth, StoreViCtrl, StorePifCommand,
        Registers
  <2>2. mi_mask' \subseteq Interrupts
    BY <2>1 DEF StoreMiMask, BusInv, Machine
  <2>3. /\ FromBits(mi_mask') \in Nat /\ FromBits(mi_mask') < Power[4]
        /\ Bits(FromBits(mi_mask')) = mi_mask'
    BY <2>2, MaskFits
  <2>4. mem' = Write(mem, a, FromBits(mi_mask'), n)
    BY <2>1 DEF StoreMiMask
  <2>5. Word(mem', r) = FromBits(mi_mask')
    BY <1>4, <1>5, <2>3, <2>4
  <2>6. Bits(Word(mem', r)) = mi_mask'
    BY <2>3, <2>5, Zenon
  <2> QED
    BY <1>12, <2>6 DEF Agrees, Word, Bits
<1> QED
  BY <1>8, <1>9, <1>10, <1>11, <1>12 DEF Mirrored

LEMMA StoreFollows ==
    ASSUME BusInv, HostFollowsRegisters,
           NEW a, NEW d \in Nat, NEW n \in Width, store_memory(a, d, n),
           n = 4 => d < Power[4]
    PROVE  HostFollowsRegisters'
<1>1. ASSUME NEW r \in Mirrored, r \notin stale'
      PROVE  Agrees(r)'
  <2>1. CASE Pointer(a)[1] = r
    BY <1>1, <2>1, StoreAgrees
  <2>2. CASE Pointer(a)[1] # r
    <3>1. r \notin stale
      BY <1>1, <2>2 DEF store_memory, Follow
    <3>2. Agrees(r)
      BY <3>1, FollowsIsAgreement
    <3> QED
      BY <2>2, <3>2, StoreSame, SameAgrees
  <2> QED
    BY <2>1, <2>2
<1> QED
  BY <1>1 DEF HostFollowsRegisters, Agrees, Word, Mirrored

LEMMA SameFollows ==
    ASSUME HostFollowsRegisters,
           \A r \in Mirrored \ stale' : r \notin stale /\ Same(r)
    PROVE  HostFollowsRegisters'
<1>1. ASSUME NEW r \in Mirrored, r \notin stale'
      PROVE  Agrees(r)'
  BY <1>1, FollowsIsAgreement, SameAgrees
<1> QED
  BY <1>1 DEF HostFollowsRegisters, Agrees, Word, Mirrored

LEMMA QuietFollows ==
    ASSUME BusInv, HostFollowsRegisters, NEW a, mem' = Touch(mem, a),
           Quiet, stale' = stale
    PROVE  HostFollowsRegisters'
<1>1. \A r \in Mirrored : mem'[r] = mem[r]
  BY MirroredNames DEF Touch, BusInv, Shaped
<1>2. \A r \in Mirrored : Same(r)
  BY <1>1 DEF Same, Quiet
<1> QED
  BY <1>2, SameFollows

LEMMA CycleFollows ==
    ASSUME BusInv, HostFollowsRegisters, Tick \/ HandleVi \/ Reset
    PROVE  HostFollowsRegisters'
<1>1. DOMAIN mem = Regions
  BY DEF BusInv, Shaped
<1>2. ASSUME NEW r \in Mirrored
      PROVE  /\ \A k, v : set_interrupt(mem, k, v)[r] = mem[r]
             /\ RcpReset(BusReset(mem))[r] = mem[r]
  <2>1. r \in Regions \ {"pif", "MI_INTERRUPT", "VI_V_INTR", "RI_MODE"}
    BY MirroredNames
  <2>2. DOMAIN BusReset(mem) = Regions /\ BusReset(mem)[r] = mem[r]
    BY <1>1, <2>1 DEF BusReset
  <2> QED
    BY <1>1, <2>1, <2>2 DEF set_interrupt, RcpReset
<1>3. CASE Tick \/ HandleVi
  <2>1. \A r \in Mirrored : Same(r)
    BY <1>2, <1>3 DEF Tick, HandleVi, Quiet, Same
  <2>2. stale' = stale
    BY <1>3 DEF Tick, HandleVi
  <2> QED
    BY <2>1, <2>2, SameFollows
<1>4. CASE Reset
  <2>1. /\ rcp'.width = rcp.width /\ rcp'.framebuffer = rcp.framebuffer
        /\ mi_mask' = mi_mask
    BY <1>4 DEF Reset, BusInv, Machine
  <2>2. \A r \in Mirrored \ {"VI_V_SYNC", "VI_CTRL"} : Same(r)
    BY <1>2, <1>4, <2>1 DEF Reset, Same
  <2>3. stale' = stale \cup {"VI_V_SYNC", "VI_CTRL"}
    BY <1>4 DEF Reset
  <2> QED
    BY <2>2, <2>3, SameFollows
<1> QED
  BY <1>3, <1>4

LEMMA FilesFollow ==
    ASSUME BusInv, HostFollowsRegisters,
           NEW ipl \in Files \cup {Missing}, NEW rom \in Files \cup {Missing},
           LoadFile(ipl, rom)
    PROVE  HostFollowsRegisters'
<1> DEFINE m == [mem EXCEPT !["ipl"] = IplAfter(ipl),
                            !["cart"] = IF rom # Missing THEN Inserted(rom) ELSE @]
<1>1. ASSUME NEW r \in Mirrored
      PROVE  Same(r)
  <2>1. r \in Regions \ {"pif", "RI_MODE", "ipl", "cart"}
    BY MirroredNames
  <2>2. DOMAIN m = Regions /\ m[r] = mem[r]
    BY <2>1 DEF BusInv, Shaped
  <2>3. mem' = IF rom # Missing THEN BusReset(m) ELSE m
    BY DEF LoadFile
  <2> HIDE DEF m
  <2>4. mem'[r] = mem[r]
    BY <2>1, <2>2, <2>3 DEF BusReset
  <2> QED
    BY <2>4 DEF LoadFile, Same
<1>2. stale' = stale
  BY DEF LoadFile
<1> QED
  BY <1>1, <1>2, SameFollows

LEMMA FollowsInit == Init => HostFollowsRegisters
<1> SUFFICES ASSUME Init PROVE HostFollowsRegisters
  OBVIOUS
<1>1. PICK ipl \in Files \cup {<<>>} :
          mem = RcpReset(BusReset([r \in DOMAIN Blank \cup {"ipl"} |->
                    IF r = "ipl" THEN Array(ipl) ELSE Blank[r]]))
  BY Zenon DEF Init
<1> DEFINE m == [r \in DOMAIN Blank \cup {"ipl"} |->
                    IF r = "ipl" THEN Array(ipl) ELSE Blank[r]]
<1>2. "MI_MASK" \in Registers /\ "MI_MASK" \in Regions
  BY BlankShape DEF Regions, Registers
<1>3. DOMAIN m = Regions /\ m["MI_MASK"] = Zeros(4)
  BY <1>2, BlankShape DEF Regions
<1>4. mem = RcpReset(BusReset(m))
  BY <1>1
<1> HIDE DEF m
<1>5. mem["MI_MASK"] = Zeros(4)
  <2>1. DOMAIN BusReset(m) = Regions /\ BusReset(m)["MI_MASK"] = Zeros(4)
    BY <1>2, <1>3 DEF BusReset
  <2> QED
    BY <1>2, <1>4, <2>1 DEF RcpReset
<1>6. Slice(Zeros(4), 0, 4) = ToBytes(0, 4)
  <2>1. \A p \in Nat \ {0} : (0 \div p) % Base = 0
    BY BaseAssumption
  <2>2. \A i \in 1 .. 4 : 4 - i \in 0 .. 8
    OBVIOUS
  <2>3. \A i \in 1 .. 4 : (0 \div Power[4 - i]) % Base = 0
    BY <2>1, <2>2, Powers
  <2>4. \A i \in 1 .. 4 : Zeros(4)[0 + i - 1] = 0
    BY DEF Zeros
  <2> QED
    BY <2>3, <2>4 DEF Slice, ToBytes
<1>7. Number(ToBytes(0, 4)) = 0
  BY Powers, NumberOfBytes
<1>8. Bits(0) = {}
  <2>1. \A k \in 0 .. 11 : (0 \div Bit[k]) % 2 = 0
    <3>1. \A k \in 0 .. 11 : k \in {0, 1, 2, 3, 4, 5, 6, 7, 8, 9, 10, 11}
      OBVIOUS
    <3> QED
      BY <3>1, BitValues
  <2> QED
    BY <2>1 DEF Bits
<1>9. Bits(Word(mem, "MI_MASK")) = {}
  BY <1>5, <1>6, <1>7, <1>8, Zenon DEF Word
<1>10. mi_mask = {} /\ stale = Mirrored \ {"MI_MASK"}
  BY DEF Init
<1>11. Agrees("MI_MASK")
  BY <1>9, <1>10 DEF Agrees
<1> QED
  BY <1>10, <1>11, FollowsIsAgreement

LEMMA FollowsNext ==
    BusInv /\ HostFollowsRegisters /\ [UnalignedNext]_vars => HostFollowsRegisters'
<1> SUFFICES ASSUME BusInv, HostFollowsRegisters, [UnalignedNext]_vars
             PROVE  HostFollowsRegisters'
  OBVIOUS
<1>1. CASE UNCHANGED vars
  <2>1. \A r \in Mirrored : Same(r)
    BY <1>1 DEF vars, Same
  <2>2. stale' = stale
    BY <1>1 DEF vars
  <2> QED
    BY <2>1, <2>2, SameFollows
<1>2. CASE \E x \in Loads : Load(x[1], x[2], x[3])
  BY <1>2, QuietFollows DEF Load
<1>3. CASE \/ \E x \in Stores : Store(x[1], x[2], x[3])
           \/ \E x \in Merges : Merged(x)
  <2>1. PICK a : \E n \in Width : \E d \in 0 .. Power[n] - 1 :
            store_memory(a, d, n)
    BY <1>3, StoreActions
  <2>2. PICK n \in Width : \E d \in 0 .. Power[n] - 1 : store_memory(a, d, n)
    BY <2>1
  <2>3. PICK d \in 0 .. Power[n] - 1 : store_memory(a, d, n)
    BY <2>2
  <2>4. d \in Nat /\ (n = 4 => d < Power[4])
    <3>1. Power[n] \in Nat
      BY Powers DEF Width
    <3> QED
      BY <3>1
  <2> QED
    BY <2>3, <2>4, StoreFollows
<1>4. CASE \E ipl, rom \in Files \cup {Missing} : LoadFile(ipl, rom)
  BY <1>4, FilesFollow
<1>5. CASE \E x \in Merges : LoadLeft(x[1], x[2], x[4]) \/ LoadRight(x[1], x[2], x[4])
  BY <1>5, QuietFollows DEF LoadLeft, LoadRight
<1>6. CASE Tick \/ HandleVi \/ Reset
  BY <1>6, CycleFollows
<1> QED
  BY <1>1, <1>2, <1>3, <1>4, <1>5, <1>6, Zenon
  DEF UnalignedNext, Next, Horizon, Merged

(* The picture, the half lines and the interrupt mask that the host works  *)
(* with are the ones the program reads in the registers, through stores of *)
(* every width and alignment, DMA, PIF commands, resets and reloads, for   *)
(* every layout that keeps the registers apart.                            *)
THEOREM HostWorksWithWhatIsRead == UnalignedSpec => []HostFollowsRegisters
<1>1. BusInv /\ HostFollowsRegisters /\ [UnalignedNext]_vars
          => (BusInv /\ HostFollowsRegisters)'
  BY BusInvNext, FollowsNext
<1>2. Init => BusInv /\ HostFollowsRegisters
  BY BusInvInit, FollowsInit
<1> QED
  BY <1>1, <1>2, PTL DEF UnalignedSpec
=============================================================================
