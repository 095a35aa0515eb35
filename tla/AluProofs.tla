----------------------------- MODULE AluProofs ------------------------------
(***************************************************************************)
(* Theorems about the instructions of module Alu for every width: what the *)
(* handlers leave in a register, in hi and lo and in pc_ is what the       *)
(* manual defines, and words stay words.  The powers of two and the bits   *)
(* of a number need inductions over the width; they use sets, as the least *)
(* member of a set of naturals is what the library offers here.            *)
(***************************************************************************)
EXTENDS AluManual, TLAPS, WellFoundedInduction

LEMMA LeastMember ==
    ASSUME NEW T, T \subseteq Nat, T # {}
    PROVE  \E m \in T : \A k \in T : m <= k
<1>1. PICK m \in T : \A k \in T : ~ (<<k, m>> \in OpToRel(<, Nat))
  BY WFMin, NatLessThanWellFounded
<1>2. ASSUME NEW k \in T, k < m PROVE FALSE
  BY <1>1, <1>2 DEF OpToRel
<1> QED
  BY <1>2

(* Induction up to n, for a set that contains 0 and what comes next.       *)
LEMMA UpTo ==
    ASSUME NEW n \in Nat, NEW T, 0 \in T,
           \A k \in 0 .. n - 1 : k \in T => k + 1 \in T
    PROVE  \A k \in 0 .. n : k \in T
<1> DEFINE U == {k \in 0 .. n : k \notin T}
<1>1. U \subseteq Nat
  OBVIOUS
<1> SUFFICES ASSUME U # {} PROVE FALSE
  OBVIOUS
<1>2. PICK m \in U : \A k \in U : m <= k
  BY <1>1, LeastMember
<1>3. m \in 1 .. n /\ m \notin T
  BY <1>2
<1>4. m - 1 \in 0 .. n - 1 /\ m - 1 \notin U
  BY <1>2, <1>3
<1>5. m - 1 \in T
  BY <1>4
<1>6. (m - 1) + 1 \in T
  BY <1>4, <1>5
<1> QED
  BY <1>3, <1>6

-----------------------------------------------------------------------------
(* Quotients and remainders, of integers.                                  *)

LEMMA Division ==
    ASSUME NEW x \in Int, NEW m \in Nat \ {0}
    PROVE  /\ x \div m \in Int /\ x % m \in 0 .. m - 1
           /\ x = m * (x \div m) + (x % m)
OBVIOUS

LEMMA Distributes ==
    ASSUME NEW a \in Int, NEW b \in Int, NEW c \in Int
    PROVE  /\ a * b \in Int /\ a * b = b * a
           /\ a * (b + c) = a * b + a * c /\ a * (b - c) = a * b - a * c
OBVIOUS

LEMMA Associates ==
    ASSUME NEW a \in Int, NEW b \in Int, NEW c \in Int
    PROVE  (a * b) * c = a * (b * c)
OBVIOUS

LEMMA Monotone ==
    ASSUME NEW m \in Nat, NEW a \in Int, NEW b \in Int, a <= b
    PROVE  m * a <= m * b
OBVIOUS

(* There is one quotient and one remainder.                                *)
LEMMA Unique ==
    ASSUME NEW m \in Nat \ {0}, NEW q \in Int, NEW r \in 0 .. m - 1
    PROVE  (m * q + r) \div m = q /\ (m * q + r) % m = r
<1> DEFINE x == m * q + r
           p == x \div m
           y == x % m
<1>1. x \in Int /\ m * q \in Int
  OBVIOUS
<1>2. p \in Int /\ y \in 0 .. m - 1 /\ m * p + y = m * q + r
  BY <1>1, Division
<1> HIDE DEF p, y
<1>3. ~(p <= q - 1)
  <2> SUFFICES ASSUME p <= q - 1 PROVE FALSE
    OBVIOUS
  <2>1. m * p <= m * (q - 1)
    BY <1>2, Monotone
  <2>2. m * (q - 1) = m * q - m
    BY Distributes
  <2> QED
    BY <1>1, <1>2, <2>1, <2>2
<1>4. ~(q <= p - 1)
  <2> SUFFICES ASSUME q <= p - 1 PROVE FALSE
    OBVIOUS
  <2>1. m * q <= m * (p - 1)
    BY <1>2, Monotone
  <2>2. m * (p - 1) = m * p - m
    BY <1>2, Distributes
  <2> QED
    BY <1>1, <1>2, <2>1, <2>2
<1>5. p = q
  BY <1>2, <1>3, <1>4
<1> QED
  BY <1>2, <1>5 DEF p, y

(* Numbers below the divisor.                                              *)
LEMMA Small ==
    ASSUME NEW m \in Nat \ {0}, NEW r \in 0 .. m - 1
    PROVE  r \div m = 0 /\ r % m = r
<1>1. m * 0 + r = r
  OBVIOUS
<1> QED
  BY <1>1, Unique

(* A multiple of the divisor moves the quotient and not the remainder.     *)
LEMMA Multiple ==
    ASSUME NEW m \in Nat \ {0}, NEW x \in Int, NEW q \in Int
    PROVE  /\ (x + m * q) \div m = (x \div m) + q
           /\ (x + m * q) % m = x % m
<1> DEFINE p == x \div m
           y == x % m
<1>1. p \in Int /\ y \in 0 .. m - 1 /\ x = m * p + y
  BY Division
<1> HIDE DEF p, y
<1>2. x + m * q = m * (p + q) + y /\ p + q \in Int
  BY <1>1, Distributes
<1>3. (x + m * q) \div m = p + q /\ (x + m * q) % m = y
  BY <1>1, <1>2, Unique
<1> QED
  BY <1>3 DEF p, y

LEMMA Plus ==
    ASSUME NEW m \in Nat \ {0}, NEW x \in Int, NEW y \in Int, y = x + m
    PROVE  y \div m = (x \div m) + 1 /\ y % m = x % m
<1>1. PICK q \in Int : q = 1
  OBVIOUS
<1>2. /\ (x + m * q) \div m = (x \div m) + q
      /\ (x + m * q) % m = x % m
  BY Multiple
<1>3. x + m * q = y
  BY <1>1
<1> QED
  BY <1>1, <1>2, <1>3

LEMMA SameRemainder ==
    ASSUME NEW m \in Nat \ {0}, NEW x \in Int, NEW y \in Int
    PROVE  x % m = y % m <=> \E q \in Int : x = y + m * q
<1>1. ASSUME NEW q \in Int, x = y + m * q PROVE x % m = y % m
  BY <1>1, Multiple
<1>2. ASSUME x % m = y % m PROVE \E q \in Int : x = y + m * q
  <2>1. /\ x \div m \in Int /\ x = m * (x \div m) + (x % m)
        /\ y \div m \in Int /\ y = m * (y \div m) + (y % m)
        /\ x % m \in Int
    BY Division
  <2>2. m * ((x \div m) - (y \div m)) = m * (x \div m) - m * (y \div m)
    BY <2>1, Distributes
  <2>3. x = y + m * ((x \div m) - (y \div m))
    BY <1>2, <2>1, <2>2, Distributes
  <2> QED
    BY <2>1, <2>3
<1> QED
  BY <1>1, <1>2

-----------------------------------------------------------------------------
(* Powers of two.                                                          *)

IsPow(n, f) ==
    f = [k \in 0 .. n |-> IF k = 0 THEN 1 ELSE 2 * f[k - 1]]

LEMMA PowExtends ==
    ASSUME NEW n \in Nat, NEW f, IsPow(n, f)
    PROVE  \E g : IsPow(n + 1, g)
<1> DEFINE g == [k \in 0 .. n + 1 |-> IF k <= n THEN f[k] ELSE 2 * f[n]]
<1>1. \A k \in 0 .. n + 1 : g[k] = IF k = 0 THEN 1 ELSE 2 * g[k - 1]
  BY DEF IsPow
<1>2. g = [k \in 0 .. n + 1 |-> g[k]]
  OBVIOUS
<1> HIDE DEF g
<1>3. IsPow(n + 1, g)
  BY <1>1, <1>2 DEF IsPow
<1> QED
  BY <1>3

LEMMA WidthTypes ==
    /\ WordBits \in Nat /\ ImmBits \in Nat /\ 2 * WordBits \in Nat
    /\ 3 <= ImmBits /\ WordBits = ImmBits + ImmBits /\ 6 <= WordBits
BY WidthAssumption

LEMMA PowTable == IsPow(2 * WordBits, Pow)
<1> DEFINE T == {k \in Nat : \E f : IsPow(k, f)}
<1>1. 0 \in T
  <2>1. IsPow(0, [k \in 0 .. 0 |-> 1])
    BY DEF IsPow
  <2> QED
    BY <2>1
<1>2. \A k \in 0 .. (2 * WordBits) - 1 : k \in T => k + 1 \in T
  BY PowExtends
<1> HIDE DEF T
<1>3. \A k \in 0 .. 2 * WordBits : k \in T
  BY <1>1, <1>2, WidthTypes, UpTo
<1>4. 2 * WordBits \in T
  BY <1>3, WidthTypes
<1>5. \E f : IsPow(2 * WordBits, f)
  BY <1>4 DEF T
<1> QED
  BY <1>5, Zenon DEF IsPow, Pow

LEMMA Powers ==
    /\ Pow[0] = 1
    /\ \A k \in 0 .. (2 * WordBits) - 1 : Pow[k + 1] = 2 * Pow[k]
    /\ \A k \in 0 .. 2 * WordBits : Pow[k] \in Nat \ {0}
<1>1. \A k \in 0 .. 2 * WordBits : Pow[k] = IF k = 0 THEN 1 ELSE 2 * Pow[k - 1]
  BY PowTable DEF IsPow
<1>2. Pow[0] = 1
  BY <1>1, WidthTypes
<1>3. \A k \in 0 .. (2 * WordBits) - 1 : Pow[k + 1] = 2 * Pow[k]
  BY <1>1, WidthTypes
<1> DEFINE T == {k \in Nat : Pow[k] \in Nat \ {0}}
<1>4. 0 \in T
  BY <1>2
<1>5. \A k \in 0 .. (2 * WordBits) - 1 : k \in T => k + 1 \in T
  BY <1>3, WidthTypes
<1> HIDE DEF T
<1>6. \A k \in 0 .. 2 * WordBits : k \in T
  BY <1>4, <1>5, WidthTypes, UpTo
<1> QED
  BY <1>2, <1>3, <1>6 DEF T

(* The powers of two, as the numbers that they are.                        *)
LEMMA PowerType ==
    ASSUME NEW k \in 0 .. 2 * WordBits
    PROVE  Pow[k] \in Nat \ {0}
BY Powers

LEMMA PowerSum ==
    ASSUME NEW m \in Nat, NEW n \in Nat, m + n <= 2 * WordBits
    PROVE  Pow[m + n] = Pow[m] * Pow[n]
<1> DEFINE T == {k \in Nat : Pow[m + k] = Pow[m] * Pow[k]}
<1>1. 0 \in T
  <2>1. m \in 0 .. 2 * WordBits
    BY WidthTypes
  <2>2. Pow[m] \in Nat /\ Pow[0] = 1 /\ m + 0 = m
    BY <2>1, Powers
  <2>3. Pow[m] * 1 = Pow[m]
    BY <2>2
  <2> QED
    BY <2>2, <2>3
<1>2. ASSUME NEW k \in 0 .. n - 1, k \in T PROVE k + 1 \in T
  <2>1. /\ m + k \in 0 .. (2 * WordBits) - 1 /\ k \in 0 .. (2 * WordBits) - 1
        /\ m \in 0 .. 2 * WordBits
    BY WidthTypes
  <2>2. /\ Pow[(m + k) + 1] = 2 * Pow[m + k] /\ Pow[k + 1] = 2 * Pow[k]
        /\ Pow[m] \in Nat /\ Pow[k] \in Nat
    BY <2>1, Powers, WidthTypes
  <2>3. Pow[m + k] = Pow[m] * Pow[k]
    BY <1>2
  <2>4. Pow[m] * (2 * Pow[k]) = 2 * (Pow[m] * Pow[k])
    BY <2>2
  <2>5. m + (k + 1) = (m + k) + 1 /\ k + 1 \in Nat
    OBVIOUS
  <2> QED
    BY <2>2, <2>3, <2>4, <2>5
<1> HIDE DEF T
<1>3. \A k \in 0 .. n : k \in T
  BY <1>1, <1>2, UpTo
<1>4. n \in T
  BY <1>3
<1> QED
  BY <1>4 DEF T

(* What the widths mean for words, doublewords and immediates.             *)
LEMMA Widths ==
    /\ Word \in Nat /\ Double \in Nat /\ Half \in Nat /\ Region \in Nat \ {0}
    /\ 64 <= Word /\ Word = 16 * Region
    /\ Double = Word * Word
    /\ Half % 8 = 0 /\ 8 <= Half /\ Word = Half * Half
<1>1. /\ Pow[1] = 2 /\ Pow[2] = 4 /\ Pow[3] = 8 /\ Pow[4] = 16
      /\ Pow[5] = 32 /\ Pow[6] = 64
  <2>1. {0, 1, 2, 3, 4, 5} \subseteq 0 .. (2 * WordBits) - 1
    BY WidthTypes
  <2>2. /\ Pow[0 + 1] = 2 * Pow[0] /\ Pow[1 + 1] = 2 * Pow[1]
        /\ Pow[2 + 1] = 2 * Pow[2] /\ Pow[3 + 1] = 2 * Pow[3]
        /\ Pow[4 + 1] = 2 * Pow[4] /\ Pow[5 + 1] = 2 * Pow[5]
    BY <2>1, Powers
  <2> QED
    BY <2>2, Powers
<1>2. Word = 16 * Pow[WordBits - 4] /\ Pow[WordBits - 4] \in Nat \ {0}
  <2>1. 4 \in Nat /\ WordBits - 4 \in Nat /\ 4 + (WordBits - 4) = WordBits
    BY WidthTypes
  <2>2. Pow[4 + (WordBits - 4)] = Pow[4] * Pow[WordBits - 4]
    BY <2>1, WidthTypes, PowerSum
  <2> QED
    BY <1>1, <2>1, <2>2, WidthTypes, PowerType DEF Word
<1>3. Word = 64 * Pow[WordBits - 6] /\ Pow[WordBits - 6] \in Nat \ {0}
  <2>1. 6 \in Nat /\ WordBits - 6 \in Nat /\ 6 + (WordBits - 6) = WordBits
    BY WidthTypes
  <2>2. Pow[6 + (WordBits - 6)] = Pow[6] * Pow[WordBits - 6]
    BY <2>1, WidthTypes, PowerSum
  <2> QED
    BY <1>1, <2>1, <2>2, WidthTypes, PowerType DEF Word
<1>4. Half = 8 * Pow[ImmBits - 3] /\ Pow[ImmBits - 3] \in Nat \ {0}
  <2>1. 3 \in Nat /\ ImmBits - 3 \in Nat /\ 3 + (ImmBits - 3) = ImmBits
    BY WidthTypes
  <2>2. Pow[3 + (ImmBits - 3)] = Pow[3] * Pow[ImmBits - 3]
    BY <2>1, WidthTypes, PowerSum
  <2> QED
    BY <1>1, <2>1, <2>2, WidthTypes, PowerType DEF Half
<1>5. Region = Pow[WordBits - 4]
  BY <1>2 DEF Region
<1>6. Double = Word * Word
  <2>1. WordBits + WordBits = 2 * WordBits
    BY WidthTypes
  <2> QED
    BY <2>1, WidthTypes, PowerSum DEF Word, Double
<1>7. Word = Half * Half
  BY WidthTypes, PowerSum DEF Half, Word
<1> QED
  BY <1>2, <1>3, <1>4, <1>5, <1>6, <1>7

-----------------------------------------------------------------------------
(* Bits.                                                                   *)

(* Dividing twice divides by the product.                                  *)
LEMMA QuotientOfQuotient ==
    ASSUME NEW x \in Int, NEW a \in Nat \ {0}, NEW b \in Nat \ {0}
    PROVE  (x \div a) \div b = x \div (a * b)
<1> DEFINE y == x \div a
           r == x % a
           z == y \div b
           t == y % b
<1>1. y \in Int /\ r \in 0 .. a - 1 /\ x = a * y + r
  BY Division
<1> HIDE DEF y, r
<1>2. z \in Int /\ t \in 0 .. b - 1 /\ y = b * z + t
  BY <1>1, Division
<1> HIDE DEF z, t
<1>3. b * z \in Int /\ a * t \in Int /\ 0 <= a * t
  BY <1>2
<1>4. a * y = a * (b * z) + a * t
  BY <1>2, <1>3, Distributes
<1>5. a * (b * z) = (a * b) * z
  BY <1>2, Associates
<1>6. a * t <= a * (b - 1)
  BY <1>2, Monotone
<1>7. a * (b - 1) = a * b - a
  OBVIOUS
<1>8. a * b \in Nat \ {0}
  OBVIOUS
<1>9. a * t + r \in 0 .. (a * b) - 1
  BY <1>1, <1>3, <1>6, <1>7, <1>8
<1>10. x = (a * b) * z + (a * t + r)
  BY <1>1, <1>3, <1>4, <1>5, <1>9
<1>11. x \div (a * b) = z
  BY <1>2, <1>8, <1>9, <1>10, Unique
<1> QED
  BY <1>11 DEF z, y

LEMMA BitType ==
    ASSUME NEW x \in Int, NEW k \in 0 .. 2 * WordBits
    PROVE  /\ x \div Pow[k] \in Int
           /\ Bit(x, k) \in {0, 1} /\ Bit(x, k) \in Int
<1>1. x \div Pow[k] \in Int
  BY PowerType, Division
<1>2. \A y \in Int : y % 2 \in {0, 1}
  OBVIOUS
<1> QED
  BY <1>1, <1>2 DEF Bit

(* A bit does not see what is added above it.                              *)
LEMMA BitBelow ==
    ASSUME NEW n \in 1 .. 2 * WordBits, NEW k \in 0 .. n - 1,
           NEW x \in Int, NEW q \in Int
    PROVE  Bit(x + Pow[n] * q, k) = Bit(x, k)
<1> DEFINE p == Pow[k]
           r == Pow[n - (k + 1)]
<1>1. p \in Nat \ {0} /\ r \in Nat \ {0} /\ Pow[n] = p * (2 * r)
  <2>1. /\ k \in 0 .. 2 * WordBits /\ n - (k + 1) \in 0 .. 2 * WordBits
        /\ k \in 0 .. (2 * WordBits) - 1 /\ k + 1 \in Nat
        /\ (k + 1) + (n - (k + 1)) = n /\ n - (k + 1) \in Nat
    BY WidthTypes
  <2>2. Pow[k + 1] = 2 * p /\ p \in Nat \ {0} /\ r \in Nat \ {0}
    BY <2>1, Powers
  <2>3. Pow[(k + 1) + (n - (k + 1))] = Pow[k + 1] * r
    BY <2>1, PowerSum
  <2>4. (2 * p) * r = p * (2 * r)
    BY <2>2
  <2> QED
    BY <2>1, <2>2, <2>3, <2>4
<1> HIDE DEF p, r
<1>2. Pow[n] * q = p * (2 * (r * q)) /\ r * q \in Int
  <2>1. r * q \in Int /\ (p * (2 * r)) * q = p * ((2 * r) * q)
    BY <1>1, Associates
  <2>2. (2 * r) * q = 2 * (r * q)
    BY <1>1, Associates
  <2> QED
    BY <1>1, <2>1, <2>2
<1>3. (x + p * (2 * (r * q))) \div p = (x \div p) + 2 * (r * q)
  BY <1>1, <1>2, Multiple
<1>4. x \div p \in Int
  BY <1>1, Division
<1>5. ((x \div p) + 2 * (r * q)) % 2 = (x \div p) % 2
  BY <1>2, <1>4, Multiple
<1> QED
  BY <1>2, <1>3, <1>5 DEF Bit, p

LEMMA BitOfRemainder ==
    ASSUME NEW n \in 1 .. 2 * WordBits, NEW k \in 0 .. n - 1,
           NEW x \in Int, NEW y \in Int, x % Pow[n] = y % Pow[n]
    PROVE  Bit(x, k) = Bit(y, k)
<1>1. PICK q \in Int : x = y + Pow[n] * q
  <2>1. Pow[n] \in Nat \ {0}
    BY PowerType, WidthTypes
  <2> QED
    BY <2>1, SameRemainder
<1> QED
  BY <1>1, BitBelow

(* The bits of small numbers.                                              *)
LEMMA BitAbove ==
    ASSUME NEW n \in 0 .. 2 * WordBits, NEW k \in n .. 2 * WordBits,
           NEW x \in 0 .. Pow[n] - 1
    PROVE  Bit(x, k) = 0
<1>1. Pow[n] \in Nat \ {0} /\ Pow[k] \in Nat \ {0}
  BY WidthTypes, PowerType
<1>2. Pow[n] <= Pow[k]
  <2>1. k - n \in Nat /\ n + (k - n) = k /\ k - n \in 0 .. 2 * WordBits
    BY WidthTypes
  <2>2. Pow[n + (k - n)] = Pow[n] * Pow[k - n]
    BY <2>1, PowerSum
  <2>3. Pow[k - n] \in Nat \ {0}
    BY <2>1, PowerType
  <2>4. Pow[n] * 1 <= Pow[n] * Pow[k - n]
    BY <1>1, <2>3, Monotone
  <2> QED
    BY <1>1, <2>1, <2>2, <2>4
<1>3. x \in 0 .. Pow[k] - 1
  BY <1>1, <1>2
<1>4. x \div Pow[k] = 0
  BY <1>1, <1>3, Small
<1> QED
  BY <1>4 DEF Bit

(* Shifts.                                                                 *)
LEMMA BitOfQuotient ==
    ASSUME NEW x \in Int, NEW a \in Nat, NEW k \in Nat,
           a + k <= 2 * WordBits
    PROVE  Bit(x \div Pow[a], k) = Bit(x, k + a)
<1>1. /\ Pow[a] \in Nat \ {0} /\ Pow[k] \in Nat \ {0}
      /\ Pow[a + k] = Pow[a] * Pow[k] /\ a + k = k + a
  <2>1. a \in 0 .. 2 * WordBits /\ k \in 0 .. 2 * WordBits
    BY WidthTypes
  <2> QED
    BY <2>1, PowerType, PowerSum
<1>2. (x \div Pow[a]) \div Pow[k] = x \div Pow[k + a]
  BY <1>1, QuotientOfQuotient
<1> QED
  BY <1>2 DEF Bit

LEMMA BitOfProduct ==
    ASSUME NEW x \in Int, NEW a \in 0 .. (2 * WordBits) - 1, NEW k \in Positions
    PROVE  Bit(x * Pow[a], k) = IF k < a THEN 0 ELSE Bit(x, k - a)
<1>1. /\ Pow[a] \in Nat \ {0} /\ x * Pow[a] = Pow[a] * x
      /\ k \in Nat /\ a \in Nat /\ k \in 0 .. (2 * WordBits) - 1
  <2>1. a \in 0 .. 2 * WordBits
    BY WidthTypes
  <2>2. Pow[a] \in Nat \ {0}
    BY <2>1, PowerType
  <2> QED
    BY <2>2, WidthTypes, Distributes DEF Positions
<1>2. CASE k < a
  <2>1. a \in 1 .. 2 * WordBits /\ k \in 0 .. a - 1
    BY <1>1, <1>2, WidthTypes
  <2>2. Bit(0 + Pow[a] * x, k) = Bit(0, k)
    <3>1. \A y \in Int : Bit(y + Pow[a] * x, k) = Bit(y, k)
      BY <2>1, BitBelow
    <3> QED
      BY <3>1
  <2>3. Bit(0, k) = 0
    <3>1. Pow[0] = 1 /\ 0 \in 0 .. 2 * WordBits /\ k \in 0 .. 2 * WordBits
      BY <1>1, WidthTypes, Powers
    <3> QED
      BY <3>1, BitAbove
  <2>4. 0 + Pow[a] * x = x * Pow[a]
    BY <1>1
  <2> QED
    BY <1>2, <2>2, <2>3, <2>4
<1>3. CASE ~(k < a)
  <2>1. k - a \in Nat /\ a + (k - a) <= 2 * WordBits /\ (k - a) + a = k
    BY <1>1, <1>3, WidthTypes
  <2>2. x * Pow[a] \in Int
    BY <1>1
  <2>3. Bit((x * Pow[a]) \div Pow[a], k - a) = Bit(x * Pow[a], k)
    <3>1. Bit((x * Pow[a]) \div Pow[a], k - a) = Bit(x * Pow[a], (k - a) + a)
      BY <1>1, <2>1, <2>2, BitOfQuotient
    <3> QED
      BY <2>1, <3>1
  <2>4. (x * Pow[a]) \div Pow[a] = x
    <3>1. (Pow[a] * x + 0) \div Pow[a] = x
      BY <1>1, Unique
    <3> QED
      BY <1>1, <3>1
  <2> QED
    BY <1>3, <2>3, <2>4
<1> QED
  BY <1>2, <1>3

(* The complement.                                                         *)
LEMMA BitOfComplement ==
    ASSUME NEW x \in Int, NEW k \in Positions
    PROVE  Bit(Double - 1 - x, k) = 1 - Bit(x, k)
<1> DEFINE p == Pow[k]
           r == Pow[(2 * WordBits) - (k + 1)]
           y == x \div p
           t == x % p
<1>1. p \in Nat \ {0} /\ r \in Nat \ {0} /\ Double = p * (2 * r)
  <2>1. /\ k \in 0 .. 2 * WordBits /\ k \in 0 .. (2 * WordBits) - 1
        /\ (2 * WordBits) - (k + 1) \in 0 .. 2 * WordBits
        /\ (k + 1) + ((2 * WordBits) - (k + 1)) = 2 * WordBits
        /\ (2 * WordBits) - (k + 1) \in Nat /\ k + 1 \in Nat
    BY WidthTypes DEF Positions
  <2>2. Pow[k + 1] = 2 * p /\ p \in Nat \ {0} /\ r \in Nat \ {0}
    BY <2>1, Powers
  <2>3. Pow[(k + 1) + ((2 * WordBits) - (k + 1))] = Pow[k + 1] * r
    BY <2>1, PowerSum
  <2>4. (2 * p) * r = p * (2 * r)
    BY <2>2
  <2> QED
    BY <2>1, <2>2, <2>3, <2>4 DEF Double
<1>2. y \in Int /\ t \in 0 .. p - 1 /\ x = p * y + t
  BY <1>1, Division
<1>3. Bit(x, k) = y % 2
  BY DEF Bit
<1> HIDE DEF p, r, y, t
<1> DEFINE z == 2 * r - y - 1
<1>4. Double - 1 - x = p * z + (p - 1 - t)
  <2>1. p * z = p * (2 * r) - p * y - p * 1
    <3>1. p * z = p * ((2 * r) - y) - p * 1
      BY <1>1, <1>2, Distributes
    <3>2. p * ((2 * r) - y) = p * (2 * r) - p * y
      BY <1>1, <1>2, Distributes
    <3> QED
      BY <3>1, <3>2
  <2>2. p * (2 * r) \in Int /\ p * y \in Int
    BY <1>1, <1>2
  <2> QED
    BY <1>1, <1>2, <2>1, <2>2
<1>5. z \in Int /\ p - 1 - t \in 0 .. p - 1
  BY <1>1, <1>2
<1>6. (Double - 1 - x) \div p = z
  BY <1>1, <1>4, <1>5, Unique
<1>7. z % 2 = 1 - (y % 2)
  BY <1>1, <1>2
<1> QED
  BY <1>3, <1>6, <1>7 DEF Bit, p

-----------------------------------------------------------------------------
(* The number that has given bits.                                         *)

IsNumberOf(b, n, sum) ==
    sum = [k \in 0 .. n |->
              IF k = 0 THEN 0 ELSE sum[k - 1] + b[k - 1] * Pow[k - 1]]

LEMMA NumberExtends ==
    ASSUME NEW b, NEW n \in Nat, NEW sum, IsNumberOf(b, n, sum)
    PROVE  \E t : IsNumberOf(b, n + 1, t)
<1> DEFINE t == [k \in 0 .. n + 1 |->
                    IF k <= n THEN sum[k] ELSE sum[n] + b[n] * Pow[n]]
<1>1. \A k \in 0 .. n + 1 :
        t[k] = IF k = 0 THEN 0 ELSE t[k - 1] + b[k - 1] * Pow[k - 1]
  BY DEF IsNumberOf
<1>2. t = [k \in 0 .. n + 1 |-> t[k]]
  OBVIOUS
<1> HIDE DEF t
<1>3. IsNumberOf(b, n + 1, t)
  BY <1>1, <1>2 DEF IsNumberOf
<1> QED
  BY <1>3

LEMMA FromBitsIsNumber ==
    ASSUME NEW b
    PROVE  \E sum : /\ IsNumberOf(b, 2 * WordBits, sum)
                    /\ FromBits(b) = sum[2 * WordBits]
<1> DEFINE T == {n \in Nat : \E t : IsNumberOf(b, n, t)}
<1>1. 0 \in T
  <2>1. IsNumberOf(b, 0, [k \in 0 .. 0 |-> 0])
    BY DEF IsNumberOf
  <2> QED
    BY <2>1
<1>2. \A n \in 0 .. (2 * WordBits) - 1 : n \in T => n + 1 \in T
  BY NumberExtends
<1> HIDE DEF T
<1>3. \A n \in 0 .. 2 * WordBits : n \in T
  BY <1>1, <1>2, WidthTypes, UpTo
<1>4. 2 * WordBits \in T
  BY <1>3, WidthTypes
<1>5. \E t : IsNumberOf(b, 2 * WordBits, t)
  BY <1>4 DEF T
<1> DEFINE sum == CHOOSE t : IsNumberOf(b, 2 * WordBits, t)
<1>6. IsNumberOf(b, 2 * WordBits, sum)
  BY <1>5
<1>7. FromBits(b) = sum[2 * WordBits]
  BY Zenon DEF FromBits, IsNumberOf
<1> QED
  BY <1>6, <1>7

(* It has them, and lies below Double.                                     *)
LEMMA BitsOfNumber ==
    ASSUME NEW b, \A k \in Positions : b[k] \in {0, 1}
    PROVE  /\ FromBits(b) \in 0 .. Double - 1
           /\ \A k \in Positions : Bit(FromBits(b), k) = b[k]
<1>1. PICK sum : /\ IsNumberOf(b, 2 * WordBits, sum)
                 /\ FromBits(b) = sum[2 * WordBits]
  BY FromBitsIsNumber
<1>2. \A n \in 0 .. 2 * WordBits :
        sum[n] = IF n = 0 THEN 0 ELSE sum[n - 1] + b[n - 1] * Pow[n - 1]
  BY <1>1 DEF IsNumberOf
<1> DEFINE Has(n) == /\ sum[n] \in 0 .. Pow[n] - 1
                     /\ \A k \in 0 .. n - 1 : Bit(sum[n], k) = b[k]
           T == {n \in Nat : Has(n)}
<1>3. 0 \in T
  <2>1. sum[0] = 0 /\ Pow[0] = 1
    BY <1>2, WidthTypes, Powers
  <2> QED
    BY <2>1
<1>4. ASSUME NEW n \in 0 .. (2 * WordBits) - 1, n \in T
      PROVE  n + 1 \in T
  <2> DEFINE p == Pow[n]
             x == sum[n]
             c == b[n]
  <2>1. /\ n \in Nat /\ n \in Positions /\ n \in 0 .. 2 * WordBits
        /\ n + 1 \in 1 .. 2 * WordBits /\ (n + 1) - 1 = n
    BY WidthTypes DEF Positions
  <2>2. p \in Nat \ {0} /\ Pow[n + 1] = 2 * p
    BY <2>1, Powers
  <2>3. x \in 0 .. p - 1 /\ x \in Int
    BY <1>4, <2>2
  <2>4. c \in {0, 1}
    BY <2>1
  <2>5. sum[n + 1] = x + p * c
    <3>1. sum[n + 1] = x + c * p
      BY <1>2, <2>1
    <3> QED
      BY <2>2, <2>4, <3>1
  <2>6. sum[n + 1] \in 0 .. Pow[n + 1] - 1
    BY <2>2, <2>3, <2>4, <2>5
  <2>7. ASSUME NEW k \in 0 .. n PROVE Bit(sum[n + 1], k) = b[k]
    <3>1. CASE k = n
      <4>1. (p * c + x) \div p = c
        <5>1. c \in Int
          BY <2>4
        <5> HIDE DEF p, x, c
        <5> QED
          BY <2>2, <2>3, <5>1, Unique
      <4>2. p * c + x = x + p * c
        BY <2>2, <2>3, <2>4
      <4>3. c % 2 = c
        BY <2>4
      <4> QED
        BY <2>5, <3>1, <4>1, <4>2, <4>3 DEF Bit
    <3>2. CASE k < n
      <4>1. n \in 1 .. 2 * WordBits /\ k \in 0 .. n - 1
        BY <2>1, <3>2
      <4>2. c \in Int
        BY <2>4
      <4>3. Bit(x + Pow[n] * c, k) = Bit(x, k)
        BY <2>3, <4>1, <4>2, BitBelow
      <4>4. Bit(x, k) = b[k]
        BY <1>4, <4>1
      <4> QED
        BY <2>5, <4>3, <4>4
    <3> QED
      BY <3>1, <3>2
  <2> QED
    BY <2>1, <2>6, <2>7
<1> HIDE DEF T
<1>5. \A n \in 0 .. 2 * WordBits : n \in T
  BY <1>3, <1>4, WidthTypes, UpTo
<1>6. Has(2 * WordBits)
  BY <1>5, WidthTypes DEF T
<1> QED
  BY <1>1, <1>6 DEF Positions, Double

-----------------------------------------------------------------------------
(* Signed numbers and words.                                               *)

Patterns == 0 .. Double - 1
SignedRange(n) == -(n \div 2) .. (n \div 2) - 1

LEMMA SignedPattern ==
    ASSUME NEW n \in Nat \ {0}, n % 2 = 0, NEW x \in 0 .. n - 1
    PROVE  Signed(x, n) \in SignedRange(n) /\ Signed(x, n) % n = x
<1>1. n = 2 * (n \div 2) /\ n \div 2 \in Nat
  OBVIOUS
<1>2. CASE x < n \div 2
  <2>1. x % n = x
    BY Small
  <2> QED
    BY <1>1, <1>2, <2>1 DEF Signed, SignedRange
<1>3. CASE ~(x < n \div 2)
  <2>1. PICK y \in Int : y = x - n
    OBVIOUS
  <2>2. x = y + n /\ x \in Int
    BY <2>1
  <2>3. x % n = y % n /\ x % n = x
    BY <2>2, Plus, Small
  <2>4. Signed(x, n) = y
    BY <1>3, <2>1 DEF Signed
  <2>5. y \in SignedRange(n)
    BY <1>1, <1>3, <2>1 DEF SignedRange
  <2> QED
    BY <2>3, <2>4, <2>5
<1> QED
  BY <1>2, <1>3

LEMMA PatternOfSigned ==
    ASSUME NEW n \in Nat \ {0}, n % 2 = 0, NEW z \in SignedRange(n)
    PROVE  Signed(z % n, n) = z
<1>1. n = 2 * (n \div 2) /\ n \div 2 \in Nat /\ z \in Int
  BY DEF SignedRange
<1>2. z >= -(n \div 2) /\ z <= (n \div 2) - 1
  BY DEF SignedRange
<1>3. CASE z >= 0
  <2>1. z \in 0 .. n - 1
    BY <1>1, <1>2, <1>3
  <2>2. z % n = z
    BY <2>1, Small
  <2> QED
    BY <1>1, <1>2, <2>2 DEF Signed
<1>4. CASE z < 0
  <2>1. PICK y \in Int : y = z + n
    BY <1>1
  <2>2. y \in 0 .. n - 1 /\ ~(y < n \div 2)
    BY <1>1, <1>2, <1>4, <2>1
  <2>3. y % n = z % n
    BY <1>1, <2>1, Plus
  <2>4. y % n = y
    BY <2>2, Small
  <2> QED
    BY <1>1, <2>1, <2>2, <2>3, <2>4 DEF Signed
<1> QED
  BY <1>1, <1>3, <1>4

(* A remainder of a multiple of the divisor.                               *)
LEMMA NestedRemainder ==
    ASSUME NEW a \in Nat \ {0}, NEW b \in Nat \ {0}, NEW x \in Int
    PROVE  (x % (a * b)) % a = x % a
<1> DEFINE m == a * b
           q == x \div m
           r == x % m
<1>1. m \in Nat \ {0}
  OBVIOUS
<1> HIDE DEF m
<1>2. q \in Int /\ r \in Int /\ x = m * q + r
  BY <1>1, Division
<1> HIDE DEF q, r
<1>3. m * q = a * (b * q) /\ b * q \in Int
  BY <1>2, Associates DEF m
<1>4. (r + a * (b * q)) % a = r % a
  BY <1>2, <1>3, Multiple
<1>5. x = r + a * (b * q)
  BY <1>2, <1>3
<1> QED
  BY <1>4, <1>5 DEF r, m

(* The sizes, in the form that the lemmas above ask for.                   *)
LEMMA Sizes ==
    /\ Word \in Nat \ {0} /\ Word % 2 = 0 /\ Word >= 64
    /\ Double \in Nat \ {0} /\ Double % 2 = 0 /\ Double = Word * Word
    /\ Half \in Nat \ {0} /\ Half % 2 = 0 /\ Half >= 8
    /\ Word = Half * Half /\ 8 * Half <= Word
    /\ 64 * Word <= Double
    /\ SignedRange(Word) \subseteq SignedRange(Double)
    /\ SignedRange(Word) \subseteq Int /\ SignedRange(Double) \subseteq Int
<1>1. Word \in Nat \ {0} /\ Word % 2 = 0 /\ Word >= 64 /\ Word = 2 * (8 * Region)
  BY Widths
<1>2. Double = 2 * ((8 * Region) * Word) /\ (8 * Region) * Word \in Nat
  <2>1. Double = (2 * (8 * Region)) * Word
    BY <1>1, Widths
  <2>2. (2 * (8 * Region)) * Word = 2 * ((8 * Region) * Word)
    BY <1>1, Widths, Associates
  <2> QED
    BY <1>1, <2>1, <2>2, Widths
<1>3. Double % 2 = 0
  BY <1>2
<1>4. 64 * Word <= Double
  <2>1. Word * 64 <= Word * Word
    BY <1>1, Monotone
  <2> QED
    BY <1>1, <2>1, Widths
<1>5. Double \in Nat \ {0}
  BY <1>1, <1>4, Widths
<1>6. Word \div 2 <= Double \div 2
  BY <1>1, <1>4, <1>5
<1>7. SignedRange(Word) \subseteq SignedRange(Double)
  BY <1>1, <1>5, <1>6 DEF SignedRange
<1>8. Half \in Nat \ {0} /\ Half % 2 = 0 /\ Half >= 8
  BY Widths
<1>9. 8 * Half <= Word
  <2>1. Half * 8 <= Half * Half
    BY <1>8, Monotone
  <2>2. Half * Half \in Nat
    BY <1>8
  <2> QED
    BY <1>1, <1>8, <2>1, <2>2, Widths
<1> QED
  BY <1>1, <1>3, <1>4, <1>5, <1>7, <1>8, <1>9, Widths DEF SignedRange

LEMMA WrapType ==
    ASSUME NEW z \in Int
    PROVE  /\ Wrap(z) \in SignedRange(Word) /\ Wrap(z) \in Int
           /\ Wrap(z) % Word = z % Word
<1>1. z % Word \in 0 .. Word - 1
  BY Sizes, Division
<1> QED
  BY <1>1, Sizes, SignedPattern DEF Wrap

LEMMA WrapSame ==
    ASSUME NEW y, NEW z, y % Word = z % Word
    PROVE  Wrap(y) = Wrap(z)
BY DEF Wrap

LEMMA WrapFixed ==
    ASSUME NEW z \in SignedRange(Word)
    PROVE  Wrap(z) = z
BY Sizes, PatternOfSigned DEF Wrap

(* The same remainder by Double is the same by Word.                       *)
LEMMA WordRemainder ==
    ASSUME NEW x \in Int
    PROVE  (x % Double) % Word = x % Word
BY Sizes, NestedRemainder

LEMMA ExtendType ==
    ASSUME NEW x \in Int
    PROVE  /\ Extend(x) = Wrap(x) % Double
           /\ Extend(x) \in Patterns /\ Extend(x) \in Int
           /\ Number(Extend(x)) = Wrap(x)
           /\ Extend(x) % Word = x % Word
           /\ IsWord(Extend(x))
<1>1. Extend(x) = Wrap(x) % Double
  BY DEF Extend, Wrap, Low
<1>2. Wrap(x) \in SignedRange(Double) /\ Wrap(x) \in Int
  BY Sizes, WrapType
<1>3. Extend(x) \in Patterns /\ Extend(x) \in Int
  <2>1. Wrap(x) % Double \in 0 .. Double - 1
    BY <1>2, Sizes, Division
  <2> QED
    BY <1>1, <2>1, Sizes DEF Patterns
<1>4. Number(Extend(x)) = Wrap(x)
  BY <1>1, <1>2, Sizes, PatternOfSigned DEF Number
<1>5. Extend(x) % Word = x % Word
  BY <1>1, <1>2, WordRemainder, WrapType
<1>6. IsWord(Extend(x))
  BY <1>5 DEF IsWord, Extend, Low
<1> QED
  BY <1>1, <1>3, <1>4, <1>5, <1>6

LEMMA NumberType ==
    ASSUME NEW x \in Patterns
    PROVE  /\ Number(x) \in SignedRange(Double) /\ Number(x) \in Int
           /\ Number(x) % Double = x /\ x \in Int
           /\ Number(x) % Word = x % Word
<1>1. /\ Number(x) \in SignedRange(Double) /\ Number(x) \in Int
      /\ Number(x) % Double = x /\ x \in Int
  BY Sizes, SignedPattern DEF Patterns, Number
<1> QED
  BY <1>1, WordRemainder

LEMMA NumberFixed ==
    ASSUME NEW z \in SignedRange(Double)
    PROVE  Number(z % Double) = z
BY Sizes, PatternOfSigned DEF Number

(* A word is its own number in two's complement.                           *)
LEMMA WordNumber ==
    ASSUME NEW x \in Patterns
    PROVE  /\ IsWord(x) <=> Number(x) = Wrap(x)
           /\ IsWord(x) <=> Number(x) \in SignedRange(Word)
           /\ IsWord(x) => Signed(Low(x), Word) = Number(x)
<1>1. x \in Int /\ Number(x) % Double = x /\ Number(x) % Word = x % Word
  BY NumberType
<1>2. ASSUME IsWord(x) PROVE Number(x) = Wrap(x)
  BY <1>1, <1>2, ExtendType DEF IsWord
<1>3. ASSUME Number(x) = Wrap(x) PROVE IsWord(x)
  BY <1>1, <1>3, ExtendType DEF IsWord
<1>4. ASSUME Number(x) = Wrap(x) PROVE Number(x) \in SignedRange(Word)
  BY <1>1, <1>4, WrapType
<1>5. ASSUME Number(x) \in SignedRange(Word) PROVE Number(x) = Wrap(x)
  BY <1>1, <1>5, WrapFixed, WrapSame
<1>6. Wrap(x) = Signed(Low(x), Word)
  BY DEF Wrap, Low
<1> QED
  BY <1>2, <1>3, <1>4, <1>5, <1>6

LEMMA BitOfSigned ==
    ASSUME NEW x \in Patterns, NEW k \in Positions
    PROVE  Bit(Number(x), k) = Bit(x, k)
<1>1. Number(x) \in Int /\ x \in Int /\ Number(x) % Double = x
  BY NumberType
<1>2. x % Double = x
  BY Sizes, Small DEF Patterns
<1>3. 2 * WordBits \in 1 .. 2 * WordBits /\ k \in 0 .. (2 * WordBits) - 1
  BY WidthTypes DEF Positions
<1> QED
  BY <1>1, <1>2, <1>3, BitOfRemainder DEF Double

-----------------------------------------------------------------------------
(* Words by their bits.                                                    *)

LEMMA ZeroAbove ==
    ASSUME NEW x \in Patterns, NEW n \in 0 .. 2 * WordBits,
           \A k \in n .. (2 * WordBits) - 1 : Bit(x, k) = 0
    PROVE  x < Pow[n]
<1> DEFINE w == 2 * WordBits
           T == {j \in Nat : x < Pow[w - j]}
<1>1. 0 \in T /\ w \in Nat
  <2>1. w \in Nat /\ w - 0 = w
    BY WidthTypes
  <2>2. x < Pow[w]
    BY Sizes DEF Patterns, Double
  <2> QED
    BY <2>1, <2>2
<1>2. ASSUME NEW j \in 0 .. (w - n) - 1, j \in T PROVE j + 1 \in T
  <2> DEFINE m == w - (j + 1)
             p == Pow[m]
  <2>1. m \in n .. w - 1 /\ m \in 0 .. w - 1 /\ m \in 0 .. w /\ m + 1 = w - j
    BY <1>1
  <2>2. p \in Nat \ {0} /\ Pow[m + 1] = 2 * p
    BY <2>1, Powers
  <2>3. x < 2 * p /\ x \in Nat
    BY <1>2, <2>1, <2>2, Sizes DEF Patterns
  <2>4. Bit(x, m) = 0
    BY <2>1
  <2>5. (x \div p) % 2 = 0
    BY <2>4 DEF Bit
  <2> HIDE DEF p
  <2>6. ~(x >= p)
    <3> SUFFICES ASSUME x >= p PROVE FALSE
      OBVIOUS
    <3>1. x - p \in 0 .. p - 1
      BY <2>2, <2>3
    <3>2. PICK y \in Int : y = x - p
      BY <2>2, <2>3
    <3>3. y \div p = 0
      BY <2>2, <3>1, <3>2, Small
    <3>4. x = y + p /\ x \in Int
      BY <2>2, <2>3, <3>2
    <3>5. x \div p = (y \div p) + 1
      BY <2>2, <3>4, Plus
    <3> QED
      BY <2>5, <3>3, <3>5
  <2>7. x < p
    BY <2>2, <2>3, <2>6
  <2> QED
    BY <2>1, <2>7 DEF p
<1> HIDE DEF T
<1>3. w - n \in Nat
  BY <1>1
<1>4. \A j \in 0 .. w - n : j \in T
  BY <1>1, <1>2, <1>3, UpTo
<1>5. w - n \in T
  BY <1>3, <1>4
<1>6. w - (w - n) = n
  BY <1>1
<1> QED
  BY <1>5, <1>6 DEF T

(* A word is a pattern whose upper bits are copies of the sign.            *)
TopBits == WordBits - 1 .. (2 * WordBits) - 1

LEMMA TopPositions ==
    /\ WordBits - 1 \in TopBits /\ TopBits \subseteq Positions
    /\ TopBits \subseteq 0 .. 2 * WordBits
    /\ WordBits - 1 \in 0 .. 2 * WordBits
BY WidthTypes DEF TopBits, Positions

LEMMA HalfWord ==
    Pow[WordBits - 1] = Word \div 2 /\ Word \div 2 \in Nat \ {0}
<1>1. WordBits - 1 \in 0 .. (2 * WordBits) - 1 /\ (WordBits - 1) + 1 = WordBits
  BY WidthTypes
<1>2. Word = 2 * Pow[WordBits - 1] /\ Pow[WordBits - 1] \in Nat \ {0}
  BY <1>1, WidthTypes, Powers DEF Word
<1> QED
  BY <1>2

LEMMA WordByBits ==
    ASSUME NEW x \in Patterns
    PROVE  IsWord(x) <=> \A k \in TopBits : Bit(x, k) = Bit(x, WordBits - 1)
<1> DEFINE h == Word \div 2
           z == Double - 1 - x
<1>1. x \in Nat /\ z \in Patterns /\ z \in Nat
  BY Sizes DEF Patterns
<1>2. h = Pow[WordBits - 1] /\ h \in Nat \ {0}
  BY HalfWord
<1>3. IsWord(x) <=> (x < h \/ z < h)
  <2>1. IsWord(x) <=> Number(x) \in SignedRange(Word)
    BY WordNumber
  <2>2. Number(x) = IF x < Double \div 2 THEN x ELSE x - Double
    BY DEF Number, Signed
  <2>3. h <= Double \div 2 /\ Double = 2 * (Double \div 2) /\ Double \div 2 \in Int
    BY Sizes
  <2> QED
    BY <1>1, <1>2, <2>1, <2>2, <2>3, Sizes DEF SignedRange
<1>4. ASSUME NEW y \in Patterns, y < h, NEW k \in TopBits
      PROVE  Bit(y, k) = 0
  <2>1. k \in (WordBits - 1) .. 2 * WordBits /\ WordBits - 1 \in 0 .. 2 * WordBits
    BY WidthTypes DEF TopBits
  <2>2. y \in 0 .. Pow[WordBits - 1] - 1
    BY <1>2, <1>4, Sizes DEF Patterns
  <2> QED
    BY <2>1, <2>2, BitAbove
<1>5. ASSUME NEW y \in Patterns, \A k \in TopBits : Bit(y, k) = 0
      PROVE  y < h
  <2>1. WordBits - 1 \in 0 .. 2 * WordBits
    BY TopPositions
  <2>2. y < Pow[WordBits - 1]
    BY <1>5, <2>1, ZeroAbove DEF TopBits
  <2> QED
    BY <1>2, <2>2
<1>6. \A k \in TopBits : Bit(z, k) = 1 - Bit(x, k) /\ Bit(x, k) \in {0, 1}
  BY <1>1, TopPositions, BitOfComplement, BitType
<1> HIDE DEF h, z
<1>7. ASSUME IsWord(x), NEW k \in TopBits
      PROVE  Bit(x, k) = Bit(x, WordBits - 1)
  <2>1. CASE x < h
    BY <1>4, <1>7, <2>1, TopPositions
  <2>2. CASE z < h
    <3>1. Bit(z, k) = 0 /\ Bit(z, WordBits - 1) = 0
      BY <1>1, <1>4, <1>7, <2>2, TopPositions
    <3> QED
      BY <1>6, <1>7, <3>1, TopPositions
  <2> QED
    BY <1>3, <1>7, <2>1, <2>2
<1>8. ASSUME \A k \in TopBits : Bit(x, k) = Bit(x, WordBits - 1)
      PROVE  IsWord(x)
  <2>1. CASE Bit(x, WordBits - 1) = 0
    BY <1>3, <1>5, <1>8, <2>1
  <2>2. CASE Bit(x, WordBits - 1) = 1
    <3>1. \A k \in TopBits : Bit(z, k) = 0
      BY <1>6, <1>8, <2>2
    <3> QED
      BY <1>1, <1>3, <1>5, <3>1
  <2> QED
    BY <1>6, <2>1, <2>2, TopPositions
<1> QED
  BY <1>7, <1>8

-----------------------------------------------------------------------------
(* The bitwise instructions, bit by bit.                                   *)

LEMMA LogicBits ==
    ASSUME NEW s \in Int, NEW t \in Int
    PROVE  /\ AND(s, t) \in Patterns /\ OR(s, t) \in Patterns
           /\ XOR(s, t) \in Patterns /\ NOR(s, t) \in Patterns
           /\ \A k \in Positions :
                LET x == Bit(s, k)
                    y == Bit(t, k)
                IN  /\ x \in {0, 1} /\ y \in {0, 1}
                    /\ Bit(AND(s, t), k) = x * y
                    /\ Bit(OR(s, t), k) = x + y - x * y
                    /\ Bit(XOR(s, t), k) = (x + y) % 2
                    /\ Bit(NOR(s, t), k) = 1 - (x + y - x * y)
<1>1. \A k \in Positions : Bit(s, k) \in {0, 1} /\ Bit(t, k) \in {0, 1}
  <2>1. Positions \subseteq 0 .. 2 * WordBits
    BY WidthTypes DEF Positions
  <2> QED
    BY <2>1, BitType
<1>2. \A x, y \in {0, 1} : /\ x * y \in {0, 1} /\ x + y - x * y \in {0, 1}
                           /\ (x + y) % 2 \in {0, 1}
  OBVIOUS
<1> DEFINE a == [k \in Positions |-> Bit(s, k) * Bit(t, k)]
           o == [k \in Positions |-> Bit(s, k) + Bit(t, k) - Bit(s, k) * Bit(t, k)]
           x == [k \in Positions |-> (Bit(s, k) + Bit(t, k)) % 2]
<1>3. /\ \A k \in Positions : a[k] \in {0, 1} /\ a[k] = Bit(s, k) * Bit(t, k)
      /\ \A k \in Positions : /\ o[k] \in {0, 1}
                              /\ o[k] = Bit(s, k) + Bit(t, k) - Bit(s, k) * Bit(t, k)
      /\ \A k \in Positions : x[k] \in {0, 1} /\ x[k] = (Bit(s, k) + Bit(t, k)) % 2
  BY <1>1, <1>2
<1>4. AND(s, t) = FromBits(a) /\ OR(s, t) = FromBits(o) /\ XOR(s, t) = FromBits(x)
  BY Zenon DEF AND, OR, XOR
<1> HIDE DEF a, o, x
<1>5. /\ AND(s, t) \in Patterns
      /\ \A k \in Positions : Bit(AND(s, t), k) = Bit(s, k) * Bit(t, k)
  BY <1>3, <1>4, BitsOfNumber DEF Patterns
<1>6. /\ OR(s, t) \in Patterns
      /\ \A k \in Positions :
            Bit(OR(s, t), k) = Bit(s, k) + Bit(t, k) - Bit(s, k) * Bit(t, k)
  BY <1>3, <1>4, BitsOfNumber DEF Patterns
<1>7. /\ XOR(s, t) \in Patterns
      /\ \A k \in Positions : Bit(XOR(s, t), k) = (Bit(s, k) + Bit(t, k)) % 2
  BY <1>3, <1>4, BitsOfNumber DEF Patterns
<1>8. /\ NOR(s, t) \in Patterns
      /\ \A k \in Positions : Bit(NOR(s, t), k) = 1 - Bit(OR(s, t), k)
  <2>1. OR(s, t) \in Int /\ Double - 1 - OR(s, t) \in Patterns
    BY <1>6, Sizes DEF Patterns
  <2> QED
    BY <2>1, BitOfComplement DEF NOR
<1> QED
  BY <1>1, <1>5, <1>6, <1>7, <1>8

-----------------------------------------------------------------------------
(* Operands.                                                               *)

(* The same number to a modulus.                                           *)
Same(m, x, y) == x % m = y % m

LEMMA SameSum ==
    ASSUME NEW m \in Nat \ {0}, NEW x \in Int, NEW x1 \in Int, NEW y \in Int,
           NEW y1 \in Int, Same(m, x, x1), Same(m, y, y1)
    PROVE  Same(m, x + y, x1 + y1) /\ Same(m, x - y, x1 - y1)
<1>1. PICK p \in Int : x = x1 + m * p
  BY SameRemainder DEF Same
<1>2. PICK q \in Int : y = y1 + m * q
  BY SameRemainder DEF Same
<1>3. /\ x + y = (x1 + y1) + m * (p + q) /\ x - y = (x1 - y1) + m * (p - q)
      /\ p + q \in Int /\ p - q \in Int
  BY <1>1, <1>2, Distributes
<1> DEFINE u == x + y   u1 == x1 + y1
           v == x - y   v1 == x1 - y1
<1>4. u \in Int /\ u1 \in Int /\ v \in Int /\ v1 \in Int
  OBVIOUS
<1>5. /\ \E r \in Int : u = u1 + m * r
      /\ \E r \in Int : v = v1 + m * r
  BY <1>3
<1> HIDE DEF u, u1, v, v1
<1>6. u % m = u1 % m /\ v % m = v1 % m
  BY <1>4, <1>5, SameRemainder
<1> QED
  BY <1>6 DEF u, u1, v, v1, Same

LEMMA SameProduct ==
    ASSUME NEW m \in Nat \ {0}, NEW x \in Int, NEW x1 \in Int, NEW y \in Int,
           Same(m, x, x1)
    PROVE  Same(m, x * y, x1 * y)
<1>1. PICK p \in Int : x = x1 + m * p
  BY SameRemainder DEF Same
<1>2. x * y = x1 * y + m * (p * y) /\ p * y \in Int /\ x1 * y \in Int
  <2>1. (m * p) * y = m * (p * y)
    BY Associates
  <2>2. (x1 + m * p) * y = x1 * y + (m * p) * y
    OBVIOUS
  <2> QED
    BY <1>1, <2>1, <2>2
<1> DEFINE u == x * y   u1 == x1 * y   r == p * y
<1>3. u \in Int /\ u1 \in Int /\ r \in Int /\ u = u1 + m * r
  BY <1>2
<1> HIDE DEF u, u1, r
<1>4. u % m = u1 % m
  BY <1>3, SameRemainder
<1> QED
  BY <1>4 DEF u, u1, Same

LEMMA LowType ==
    ASSUME NEW x \in Int
    PROVE  Low(x) \in 0 .. Word - 1 /\ Low(x) \in Nat /\ Low(x) % Word = x % Word
<1>1. Low(x) \in 0 .. Word - 1
  BY Sizes, Division DEF Low
<1>2. Low(x) % Word = Low(x)
  BY <1>1, Sizes, Small
<1> QED
  BY <1>1, <1>2, Sizes DEF Low

LEMMA ImmType ==
    ASSUME NEW i \in Immediates
    PROVE  /\ i \in 0 .. Half - 1 /\ i \in Patterns /\ i \in Int
           /\ Imm(i) \in SignedRange(Half) /\ Imm(i) \in Int /\ Imm(i) % Half = i
           /\ IsWord(i)
<1>1. i \in 0 .. Half - 1 /\ i \in Int
  BY WidthAssumption, Sizes
<1>2. Imm(i) \in SignedRange(Half) /\ Imm(i) % Half = i
  BY <1>1, Sizes, SignedPattern DEF Imm
<1>3. i \in Patterns
  BY <1>1, Sizes DEF Patterns
<1>4. i < Double \div 2 /\ i < Word \div 2
  BY <1>1, Sizes
<1>5. Number(i) \in SignedRange(Word)
  BY <1>1, <1>4, Sizes DEF Number, Signed, SignedRange
<1>6. IsWord(i)
  BY <1>3, <1>5, WordNumber
<1> QED
  BY <1>1, <1>2, <1>3, <1>6, Sizes DEF SignedRange

LEMMA AmountType ==
    ASSUME NEW a \in 0 .. WordBits - 1
    PROVE  /\ a \in Nat /\ a \in 0 .. (2 * WordBits) - 1
           /\ a + WordBits \in Nat /\ a + WordBits \in 0 .. (2 * WordBits) - 1
           /\ Pow[a] \in Nat \ {0} /\ Pow[a + WordBits] \in Nat \ {0}
<1>1. a \in 0 .. 2 * WordBits /\ a + WordBits \in 0 .. 2 * WordBits
  BY WidthTypes
<1> QED
  BY <1>1, WidthTypes, PowerType

(* The lowest bits of a register are those of its number.                  *)
LEMMA LowestBits ==
    ASSUME NEW s \in Patterns
    PROVE  /\ Number(s) % WordBits = s % WordBits
           /\ Number(s) % (2 * WordBits) = s % (2 * WordBits)
           /\ s % WordBits \in 0 .. WordBits - 1
           /\ s % (2 * WordBits) \in 0 .. (2 * WordBits) - 1
           /\ s % (2 * WordBits) < WordBits => s % (2 * WordBits) = s % WordBits
<1>1. PICK n \in 0 .. WordBits : WordBits = Pow[n]
  BY WidthAssumption
<1> DEFINE d == 2 * WordBits
           r == Pow[d - (n + 1)]
<1>2. /\ Double = d * r /\ d \in Nat \ {0} /\ r \in Nat \ {0}
      /\ d = WordBits * 2
  <2>1. /\ n \in 0 .. (2 * WordBits) - 1 /\ n + 1 \in Nat
        /\ d - (n + 1) \in Nat /\ d - (n + 1) \in 0 .. 2 * WordBits
        /\ (n + 1) + (d - (n + 1)) = d
    BY WidthTypes
  <2>2. Pow[n + 1] = d
    BY <1>1, <2>1, Powers
  <2>3. Pow[(n + 1) + (d - (n + 1))] = Pow[n + 1] * r
    BY <2>1, PowerSum
  <2> QED
    BY <2>1, <2>2, <2>3, PowerType, WidthTypes DEF Double
<1>3. /\ Number(s) \in Int /\ s \in Int /\ Number(s) % Double = s
      /\ WordBits \in Nat \ {0}
  BY NumberType, WidthTypes
<1> HIDE DEF d, r
<1>4. Number(s) % d = s % d
  <2>1. (Number(s) % (d * r)) % d = Number(s) % d
    BY <1>2, <1>3, NestedRemainder
  <2> QED
    BY <1>2, <1>3, <2>1
<1>5. \A x \in Int : (x % d) % WordBits = x % WordBits
  <2>1. \A x \in Int, b \in Nat \ {0} : (x % (WordBits * b)) % WordBits = x % WordBits
    BY <1>3, NestedRemainder
  <2>2. \A b \in Nat \ {0} : b = 2 => WordBits * b = d
    BY <1>2
  <2> QED
    BY <2>1, <2>2
<1>6. Number(s) % WordBits = s % WordBits
  BY <1>3, <1>4, <1>5
<1>7. s % WordBits \in 0 .. WordBits - 1 /\ s % d \in 0 .. d - 1
  BY <1>2, <1>3, Division
<1>8. s % d < WordBits => s % d = s % WordBits
  <2> SUFFICES ASSUME s % d < WordBits PROVE s % d = s % WordBits
    OBVIOUS
  <2>1. s % d \in 0 .. WordBits - 1
    BY <1>3, <1>7
  <2>2. (s % d) % WordBits = s % d
    BY <1>3, <2>1, Small
  <2> QED
    BY <1>3, <1>5, <2>2
<1> QED
  BY <1>4, <1>6, <1>7, <1>8 DEF d

-----------------------------------------------------------------------------
(* What the instructions leave in a register.                              *)

LEMMA WrapArithmetic ==
    ASSUME NEW x \in Int, NEW x1 \in Int, NEW y \in Int, NEW y1 \in Int,
           Same(Word, x, x1), Same(Word, y, y1)
    PROVE  /\ Wrap(x + y) = Wrap(x1 + y1) /\ Wrap(x - y) = Wrap(x1 - y1)
           /\ Wrap(x * y) = Wrap(x1 * y)
<1>1. Word \in Nat \ {0}
  BY Sizes
<1>2. Same(Word, x + y, x1 + y1) /\ Same(Word, x - y, x1 - y1)
  BY <1>1, SameSum
<1>3. Same(Word, x * y, x1 * y)
  BY <1>1, SameProduct
<1> QED
  BY <1>2, <1>3 DEF Wrap, Same

LEMMA Sums ==
    ASSUME NEW s \in Patterns, NEW t \in Patterns
    PROVE  /\ Number(ADDU(s, t)) = Wrap(Number(s) + Number(t))
           /\ Number(SUBU(s, t)) = Wrap(Number(s) - Number(t))
<1>1. /\ s \in Int /\ t \in Int /\ Number(s) \in Int /\ Number(t) \in Int
      /\ Number(s) % Word = s % Word /\ Number(t) % Word = t % Word
  BY NumberType
<1>2. /\ Low(s) \in Int /\ Low(t) \in Int
      /\ Same(Word, Low(s), Number(s)) /\ Same(Word, Low(t), Number(t))
  BY <1>1, LowType DEF Same
<1>3. Low(s) + Low(t) \in Int /\ Low(s) - Low(t) \in Int
  BY <1>2
<1>4. /\ Number(ADDU(s, t)) = Wrap(Low(s) + Low(t))
      /\ Number(SUBU(s, t)) = Wrap(Low(s) - Low(t))
  BY <1>3, ExtendType DEF ADDU, SUBU
<1>5. /\ Wrap(Low(s) + Low(t)) = Wrap(Number(s) + Number(t))
      /\ Wrap(Low(s) - Low(t)) = Wrap(Number(s) - Number(t))
  BY <1>1, <1>2, WrapArithmetic
<1> QED
  BY <1>4, <1>5

LEMMA ImmediateSums ==
    ASSUME NEW s \in Patterns, NEW i \in Immediates
    PROVE  /\ Number(ADDIU(s, i)) = Wrap(Number(s) + Imm(i))
           /\ Number(LUI(i)) = Imm(i) * Half
<1>1. /\ s \in Int /\ Imm(i) \in Int /\ i \in Int
      /\ Number(s) \in Int /\ Number(s) % Word = s % Word
  BY NumberType, ImmType
<1>2. /\ Low(s) \in Int /\ Same(Word, Low(s), Number(s))
      /\ Same(Word, Imm(i), Imm(i))
  BY <1>1, LowType DEF Same
<1>3. Number(ADDIU(s, i)) = Wrap(Low(s) + Imm(i))
  <2>1. Low(s) + Imm(i) \in Int
    BY <1>1, <1>2
  <2> QED
    BY <2>1, ExtendType DEF ADDIU
<1>4. Number(LUI(i)) = Imm(i) * Half
  <2> DEFINE u == i * Half   v == Imm(i) * Half
  <2>1. u \in Int /\ v \in Int
    BY <1>1, Sizes
  <2>2. Number(LUI(i)) = Wrap(u)
    BY <2>1, ExtendType DEF LUI
  <2>3. PICK q \in Int : i = Imm(i) + Half * q
    <3>1. i % Half = i
      BY ImmType, Sizes, Small
    <3>2. i % Half = Imm(i) % Half
      BY <3>1, ImmType
    <3> QED
      BY <1>1, <3>2, Sizes, SameRemainder
  <2>4. u = v + Word * q
    <3>1. (Half * q) * Half = (Half * Half) * q
      BY <2>3, Sizes
    <3>2. (Imm(i) + Half * q) * Half = v + (Half * q) * Half
      <4>1. \A a, b, c \in Int : (a + b) * c = a * c + b * c
        OBVIOUS
      <4>2. Half * q \in Int /\ Half \in Int
        BY <2>3, Sizes
      <4> QED
        BY <1>1, <4>1, <4>2
    <3> QED
      BY <2>3, <3>1, <3>2, Sizes
  <2>5. v \in SignedRange(Word)
    <3>1. PICK h \in Nat : Half = 2 * h /\ Half \div 2 = h
      BY Sizes
    <3>2. Imm(i) >= -h /\ Imm(i) <= h - 1
      BY <3>1, ImmType DEF SignedRange
    <3>3. Half * (-h) <= Half * Imm(i) /\ Half * Imm(i) <= Half * (h - 1)
      BY <1>1, <3>1, <3>2, Sizes, Monotone
    <3>4. Word = 2 * (Half * h) /\ Half * h \in Nat
      BY <3>1, Sizes
    <3>5. Word \div 2 = Half * h
      BY <3>4
    <3>6. /\ Half * (-h) = -(Half * h) /\ Half * (h - 1) = Half * h - Half
          /\ v = Half * Imm(i)
      BY <1>1, <3>1, Sizes
    <3> QED
      BY <2>1, <3>3, <3>4, <3>5, <3>6, Sizes DEF SignedRange
  <2> HIDE DEF u, v
  <2>6. u % Word = v % Word
    BY <2>1, <2>3, <2>4, Sizes, SameRemainder
  <2>7. Wrap(u) = v
    BY <2>5, <2>6, WrapSame, WrapFixed
  <2> QED
    BY <2>2, <2>7 DEF v
<1>5. Wrap(Low(s) + Imm(i)) = Wrap(Number(s) + Imm(i))
  BY <1>1, <1>2, WrapArithmetic
<1> QED
  BY <1>3, <1>4, <1>5

(* Dividing brings a number closer to zero, or to -1.                      *)
LEMMA QuotientRange ==
    ASSUME NEW n \in Nat \ {0}, n % 2 = 0, NEW z \in SignedRange(n),
           NEW p \in Nat \ {0}
    PROVE  z \div p \in SignedRange(n)
<1> DEFINE h == n \div 2
           y == z \div p
           r == z % p
<1>1. h \in Nat \ {0} /\ z \in Int /\ z >= -h /\ z <= h - 1
  BY DEF SignedRange
<1>2. y \in Int /\ r \in 0 .. p - 1 /\ z = p * y + r
  BY <1>1, Division
<1> HIDE DEF h, y, r
<1>3. p * y \in Int /\ p * h \in Nat /\ h <= p * h
  <2>1. h * 1 <= h * p
    BY <1>1, Monotone
  <2> QED
    BY <1>1, <1>2, <2>1
<1>4. ~(y >= h)
  <2> SUFFICES ASSUME y >= h PROVE FALSE
    OBVIOUS
  <2>1. p * h <= p * y
    BY <1>1, <1>2, Monotone
  <2> QED
    BY <1>1, <1>2, <1>3, <2>1
<1>5. ~(y <= -h - 1)
  <2> SUFFICES ASSUME y <= -h - 1 PROVE FALSE
    OBVIOUS
  <2>1. p * y <= p * (-h - 1)
    BY <1>1, <1>2, Monotone
  <2>2. p * (-h - 1) = -(p * h) - p
    BY <1>1
  <2> QED
    BY <1>1, <1>2, <1>3, <2>1, <2>2
<1>6. y \in -h .. h - 1
  BY <1>1, <1>2, <1>4, <1>5
<1> QED
  BY <1>6 DEF SignedRange, y, h

LEMMA ShiftWords ==
    ASSUME NEW t \in Patterns, NEW a \in 0 .. WordBits - 1
    PROVE  /\ Number(SLL(t, a)) = Wrap(Number(t) * Pow[a])
           /\ IsWord(t) => Number(SRA(t, a)) = Number(t) \div Pow[a]
           /\ Number(SRL(t, a)) = Wrap(Number(SRL(t, a)))
           /\ \A k \in 0 .. WordBits - 1 :
                Bit(Number(SRL(t, a)), k) =
                    IF k + a < WordBits THEN Bit(Number(t), k + a) ELSE 0
<1> DEFINE p == Pow[a]
<1>1. p \in Nat \ {0} /\ a \in Nat
  BY AmountType
<1>2. /\ t \in Int /\ Number(t) \in Int /\ Low(t) \in Int
      /\ Number(t) % Word = t % Word /\ Low(t) % Word = t % Word
  BY NumberType, LowType
<1>3. Number(SLL(t, a)) = Wrap(Number(t) * p)
  <2>1. Low(t) * p \in Int
    BY <1>1, <1>2
  <2>2. Number(SLL(t, a)) = Wrap(Low(t) * p)
    BY <2>1, ExtendType DEF SLL
  <2>3. p \in Int /\ Same(Word, p, p) /\ Same(Word, Low(t), Number(t))
    BY <1>1, <1>2 DEF Same
  <2> HIDE DEF p
  <2> QED
    BY <1>2, <2>2, <2>3, WrapArithmetic
<1>4. ASSUME IsWord(t) PROVE Number(SRA(t, a)) = Number(t) \div p
  <2>1. Number(t) \in SignedRange(Word)
    BY <1>4, WordNumber
  <2>2. Number(t) \div p \in SignedRange(Word)
    BY <1>1, <2>1, Sizes, QuotientRange
  <2>3. Number(t) \div p \in Int
    BY <2>2, Sizes
  <2>4. Number(SRA(t, a)) = Wrap(Number(t) \div p)
    BY <2>3, ExtendType DEF SRA, Number
  <2> QED
    BY <2>2, <2>4, WrapFixed
<1> DEFINE x == Low(t) \div p
           v == Number(SRL(t, a))
<1>5. x \in Int /\ v = Wrap(x)
  <2>1. x \in Int
    BY <1>1, <1>2, Division
  <2> QED
    BY <2>1, ExtendType DEF SRL
<1>6. v = Wrap(v) /\ v % Word = x % Word /\ v \in Int
  BY <1>5, WrapType, WrapFixed
<1>7. ASSUME NEW k \in 0 .. WordBits - 1
      PROVE  Bit(v, k) = IF k + a < WordBits THEN Bit(Number(t), k + a) ELSE 0
  <2>1. /\ WordBits \in 1 .. 2 * WordBits /\ k \in Nat /\ a + k <= 2 * WordBits
        /\ k + a \in Nat /\ k + a <= 2 * WordBits
        /\ WordBits \in 0 .. 2 * WordBits
    BY WidthTypes
  <2>2. Bit(v, k) = Bit(x, k)
    BY <1>5, <1>6, <2>1, BitOfRemainder DEF Word
  <2>3. Bit(x, k) = Bit(Low(t), k + a)
    BY <1>1, <1>2, <2>1, BitOfQuotient
  <2>4. CASE k + a < WordBits
    <3>1. k + a \in 0 .. WordBits - 1
      BY <2>1, <2>4, WidthTypes
    <3>2. Low(t) % Pow[WordBits] = Number(t) % Pow[WordBits]
      BY <1>2 DEF Word
    <3>3. Bit(Low(t), k + a) = Bit(Number(t), k + a)
      BY <1>2, <2>1, <3>1, <3>2, BitOfRemainder
    <3> QED
      BY <2>2, <2>3, <2>4, <3>3
  <2>5. CASE ~(k + a < WordBits)
    <3>1. k + a \in WordBits .. 2 * WordBits
      BY <2>1, <2>5, WidthTypes
    <3>2. Low(t) \in 0 .. Pow[WordBits] - 1
      BY <1>2, LowType DEF Word
    <3>3. Bit(Low(t), k + a) = 0
      BY <2>1, <3>1, <3>2, BitAbove
    <3> QED
      BY <2>2, <2>3, <2>5, <3>3
  <2> QED
    BY <2>4, <2>5
<1> QED
  BY <1>3, <1>4, <1>6, <1>7

LEMMA FlagType ==
    ASSUME NEW f \in {0, 1}
    PROVE  f \in Patterns /\ Number(f) = f /\ IsWord(f)
<1>1. f \in Patterns /\ f < Double \div 2 /\ f < Word \div 2
  BY Sizes DEF Patterns
<1>2. Number(f) = f
  BY <1>1 DEF Number, Signed
<1>3. f \in SignedRange(Word)
  BY <1>1, Sizes DEF SignedRange
<1> QED
  BY <1>1, <1>2, <1>3, WordNumber

LEMMA WideSum ==
    ASSUME NEW s \in Patterns, NEW i \in Immediates
    PROVE  /\ DADDIU(s, i) \in Patterns
           /\ (Number(DADDIU(s, i)) - Number(s) - Imm(i)) % Double = 0
<1>1. /\ s \in Int /\ Number(s) \in Int /\ Number(s) % Double = s /\ Imm(i) \in Int
      /\ Double \in Nat \ {0} /\ s % Double = s
  BY NumberType, ImmType, Sizes, Small DEF Patterns
<1> DEFINE x == s + Imm(i)
           v == Number(x % Double)
<1>2. x \in Int /\ DADDIU(s, i) = x % Double
  BY <1>1 DEF DADDIU
<1> HIDE DEF x
<1>3. x % Double \in Patterns
  BY <1>1, <1>2, Division DEF Patterns
<1>4. v \in Int /\ Same(Double, v, x)
  BY <1>3, NumberType DEF Same
<1> HIDE DEF v
<1>5. (v - Number(s) - Imm(i)) % Double = 0
  <2>1. Same(Double, Number(s), s) /\ Same(Double, Imm(i), Imm(i))
    BY <1>1 DEF Same
  <2> DEFINE n == Number(s)   d == v - n   u == x - s
  <2>2. Same(Double, d, u) /\ d \in Int /\ u \in Int
    <3>1. Same(Double, n, s) /\ n \in Int
      BY <1>1, <2>1
    <3> HIDE DEF n
    <3>2. d \in Int /\ u \in Int
      BY <1>1, <1>2, <1>4, <3>1
    <3>3. Same(Double, d, u)
      BY <1>1, <1>2, <1>4, <3>1, SameSum
    <3> QED
      BY <3>2, <3>3
  <2>3. u - Imm(i) = 0
    BY <1>1 DEF x
  <2> HIDE DEF d, u
  <2>4. Same(Double, d - Imm(i), u - Imm(i))
    BY <1>1, <2>1, <2>2, SameSum
  <2>5. 0 % Double = 0
    BY <1>1, Small
  <2> QED
    BY <2>3, <2>4, <2>5 DEF Same, d, n
<1> QED
  BY <1>2, <1>3, <1>5 DEF v

LEMMA WideQuotient ==
    ASSUME NEW t \in Patterns, NEW a \in 0 .. WordBits - 1
    PROVE  /\ DSRA32(t, a) \in Patterns
           /\ Number(DSRA32(t, a)) = Number(t) \div Pow[a + WordBits]
<1>1. Number(t) \in SignedRange(Double) /\ Number(t) \in Int /\ Double \in Nat \ {0}
  BY NumberType, Sizes
<1> DEFINE y == Number(t) \div Pow[a + WordBits]
<1>2. y \in SignedRange(Double) /\ DSRA32(t, a) = y % Double
  BY <1>1, AmountType, Sizes, QuotientRange DEF DSRA32, Number
<1>3. y \in Int
  BY <1>2, Sizes
<1> HIDE DEF y
<1>4. y % Double \in Patterns /\ Number(y % Double) = y
  BY <1>1, <1>2, <1>3, Division, NumberFixed DEF Patterns
<1> QED
  BY <1>2, <1>4 DEF y

(* Shifting a register to the left moves its bits.                         *)
LEMMA WideShift ==
    ASSUME NEW t \in Patterns, NEW a \in 0 .. (2 * WordBits) - 1
    PROVE  /\ DSLL(t, a) \in Patterns
           /\ \A k \in Positions :
                Bit(Number(DSLL(t, a)), k) =
                    IF k < a THEN 0 ELSE Bit(Number(t), k - a)
<1> DEFINE x == t * Pow[a]
<1>1. /\ t \in Int /\ x \in Int /\ Double \in Nat \ {0} /\ a \in Nat
      /\ DSLL(t, a) = x % Double
  <2>1. a \in 0 .. 2 * WordBits
    BY WidthTypes
  <2> QED
    BY <2>1, PowerType, NumberType, Sizes, WidthTypes DEF DSLL
<1>2. DSLL(t, a) \in Patterns
  <2> HIDE DEF x
  <2> QED
    BY <1>1, Division DEF Patterns
<1>3. ASSUME NEW k \in Positions
      PROVE  Bit(Number(DSLL(t, a)), k) = IF k < a THEN 0 ELSE Bit(Number(t), k - a)
  <2>1. /\ k \in 0 .. (2 * WordBits) - 1 /\ 2 * WordBits \in 1 .. 2 * WordBits
        /\ k \in Int
    BY WidthTypes DEF Positions
  <2>2. Bit(Number(DSLL(t, a)), k) = Bit(x % Double, k)
    BY <1>1, <1>2, BitOfSigned
  <2>3. Bit(x % Double, k) = Bit(x, k)
    <3> HIDE DEF x
    <3>1. x % Double \in Int /\ (x % Double) % Double = x % Double
      <4>1. x % Double \in 0 .. Double - 1
        BY <1>1, Division
      <4> QED
        BY <1>1, <4>1, Small
    <3> QED
      BY <1>1, <2>1, <3>1, BitOfRemainder DEF Double
  <2>4. Bit(x, k) = IF k < a THEN 0 ELSE Bit(t, k - a)
    BY <1>1, BitOfProduct
  <2>5. ~(k < a) => Bit(t, k - a) = Bit(Number(t), k - a)
    <3> SUFFICES ASSUME ~(k < a) PROVE Bit(t, k - a) = Bit(Number(t), k - a)
      OBVIOUS
    <3>1. k - a \in Positions
      BY <1>1, <2>1 DEF Positions
    <3> QED
      BY <3>1, BitOfSigned
  <2> QED
    BY <2>2, <2>3, <2>4, <2>5
<1> QED
  BY <1>2, <1>3

(* The bitwise instructions keep words.                                    *)
LEMMA LogicWords ==
    ASSUME NEW s \in Patterns, NEW t \in Patterns, IsWord(s), IsWord(t)
    PROVE  /\ IsWord(AND(s, t)) /\ IsWord(OR(s, t))
           /\ IsWord(XOR(s, t)) /\ IsWord(NOR(s, t))
<1>1. s \in Int /\ t \in Int
  BY NumberType
<1>2. \A k \in TopBits : /\ Bit(s, k) = Bit(s, WordBits - 1)
                         /\ Bit(t, k) = Bit(t, WordBits - 1)
  BY WordByBits
<1>3. \A k \in TopBits :
        /\ Bit(AND(s, t), k) = Bit(AND(s, t), WordBits - 1)
        /\ Bit(OR(s, t), k) = Bit(OR(s, t), WordBits - 1)
        /\ Bit(XOR(s, t), k) = Bit(XOR(s, t), WordBits - 1)
        /\ Bit(NOR(s, t), k) = Bit(NOR(s, t), WordBits - 1)
  BY <1>1, <1>2, TopPositions, LogicBits
<1> QED
  BY <1>1, <1>3, LogicBits, WordByBits

-----------------------------------------------------------------------------
(* Products and quotients.                                                 *)

LEMMA ProductHalves ==
    ASSUME NEW x \in Int, NEW y \in Int
    PROVE  /\ Product(x, y).hi \in Patterns /\ Product(x, y).lo \in Patterns
           /\ IsWord(Product(x, y).hi) /\ IsWord(Product(x, y).lo)
           /\ Number(Product(x, y).hi) = Wrap((x * y) \div Word)
           /\ Number(Product(x, y).hi) % Word = ((x * y) \div Word) % Word
           /\ Number(Product(x, y).lo) % Word = (x * y) % Word
<1> DEFINE z == x * y
           q == z \div Word
<1>1. z \in Int /\ Word \in Nat \ {0}
  BY Sizes
<1>2. q \in Int
  <2> HIDE DEF z
  <2> QED
    BY <1>1, Division
<1>3. Product(x, y).hi = Extend(q) /\ Product(x, y).lo = Extend(z)
  BY DEF Product
<1> HIDE DEF z, q
<1>4. /\ Extend(q) \in Patterns /\ IsWord(Extend(q)) /\ Number(Extend(q)) = Wrap(q)
      /\ Extend(z) \in Patterns /\ IsWord(Extend(z)) /\ Number(Extend(z)) = Wrap(z)
  BY <1>1, <1>2, ExtendType
<1>5. Wrap(q) % Word = q % Word /\ Wrap(z) % Word = z % Word
  BY <1>1, <1>2, WrapType
<1> QED
  BY <1>3, <1>4, <1>5 DEF q, z

(* The size of a product.                                                  *)
LEMMA ProductBound ==
    ASSUME NEW a \in Nat, NEW b \in Nat, NEW x \in -a .. a, NEW y \in -b .. b
    PROVE  x * y \in -(a * b) .. a * b
<1>1. x \in Int /\ y \in Int /\ a * b \in Nat /\ x * y \in Int
  OBVIOUS
<1>2. CASE x >= 0
  <2>1. x * y <= x * b /\ x * (-b) <= x * y
    BY <1>1, <1>2, Monotone
  <2>2. b * x <= b * a
    BY <1>1, Monotone
  <2>3. x * (-b) = -(x * b) /\ x * b = b * x /\ b * a = a * b
    BY <1>1
  <2> QED
    BY <1>1, <2>1, <2>2, <2>3
<1>3. CASE x < 0
  <2> DEFINE w == -x
  <2>1. w \in Nat /\ w <= a /\ x * y = -(w * y) /\ w * y \in Int
    BY <1>1, <1>3
  <2> HIDE DEF w
  <2>2. w * y <= w * b /\ w * (-b) <= w * y
    BY <1>1, <2>1, Monotone
  <2>3. b * w <= b * a
    BY <1>1, <2>1, Monotone
  <2>4. w * (-b) = -(w * b) /\ w * b = b * w /\ b * a = a * b
    BY <1>1, <2>1
  <2> QED
    BY <1>1, <2>1, <2>2, <2>3, <2>4
<1> QED
  BY <1>1, <1>2, <1>3

LEMMA Products ==
    ASSUME NEW s \in Patterns, NEW t \in Patterns, IsWord(s), IsWord(t)
    PROVE  /\ OnHiLo("MULT", Number(s), Number(t),
                     Number(MULT(s, t).hi), Number(MULT(s, t).lo))
           /\ OnHiLo("MULTU", Number(s), Number(t),
                     Number(MULTU(s, t).hi), Number(MULTU(s, t).lo))
<1>1. /\ s \in Int /\ t \in Int /\ Number(s) \in Int /\ Number(t) \in Int
      /\ Number(s) \in SignedRange(Word) /\ Number(t) \in SignedRange(Word)
      /\ Signed(Low(s), Word) = Number(s) /\ Signed(Low(t), Word) = Number(t)
      /\ Number(s) % Word = Low(s) /\ Number(t) % Word = Low(t)
  BY NumberType, WordNumber DEF Low
<1>2. Low(s) \in 0 .. Word - 1 /\ Low(t) \in 0 .. Word - 1
  BY <1>1, LowType
<1>3. OnHiLo("MULT", Number(s), Number(t), Number(MULT(s, t).hi), Number(MULT(s, t).lo))
  <2> DEFINE x == Number(s)   y == Number(t)   z == x * y   h == Word \div 2
             q == z \div Word
  <2>1. MULT(s, t) = Product(x, y)
    BY <1>1 DEF MULT
  <2>2. /\ Number(MULT(s, t).hi) = Wrap(q)
        /\ Number(MULT(s, t).lo) % Word = z % Word
    BY <1>1, <2>1, ProductHalves
  <2>3. /\ h \in Nat \ {0} /\ Word = 2 * h /\ x \in -h .. h /\ y \in -h .. h
        /\ z \in Int /\ x \in Int /\ y \in Int /\ Word \in Nat \ {0}
    BY <1>1, Sizes DEF SignedRange
  <2> HIDE DEF x, y, h
  <2>4. z \in -(h * h) .. h * h
    BY <2>3, ProductBound
  <2> HIDE DEF z
  <2>5. q \in Int /\ z = Word * q + (z % Word) /\ z % Word \in 0 .. Word - 1
    BY <2>3, Division
  <2> HIDE DEF q
  <2>6. Word * q = 2 * (h * q) /\ h * q \in Int
    BY <2>3, <2>5, Associates
  <2>7. q <= h - 1
    <3> SUFFICES ASSUME q >= h PROVE FALSE
      BY <2>3, <2>5
    <3>1. h * h <= h * q /\ h * 1 <= h * h
      BY <2>3, <2>5, Monotone
    <3> QED
      BY <2>3, <2>4, <2>5, <2>6, <3>1
  <2>8. q >= -h
    <3> SUFFICES ASSUME q <= -h - 1 PROVE FALSE
      BY <2>3, <2>5
    <3>1. h * q <= h * (-h - 1) /\ h * (-h - 1) = -(h * h) - h
      BY <2>3, <2>5, Monotone
    <3>2. h * h \in Nat
      BY <2>3
    <3> QED
      BY <2>3, <2>4, <2>5, <2>6, <3>1, <3>2
  <2>9. q \in SignedRange(Word)
    BY <2>3, <2>5, <2>7, <2>8 DEF SignedRange
  <2>10. Wrap(q) = q
    BY <2>9, WrapFixed
  <2>11. Number(MULT(s, t).hi) * Word + (Number(MULT(s, t).lo) % Word) = x * y
    BY <2>2, <2>3, <2>5, <2>10 DEF z
  <2> QED
    BY <2>11 DEF OnHiLo, x, y
<1>4. OnHiLo("MULTU", Number(s), Number(t),
             Number(MULTU(s, t).hi), Number(MULTU(s, t).lo))
  <2> DEFINE x == Low(s)   y == Low(t)   z == x * y   q == z \div Word
  <2>1. /\ Number(MULTU(s, t).hi) % Word = q % Word
        /\ Number(MULTU(s, t).lo) % Word = z % Word
    <3>1. x \in Int /\ y \in Int /\ MULTU(s, t) = Product(x, y)
      BY <1>2, Sizes DEF MULTU
    <3> HIDE DEF x, y
    <3> QED
      BY <3>1, ProductHalves
  <2>2. x \in 0 .. Word - 1 /\ y \in 0 .. Word - 1 /\ Word \in Nat \ {0} /\ z \in Nat
    BY <1>2, Sizes
  <2> HIDE DEF x, y
  <2>3. z <= Word * (Word - 1)
    <3>1. x * y <= x * (Word - 1) /\ (Word - 1) * x <= (Word - 1) * Word
      BY <2>2, Monotone
    <3>2. x * (Word - 1) = (Word - 1) * x /\ (Word - 1) * Word = Word * (Word - 1)
      BY <2>2
    <3> QED
      BY <2>2, <3>1, <3>2
  <2> HIDE DEF z
  <2>4. q \in Int /\ z = Word * q + (z % Word) /\ z % Word \in 0 .. Word - 1
    BY <2>2, Division
  <2> HIDE DEF q
  <2>5. q <= Word - 1
    <3> SUFFICES ASSUME q >= Word PROVE FALSE
      BY <2>2, <2>4
    <3>1. Word * Word <= Word * q /\ Word * (Word - 1) = Word * Word - Word
      BY <2>2, <2>4, Monotone
    <3> QED
      BY <2>2, <2>3, <2>4, <3>1
  <2>6. q >= 0
    <3> SUFFICES ASSUME q <= -1 PROVE FALSE
      BY <2>2, <2>4
    <3>1. Word * q <= Word * (-1)
      BY <2>2, <2>4, Monotone
    <3> QED
      BY <2>2, <2>4, <3>1
  <2>7. q % Word = q
    <3>1. q \in 0 .. Word - 1
      BY <2>2, <2>4, <2>5, <2>6
    <3> QED
      BY <2>2, <3>1, Small
  <2>8. (Number(MULTU(s, t).hi) % Word) * Word + (Number(MULTU(s, t).lo) % Word) = x * y
    BY <2>1, <2>2, <2>4, <2>7 DEF z
  <2> QED
    BY <1>1, <2>8 DEF OnHiLo, x, y
<1> QED
  BY <1>3, <1>4

(* Division that rounds to zero: the rest is smaller than the divisor and  *)
(* has the sign of the dividend.                                           *)
LEMMA TruncatedDivision ==
    ASSUME NEW x \in Int, NEW y \in Int \ {0}
    PROVE  LET q == Quotient(x, y)
               r == x - y * q
           IN  /\ q \in Int /\ r \in Int /\ Abs(r) < Abs(y)
               /\ r = 0 \/ (r < 0 <=> x < 0)
               /\ Abs(q) <= Abs(x)
<1> DEFINE a == Abs(x)   b == Abs(y)   p == a \div b   m == a % b
<1>1. /\ a \in Nat /\ b \in Nat \ {0}
      /\ IF x < 0 THEN x = -a ELSE x = a
      /\ IF y < 0 THEN y = -b ELSE y = b
  BY DEF Abs
<1>2. Quotient(x, y) = IF (x < 0) <=> (y < 0) THEN p ELSE -p
  BY DEF Quotient
<1>3. Abs(x) = a /\ Abs(y) = b
  OBVIOUS
<1> HIDE DEF a, b
<1>4. p \in Int /\ m \in 0 .. b - 1 /\ a = b * p + m
  BY <1>1, Division
<1> HIDE DEF p, m
<1>5. p >= 0
  <2> SUFFICES ASSUME p <= -1 PROVE FALSE
    BY <1>4
  <2>1. b * p <= b * (-1)
    BY <1>1, <1>4, Monotone
  <2> QED
    BY <1>1, <1>4, <2>1
<1>6. p <= a
  <2>1. p * 1 <= p * b
    BY <1>1, <1>4, <1>5, Monotone
  <2> QED
    BY <1>1, <1>4, <1>5, <2>1
<1> DEFINE q == Quotient(x, y)   r == x - y * q
<1>7. q \in Int /\ Abs(q) = p
  BY <1>2, <1>4, <1>5 DEF Abs
<1>8. r = IF x < 0 THEN -m ELSE m
  <2>1. /\ (-b) * p = -(b * p) /\ b * (-p) = -(b * p) /\ (-b) * (-p) = b * p
        /\ b * p \in Int
    BY <1>1, <1>4
  <2>2. CASE x < 0 /\ y < 0
    BY <1>1, <1>2, <1>4, <2>1, <2>2
  <2>3. CASE x < 0 /\ ~(y < 0)
    BY <1>1, <1>2, <1>4, <2>1, <2>3
  <2>4. CASE ~(x < 0) /\ y < 0
    BY <1>1, <1>2, <1>4, <2>1, <2>4
  <2>5. CASE ~(x < 0) /\ ~(y < 0)
    BY <1>1, <1>2, <1>4, <2>1, <2>5
  <2> QED
    BY <2>2, <2>3, <2>4, <2>5
<1> HIDE DEF q, r
<1>9. r \in Int /\ Abs(r) = m
  BY <1>4, <1>8 DEF Abs
<1>10. r = 0 \/ (r < 0 <=> x < 0)
  BY <1>4, <1>8
<1>11. Abs(r) < Abs(y) /\ Abs(q) <= Abs(x)
  BY <1>1, <1>3, <1>4, <1>6, <1>7, <1>9
<1> QED
  BY <1>7, <1>9, <1>10, <1>11 DEF q, r

LEMMA DividedHalves ==
    ASSUME NEW x \in Int, NEW y \in Int \ {0}
    PROVE  LET q == Quotient(x, y)
               r == x - y * q
               d == Divided(x, y)
           IN  /\ d.hi \in Patterns /\ d.lo \in Patterns
               /\ IsWord(d.hi) /\ IsWord(d.lo)
               /\ Number(d.hi) = Wrap(r) /\ Number(d.lo) = Wrap(q)
<1> DEFINE q == Quotient(x, y)   r == x - y * q
<1>1. q \in Int /\ r \in Int
  BY TruncatedDivision
<1>2. Divided(x, y).hi = Extend(r) /\ Divided(x, y).lo = Extend(q)
  BY DEF Divided
<1> HIDE DEF q, r
<1>3. /\ Extend(q) \in Patterns /\ IsWord(Extend(q)) /\ Number(Extend(q)) = Wrap(q)
      /\ Extend(r) \in Patterns /\ IsWord(Extend(r)) /\ Number(Extend(r)) = Wrap(r)
  BY <1>1, ExtendType
<1> QED
  BY <1>2, <1>3 DEF q, r

(* A word other than zero has a low half other than zero.                  *)
LEMMA ZeroWord ==
    ASSUME NEW t \in Patterns, IsWord(t), t # 0
    PROVE  Low(t) # 0 /\ Number(t) # 0
<1>1. Number(t) % Double = t /\ Signed(Low(t), Word) = Number(t)
  BY NumberType, WordNumber
<1>2. 0 % Double = 0
  BY Sizes, Small
<1>3. Signed(0, Word) = 0
  BY Sizes DEF Signed
<1> QED
  BY <1>1, <1>2, <1>3

LEMMA UnsignedDivision ==
    ASSUME NEW s \in Patterns, NEW t \in Patterns, IsWord(s), IsWord(t), t # 0
    PROVE  OnHiLo("DIVU", Number(s), Number(t),
                  Number(DIVU(s, t).hi), Number(DIVU(s, t).lo))
<1> DEFINE x == Low(s)   y == Low(t)   q == Quotient(x, y)   r == x - y * q
           h == Number(DIVU(s, t).hi)   l == Number(DIVU(s, t).lo)
<1>1. /\ Number(s) % Word = x /\ Number(t) % Word = y /\ y # 0
      /\ x \in 0 .. Word - 1 /\ y \in 0 .. Word - 1 /\ Word \in Nat \ {0}
      /\ x \in Int /\ y \in Int \ {0}
  BY NumberType, ZeroWord, LowType, Sizes DEF Low
<1>2. DIVU(s, t) = Divided(x, y)
  BY <1>1 DEF DIVU
<1> HIDE DEF x, y
<1>3. /\ q \in Int /\ r \in Int /\ Abs(r) < Abs(y) /\ Abs(q) <= Abs(x)
      /\ r = 0 \/ (r < 0 <=> x < 0)
      /\ h = Wrap(r) /\ l = Wrap(q)
  BY <1>1, <1>2, TruncatedDivision, DividedHalves
<1>4. x = y * q + r /\ y * q = q * y
  BY <1>1, <1>3
<1> HIDE DEF r, h, l
<1>5. r \in 0 .. y - 1 /\ r \in 0 .. Word - 1
  BY <1>1, <1>3 DEF Abs
<1> HIDE DEF q
<1>6. q >= 0
  <2> SUFFICES ASSUME q <= -1 PROVE FALSE
    BY <1>3
  <2>1. y * q <= y * (-1)
    BY <1>1, <1>3, Monotone
  <2> QED
    BY <1>1, <1>3, <1>4, <1>5, <2>1
<1>7. q \in 0 .. Word - 1
  BY <1>1, <1>3, <1>6 DEF Abs
<1>8. h % Word = r /\ l % Word = q
  <2>1. h % Word = r % Word /\ l % Word = q % Word
    BY <1>3, WrapType
  <2>2. r % Word = r /\ q % Word = q
    BY <1>1, <1>5, <1>7, Small
  <2> QED
    BY <2>1, <2>2
<1>9. x = q * y + r /\ r < y
  BY <1>1, <1>3, <1>4, <1>5
<1> QED
  BY <1>1, <1>8, <1>9 DEF OnHiLo, h, l

LEMMA SignedDivision ==
    ASSUME NEW s \in Patterns, NEW t \in Patterns, IsWord(s), IsWord(t), t # 0
    PROVE  OnHiLo("DIV", Number(s), Number(t),
                  Number(DIV(s, t).hi), Number(DIV(s, t).lo))
<1> DEFINE x == Number(s)   y == Number(t)   q == Quotient(x, y)   r == x - y * q
           h == Number(DIV(s, t).hi)   l == Number(DIV(s, t).lo)
<1>1. /\ x \in Int /\ y \in Int /\ y # 0 /\ Word \in Nat \ {0} /\ Low(t) # 0
      /\ x \in SignedRange(Word) /\ y \in SignedRange(Word)
      /\ Signed(Low(s), Word) = x /\ Signed(Low(t), Word) = y
  BY NumberType, WordNumber, ZeroWord, Sizes
<1>2. DIV(s, t) = Divided(x, y)
  BY <1>1 DEF DIV
<1> HIDE DEF x, y
<1>3. /\ q \in Int /\ r \in Int /\ Abs(r) < Abs(y)
      /\ r = 0 \/ (r < 0 <=> x < 0)
      /\ h = Wrap(r) /\ l = Wrap(q)
  BY <1>1, <1>2, TruncatedDivision, DividedHalves
<1>4. x = y * q + r
  BY <1>1, <1>3
<1> HIDE DEF r, h, l, q
<1>5. r \in SignedRange(Word)
  BY <1>1, <1>3 DEF Abs, SignedRange
<1>6. h = r
  BY <1>3, <1>5, WrapFixed
<1>7. Wrap(l * y + h) = x
  <2> DEFINE ly == l * y   qy == q * y
  <2>1. l \in Int /\ Same(Word, l, q)
    BY <1>3, WrapType DEF Same
  <2>2. Same(Word, l * y, q * y)
    BY <1>1, <1>3, <2>1, SameProduct
  <2>3. Same(Word, ly, qy) /\ ly \in Int /\ qy \in Int
    BY <1>1, <1>3, <2>1, <2>2
  <2>4. qy + r = x
    BY <1>1, <1>3, <1>4
  <2> HIDE DEF ly, qy
  <2>5. Same(Word, r, r)
    BY DEF Same
  <2>6. Wrap(ly + r) = Wrap(qy + r)
    BY <1>3, <2>3, <2>5, WrapArithmetic
  <2>7. Wrap(x) = x
    BY <1>1, WrapFixed
  <2> QED
    BY <1>6, <2>4, <2>6, <2>7 DEF ly
<1>8. Abs(h) < Abs(y) /\ (h = 0 \/ (h < 0 <=> x < 0))
  BY <1>3, <1>6
<1> QED
  BY <1>7, <1>8 DEF OnHiLo, x, y, h, l

(* Zero, one and -1 are words; of s_DIV's 0xFFFFFFFF it is only a pattern. *)
LEMMA Constants ==
    /\ 0 \in Patterns /\ IsWord(0) /\ 1 \in Patterns /\ IsWord(1)
    /\ Double - 1 \in Patterns /\ IsWord(Double - 1)
    /\ Word - 1 \in Patterns
<1>1. /\ 0 \in Patterns /\ 1 \in Patterns
      /\ Double - 1 \in Patterns /\ Word - 1 \in Patterns
  BY Sizes DEF Patterns
<1>2. /\ 1 < Double \div 2 /\ ~(Double - 1 < Double \div 2) /\ 1 < Word \div 2
      /\ (Double - 1) - Double = -1
  BY Sizes
<1>3. Number(0) = 0 /\ Number(1) = 1 /\ Number(Double - 1) = -1
  BY <1>2, Sizes DEF Number, Signed
<1>4. {0, 1, -1} \subseteq SignedRange(Word)
  BY <1>2, Sizes DEF SignedRange
<1>5. \A x \in Patterns : Number(x) \in SignedRange(Word) => IsWord(x)
  BY WordNumber
<1> QED
  BY <1>1, <1>3, <1>4, <1>5

LEMMA HiLoType ==
    ASSUME NEW op \in HiLoOps, NEW s \in Patterns, NEW t \in Patterns
    PROVE  /\ HiLo(op, s, t).hi \in Patterns /\ HiLo(op, s, t).lo \in Patterns
           /\ /\ IsWord(s) /\ IsWord(t)
              /\ ~(op = "DIV" /\ Low(t) = 0 /\ Low(s) < Word \div 2)
              => IsWord(HiLo(op, s, t).hi) /\ IsWord(HiLo(op, s, t).lo)
<1>1. /\ Low(s) \in Int /\ Low(t) \in Int
      /\ Signed(Low(s), Word) \in Int /\ Signed(Low(t), Word) \in Int
      /\ Low(t) # 0 => Signed(Low(t), Word) # 0
  <2>1. s \in Int /\ t \in Int
    BY NumberType
  <2>2. Low(s) \in 0 .. Word - 1 /\ Low(t) \in 0 .. Word - 1
    BY <2>1, LowType
  <2> QED
    BY <2>2, Sizes DEF Signed
<1>2. CASE op = "MULT"
  <2>1. HiLo(op, s, t) = Product(Signed(Low(s), Word), Signed(Low(t), Word))
    BY <1>2 DEF HiLo, MULT
  <2> QED
    BY <1>1, <2>1, ProductHalves
<1>3. CASE op = "MULTU"
  <2>1. HiLo(op, s, t) = Product(Low(s), Low(t))
    BY <1>3 DEF HiLo, MULTU
  <2> QED
    BY <1>1, <2>1, ProductHalves
<1>4. CASE op = "DIV"
  <2>1. HiLo(op, s, t) = DIV(s, t)
    BY <1>4 DEF HiLo
  <2>2. CASE Low(t) = 0
    <3>1. /\ HiLo(op, s, t).hi = s
          /\ HiLo(op, s, t).lo = IF Low(s) < Word \div 2 THEN Word - 1 ELSE 1
      BY <2>1, <2>2 DEF DIV
    <3> QED
      BY <1>4, <2>2, <3>1, Constants
  <2>3. CASE Low(t) # 0
    <3>1. HiLo(op, s, t) = Divided(Signed(Low(s), Word), Signed(Low(t), Word))
      BY <2>1, <2>3 DEF DIV
    <3> QED
      BY <1>1, <2>3, <3>1, DividedHalves
  <2> QED
    BY <2>2, <2>3
<1>5. CASE op = "DIVU"
  <2>1. HiLo(op, s, t) = DIVU(s, t)
    BY <1>5 DEF HiLo
  <2>2. CASE Low(t) = 0
    <3>1. HiLo(op, s, t).hi = s /\ HiLo(op, s, t).lo = Double - 1
      BY <2>1, <2>2 DEF DIVU
    <3> QED
      BY <3>1, Constants
  <2>3. CASE Low(t) # 0
    <3>1. HiLo(op, s, t) = Divided(Low(s), Low(t))
      BY <2>1, <2>3 DEF DIVU
    <3> QED
      BY <1>1, <2>3, <3>1, DividedHalves
  <2> QED
    BY <2>2, <2>3
<1> QED
  BY <1>2, <1>3, <1>4, <1>5 DEF HiLoOps

LEMMA HiLoCorrect ==
    ASSUME NEW op \in HiLoOps, NEW s \in Patterns, NEW t \in Patterns,
           IsWord(s), IsWord(t), op \in {"DIV", "DIVU"} => t # 0
    PROVE  OnHiLo(op, Number(s), Number(t),
                  Number(HiLo(op, s, t).hi), Number(HiLo(op, s, t).lo))
<1>1. CASE op = "MULT"
  BY <1>1, Products DEF HiLo
<1>2. CASE op = "MULTU"
  BY <1>2, Products DEF HiLo
<1>3. CASE op = "DIV"
  BY <1>3, SignedDivision DEF HiLo
<1>4. CASE op = "DIVU"
  BY <1>4, UnsignedDivision DEF HiLo
<1> QED
  BY <1>1, <1>2, <1>3, <1>4 DEF HiLoOps

-----------------------------------------------------------------------------
(* Shifts by an amount in a register.                                      *)

LEMMA ShiftTypes ==
    ASSUME NEW t \in Patterns, NEW a \in 0 .. WordBits - 1
    PROVE  /\ SLL(t, a) \in Patterns /\ IsWord(SLL(t, a))
           /\ SRL(t, a) \in Patterns /\ IsWord(SRL(t, a))
           /\ SRA(t, a) \in Patterns /\ IsWord(SRA(t, a))
<1> DEFINE p == Pow[a]   x == Low(t) * p   y == Low(t) \div p
           z == Signed(t, Double) \div p
<1>1. p \in Nat \ {0} /\ Low(t) \in Int /\ Signed(t, Double) \in Int
  BY AmountType, NumberType, LowType DEF Number
<1>2. x \in Int /\ y \in Int /\ z \in Int
  <2>1. x \in Int
    BY <1>1
  <2> DEFINE u == Low(t)   w == Signed(t, Double)
  <2>2. u \in Int /\ w \in Int
    BY <1>1
  <2> HIDE DEF p, u, w
  <2>3. u \div p \in Int /\ w \div p \in Int
    BY <1>1, <2>2, Division
  <2> QED
    BY <2>1, <2>3 DEF u, w
<1>3. SLL(t, a) = Extend(x) /\ SRL(t, a) = Extend(y) /\ SRA(t, a) = Extend(z)
  BY DEF SLL, SRL, SRA
<1> HIDE DEF x, y, z
<1> QED
  BY <1>2, <1>3, ExtendType

LEMMA VariableShiftType ==
    ASSUME NEW op \in VariableOps, NEW s \in Patterns, NEW t \in Patterns,
           NEW v \in VariableShifts(op, s, t)
    PROVE  /\ v \in Patterns /\ IsWord(v)
           /\ s % (2 * WordBits) < WordBits => v = Shifted(op, t, s % WordBits)
<1> DEFINE a == s % (2 * WordBits)
<1>1. /\ a \in 0 .. (2 * WordBits) - 1
      /\ a < WordBits => a = s % WordBits
  BY LowestBits
<1>2. /\ a < WordBits => v = Shifted(op, t, a)
      /\ ~(a < WordBits) => v = Shifted(op, t, a - WordBits) \/ v = 0
  BY DEF VariableShifts
<1> HIDE DEF a
<1>3. IF a < WordBits THEN a \in 0 .. WordBits - 1
                      ELSE a - WordBits \in 0 .. WordBits - 1
  BY <1>1, WidthTypes
<1>4. \A b \in 0 .. WordBits - 1 :
            Shifted(op, t, b) \in Patterns /\ IsWord(Shifted(op, t, b))
  BY ShiftTypes DEF Shifted
<1> QED
  BY <1>1, <1>2, <1>3, <1>4, Constants DEF a

-----------------------------------------------------------------------------
(* The instruction that is executed.                                       *)

ComputeOps == RegisterOps \cup AmountOps \cup ImmediateOps

LEMMA InstrTypes ==
    ASSUME NEW o \in Instrs
    PROVE  /\ o.op \in AmountOps => o.i \in 0 .. WordBits - 1
           /\ o.op \in ImmediateOps \cup BranchOps \cup {"J"} => o.i \in Immediates
           /\ o.d \in {"s", "t"}
BY WidthAssumption
   DEF Instrs, RegisterOps, VariableOps, AmountOps, ImmediateOps, HiLoOps, BranchOps

LEMMA RegisterValue ==
    ASSUME NEW o, NEW s, NEW t, NEW h, NEW l
    PROVE  /\ o.op = "ADDU" => Value(o, s, t, h, l) = ADDU(s, t)
           /\ o.op = "SUBU" => Value(o, s, t, h, l) = SUBU(s, t)
           /\ o.op = "SLT" => Value(o, s, t, h, l) = SLT(s, t)
           /\ o.op = "SLTU" => Value(o, s, t, h, l) = SLTU(s, t)
           /\ o.op = "AND" => Value(o, s, t, h, l) = AND(s, t)
           /\ o.op = "OR" => Value(o, s, t, h, l) = OR(s, t)
           /\ o.op = "XOR" => Value(o, s, t, h, l) = XOR(s, t)
           /\ o.op = "NOR" => Value(o, s, t, h, l) = NOR(s, t)
           /\ o.op = "SRAV" => Value(o, s, t, h, l) = SRAV(s, t)
           /\ o.op = "DSLLV" => Value(o, s, t, h, l) = DSLLV(s, t)
           /\ o.op = "MFHI" => Value(o, s, t, h, l) = h
           /\ o.op = "MFLO" => Value(o, s, t, h, l) = l
BY DEF Value

LEMMA AmountValue ==
    ASSUME NEW o, NEW s, NEW t, NEW h, NEW l
    PROVE  /\ o.op = "SLL" => Value(o, s, t, h, l) = SLL(t, o.i)
           /\ o.op = "SRL" => Value(o, s, t, h, l) = SRL(t, o.i)
           /\ o.op = "SRA" => Value(o, s, t, h, l) = SRA(t, o.i)
           /\ o.op = "DSLL" => Value(o, s, t, h, l) = DSLL(t, o.i)
           /\ o.op = "DSLL32" => Value(o, s, t, h, l) = DSLL(t, o.i + WordBits)
           /\ o.op = "DSRA32" => Value(o, s, t, h, l) = DSRA32(t, o.i)
BY DEF Value

LEMMA ImmediateValue ==
    ASSUME NEW o, NEW s, NEW t, NEW h, NEW l
    PROVE  /\ o.op = "ADDIU" => Value(o, s, t, h, l) = ADDIU(s, o.i)
           /\ o.op = "DADDIU" => Value(o, s, t, h, l) = DADDIU(s, o.i)
           /\ o.op = "SLTI" => Value(o, s, t, h, l) = SLTI(s, o.i)
           /\ o.op = "SLTIU" => Value(o, s, t, h, l) = SLTIU(s, o.i)
           /\ o.op = "ANDI" => Value(o, s, t, h, l) = AND(s, o.i)
           /\ o.op = "ORI" => Value(o, s, t, h, l) = OR(s, o.i)
           /\ o.op = "XORI" => Value(o, s, t, h, l) = XOR(s, o.i)
           /\ o.op = "LUI" => Value(o, s, t, h, l) = LUI(o.i)
BY DEF Value

LEMMA AddTypes ==
    ASSUME NEW s \in Patterns, NEW t \in Patterns, NEW i \in Immediates
    PROVE  /\ ADDU(s, t) \in Patterns /\ IsWord(ADDU(s, t))
           /\ SUBU(s, t) \in Patterns /\ IsWord(SUBU(s, t))
           /\ ADDIU(s, i) \in Patterns /\ IsWord(ADDIU(s, i))
           /\ LUI(i) \in Patterns /\ IsWord(LUI(i))
<1>1. Low(s) \in Int /\ Low(t) \in Int /\ Imm(i) \in Int /\ i \in Int /\ Half \in Int
  BY NumberType, LowType, ImmType, Sizes
<1>2. /\ Low(s) + Low(t) \in Int /\ Low(s) - Low(t) \in Int
      /\ Low(s) + Imm(i) \in Int /\ i * Half \in Int
  BY <1>1
<1> QED
  BY <1>2, ExtendType DEF ADDU, SUBU, ADDIU, LUI

LEMMA Comparisons ==
    ASSUME NEW s \in Patterns, NEW t \in Patterns, NEW i \in Immediates
    PROVE  /\ SLT(s, t) \in {0, 1} /\ SLTU(s, t) \in {0, 1}
           /\ SLTI(s, i) \in {0, 1} /\ SLTIU(s, i) \in {0, 1}
           /\ SLT(s, t) = Flag(Number(s) < Number(t))
           /\ SLTU(s, t) = Flag(Number(s) % Double < Number(t) % Double)
           /\ SLTI(s, i) = Flag(Number(s) < Imm(i))
           /\ SLTIU(s, i) = Flag(Number(s) % Double < Imm(i) % Double)
<1>1. Number(s) % Double = s /\ Number(t) % Double = t
  BY NumberType
<1> QED
  BY <1>1 DEF SLT, SLTU, SLTI, SLTIU, Flag, Number

(* An instruction leaves a pattern, and one on words leaves a word.        *)
LEMMA RegisterType ==
    ASSUME NEW o \in Instrs, o.op \in RegisterOps,
           NEW s \in Patterns, NEW t \in Patterns,
           NEW h \in Patterns, NEW l \in Patterns
    PROVE  /\ Value(o, s, t, h, l) \in Patterns
           /\ /\ o.op \notin WideOps
              /\ IsWord(s) /\ IsWord(t) /\ IsWord(h) /\ IsWord(l)
              => IsWord(Value(o, s, t, h, l))
<1> DEFINE v == Value(o, s, t, h, l)
           a == s % WordBits   b == s % (2 * WordBits)
<1>1. s \in Int /\ t \in Int /\ a \in 0 .. WordBits - 1 /\ b \in 0 .. (2 * WordBits) - 1
  BY NumberType, LowestBits
<1>2. CASE o.op \in {"ADDU", "SUBU"}
  <2>1. Low(s) + Low(t) \in Int /\ Low(s) - Low(t) \in Int
    BY <1>1, LowType
  <2> QED
    BY <1>2, <2>1, RegisterValue, ExtendType DEF ADDU, SUBU
<1>3. CASE o.op \in {"SLT", "SLTU"}
  <2>1. SLT(s, t) \in {0, 1} /\ SLTU(s, t) \in {0, 1}
    BY DEF SLT, SLTU, Flag
  <2> QED
    BY <1>3, <2>1, RegisterValue, FlagType
<1>4. CASE o.op \in {"AND", "OR", "XOR", "NOR"}
  BY <1>1, <1>4, RegisterValue, LogicBits, LogicWords
<1>5. CASE o.op = "SRAV"
  <2>1. v = SRA(t, a)
    BY <1>5, RegisterValue DEF SRAV
  <2> HIDE DEF v, a
  <2>2. v \in Patterns /\ IsWord(v)
    BY <1>1, <2>1, ShiftTypes
  <2> QED
    BY <2>2 DEF v
<1>6. CASE o.op = "DSLLV"
  <2>1. v = DSLL(t, b)
    BY <1>6, RegisterValue DEF DSLLV
  <2> HIDE DEF v, b
  <2>2. v \in Patterns
    BY <1>1, <2>1, WideShift
  <2> QED
    BY <1>6, <2>2 DEF v, WideOps
<1>7. CASE o.op \in {"MFHI", "MFLO"}
  BY <1>7, RegisterValue
<1> QED
  BY <1>2, <1>3, <1>4, <1>5, <1>6, <1>7 DEF RegisterOps

LEMMA AmountOpType ==
    ASSUME NEW o \in Instrs, o.op \in AmountOps,
           NEW s, NEW t \in Patterns, NEW h, NEW l
    PROVE  /\ Value(o, s, t, h, l) \in Patterns
           /\ o.op \notin WideOps => IsWord(Value(o, s, t, h, l))
<1>1. /\ o.i \in 0 .. WordBits - 1 /\ o.i \in 0 .. (2 * WordBits) - 1
      /\ o.i + WordBits \in 0 .. (2 * WordBits) - 1
  BY InstrTypes, AmountType
<1>2. CASE o.op \in {"SLL", "SRL", "SRA"}
  BY <1>1, <1>2, AmountValue, ShiftTypes
<1>3. CASE o.op = "DSLL"
  BY <1>1, <1>3, AmountValue, WideShift DEF WideOps
<1>4. CASE o.op = "DSLL32"
  BY <1>1, <1>4, AmountValue, WideShift DEF WideOps
<1>5. CASE o.op = "DSRA32"
  BY <1>1, <1>5, AmountValue, WideQuotient DEF WideOps
<1> QED
  BY <1>2, <1>3, <1>4, <1>5 DEF AmountOps

LEMMA ImmediateOpType ==
    ASSUME NEW o \in Instrs, o.op \in ImmediateOps,
           NEW s \in Patterns, NEW t, NEW h, NEW l
    PROVE  /\ Value(o, s, t, h, l) \in Patterns
           /\ o.op \notin WideOps /\ IsWord(s) => IsWord(Value(o, s, t, h, l))
<1>1. /\ o.i \in Immediates /\ o.i \in Patterns /\ o.i \in Int /\ IsWord(o.i)
      /\ s \in Int
  BY InstrTypes, ImmType, NumberType
<1>2. CASE o.op \in {"ADDIU", "LUI"}
  BY <1>1, <1>2, ImmediateValue, AddTypes
<1>3. CASE o.op \in {"SLTI", "SLTIU"}
  <2>1. SLTI(s, o.i) \in {0, 1} /\ SLTIU(s, o.i) \in {0, 1}
    BY <1>1, Comparisons
  <2> QED
    BY <1>3, <2>1, ImmediateValue, FlagType
<1>4. CASE o.op \in {"ANDI", "ORI", "XORI"}
  BY <1>1, <1>4, ImmediateValue, LogicBits, LogicWords
<1>5. CASE o.op = "DADDIU"
  BY <1>1, <1>5, ImmediateValue, WideSum DEF WideOps
<1> QED
  BY <1>2, <1>3, <1>4, <1>5 DEF ImmediateOps

LEMMA ValueType ==
    ASSUME NEW o \in Instrs, o.op \in ComputeOps,
           NEW s \in Patterns, NEW t \in Patterns,
           NEW h \in Patterns, NEW l \in Patterns
    PROVE  /\ Value(o, s, t, h, l) \in Patterns
           /\ /\ o.op \notin WideOps
              /\ IsWord(s) /\ IsWord(t) /\ IsWord(h) /\ IsWord(l)
              => IsWord(Value(o, s, t, h, l))
BY RegisterType, AmountOpType, ImmediateOpType DEF ComputeOps

(* What the manual says of the value, instruction by instruction.          *)
ByManual(o, s, t, h, l, v) ==
    IF o.op \in WordOps
    THEN IsWord(s) /\ IsWord(t) /\ ~Undefined(o, Number(s)) =>
            OnWords(o, Number(s), Number(t), Number(v))
    ELSE OnDoubles(o, Number(s), Number(t), Number(h), Number(l), Number(v))

LEMMA WordCases ==
    ASSUME NEW o, NEW s, NEW t, NEW v
    PROVE  /\ o.op = "ADDU" => (OnWords(o, s, t, v) <=> v = Wrap(s + t))
           /\ o.op = "SUBU" => (OnWords(o, s, t, v) <=> v = Wrap(s - t))
           /\ o.op = "ADDIU" => (OnWords(o, s, t, v) <=> v = Wrap(s + Imm(o.i)))
           /\ o.op = "LUI" => (OnWords(o, s, t, v) <=> v = Imm(o.i) * Half)
           /\ o.op = "SLL" => (OnWords(o, s, t, v) <=> v = Wrap(t * Pow[o.i]))
           /\ o.op = "SRA" => (OnWords(o, s, t, v) <=> v = t \div Pow[o.i])
           /\ o.op = "SRAV" => (OnWords(o, s, t, v) <=> v = t \div Pow[s % WordBits])
           /\ o.op = "SLLV" =>
                (OnWords(o, s, t, v) <=> v = Wrap(t * Pow[s % WordBits]))
BY DEF OnWords

(* The bits that a word has after a shift to the right.                    *)
RightBits(t, a, v) ==
    /\ v = Wrap(v)
    /\ \A k \in 0 .. WordBits - 1 :
            Bit(v, k) = IF k + a < WordBits THEN Bit(t, k + a) ELSE 0

LEMMA RightCases ==
    ASSUME NEW o, NEW s, NEW t, NEW v
    PROVE  /\ o.op = "SRL" => (OnWords(o, s, t, v) <=> RightBits(t, o.i, v))
           /\ o.op = "SRLV" => (OnWords(o, s, t, v) <=> RightBits(t, s % WordBits, v))
<1>1. ASSUME o.op = "SRL" PROVE OnWords(o, s, t, v) <=> RightBits(t, o.i, v)
  BY <1>1 DEF OnWords, RightBits
<1>2. ASSUME o.op = "SRLV" PROVE OnWords(o, s, t, v) <=> RightBits(t, s % WordBits, v)
  BY <1>2 DEF OnWords, RightBits
<1> QED
  BY <1>1, <1>2

LEMMA WordsByManual ==
    ASSUME NEW o \in Instrs, o.op \in WordOps, o.op \in ComputeOps,
           NEW s \in Patterns, NEW t \in Patterns, NEW h, NEW l,
           IsWord(s), IsWord(t)
    PROVE  OnWords(o, Number(s), Number(t), Number(Value(o, s, t, h, l)))
<1>1. CASE o.op \in {"ADDU", "SUBU"}
  BY <1>1, Sums, RegisterValue, WordCases
<1>2. CASE o.op \in {"ADDIU", "LUI"}
  <2>1. o.i \in Immediates
    BY <1>2, InstrTypes DEF ImmediateOps
  <2> QED
    BY <1>2, <2>1, ImmediateSums, ImmediateValue, WordCases
<1>3. CASE o.op \in {"SLL", "SRA", "SRL"}
  <2>1. o.i \in 0 .. WordBits - 1
    BY <1>3, InstrTypes DEF AmountOps
  <2>2. /\ Number(SLL(t, o.i)) = Wrap(Number(t) * Pow[o.i])
        /\ Number(SRA(t, o.i)) = Number(t) \div Pow[o.i]
        /\ RightBits(Number(t), o.i, Number(SRL(t, o.i)))
    BY <2>1, ShiftWords DEF RightBits
  <2> QED
    BY <1>3, <2>2, AmountValue, WordCases, RightCases
<1>4. CASE o.op = "SRAV"
  <2> DEFINE a == s % WordBits
  <2>1. a \in 0 .. WordBits - 1 /\ Number(s) % WordBits = a
    BY LowestBits
  <2>2. Value(o, s, t, h, l) = SRA(t, a)
    BY <1>4, RegisterValue DEF SRAV
  <2> HIDE DEF a
  <2>3. Number(SRA(t, a)) = Number(t) \div Pow[a]
    BY <2>1, ShiftWords
  <2> QED
    BY <1>4, <2>1, <2>2, <2>3, WordCases
<1> QED
  BY <1>1, <1>2, <1>3, <1>4
     DEF WordOps, ComputeOps, RegisterOps, AmountOps, ImmediateOps

LEMMA DoubleCases ==
    ASSUME NEW o, NEW s, NEW t, NEW h, NEW l, NEW v
    PROVE  /\ o.op = "DADDIU" =>
                (OnDoubles(o, s, t, h, l, v) <=> (v - s - Imm(o.i)) % Double = 0)
           /\ o.op = "SLT" => (OnDoubles(o, s, t, h, l, v) <=> v = Flag(s < t))
           /\ o.op = "SLTI" => (OnDoubles(o, s, t, h, l, v) <=> v = Flag(s < Imm(o.i)))
           /\ o.op = "SLTU" =>
                (OnDoubles(o, s, t, h, l, v) <=> v = Flag(s % Double < t % Double))
           /\ o.op = "SLTIU" =>
                (OnDoubles(o, s, t, h, l, v)
                    <=> v = Flag(s % Double < Imm(o.i) % Double))
           /\ o.op = "DSRA32" =>
                (OnDoubles(o, s, t, h, l, v) <=> v = t \div Pow[o.i + WordBits])
           /\ o.op = "MFHI" => (OnDoubles(o, s, t, h, l, v) <=> v = h)
           /\ o.op = "MFLO" => (OnDoubles(o, s, t, h, l, v) <=> v = l)
BY DEF OnDoubles, Flag

(* The bits that a register has after a shift to the left.                 *)
LeftBits(t, a, v) ==
    \A k \in Positions : Bit(v, k) = IF k < a THEN 0 ELSE Bit(t, k - a)

LEMMA LeftCases ==
    ASSUME NEW o, NEW s, NEW t, NEW h, NEW l, NEW v
    PROVE  /\ o.op = "DSLL" => (OnDoubles(o, s, t, h, l, v) <=> LeftBits(t, o.i, v))
           /\ o.op = "DSLL32" =>
                (OnDoubles(o, s, t, h, l, v) <=> LeftBits(t, o.i + WordBits, v))
           /\ o.op = "DSLLV" =>
                (OnDoubles(o, s, t, h, l, v) <=> LeftBits(t, s % (2 * WordBits), v))
<1>1. Positions = 0 .. 2 * WordBits - 1
  BY WidthTypes DEF Positions
<1>2. ASSUME o.op = "DSLL"
      PROVE  OnDoubles(o, s, t, h, l, v) <=> LeftBits(t, o.i, v)
  BY <1>1, <1>2 DEF OnDoubles, LeftBits
<1>3. ASSUME o.op = "DSLL32"
      PROVE  OnDoubles(o, s, t, h, l, v) <=> LeftBits(t, o.i + WordBits, v)
  BY <1>1, <1>3 DEF OnDoubles, LeftBits
<1>4. ASSUME o.op = "DSLLV"
      PROVE  OnDoubles(o, s, t, h, l, v) <=> LeftBits(t, s % (2 * WordBits), v)
  BY <1>1, <1>4 DEF OnDoubles, LeftBits
<1> QED
  BY <1>2, <1>3, <1>4

(* The bits of a bitwise instruction.                                      *)
LogicOps == {"AND", "OR", "XOR", "NOR", "ANDI", "ORI", "XORI"}

LogicBit(op, x, y) ==
    CASE op \in {"AND", "ANDI"} -> x * y
      [] op \in {"OR", "ORI"} -> x + y - x * y
      [] op \in {"XOR", "XORI"} -> (x + y) % 2
      [] op = "NOR" -> 1 - (x + y - x * y)

LEMMA LogicCases ==
    ASSUME NEW o, o.op \in LogicOps, NEW s, NEW t, NEW h, NEW l, NEW v
    PROVE  OnDoubles(o, s, t, h, l, v) <=>
                \A k \in Positions :
                    Bit(v, k) = LogicBit(o.op, Bit(s, k),
                                    IF o.op \in ImmediateOps THEN Bit(o.i, k)
                                                             ELSE Bit(t, k))
<1>1. Positions = 0 .. 2 * WordBits - 1
  BY WidthTypes DEF Positions
<1>2. OnDoubles(o, s, t, h, l, v) <=>
        \A k \in 0 .. 2 * WordBits - 1 :
            Bit(v, k) = LogicBit(o.op, Bit(s, k),
                            IF o.op \in ImmediateOps THEN Bit(o.i, k) ELSE Bit(t, k))
  BY DEF OnDoubles, LogicBit, LogicOps
<1> QED
  BY <1>1, <1>2

LEMMA LogicByManual ==
    ASSUME NEW o \in Instrs, o.op \in LogicOps,
           NEW s \in Patterns, NEW t \in Patterns, NEW h, NEW l
    PROVE  OnDoubles(o, Number(s), Number(t), Number(h), Number(l),
                     Number(Value(o, s, t, h, l)))
<1> DEFINE v == Value(o, s, t, h, l)
<1>1. s \in Int /\ t \in Int
  BY NumberType
<1>2. /\ \A k \in Positions : /\ Bit(Number(s), k) = Bit(s, k)
                              /\ Bit(Number(t), k) = Bit(t, k)
      /\ \A x \in Patterns : \A k \in Positions : Bit(Number(x), k) = Bit(x, k)
  BY BitOfSigned
<1>3. CASE o.op \notin ImmediateOps
  <2>1. /\ v \in Patterns
        /\ \A k \in Positions : Bit(v, k) = LogicBit(o.op, Bit(s, k), Bit(t, k))
    <3>1. o.op \in {"AND", "OR", "XOR", "NOR"}
      BY <1>3 DEF LogicOps, ImmediateOps
    <3> QED
      BY <1>1, <3>1, RegisterValue, LogicBits DEF LogicBit
  <2> HIDE DEF v
  <2>2. \A k \in Positions :
            Bit(Number(v), k) = LogicBit(o.op, Bit(Number(s), k), Bit(Number(t), k))
    BY <1>2, <2>1
  <2> QED
    BY <1>3, <2>2, LogicCases DEF v
<1>4. CASE o.op \in ImmediateOps
  <2>1. o.i \in Int
    BY <1>4, InstrTypes, ImmType
  <2>2. /\ v \in Patterns
        /\ \A k \in Positions : Bit(v, k) = LogicBit(o.op, Bit(s, k), Bit(o.i, k))
    <3>1. o.op \in {"ANDI", "ORI", "XORI"}
      BY <1>4 DEF LogicOps, ImmediateOps
    <3> QED
      BY <1>1, <2>1, <3>1, ImmediateValue, LogicBits DEF LogicBit
  <2> HIDE DEF v
  <2>3. \A k \in Positions :
            Bit(Number(v), k) = LogicBit(o.op, Bit(Number(s), k), Bit(o.i, k))
    BY <1>2, <2>2
  <2> QED
    BY <1>4, <2>3, LogicCases DEF v
<1> QED
  BY <1>3, <1>4

LEMMA DoublesByManual ==
    ASSUME NEW o \in Instrs, o.op \notin WordOps, o.op \in ComputeOps,
           NEW s \in Patterns, NEW t \in Patterns, NEW h, NEW l
    PROVE  OnDoubles(o, Number(s), Number(t), Number(h), Number(l),
                     Number(Value(o, s, t, h, l)))
<1>1. o.op \in ImmediateOps => o.i \in Immediates
  BY InstrTypes
<1>2. /\ o.op \in AmountOps => o.i \in 0 .. WordBits - 1
      /\ \A a \in 0 .. WordBits - 1 : /\ a \in 0 .. (2 * WordBits) - 1
                                      /\ a + WordBits \in 0 .. (2 * WordBits) - 1
  BY InstrTypes, AmountType
<1>3. CASE o.op \in {"SLT", "SLTU"}
  <2>1. SLT(s, t) \in {0, 1} /\ SLTU(s, t) \in {0, 1}
    BY DEF SLT, SLTU, Flag
  <2>2. Number(SLT(s, t)) = SLT(s, t) /\ Number(SLTU(s, t)) = SLTU(s, t)
    BY <2>1, FlagType
  <2>3. Number(s) % Double = s /\ Number(t) % Double = t
    BY NumberType
  <2> QED
    BY <1>3, <2>2, <2>3, RegisterValue, DoubleCases DEF SLT, SLTU, Number, Flag
<1>4. CASE o.op \in {"SLTI", "SLTIU"}
  <2>1. o.i \in Immediates
    BY <1>1, <1>4 DEF ImmediateOps
  <2>2. /\ SLTI(s, o.i) \in {0, 1} /\ SLTIU(s, o.i) \in {0, 1}
        /\ SLTI(s, o.i) = Flag(Number(s) < Imm(o.i))
        /\ SLTIU(s, o.i) = Flag(Number(s) % Double < Imm(o.i) % Double)
    BY <2>1, Comparisons
  <2>3. Number(SLTI(s, o.i)) = SLTI(s, o.i) /\ Number(SLTIU(s, o.i)) = SLTIU(s, o.i)
    BY <2>2, FlagType
  <2> QED
    BY <1>4, <2>2, <2>3, ImmediateValue, DoubleCases DEF Flag
<1>5. CASE o.op = "DADDIU"
  <2>1. o.i \in Immediates
    BY <1>1, <1>5 DEF ImmediateOps
  <2> QED
    BY <1>5, <2>1, WideSum, ImmediateValue, DoubleCases
<1>6. CASE o.op = "DSRA32"
  <2>1. o.i \in 0 .. WordBits - 1
    BY <1>2, <1>6 DEF AmountOps
  <2> QED
    BY <1>6, <2>1, WideQuotient, AmountValue, DoubleCases
<1>7. CASE o.op \in {"MFHI", "MFLO"}
  BY <1>7, RegisterValue, DoubleCases
<1>8. \A a \in 0 .. (2 * WordBits) - 1 : LeftBits(Number(t), a, Number(DSLL(t, a)))
  BY WideShift DEF LeftBits
<1>9. CASE o.op \in {"DSLL", "DSLL32"}
  <2>1. o.i \in 0 .. WordBits - 1
    BY <1>2, <1>9 DEF AmountOps
  <2>2. /\ LeftBits(Number(t), o.i, Number(DSLL(t, o.i)))
        /\ LeftBits(Number(t), o.i + WordBits, Number(DSLL(t, o.i + WordBits)))
    BY <1>2, <1>8, <2>1
  <2> QED
    BY <1>9, <2>2, AmountValue, LeftCases
<1>10. CASE o.op = "DSLLV"
  <2> DEFINE a == s % (2 * WordBits)
  <2>1. a \in 0 .. (2 * WordBits) - 1 /\ Number(s) % (2 * WordBits) = a
    BY LowestBits
  <2>2. Value(o, s, t, h, l) = DSLL(t, a)
    BY <1>10, RegisterValue DEF DSLLV
  <2> HIDE DEF a
  <2>3. LeftBits(Number(t), a, Number(DSLL(t, a)))
    BY <1>8, <2>1
  <2> QED
    BY <1>10, <2>1, <2>2, <2>3, LeftCases
<1>11. CASE o.op \in LogicOps
  BY <1>11, LogicByManual
<1> QED
  BY <1>3, <1>4, <1>5, <1>6, <1>7, <1>9, <1>10, <1>11
     DEF WordOps, ComputeOps, RegisterOps, AmountOps, ImmediateOps, LogicOps

-----------------------------------------------------------------------------
(* Branches and jumps.                                                     *)

LEMMA TakenByManual ==
    ASSUME NEW op \in BranchOps, NEW s \in Patterns, NEW t \in Patterns,
           op = "BGEZ" => IsWord(s)
    PROVE  Taken(op, s, t) <=> ShouldTake(op, Number(s), Number(t))
<1>1. s = t <=> Number(s) = Number(t)
  BY NumberType
<1>2. IsWord(s) => Signed(Low(s), Word) = Number(s)
  BY WordNumber
<1>3. Signed(s, Double) = Number(s)
  BY DEF Number
<1>4. CASE op \in {"BEQ", "BNE"}
  BY <1>1, <1>4 DEF Taken, ShouldTake
<1>5. CASE op \in {"BLEZ", "BGTZ", "BGEZAL"}
  BY <1>3, <1>5 DEF Taken, ShouldTake
<1>6. CASE op = "BGEZ"
  BY <1>2, <1>6 DEF Taken, ShouldTake
<1> QED
  BY <1>4, <1>5, <1>6 DEF BranchOps

(* Four times an offset that is near is what int16_t holds of it.          *)
LEMMA NearOffset ==
    ASSUME NEW i \in Immediates, Near(i)
    PROVE  Imm((i * 4) % Half) = 4 * Imm(i)
<1> DEFINE z == 4 * Imm(i)   u == i * 4
<1>1. i \in 0 .. Half - 1 /\ Imm(i) \in Int /\ Imm(i) % Half = i /\ i \in Int
  BY ImmType
<1>2. Half \in Nat \ {0} /\ Half % 8 = 0 /\ Half % 2 = 0
  BY Sizes, Widths
<1>3. z \in SignedRange(Half)
  <2>1. PICK e \in Nat : Half = 8 * e
    <3>1. Half \div 8 \in Int /\ Half = 8 * (Half \div 8) + (Half % 8)
      BY <1>2, Division
    <3> QED
      BY <1>2, <3>1
  <2>2. Half \div 8 = e /\ Half \div 2 = 4 * e
    BY <2>1
  <2> QED
    BY <1>1, <2>1, <2>2 DEF Near, SignedRange
<1>4. u % Half = z % Half
  <2>1. i % Half = Imm(i) % Half
    BY <1>1, <1>2, Small
  <2>2. PICK q \in Int : i = Imm(i) + Half * q
    BY <1>1, <1>2, <2>1, SameRemainder
  <2> DEFINE p == Half * q
  <2>3. p \in Int /\ p * 4 = Half * (q * 4) /\ q * 4 \in Int
    BY <1>2, <2>2, Associates
  <2>4. u = z + Half * (q * 4)
    <3> HIDE DEF p
    <3>1. i = Imm(i) + p => u = z + p * 4
      BY <1>1, <2>3
    <3> QED
      BY <2>2, <2>3, <3>1 DEF p
  <2>5. u \in Int /\ z \in Int
    BY <1>1
  <2> HIDE DEF u, z, p
  <2> QED
    BY <1>2, <2>3, <2>4, <2>5, SameRemainder
<1> HIDE DEF z, u
<1>5. Imm(z % Half) = z
  BY <1>2, <1>3, PatternOfSigned DEF Imm
<1>6. Imm(u % Half) = z
  BY <1>4, <1>5
<1> QED
  BY <1>6 DEF u, z

LEMMA TargetByManual ==
    ASSUME NEW p \in Patterns, NEW i \in Immediates
    PROVE  /\ BranchTarget(p, i) \in Patterns
           /\ Near(i) => (BranchTarget(p, i) - (p - 4 + 4 * Imm(i))) % Double = 0
<1> DEFINE o == Imm((i * 4) % Half)   x == p - 4 + o   y == x % Double
<1>1. /\ p \in Int /\ i \in Int
      /\ Half \in Nat \ {0} /\ Half % 2 = 0 /\ Double \in Nat \ {0}
  BY NumberType, ImmType, Sizes
<1>2. o \in Int
  <2> DEFINE u == i * 4
  <2>1. u \in Int
    BY <1>1
  <2> HIDE DEF u
  <2>2. u % Half \in 0 .. Half - 1
    BY <1>1, <2>1, Division
  <2>3. Imm(u % Half) \in Int
    BY <1>1, <2>2 DEF Imm, Signed
  <2> QED
    BY <2>3 DEF u
<1>3. Near(i) => o = 4 * Imm(i)
  BY NearOffset
<1> HIDE DEF o
<1>4. x \in Int /\ BranchTarget(p, i) = y
  BY <1>1, <1>2 DEF BranchTarget, o
<1>5. x = p - 4 + o
  OBVIOUS
<1> HIDE DEF x
<1>6. y \in Patterns
  BY <1>1, <1>4, Division DEF Patterns
<1>7. (y - x) % Double = 0
  <2>1. Same(Double, y, x) /\ y \in Int
    <3>1. y \in 0 .. Double - 1
      BY <1>1, <1>4, Division
    <3>2. y % Double = y
      BY <1>1, <3>1, Small
    <3> QED
      BY <1>1, <3>1, <3>2 DEF Same
  <2>2. Same(Double, x, x)
    BY DEF Same
  <2> HIDE DEF y
  <2>3. Same(Double, y - x, x - x)
    BY <1>1, <1>4, <2>1, <2>2, SameSum
  <2>4. x - x = 0 /\ 0 % Double = 0
    BY <1>1, <1>4, Small
  <2> QED
    BY <2>3, <2>4 DEF Same
<1> QED
  BY <1>3, <1>4, <1>5, <1>6, <1>7

LEMMA JumpTargetByManual ==
    ASSUME NEW p \in Patterns, NEW i \in Immediates
    PROVE  /\ JumpTarget(p, i) \in Patterns
           /\ JumpTarget(p, i) \div Region = Low(p) \div Region
           /\ (JumpTarget(p, i) - 4 * i) % Region = 0
<1> DEFINE l == Low(p)   q == l \div Region   u == i * 4   r == u % Region
           j == Region * q + r
<1>1. /\ p \in Int /\ i \in Int /\ Region \in Nat \ {0} /\ Word = 16 * Region
      /\ l \in 0 .. Word - 1 /\ Double \in Nat /\ Word <= Double
  BY NumberType, ImmType, LowType, Sizes, Widths
<1>2. u \in Int /\ 4 * i = u
  BY <1>1
<1>3. q \in Int /\ l = Region * q + (l % Region) /\ l % Region \in 0 .. Region - 1
  <2> HIDE DEF l
  <2> QED
    BY <1>1, Division
<1>4. r \in 0 .. Region - 1
  <2> HIDE DEF u
  <2> QED
    BY <1>1, <1>2, Division
<1>5. JumpTarget(p, i) = j
  <2>1. q * Region = Region * q
    BY <1>1, <1>3
  <2> QED
    BY <2>1 DEF JumpTarget
<1> HIDE DEF l, q, u, r
<1>6. q \in 0 .. 15
  <2>1. ASSUME q <= -1 PROVE FALSE
    <3>1. Region * q <= Region * (-1)
      BY <1>1, <1>3, <2>1, Monotone
    <3> QED
      BY <1>1, <1>3, <3>1
  <2>2. ASSUME q >= 16 PROVE FALSE
    <3>1. Region * 16 <= Region * q
      BY <1>1, <1>3, <2>2, Monotone
    <3> QED
      BY <1>1, <1>3, <3>1
  <2> QED
    BY <1>3, <2>1, <2>2
<1>7. j \in Patterns
  <2>1. Region * q <= Region * 15 /\ Region * 0 <= Region * q
    BY <1>1, <1>3, <1>6, Monotone
  <2> QED
    BY <1>1, <1>3, <1>4, <2>1 DEF Patterns
<1>8. j \div Region = q /\ j % Region = r
  BY <1>1, <1>3, <1>4, Unique
<1>9. (j - u) % Region = 0
  <2>1. j \in Int
    BY <1>1, <1>3, <1>4
  <2>2. Same(Region, j, u) /\ Same(Region, u, u)
    <3>1. u % Region = r
      BY DEF r
    <3> QED
      BY <1>8, <3>1 DEF Same
  <2> HIDE DEF j
  <2>3. Same(Region, j - u, u - u)
    BY <1>1, <1>2, <2>1, <2>2, SameSum
  <2>4. u - u = 0 /\ 0 % Region = 0
    BY <1>1, <1>2, Small
  <2> QED
    BY <2>3, <2>4 DEF Same
<1> QED
  BY <1>2, <1>5, <1>7, <1>8, <1>9 DEF q, l

-----------------------------------------------------------------------------
(* Types and words are kept.                                               *)

Registers == [{"s", "t"} -> Patterns]

LEMMA Typed ==
    ASSUME TypeOK
    PROVE  /\ reg["s"] \in Patterns /\ reg["t"] \in Patterns
           /\ reg \in Registers
           /\ hi \in Patterns /\ lo \in Patterns /\ pc \in Patterns
           /\ ins # Idle => ins \in Instrs
BY DEF TypeOK, Patterns, Registers

LEMMA InitType == Init => TypeOK /\ WordsStayWords
<1> SUFFICES ASSUME Init PROVE TypeOK /\ WordsStayWords
  OBVIOUS
<1>1. \A x \in Operands \cup Places : Extend(x) \in Patterns /\ IsWord(Extend(x))
  <2>1. \A x \in Operands \cup Places : x \in Int
    BY WidthAssumption, Sizes
  <2> QED
    BY <2>1, ExtendType
<1>2. /\ reg \in Registers /\ pc \in Patterns
      /\ IsWord(reg["s"]) /\ IsWord(reg["t"])
  BY <1>1 DEF Init, Registers
<1>3. hi = 0 /\ lo = 0 /\ ins = Idle /\ trap = FALSE /\ wide = FALSE /\ steps = 0
  BY DEF Init
<1>4. MaxSteps \in Nat
  BY WidthAssumption
<1>5. TypeOK
  <2>1. {hi, lo, pc} \subseteq Patterns
    BY <1>2, <1>3, Constants
  <2>2. ins \in Instrs \cup {Idle} /\ {trap, wide} \subseteq BOOLEAN
    BY <1>3
  <2>3. steps \in 0 .. MaxSteps
    BY <1>3, <1>4
  <2> QED
    BY <1>2, <2>1, <2>2, <2>3 DEF TypeOK, Patterns, Registers
<1>6. WordsStayWords
  BY <1>2, <1>3, Constants DEF WordsStayWords
<1> QED
  BY <1>5, <1>6

LEMMA RFType == TypeOK /\ WordsStayWords /\ RF => TypeOK' /\ WordsStayWords'
<1> SUFFICES ASSUME TypeOK, WordsStayWords, RF PROVE TypeOK' /\ WordsStayWords'
  OBVIOUS
<1>1. /\ ins' \in Instrs /\ steps' = steps + 1 /\ steps < MaxSteps
      /\ reg' = reg /\ hi' = hi /\ lo' = lo /\ pc' = pc /\ trap' = trap /\ wide' = wide
  BY DEF RF
<1>2. steps' \in 0 .. MaxSteps
  BY <1>1, WidthAssumption DEF TypeOK
<1>3. TypeOK'
  BY <1>1, <1>2 DEF TypeOK
<1>4. WordsStayWords'
  BY <1>1 DEF WordsStayWords
<1> QED
  BY <1>3, <1>4

LEMMA ComputeType == TypeOK /\ WordsStayWords /\ Compute => TypeOK' /\ WordsStayWords'
<1> SUFFICES ASSUME TypeOK, WordsStayWords, Compute PROVE TypeOK' /\ WordsStayWords'
  OBVIOUS
<1> DEFINE v == Value(ins, reg["s"], reg["t"], hi, lo)
<1>1. /\ ins.op \in ComputeOps /\ ins' = Idle /\ steps' = steps
      /\ reg' = [reg EXCEPT ![ins.d] = v]
      /\ wide' = (wide \/ ins.op \in WideOps)
      /\ hi' = hi /\ lo' = lo /\ pc' = pc /\ trap' = trap
  BY DEF Compute, Execute, ComputeOps
<1>2. ins \in Instrs
  BY <1>1, Typed DEF Idle, ComputeOps, RegisterOps, AmountOps, ImmediateOps
<1>3. /\ v \in Patterns
      /\ /\ ins.op \notin WideOps
         /\ IsWord(reg["s"]) /\ IsWord(reg["t"]) /\ IsWord(hi) /\ IsWord(lo)
         => IsWord(v)
  BY <1>1, <1>2, Typed, ValueType
<1> HIDE DEF v
<1>4. \A r \in {"s", "t"} : reg'[r] \in {v, reg[r]}
  BY <1>1, Typed DEF Registers
<1>5. TypeOK'
  BY <1>1, <1>3, <1>4, Typed DEF TypeOK, Patterns, Registers
<1>6. WordsStayWords'
  BY <1>1, <1>3, <1>4 DEF WordsStayWords
<1> QED
  BY <1>5, <1>6

LEMMA ShiftVariableType ==
    TypeOK /\ WordsStayWords /\ ShiftVariable => TypeOK' /\ WordsStayWords'
<1> SUFFICES ASSUME TypeOK, WordsStayWords, ShiftVariable
             PROVE  TypeOK' /\ WordsStayWords'
  OBVIOUS
<1>1. PICK v \in VariableShifts(ins.op, reg["s"], reg["t"]) :
            reg' = [reg EXCEPT ![ins.d] = v]
  BY DEF ShiftVariable
<1>2. /\ ins.op \in VariableOps /\ ins' = Idle /\ steps' = steps
      /\ hi' = hi /\ lo' = lo /\ pc' = pc /\ trap' = trap /\ wide' = wide
  BY DEF ShiftVariable, Execute
<1>3. v \in Patterns /\ IsWord(v)
  BY <1>1, <1>2, Typed, VariableShiftType
<1>4. \A r \in {"s", "t"} : reg'[r] \in {v, reg[r]}
  BY <1>1, Typed DEF Registers
<1>5. TypeOK'
  BY <1>1, <1>2, <1>3, Typed DEF TypeOK, Patterns, Registers
<1>6. WordsStayWords'
  BY <1>2, <1>3, <1>4 DEF WordsStayWords
<1> QED
  BY <1>5, <1>6

LEMMA MultiplyDivideType ==
    TypeOK /\ WordsStayWords /\ MultiplyDivide => TypeOK' /\ WordsStayWords'
<1> SUFFICES ASSUME TypeOK, WordsStayWords, MultiplyDivide
             PROVE  TypeOK' /\ WordsStayWords'
  OBVIOUS
<1> DEFINE d == HiLo(ins.op, reg["s"], reg["t"])
           z == ins.op = "DIV" /\ Low(reg["t"]) = 0 /\ Low(reg["s"]) < Word \div 2
<1>1. /\ ins.op \in HiLoOps /\ ins' = Idle /\ steps' = steps
      /\ reg' = reg /\ hi' = d.hi /\ lo' = d.lo /\ pc' = pc /\ trap' = trap
  BY DEF MultiplyDivide, Execute
<1>2. wide' = (wide \/ z)
  BY DEF MultiplyDivide
<1>3. /\ d.hi \in Patterns /\ d.lo \in Patterns
      /\ IsWord(reg["s"]) /\ IsWord(reg["t"]) /\ ~z => IsWord(d.hi) /\ IsWord(d.lo)
  BY <1>1, Typed, HiLoType
<1> HIDE DEF d, z
<1>4. TypeOK'
  <2>1. /\ ins' \in Instrs \cup {Idle} /\ reg' \in [{"s", "t"} -> 0 .. Double - 1]
        /\ {hi', lo', pc'} \subseteq 0 .. Double - 1 /\ steps' \in 0 .. MaxSteps
    BY <1>1, <1>3, Typed DEF TypeOK, Patterns
  <2>2. trap' \in BOOLEAN /\ wide' \in BOOLEAN
    <3>1. trap' \in BOOLEAN
      BY <1>1 DEF TypeOK
    <3>2. wide' \in BOOLEAN
      BY <1>2, Zenon
    <3> QED
      BY <3>1, <3>2
  <2> QED
    BY <2>1, <2>2 DEF TypeOK
<1>5. WordsStayWords'
  BY <1>1, <1>2, <1>3 DEF WordsStayWords
<1> QED
  BY <1>4, <1>5

LEMMA MoveType ==
    TypeOK /\ WordsStayWords /\ (MTHI \/ MTLO) => TypeOK' /\ WordsStayWords'
<1> SUFFICES ASSUME TypeOK, WordsStayWords, MTHI \/ MTLO
             PROVE  TypeOK' /\ WordsStayWords'
  OBVIOUS
<1>1. /\ ins' = Idle /\ steps' = steps
      /\ reg' = reg /\ pc' = pc /\ trap' = trap /\ wide' = wide
      /\ \/ hi' = reg["s"] /\ lo' = lo
         \/ lo' = reg["s"] /\ hi' = hi
  BY DEF MTHI, MTLO, Execute
<1>2. TypeOK'
  BY <1>1, Typed DEF TypeOK, Patterns
<1>3. WordsStayWords'
  BY <1>1 DEF WordsStayWords
<1> QED
  BY <1>2, <1>3

LEMMA JumpType ==
    TypeOK /\ WordsStayWords /\ (Branch \/ J) => TypeOK' /\ WordsStayWords'
<1> SUFFICES ASSUME TypeOK, WordsStayWords, Branch \/ J
             PROVE  TypeOK' /\ WordsStayWords'
  OBVIOUS
<1>1. /\ ins' = Idle /\ steps' = steps /\ ins.op \in BranchOps \cup {"J"}
      /\ reg' = reg /\ hi' = hi /\ lo' = lo /\ trap' = trap /\ wide' = wide
      /\ pc' \in {pc, BranchTarget(pc, ins.i), JumpTarget(pc, ins.i)}
  BY DEF Branch, J, Execute
<1>2. ins.i \in Immediates
  BY <1>1, Typed, InstrTypes DEF Idle, BranchOps
<1>3. pc' \in Patterns
  BY <1>1, <1>2, Typed, TargetByManual, JumpTargetByManual
<1>4. TypeOK'
  BY <1>1, <1>3 DEF TypeOK, Patterns
<1>5. WordsStayWords'
  BY <1>1 DEF WordsStayWords
<1> QED
  BY <1>4, <1>5

LEMMA TrapType == TypeOK /\ WordsStayWords /\ Trap => TypeOK' /\ WordsStayWords'
<1> SUFFICES ASSUME TypeOK, WordsStayWords, Trap PROVE TypeOK' /\ WordsStayWords'
  OBVIOUS
<1>1. /\ ins' = Idle /\ steps' = steps
      /\ reg' = reg /\ hi' = hi /\ lo' = lo /\ pc' = pc /\ wide' = wide
      /\ trap' = (reg["s"] >= reg["t"])
  BY DEF Trap, TGE, Execute
<1>2. trap' \in BOOLEAN
  <2>1. CASE reg["s"] >= reg["t"]
    BY <1>1, <2>1
  <2>2. CASE ~(reg["s"] >= reg["t"])
    BY <1>1, <2>2
  <2> QED
    BY <2>1, <2>2
<1>3. TypeOK'
  BY <1>1, <1>2 DEF TypeOK
<1>4. WordsStayWords'
  BY <1>1 DEF WordsStayWords
<1> QED
  BY <1>3, <1>4

LEMMA NextType == TypeOK /\ WordsStayWords /\ [Next]_vars => TypeOK' /\ WordsStayWords'
<1>1. TypeOK /\ WordsStayWords /\ UNCHANGED vars => TypeOK' /\ WordsStayWords'
  BY DEF vars, TypeOK, WordsStayWords
<1> QED
  BY <1>1, RFType, ComputeType, ShiftVariableType, MultiplyDivideType, MoveType,
     JumpType, TrapType DEF Next, EX, Horizon

LEMMA TypeAndWords == Spec => [](TypeOK /\ WordsStayWords)
<1>1. Init => TypeOK /\ WordsStayWords
  BY InitType
<1>2. TypeOK /\ WordsStayWords /\ [Next]_vars => (TypeOK /\ WordsStayWords)'
  BY NextType
<1> QED
  BY <1>1, <1>2, PTL DEF Spec

\* As long as no instruction on 64 bits and no DIV of a number >= 0 by zero has been
\* executed, every register, hi and lo hold a sign-extended word.
THEOREM SignExtended == Spec => []WordsStayWords
BY TypeAndWords, PTL

-----------------------------------------------------------------------------
(* The steps of the program and the manual.                                *)

LEMMA ComputeByManual == TypeOK /\ Compute => RegisterByManual
<1> SUFFICES ASSUME TypeOK, Compute PROVE RegisterByManual
  OBVIOUS
<1> DEFINE s == reg["s"]   t == reg["t"]   v == Value(ins, s, t, hi, lo)
<1>1. ins.op \in ComputeOps /\ reg' = [reg EXCEPT ![ins.d] = v]
  BY DEF Compute, Execute, ComputeOps
<1>2. ins \in Instrs /\ ins.d \in {"s", "t"}
  BY <1>1, Typed, InstrTypes
     DEF Idle, ComputeOps, RegisterOps, AmountOps, ImmediateOps
<1>3. reg'[ins.d] = v
  BY <1>1, <1>2, Typed DEF Registers
<1>4. ins.op \in WordOps /\ IsWord(s) /\ IsWord(t) =>
        OnWords(ins, Number(s), Number(t), Number(v))
  BY <1>1, <1>2, Typed, WordsByManual
<1>5. ins.op \notin WordOps =>
        OnDoubles(ins, Number(s), Number(t), Number(hi), Number(lo), Number(v))
  BY <1>1, <1>2, Typed, DoublesByManual
<1> HIDE DEF v
<1> QED
  BY <1>3, <1>4, <1>5 DEF RegisterByManual

LEMMA ShiftVariableByManual == TypeOK /\ ShiftVariable => RegisterByManual
<1> SUFFICES ASSUME TypeOK, ShiftVariable PROVE RegisterByManual
  OBVIOUS
<1> DEFINE s == reg["s"]   t == reg["t"]   a == s % WordBits
<1>1. PICK v \in VariableShifts(ins.op, s, t) : reg' = [reg EXCEPT ![ins.d] = v]
  BY DEF ShiftVariable
<1>2. ins.op \in VariableOps
  BY DEF ShiftVariable, Execute
<1>3. ins \in Instrs /\ ins.d \in {"s", "t"} /\ ins.op \in WordOps
  BY <1>2, Typed, InstrTypes DEF Idle, VariableOps, WordOps
<1>4. reg'[ins.d] = v
  BY <1>1, <1>3, Typed DEF Registers
<1>5. ASSUME IsWord(s), IsWord(t), ~Undefined(ins, Number(s))
      PROVE  OnWords(ins, Number(s), Number(t), Number(v))
  <2>1. /\ Number(s) % (2 * WordBits) = s % (2 * WordBits)
        /\ Number(s) % WordBits = a /\ a \in 0 .. WordBits - 1
        /\ s % (2 * WordBits) \in Int /\ WordBits \in Int
    BY Typed, LowestBits, WidthTypes
  <2>2. s % (2 * WordBits) < WordBits
    BY <1>2, <1>5, <2>1 DEF Undefined
  <2>3. v = Shifted(ins.op, t, a)
    BY <1>1, <1>2, <2>2, Typed, VariableShiftType
  <2> HIDE DEF a
  <2>4. /\ Number(SLL(t, a)) = Wrap(Number(t) * Pow[a])
        /\ RightBits(Number(t), a, Number(SRL(t, a)))
    BY <2>1, Typed, ShiftWords DEF RightBits
  <2>5. CASE ins.op = "SLLV"
    BY <2>1, <2>3, <2>4, <2>5, WordCases DEF Shifted
  <2>6. CASE ins.op = "SRLV"
    BY <2>1, <2>3, <2>4, <2>6, RightCases DEF Shifted
  <2> QED
    BY <1>2, <2>5, <2>6 DEF VariableOps
<1> QED
  BY <1>3, <1>4, <1>5 DEF RegisterByManual

LEMMA RegisterStep == TypeOK /\ [Next]_vars => [RegisterByManual]_vars
<1> SUFFICES ASSUME TypeOK, Next PROVE RegisterByManual
  OBVIOUS
<1>1. CASE ins.op \notin RegisterOps \cup VariableOps \cup AmountOps \cup ImmediateOps
  BY <1>1 DEF RegisterByManual
<1>2. CASE ins.op \in RegisterOps \cup VariableOps \cup AmountOps \cup ImmediateOps
  <2>1. /\ ins # Idle
        /\ ins.op \notin HiLoOps \cup BranchOps \cup {"MTHI", "MTLO", "J", "TGE"}
    BY <1>2 DEF Idle, RegisterOps, VariableOps, AmountOps, ImmediateOps, HiLoOps,
                BranchOps
  <2>2. Compute \/ ShiftVariable
    BY <2>1 DEF Next, EX, RF, Horizon, MultiplyDivide, MTHI, MTLO, Branch, J, Trap,
                Execute
  <2> QED
    BY <2>2, ComputeByManual, ShiftVariableByManual
<1> QED
  BY <1>1, <1>2

LEMMA HiLoStep == TypeOK /\ [Next]_vars => [ProductByManual]_vars
<1> SUFFICES ASSUME TypeOK, Next, ins.op \in HiLoOps,
                    IsWord(reg["s"]), IsWord(reg["t"]),
                    ins.op \in {"DIV", "DIVU"} => reg["t"] # 0
             PROVE  OnHiLo(ins.op, Number(reg["s"]), Number(reg["t"]),
                           Number(hi'), Number(lo'))
  BY DEF ProductByManual
<1>1. MultiplyDivide
  BY DEF Next, EX, RF, Horizon, Idle, Compute, ShiftVariable, MTHI, MTLO, Branch, J,
         Trap, Execute, RegisterOps, VariableOps, AmountOps, ImmediateOps, HiLoOps,
         BranchOps
<1>2. /\ hi' = HiLo(ins.op, reg["s"], reg["t"]).hi
      /\ lo' = HiLo(ins.op, reg["s"], reg["t"]).lo
  BY <1>1 DEF MultiplyDivide
<1> QED
  BY <1>2, Typed, HiLoCorrect

LEMMA BranchStep == TypeOK /\ [Next]_vars => [BranchByManual]_vars
<1> SUFFICES ASSUME TypeOK, Next PROVE BranchByManual
  OBVIOUS
<1> DEFINE s == Number(reg["s"])   t == Number(reg["t"])
<1>1. ASSUME ins.op \in BranchOps, ins.op = "BGEZ" => IsWord(reg["s"])
      PROVE  IF ShouldTake(ins.op, s, t)
             THEN Near(ins.i) => (pc' - (pc - 4 + 4 * Imm(ins.i))) % Double = 0
             ELSE pc' = pc
  <2>1. Branch
    BY <1>1 DEF Next, EX, RF, Horizon, Idle, Compute, ShiftVariable, MultiplyDivide,
                MTHI, MTLO, J, Trap, Execute, RegisterOps, VariableOps, AmountOps,
                ImmediateOps, HiLoOps, BranchOps
  <2>2. ins.i \in Immediates
    BY <1>1, Typed, InstrTypes DEF Idle, BranchOps
  <2>3. Taken(ins.op, reg["s"], reg["t"]) <=> ShouldTake(ins.op, s, t)
    BY <1>1, Typed, TakenByManual
  <2>4. pc' = IF Taken(ins.op, reg["s"], reg["t"]) THEN BranchTarget(pc, ins.i) ELSE pc
    BY <2>1 DEF Branch
  <2>5. Near(ins.i) =>
            (BranchTarget(pc, ins.i) - (pc - 4 + 4 * Imm(ins.i))) % Double = 0
    BY <2>2, Typed, TargetByManual
  <2>6. CASE ShouldTake(ins.op, s, t)
    <3>1. pc' = BranchTarget(pc, ins.i)
      BY <2>3, <2>4, <2>6
    <3> QED
      BY <2>5, <2>6, <3>1
  <2>7. CASE ~ShouldTake(ins.op, s, t)
    BY <2>3, <2>4, <2>7
  <2> QED
    BY <2>6, <2>7
<1>2. ASSUME ins.op = "J", SameRegion
      PROVE  pc' \div Region = Low(pc - 4) \div Region /\ (pc' - 4 * ins.i) % Region = 0
  <2>1. J
    BY <1>2 DEF Next, EX, RF, Horizon, Idle, Compute, ShiftVariable, MultiplyDivide,
                MTHI, MTLO, Branch, Trap, Execute, RegisterOps, VariableOps, AmountOps,
                ImmediateOps, HiLoOps, BranchOps
  <2>2. ins.i \in Immediates /\ pc' = JumpTarget(pc, ins.i)
    BY <1>2, <2>1, Typed, InstrTypes DEF Idle, J
  <2>3. /\ JumpTarget(pc, ins.i) \div Region = Low(pc) \div Region
        /\ (JumpTarget(pc, ins.i) - 4 * ins.i) % Region = 0
    BY <2>2, Typed, JumpTargetByManual
  <2> QED
    BY <1>2, <2>2, <2>3 DEF SameRegion
<1>3. ASSUME ins.op = "TGE", s >= 0, t >= 0 PROVE trap' <=> s >= t
  <2>1. Trap
    BY <1>3 DEF Next, EX, RF, Horizon, Idle, Compute, ShiftVariable, MultiplyDivide,
                MTHI, MTLO, Branch, J, Execute, RegisterOps, VariableOps, AmountOps,
                ImmediateOps, HiLoOps, BranchOps
  <2>2. trap' = (reg["s"] >= reg["t"])
    BY <2>1 DEF Trap, TGE
  <2>3. reg["s"] = s /\ reg["t"] = t
    <3>1. \A x \in Patterns : Number(x) >= 0 => x = Number(x)
      BY Sizes DEF Number, Signed, Patterns
    <3> QED
      BY <1>3, <3>1, Typed
  <2> QED
    BY <2>2, <2>3
<1> QED
  BY <1>1, <1>2, <1>3 DEF BranchByManual

\* Of every width, and from every state that a program reaches, a handler leaves in
\* its target register what the manual defines.
THEOREM HandlersComputeTheManual == Spec => RegistersByManual
BY TypeAndWords, RegisterStep, PTL DEF Spec, RegistersByManual

\* hi and lo hold the product of two words, or their quotient rounded to zero with
\* the remainder.
THEOREM ProductsAndQuotients == Spec => HiLoByManual
BY TypeAndWords, HiLoStep, PTL DEF Spec, HiLoByManual

\* Branches, jumps and TGE go where the manual says, within the exceptions that
\* BranchesByManual names.
THEOREM BranchesGoByManual == Spec => BranchesByManual
BY TypeAndWords, BranchStep, PTL DEF Spec, BranchesByManual
=============================================================================
