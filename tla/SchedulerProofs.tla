-------------------------- MODULE SchedulerProofs --------------------------
(***************************************************************************)
(* Theorems about the event queue, for every frame length, every set of    *)
(* half-line counts and every program: the queue keeps its shape, the pop  *)
(* after the push takes the right event, and no VI event is ever overdue.  *)
(* All of them rest on one fact of arithmetic: as long as n * n <= Frame,  *)
(* the beam is never further than line n, so that LinesLeft is positive.   *)
(***************************************************************************)
EXTENDS Scheduler, TLAPS

LEMMA DivMod ==
  ASSUME NEW a \in Nat, NEW b \in Nat \ {0}
  PROVE  /\ a \div b \in Nat
         /\ a % b \in 0 .. b - 1
         /\ b * (a \div b) + (a % b) = a
BY SMT

LEMMA DivBounds ==
  ASSUME NEW a \in Nat, NEW b \in Nat \ {0}
  PROVE  b * (a \div b) <= a /\ a < b * (a \div b) + b
BY SMT

LEMMA LongLines ==
  ASSUME NEW f \in Nat, NEW n \in Nat \ {0}, n * n <= f
  PROVE  n <= f \div n
<1> DEFINE q == f \div n
<1>1. q \in Nat /\ f < n * q + n
  BY DivBounds, DivMod
<1>2. SUFFICES ASSUME q < n PROVE FALSE
  BY <1>1
<1> HIDE DEF q
<1>3. n * q + n = n * (q + 1)
  BY <1>1
<1>4. n * (q + 1) <= n * n
  BY <1>1, <1>2
<1> QED BY <1>1, <1>3, <1>4

LEMMA FewLines ==
  ASSUME NEW f \in Nat, NEW n \in Nat \ {0}, n * n <= f,
         NEW m \in Nat, m < f
  PROVE  m \div (f \div n) <= n
<1> DEFINE q == f \div n
           c == m \div q
<1>1. q \in Nat \ {0} /\ f < n * q + n /\ n <= q
  BY DivBounds, DivMod, LongLines
<1> HIDE DEF q
<1>2. c \in Nat /\ q * c <= m
  BY <1>1, DivBounds, DivMod
<1>3. SUFFICES ASSUME c >= n + 1 PROVE FALSE
  BY <1>2 DEF q
<1> HIDE DEF c
<1>4. q * c >= q * (n + 1)
  BY <1>1, <1>2, <1>3
<1>5. q * (n + 1) = n * q + q
  BY <1>1
<1> QED BY <1>1, <1>2, <1>4, <1>5

(* The next time a line comes up is in the future.                         *)
LEMMA LinesLeftPositive ==
  ASSUME time \in Nat, halflines \in HalfLines, NEW line \in Nat \ {0}
  PROVE  TimePer * LinesLeft(line) \in Nat \ {0}
<1>1. /\ Frame \in Nat \ {0} /\ halflines \in Nat \ {0}
      /\ halflines * halflines <= Frame
  BY FrameAssumption
<1>2. TimePer \in Nat \ {0}
  <2>1. Frame \div halflines \in Nat /\ halflines <= Frame \div halflines
    BY <1>1, LongLines, DivMod
  <2> QED BY <1>1, <2>1 DEF TimePer
<1>3. time % Frame \in 0 .. Frame - 1
  BY <1>1, DivMod
<1>4. CurLine \in Nat /\ CurLine <= halflines
  <2> DEFINE m == time % Frame
  <2>1. m \in Nat /\ m < Frame
    BY <1>1, <1>3
  <2>2. CurLine = m \div (Frame \div halflines)
    BY DEF CurLine, TimePer
  <2> HIDE DEF m
  <2>3. m \div (Frame \div halflines) <= halflines
    BY <1>1, <2>1, FewLines
  <2>4. m \div (Frame \div halflines) \in Nat
    BY <1>2, <2>1, DivMod DEF TimePer
  <2> QED BY <2>2, <2>3, <2>4
<1>5. LinesLeft(line) \in Nat \ {0}
  BY <1>1, <1>4 DEF LinesLeft
<1> QED BY <1>2, <1>5

LEMMA ViEventLater ==
  ASSUME TypeOK, NEW v \in Nat, Arms(v), NEW id \in Nat
  PROVE  LET e == ViEvent(Line(v), id)
         IN  e \in Event /\ e.type = "Vi" /\ e.id = id /\ e.at > time
<1>1. Line(v) \in Nat \ {0}
  BY WidthAssumption, DivMod DEF Line, Arms
<1>2. time \in Nat /\ halflines \in HalfLines
  BY DEF TypeOK
<1>3. TimePer * LinesLeft(Line(v)) \in Nat \ {0}
  BY <1>1, <1>2, LinesLeftPositive
<1> DEFINE d == TimePer * LinesLeft(Line(v))
           line == Line(v)
<1>4. d \in Nat \ {0} /\ line \in Nat
  BY <1>1, <1>3
<1>5. ViEvent(line, id) =
        [type |-> "Vi", at |-> time + d, id |-> id, want |-> line,
         current |-> TRUE]
  BY DEF ViEvent
<1> HIDE DEF d, line
<1>6. ViEvent(line, id) \in Event /\ ViEvent(line, id).at > time
      /\ ViEvent(line, id).type = "Vi" /\ ViEvent(line, id).id = id
  BY <1>2, <1>4, <1>5 DEF Event
<1> QED BY <1>6 DEF line

LEMMA CountEventType ==
  ASSUME TypeOK, NEW c \in Int, NEW id \in Nat
  PROVE  LET e == CountEvent(c, id)
         IN  e \in Event /\ e.type = "Count" /\ e.id = id
<1>1. ToInt(2 * (c - (time \div 2))) \in Int
  <2>1. IntRange \in Nat \ {0}
    <3>1. Frame * LineMod \in Nat
      BY FrameAssumption, WidthAssumption
    <3> QED BY <3>1, WidthAssumption
  <2>2. IntRange \div 2 \in Nat /\ time \div 2 \in Nat
    BY <2>1 DEF TypeOK
  <2>3. \A x \in Int : (x + (IntRange \div 2)) % IntRange \in Int
    BY <2>1, <2>2
  <2>4. 2 * (c - (time \div 2)) \in Int
    BY <2>2
  <2> QED BY <2>2, <2>3, <2>4 DEF ToInt
<1> DEFINE d == ToInt(2 * (c - (time \div 2)))
<1>2. (time + d) % TimeRange \in Nat
  <2>1. TimeRange \in Nat \ {0}
    BY WidthAssumption
  <2> QED BY <1>1, <2>1 DEF TypeOK
<1>3. CountEvent(c, id) =
        [type |-> "Count", id |-> id, want |-> c, current |-> TRUE,
         at |-> (time + d) % TimeRange]
  BY DEF CountEvent
<1> HIDE DEF d
<1> QED BY <1>2, <1>3 DEF Event

(* A handler that queues nothing for an earlier cycle has its own event    *)
(* popped.                                                                 *)
LEMMA PopTop ==
  ASSUME TypeOK, NEW e \in Due, NEW new, \A n \in new : n \in Event /\ n.at >= time
  PROVE  PopAfter(e, new) = (scheduler \cup new) \ {e}
<1>1. e.at <= time /\ e.at \in Nat /\ time \in Nat
  BY DEF Due, TypeOK, Event
<1>2. {n \in new : n.at < e.at} = {}
  BY <1>1 DEF Event
<1> QED BY <1>2 DEF PopAfter

LEMMA OutdatedShape ==
  ASSUME TypeOK
  PROVE  /\ Outdated \subseteq Event
         /\ \A e, d \in Outdated : e.id = d.id => e = d
         /\ \A d \in Outdated : \E e \in scheduler :
                d.id = e.id /\ d.at = e.at /\ d.type = e.type
<1>1. \A e \in scheduler : e \in Event
  BY DEF TypeOK
<1>2. ASSUME NEW e \in Event
      PROVE  LET d == [e EXCEPT !.current = FALSE]
             IN  /\ d \in Event /\ d.id = e.id /\ d.at = e.at
                 /\ d.type = e.type
  <2> DEFINE d == [e EXCEPT !.current = FALSE]
  <2>1. d \in Event
    BY DEF Event
  <2>2. d.id = e.id /\ d.at = e.at /\ d.type = e.type
    BY DEF Event
  <2> QED BY <2>1, <2>2
<1>3. ASSUME NEW d \in Outdated
      PROVE  /\ d \in Event
             /\ \E e \in scheduler : /\ d = [e EXCEPT !.current = FALSE]
                                    /\ d.id = e.id /\ d.at = e.at
                                    /\ d.type = e.type
  BY <1>1, <1>2 DEF Outdated
<1>4. ASSUME NEW e \in Outdated, NEW d \in Outdated, e.id = d.id
      PROVE  e = d
  <2>1. PICK x \in scheduler : e = [x EXCEPT !.current = FALSE] /\ e.id = x.id
    BY <1>3
  <2>2. PICK y \in scheduler : d = [y EXCEPT !.current = FALSE] /\ d.id = y.id
    BY <1>3
  <2>3. x = y
    BY <1>4, <2>1, <2>2 DEF TypeOK
  <2> QED BY <2>1, <2>2, <2>3
<1> QED BY <1>3, <1>4

LEMMA StoreBytesType ==
  ASSUME NEW old \in Nat, NEW bytes \in {1, 2, 4}, NEW v \in Nat
  PROVE  StoreBytes(old, bytes, v) \in Nat
<1>1. Byte \in Nat \ {0}
  BY WidthAssumption
<1>2. Byte * Byte \in Nat \ {0}
  BY <1>1
<1>3. Byte * Byte * Byte \in Nat \ {0}
  BY <1>1, <1>2
<1>4. Byte * Byte * Byte * Byte \in Nat \ {0}
  BY <1>1, <1>3
<1>5. Size(bytes) \in Nat \ {0}
  BY <1>1, <1>2, <1>4 DEF Size
<1>6. old - (old % Size(bytes)) \in Nat
  <2> DEFINE s == Size(bytes)
             q == old \div s
             r == old % s
  <2>1. s \in Nat \ {0}
    BY <1>5
  <2> HIDE DEF s
  <2>2. q \in Nat /\ r \in Nat /\ s * q + r = old
    BY <2>1, DivMod
  <2>3. old - r \in Nat
    <3> HIDE DEF q, r
    <3>1. s * q \in Nat
      BY <2>1, <2>2
    <3> QED BY <2>2, <3>1
  <2> QED BY <2>3 DEF s
<1>7. \A k \in Nat \ {0} : (v \div k) % Byte \in Nat
  BY <1>1, DivMod
<1>8. Swap(bytes, v) \in Nat
  <2> DEFINE b(k) == (v \div k) % Byte
             x0 == b(1)
             x1 == b(Byte)
             x2 == b(Byte * Byte)
             x3 == b(Byte * Byte * Byte)
  <2>1. x0 \in Nat /\ x1 \in Nat /\ x2 \in Nat /\ x3 \in Nat
    BY <1>1, <1>2, <1>3, <1>7
  <2>2. Swap(bytes, v) =
          CASE bytes = 1 -> x0
            [] bytes = 2 -> x0 * Byte + x1
            [] bytes = 4 -> ((x0 * Byte + x1) * Byte + x2) * Byte + x3
    BY DEF Swap
  <2> HIDE DEF x0, x1, x2, x3
  <2>3. x0 * Byte + x1 \in Nat
    BY <1>1, <2>1
  <2>4. (x0 * Byte + x1) * Byte + x2 \in Nat
    BY <1>1, <2>1, <2>3
  <2>5. ((x0 * Byte + x1) * Byte + x2) * Byte + x3 \in Nat
    BY <1>1, <2>1, <2>4
  <2> QED BY <2>1, <2>2, <2>3, <2>5
<1> QED BY <1>6, <1>8 DEF StoreBytes

-----------------------------------------------------------------------------
(* What an action may do to the queue: keep some events, outdate them, add *)
(* fresh ones.                                                             *)

QueueOK(q, n) ==
    /\ q \subseteq Event
    /\ \A e, d \in q : e.id = d.id => e = d
    /\ \A e \in q : e.id < n

LEMMA PushFresh ==
  ASSUME NEW q, NEW n \in Nat, QueueOK(q, n), NEW e \in Event, e.id = n
  PROVE  QueueOK(q \cup {e}, n + 1)
<1>1. \A d \in q : d \in Event /\ d.id \in Nat /\ d.id < n
  BY DEF QueueOK, Event
<1>2. \A d \in q : d.id # e.id
  BY <1>1
<1>3. \A d \in q \cup {e} : d.id < n + 1
  BY <1>1
<1> QED BY <1>1, <1>2, <1>3 DEF QueueOK

LEMMA Shrink ==
  ASSUME NEW q, NEW n \in Nat, QueueOK(q, n), NEW r \in SUBSET q,
         NEW m \in Nat, n <= m
  PROVE  QueueOK(r, m)
<1>1. \A e \in r : e \in Event /\ e.id \in Nat /\ e.id < n
  BY DEF QueueOK, Event
<1>2. \A e \in r : e.id < m
  BY <1>1
<1> QED BY <1>2 DEF QueueOK

LEMMA OutdatedOK ==
  ASSUME TypeOK
  PROVE  QueueOK(Outdated, pushes)
<1>1. \A d \in Outdated : d.id < pushes
  BY OutdatedShape DEF TypeOK
<1> QED BY <1>1, OutdatedShape DEF QueueOK

(* The step of handle_event: it removes its own event, and what it adds is *)
(* fresh, not earlier than now, and later than now if it is a VI event.    *)
LEMMA HandledEvent ==
  ASSUME TypeOK, NEW e \in Due \cap Tops,
         HandleVi(e) \/ HandleInterrupt(e) \/ HandleCount(e)
  PROVE  \E new \in SUBSET Event :
            /\ scheduler' = (scheduler \cup new) \ {e}
            /\ e \notin new
            /\ QueueOK(scheduler \cup new, pushes')
            /\ pushes' \in Nat
            /\ \A n \in new : n.type = "Vi" => n.at > time
            /\ \A n \in new : n.type = "Interrupt" => n.at <= time
            /\ e.type = "Vi" /\ miInterrupt' \cap miMask # {} =>
                  \E n \in new : n.type = "Interrupt"
            /\ e.type = "Vi" /\ Arms(viIntr) => \E n \in new : n.type = "Vi"
<1>1. QueueOK(scheduler, pushes) /\ pushes \in Nat /\ time \in Nat
  BY DEF TypeOK, QueueOK
<1>2. e \in Due /\ e \in Event /\ e.id < pushes /\ e.id \in Nat
  <2>1. e \in Due /\ e \in scheduler
    BY DEF Due
  <2>2. e \in Event /\ e.id < pushes
    BY <2>1 DEF TypeOK
  <2> QED BY <2>1, <2>2 DEF Event
<1>3. CASE HandleInterrupt(e) \/ HandleCount(e)
  <2>1. scheduler' = PopAfter(e, {}) /\ pushes' = pushes
    BY <1>3 DEF HandleInterrupt, HandleCount
  <2>2. PopAfter(e, {}) = (scheduler \cup {}) \ {e}
    BY <1>2, PopTop
  <2>3. QueueOK(scheduler \cup {}, pushes)
    BY <1>1
  <2>4. e.type # "Vi"
    BY <1>3 DEF HandleInterrupt, HandleCount
  <2> WITNESS {} \in SUBSET Event
  <2> QED BY <1>1, <2>1, <2>2, <2>3, <2>4
<1>4. CASE HandleVi(e)
  <2> DEFINE next == IF Arms(viIntr) THEN {ViEvent(Line(viIntr), pushes)}
                     ELSE {}
             intr == IF miInterrupt' \cap miMask = {} THEN {}
                     ELSE {InterruptEvent(pushes + 1)}
             new == next \cup intr
  <2>1. scheduler' = PopAfter(e, new) /\ pushes' = pushes + 2
    BY <1>4 DEF HandleVi
  <2>2. \A n \in next : /\ n \in Event /\ n.type = "Vi"
                        /\ n.id = pushes /\ n.at > time
    BY <1>1, ViEventLater DEF TypeOK
  <2>3. \A n \in intr : /\ n \in Event /\ n.type = "Interrupt"
                        /\ n.id = pushes + 1 /\ n.at = time
    <3> DEFINE x == InterruptEvent(pushes + 1)
    <3>1. x = [type |-> "Interrupt", at |-> time, id |-> pushes + 1,
               want |-> 0, current |-> TRUE]
      BY DEF InterruptEvent
    <3>2. \A n \in intr : n = x
      OBVIOUS
    <3> HIDE DEF x, intr
    <3>3. pushes + 1 \in Nat
      BY <1>1
    <3>4. x \in Event /\ x.type = "Interrupt" /\ x.id = pushes + 1 /\ x.at = time
      BY <1>1, <3>1, <3>3 DEF Event
    <3> QED BY <3>2, <3>4
  <2>4. QueueOK(scheduler \cup next, pushes + 1)
    <3>1. CASE Arms(viIntr)
      BY <1>1, <2>2, <3>1, PushFresh
    <3>2. CASE ~Arms(viIntr)
      <4>1. scheduler \cup next = scheduler
        BY <3>2
      <4> HIDE DEF next
      <4> QED BY <1>1, <4>1, Shrink
    <3> QED BY <3>1, <3>2
  <2>5. QueueOK(scheduler \cup new, pushes + 2)
    <3>1. CASE miInterrupt' \cap miMask # {}
      <4>1. scheduler \cup new
              = (scheduler \cup next) \cup {InterruptEvent(pushes + 1)}
        BY <3>1
      <4>2. InterruptEvent(pushes + 1) \in Event
              /\ InterruptEvent(pushes + 1).id = pushes + 1
        BY <2>3, <3>1
      <4> HIDE DEF new, next
      <4>3. QueueOK((scheduler \cup next) \cup {InterruptEvent(pushes + 1)},
                    (pushes + 1) + 1)
        BY <1>1, <2>4, <4>2, PushFresh
      <4>4. (pushes + 1) + 1 = pushes + 2
        BY <1>1
      <4> QED BY <4>1, <4>3, <4>4
    <3>2. CASE miInterrupt' \cap miMask = {}
      <4>1. scheduler \cup new = scheduler \cup next
        BY <3>2
      <4> HIDE DEF new, next
      <4> QED BY <1>1, <2>4, <4>1, Shrink
    <3> QED BY <3>1, <3>2
  <2>12. miInterrupt' \cap miMask # {} => \E n \in new : n.type = "Interrupt"
    <3>1. miInterrupt' \cap miMask # {} => InterruptEvent(pushes + 1) \in intr
      OBVIOUS
    <3> HIDE DEF next, intr
    <3> QED BY <2>3, <3>1
  <2>13. Arms(viIntr) => \E n \in new : n.type = "Vi"
    <3>1. Arms(viIntr) => ViEvent(Line(viIntr), pushes) \in next
      OBVIOUS
    <3> HIDE DEF next, intr
    <3> QED BY <2>2, <3>1
  <2> HIDE DEF next, intr
  <2>6. \A n \in new : n \in Event /\ n.at >= time /\ n.id >= pushes
    BY <1>1, <2>2, <2>3 DEF Event
  <2>7. PopAfter(e, new) = (scheduler \cup new) \ {e}
    BY <1>2, <2>6, PopTop
  <2>8. e \notin new
    BY <1>1, <1>2, <2>6
  <2>9. \A n \in new : /\ n.type = "Vi" => n.at > time
                       /\ n.type = "Interrupt" => n.at <= time
    BY <1>1, <2>2, <2>3
  <2>10. new \in SUBSET Event
    BY <2>6
  <2>11. pushes' \in Nat
    BY <1>1, <2>1
  <2> HIDE DEF new
  <2> QED BY <2>1, <2>5, <2>7, <2>8, <2>9, <2>10, <2>11, <2>12,
             <2>13
<1> QED BY <1>3, <1>4

-----------------------------------------------------------------------------
(* TypeOK, its queue part by name.                                         *)

Rest ==
    /\ time \in Nat /\ viIntr \in Nat /\ halflines \in HalfLines
    /\ miInterrupt \subseteq Bits /\ miMask \subseteq Bits
    /\ ip2 \in BOOLEAN /\ status \in Status /\ compare \in Int
    /\ phase \in {"idle", "drain", "WB", "EX"}
    /\ pushes \in Nat /\ owed \in BOOLEAN

LEMMA TypeParts == TypeOK <=> Rest /\ QueueOK(scheduler, pushes)
BY DEF TypeOK, Rest, QueueOK

LEMMA InitType == Init => TypeOK
<1> SUFFICES ASSUME Init PROVE TypeOK
  OBVIOUS
<1>1. LineMod - 1 \in Nat
  BY WidthAssumption
<1>2. ClearStatus \in Status
  BY DEF ClearStatus, Status
<1>3. scheduler = {} /\ pushes = 0 /\ time = 0 /\ compare = 0
  BY DEF Init
<1>4. /\ viIntr \in Nat /\ halflines \in HalfLines
      /\ miInterrupt \subseteq Bits /\ miMask \subseteq Bits
      /\ ip2 \in BOOLEAN /\ status \in Status /\ owed \in BOOLEAN
      /\ phase \in {"idle", "drain", "WB", "EX"}
  BY <1>1, <1>2, FrameAssumption DEF Init
<1> QED BY <1>3, <1>4 DEF TypeOK

LEMMA NextType == TypeOK /\ [Next]_vars => TypeOK'
<1> SUFFICES ASSUME TypeOK, [Next]_vars PROVE TypeOK'
  OBVIOUS
<1> USE DEF bounds, rcp, cp0
<1>a. Rest /\ QueueOK(scheduler, pushes)
  BY TypeParts
<1>b. SUFFICES Rest' /\ QueueOK(scheduler', pushes')
  BY DEF TypeOK, Rest, QueueOK
<1>1. CASE Update
  BY <1>1, <1>a DEF Update, Rest, Bits
<1>2. CASE HandleEvent
  <2>1. PICK e \in Due \cap Tops :
          HandleVi(e) \/ HandleInterrupt(e) \/ HandleCount(e)
    BY <1>2 DEF HandleEvent, HandleEventOf
  <2>2. PICK new \in SUBSET Event :
          /\ scheduler' = (scheduler \cup new) \ {e}
          /\ QueueOK(scheduler \cup new, pushes')
          /\ pushes' \in Nat
    BY <2>1, HandledEvent
  <2>3. QueueOK(scheduler', pushes')
    BY <2>2, Shrink
  <2>4. /\ miInterrupt' \subseteq Bits /\ ip2' \in BOOLEAN
        /\ status' \in Status /\ compare' \in Int /\ owed' \in BOOLEAN
    BY <2>1, <1>a DEF HandleVi, HandleInterrupt, HandleCount, Rest, Bits, Status
  <2> QED BY <1>2, <1>a, <2>2, <2>3, <2>4 DEF HandleEvent, HandleEventOf, Rest
<1>3. CASE EndDrain
  BY <1>3, <1>a DEF EndDrain, Rest
<1>4. CASE StoreViIntr
  <2>1. PICK s \in ViStores :
          /\ viIntr' = IF s[2] = 0 THEN StoreBytes(viIntr, s[1], 0)
                       ELSE StoreBytes(s[2], s[1], Line(s[2]))
          /\ scheduler' = Outdated \cup
                (IF Arms(s[2]) THEN {ViEvent(Line(s[2]), pushes)} ELSE {})
    BY <1>4 DEF StoreViIntr, StoreViIntrOf
  <2>2. s[1] \in {1, 2, 4} /\ s[2] \in Nat
    BY InputAssumption
  <2>3. Line(s[2]) \in Nat
    <3>1. LineMod \in Nat \ {0}
      BY WidthAssumption
    <3> QED BY <2>2, <3>1, DivMod DEF Line
  <2>4. viIntr' \in Nat
    BY <1>a, <2>1, <2>2, <2>3, StoreBytesType DEF Rest
  <2>5. pushes \in Nat /\ QueueOK(Outdated, pushes)
    BY <1>a, OutdatedOK DEF Rest
  <2>6. QueueOK(scheduler', pushes + 1)
    <3>1. CASE Arms(s[2])
      BY <2>1, <2>2, <2>5, <3>1, ViEventLater, PushFresh
    <3>2. CASE ~Arms(s[2])
      <4>1. scheduler' = Outdated
        BY <2>1, <3>2
      <4>2. pushes + 1 \in Nat /\ pushes <= pushes + 1
        BY <2>5
      <4> QED BY <2>5, <4>1, <4>2, Shrink
    <3> QED BY <3>1, <3>2
  <2> QED BY <1>4, <1>a, <2>4, <2>6 DEF StoreViIntr, StoreViIntrOf, Write, Rest
<1>5. CASE StoreViCurrent
  BY <1>5, <1>a DEF StoreViCurrent, Write, Rest
<1>6. CASE StoreViSync
  BY <1>6, <1>a, OutdatedOK DEF StoreViSync, Write, Rest
<1>7. CASE StoreMiMask
  BY <1>7, <1>a, InputAssumption DEF StoreMiMask, StoreMiMaskOf, Write, Rest
<1>8. CASE NoStore \/ StoreMiInterrupt
  BY <1>8, <1>a, InputAssumption DEF NoStore, StoreMiInterrupt,
     StoreMiInterruptOf, Write, Rest
<1>9. CASE EX \/ FillEX
  <2>1. /\ phase' = "idle" /\ time' \in Nat /\ Execute
        /\ UNCHANGED <<viIntr, halflines, miInterrupt, miMask, owed>>
    BY <1>9, <1>a DEF EX, FillEX, Execute, Rest
  <2>2. /\ ip2' \in BOOLEAN /\ status' \in Status /\ compare' \in Int
        /\ QueueOK(scheduler', pushes') /\ pushes' \in Nat
    <3>1. CASE MoveToStatus
      BY <3>1, <1>a, InputAssumption DEF MoveToStatus, Rest
    <3>2. CASE MoveToCause
      BY <3>2, <1>a DEF MoveToCause, Rest
    <3>3. CASE MoveToCompare
      <4>1. compare' \in Int /\ UNCHANGED <<status, ip2>>
        BY <3>3, InputAssumption DEF MoveToCompare
      <4>2. CASE compare' = 0
        BY <3>3, <4>1, <4>2, <1>a DEF MoveToCompare, Rest
      <4>3. CASE compare' # 0
        <5>1. scheduler' = scheduler \cup {CountEvent(compare', pushes)}
                /\ pushes' = pushes + 1
          BY <3>3, <4>3 DEF MoveToCompare, Push
        <5>2. pushes \in Nat
          BY <1>a DEF Rest
        <5>3. CountEvent(compare', pushes) \in Event
                /\ CountEvent(compare', pushes).id = pushes
          BY <4>1, <5>2, CountEventType
        <5>4. QueueOK(scheduler', pushes')
          BY <1>a, <5>1, <5>2, <5>3, PushFresh
        <5> QED BY <1>a, <4>1, <5>1, <5>2, <5>4 DEF Rest
      <4> QED BY <4>2, <4>3
    <3>4. CASE ERET
      BY <3>4, <1>a DEF ERET, Rest, Status
    <3>5. CASE UNCHANGED <<scheduler, pushes, ip2, status, compare>>
      BY <3>5, <1>a DEF Rest
    <3> QED BY <2>1, <3>1, <3>2, <3>3, <3>4, <3>5 DEF Execute
  <2> QED BY <1>a, <2>1, <2>2 DEF Rest
<1>10. CASE Reset
  <2>1. LineMod - 1 \in Nat
    BY WidthAssumption
  <2>2. ClearStatus \in Status
    BY DEF ClearStatus, Status
  <2>3. QueueOK(scheduler', pushes')
    BY <1>10, OutdatedOK DEF Reset
  <2>4. time' = 0 /\ compare' = 0
    BY <1>10 DEF Reset
  <2>5. /\ viIntr' \in Nat /\ halflines' \in HalfLines
        /\ miInterrupt' \subseteq Bits /\ miMask' \subseteq Bits
        /\ ip2' \in BOOLEAN /\ status' \in Status /\ owed' \in BOOLEAN
        /\ phase' \in {"idle", "drain", "WB", "EX"} /\ pushes' \in Nat
    BY <1>10, <1>a, <2>1, <2>2, FrameAssumption DEF Reset, Rest
  <2> QED BY <2>3, <2>4, <2>5 DEF Rest
<1>11. CASE UNCHANGED vars
  BY <1>11, <1>a DEF vars, Rest
<1> QED BY <1>1, <1>2, <1>3, <1>4, <1>5, <1>6, <1>7, <1>8, <1>9, <1>10, <1>11
        DEF Next, Step, Horizon

(* The queue and the registers keep their shape, whatever the program      *)
(* stores and however long the emulator runs.                              *)
THEOREM QueueTypeCorrect == Spec => []TypeOK
<1>1. Init => TypeOK
  BY InitType
<1>2. TypeOK /\ [Next]_vars => TypeOK'
  BY NextType
<1> QED BY <1>1, <1>2, PTL DEF Spec

(* handle_event always pops the event it has handled.                      *)
THEOREM PopsWhatItHandled == Spec => PopIsHandled
<1>1. TypeOK /\ [Next]_vars =>
        [phase = "drain" /\ phase' = "drain" =>
           \E e \in Due \cap Tops : scheduler \ {e} \subseteq scheduler'
                                    /\ e \notin scheduler']_vars
  <2> SUFFICES ASSUME TypeOK, Next, phase = "drain", phase' = "drain"
               PROVE  \/ \E e \in Due \cap Tops :
                            scheduler \ {e} \subseteq scheduler'
                            /\ e \notin scheduler'
                      \/ UNCHANGED vars
    OBVIOUS
  <2>1. CASE HandleEvent
    <3>1. PICK e \in Due \cap Tops :
            HandleVi(e) \/ HandleInterrupt(e) \/ HandleCount(e)
      BY <2>1 DEF HandleEvent, HandleEventOf
    <3>2. PICK new \in SUBSET Event : scheduler' = (scheduler \cup new) \ {e}
      BY <3>1, HandledEvent
    <3> QED BY <3>2
  <2>2. CASE ~HandleEvent
    BY <2>2 DEF Next, Step, Update, EndDrain, StoreViIntr, StoreViIntrOf, StoreViCurrent,
         StoreViSync, StoreMiMask, StoreMiMaskOf, StoreMiInterrupt,
         StoreMiInterruptOf, NoStore, EX, FillEX, Reset, Horizon
  <2> QED BY <2>1, <2>2
<1> QED BY <1>1, QueueTypeCorrect, PTL DEF Spec, PopIsHandled

LEMMA NextNotOverdue ==
  TypeOK /\ ViNotOverdue /\ [Next]_vars => ViNotOverdue'
<1> SUFFICES ASSUME TypeOK, ViNotOverdue, [Next]_vars,
                    NEW d \in scheduler', d.type = "Vi"
             PROVE  /\ d.at >= time'
                    /\ phase' \in {"WB", "EX"} => d.at > time'
  BY DEF ViNotOverdue
<1>a. time \in Nat /\ pushes \in Nat /\ \A e \in scheduler : e.at \in Nat
  BY DEF TypeOK, Event
<1>b. \A e \in scheduler : e.type = "Vi" =>
        e.at >= time /\ (phase \in {"WB", "EX"} => e.at > time)
  BY DEF ViNotOverdue
<1>1. CASE Update
  BY <1>1, <1>b DEF Update
<1>2. CASE HandleEvent
  <2>1. PICK e \in Due \cap Tops :
          HandleVi(e) \/ HandleInterrupt(e) \/ HandleCount(e)
    BY <1>2 DEF HandleEvent, HandleEventOf
  <2>2. PICK new \in SUBSET Event :
          /\ scheduler' = (scheduler \cup new) \ {e}
          /\ \A n \in new : n.type = "Vi" => n.at > time
    BY <2>1, HandledEvent
  <2>3. time' = time /\ phase' = "drain"
    BY <1>2 DEF HandleEvent, HandleEventOf
  <2>4. d \in scheduler \/ d \in new
    BY <2>2
  <2>5. CASE d \in scheduler
    BY <1>b, <2>3, <2>5
  <2>6. CASE d \in new
    <3>1. d.at > time /\ d.at \in Nat
      BY <2>2, <2>6 DEF Event
    <3> QED BY <1>a, <2>3, <3>1
  <2> QED BY <2>4, <2>5, <2>6
<1>3. CASE EndDrain
  <2>1. d \in scheduler /\ ~(d.at <= time) /\ time' = time
    BY <1>3 DEF EndDrain, Due
  <2> QED BY <1>a, <2>1
<1>4. CASE StoreViIntr
  <2>1. phase = "WB" /\ time' = time
    BY <1>4 DEF StoreViIntr, StoreViIntrOf, Write
  <2>2. PICK s \in ViStores : scheduler' = Outdated \cup
                (IF Arms(s[2]) THEN {ViEvent(Line(s[2]), pushes)} ELSE {})
    BY <1>4 DEF StoreViIntr, StoreViIntrOf
  <2>3. CASE d \in Outdated
    BY <1>b, <2>1, <2>3, OutdatedShape
  <2>4. CASE Arms(s[2]) /\ d = ViEvent(Line(s[2]), pushes)
    <3>1. s[2] \in Nat
      BY InputAssumption
    <3>2. d.at > time /\ d.at \in Nat
      BY <1>a, <2>4, <3>1, ViEventLater DEF Event
    <3> QED BY <1>a, <2>1, <3>2
  <2> QED BY <2>2, <2>3, <2>4
<1>5. CASE StoreViCurrent \/ StoreMiMask \/ StoreMiInterrupt \/ NoStore
  BY <1>5, <1>b DEF StoreViCurrent, StoreMiMask, StoreMiMaskOf,
     StoreMiInterrupt, StoreMiInterruptOf, NoStore, Write
<1>6. CASE StoreViSync
  <2>1. phase = "WB" /\ time' = time /\ scheduler' = Outdated
    BY <1>6 DEF StoreViSync, Write
  <2> QED BY <1>b, <2>1, OutdatedShape
<1>7. CASE EX \/ FillEX
  <2>1. /\ phase' = "idle" /\ Execute
        /\ time' = time \/ (phase = "EX" /\ time' = time + 1)
    BY <1>7 DEF EX, FillEX
  <2>2. \/ scheduler' = scheduler
        \/ /\ compare' \in Int
           /\ scheduler' = scheduler \cup {CountEvent(compare', pushes)}
    <3>1. CASE MoveToStatus \/ MoveToCause \/ ERET
      BY <3>1 DEF MoveToStatus, MoveToCause, ERET
    <3>2. CASE MoveToCompare
      <4>1. compare' \in Int
        BY <3>2, InputAssumption DEF MoveToCompare
      <4> QED BY <3>2, <4>1 DEF MoveToCompare, Push
    <3>3. CASE UNCHANGED scheduler
      BY <3>3
    <3> QED BY <2>1, <3>1, <3>2, <3>3 DEF Execute
  <2>3. d \in scheduler
    BY <1>a, <2>2, CountEventType
  <2>4. /\ d.at \in Nat /\ d.at >= time
        /\ phase = "EX" => d.at > time
    BY <1>a, <1>b, <2>3
  <2> QED BY <1>a, <2>1, <2>4
<1>8. CASE Reset
  <2>1. time' = 0 /\ scheduler' = Outdated /\ phase' = "idle"
    BY <1>8 DEF Reset
  <2>2. d.at \in Nat
    BY <2>1, OutdatedShape DEF Event
  <2> QED BY <2>1, <2>2
<1>9. CASE UNCHANGED vars
  BY <1>9, <1>b DEF vars
<1> QED BY <1>1, <1>2, <1>3, <1>4, <1>5, <1>6, <1>7, <1>8, <1>9
        DEF Next, Step, Horizon

(* No VI event is ever left behind the clock.                              *)
THEOREM NoViEventIsOverdue == Spec => []ViNotOverdue
<1>1. Init => ViNotOverdue
  BY DEF Init, ViNotOverdue
<1>2. TypeOK /\ ViNotOverdue /\ [Next]_vars => ViNotOverdue'
  BY NextNotOverdue
<1> QED BY <1>1, <1>2, QueueTypeCorrect, PTL DEF Spec
-----------------------------------------------------------------------------
(* Interrupts: the event that an interrupt waits for is due while the      *)
(* queue is drained, and what made it serviceable does not change until    *)
(* then.                                                                   *)

InterruptInv ==
    /\ \A e \in scheduler : e.type = "Interrupt" => phase = "drain" /\ e.at <= time
    /\ owed => /\ phase = "drain" /\ "VI" \in miInterrupt \cap miMask /\ Serviceable
               /\ \E e \in scheduler : e.type = "Interrupt"

LEMMA HandlePreservesInterruptInv ==
  ASSUME TypeOK, InterruptInv, HandleEvent
  PROVE  InterruptInv'
<1>1. PICK e \in Due \cap Tops : HandleVi(e) \/ HandleInterrupt(e) \/ HandleCount(e)
  BY DEF HandleEvent, HandleEventOf
<1>2. PICK new \in SUBSET Event :
        /\ scheduler' = (scheduler \cup new) \ {e}
        /\ e \notin new
        /\ \A n \in new : n.type = "Interrupt" => n.at <= time
        /\ e.type = "Vi" /\ miInterrupt' \cap miMask # {} =>
              \E n \in new : n.type = "Interrupt"
  BY <1>1, HandledEvent
<1>3. phase = "drain" /\ UNCHANGED <<phase, time, miMask>>
  BY DEF HandleEvent, HandleEventOf
<1>4. \A d \in scheduler' : d.type = "Interrupt" => phase' = "drain" /\ d.at <= time'
  BY <1>2, <1>3 DEF InterruptInv
<1>5. ASSUME owed'
      PROVE  /\ phase' = "drain" /\ "VI" \in miInterrupt' \cap miMask' /\ Serviceable'
             /\ \E d \in scheduler' : d.type = "Interrupt"
  <2>1. CASE HandleVi(e)
    <3>1. e.type = "Vi" /\ miInterrupt' = miInterrupt \cup {"VI"} /\ status' = status
      BY <2>1 DEF HandleVi
    <3>2. "VI" \in miMask /\ status.ie /\ status.im2 /\ ~status.erl
      BY <1>5, <2>1 DEF HandleVi, InterruptInv, Serviceable
    <3>3. miInterrupt' \cap miMask # {} /\ "VI" \in miInterrupt' \cap miMask
      BY <3>1, <3>2
    <3>4. ip2'
      BY <2>1, <3>3 DEF HandleVi
    <3>5. Serviceable'
      BY <3>1, <3>2, <3>4 DEF Serviceable
    <3>6. \E d \in scheduler' : d.type = "Interrupt"
      BY <1>2, <3>1, <3>3
    <3> QED BY <1>3, <3>3, <3>5, <3>6
  <2>2. CASE HandleInterrupt(e)
    <3>1. owed
      BY <1>5, <2>2 DEF HandleInterrupt
    <3>2. miInterrupt \cap miMask # {} /\ Serviceable
      BY <3>1 DEF InterruptInv
    <3>3. ~owed'
      BY <2>2, <3>2 DEF HandleInterrupt
    <3> QED BY <1>5, <3>3
  <2>3. CASE HandleCount(e)
    <3>1. owed /\ UNCHANGED <<miInterrupt, ip2, status>> /\ e.type = "Count"
      BY <1>5, <2>3 DEF HandleCount, cp0
    <3>2. PICK d \in scheduler : d.type = "Interrupt"
      BY <3>1 DEF InterruptInv
    <3>3. d \in scheduler'
      BY <1>2, <3>1, <3>2
    <3> QED BY <1>3, <3>1, <3>2, <3>3 DEF InterruptInv, Serviceable
  <2> QED BY <1>1, <2>1, <2>2, <2>3
<1> QED BY <1>4, <1>5 DEF InterruptInv

LEMMA NextInterruptInv ==
  TypeOK /\ InterruptInv /\ [Next]_vars => InterruptInv'
<1> SUFFICES ASSUME TypeOK, InterruptInv, [Next]_vars PROVE InterruptInv'
  OBVIOUS
<1>1. CASE HandleEvent
  BY <1>1, HandlePreservesInterruptInv
<1>2. CASE EndDrain
  <2>1. \A e \in scheduler : e.type # "Interrupt"
    BY <1>2 DEF EndDrain, InterruptInv, Due
  <2>2. ~owed
    BY <2>1 DEF InterruptInv
  <2> QED BY <1>2, <2>1, <2>2 DEF EndDrain, InterruptInv
<1>3. CASE UNCHANGED vars
  BY <1>3 DEF vars, InterruptInv, Serviceable
<1>4. CASE phase # "drain" /\ Next
  <2>1. ~owed /\ \A e \in scheduler : e.type # "Interrupt"
    BY <1>4 DEF InterruptInv
  <2>2. \A e \in Outdated : e.type # "Interrupt"
    BY <2>1, OutdatedShape
  <2>3. CASE Update
    BY <2>1, <2>3 DEF Update, InterruptInv
  <2>4. CASE Reset
    BY <2>1, <2>2, <2>4 DEF Reset, InterruptInv
  <2>5. CASE StoreViIntr
    <3>1. PICK s \in ViStores : scheduler' = Outdated \cup
                (IF Arms(s[2]) THEN {ViEvent(Line(s[2]), pushes)} ELSE {})
      BY <2>5 DEF StoreViIntr, StoreViIntrOf
    <3>2. ViEvent(Line(s[2]), pushes).type = "Vi"
      BY DEF ViEvent
    <3>3. \A e \in scheduler' : e.type # "Interrupt"
      BY <2>2, <3>1, <3>2
    <3> QED BY <2>1, <2>5, <3>3 DEF StoreViIntr, StoreViIntrOf, Write, InterruptInv
  <2>6. CASE StoreViSync
    BY <2>1, <2>2, <2>6 DEF StoreViSync, Write, InterruptInv
  <2>7. CASE StoreViCurrent \/ StoreMiMask \/ StoreMiInterrupt \/ NoStore
    BY <2>1, <2>7 DEF StoreViCurrent, StoreMiMask, StoreMiMaskOf,
       StoreMiInterrupt, StoreMiInterruptOf, NoStore, Write, InterruptInv
  <2>8. CASE EX \/ FillEX
    <3>1. \/ scheduler' = scheduler
          \/ scheduler' = scheduler \cup {CountEvent(compare', pushes)}
      BY <2>8 DEF EX, FillEX, Execute, MoveToStatus, MoveToCause, MoveToCompare, ERET, Push, cp0
    <3>2. CountEvent(compare', pushes).type = "Count"
      BY DEF CountEvent
    <3>3. \A e \in scheduler' : e.type # "Interrupt"
      BY <2>1, <3>1, <3>2
    <3>4. ~owed'
      BY <2>1, <2>8 DEF EX, FillEX, Execute
    <3> QED BY <3>3, <3>4 DEF InterruptInv
  <2> QED BY <1>3, <1>4, <2>3, <2>4, <2>5, <2>6, <2>7, <2>8
          DEF Next, Step, Horizon, HandleEvent, HandleEventOf, EndDrain
<1>5. CASE phase = "drain" /\ Next
  BY <1>1, <1>2, <1>3, <1>5 DEF Next, Step, Horizon, Update, Reset, StoreViIntr, StoreViIntrOf,
     StoreViCurrent, StoreViSync, StoreMiMask, StoreMiMaskOf,
     StoreMiInterrupt, StoreMiInterruptOf, NoStore, EX, FillEX
<1> QED BY <1>3, <1>4, <1>5

LEMMA InterruptInvariant == Spec => []InterruptInv
<1>1. Init => InterruptInv
  BY DEF Init, InterruptInv
<1> QED BY <1>1, NextInterruptInv, QueueTypeCorrect, PTL DEF Spec

(* An enabled VI interrupt is taken before the pipeline runs again.        *)
THEOREM EnabledInterruptIsTaken == Spec => []ViServiced
<1>1. InterruptInv => ViServiced
  BY DEF InterruptInv, ViServiced
<1> QED BY <1>1, InterruptInvariant, PTL

(* No interrupt waits in the queue behind its cycle.                       *)
THEOREM NoInterruptWaits == Spec => []NoStaleInterrupt
<1>1. InterruptInv => NoStaleInterrupt
  BY DEF InterruptInv, NoStaleInterrupt
<1> QED BY <1>1, InterruptInvariant, PTL
-----------------------------------------------------------------------------
(* A programmed line comes back.                                           *)

LEMMA NextArmed ==
  ASSUME \A s \in ViStores : Arms(s[2])
  PROVE  TypeOK /\ ArmedWhileProgrammed /\ [Next]_vars => ArmedWhileProgrammed'
<1> SUFFICES ASSUME TypeOK, ArmedWhileProgrammed, [Next]_vars, Arms(viIntr')
             PROVE  \E e \in scheduler' : e.type = "Vi"
  BY DEF ArmedWhileProgrammed, Arms
<1> USE DEF rcp
<1>a. Arms(viIntr) => \E e \in Outdated : e.type = "Vi"
  <2>1. \A e \in scheduler : e.type = "Vi" =>
          [e EXCEPT !.current = FALSE] \in Outdated /\ [e EXCEPT !.current = FALSE].type = "Vi"
    BY DEF Outdated, TypeOK, Event
  <2> QED BY <2>1 DEF ArmedWhileProgrammed
<1>1. CASE HandleEvent
  <2>1. PICK e \in Due \cap Tops : HandleVi(e) \/ HandleInterrupt(e) \/ HandleCount(e)
    BY <1>1 DEF HandleEvent, HandleEventOf
  <2>2. PICK new \in SUBSET Event :
          /\ scheduler' = (scheduler \cup new) \ {e}
          /\ e \notin new
          /\ e.type = "Vi" /\ Arms(viIntr) => \E n \in new : n.type = "Vi"
    BY <2>1, HandledEvent
  <2>3. viIntr' = viIntr
    BY <1>1 DEF HandleEvent, HandleEventOf
  <2>4. PICK d \in scheduler : d.type = "Vi"
    BY <2>3 DEF ArmedWhileProgrammed
  <2>5. CASE e.type = "Vi"
    BY <2>2, <2>3, <2>5
  <2>6. CASE e.type # "Vi"
    BY <2>2, <2>4, <2>6
  <2> QED BY <2>5, <2>6
<1>2. CASE StoreViIntr
  <2>1. PICK s \in ViStores : scheduler' = Outdated \cup
              (IF Arms(s[2]) THEN {ViEvent(Line(s[2]), pushes)} ELSE {})
    BY <1>2 DEF StoreViIntr, StoreViIntrOf
  <2>2. ViEvent(Line(s[2]), pushes).type = "Vi" /\ ViEvent(Line(s[2]), pushes) \in scheduler'
    BY <2>1 DEF ViEvent
  <2> QED BY <2>2
<1>3. CASE StoreViSync
  <2>1. scheduler' = Outdated /\ viIntr' = viIntr
    BY <1>3 DEF StoreViSync
  <2> QED BY <1>a, <2>1
<1>4. CASE EX \/ FillEX
  <2>1. viIntr' = viIntr /\ scheduler \subseteq scheduler'
    BY <1>4 DEF EX, FillEX, Execute, MoveToStatus, MoveToCause,
       MoveToCompare, ERET, Push, cp0
  <2> QED BY <2>1 DEF ArmedWhileProgrammed
<1>5. CASE Reset
  <2>1. viIntr' = LineMod - 1
    BY <1>5 DEF Reset
  <2>2. (LineMod - 1) % LineMod = LineMod - 1
    BY WidthAssumption
  <2> QED BY <2>1, <2>2 DEF Arms, Line
<1>6. CASE Update \/ EndDrain \/ StoreViCurrent \/ StoreMiMask
             \/ StoreMiInterrupt \/ NoStore \/ UNCHANGED vars
  <2>1. viIntr' = viIntr /\ scheduler' = scheduler
    BY <1>6 DEF Update, EndDrain, StoreViCurrent, StoreMiMask, StoreMiMaskOf,
       StoreMiInterrupt, StoreMiInterruptOf, NoStore, vars
  <2> QED BY <2>1 DEF ArmedWhileProgrammed
<1> QED BY <1>1, <1>2, <1>3, <1>4, <1>5, <1>6 DEF Next, Step, Horizon

(* If each store to VI_V_INTR names a line, then whenever the register     *)
(* names one a VI event is queued, rewrites, resets and handlers included. *)
THEOREM ProgrammedLineComesBack ==
  ASSUME \A s \in ViStores : Arms(s[2])
  PROVE  Spec => []ArmedWhileProgrammed
<1>1. Init => ArmedWhileProgrammed
  <2>1. (LineMod - 1) % LineMod = LineMod - 1
    BY WidthAssumption
  <2> QED BY <2>1 DEF Init, ArmedWhileProgrammed, Arms, Line
<1> QED BY <1>1, NextArmed, QueueTypeCorrect, PTL DEF Spec
-----------------------------------------------------------------------------
(* Handled on the line.  The place of the beam at the time of a current VI *)
(* event does not depend on when one looks: the time is fixed when it is   *)
(* queued, and what it was computed from stays as long as it is current.   *)

LEMMA ModUnique ==
  ASSUME NEW f \in Nat \ {0}, NEW q \in Nat, NEW x \in 0 .. f - 1
  PROVE  (f * q + x) % f = x
<1> DEFINE a == f * q + x
           p == a \div f
           y == a % f
<1>1. a \in Nat /\ f * q \in Nat
  OBVIOUS
<1>2. p \in Nat /\ y \in 0 .. f - 1 /\ f * p + y = f * q + x
  BY <1>1, DivMod
<1> HIDE DEF p, y
<1>3. ~(p <= q - 1)
  <2> SUFFICES ASSUME p <= q - 1 PROVE FALSE
    OBVIOUS
  <2>1. f * p <= f * (q - 1)
    BY <1>2
  <2>2. f * (q - 1) = f * q - f
    OBVIOUS
  <2> QED
    BY <1>2, <2>1, <2>2
<1>4. ~(q <= p - 1)
  <2> SUFFICES ASSUME q <= p - 1 PROVE FALSE
    OBVIOUS
  <2>1. f * q <= f * (p - 1)
    BY <1>2
  <2>2. f * (p - 1) = f * p - f
    BY <1>2
  <2> QED
    BY <1>2, <2>1, <2>2
<1>5. p = q
  BY <1>2, <1>3, <1>4
<1> QED
  BY <1>2, <1>5 DEF y

LEMMA Differences ==
  ASSUME NEW a \in Nat, NEW b \in Nat, NEW c \in Nat
  PROVE  a * (b - c) = a * b - a * c
OBVIOUS

LEMMA Products ==
  ASSUME NEW a \in Nat, NEW b \in Nat, NEW c \in Nat
  PROVE  /\ a * b \in Nat /\ a * b = b * a
         /\ a * (b + c) = a * b + a * c
         /\ b <= c => a * b <= a * c
<1>1. a * b \in Nat /\ a * b = b * a
  OBVIOUS
<1>2. a * (b + c) = a * b + a * c
  OBVIOUS
<1>3. b <= c => a * b <= a * c
  OBVIOUS
<1> QED
  BY <1>1, <1>2, <1>3

(* In h lines of l cycles, c of them behind the beam, the line comes up    *)
(* after the rest of this frame, or of the frame and the next.             *)
LEMMA BeamReachesLine ==
  ASSUME NEW f \in Nat \ {0}, NEW h \in Nat \ {0}, h * h <= f,
         NEW l, l = f \div h, NEW t \in Nat,
         NEW c, c = (t % f) \div l,
         NEW line \in 1 .. h - 1,
         NEW at, at = t + l * (IF line > c THEN line - c ELSE h - c + line)
  PROVE  /\ l * line <= (at % f) + (f - l * h)
         /\ at % f < l * (line + 1)
<1> DEFINE q == t \div f
           r == t % f
           lc == l * c
           ln == l * line
           lh == l * h
<1>1. l \in Nat \ {0} /\ h <= l
  <2>1. f \div h \in Nat /\ h <= f \div h
    BY LongLines, DivMod
  <2> QED
    BY <2>1
<1>2. q \in Nat /\ r \in 0 .. f - 1 /\ f * q + r = t
  BY DivMod
<1>3. c \in Nat /\ lc <= r /\ r < lc + l
  <2>1. r \in Nat /\ c = r \div l
    BY <1>2
  <2> HIDE DEF r
  <2>2. r \div l \in Nat /\ l * (r \div l) <= r /\ r < l * (r \div l) + l
    BY <1>1, <2>1, DivBounds, DivMod
  <2> QED
    BY <2>1, <2>2
<1>4. lc \in Nat /\ ln \in Nat /\ lh \in Nat /\ lh <= f /\ f < lh + h
  <2>1. h * (f \div h) <= f /\ f < h * (f \div h) + h
    BY DivBounds
  <2>2. lh = h * l
    BY <1>1, Products
  <2> QED
    BY <1>1, <1>3, <2>1, <2>2, Products
<1>5. l * (line + 1) = ln + l /\ ln + l <= lh /\ l <= ln
  <2>1. l * 1 = l /\ line + 1 <= h /\ 1 <= line /\ line \in Nat
    BY <1>1
  <2>2. l * (line + 1) = l * line + l * 1 /\ l * (line + 1) <= l * h
    BY <1>1, <2>1, Products
  <2>3. l * 1 <= l * line
    BY <1>1, <2>1, Products
  <2> QED
    BY <2>1, <2>2, <2>3
<1> HIDE DEF q, r, lc, ln, lh
<1>6. CASE line > c
  <2>1. l * (line - c) = ln - lc
    <3>1. line \in Nat /\ l \in Nat /\ c \in Nat
      BY <1>1, <1>3
    <3>2. l * (line - c) = l * line - l * c
      BY <3>1, Differences, Zenon
    <3> QED
      BY <3>2 DEF ln, lc
  <2> DEFINE x == r + (ln - lc)
  <2>2. /\ x \in 0 .. f - 1 /\ ln <= x /\ x < ln + l
    BY <1>1, <1>2, <1>3, <1>4, <1>5
  <2>3. at = f * q + x
    <3>1. at = t + (ln - lc)
      BY <1>6, <2>1
    <3> DEFINE fq == f * q
    <3>2. fq \in Nat /\ fq + r = t /\ r \in Nat
      BY <1>2, Products
    <3> HIDE DEF fq
    <3>3. at = fq + (r + (ln - lc))
      BY <1>4, <3>1, <3>2
    <3> QED
      BY <3>3 DEF fq
  <2> HIDE DEF x
  <2>4. at % f = x
    BY <1>2, <2>2, <2>3, ModUnique
  <2> QED
    BY <1>1, <1>4, <1>5, <2>2, <2>4 DEF ln, lh
<1>7. CASE ~(line > c)
  <2>1. l * (h - c + line) = (lh - lc) + ln
    <3>1. h - c + line = (h + line) - c
      BY <1>3
    <3>2. l * ((h + line) - c) = l * (h + line) - l * c
      BY <1>1, <1>3, Differences
    <3>3. l * (h + line) = l * h + l * line
      BY <1>1, Products
    <3> QED
      BY <1>4, <3>1, <3>2, <3>3 DEF lh, lc, ln
  <2> DEFINE x == r + ((lh - lc) + ln) - f
  <2>2. f * (q + 1) = f * q + f /\ f * q \in Nat
    BY <1>2
  <2>3. /\ x \in 0 .. f - 1 /\ ln <= x + (f - lh) /\ x < ln + l
    BY <1>1, <1>2, <1>3, <1>4, <1>5
  <2>4. at = f * (q + 1) + x
    <3>1. at = t + ((lh - lc) + ln)
      BY <1>7, <2>1
    <3> DEFINE fq == f * q
    <3>2. fq \in Nat /\ fq + r = t /\ r \in Nat
      BY <1>2, <2>2
    <3>3. f * (q + 1) = fq + f
      BY <2>2
    <3> HIDE DEF fq
    <3>4. at = (fq + f) + (r + ((lh - lc) + ln) - f)
      BY <1>4, <3>1, <3>2
    <3> QED
      BY <3>3, <3>4
  <2> HIDE DEF x
  <2>5. at % f = x
    <3>1. q + 1 \in Nat
      BY <1>2
    <3> QED
      BY <2>3, <2>4, <3>1, ModUnique
  <2> QED
    BY <1>1, <1>4, <1>5, <2>3, <2>5 DEF ln, lh
<1> QED
  BY <1>6, <1>7

(* What ViOnTime says at the time of the event, whenever that is.          *)
OnLine(e) ==
    /\ TimePer * e.want <= (e.at % Frame) + (Frame - TimePer * halflines)
    /\ e.at % Frame < TimePer * (e.want + 1)

QueuedOnLine ==
    \A e \in scheduler :
        e.type = "Vi" /\ e.current /\ e.want < halflines => OnLine(e)

LEMMA ViEventOnLine ==
  ASSUME TypeOK, NEW v \in Nat, Arms(v), NEW id, Line(v) < halflines
  PROVE  OnLine(ViEvent(Line(v), id))
<1>1. /\ Frame \in Nat \ {0} /\ halflines \in Nat \ {0} /\ time \in Nat
      /\ halflines * halflines <= Frame
  BY FrameAssumption DEF TypeOK
<1>2. Line(v) \in Nat \ {0}
  BY WidthAssumption, DivMod DEF Line, Arms
<1> DEFINE line == Line(v)
           e == ViEvent(line, id)
<1>3. line \in 1 .. halflines - 1
  BY <1>1, <1>2
<1>4. e.want = line /\ e.at = time + TimePer * LinesLeft(line)
  BY DEF ViEvent
<1>5. /\ LinesLeft(line) = IF line > CurLine THEN line - CurLine
                           ELSE halflines - CurLine + line
      /\ TimePer = Frame \div halflines
      /\ CurLine = (time % Frame) \div TimePer
  BY DEF LinesLeft, CurLine, TimePer
<1> HIDE DEF line, e
<1>6. /\ TimePer * line <= (e.at % Frame) + (Frame - TimePer * halflines)
      /\ e.at % Frame < TimePer * (line + 1)
  BY <1>1, <1>3, <1>4, <1>5, BeamReachesLine
<1> QED
  BY <1>4, <1>6 DEF OnLine, e, line

(* The only VI event that handle_event queues is for the programmed line.  *)
LEMMA HandledQueuesLine ==
  ASSUME TypeOK, HandleEvent, NEW d \in scheduler', d \notin scheduler,
         d.type = "Vi"
  PROVE  Arms(viIntr) /\ d = ViEvent(Line(viIntr), pushes)
<1>1. PICK e \in Due \cap Tops : HandleVi(e) \/ HandleInterrupt(e) \/ HandleCount(e)
  BY DEF HandleEvent, HandleEventOf
<1>2. ASSUME NEW new PROVE PopAfter(e, new) \subseteq scheduler \cup new
  BY DEF PopAfter
<1>3. CASE HandleVi(e)
  <2> DEFINE next == IF Arms(viIntr) THEN {ViEvent(Line(viIntr), pushes)}
                     ELSE {}
             intr == IF miInterrupt' \cap miMask = {} THEN {}
                     ELSE {InterruptEvent(pushes + 1)}
  <2>1. scheduler' = PopAfter(e, next \cup intr)
    BY <1>3 DEF HandleVi
  <2>2. d \in next \/ d \in intr
    <3> HIDE DEF next, intr
    <3> QED
      BY <1>2, <2>1
  <2>3. d \notin intr
    BY DEF InterruptEvent
  <2> QED
    BY <2>2, <2>3
<1>4. CASE HandleInterrupt(e) \/ HandleCount(e)
  <2>1. scheduler' = PopAfter(e, {})
    BY <1>4 DEF HandleInterrupt, HandleCount
  <2> QED
    BY <1>2, <2>1
<1> QED
  BY <1>1, <1>3, <1>4

LEMMA NextOnLine ==
  TypeOK /\ QueuedOnLine /\ [Next]_vars => QueuedOnLine'
<1> SUFFICES ASSUME TypeOK, QueuedOnLine, [Next]_vars, NEW d \in scheduler',
                    d.type = "Vi", d.current, d.want < halflines'
             PROVE  OnLine(d)'
  BY DEF QueuedOnLine
<1> USE DEF rcp
<1>1. halflines' = halflines /\ OnLine(d) => OnLine(d)'
  BY DEF OnLine, TimePer
<1>2. d \in scheduler /\ halflines' = halflines => OnLine(d)'
  BY <1>1 DEF QueuedOnLine
<1>3. \A e \in Outdated : ~e.current
  BY DEF Outdated, TypeOK, Event
<1>4. CASE Reset \/ StoreViSync
  <2>1. scheduler' = Outdated
    BY <1>4 DEF Reset, StoreViSync
  <2> QED
    BY <1>3, <2>1
<1>5. CASE HandleEvent
  <2>1. halflines' = halflines
    BY <1>5 DEF HandleEvent, HandleEventOf
  <2>2. CASE d \notin scheduler
    <3>1. Arms(viIntr) /\ d = ViEvent(Line(viIntr), pushes)
      BY <1>5, <2>2, HandledQueuesLine
    <3>2. d.want = Line(viIntr) /\ viIntr \in Nat
      BY <3>1 DEF ViEvent, TypeOK
    <3>3. OnLine(d)
      BY <2>1, <3>1, <3>2, ViEventOnLine
    <3> QED
      BY <1>1, <2>1, <3>3
  <2> QED
    BY <1>2, <2>1, <2>2
<1>6. CASE StoreViIntr
  <2>1. PICK s \in ViStores : scheduler' = Outdated \cup
              (IF Arms(s[2]) THEN {ViEvent(Line(s[2]), pushes)} ELSE {})
    BY <1>6 DEF StoreViIntr, StoreViIntrOf
  <2>2. Arms(s[2]) /\ d = ViEvent(Line(s[2]), pushes)
    BY <1>3, <2>1
  <2>3. halflines' = halflines
    BY <1>6 DEF StoreViIntr, StoreViIntrOf
  <2>4. d.want = Line(s[2]) /\ s[2] \in Nat
    BY <2>2, InputAssumption DEF ViEvent
  <2>5. OnLine(d)
    BY <2>2, <2>3, <2>4, ViEventOnLine
  <2> QED
    BY <1>1, <2>3, <2>5
<1>7. CASE EX \/ FillEX
  <2>1. halflines' = halflines
    BY <1>7 DEF EX, FillEX, Execute
  <2>2. \/ scheduler' = scheduler
        \/ scheduler' = scheduler \cup {CountEvent(compare', pushes)}
    BY <1>7 DEF EX, FillEX, Execute, MoveToStatus, MoveToCause,
       MoveToCompare, ERET, Push, cp0
  <2>3. CountEvent(compare', pushes).type = "Count"
    BY DEF CountEvent
  <2> QED
    BY <1>2, <2>1, <2>2, <2>3
<1>8. CASE Update \/ EndDrain \/ StoreViCurrent \/ StoreMiMask
             \/ StoreMiInterrupt \/ NoStore \/ UNCHANGED vars
  <2>1. halflines' = halflines /\ scheduler' = scheduler
    BY <1>8 DEF Update, EndDrain, StoreViCurrent, StoreMiMask,
       StoreMiMaskOf, StoreMiInterrupt, StoreMiInterruptOf, NoStore, vars
  <2> QED
    BY <1>2, <2>1
<1> QED
  BY <1>4, <1>5, <1>6, <1>7, <1>8 DEF Next, Step, Horizon

(* Whatever the program writes and however often the clock starts again, a *)
(* VI event whose line is still the programmed one is handled while that   *)
(* line is on the screen, or within the rest of the frame before it.       *)
THEOREM ViEventsAreOnTime == Spec => []ViOnTime
<1>1. Init => QueuedOnLine
  BY DEF Init, QueuedOnLine
<1>2. TypeOK /\ ViNotOverdue /\ QueuedOnLine => ViOnTime
  <2> SUFFICES ASSUME TypeOK, ViNotOverdue, QueuedOnLine,
                      NEW e \in scheduler, e \in Due, e.type = "Vi",
                      e.current, e.want < halflines
               PROVE  /\ TimePer * e.want <=
                            (time % Frame) + (Frame - TimePer * halflines)
                      /\ time % Frame < TimePer * (e.want + 1)
    BY DEF ViOnTime
  <2>1. e.at \in Nat /\ time \in Nat
    BY DEF TypeOK, Event
  <2>2. e.at = time
    BY <2>1 DEF ViNotOverdue, Due
  <2>3. OnLine(e)
    BY DEF QueuedOnLine
  <2> QED
    BY <2>2, <2>3 DEF OnLine
<1> QED
  BY <1>1, <1>2, NextOnLine, QueueTypeCorrect, NoViEventIsOverdue, PTL
     DEF Spec
=============================================================================
