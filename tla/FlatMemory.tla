----------------------------- MODULE FlatMemory -----------------------------
(***************************************************************************)
(* What a program may expect of its memory: an array of bytes, whatever    *)
(* lies behind it.  `op' is the access just made, an input: the memory     *)
(* after an access is a function of the memory before it and of the        *)
(* access, and so is what a load returns.                                  *)
(***************************************************************************)
EXTENDS Bytes

CONSTANTS
    Segment,        \* what of a virtual address is physical
    Flat,           \* addresses of memory and of registers without effects
    CartStart, DramAddr, CartAddr, WrLen

VARIABLES cell, op

(* The address an access means, and its place in the word or doubleword    *)
(* around it: Rest bytes from there on, Last bytes up to there.            *)
At(o)    == o.addr % Segment
Start(o) == At(o) - (At(o) % o.size)
Rest(o)  == o.size - (At(o) % o.size)
Last(o)  == (At(o) % o.size) + 1

From(o) == IF o.kind \in {"left", "right", "load_left", "load_right"}
           THEN Start(o) ELSE At(o)
Touched(o) == From(o) .. From(o) + o.size - 1

(* What a store leaves in the bytes it touches: SWL and SDL put the upper  *)
(* bytes of the register from the address on, SWR and SDR the lower ones   *)
(* up to the address, and the others stay.                                 *)
Left(o) ==
    LET register == ToBytes(o.data, o.size)
    IN  CASE o.kind = "store" -> register
          [] o.kind = "left"  -> Slice(cell, Start(o), o.size - Rest(o))
                                    \o SubSeq(register, 1, Rest(o))
          [] o.kind = "right" -> SubSeq(register, Rest(o), o.size)
                                    \o Slice(cell, At(o) + 1, o.size - Last(o))

Word(a) == Number(Slice(cell, a, 4))

(* The memory as PI DMA leaves it, when v is stored at a.  One byte more   *)
(* than the length moves, for a zero nothing.  What lies outside of the    *)
(* flat memory is not known here.                                          *)
Moved(a, v) ==
    LET source == Word(CartAddr) .. Word(CartAddr) + v
        moving == IF source \subseteq Flat
                  THEN {Slice(cell, Word(CartAddr), v + 1)}
                  ELSE [1 .. v + 1 -> Byte]
    IN  IF a # WrLen \/ v = 0 THEN {cell}
        ELSE {Overlay(cell, Word(DramAddr), s) : s \in moving}

Store(o) ==
    /\ o.kind \in {"store", "left", "right"}
    /\ IF Touched(o) \subseteq Flat
       THEN \E m \in Moved(From(o), Number(Left(o))) :
                cell' = Overlay(m, From(o), Left(o))
       ELSE UNCHANGED cell

(* What a load looks at: LWL and LWR keep the bytes of the register that   *)
(* they do not load, `old' is the register before.                         *)
Seen(o) ==
    CASE o.kind \in {"load", "signed_load"} -> Slice(cell, At(o), o.size)
      [] o.kind = "load_left"  -> Slice(cell, At(o), Rest(o))
                                     \o SubSeq(ToBytes(o.old, 4), Rest(o) + 1, 4)
      [] o.kind = "load_right" -> SubSeq(ToBytes(o.old, 4), 1, 4 - Last(o))
                                     \o Slice(cell, Start(o), Last(o))

(* What it puts into the register: all but `load' extend the sign.         *)
Result(o) ==
    LET s == Seen(o)
        sign == IF o.kind # "load" /\ s[1] >= Base \div 2 THEN Base - 1 ELSE 0
    IN  Number([i \in 1 .. 8 - Len(s) |-> sign] \o s)

Load(o) ==
    /\ o.kind \in {"load", "signed_load", "load_left", "load_right"}
    /\ Touched(o) \subseteq Flat => o.data = Result(o)
    /\ UNCHANGED cell

(* A file goes to the start of the cartridge.                              *)
Insert(o) ==
    /\ o.kind = "insert"
    /\ cell' = Overlay(cell, CartStart, o.file)

Elsewhere(o) == o.kind \in {"tick", "vi", "reset"} /\ UNCHANGED cell

Perform(o) ==
    \/ Store(o) \/ Load(o)
    \/ Insert(o) \/ Elsewhere(o)

Init == cell = [a \in Flat |-> 0] /\ op.kind = "none"
Next == Perform(op')
Spec == Init /\ [][Next]_<<cell, op>>
=============================================================================
