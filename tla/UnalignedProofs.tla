--------------------------- MODULE UnalignedProofs --------------------------
(***************************************************************************)
(* The bus implements one flat array of bytes, for every layout of the     *)
(* address space, every program and every file.  An access lands in one    *)
(* host object; where that is a home of flat memory, its bytes are the     *)
(* cells at the address, and every effect of a store, a reset or a file on *)
(* other objects is on objects that are no homes.                          *)
(***************************************************************************)
EXTENDS BusProofs

(* Flat memory, as the host objects m hold it.                             *)
cells(m) == [a \in Flat |-> m[Home[a][1]][Home[a][2]]]

(* The operators on bytes are the same on both levels.                     *)
LEMMA SameBytes ==
    /\ Flattened!Byte = Byte
    /\ \A s : Flattened!Number(s) = Number(s)
    /\ \A v, n : Flattened!ToBytes(v, n) = ToBytes(v, n)
    /\ \A f, from, n : Flattened!Slice(f, from, n) = Slice(f, from, n)
    /\ \A f, from, s : Flattened!Overlay(f, from, s) = Overlay(f, from, s)
<1>1. Flattened!Byte = Byte
  BY DEF Flattened!Byte, Byte
<1>2. \A s : Flattened!Number(s) = Number(s)
  BY DEF Flattened!Number, Number
<1>3. Flattened!Power = Power
  BY DEF Flattened!Power, Power
<1>4. \A v, n : Flattened!ToBytes(v, n) = ToBytes(v, n)
  BY <1>3 DEF Flattened!ToBytes, ToBytes
<1>5. \A f, from, n : Flattened!Slice(f, from, n) = Slice(f, from, n)
  BY DEF Flattened!Slice, Slice
<1>6. \A f, from, s : Flattened!Overlay(f, from, s) = Overlay(f, from, s)
  BY DEF Flattened!Overlay, Overlay
<1> QED
  BY <1>1, <1>2, <1>4, <1>5, <1>6

-----------------------------------------------------------------------------
(* Homes.                                                                  *)

LEMMA HomeNames ==
    /\ Plain \subseteq Registers
    /\ Homes \subseteq DOMAIN Blank /\ Homes \subseteq Regions
    /\ Homes \cap {"pif", "VI_V_CURRENT", "ipl", "MI_INTERRUPT", "PI_STATUS",
                   "VI_V_INTR", "RI_MODE", "MI_MASK"} = {}
    /\ {"rdram", "cart", "dmem", "PI_DRAM_ADDR", "PI_CART_ADDR", "PI_WR_LEN"}
           \subseteq Homes
<1>1. Plain \subseteq Registers
  BY DEF Plain, Registers
<1>2. Homes \subseteq DOMAIN Blank
  BY <1>1, BlankShape DEF Homes
<1> QED
  BY <1>1, <1>2 DEF Homes, Plain, Regions

LEMMA FirstIs ==
    /\ First("rdram") = 0 /\ First("cart") = CartFirst * Page
    /\ First("dmem") = Address["dmem"]
    /\ \A r \in Registers : First(r) = Address[r]
    /\ \A r \in Homes : First(r) \in Nat
<1>1. /\ First("rdram") = 0 /\ First("cart") = CartFirst * Page
      /\ First("dmem") = Address["dmem"]
  BY DEF First
<1>2. \A r \in Registers : First(r) = Address[r]
  BY DEF First, Registers
<1>3. ASSUME NEW r \in Homes
      PROVE  First(r) \in Nat
  <2>1. CartFirst * Page \in Nat
    BY BusAssumption
  <2>2. \A q \in Registers \cup {"dmem"} : Address[q] \in Nat
    BY BusAssumption
  <2>3. r \in Registers \/ r \in {"rdram", "cart", "dmem"}
    BY HomeNames DEF Homes
  <2> QED
    BY <1>1, <1>2, <2>1, <2>2, <2>3
<1> QED
  BY <1>1, <1>2, <1>3

LEMMA AreaIs ==
    ASSUME NEW r \in Homes
    PROVE  /\ \E n \in Nat : DOMAIN Blank[r] = 0 .. n - 1
           /\ \A i \in DOMAIN Blank[r] : First(r) + i \in Area(r)
           /\ \A x \in Area(r) :
                  x \in Flat /\ x \in Nat /\ x - First(r) \in DOMAIN Blank[r]
<1>1. PICK n \in Nat : DOMAIN Blank[r] = 0 .. n - 1
  BY BlankAreas, HomeNames
<1>2. ASSUME NEW x \in Area(r)
      PROVE  x \in Flat /\ x \in Nat /\ x - First(r) \in DOMAIN Blank[r]
  <2>1. PICK i \in DOMAIN Blank[r] : x = First(r) + i
    BY DEF Area
  <2>2. x \in Flat
    BY DEF Flat
  <2> QED
    BY <1>1, <2>1, <2>2, FirstIs
<1> QED
  BY <1>1, <1>2 DEF Area

LEMMA HomeOf ==
    ASSUME NEW r \in Homes, NEW x \in Area(r)
    PROVE  Home[x] = <<r, x - First(r)>>
<1>1. x \in Flat
  BY AreaIs
<1>2. (CHOOSE q \in Homes : x \in Area(q)) = r
  BY FlatAssumption
<1> QED
  BY <1>1, <1>2 DEF Home

(* The cells of a home are its bytes, and every cell has a home.           *)
LEMMA CellAt ==
    ASSUME NEW r \in Homes, NEW i \in DOMAIN Blank[r], NEW m
    PROVE  First(r) + i \in Flat /\ cells(m)[First(r) + i] = m[r][i]
<1>1. First(r) + i \in Area(r) /\ First(r) + i \in Flat
  BY AreaIs
<1>2. i \in Int /\ First(r) \in Int
  BY AreaIs, FirstIs
<1>3. Home[First(r) + i] = <<r, i>>
  <2>1. (First(r) + i) - First(r) = i
    BY <1>2
  <2> QED
    BY <1>1, <2>1, HomeOf
<1> QED
  BY <1>1, <1>3 DEF cells

LEMMA EveryCell ==
    ASSUME NEW x \in Flat
    PROVE  /\ x \in Nat
           /\ \E r \in Homes : /\ x \in Area(r) /\ Home[x] = <<r, x - First(r)>>
                               /\ x - First(r) \in DOMAIN Blank[r]
<1>1. PICK r \in Homes : x \in Area(r)
  BY DEF Flat
<1> QED
  BY <1>1, AreaIs, HomeOf

LEMMA CellsSame ==
    ASSUME NEW m, NEW w, \A r \in Homes : w[r] = m[r]
    PROVE  cells(w) = cells(m)
<1>1. ASSUME NEW x \in Flat
      PROVE  w[Home[x][1]][Home[x][2]] = m[Home[x][1]][Home[x][2]]
  <2>1. Home[x][1] \in Homes
    BY EveryCell
  <2> QED
    BY <2>1
<1> QED
  BY <1>1 DEF cells

(* Bytes from i to i + k - 1 of a home are the cells from its address on.  *)
Inside(r, from, k) == \A i \in 1 .. k : from + i - 1 \in DOMAIN Blank[r]

LEMMA CellsSlice ==
    ASSUME NEW m, NEW r \in Homes, NEW from \in Int, NEW k \in Nat,
           Inside(r, from, k)
    PROVE  Slice(cells(m), First(r) + from, k) = Slice(m[r], from, k)
<1>1. ASSUME NEW i \in 1 .. k
      PROVE  cells(m)[(First(r) + from) + i - 1] = m[r][from + i - 1]
  <2>1. from + i - 1 \in DOMAIN Blank[r]
    BY DEF Inside
  <2>2. First(r) + (from + i - 1) = (First(r) + from) + i - 1
    BY FirstIs
  <2>3. cells(m)[First(r) + (from + i - 1)] = m[r][from + i - 1]
    BY <2>1, CellAt
  <2> QED
    BY <2>2, <2>3
<1> QED
  BY <1>1 DEF Slice

(* Overwriting a home overwrites the cells at its address.                 *)
LEMMA CellsPut ==
    ASSUME NEW m, NEW w, NEW r \in Homes, NEW from \in Int, NEW k \in Nat,
           NEW s, DOMAIN s = 1 .. k, Inside(r, from, k),
           DOMAIN m[r] = DOMAIN Blank[r], w[r] = Overlay(m[r], from, s),
           \A q \in Homes \ {r} : w[q] = m[q]
    PROVE  cells(w) = Overlay(cells(m), First(r) + from, s)
<1> DEFINE at == First(r) + from
<1>1. First(r) \in Nat /\ at \in Int
  BY FirstIs
<1>2. DOMAIN cells(m) = Flat
  BY DEF cells
<1>3. ASSUME NEW x \in Flat
      PROVE  w[Home[x][1]][Home[x][2]]
                 = IF x - at + 1 \in DOMAIN s THEN s[x - at + 1] ELSE cells(m)[x]
  <2>1. PICK q \in Homes : /\ x \in Area(q) /\ Home[x] = <<q, x - First(q)>>
                           /\ x - First(q) \in DOMAIN Blank[q]
    BY EveryCell
  <2>2. x \in Int
    BY EveryCell
  <2>3. cells(m)[x] = m[q][x - First(q)]
    BY <2>1 DEF cells
  <2>4. CASE q = r
    <3>1. (x - First(r)) - from + 1 = x - at + 1
      BY <1>1, <2>2
    <3> QED
      BY <2>1, <2>3, <2>4, <3>1 DEF Overlay
  <2>5. CASE q # r
    <3>1. x - at + 1 \notin DOMAIN s
      <4>1. SUFFICES ASSUME x - at + 1 \in 1 .. k
                     PROVE  FALSE
        OBVIOUS
      <4>2. from + (x - at + 1) - 1 \in DOMAIN Blank[r]
        BY <4>1 DEF Inside
      <4>3. First(r) + (from + (x - at + 1) - 1) = x
        BY <1>1, <2>2
      <4>4. x \in Area(r)
        BY <4>2, <4>3, AreaIs
      <4> QED
        BY <2>1, <2>5, <4>4, FlatAssumption
    <3> QED
      BY <2>1, <2>3, <2>5, <3>1
  <2> QED
    BY <2>4, <2>5
<1> HIDE DEF at
<1>4. cells(w) = [x \in Flat |-> IF x - at + 1 \in DOMAIN s THEN s[x - at + 1]
                                                            ELSE cells(m)[x]]
  BY <1>3 DEF cells
<1> QED
  BY <1>2, <1>4 DEF Overlay, at

-----------------------------------------------------------------------------
(* Addresses.                                                              *)

LEMMA PagedAddress ==
    ASSUME NEW a \in Nat, PageTable(a \div Page) # Null
    PROVE  Pointer(a)[1] \in {"rdram", "cart"} /\ a = First(Pointer(a)[1]) + Pointer(a)[2]
<1> DEFINE p == a \div Page
           z == a % Page
<1>1. Page \in Nat \ {0} /\ CartFirst \in Nat
  BY BusAssumption
<1>2. p \in Nat /\ z \in Nat /\ a = Page * p + z
  BY <1>1, QuotientRemainder
<1>3. Pointer(a) = <<PageTable(p)[1], PageTable(p)[2] + z>>
  BY DEF Pointer
<1> HIDE DEF p, z
<1>4. CASE p < RamPages
  <2>1. PageTable(p) = <<"rdram", Page * p>>
    BY <1>4 DEF PageTable
  <2>2. Page * p \in Nat
    BY <1>1, <1>2
  <2> QED
    BY <1>2, <1>3, <2>1, <2>2, FirstIs
<1>5. CASE ~(p < RamPages)
  <2>1. /\ p \in CartFirst .. CartFirst + CartPages - 1
        /\ PageTable(p) = <<"cart", Page * (p - CartFirst)>>
    BY <1>5 DEF PageTable, p
  <2>2. /\ Page * (p - CartFirst) = Page * p - CartFirst * Page
        /\ Page * p \in Int /\ CartFirst * Page \in Int
    BY <1>1, <1>2
  <2>3. CartFirst * Page + (Page * (p - CartFirst) + z) = a
    BY <1>2, <2>2
  <2> QED
    BY <1>3, <2>1, <2>3, FirstIs
<1> QED
  BY <1>4, <1>5

(* A pointer into a home leads to its address; anything else is elsewhere. *)
LEMMA PointerAddress ==
    ASSUME NEW a \in Nat, Pointer(a) # Null
    PROVE  /\ Pointer(a)[1] \in Homes => a = First(Pointer(a)[1]) + Pointer(a)[2]
           /\ Pointer(a)[1] \notin Homes => a \notin Flat
<1>1. CASE PageTable(a \div Page) # Null
  BY <1>1, PagedAddress, HomeNames
<1>2. CASE PageTable(a \div Page) = Null
  <2>1. Pointer(a) = redirect_paddress_slow(a)
    BY <1>2 DEF Pointer
  <2>2. CASE \E r \in Registers : Address[r] = a
    <3>1. PICK r \in Registers : Address[r] = a
      BY <2>2
    <3>2. Pointer(a) = <<r, 0>>
      BY <3>1, RegisterPointer
    <3>3. r \in Homes => a = First(r) + 0
      BY <3>1, FirstIs
    <3>4. r \notin Homes => a \notin Flat
      BY <3>1, FlatAssumption DEF Homes
    <3> QED
      BY <3>2, <3>3, <3>4
  <2>3. CASE ~\E r \in Registers : Address[r] = a
    <3>1. /\ Address["ipl"] \in Nat /\ Address["pif"] \in Nat
          /\ Address["dmem"] \in Nat /\ PifSize \in Nat
      BY BusAssumption
    <3>2. CASE a >= Address["ipl"] /\ a < Address["pif"]
      <4>1. Pointer(a)[1] = "ipl"
        BY <2>1, <2>3, <3>2 DEF redirect_paddress_slow
      <4>2. a \in Address["ipl"] .. Address["pif"] + PifSize - 1
        BY <3>1, <3>2
      <4> QED
        BY <4>1, <4>2, HomeNames, FlatAssumption
    <3>3. CASE /\ ~(a >= Address["ipl"] /\ a < Address["pif"])
               /\ a - Address["pif"] \in 0 .. PifSize - 1
      <4>1. Pointer(a)[1] = "pif"
        BY <2>1, <2>3, <3>3 DEF redirect_paddress_slow
      <4>2. a \in Address["ipl"] .. Address["pif"] + PifSize - 1
        BY <3>1, <3>3, FlatAssumption
      <4> QED
        BY <4>1, <4>2, HomeNames, FlatAssumption
    <3>4. CASE /\ ~(a >= Address["ipl"] /\ a < Address["pif"])
               /\ ~(a - Address["pif"] \in 0 .. PifSize - 1)
      <4>1. Pointer(a) = <<"dmem", a - Address["dmem"]>>
        BY <2>1, <2>3, <3>4 DEF redirect_paddress_slow
      <4>2. a = Address["dmem"] + (a - Address["dmem"])
        BY <3>1
      <4> QED
        BY <4>1, <4>2, FirstIs, HomeNames
    <3> QED
      BY <3>2, <3>3, <3>4
  <2> QED
    BY <2>2, <2>3
<1> QED
  BY <1>1, <1>2

(* An access to a home stays in it, and in flat memory.                    *)
LEMMA Found ==
    ASSUME Shaped(mem), NEW a \in Nat, NEW n \in Nat \ {0}, Accessible(a, n)
    PROVE  IF Pointer(a)[1] \in Homes
           THEN /\ a = First(Pointer(a)[1]) + Pointer(a)[2]
                /\ Pointer(a)[2] \in Nat
                /\ DOMAIN mem[Pointer(a)[1]] = DOMAIN Blank[Pointer(a)[1]]
                /\ Inside(Pointer(a)[1], Pointer(a)[2], n)
                /\ a .. a + n - 1 \subseteq Flat
           ELSE a \notin Flat
<1> DEFINE r == Pointer(a)[1]
           i == Pointer(a)[2]
<1>1. Pointer(a) # Null /\ i \in Nat
  BY PointerNatural
<1>2. CASE r \in Homes
  <2>1. a = First(r) + i
    BY <1>1, <1>2, PointerAddress
  <2>2. DOMAIN mem[r] = DOMAIN Blank[r]
    BY <1>2, HomeNames DEF Shaped
  <2>3. PICK k \in Nat : DOMAIN Blank[r] = 0 .. k - 1
    BY <1>2, AreaIs
  <2>4. i \in 0 .. k - 1 /\ i + n - 1 \in 0 .. k - 1
    BY <2>2, <2>3 DEF Accessible, Within
  <2>5. Inside(r, i, n)
    <3> SUFFICES ASSUME NEW j \in 1 .. n
                 PROVE  i + j - 1 \in DOMAIN Blank[r]
      BY DEF Inside
    <3> QED
      BY <1>1, <2>3, <2>4
  <2>6. First(r) \in Nat
    BY <1>2, FirstIs
  <2>7. ASSUME NEW x \in a .. a + n - 1
        PROVE  x \in Flat
    <3> HIDE DEF r, i
    <3>1. x - First(r) \in 0 .. k - 1 /\ First(r) + (x - First(r)) = x
      BY <1>1, <2>1, <2>4, <2>6
    <3> QED
      BY <1>2, <2>3, <3>1, CellAt
  <2> QED
    BY <1>1, <1>2, <2>1, <2>2, <2>5, <2>7
<1>3. CASE r \notin Homes
  BY <1>1, <1>3, PointerAddress
<1> QED
  BY <1>2, <1>3

(* In KSEG0 and KSEG1 the physical address is what is left of a segment.   *)
LEMMA Translated ==
    ASSUME NEW v, Unmapped(v)
    PROVE  /\ v \in Nat /\ translate_vaddr(v) = v % Segment /\ v % Segment \in Nat
           /\ v % Segment = IF v < 5 * Segment THEN v - 4 * Segment
                                               ELSE v - 5 * Segment
<1> DEFINE s == Segment
           x == IF v < 5 * s THEN v - 4 * s ELSE v - 5 * s
           q == IF v < 5 * s THEN 4 ELSE 5
<1>1. s \in Nat \ {0}
  BY AccessAssumption
<1>2. v \in Nat /\ v \in 4 * s .. (6 * s) - 1
  BY <1>1 DEF Unmapped
<1>3. x \in 0 .. s - 1 /\ v = s * q + x
  BY <1>1, <1>2
<1>4. q \in Nat /\ q \in {4, 5}
  OBVIOUS
<1> HIDE DEF x, s
<1>5. v \div s = q /\ v % s = x
  <2> HIDE DEF q
  <2> QED
    BY <1>1, <1>3, <1>4, QuotientUnique
<1>6. v - 4 * s - ((q % 2) * s) = x
  BY <1>1, <1>2 DEF x
<1> QED
  BY <1>1, <1>2, <1>3, <1>5, <1>6 DEF translate_vaddr, s, x

-----------------------------------------------------------------------------
(* Looking, reading and writing.                                           *)

LEMMA TouchHomes ==
    ASSUME NEW m, Shaped(m), NEW a
    PROVE  \A r \in Homes : Touch(m, a)[r] = m[r]
<1>1. Homes \subseteq Regions \ {"pif", "VI_V_CURRENT"}
  BY HomeNames
<1> QED
  BY <1>1, TouchFrame

(* A load from a home gives the cells at the address.                      *)
LEMMA ReadCells ==
    ASSUME BusInv, NEW a \in Nat, NEW n \in Width, Accessible(a, n),
           Pointer(a)[1] \in Homes
    PROVE  /\ load_memory(a, n) = Number(Slice(cells(mem), a, n))
           /\ Slice(cells(mem), a, n) \in [1 .. n -> Byte]
           /\ Len(Slice(cells(mem), a, n)) = n
<1> DEFINE r == Pointer(a)[1]
           i == Pointer(a)[2]
<1>1. Shaped(mem) /\ n \in Nat \ {0}
  BY DEF BusInv, Width
<1>2. a = First(r) + i /\ i \in Nat /\ Inside(r, i, n)
  BY <1>1, Found
<1>3. Slice(cells(mem), a, n) = Slice(mem[r], i, n)
  BY <1>1, <1>2, CellsSlice
<1>4. load_memory(a, n) = Number(Slice(mem[r], i, n))
  BY <1>1, TouchHomes DEF load_memory
<1>5. \A j \in 1 .. n : mem[r][i + j - 1] \in Byte
  BY <1>1, <1>2, HomeNames DEF Inside, Shaped
<1>6. Slice(mem[r], i, n) \in [1 .. n -> Byte] /\ Len(Slice(mem[r], i, n)) = n
  BY <1>1, <1>5 DEF Slice
<1> QED
  BY <1>3, <1>4, <1>6

(* What the second half of a store leaves in flat memory.                  *)
LEMMA WriteCells ==
    ASSUME BusInv, NEW a \in Nat, NEW n \in Width, Accessible(a, n),
           NEW m, Shaped(m), NEW d \in Int
    PROVE  cells(Write(m, a, d, n))
               = IF Pointer(a)[1] \in Homes
                 THEN Overlay(cells(m), a, ToBytes(d, n)) ELSE cells(m)
<1> DEFINE r == Pointer(a)[1]
           i == Pointer(a)[2]
           t == Touch(m, a)
           s == ToBytes(d, n)
           w == Write(m, a, d, n)
<1>1. Shaped(mem) /\ n \in Nat \ {0} /\ n \in 0 .. 8
  BY DEF BusInv, Width
<1>2. w = [t EXCEPT ![r] = Overlay(@, i, s)]
  BY DEF Write
<1>3. \A q \in Homes : t[q] = m[q]
  BY TouchHomes
<1>4. cells(t) = cells(m)
  BY <1>3, CellsSame
<1>5. Homes \subseteq DOMAIN t
  BY HomeNames DEF Touch, Shaped
<1>6. DOMAIN s = 1 .. n
  BY DEF ToBytes
<1> HIDE DEF t, s, w
<1>7. CASE r \in Homes
  <2>1. a = First(r) + i /\ i \in Nat /\ Inside(r, i, n)
    BY <1>1, <1>7, Found
  <2>2. w[r] = Overlay(t[r], i, s) /\ \A q \in Homes \ {r} : w[q] = t[q]
    BY <1>2, <1>5, <1>7
  <2>3. DOMAIN t[r] = DOMAIN Blank[r]
    BY <1>3, <1>7, HomeNames DEF Shaped
  <2>4. i \in Int /\ n \in Nat
    BY <1>1, <2>1
  <2>5. cells(w) = Overlay(cells(t), First(r) + i, s)
    <3> HIDE DEF r, i
    <3> QED
      BY <1>6, <1>7, <2>1, <2>2, <2>3, <2>4, CellsPut
  <2> QED
    BY <1>4, <1>7, <2>1, <2>5 DEF s, w
<1>8. CASE r \notin Homes
  <2>1. \A q \in Homes : w[q] = t[q]
    BY <1>2, <1>5, <1>8
  <2>2. cells(w) = cells(t)
    BY <2>1, CellsSame
  <2> QED
    BY <1>4, <1>8, <2>2 DEF w
<1> QED
  BY <1>7, <1>8

-----------------------------------------------------------------------------
(* Stores.                                                                 *)

LEMMA FlatWord ==
    ASSUME BusInv, NEW r \in Homes \cap Registers
    PROVE  Flattened!Word(Address[r]) = Number(Slice(mem[r], 0, 4))
<1>1. Inside(r, 0, 4) /\ First(r) + 0 = Address[r] /\ First(r) \in Nat
  <2>1. DOMAIN Blank[r] = 0 .. 3
    BY RegisterArea, HomeNames DEF BusInv, Shaped
  <2> QED
    BY <2>1, FirstIs DEF Inside
<1>2. Slice(cells(mem), First(r) + 0, 4) = Slice(mem[r], 0, 4)
  BY <1>1, CellsSlice
<1>3. Flattened!Word(Address[r]) = Number(Slice(cells(mem), Address[r], 4))
  BY SameBytes DEF Flattened!Word, cells
<1> QED
  BY <1>1, <1>2, <1>3

LEMMA FlatMoved ==
    ASSUME NEW a, NEW v
    PROVE  Flattened!Moved(a, v) =
               IF a # Address["PI_WR_LEN"] \/ v = 0 THEN {cells(mem)}
               ELSE {Overlay(cells(mem), Flattened!Word(Address["PI_DRAM_ADDR"]), s) :
                        s \in IF Flattened!Word(Address["PI_CART_ADDR"]) ..
                                 Flattened!Word(Address["PI_CART_ADDR"]) + v \subseteq Flat
                              THEN {Slice(cells(mem),
                                      Flattened!Word(Address["PI_CART_ADDR"]), v + 1)}
                              ELSE [1 .. v + 1 -> Byte]}
BY SameBytes DEF Flattened!Moved, cells

(* PI DMA moves the cells that the program named.                          *)
LEMMA DmaCells ==
    ASSUME BusInv, NEW a, NEW d \in Nat \ {0}, Copyable(d), Shaped(Dma(Touch(mem, a), d)),
           Shaped(Touch(mem, a))
    PROVE  cells(Dma(Touch(mem, a), d)) \in Flattened!Moved(Address["PI_WR_LEN"], d)
<1> DEFINE m == Touch(mem, a)
           x == Number(Slice(mem["PI_CART_ADDR"], 0, 4))
           y == Number(Slice(mem["PI_DRAM_ADDR"], 0, 4))
           src == Pointer(x)
           s == Slice(m[src[1]], src[2], d + 1)
<1>1. Shaped(mem) /\ Shaped(m)
  BY DEF BusInv
<1>2. \A r \in Homes : m[r] = mem[r]
  BY <1>1, TouchHomes
<1>3. {"PI_DRAM_ADDR", "PI_CART_ADDR"} \subseteq Homes \cap Registers
  BY HomeNames, RegisterNames
<1>4. /\ Flattened!Word(Address["PI_DRAM_ADDR"]) = y
      /\ Flattened!Word(Address["PI_CART_ADDR"]) = x
  BY <1>3, FlatWord
<1>5. x \in Nat /\ y \in Nat
  BY <1>1, <1>3, RegisterNumber
<1>6. Source(m) = src /\ Target(m) = y /\ Source(mem) = src /\ Target(mem) = y
  BY <1>2, <1>3 DEF Source, Target
<1>7. /\ src # Null /\ Within(mem, src, d + 1)
      /\ Within(mem, <<"rdram", y>>, d + 1) /\ src[1] # "VI_V_CURRENT"
  BY <1>6, Zenon DEF Copyable
<1>8. Accessible(x, d + 1)
  BY <1>7 DEF Accessible
<1>9. Dma(m, d) = [m EXCEPT !["rdram"] = Overlay(@, y, s)]
  BY <1>6 DEF Dma
<1> HIDE DEF m, x, y
<1>10. cells(Dma(m, d)) = Overlay(cells(m), y, s)
  <2>1. DOMAIN s = 1 .. d + 1 /\ d + 1 \in Nat
    BY DEF Slice
  <2>2. "rdram" \in Homes /\ First("rdram") + y = y
    BY <1>5, HomeNames, FirstIs
  <2>3. DOMAIN mem["rdram"] = DOMAIN Blank["rdram"]
        /\ DOMAIN m["rdram"] = DOMAIN Blank["rdram"] /\ Homes \subseteq DOMAIN m
    BY <1>1, <2>2, HomeNames DEF Shaped
  <2>4. Inside("rdram", y, d + 1)
    <3>1. PICK k \in Nat : DOMAIN Blank["rdram"] = 0 .. k - 1
      BY <2>2, AreaIs
    <3>2. y \in 0 .. k - 1 /\ y + (d + 1) - 1 \in 0 .. k - 1
      BY <1>7, <2>3, <3>1 DEF Within
    <3>3. \A i \in 1 .. d + 1 : y + i - 1 \in 0 .. k - 1
      BY <1>5, <3>2
    <3> QED
      BY <3>1, <3>3 DEF Inside
  <2> HIDE DEF s
  <2>5. /\ Dma(m, d)["rdram"] = Overlay(m["rdram"], y, s)
        /\ \A q \in Homes \ {"rdram"} : Dma(m, d)[q] = m[q]
    BY <1>9, <2>2, <2>3
  <2>6. cells(Dma(m, d)) = Overlay(cells(m), First("rdram") + y, s)
    <3> DEFINE w == Dma(m, d)
               k == d + 1
    <3>1. y \in Int
      BY <1>5
    <3>2. /\ w["rdram"] = Overlay(m["rdram"], y, s)
          /\ \A q \in Homes \ {"rdram"} : w[q] = m[q]
      BY <2>5
    <3>3. /\ "rdram" \in Homes /\ k \in Nat /\ DOMAIN s = 1 .. k
          /\ DOMAIN m["rdram"] = DOMAIN Blank["rdram"] /\ Inside("rdram", y, k)
      BY <2>1, <2>2, <2>3, <2>4
    <3> HIDE DEF w, k
    <3>4. cells(w) = Overlay(cells(m), First("rdram") + y, s)
      BY <3>1, <3>2, <3>3, CellsPut, SMTT(60)
    <3> QED
      BY <3>4 DEF w
  <2> QED
    BY <2>2, <2>6
<1>11. cells(m) = cells(mem)
  BY <1>2, CellsSame
<1>12. s \in IF x .. x + d \subseteq Flat THEN {Slice(cells(mem), x, d + 1)}
             ELSE [1 .. d + 1 -> Byte]
  <2>1. CASE x .. x + d \subseteq Flat
    <3>1. x \in Flat
      BY <1>5, <2>1
    <3>2. /\ src[1] \in Homes /\ x = First(src[1]) + src[2] /\ src[2] \in Nat
          /\ Inside(src[1], src[2], d + 1)
      BY <1>1, <1>5, <1>8, <3>1, Found
    <3>3. Slice(cells(mem), x, d + 1) = Slice(mem[src[1]], src[2], d + 1)
      BY <3>2, CellsSlice
    <3> QED
      BY <1>2, <2>1, <3>2, <3>3
  <2>2. CASE ~(x .. x + d \subseteq Flat)
    <3>1. src \in Regions \X Nat
      BY <1>1, <1>8, PointerNatural
    <3>2. PICK k \in Nat : m[src[1]] \in [0 .. k - 1 -> Byte]
      BY <1>1, <3>1, ShapedAreas
    <3>3. DOMAIN m[src[1]] = DOMAIN mem[src[1]]
      <4>1. CASE src[1] \in DOMAIN Blank
        BY <1>1, <4>1 DEF Shaped
      <4>2. CASE src[1] = "ipl"
        BY <1>1, <3>1, <4>2, TouchFrame DEF m
      <4> QED
        BY <3>1, <4>1, <4>2 DEF Regions
    <3>4. src[2] \in 0 .. k - 1 /\ src[2] + (d + 1) - 1 \in 0 .. k - 1
      BY <1>7, <3>2, <3>3 DEF Within
    <3>5. s \in [1 .. d + 1 -> Byte]
      <4>1. \A i \in 1 .. d + 1 : src[2] + i - 1 \in 0 .. k - 1
        BY <3>1, <3>4
      <4> QED
        BY <3>2, <4>1 DEF Slice
    <3> QED
      BY <2>2, <3>5
  <2> QED
    BY <2>1, <2>2
<1> HIDE DEF s
<1> QED
  BY <1>4, <1>10, <1>11, <1>12, FlatMoved DEF m

(* A store leaves in flat memory what it says, on top of what DMA moved;   *)
(* a store elsewhere leaves it alone.                                      *)
LEMMA StoreCells ==
    ASSUME BusInv, NEW a \in Nat, NEW n \in Width, NEW d \in 0 .. Power[n] - 1,
           store_memory(a, d, n)
    PROVE  IF Pointer(a)[1] \in Homes
           THEN \E c \in Flattened!Moved(a, d) :
                    cells(mem)' = Overlay(c, a, ToBytes(d, n))
           ELSE cells(mem)' = cells(mem)
<1> DEFINE there == Pointer(a)[1] \in Homes
           Goal == IF there
                   THEN \E c \in Flattened!Moved(a, d) :
                            cells(mem)' = Overlay(c, a, ToBytes(d, n))
                   ELSE cells(mem)' = cells(mem)
<1>1. Shaped(mem) /\ time \in Nat /\ cells(mem)' = cells(mem')
  BY TimeIsNatural DEF BusInv, cells
<1>2. /\ Accessible(a, n)
      /\ StorePlain(a, d, n) \/ (d # 0 /\ Invalidate(a, d, n))
      /\ d \in Nat /\ d \in Int /\ n \in Nat \ {0}
  BY Powers DEF store_memory, Width
<1>3. ASSUME NEW m, Shaped(m), cells(m) \in Flattened!Moved(a, d),
             cells(m) = cells(mem) \/ there,
             mem' = Write(m, a, d, n)
      PROVE  Goal
  <2> DEFINE w == Write(m, a, d, n)
  <2>1. cells(w) = IF there THEN Overlay(cells(m), a, ToBytes(d, n)) ELSE cells(m)
    BY <1>2, <1>3, WriteCells
  <2> HIDE DEF w
  <2>2. cells(mem)' = cells(w)
    BY <1>1, <1>3, Zenon DEF w
  <2> QED
    BY <1>3, <2>1, <2>2
<1>4. ASSUME a # Address["PI_WR_LEN"] \/ d = 0
      PROVE  Flattened!Moved(a, d) = {cells(mem)}
  BY <1>4, FlatMoved
<1>5. ASSUME NEW m, Shaped(m), \A r \in Homes : m[r] = mem[r],
             NEW v \in Int, mem' = Write(m, a, v, n), ~there
      PROVE  Goal
  <2> DEFINE w == Write(m, a, v, n)
  <2>1. cells(w) = cells(m)
    BY <1>2, <1>5, WriteCells
  <2> HIDE DEF w
  <2>2. cells(mem)' = cells(w)
    BY <1>1, <1>5, Zenon DEF w
  <2>3. cells(m) = cells(mem)
    BY <1>5, CellsSame
  <2> QED
    BY <1>5, <2>1, <2>2, <2>3
<1>6. ASSUME NEW m, Shaped(m), \A r \in Homes : m[r] = mem[r],
             mem' = Write(m, a, d, n), a # Address["PI_WR_LEN"] \/ d = 0
      PROVE  Goal
  <2>1. cells(m) = cells(mem)
    BY <1>6, CellsSame
  <2>2. cells(m) \in Flattened!Moved(a, d)
    BY <1>4, <1>6, <2>1
  <2> QED
    BY <1>3, <1>6, <2>1, <2>2
<1>7. ASSUME NEW r \in Registers
      PROVE  Pointer(Address[r]) = <<r, 0>>
  BY RegisterPointer
<1>8. {"PI_WR_LEN", "PI_STATUS", "VI_CTRL", "VI_ORIGIN", "VI_WIDTH", "VI_V_CURRENT",
       "VI_V_INTR", "VI_V_SYNC", "MI_MASK", "MI_INTERRUPT"} \subseteq Registers
  BY DEF Registers
<1>9. \A r \in Registers \ {"PI_WR_LEN"} : Address[r] # Address["PI_WR_LEN"]
  BY <1>8, LayoutAssumption
<1>10. \A c : Lines(c) => Shaped(Touch(mem, c)) /\ \A r \in Homes : Touch(mem, c)[r] = mem[r]
  BY <1>1, TouchShaped, TouchHomes
<1>11. DOMAIN mem = Regions
  BY <1>1 DEF Shaped
<1> HIDE DEF Goal
<1> SUFFICES Goal
  BY DEF Goal
<1>12. CASE StorePlain(a, d, n)
  <2>1. a # Address["PI_WR_LEN"] \/ d = 0
    BY <1>12 DEF StorePlain, Handled
  <2> QED
    BY <1>1, <1>6, <1>12, <2>1 DEF StorePlain
<1>13. CASE d # 0 /\ StorePiStatus(a, d, n)
  <2> DEFINE m == [mem EXCEPT !["PI_STATUS"] = Zeros(4)]
  <2>1. mem' = Write(m, a, 0, n) /\ a = Address["PI_STATUS"]
    BY <1>13 DEF StorePiStatus
  <2>2. Zeros(4) \in [0 .. 3 -> Byte]
    BY ByteType DEF Zeros
  <2>3. Shaped(m)
    BY <1>1, <1>8, <2>2, PutRegister
  <2>4. "PI_STATUS" \notin Homes /\ \A r \in Homes : m[r] = mem[r]
    BY HomeNames
  <2>5. ~there
    BY <1>7, <1>8, <2>1, <2>4
  <2> HIDE DEF m
  <2> QED
    BY <1>5, <2>1, <2>3, <2>4, <2>5
<1>14. CASE d # 0 /\ StorePiWrLen(a, d, n)
  <2> DEFINE c == Number(Slice(mem["PI_CART_ADDR"], 0, 4))
             m == Dma(Touch(mem, c), d)
  <2>1. /\ a = Address["PI_WR_LEN"] /\ Copyable(d) /\ d \in Nat \ {0}
        /\ mem' = Write(m, a, d, n)
    BY <1>2, <1>14 DEF StorePiWrLen
  <2>2. Source(mem)[1] # "VI_V_CURRENT" /\ Source(mem) = Pointer(c)
    BY <2>1, Zenon DEF Copyable, Source
  <2>3. Lines(c)
    BY <2>2 DEF Lines
  <2> HIDE DEF c
  <2>4. Shaped(m) /\ Shaped(Touch(mem, c))
    BY <1>10, <2>1, <2>3, DmaShaped
  <2>5. cells(m) \in Flattened!Moved(a, d)
    BY <2>1, <2>4, DmaCells
  <2>6. there
    BY <1>7, <1>8, <2>1, HomeNames
  <2> HIDE DEF m, there
  <2> QED
    BY <1>3, <2>1, <2>4, <2>5, <2>6
<1>15. CASE d # 0 /\ (\/ StoreViCtrl(a, d, n) \/ StoreViWidth(a, d, n)
                      \/ StoreViSync(a, d, n))
  <2>1. mem' = Write(mem, a, d, n) /\ a # Address["PI_WR_LEN"]
    BY <1>8, <1>9, <1>15 DEF StoreViCtrl, StoreViWidth, StoreViSync
  <2> QED
    BY <1>1, <1>6, <2>1
<1>16. CASE d # 0 /\ StoreViOrigin(a, d, n)
  <2> DEFINE m == Touch(mem, d % OriginMask)
  <2>1. /\ mem' = Write(m, a, d, n) /\ a # Address["PI_WR_LEN"]
        /\ Accessible(d % OriginMask, 1)
    BY <1>8, <1>9, <1>16 DEF StoreViOrigin
  <2>2. Lines(d % OriginMask)
    BY <1>1, <2>1, PointerNatural
  <2>3. Shaped(m) /\ \A r \in Homes : m[r] = mem[r]
    BY <1>10, <2>2
  <2> HIDE DEF m
  <2> QED
    BY <1>6, <2>1, <2>3
<1>17. CASE d # 0 /\ StoreViCurrent(a, d, n)
  <2> DEFINE m == Acknowledged(mem)
  <2>1. mem' = Write(m, a, d, n) /\ a # Address["PI_WR_LEN"]
    BY <1>8, <1>9, <1>17 DEF StoreViCurrent
  <2>2. m = set_interrupt(mem, VI, 0)
    BY DEF Acknowledged, set_interrupt
  <2>3. Shaped(m)
    BY <1>1, <2>2, InterruptShaped, BusAssumption
  <2>4. \A r \in Homes : m[r] = mem[r]
    BY HomeNames DEF Acknowledged
  <2> HIDE DEF m
  <2> QED
    BY <1>6, <2>1, <2>3, <2>4
<1>18. CASE d # 0 /\ StoreViIntr(a, d, n)
  <2> DEFINE m == [mem EXCEPT !["VI_V_INTR"] = HostBytes(d)]
             v == d % LineMask
  <2>1. mem' = Write(m, a, v, n) /\ a = Address["VI_V_INTR"]
    BY <1>18 DEF StoreViIntr
  <2>2. HostBytes(d) \in [0 .. 3 -> Byte] /\ v \in Int
    BY <1>2, HostBytesType, BusAssumption
  <2>3. Shaped(m)
    BY <1>1, <1>8, <2>2, PutRegister
  <2>4. "VI_V_INTR" \notin Homes /\ \A r \in Homes : m[r] = mem[r]
    BY HomeNames
  <2>5. ~there
    BY <1>7, <1>8, <2>1, <2>4
  <2> HIDE DEF m, v, there
  <2> QED
    BY <1>5, <2>1, <2>2, <2>3, <2>4, <2>5
<1>19. CASE d # 0 /\ StoreMiMask(a, d, n)
  <2>1. mem' = Write(mem, a, FromBits(mi_mask'), n) /\ a = Address["MI_MASK"]
    BY <1>19 DEF StoreMiMask
  <2>2. FromBits(mi_mask') \in Int
    BY FromBitsType
  <2>3. ~there
    BY <1>7, <1>8, <2>1, HomeNames
  <2> HIDE DEF there
  <2> QED
    BY <1>1, <1>5, <2>1, <2>2, <2>3
<1>20. CASE d # 0 /\ StorePifCommand(a, d, n)
  <2>1. /\ a = Address["pif"] + PifSize - 4
        /\ \E wiped : \E v \in {0, d, Answer} :
              mem' = Write([mem EXCEPT !["pif"] = [i \in DOMAIN @ |->
                                IF i \in wiped THEN 0 ELSE @[i]]], a, v, n)
    BY <1>20 DEF StorePifCommand
  <2>2. PICK wiped : \E v \in {0, d, Answer} :
              mem' = Write([mem EXCEPT !["pif"] = [i \in DOMAIN @ |->
                                IF i \in wiped THEN 0 ELSE @[i]]], a, v, n)
    BY <2>1
  <2> DEFINE f == [i \in DOMAIN mem["pif"] |-> IF i \in wiped THEN 0 ELSE mem["pif"][i]]
             m == [mem EXCEPT !["pif"] = f]
  <2>3. PICK v \in {0, d, Answer} : mem' = Write(m, a, v, n)
    BY <2>2
  <2>4. v \in Int
    BY <1>2, BusAssumption
  <2>5. Shaped(m)
    <3>1. "pif" \in Regions
      BY RegisterNames
    <3>2. f \in [DOMAIN mem["pif"] -> Byte]
      BY <1>1, BlankShape, ByteType DEF Shaped
    <3> HIDE DEF f
    <3> QED
      BY <1>1, <3>1, <3>2, PutShaped
  <2>6. \A r \in Homes : m[r] = mem[r]
    BY HomeNames
  <2>7. ~there
    <3>1. a \in Address["ipl"] .. Address["pif"] + PifSize - 1
      BY <2>1, FlatAssumption, BusAssumption
    <3>2. a \notin Flat
      BY <3>1, FlatAssumption
    <3>3. there => a \in a .. a + n - 1 /\ a .. a + n - 1 \subseteq Flat
      BY <1>1, <1>2, Found
    <3> QED
      BY <3>2, <3>3
  <2> HIDE DEF m, there
  <2> QED
    BY <1>5, <2>3, <2>4, <2>5, <2>6, <2>7
<1> QED
  BY <1>2, <1>12, <1>13, <1>14, <1>15, <1>16, <1>17, <1>18, <1>19, <1>20
     DEF Invalidate

-----------------------------------------------------------------------------
(* Accesses.                                                               *)

(* A sequence of n in two parts.                                           *)
LEMMA Joined ==
    ASSUME NEW n \in Nat, NEW j \in 0 .. n,
           NEW s, s \in [1 .. j -> Byte], NEW t, t \in [1 .. n - j -> Byte]
    PROVE  /\ s \o t = [i \in 1 .. n |-> IF i <= j THEN s[i] ELSE t[i - j]]
           /\ s \o t \in [1 .. n -> Byte] /\ Len(s \o t) = n
<1> DEFINE u == s \o t
<1>1. j \in Nat /\ n - j \in Nat /\ j + (n - j) = n
  OBVIOUS
<1>2. s \in Seq(Byte) /\ Len(s) = j /\ t \in Seq(Byte) /\ Len(t) = n - j
  BY <1>1, SequenceType
<1>3. u \in Seq(Byte) /\ Len(u) = n
  BY <1>1, <1>2
<1>4. \A i \in 1 .. n : u[i] = IF i <= j THEN s[i] ELSE t[i - j]
  BY <1>1, <1>2
<1> HIDE DEF u
<1>5. u = [i \in 1 .. n |-> u[i]] /\ u \in [1 .. n -> Byte]
  BY <1>3
<1> QED
  BY <1>3, <1>4, <1>5 DEF u

LEMMA AlignedOffset ==
    ASSUME NEW n \in {4, 8}, NEW b \in Nat, NEW c \in Int, NEW s \in Nat,
           s % 8 = 0, b % n = 0, b + c \in 4 * s .. (6 * s) - 1
    PROVE  LET v == b + c
               w == v - (c % n)
           IN  /\ c % n \in 0 .. n - 1 /\ v % n = c % n
               /\ w \in 4 * s .. (6 * s) - 1
               /\ (w < 5 * s <=> v < 5 * s)
               /\ (v - 4 * s) % n = c % n /\ (v - 5 * s) % n = c % n
<1>1. CASE n = 4
  BY <1>1
<1>2. CASE n = 8
  BY <1>2
<1> QED
  BY <1>1, <1>2

(* The address of an unaligned access, and the one of the word or          *)
(* doubleword that holds it.                                               *)
LEMMA AlignedAddress ==
    ASSUME NEW x \in Merges
    PROVE  LET v   == x[1] + x[2]
               n   == x[3]
               p   == v % Segment
               a   == translate_vaddr(Aligned(x[1], x[2], n))
               off == x[2] % n
           IN  /\ x[4] \in Nat /\ n \in {4, 8} /\ p \in Nat /\ a \in Nat
               /\ off \in 0 .. n - 1
               /\ p % n = off /\ v % n = off
               /\ a = p - off /\ a + off = p
               /\ translate_vaddr(v) = p
<1> DEFINE v == x[1] + x[2]
           n == x[3]
           p == v % Segment
           w == Aligned(x[1], x[2], n)
           a == translate_vaddr(w)
           off == x[2] % n
           s == Segment
<1>1. /\ x[1] \in Nat /\ x[2] \in Int /\ n \in {4, 8} /\ x[4] \in Nat
      /\ Unmapped(v) /\ x[1] % n = 0
  BY MergeAssumption
<1>2. s \in Nat \ {0} /\ s % 8 = 0
  BY AccessAssumption
<1>3. /\ v \in Nat /\ translate_vaddr(v) = p /\ p \in Nat
      /\ p = IF v < 5 * s THEN v - 4 * s ELSE v - 5 * s
      /\ v \in 4 * s .. (6 * s) - 1
  BY <1>1, Translated DEF Unmapped
<1>4. w = v - off /\ v = x[1] + x[2]
  BY <1>1 DEF Aligned
<1> HIDE DEF v, p, s, w
<1>5. /\ off \in 0 .. n - 1 /\ v % n = off
      /\ w \in 4 * s .. (6 * s) - 1
      /\ (w < 5 * s <=> v < 5 * s)
      /\ p % n = off
  <2>1. /\ off \in 0 .. n - 1 /\ (x[1] + x[2]) % n = off
        /\ (x[1] + x[2]) - off \in 4 * s .. (6 * s) - 1
        /\ ((x[1] + x[2]) - off < 5 * s <=> x[1] + x[2] < 5 * s)
        /\ ((x[1] + x[2]) - 4 * s) % n = off /\ ((x[1] + x[2]) - 5 * s) % n = off
    BY <1>1, <1>2, <1>3, <1>4, AlignedOffset
  <2> HIDE DEF n, off
  <2> QED
    BY <1>3, <1>4, <2>1
<1>6. Unmapped(w)
  BY <1>5 DEF Unmapped, s
<1>7. a \in Nat /\ a = IF w < 5 * s THEN w - 4 * s ELSE w - 5 * s
  BY <1>6, Translated DEF s
<1>8. a = p - off /\ a + off = p
  <2> HIDE DEF a, off, n
  <2>1. off \in Int
    BY <1>1, <1>5
  <2> QED
    BY <1>2, <1>3, <1>4, <1>5, <1>7, <2>1
<1> QED
  BY <1>1, <1>3, <1>5, <1>7, <1>8 DEF v, p, w

(* The operators of the flat memory that look at it.                       *)
LEMMA FlatLeft ==
    ASSUME NEW o
    PROVE  /\ o.kind = "store" => Flattened!Left(o) = ToBytes(o.data, o.size)
           /\ o.kind = "left" =>
                  Flattened!Left(o) =
                      Slice(cells(mem), Flattened!Start(o), o.size - Flattened!Rest(o))
                          \o SubSeq(ToBytes(o.data, o.size), 1, Flattened!Rest(o))
           /\ o.kind = "right" =>
                  Flattened!Left(o) =
                      SubSeq(ToBytes(o.data, o.size), Flattened!Rest(o), o.size)
                          \o Slice(cells(mem), Flattened!At(o) + 1,
                                   o.size - Flattened!Last(o))
BY SameBytes DEF Flattened!Left, cells

LEMMA FlatStore ==
    ASSUME op'.kind \in {"store", "left", "right"},
           IF Flattened!Touched(op') \subseteq Flat
           THEN \E c \in Flattened!Moved(Flattened!From(op'),
                                         Number(Flattened!Left(op'))) :
                    cells(mem)' = Overlay(c, Flattened!From(op'), Flattened!Left(op'))
           ELSE cells(mem)' = cells(mem)
    PROVE  Flattened!Store(op')
BY SameBytes DEF Flattened!Store, cells

(* A store of a number is a store of flat memory, if its bytes are those   *)
(* that the access leaves.                                                 *)
LEMMA LandsFlat ==
    ASSUME BusInv, NEW a \in Nat, NEW n \in Width, NEW d \in 0 .. Power[n] - 1,
           store_memory(a, d, n),
           op'.kind \in {"store", "left", "right"}, op'.size = n,
           Flattened!From(op') = a,
           Pointer(a)[1] \in Homes => Flattened!Left(op') = ToBytes(d, n)
    PROVE  Flattened!Store(op')
<1>1. Shaped(mem) /\ Accessible(a, n) /\ n \in Nat \ {0} /\ n \in 0 .. 8
  BY DEF BusInv, store_memory, Width
<1>2. Flattened!Touched(op') = a .. a + n - 1
  BY DEF Flattened!Touched
<1>3. Flattened!Touched(op') \subseteq Flat <=> Pointer(a)[1] \in Homes
  <2>1. a \in a .. a + n - 1
    BY <1>1
  <2> QED
    BY <1>1, <1>2, <2>1, Found
<1>4. CASE Pointer(a)[1] \in Homes
  <2>1. d \in Nat /\ d < Power[n]
    BY <1>1, Powers
  <2>2. Number(ToBytes(d, n)) = d
    BY <1>1, <2>1, NumberOfBytes
  <2>3. \E c \in Flattened!Moved(a, d) : cells(mem)' = Overlay(c, a, ToBytes(d, n))
    BY <1>4, StoreCells
  <2> QED
    BY <1>3, <1>4, <2>2, <2>3, FlatStore
<1>5. CASE Pointer(a)[1] \notin Homes
  <2>1. cells(mem)' = cells(mem)
    BY <1>5, StoreCells
  <2> QED
    BY <1>3, <1>5, <2>1, FlatStore
<1> QED
  BY <1>4, <1>5

(* Aligned stores.                                                         *)
LEMMA StoreFlat ==
    ASSUME BusInv, NEW x \in Stores, Store(x[1], x[2], x[3])
    PROVE  Flattened!Store(op')
<1> DEFINE v == x[1]
           n == x[2]
           d == x[3] % Power[n]
           a == translate_vaddr(v)
<1>1. Unmapped(v) /\ n \in Width /\ x[3] \in Nat
  BY AccessAssumption
<1>2. op' = [kind |-> "store", addr |-> v, size |-> n, data |-> d] /\ store_memory(a, d, n)
  BY DEF Store, Record
<1>3. a = v % Segment /\ a \in Nat
  BY <1>1, Translated
<1>4. d \in 0 .. Power[n] - 1
  BY <1>1, RegisterLow
<1>5. op'.kind = "store" /\ op'.size = n /\ op'.addr = v /\ op'.data = d
  BY <1>2
<1> HIDE DEF d, a, n, v
<1>6. Flattened!From(op') = a
  BY <1>3, <1>5 DEF Flattened!From, Flattened!At
<1>7. Flattened!Left(op') = ToBytes(d, n)
  BY <1>5, FlatLeft
<1>8. op'.kind \in {"store", "left", "right"}
  BY <1>5
<1> QED
  BY <1>1, <1>2, <1>3, <1>4, <1>5, <1>6, <1>7, <1>8, LandsFlat, Zenon

(* Where an unaligned access of flat memory lies.                          *)
LEMMA UnalignedPlace ==
    ASSUME NEW x \in Merges, NEW o, o.addr = x[1] + x[2], o.size = x[3],
           o.kind \in {"left", "right", "load_left", "load_right"}
    PROVE  LET n   == x[3]
               a   == translate_vaddr(Aligned(x[1], x[2], n))
               off == x[2] % n
           IN  /\ Flattened!At(o) = a + off /\ Flattened!Start(o) = a
               /\ Flattened!From(o) = a
               /\ Flattened!Rest(o) = n - off /\ Flattened!Last(o) = off + 1
<1> DEFINE n == x[3]
           p == (x[1] + x[2]) % Segment
           a == translate_vaddr(Aligned(x[1], x[2], n))
           off == x[2] % n
<1>1. p % n = off /\ a = p - off /\ a + off = p
  BY AlignedAddress
<1> HIDE DEF p, a, off
<1>2. Flattened!At(o) = p /\ Flattened!At(o) % o.size = off
  BY <1>1 DEF Flattened!At, p
<1>3. a + off = p
  BY <1>1, Zenon
<1>4. Flattened!Start(o) = a
  BY <1>1, <1>2, Zenon DEF Flattened!Start
<1>5. Flattened!From(o) = a
  BY <1>4, Zenon DEF Flattened!From
<1>6. Flattened!Rest(o) = n - off /\ Flattened!Last(o) = off + 1
  BY <1>1, <1>2, Zenon DEF Flattened!Rest, Flattened!Last
<1> QED
  BY <1>2, <1>3, <1>4, <1>5, <1>6, Zenon DEF a, off

-----------------------------------------------------------------------------
(* The bytes that unaligned accesses merge.                                *)

LEMMA Subsequence ==
    ASSUME NEW S, NEW n \in Nat, NEW s, s \in [1 .. n -> S],
           NEW j \in 1 .. n + 1, NEW k \in j - 1 .. n
    PROVE  /\ SubSeq(s, j, k) = [i \in 1 .. k - j + 1 |-> s[j + i - 1]]
           /\ SubSeq(s, j, k) \in [1 .. k - j + 1 -> S]
<1> DEFINE u == SubSeq(s, j, k)
           l == k - j + 1
<1>1. s \in Seq(S) /\ Len(s) = n
  BY SequenceType
<1>2. l \in Nat
  OBVIOUS
<1>3. u = [i \in 1 .. l |-> s[j + i - 1]]
  BY <1>1
<1>4. \A i \in 1 .. l : s[j + i - 1] \in S
  OBVIOUS
<1> QED
  BY <1>3, <1>4

(* The bytes of a register are those of its low part.                      *)
LEMMA LowRegister ==
    ASSUME NEW n \in Width, NEW rt \in Nat
    PROVE  ToBytes(rt % Power[n], n) = ToBytes(rt, n)
<1>1. ASSUME NEW i \in 1 .. n
      PROVE  ((rt % Power[n]) \div Power[n - i]) % Base = (rt \div Power[n - i]) % Base
  <2>1. n \in 0 .. 8 /\ n - i \in 0 .. 8 /\ n - i < n
    BY DEF Width
  <2> QED
    BY <2>1, LowBytes
<1> QED
  BY <1>1 DEF ToBytes

LEMMA WordOf ==
    ASSUME NEW n \in 0 .. 8, NEW s, s \in [1 .. n -> Byte], Len(s) = n
    PROVE  /\ Number(s) \in Nat /\ Number(s) \in 0 .. Power[n] - 1
           /\ ToBytes(Number(s), n) = s
<1>1. Number(s) \in 0 .. Power[n] - 1 /\ ToBytes(Number(s), n) = s
  BY NumberBound, BytesOfNumber
<1>2. \A p \in Nat : \A x \in 0 .. p - 1 : x \in Nat
  OBVIOUS
<1> QED
  BY <1>1, <1>2, Powers

(* SWL and SDL.                                                            *)
UpperPart(n, off, s, u, r) ==
    /\ n \in 1 .. 8 /\ off \in 0 .. n - 1 /\ s \in [1 .. n -> Byte] /\ Len(s) = n
    /\ u \in [1 .. off -> Byte] /\ \A i \in 1 .. off : u[i] = s[i]
    /\ r \in 0 .. Power[n] - 1

LEMMA LeftBytes ==
    ASSUME NEW n, NEW off, NEW s, NEW u, NEW r, UpperPart(n, off, s, u, r)
    PROVE  u \o SubSeq(ToBytes(r, n), 1, n - off)
               = ToBytes(Upper(Number(s), n, off) + (r \div Power[off]), n)
<1> DEFINE w == Number(s)
           b == ToBytes(r, n)
           t == SubSeq(b, 1, n - off)
           d == Upper(w, n, off) + (r \div Power[off])
           k == n - off
<1>0. /\ n \in 1 .. 8 /\ off \in 0 .. n - 1 /\ s \in [1 .. n -> Byte] /\ Len(s) = n
      /\ u \in [1 .. off -> Byte] /\ \A i \in 1 .. off : u[i] = s[i]
      /\ r \in 0 .. Power[n] - 1
  BY DEF UpperPart
<1>1. n \in Nat /\ n \in 0 .. 8 /\ off \in 0 .. n /\ k \in 0 .. n
  BY <1>0
<1>2. w \in Nat /\ ToBytes(w, n) = s
  BY <1>0, <1>1, WordOf
<1>3. b \in [1 .. n -> Byte]
  <2>1. r \in Int
    BY <1>0, <1>1, Powers
  <2> QED
    BY <1>0, <1>1, <2>1, BytesType
<1> HIDE DEF w
<1>4. ToBytes(d, n) = [i \in 1 .. n |-> IF i <= off THEN s[i] ELSE b[i - off]]
  <2>1. ToBytes((w \div Power[n - off]) * Power[n - off] + (r \div Power[off]), n)
            = [i \in 1 .. n |-> IF i <= off THEN ToBytes(w, n)[i]
                                             ELSE ToBytes(r, n)[i - off]]
    <3>1. n \in 0 .. 8 /\ off \in 0 .. n /\ w \in Nat /\ r \in 0 .. Power[n] - 1
      BY <1>0, <1>1, <1>2
    <3> QED
      BY <1>0, <3>1, UpperBytes, Zenon
  <2>2. d = (w \div Power[n - off]) * Power[n - off] + (r \div Power[off])
    BY DEF Upper
  <2> HIDE DEF d
  <2> QED
    BY <1>0, <1>2, <2>1, <2>2
<1> HIDE DEF d, b
<1>5. t \in [1 .. k -> Byte] /\ \A i \in 1 .. k : t[i] = b[i]
  <2>1. 1 \in 1 .. n + 1 /\ k \in 1 - 1 .. n /\ k - 1 + 1 = k
    BY <1>0, <1>1
  <2>2. /\ t = [i \in 1 .. k - 1 + 1 |-> b[1 + i - 1]]
        /\ t \in [1 .. k - 1 + 1 -> Byte]
    BY <1>0, <1>1, <1>3, <2>1, Subsequence
  <2> HIDE DEF t, k
  <2> QED
    BY <1>0, <1>1, <2>1, <2>2
<1> HIDE DEF t
<1>6. u \o t = [i \in 1 .. n |-> IF i <= off THEN u[i] ELSE t[i - off]]
  <2>1. /\ n \in Nat /\ off \in 0 .. n
        /\ u \in [1 .. off -> Byte] /\ t \in [1 .. n - off -> Byte]
    BY <1>0, <1>1, <1>5
  <2> QED
    BY <1>0, <2>1, Joined
<1>7. ASSUME NEW i \in 1 .. n
      PROVE  (IF i <= off THEN u[i] ELSE t[i - off]) = IF i <= off THEN s[i] ELSE b[i - off]
  <2>1. CASE i <= off
    BY <1>0, <2>1
  <2>2. CASE ~(i <= off)
    BY <1>0, <1>1, <1>5, <2>2
  <2> QED
    BY <1>0, <2>1, <2>2
<1> QED
  BY <1>0, <1>4, <1>6, <1>7 DEF d, w, t, b

(* SWR and SDR.                                                            *)
LowerPart(n, off, s, t, rt) ==
    /\ n \in 1 .. 8 /\ off \in 0 .. n - 1 /\ s \in [1 .. n -> Byte] /\ Len(s) = n
    /\ t \in [1 .. n - (off + 1) -> Byte]
    /\ \A i \in 1 .. n - (off + 1) : t[i] = s[(off + 1) + i]
    /\ rt \in Nat

LEMMA RightBytes ==
    ASSUME NEW n, NEW off, NEW s, NEW t, NEW rt, LowerPart(n, off, s, t, rt)
    PROVE  SubSeq(ToBytes(rt, n), n - off, n) \o t
               = ToBytes(Lower(Number(s), n - 1 - off)
                             + Lower(rt * Power[n - 1 - off], n), n)
<1> DEFINE w == Number(s)
           j == off + 1
           m == n - 1 - off
           b == ToBytes(rt, n)
           u == SubSeq(b, n - off, n)
           d == Lower(w, m) + Lower(rt * Power[m], n)
<1>0. /\ n \in 1 .. 8 /\ off \in 0 .. n - 1 /\ s \in [1 .. n -> Byte] /\ Len(s) = n
      /\ t \in [1 .. n - (off + 1) -> Byte]
      /\ \A i \in 1 .. n - (off + 1) : t[i] = s[(off + 1) + i]
      /\ rt \in Nat
  BY DEF LowerPart
<1>1. /\ n \in Nat /\ n \in 0 .. 8 /\ j \in 0 .. n /\ j \in Nat
      /\ m \in 0 .. n /\ n - m = j /\ n - j = m /\ m \in Int
  BY <1>0
<1>2. w \in Nat /\ ToBytes(w, n) = s
  BY <1>0, <1>1, WordOf
<1>3. b \in [1 .. n -> Byte]
  <2>1. rt \in Int /\ n \in 0 .. 8
    BY <1>0, <1>1
  <2> QED
    BY <1>0, <2>1, BytesType, Zenon
<1> HIDE DEF w
<1>4. ToBytes(d, n) = [i \in 1 .. n |-> IF i <= j THEN b[i + m] ELSE s[i]]
  <2>1. ToBytes((w % Power[m]) + ((rt * Power[m]) % Power[n]), n)
            = [i \in 1 .. n |-> IF i <= n - m THEN ToBytes(rt, n)[i + m]
                                               ELSE ToBytes(w, n)[i]]
    <3>1. n \in 0 .. 8 /\ m \in 0 .. n /\ w \in Nat /\ rt \in Nat
      BY <1>0, <1>1, <1>2
    <3> QED
      BY <1>0, <3>1, LowerBytes, Zenon
  <2>2. d = (w % Power[m]) + ((rt * Power[m]) % Power[n])
    BY DEF Lower
  <2> HIDE DEF d, m, j
  <2> QED
    BY <1>0, <1>1, <1>2, <2>1, <2>2
<1> HIDE DEF d, b
<1>5. u \in [1 .. j -> Byte] /\ \A i \in 1 .. j : u[i] = b[i + m]
  <2>1. /\ n - off \in 1 .. n + 1 /\ n \in (n - off) - 1 .. n
        /\ n - (n - off) + 1 = j
        /\ \A i \in 1 .. j : (n - off) + i - 1 = i + m
    BY <1>0, <1>1
  <2>2. /\ u = [i \in 1 .. n - (n - off) + 1 |-> b[(n - off) + i - 1]]
        /\ u \in [1 .. n - (n - off) + 1 -> Byte]
    BY <1>0, <1>1, <1>3, <2>1, Subsequence
  <2> HIDE DEF u, j, m
  <2> QED
    BY <1>0, <2>1, <2>2
<1> HIDE DEF u
<1>6. t \in [1 .. n - j -> Byte]
  BY <1>0
<1>7. u \o t = [i \in 1 .. n |-> IF i <= j THEN u[i] ELSE t[i - j]]
  <2>1. /\ n \in Nat /\ j \in 0 .. n
        /\ u \in [1 .. j -> Byte] /\ t \in [1 .. n - j -> Byte]
    BY <1>0, <1>1, <1>5, <1>6
  <2> HIDE DEF j
  <2> QED
    BY <1>0, <2>1, Joined
<1>8. ASSUME NEW i \in 1 .. n
      PROVE  (IF i <= j THEN u[i] ELSE t[i - j]) = IF i <= j THEN b[i + m] ELSE s[i]
  <2>1. CASE i <= j
    BY <1>0, <1>1, <1>5, <2>1
  <2>2. CASE ~(i <= j)
    <3>1. i - j \in 1 .. n - (off + 1) /\ (off + 1) + (i - j) = i
      BY <1>0, <1>1, <2>2
    <3> QED
      BY <1>0, <2>2, <3>1
  <2> QED
    BY <1>0, <2>1, <2>2
<1> QED
  BY <1>0, <1>4, <1>7, <1>8 DEF d, w, u, b

-----------------------------------------------------------------------------
(* Unaligned stores.                                                       *)

(* What an unaligned access reads, and its two parts.                      *)
LEMMA ReadParts ==
    ASSUME BusInv, NEW a \in Nat, NEW n \in Width, Accessible(a, n),
           Pointer(a)[1] \in Homes, NEW j \in 0 .. n
    PROVE  LET s == Slice(cells(mem), a, n)
               u == Slice(cells(mem), a, j)
               t == Slice(cells(mem), a + j, n - j)
           IN  /\ s \in [1 .. n -> Byte] /\ Len(s) = n
               /\ load_memory(a, n) = Number(s)
               /\ u \in [1 .. j -> Byte] /\ \A i \in 1 .. j : u[i] = s[i]
               /\ t \in [1 .. n - j -> Byte] /\ \A i \in 1 .. n - j : t[i] = s[j + i]
<1> DEFINE c == cells(mem)
           s == Slice(c, a, n)
           u == Slice(c, a, j)
           t == Slice(c, a + j, n - j)
<1>1. s \in [1 .. n -> Byte] /\ Len(s) = n /\ load_memory(a, n) = Number(s)
  BY ReadCells
<1> HIDE DEF c
<1>2. n \in Nat
  BY DEF Width
<1>3. ASSUME NEW i \in 1 .. n
      PROVE  s[i] = c[a + i - 1] /\ s[i] \in Byte
  BY <1>1 DEF Slice
<1>4. ASSUME NEW i \in 1 .. j
      PROVE  u[i] = s[i] /\ s[i] \in Byte
  <2>1. i \in 1 .. n
    BY <1>2
  <2>2. u[i] = c[a + i - 1]
    BY DEF Slice
  <2> QED
    BY <1>3, <2>1, <2>2
<1>5. ASSUME NEW i \in 1 .. n - j
      PROVE  t[i] = s[j + i] /\ s[j + i] \in Byte
  <2>1. j + i \in 1 .. n /\ a + (j + i) - 1 = (a + j) + i - 1
    BY <1>2
  <2>2. t[i] = c[(a + j) + i - 1]
    BY DEF Slice
  <2> QED
    BY <1>3, <2>1, <2>2
<1>6. u = [i \in 1 .. j |-> u[i]] /\ t = [i \in 1 .. n - j |-> t[i]]
  BY DEF Slice
<1> HIDE DEF s, u, t
<1>7. u \in [1 .. j -> Byte] /\ t \in [1 .. n - j -> Byte]
  BY <1>4, <1>5, <1>6
<1> QED
  BY <1>1, <1>4, <1>5, <1>7 DEF c, s, u, t

LEMMA StoreLeftFlat ==
    ASSUME BusInv, NEW x \in Merges, StoreLeft(x[1], x[2], x[3], x[4])
    PROVE  Flattened!Store(op')
<1> DEFINE n == x[3]
           off == x[2] % n
           a == translate_vaddr(Aligned(x[1], x[2], n))
           r == x[4] % Power[n]
           d == Upper(load_memory(a, n), n, off) + (r \div Power[off])
           s == Slice(cells(mem), a, n)
           u == Slice(cells(mem), a, off)
<1>1. /\ op' = [kind |-> "left", addr |-> x[1] + x[2], size |-> n,
                data |-> r, old |-> x[4]]
      /\ Accessible(a, n) /\ store_memory(a, d, n)
  BY DEF StoreLeft, Unaligned
<1>2. n \in {4, 8} /\ x[4] \in Nat /\ a \in Nat /\ off \in 0 .. n - 1
  BY AlignedAddress
<1>3. /\ op'.kind = "left" /\ op'.size = n /\ op'.data = r
      /\ op'.addr = x[1] + x[2]
  BY <1>1
<1>4. /\ Flattened!Start(op') = a /\ Flattened!From(op') = a
      /\ Flattened!Rest(op') = n - off
  BY <1>3, UnalignedPlace
<1>5. n \in Width /\ n \in 1 .. 8
  BY <1>2 DEF Width
<1>6. r \in 0 .. Power[n] - 1
  BY <1>2, <1>5, RegisterLow
<1>7. d \in 0 .. Power[n] - 1
  BY <1>1, <1>2, <1>5, LoadedNumber, MergedNumber
<1> HIDE DEF a, r, off, n
<1>8. ASSUME Pointer(a)[1] \in Homes
      PROVE  Flattened!Left(op') = ToBytes(d, n)
  <2>1. off \in 0 .. n /\ n - (n - off) = off
    BY <1>2, <1>5
  <2>2. /\ s \in [1 .. n -> Byte] /\ Len(s) = n /\ load_memory(a, n) = Number(s)
        /\ u \in [1 .. off -> Byte] /\ \A i \in 1 .. off : u[i] = s[i]
    BY <1>1, <1>2, <1>5, <1>8, <2>1, ReadParts
  <2> HIDE DEF u, s
  <2>3. u \o SubSeq(ToBytes(r, n), 1, n - off) = ToBytes(d, n)
    <3>1. u \o SubSeq(ToBytes(r, n), 1, n - off)
              = ToBytes(Upper(Number(s), n, off) + (r \div Power[off]), n)
      <4>1. UpperPart(n, off, s, u, r)
        BY <1>2, <1>5, <1>6, <2>2 DEF UpperPart
      <4> QED
        BY <4>1, LeftBytes
    <3> QED
      BY <2>2, <3>1
  <2>4. Flattened!Left(op') = u \o SubSeq(ToBytes(r, n), 1, n - off)
    BY <1>3, <1>4, <2>1, FlatLeft DEF u
  <2> QED
    BY <2>3, <2>4
<1> HIDE DEF d
<1>9. op'.kind \in {"store", "left", "right"}
  BY <1>3
<1> QED
  BY <1>1, <1>2, <1>3, <1>4, <1>5, <1>7, <1>8, <1>9, LandsFlat

LEMMA StoreRightFlat ==
    ASSUME BusInv, NEW x \in Merges, StoreRight(x[1], x[2], x[3], x[4])
    PROVE  Flattened!Store(op')
<1> DEFINE n == x[3]
           off == x[2] % n
           a == translate_vaddr(Aligned(x[1], x[2], n))
           rt == x[4]
           r == x[4] % Power[n]
           d == Lower(load_memory(a, n), n - 1 - off) + Lower(rt * Power[n - 1 - off], n)
           j == off + 1
           s == Slice(cells(mem), a, n)
           t == Slice(cells(mem), a + j, n - j)
<1>1. /\ op' = [kind |-> "right", addr |-> x[1] + x[2], size |-> n,
                data |-> r, old |-> x[4]]
      /\ Accessible(a, n) /\ store_memory(a, d, n)
  BY DEF StoreRight, Unaligned
<1>2. n \in {4, 8} /\ rt \in Nat /\ a \in Nat /\ off \in 0 .. n - 1
  BY AlignedAddress
<1>3. /\ op'.kind = "right" /\ op'.size = n /\ op'.data = r
      /\ op'.addr = x[1] + x[2]
  BY <1>1
<1>4. /\ Flattened!At(op') = a + off /\ Flattened!From(op') = a
      /\ Flattened!Rest(op') = n - off /\ Flattened!Last(op') = off + 1
  BY <1>3, UnalignedPlace
<1>5. n \in Width /\ n \in 1 .. 8
  BY <1>2 DEF Width
<1>6. ToBytes(r, n) = ToBytes(rt, n)
  BY <1>2, <1>5, LowRegister
<1>7. d \in 0 .. Power[n] - 1
  BY <1>1, <1>2, <1>5, LoadedNumber, MergedNumber
<1> HIDE DEF a, r, rt, off, n
<1>8. ASSUME Pointer(a)[1] \in Homes
      PROVE  Flattened!Left(op') = ToBytes(d, n)
  <2>1. j \in 0 .. n /\ (a + off) + 1 = a + j
    BY <1>2, <1>5
  <2>2. /\ s \in [1 .. n -> Byte] /\ Len(s) = n /\ load_memory(a, n) = Number(s)
        /\ t \in [1 .. n - j -> Byte] /\ \A i \in 1 .. n - j : t[i] = s[j + i]
    BY <1>1, <1>2, <1>5, <1>8, <2>1, ReadParts
  <2> HIDE DEF t, s
  <2>3. SubSeq(ToBytes(rt, n), n - off, n) \o t = ToBytes(d, n)
    <3>1. SubSeq(ToBytes(rt, n), n - off, n) \o t
              = ToBytes(Lower(Number(s), n - 1 - off)
                            + Lower(rt * Power[n - 1 - off], n), n)
      <4>1. LowerPart(n, off, s, t, rt)
        BY <1>2, <1>5, <2>2 DEF LowerPart
      <4> HIDE DEF j
      <4> QED
        BY <4>1, RightBytes
    <3> QED
      BY <2>2, <3>1
  <2>4. Flattened!Left(op') = SubSeq(ToBytes(r, n), n - off, n) \o t
    BY <1>3, <1>4, <2>1, FlatLeft DEF t
  <2> QED
    BY <1>6, <2>3, <2>4
<1> HIDE DEF d
<1>9. op'.kind \in {"store", "left", "right"}
  BY <1>3
<1> QED
  BY <1>1, <1>2, <1>3, <1>4, <1>5, <1>7, <1>8, <1>9, LandsFlat

-----------------------------------------------------------------------------
(* Loads.                                                                  *)

LEMMA FlatSeen ==
    ASSUME NEW o
    PROVE  /\ o.kind \in {"load", "signed_load"} =>
                  Flattened!Seen(o) = Slice(cells(mem), Flattened!At(o), o.size)
           /\ o.kind = "load_left" =>
                  Flattened!Seen(o) =
                      Slice(cells(mem), Flattened!At(o), Flattened!Rest(o))
                          \o SubSeq(ToBytes(o.old, 4), Flattened!Rest(o) + 1, 4)
           /\ o.kind = "load_right" =>
                  Flattened!Seen(o) =
                      SubSeq(ToBytes(o.old, 4), 1, 4 - Flattened!Last(o))
                          \o Slice(cells(mem), Flattened!Start(o), Flattened!Last(o))
BY SameBytes DEF Flattened!Seen, cells

(* Eight bytes, of which n make s and the others are c.                    *)
LEMMA Prepended ==
    ASSUME NEW n \in 1 .. 8, NEW s, s \in [1 .. n -> Byte], Len(s) = n,
           NEW c \in {0, Base - 1}
    PROVE  Number([i \in 1 .. 8 - n |-> c] \o s)
               = IF c = 0 THEN Number(s) ELSE Number(s) + Power[8] - Power[n]
<1> DEFINE j == 8 - n
           z == [i \in 1 .. j |-> c]
           t == z \o s
<1>1. j \in 0 .. 8 /\ 8 - j = n /\ j \in Nat /\ n \in Nat
  OBVIOUS
<1>2. c \in Byte
  BY BaseAssumption DEF Byte
<1> HIDE DEF j
<1>3. z \in [1 .. j -> Byte] /\ s \in [1 .. 8 - j -> Byte]
  BY <1>1, <1>2
<1>4. \A i \in 1 .. j : z[i] = c
  OBVIOUS
<1> HIDE DEF z
<1>5. t = [i \in 1 .. 8 |-> IF i <= j THEN z[i] ELSE s[i - j]] /\ Len(t) = 8
  <2> DEFINE e == 8
  <2>1. e \in Nat /\ j \in 0 .. e /\ s \in [1 .. e - j -> Byte]
    BY <1>1, <1>3
  <2> HIDE DEF e
  <2>2. /\ z \o s = [i \in 1 .. e |-> IF i <= j THEN z[i] ELSE s[i - j]]
        /\ Len(z \o s) = e
    BY <1>3, <2>1, Joined
  <2> QED
    BY <2>2 DEF e
<1> HIDE DEF t
<1>6. \A i \in 1 .. j : t[i] = c
  BY <1>1, <1>4, <1>5
<1>7. ASSUME NEW i \in 1 .. n
      PROVE  t[j + i] = s[i]
  <2>1. j + i \in 1 .. 8 /\ ~(j + i <= j) /\ (j + i) - j = i
    BY <1>1
  <2> QED
    BY <1>5, <2>1
<1>8. Extends(t, s, n, c)
  BY <1>5, <1>6, <1>7 DEF j, Extends
<1>9. /\ c = 0 => Number(t) = Number(s)
      /\ c # 0 => Number(t) = Number(s) + Power[8] - Power[n]
  BY <1>8, Extension, Zenon
<1> QED
  BY <1>9 DEF t, z, j

(* A load extends the number it reads by zeros or by its sign.             *)
LEMMA FlatResult ==
    ASSUME NEW n \in 1 .. 8, NEW s, s \in [1 .. n -> Byte], Len(s) = n,
           NEW o, Flattened!Seen(o) = s
    PROVE  Flattened!Result(o)
               = IF o.kind # "load" THEN SignExtend(Number(s), n) ELSE Number(s)
<1> DEFINE c == IF o.kind # "load" /\ s[1] >= Base \div 2 THEN Base - 1 ELSE 0
           d == Number(s)
<1>1. Flattened!Result(o) = Number([i \in 1 .. 8 - n |-> c] \o s)
  BY SameBytes DEF Flattened!Result
<1>2. /\ c \in {0, Base - 1}
      /\ (c = 0 <=> ~(o.kind # "load" /\ s[1] >= Base \div 2))
  BY BaseAssumption
<1>3. s[1] >= Base \div 2 <=> ~(d < Power[n] \div 2)
  BY SignByte
<1> HIDE DEF c
<1>4. Number([i \in 1 .. 8 - n |-> c] \o s)
          = IF c = 0 THEN d ELSE d + Power[8] - Power[n]
  BY <1>2, Prepended
<1> HIDE DEF d
<1> QED
  BY <1>1, <1>2, <1>3, <1>4 DEF SignExtend, d

(* A load is a load of flat memory, if its result is what that gives.      *)
LEMMA LooksFlat ==
    ASSUME BusInv, NEW a \in Nat, NEW n \in Width, Accessible(a, n),
           mem' = Touch(mem, a),
           op'.kind \in {"load", "signed_load", "load_left", "load_right"},
           op'.size = n, Flattened!From(op') = a,
           Pointer(a)[1] \in Homes =>
               op'.data = Flattened!Result(op')
    PROVE  Flattened!Load(op')
<1>1. Shaped(mem) /\ n \in Nat \ {0}
  BY DEF BusInv, Width
<1>2. Flattened!Touched(op') = a .. a + n - 1
  BY DEF Flattened!Touched
<1>3. Flattened!Touched(op') \subseteq Flat => Pointer(a)[1] \in Homes
  <2>1. a \in a .. a + n - 1
    BY <1>1
  <2> QED
    BY <1>1, <1>2, <2>1, Found
<1>4. cells(mem)' = cells(mem)
  <2>1. cells(mem') = cells(mem)
    BY <1>1, TouchHomes, CellsSame
  <2> QED
    BY <2>1 DEF cells
<1> QED
  BY <1>3, <1>4 DEF Flattened!Load, cells

(* Aligned loads.                                                          *)
LEMMA LoadFlat ==
    ASSUME BusInv, NEW x \in Loads, Load(x[1], x[2], x[3])
    PROVE  Flattened!Load(op')
<1> DEFINE v == x[1]
           n == x[2]
           signed == x[3]
           a == translate_vaddr(v)
           d == load_memory(a, n)
           r == IF signed THEN SignExtend(d, n) ELSE d
           s == Slice(cells(mem), a, n)
<1>1. Unmapped(v) /\ n \in Width /\ signed \in BOOLEAN
  BY AccessAssumption
<1>2. /\ op' = [kind |-> IF signed THEN "signed_load" ELSE "load",
                addr |-> v, size |-> n, data |-> r]
      /\ Accessible(a, n) /\ mem' = Touch(mem, a)
  BY DEF Load, Record
<1>3. a = v % Segment /\ a \in Nat
  BY <1>1, Translated
<1>4. /\ op'.kind = IF signed THEN "signed_load" ELSE "load"
      /\ op'.size = n /\ op'.addr = v /\ op'.data = r
  BY <1>2
<1> HIDE DEF r, a, n, v, signed
<1>5. /\ op'.kind \in {"load", "signed_load"}
      /\ op'.kind \in {"load", "signed_load", "load_left", "load_right"}
      /\ (op'.kind # "load" <=> signed)
  BY <1>4
<1>6. Flattened!At(op') = a /\ Flattened!From(op') = a
  BY <1>3, <1>4, <1>5 DEF Flattened!From, Flattened!At
<1>7. ASSUME Pointer(a)[1] \in Homes
      PROVE  r = Flattened!Result(op')
  <2>1. Flattened!Seen(op') = s
    BY <1>4, <1>5, <1>6, FlatSeen DEF s
  <2>2. s \in [1 .. n -> Byte] /\ Len(s) = n /\ d = Number(s)
    BY <1>1, <1>2, <1>3, <1>7, ReadCells
  <2>3. n \in 1 .. 8
    BY <1>1 DEF Width
  <2> HIDE DEF s, d
  <2>4. Flattened!Result(op')
            = IF op'.kind # "load" THEN SignExtend(Number(s), n) ELSE Number(s)
    BY <2>1, <2>2, <2>3, FlatResult
  <2> QED
    BY <1>5, <2>2, <2>4 DEF r
<1> QED
  BY <1>1, <1>2, <1>3, <1>4, <1>5, <1>6, <1>7, LooksFlat, Zenon

(* The bytes of the register that an unaligned load keeps.                 *)
LEMMA RegisterWord ==
    ASSUME NEW rt \in Nat
    PROVE  LET b == ToBytes(rt, 4)
           IN  /\ b \in [1 .. 4 -> Byte] /\ Len(b) = 4
               /\ Lower(rt, 4) \in 0 .. Power[4] - 1 /\ Number(b) = Lower(rt, 4)
<1> DEFINE b == ToBytes(rt, 4)
           r == rt % Power[4]
<1>1. 4 \in Width /\ 4 \in 0 .. 8 /\ rt \in Int
  BY DEF Width
<1>2. b \in [1 .. 4 -> Byte]
  BY <1>1, BytesType
<1>3. Len(b) = 4
  BY DEF ToBytes
<1>4. r \in 0 .. Power[4] - 1
  BY <1>1, RegisterLow
<1>5. ToBytes(r, 4) = b
  BY <1>1, LowRegister
<1>6. r \in Nat /\ r < Power[4]
  BY <1>1, <1>4, Powers
<1> HIDE DEF r
<1>7. Number(ToBytes(r, 4)) = r
  BY <1>1, <1>6, NumberOfBytes
<1> QED
  BY <1>2, <1>3, <1>4, <1>5, <1>7 DEF Lower, r

LEMMA LowerTwice ==
    ASSUME NEW rt \in Nat, NEW k \in 0 .. 4
    PROVE  Lower(Lower(rt, 4), k) = Lower(rt, k)
<1> DEFINE p == Power[k]
           h == Power[4 - k]
           x == rt % (p * h)
           q == rt \div (p * h)
           y == x \div p
           z == x % p
<1>1. p \in Nat \ {0} /\ h \in Nat \ {0} /\ Power[4] = p * h
  <2>1. 4 \in 0 .. 8
    OBVIOUS
  <2> QED
    BY <2>1, SplitPower, Zenon
<1> HIDE DEF p, h
<1>2. p * h \in Nat \ {0}
  BY <1>1
<1>3. x \in Nat /\ q \in Nat /\ rt = (p * h) * q + x
  <2> DEFINE m == p * h
  <2>1. m \in Nat \ {0}
    BY <1>2
  <2> HIDE DEF m
  <2>2. rt \div m \in Nat /\ rt % m \in 0 .. m - 1 /\ rt = m * (rt \div m) + (rt % m)
    BY <2>1, QuotientRemainder
  <2>3. rt % m \in Nat
    BY <2>1, <2>2
  <2> QED
    BY <2>2, <2>3 DEF m
<1> HIDE DEF x, q
<1>4. y \in Nat /\ z \in 0 .. p - 1 /\ x = p * y + z
  BY <1>1, <1>3, QuotientRemainder
<1> HIDE DEF y, z
<1>5. h * q \in Nat /\ (p * h) * q = p * (h * q)
  BY <1>1, <1>3, Associates
<1> DEFINE g == h * q
<1> HIDE DEF g
<1>6. g + y \in Nat /\ p * (g + y) = p * g + p * y /\ p * g \in Int /\ p * y \in Int
  <2>1. p \in Int /\ g \in Int /\ y \in Int /\ g + y \in Nat
    BY <1>1, <1>4, <1>5 DEF g
  <2> QED
    BY <2>1, Distributes
<1>7. rt = p * (g + y) + z
  <2>1. rt = p * g + (p * y + z) /\ z \in Int
    BY <1>3, <1>4, <1>5 DEF g
  <2> QED
    BY <1>6, <2>1
<1>8. (p * (g + y) + z) % p = z
  BY <1>1, <1>4, <1>6, QuotientUnique
<1> QED
  BY <1>1, <1>7, <1>8 DEF Lower, x, z, p

(* LWR: the bytes up to the address at the end of the register.            *)
LEMMA LoadRightBytes ==
    ASSUME NEW off \in 0 .. 3, NEW s, s \in [1 .. 4 -> Byte], Len(s) = 4,
           NEW u, u \in [1 .. off + 1 -> Byte], \A i \in 1 .. off + 1 : u[i] = s[i],
           NEW rt \in Nat
    PROVE  LET d == Upper(Lower(rt, 4), 4, 3 - off) + (Number(s) \div Power[3 - off])
           IN  /\ SubSeq(ToBytes(rt, 4), 1, 3 - off) \o u = ToBytes(d, 4)
               /\ d \in 0 .. Power[4] - 1
<1> DEFINE w == Number(s)
           b == ToBytes(rt, 4)
           k == 3 - off
           t == SubSeq(b, 1, k)
           d == Upper(Lower(rt, 4), 4, k) + (w \div Power[k])
<1>1. /\ k \in 0 .. 3 /\ k \in 0 .. 4 - 1 /\ 4 \in 0 .. 8 /\ 4 \in 1 .. 8
      /\ 4 - k = off + 1 /\ k \in Nat
  OBVIOUS
<1>2. w \in Nat /\ w \in 0 .. Power[4] - 1 /\ ToBytes(w, 4) = s
  BY <1>1, WordOf
<1>3. /\ b \in [1 .. 4 -> Byte] /\ Len(b) = 4
      /\ Lower(rt, 4) \in 0 .. Power[4] - 1 /\ Number(b) = Lower(rt, 4)
  BY RegisterWord
<1>4. t \in [1 .. k -> Byte] /\ \A i \in 1 .. k : t[i] = b[i]
  <2>1. /\ 4 \in Nat /\ 1 \in 1 .. 4 + 1 /\ k \in 1 - 1 .. 4 /\ k - 1 + 1 = k
        /\ \A i \in 1 .. k : 1 + i - 1 = i
    BY <1>1
  <2>2. /\ t = [i \in 1 .. k - 1 + 1 |-> b[1 + i - 1]]
        /\ t \in [1 .. k - 1 + 1 -> Byte]
    BY <1>3, <2>1, Subsequence
  <2> HIDE DEF t, k, b
  <2> QED
    BY <2>1, <2>2
<1> HIDE DEF w, b, k, t
<1>5. t \o SubSeq(ToBytes(w, 4), 1, 4 - k)
          = ToBytes(Upper(Number(b), 4, k) + (w \div Power[k]), 4)
  <2> DEFINE e == 4
  <2>1. /\ e \in 1 .. 8 /\ k \in 0 .. e - 1 /\ b \in [1 .. e -> Byte] /\ Len(b) = e
        /\ t \in [1 .. k -> Byte] /\ \A i \in 1 .. k : t[i] = b[i]
        /\ w \in 0 .. Power[e] - 1
    BY <1>1, <1>2, <1>3, <1>4
  <2>2. UpperPart(e, k, b, t, w)
    BY <2>1 DEF UpperPart
  <2> HIDE DEF e
  <2>3. t \o SubSeq(ToBytes(w, e), 1, e - k)
            = ToBytes(Upper(Number(b), e, k) + (w \div Power[k]), e)
    BY <2>2, LeftBytes
  <2> QED
    BY <2>3 DEF e
<1>6. SubSeq(s, 1, 4 - k) = u
  <2>1. /\ 4 \in Nat /\ 1 \in 1 .. 4 + 1 /\ off + 1 \in 1 - 1 .. 4
        /\ (off + 1) - 1 + 1 = off + 1 /\ \A i \in 1 .. off + 1 : 1 + i - 1 = i
    OBVIOUS
  <2>2. SubSeq(s, 1, off + 1) = [i \in 1 .. (off + 1) - 1 + 1 |-> s[1 + i - 1]]
    BY <2>1, Subsequence
  <2>3. u = [i \in 1 .. off + 1 |-> u[i]]
    OBVIOUS
  <2> QED
    BY <1>1, <2>1, <2>2, <2>3
<1>7. d \in 0 .. Power[4] - 1
  <2>1. Upper(Lower(rt, 4), 4, k) + ((w % Power[4]) \div Power[k]) \in 0 .. Power[4] - 1
    <3>1. 4 \in {4, 8} /\ Lower(rt, 4) \in 0 .. Power[4] - 1 /\ w \in Nat /\ k \in 0 .. 4 - 1
      BY <1>1, <1>2, <1>3
    <3> QED
      BY <3>1, MergedNumber
  <2>2. w % Power[4] = w
    <3>1. Power[4] \in Nat \ {0}
      BY Powers
    <3>2. \A p \in Nat \ {0} : \A y \in 0 .. p - 1 : y % p = y
      OBVIOUS
    <3> QED
      BY <1>2, <3>1, <3>2
  <2> QED
    BY <2>1, <2>2
<1> QED
  BY <1>2, <1>3, <1>5, <1>6, <1>7 DEF w, b, k, t

(* LWL: the bytes from the address on at the start of the register.        *)
LEMMA LoadLeftBytes ==
    ASSUME NEW off \in 0 .. 3, NEW s, s \in [1 .. 4 -> Byte], Len(s) = 4,
           NEW u, u \in [1 .. 4 - off -> Byte],
           \A i \in 1 .. 4 - off : u[i] = s[off + i],
           NEW rt \in Nat
    PROVE  LET d == Lower(rt, off) + Lower(Number(s) * Power[off], 4)
           IN  /\ u \o SubSeq(ToBytes(rt, 4), (4 - off) + 1, 4) = ToBytes(d, 4)
               /\ d \in 0 .. Power[4] - 1
<1> DEFINE w == Number(s)
           b == ToBytes(rt, 4)
           k == 3 - off
           t == SubSeq(b, (4 - off) + 1, 4)
           d == Lower(rt, off) + Lower(w * Power[off], 4)
<1>1. /\ k \in 0 .. 4 - 1 /\ 4 \in 0 .. 8 /\ 4 \in 1 .. 8 /\ off \in 0 .. 4
      /\ 4 - (k + 1) = off /\ 4 - 1 - k = off /\ 4 - k = off + 1 /\ k + 1 = 4 - off
  OBVIOUS
<1>2. w \in Nat /\ ToBytes(w, 4) = s
  BY <1>1, WordOf
<1>3. /\ b \in [1 .. 4 -> Byte] /\ Len(b) = 4
      /\ Lower(rt, 4) \in 0 .. Power[4] - 1 /\ Number(b) = Lower(rt, 4)
  BY RegisterWord
<1>4. t \in [1 .. off -> Byte] /\ \A i \in 1 .. off : t[i] = b[(4 - off) + i]
  <2>1. /\ 4 \in Nat /\ (4 - off) + 1 \in 1 .. 4 + 1 /\ 4 \in ((4 - off) + 1) - 1 .. 4
        /\ 4 - ((4 - off) + 1) + 1 = off
        /\ \A i \in 1 .. off : ((4 - off) + 1) + i - 1 = (4 - off) + i
    OBVIOUS
  <2>2. /\ t = [i \in 1 .. 4 - ((4 - off) + 1) + 1 |-> b[((4 - off) + 1) + i - 1]]
        /\ t \in [1 .. 4 - ((4 - off) + 1) + 1 -> Byte]
    BY <1>3, <2>1, Subsequence
  <2> HIDE DEF t, b
  <2> QED
    BY <2>1, <2>2
<1> HIDE DEF w, b, k, t
<1>5. SubSeq(ToBytes(w, 4), 4 - k, 4) \o t
          = ToBytes(Lower(Number(b), 4 - 1 - k) + Lower(w * Power[4 - 1 - k], 4), 4)
  <2> DEFINE e == 4
  <2>1. /\ e \in 1 .. 8 /\ k \in 0 .. e - 1 /\ b \in [1 .. e -> Byte] /\ Len(b) = e
        /\ t \in [1 .. e - (k + 1) -> Byte]
        /\ \A i \in 1 .. e - (k + 1) : t[i] = b[(k + 1) + i]
        /\ w \in Nat
    BY <1>1, <1>2, <1>3, <1>4
  <2>2. LowerPart(e, k, b, t, w)
    BY <2>1 DEF LowerPart
  <2> HIDE DEF e
  <2>3. SubSeq(ToBytes(w, e), e - k, e) \o t
            = ToBytes(Lower(Number(b), e - 1 - k) + Lower(w * Power[e - 1 - k], e), e)
    BY <2>2, RightBytes
  <2> QED
    BY <2>3 DEF e
<1>6. SubSeq(s, off + 1, 4) = u
  <2>1. /\ 4 \in Nat /\ off + 1 \in 1 .. 4 + 1 /\ 4 \in (off + 1) - 1 .. 4
        /\ 4 - (off + 1) + 1 = 4 - off
        /\ \A i \in 1 .. 4 - off : (off + 1) + i - 1 = off + i
    OBVIOUS
  <2>2. SubSeq(s, off + 1, 4)
            = [i \in 1 .. 4 - (off + 1) + 1 |-> s[(off + 1) + i - 1]]
    BY <2>1, Subsequence
  <2>3. u = [i \in 1 .. 4 - off |-> u[i]]
    OBVIOUS
  <2> QED
    BY <2>1, <2>2, <2>3
<1>7. d \in 0 .. Power[4] - 1 /\ d = Lower(Number(b), off) + Lower(w * Power[off], 4)
  <2>1. Lower(Lower(rt, 4), 4 - 1 - k) + Lower(w * Power[4 - 1 - k], 4)
            \in 0 .. Power[4] - 1
    <3>1. 4 \in {4, 8} /\ Lower(rt, 4) \in 0 .. Power[4] - 1 /\ w \in Nat /\ k \in 0 .. 4 - 1
      BY <1>1, <1>2, <1>3
    <3> QED
      BY <3>1, MergedNumber
  <2>2. Lower(Lower(rt, 4), off) = Lower(rt, off)
    BY <1>1, LowerTwice
  <2> QED
    BY <1>1, <1>3, <2>1, <2>2
<1> QED
  BY <1>1, <1>2, <1>5, <1>6, <1>7 DEF w, b, t

(* The result of an unaligned load is the word d with its sign.            *)
LEMMA WordLoaded ==
    ASSUME NEW o, NEW s, NEW d, Flattened!Seen(o) = s, s = ToBytes(d, 4),
           d \in 0 .. Power[4] - 1, o.kind # "load"
    PROVE  Flattened!Result(o) = SignExtend(d, 4)
<1>1. 4 \in 0 .. 8 /\ 4 \in 1 .. 8 /\ Power[4] \in Nat
  BY Powers
<1>2. d \in Nat /\ d \in Int /\ d < Power[4]
  BY <1>1
<1>3. s \in [1 .. 4 -> Byte]
  BY <1>1, <1>2, BytesType
<1>4. Len(s) = 4
  BY DEF ToBytes
<1>5. Number(s) = d
  BY <1>1, <1>2, NumberOfBytes
<1> DEFINE e == 4
<1>6. e \in 1 .. 8 /\ s \in [1 .. e -> Byte] /\ Len(s) = e
  BY <1>1, <1>3, <1>4
<1> HIDE DEF e
<1>7. Flattened!Result(o)
          = IF o.kind # "load" THEN SignExtend(Number(s), e) ELSE Number(s)
  BY <1>6, FlatResult
<1> QED
  BY <1>5, <1>7 DEF e

LEMMA LoadLeftFlat ==
    ASSUME BusInv, NEW x \in Merges, x[3] = 4, LoadLeft(x[1], x[2], x[4])
    PROVE  Flattened!Load(op')
<1> DEFINE v == x[1] + x[2]
           rt == x[4]
           p == translate_vaddr(v)
           a == translate_vaddr(Aligned(x[1], x[2], 4))
           off == x[2] % 4
           W == load_memory(a, 4)
           d == Lower(rt, off) + Lower(W * Power[off], 4)
           s == Slice(cells(mem), a, 4)
           u == Slice(cells(mem), a + off, 4 - off)
<1>1. /\ rt \in Nat /\ a \in Nat /\ off \in 0 .. 3
      /\ p % 4 = off /\ v % 4 = off /\ a = p - off /\ a + off = p
  <2>1. 4 - 1 = 3
    OBVIOUS
  <2> QED
    BY <2>1, AlignedAddress
<1> HIDE DEF a, off, p
<1>2. p - (p % 4) = a
  BY <1>1
<1>3. /\ op' = [kind |-> "load_left", addr |-> v, size |-> 4,
                data |-> SignExtend(d, 4), old |-> rt]
      /\ Accessible(a, 4) /\ mem' = Touch(mem, a)
  BY <1>1, <1>2 DEF LoadLeft, Unaligned, p
<1> HIDE DEF v, rt, W, d
<1>4. /\ op'.kind = "load_left" /\ op'.size = 4 /\ op'.addr = v
      /\ op'.data = SignExtend(d, 4) /\ op'.old = rt
  BY <1>3
<1>5. /\ Flattened!At(op') = a + off /\ Flattened!From(op') = a
      /\ Flattened!Rest(op') = 4 - off
  BY <1>4, UnalignedPlace DEF a, off, v
<1>6. ASSUME Pointer(a)[1] \in Homes
      PROVE  op'.data = Flattened!Result(op')
  <2>1. 4 \in Width /\ off \in 0 .. 4
    BY <1>1 DEF Width
  <2>2. /\ s \in [1 .. 4 -> Byte] /\ Len(s) = 4 /\ W = Number(s)
        /\ u \in [1 .. 4 - off -> Byte] /\ \A i \in 1 .. 4 - off : u[i] = s[off + i]
    BY <1>1, <1>3, <1>6, <2>1, ReadParts DEF W
  <2> HIDE DEF s, u
  <2>3. /\ u \o SubSeq(ToBytes(rt, 4), (4 - off) + 1, 4) = ToBytes(d, 4)
        /\ d \in 0 .. Power[4] - 1
    BY <1>1, <2>2, LoadLeftBytes DEF d
  <2>4. Flattened!Seen(op') = u \o SubSeq(ToBytes(rt, 4), (4 - off) + 1, 4)
    BY <1>4, <1>5, FlatSeen DEF u
  <2>5. Flattened!Result(op') = SignExtend(d, 4)
    BY <1>4, <2>3, <2>4, WordLoaded
  <2> QED
    BY <1>4, <2>5
<1>7. op'.kind \in {"load", "signed_load", "load_left", "load_right"} /\ 4 \in Width
  BY <1>4 DEF Width
<1> QED
  BY <1>1, <1>3, <1>4, <1>5, <1>6, <1>7, LooksFlat

LEMMA LoadRightFlat ==
    ASSUME BusInv, NEW x \in Merges, x[3] = 4, LoadRight(x[1], x[2], x[4])
    PROVE  Flattened!Load(op')
<1> DEFINE v == x[1] + x[2]
           rt == x[4]
           p == translate_vaddr(v)
           a == translate_vaddr(Aligned(x[1], x[2], 4))
           off == x[2] % 4
           W == load_memory(a, 4)
           d == Upper(Lower(rt, 4), 4, 3 - off) + (W \div Power[3 - off])
           s == Slice(cells(mem), a, 4)
           u == Slice(cells(mem), a, off + 1)
<1>1. /\ rt \in Nat /\ a \in Nat /\ off \in 0 .. 3
      /\ p % 4 = off /\ v % 4 = off /\ a = p - off /\ a + off = p
  <2>1. 4 - 1 = 3
    OBVIOUS
  <2> QED
    BY <2>1, AlignedAddress
<1> HIDE DEF a, off, p
<1>2. p - (p % 4) = a
  BY <1>1
<1>3. /\ op' = [kind |-> "load_right", addr |-> v, size |-> 4,
                data |-> SignExtend(d, 4), old |-> rt]
      /\ Accessible(a, 4) /\ mem' = Touch(mem, a)
  BY <1>1, <1>2 DEF LoadRight, Unaligned, p
<1> HIDE DEF v, rt, W, d
<1>4. /\ op'.kind = "load_right" /\ op'.size = 4 /\ op'.addr = v
      /\ op'.data = SignExtend(d, 4) /\ op'.old = rt
  BY <1>3
<1>5. /\ Flattened!Start(op') = a /\ Flattened!From(op') = a
      /\ Flattened!Last(op') = off + 1
  BY <1>4, UnalignedPlace DEF a, off, v
<1>6. ASSUME Pointer(a)[1] \in Homes
      PROVE  op'.data = Flattened!Result(op')
  <2>1. 4 \in Width /\ off + 1 \in 0 .. 4 /\ 4 - (off + 1) = 3 - off
    BY <1>1 DEF Width
  <2>2. /\ s \in [1 .. 4 -> Byte] /\ Len(s) = 4 /\ W = Number(s)
        /\ u \in [1 .. off + 1 -> Byte] /\ \A i \in 1 .. off + 1 : u[i] = s[i]
    BY <1>1, <1>3, <1>6, <2>1, ReadParts DEF W
  <2> HIDE DEF s, u
  <2>3. /\ SubSeq(ToBytes(rt, 4), 1, 3 - off) \o u = ToBytes(d, 4)
        /\ d \in 0 .. Power[4] - 1
    BY <1>1, <2>2, LoadRightBytes DEF d
  <2>4. Flattened!Seen(op') = SubSeq(ToBytes(rt, 4), 1, 3 - off) \o u
    BY <1>4, <1>5, <2>1, FlatSeen DEF u
  <2>5. Flattened!Result(op') = SignExtend(d, 4)
    BY <1>4, <2>3, <2>4, WordLoaded
  <2> QED
    BY <1>4, <2>5
<1>7. op'.kind \in {"load", "signed_load", "load_left", "load_right"} /\ 4 \in Width
  BY <1>4 DEF Width
<1> QED
  BY <1>1, <1>3, <1>4, <1>5, <1>6, <1>7, LooksFlat

-----------------------------------------------------------------------------
(* Everything else.                                                        *)

LEMMA ResetHomes ==
    ASSUME NEW m, DOMAIN m = Regions, NEW r \in Homes
    PROVE  /\ \A k, v : set_interrupt(m, k, v)[r] = m[r]
           /\ BusReset(m)[r] = m[r] /\ RcpReset(BusReset(m))[r] = m[r]
<1>1. r \in Regions \ {"pif", "MI_INTERRUPT", "VI_V_INTR", "RI_MODE"}
  BY HomeNames
<1>2. DOMAIN BusReset(m) = Regions /\ BusReset(m)[r] = m[r]
  BY <1>1 DEF BusReset
<1> QED
  BY <1>1, <1>2 DEF set_interrupt, RcpReset

LEMMA CycleFlat ==
    ASSUME BusInv, Tick \/ HandleVi \/ Reset
    PROVE  Flattened!Elsewhere(op')
<1>1. op'.kind \in {"tick", "vi", "reset"}
  BY DEF Tick, HandleVi, Reset, Record
<1>2. DOMAIN mem = Regions
  BY DEF BusInv, Shaped
<1>3. \A r \in Homes : mem'[r] = mem[r]
  BY <1>2, ResetHomes DEF Tick, HandleVi, Reset
<1>4. cells(mem') = cells(mem)
  BY <1>3, CellsSame
<1> QED
  BY <1>1, <1>4 DEF Flattened!Elsewhere, cells

(* A file is no longer than the cartridge.                                 *)
LEMMA FileFlat ==
    ASSUME BusInv, NEW ipl \in Files \cup {Missing}, NEW rom \in Files \cup {Missing},
           LoadFile(ipl, rom)
    PROVE  Flattened!Insert(op')
<1> DEFINE opened == rom # Missing
           file == IF opened THEN rom ELSE << >>
           image == IF opened THEN Inserted(rom) ELSE mem["cart"]
           m == [mem EXCEPT !["ipl"] = IplAfter(ipl), !["cart"] = image]
           k == Len(file)
<1>1. /\ op' = [kind |-> "insert", file |-> file]
      /\ mem' = IF opened THEN BusReset(m) ELSE m
  BY DEF LoadFile
<1>2. DOMAIN mem = Regions /\ mem["cart"] \in [DOMAIN Blank["cart"] -> Byte]
  BY HomeNames DEF BusInv, Shaped
<1>3. "cart" \in Homes /\ "ipl" \notin Homes /\ Homes \subseteq Regions
  BY HomeNames
<1>4. /\ DOMAIN m = Regions /\ m["cart"] = image
      /\ \A r \in Homes \ {"cart"} : m[r] = mem[r]
  BY <1>2, <1>3
<1> HIDE DEF m
<1>5. \A r \in Homes : mem'[r] = m[r]
  BY <1>1, <1>4, ResetHomes
<1>6. image = Overlay(mem["cart"], 0, file)
  <2>1. CASE opened
    BY <2>1 DEF Inserted
  <2>2. CASE ~opened
    <3>1. DOMAIN file = {}
      BY <2>2
    <3> HIDE DEF file
    <3>2. Overlay(mem["cart"], 0, file) = [a \in DOMAIN mem["cart"] |-> mem["cart"][a]]
      BY <3>1 DEF Overlay
    <3> QED
      BY <1>2, <2>2, <3>2
  <2> QED
    BY <2>1, <2>2
<1> HIDE DEF image
<1>7. k \in Nat /\ DOMAIN file = 1 .. k /\ Inside("cart", 0, k)
  <2>1. DOMAIN Blank["cart"] = 0 .. Len(Cartridge) - 1 /\ Len(Cartridge) \in Nat
    BY <1>2, BlankShape, EmptyCartridge DEF Zeros
  <2>2. file \in Seq(Byte) /\ k \in 0 .. Len(Cartridge)
    <3>1. CASE opened
      <4>1. file = rom /\ rom \in Files
        BY <3>1
      <4> QED
        BY <4>1, FileAssumption
    <3>2. CASE ~opened
      BY <2>1, <3>2
    <3> QED
      BY <3>1, <3>2
  <2> HIDE DEF file
  <2> QED
    BY <2>1, <2>2 DEF Inside
<1>8. /\ mem'["cart"] = Overlay(mem["cart"], 0, file)
      /\ \A r \in Homes \ {"cart"} : mem'[r] = mem[r]
  BY <1>3, <1>4, <1>5, <1>6
<1>9. cells(mem') = Overlay(cells(mem), First("cart") + 0, file)
  <2>1. DOMAIN mem["cart"] = DOMAIN Blank["cart"] /\ 0 \in Int
    BY <1>2
  <2> HIDE DEF k, file
  <2> QED
    BY <1>3, <1>7, <1>8, <2>1, CellsPut
<1>10. First("cart") + 0 = First("cart")
  BY <1>3, FirstIs
<1>11. op'.kind = "insert" /\ op'.file = file
  BY <1>1
<1> QED
  BY <1>9, <1>10, <1>11, SameBytes DEF Flattened!Insert, cells

LEMMA InitFlat == Init => Flattened!Init
<1> SUFFICES ASSUME Init PROVE Flattened!Init
  OBVIOUS
<1>1. PICK ipl \in Files \cup {<<>>} :
          mem = RcpReset(BusReset([r \in DOMAIN Blank \cup {"ipl"} |->
                    IF r = "ipl" THEN Array(ipl) ELSE Blank[r]]))
  BY Zenon DEF Init
<1> DEFINE m == [r \in DOMAIN Blank \cup {"ipl"} |->
                    IF r = "ipl" THEN Array(ipl) ELSE Blank[r]]
<1>2. DOMAIN m = Regions /\ \A r \in DOMAIN Blank : m[r] = Blank[r]
  BY BlankShape DEF Regions
<1>3. mem = RcpReset(BusReset(m))
  BY <1>1
<1> HIDE DEF m
<1>4. \A r \in Homes : mem[r] = Blank[r]
  BY <1>2, <1>3, ResetHomes, HomeNames
<1>5. ASSUME NEW r \in Homes, NEW i \in DOMAIN Blank[r]
      PROVE  Blank[r][i] = 0
  <2>1. \A n : \A j \in DOMAIN Zeros(n) : Zeros(n)[j] = 0
    BY DEF Zeros
  <2>2. \E n : Blank[r] = Zeros(n)
    BY BlankShape, EmptyCartridge, HomeNames DEF Homes
  <2> QED
    BY <2>1, <2>2
<1>6. ASSUME NEW x \in Flat
      PROVE  mem[Home[x][1]][Home[x][2]] = 0
  <2>1. PICK r \in Homes : Home[x] = <<r, x - First(r)>> /\ x - First(r) \in DOMAIN Blank[r]
    BY EveryCell
  <2> QED
    BY <1>4, <1>5, <2>1
<1>7. op.kind = "none"
  BY DEF Init
<1> QED
  BY <1>6, <1>7 DEF Flattened!Init

(* Every step of the bus is a step of flat memory, or none.                *)
LEMMA StepsFlat ==
    BusInv /\ [UnalignedNext]_vars => [Flattened!Next]_<<cells(mem), op>>
<1> SUFFICES ASSUME BusInv, [UnalignedNext]_vars
             PROVE  Flattened!Next \/ UNCHANGED <<cells(mem), op>>
  OBVIOUS
<1>1. CASE UNCHANGED vars
  BY <1>1 DEF vars, cells
<1>2. CASE \E x \in Loads : Load(x[1], x[2], x[3])
  BY <1>2, LoadFlat DEF Flattened!Next, Flattened!Perform
<1>3. CASE \E x \in Stores : Store(x[1], x[2], x[3])
  BY <1>3, StoreFlat DEF Flattened!Next, Flattened!Perform
<1>4. CASE Tick \/ HandleVi \/ Reset
  BY <1>4, CycleFlat DEF Flattened!Next, Flattened!Perform
<1>5. CASE \E ipl, rom \in Files \cup {Missing} : LoadFile(ipl, rom)
  BY <1>5, FileFlat DEF Flattened!Next, Flattened!Perform
<1>6. CASE \E x \in Merges : \/ StoreLeft(x[1], x[2], x[3], x[4])
                             \/ StoreRight(x[1], x[2], x[3], x[4])
  BY <1>6, StoreLeftFlat, StoreRightFlat DEF Flattened!Next, Flattened!Perform
<1>7. CASE \E x \in Merges : \/ x[3] = 4 /\ LoadLeft(x[1], x[2], x[4])
                             \/ x[3] = 4 /\ LoadRight(x[1], x[2], x[4])
  BY <1>7, LoadLeftFlat, LoadRightFlat DEF Flattened!Next, Flattened!Perform
<1> QED
  BY <1>1, <1>2, <1>3, <1>4, <1>5, <1>6, <1>7, Zenon
  DEF UnalignedNext, Next, Horizon

(* Whatever the layout of the address space, the program and its files,    *)
(* RDRAM, cartridge, DMEM and the plain registers are one flat array of    *)
(* bytes: translate_vaddr, the page table and the slow path of             *)
(* redirect_paddress, loads and stores of every width and alignment, the   *)
(* DMA of invalidate_hwio, resets and load_file.                           *)
THEOREM MemoryIsFlat == UnalignedSpec => ImplementsFlatMemory
<1> QED
  BY InitFlat, BusInvInit, BusInvNext, StepsFlat, PTL
  DEF UnalignedSpec, ImplementsFlatMemory, Flattened!Spec, cells
=============================================================================
