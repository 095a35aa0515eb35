-------------------------------- MODULE Bus ---------------------------------
(***************************************************************************)
(* The CPU bus (n64_cpubus.cxx), the registers behind it and the accesses  *)
(* of the CPU: address translation, page table, slow path, the effects of  *)
(* stores to registers (invalidate_hwio), PI DMA, and loading of files.    *)
(*                                                                         *)
(* `mem' holds the bytes of every host object that redirect_paddress can   *)
(* return a pointer into.  A register is a host integer, whose bytes lie   *)
(* in memory with the least significant one first, while loads and stores  *)
(* go through the same bytes with the most significant one first.          *)
(*                                                                         *)
(* Sizes and addresses are scaled by the constants.  Registers that no     *)
(* code looks at behave alike; MI_MODE stands for them.  IMEM and the RDP  *)
(* memory are mapped as DMEM is.                                           *)
(***************************************************************************)
EXTENDS Bytes, FiniteSets, SequencesExt

CONSTANTS
    Segment,                        \* 2^29, the size of KSEG0 and KSEG1
    Page, RamPages,                 \* RDRAM takes the first pages
    CartFirst, CartPages,           \* the cartridge pages 0x100 to 0x1FB
    Address,                        \* n64_addresses.hxx, and the slow areas
    DmemSize, PifSize,
    Seed, Checksum,                 \* bytes 0x26, 0x27 and 0x32 .. 0x37
    SeedByte, ChecksumBit, ClearBit, Answer,    \* 0x3F, 0x20, 0x40, 0x80
    VI, AI, Interrupts,             \* bits of MI_INTERRUPT and MI_MASK
    LineMask, OriginMask,           \* 0x3FF + 1, 0xFFFFFF + 1
    Frame, DefaultLines, DefaultWidth,  \* 93750000 / 60, 262, 320
    Files, Missing,                 \* contents of ROM and IPL files, or none
    Cartridge,                      \* zeros of the size of cart_rom_
    Loads, Stores,                  \* <<address, size, ...>> to try
    MaxOps                          \* bound on the steps

Registers == {"MI_MODE", "MI_INTERRUPT", "MI_MASK", "VI_CTRL", "VI_ORIGIN",
    "VI_WIDTH", "VI_V_INTR", "VI_V_CURRENT", "VI_V_SYNC", "PI_DRAM_ADDR",
    "PI_CART_ADDR", "PI_WR_LEN", "PI_STATUS", "RI_MODE"}

Width == {1, 2, 4, 8}

ASSUME BusAssumption ==
    /\ {Page, LineMask, OriginMask, Frame} \subseteq Nat \ {0}
    /\ {RamPages, CartFirst, CartPages, DmemSize, PifSize} \subseteq Nat
    /\ RamPages <= CartFirst /\ PifSize >= 4
    /\ Registers \cup {"ipl", "dmem", "pif"} = DOMAIN Address
    /\ \A r \in DOMAIN Address : Address[r] \in Nat
    /\ SeedByte \in Byte /\ {Answer, DefaultLines, DefaultWidth} \subseteq Nat
    /\ {VI, AI} \subseteq Interrupts /\ Interrupts \subseteq 0 .. 5

ASSUME FileAssumption ==
    /\ Files \subseteq Seq(Byte) /\ Cartridge \in Seq({0})
    /\ \A f \in Files : Len(f) <= Len(Cartridge)
    /\ Missing \notin Files

(* A virtual address in KSEG0 or KSEG1.                                    *)
Unmapped(v) == v \in 4 * Segment .. (6 * Segment) - 1

ASSUME AccessAssumption ==
    /\ Segment \in Nat \ {0} /\ Segment % 8 = 0
    /\ Loads \subseteq Nat \X Width \X BOOLEAN
    /\ Stores \subseteq Nat \X Width \X Nat
    /\ \A x \in Loads : Unmapped(x[1])
    /\ \A x \in Stores : Unmapped(x[1])
    /\ MaxOps \in Nat

VARIABLES
    mem,            \* region -> its bytes
    mi_mask,        \* mi_mask_, a set of interrupts
    rcp,            \* num_halflines_, framebuffer_ptr_, width_, bitdepth_
    time,           \* time_ modulo a frame
    loaded,         \* rom_loaded_, ipl_loaded_, and Loaded of the front end
    op,             \* the last access, which no guard of the code reads
    stale,          \* registers whose last store the host has not followed
    ops             \* bound

vars == <<mem, mi_mask, rcp, time, loaded, op, stale, ops>>

Null == <<"null", 0>>
Array(s) == [i \in 0 .. Len(s) - 1 |-> s[i + 1]]
Zeros(n) == [i \in 0 .. n - 1 |-> 0]

(* The host's value of a register, and a register set by the host.         *)
Host(m, r) == Number(Reverse(Slice(m[r], 0, 4)))
HostBytes(v) == Array(Reverse(ToBytes(v, 4)))
Bit[k \in 0 .. 11] == IF k = 0 THEN 1 ELSE 2 * Bit[k - 1]
SetBit(n, k, value) == n + ((value - ((n \div Bit[k]) % 2)) * Bit[k])
Bits(n) == {k \in 0 .. 11 : (n \div Bit[k]) % 2 = 1}
FromBits(S) ==
    LET b(k) == IF k \in S THEN Bit[k] ELSE 0
    IN  b(0) + b(1) + b(2) + b(3) + b(4) + b(5)

-----------------------------------------------------------------------------
(* The virtual address without KSEG0_START, and without 0x20000000 if bit  *)
(* 29 says KSEG1.  kuseg is broken, as the code says, and is not used.     *)
translate_vaddr(v) == v - (4 * Segment) - (((v \div Segment) % 2) * Segment)

PageTable(p) ==
    IF p < RamPages THEN <<"rdram", Page * p>>
    ELSE IF p \in CartFirst .. CartFirst + CartPages - 1
    THEN <<"cart", Page * (p - CartFirst)>>
    ELSE Null

(* A register answers at its first byte only.                              *)
redirect_paddress_slow(a) ==
    IF \E r \in Registers : Address[r] = a
    THEN <<CHOOSE r \in Registers : Address[r] = a, 0>>
    ELSE IF a >= Address["ipl"] /\ a < Address["pif"]
    THEN <<"ipl", a - Address["ipl"]>>
    ELSE IF a - Address["pif"] \in 0 .. PifSize - 1
    THEN <<"pif", a - Address["pif"]>>
    ELSE IF a - Address["dmem"] \in 0 .. DmemSize - 1
    THEN <<"dmem", a - Address["dmem"]>>
    ELSE Null

(* n64_addresses.hxx: every register has a place of its own, none of them  *)
(* in a page of RDRAM or of the cartridge, and room for all interrupts.    *)
ASSUME LayoutAssumption ==
    /\ \A r, s \in Registers : Address[r] = Address[s] => r = s
    /\ \A r \in Registers : PageTable(Address[r] \div Page) = Null
    /\ \A r \in Registers : Address[r] # Address["pif"] + PifSize - 4
    /\ FromBits(Interrupts) < Power[4]

(* The offset is taken from the start of the page's area each time. *)
BadPointer(a) ==
    LET entry == PageTable(a \div Page)
    IN  IF entry = Null THEN redirect_paddress_slow(a)
        ELSE <<entry[1], a % Page>>

Pointer(a) ==
    LET entry == PageTable(a \div Page)
    IN  IF entry = Null THEN redirect_paddress_slow(a)
        ELSE <<entry[1], entry[2] + (a % Page)>>

(* What redirect_paddress does on the way: any access to the PIF RAM sets  *)
(* two of its bytes, and VI_V_CURRENT is computed when it is looked at.    *)
Touch(m, a) ==
    LET r == Pointer(a)[1]
        time_per == Frame \div rcp.num_halflines
    IN  IF r = "pif"
        THEN [m EXCEPT ![r] = [i \in DOMAIN @ |->
                 IF i \in Seed THEN SeedByte ELSE @[i]]]
        ELSE IF r = "VI_V_CURRENT"
        THEN [m EXCEPT ![r] = HostBytes(time \div time_per)]
        ELSE m

(* Bytes i to i + n - 1 of a region.  Past the end of a host object lies   *)
(* another one, and a frame of no half lines or of more than cycles makes  *)
(* the host divide by zero: neither is tried.                              *)
Within(m, ptr, n) == {ptr[2], ptr[2] + n - 1} \subseteq DOMAIN m[ptr[1]]
Accessible(a, n) ==
    /\ Pointer(a) # Null /\ Within(mem, Pointer(a), n)
    /\ Pointer(a)[1] = "VI_V_CURRENT" => rcp.num_halflines \in 1 .. Frame

load_memory(a, n) ==
    LET ptr == Pointer(a)
    IN  Number(Slice(Touch(mem, a)[ptr[1]], ptr[2], n))

(* The second half of store_memory, behind invalidate_hwio.                *)
Write(m, a, d, n) ==
    LET ptr == Pointer(a)
    IN  [Touch(m, a) EXCEPT ![ptr[1]] = Overlay(@, ptr[2], ToBytes(d, n))]

-----------------------------------------------------------------------------
(* invalidate_hwio: what a store of d, not zero, does besides writing.     *)

Rcp(new) == rcp' = new /\ UNCHANGED <<mi_mask, time, loaded>>
Quiet == UNCHANGED <<mi_mask, rcp, time, loaded>>

StorePiStatus(a, d, n) ==
    /\ a = Address["PI_STATUS"]
    /\ mem' = Write([mem EXCEPT !["PI_STATUS"] = Zeros(4)], a, 0, n)
    /\ Quiet

(* memcpy of d + 1 bytes from what PI_CART_ADDR redirects to, into RDRAM.  *)
(* Both registers are swapped to the order the program wrote them in.      *)
Source(m) == Pointer(Number(Slice(m["PI_CART_ADDR"], 0, 4)))
Target(m) == Number(Slice(m["PI_DRAM_ADDR"], 0, 4))
Copyable(d) ==
    LET src == Source(mem)  dst == <<"rdram", Target(mem)>>
    IN  /\ src # Null /\ Within(mem, src, d + 1) /\ Within(mem, dst, d + 1)
        /\ src[1] # "VI_V_CURRENT"
        /\ src[1] = "rdram" => d < src[2] - dst[2] \/ d < dst[2] - src[2]

(* One byte too few. *)
BadDma(m, d) ==
    [m EXCEPT !["rdram"] =
        Overlay(@, Target(m), Slice(m[Source(m)[1]], Source(m)[2], d))]

Dma(m, d) ==
    [m EXCEPT !["rdram"] =
        Overlay(@, Target(m), Slice(m[Source(m)[1]], Source(m)[2], d + 1))]

StorePiWrLen(a, d, n) ==
    /\ a = Address["PI_WR_LEN"]
    /\ Copyable(d)
    /\ mem' = Write(Dma(Touch(mem, Number(Slice(mem["PI_CART_ADDR"], 0, 4))),
                        d), a, d, n)
    /\ Quiet

StoreViCtrl(a, d, n) ==
    /\ a = Address["VI_CTRL"]
    /\ mem' = Write(mem, a, d, n)
    /\ Rcp([rcp EXCEPT !.bitdepth = CASE d % 4 = 2 -> "5551"
                                       [] d % 4 = 3 -> "byte"
                                       [] OTHER -> @])

StoreViOrigin(a, d, n) ==
    /\ a = Address["VI_ORIGIN"]
    /\ Accessible(d % OriginMask, 1)
    /\ mem' = Write(Touch(mem, d % OriginMask), a, d, n)
    /\ Rcp([rcp EXCEPT !.framebuffer = Pointer(d % OriginMask)])

StoreViWidth(a, d, n) ==
    /\ a = Address["VI_WIDTH"]
    /\ mem' = Write(mem, a, d, n)
    /\ Rcp([rcp EXCEPT !.width = d])

Acknowledged(m) ==
    [m EXCEPT !["MI_INTERRUPT"] =
        HostBytes(SetBit(Host(m, "MI_INTERRUPT"), VI, 0))]

StoreViCurrent(a, d, n) ==
    /\ a = Address["VI_V_CURRENT"]
    /\ mem' = Write(Acknowledged(mem), a, d, n)
    /\ Quiet

(* vi_v_intr_ becomes the host's value, of which the store then overwrites *)
(* the first n bytes.  The event is the subject of module Scheduler.       *)
StoreViIntr(a, d, n) ==
    /\ a = Address["VI_V_INTR"]
    /\ mem' = Write([mem EXCEPT !["VI_V_INTR"] = HostBytes(d)],
                    a, d % LineMask, n)
    /\ Quiet

(* The half lines are taken for the lines. *)
BadStoreViSync(a, d, n) ==
    /\ a = Address["VI_V_SYNC"]
    /\ mem' = Write(mem, a, d, n)
    /\ Rcp([rcp EXCEPT !.num_halflines = d])

StoreViSync(a, d, n) ==
    /\ a = Address["VI_V_SYNC"]
    /\ mem' = Write(mem, a, d, n)
    /\ Rcp([rcp EXCEPT !.num_halflines = d \div 2])

(* First the bits that set, then those that clear; the program reads the   *)
(* mask back from placeholder_.                                            *)
StoreMiMask(a, d, n) ==
    /\ a = Address["MI_MASK"]
    /\ mi_mask' = (mi_mask \cup {i \in Interrupts : 2 * i + 1 \in Bits(d)})
                    \ {i \in Interrupts : 2 * i \in Bits(d)}
    /\ mem' = Write(mem, a, FromBits(mi_mask'), n)
    /\ UNCHANGED <<rcp, time, loaded>>

StorePifCommand(a, d, n) ==
    /\ a = Address["pif"] + PifSize - 4
    /\ LET summed == ChecksumBit \in Bits(d)
           answer == IF summed THEN Answer ELSE d
           clear  == ClearBit \in Bits(answer)
           wiped  == IF clear THEN 0 .. PifSize - 1
                     ELSE IF summed THEN Checksum ELSE {}
       IN  mem' = Write([mem EXCEPT !["pif"] = [i \in DOMAIN @ |->
                            IF i \in wiped THEN 0 ELSE @[i]]],
                        a, IF clear THEN 0 ELSE answer, n)
    /\ Quiet

Handled == {Address[r] : r \in {"PI_STATUS", "PI_WR_LEN", "VI_CTRL",
               "VI_ORIGIN", "VI_WIDTH", "VI_V_CURRENT", "VI_V_INTR",
               "VI_V_SYNC", "MI_MASK"}} \cup {Address["pif"] + PifSize - 4}

(* No register is looked at for a zero.                                    *)
StorePlain(a, d, n) ==
    /\ d = 0 \/ a \notin Handled
    /\ mem' = Write(mem, a, d, n)
    /\ Quiet

Invalidate(a, d, n) ==
    \/ StorePiStatus(a, d, n) \/ StorePiWrLen(a, d, n)
    \/ StoreViCtrl(a, d, n) \/ StoreViOrigin(a, d, n)
    \/ StoreViWidth(a, d, n) \/ StoreViCurrent(a, d, n)
    \/ StoreViIntr(a, d, n) \/ StoreViSync(a, d, n)
    \/ StoreMiMask(a, d, n) \/ StorePifCommand(a, d, n)

(* History: which registers of the host follow their last store.           *)
Mirrored == {"VI_CTRL", "VI_ORIGIN", "VI_WIDTH", "VI_V_SYNC", "MI_MASK"}
Follow(a, d, n) ==
    LET r == Pointer(a)[1]
    IN  stale' = IF r \notin Mirrored THEN stale
                 ELSE IF d = 0 \/ n < 4 \/ (r = "VI_CTRL" /\ d % 4 < 2)
                 THEN stale \cup {r}
                 ELSE stale \ {r}

store_memory(a, d, n) ==
    /\ Accessible(a, n)
    /\ StorePlain(a, d, n) \/ (d # 0 /\ Invalidate(a, d, n))
    /\ Follow(a, d, n)

-----------------------------------------------------------------------------
Record(kind, v, n, d) ==
    /\ ops < MaxOps /\ ops' = ops + 1
    /\ op' = [kind |-> kind, addr |-> v, size |-> n, data |-> d]

SignExtend(d, n) == IF d < Power[n] \div 2 THEN d ELSE d + Power[8] - Power[n]

(* LB .. LW with the sign, LBU .. LWU and LD without.                      *)
Load(v, n, sign_extend) ==
    LET a == translate_vaddr(v)
        d == load_memory(a, n)
    IN  /\ Accessible(a, n)
        /\ Record(IF sign_extend THEN "signed_load" ELSE "load", v, n,
                  IF sign_extend THEN SignExtend(d, n) ELSE d)
        /\ mem' = Touch(mem, a)
        /\ UNCHANGED stale /\ Quiet

(* SB .. SD: the low n bytes of the register.                              *)
Store(v, n, rt) ==
    /\ Record("store", v, n, rt % Power[n])
    /\ store_memory(translate_vaddr(v), rt % Power[n], n)

set_interrupt(m, bit, value) ==
    [m EXCEPT !["MI_INTERRUPT"] =
        HostBytes(SetBit(Host(m, "MI_INTERRUPT"), bit, value))]

(* A cycle passes; N64::Update raises AI in each.                          *)
Tick ==
    /\ Record("tick", 0, 0, 0)
    /\ time' = (time + 1) % Frame
    /\ mem' = set_interrupt(mem, AI, 1)
    /\ UNCHANGED <<mi_mask, rcp, loaded, stale>>

HandleVi ==
    /\ Record("vi", 0, 0, 0)
    /\ mem' = set_interrupt(mem, VI, 1)
    /\ UNCHANGED stale /\ Quiet

(* CPUBus::Reset.  The constants of the RDRAM interface are written the    *)
(* way the program is to read them.                                        *)
BusReset(m) ==
    [m EXCEPT !["pif"] = Zeros(PifSize), !["RI_MODE"] = HostBytes(Power[3])]
RcpReset(m) == [m EXCEPT !["VI_V_INTR"] = HostBytes(LineMask - 1)]

Reset ==
    /\ Record("reset", 0, 0, 0)
    /\ mem' = RcpReset(BusReset(mem))
    /\ time' = 0
    /\ rcp' = [rcp EXCEPT !.num_halflines = DefaultLines, !.bitdepth = "byte"]
    /\ stale' = stale \cup {"VI_V_SYNC", "VI_CTRL"}
    /\ UNCHANGED <<mi_mask, loaded>>

-----------------------------------------------------------------------------
(* The boot code is shared by all instances and read from a file once.     *)
IplAfter(file) ==
    IF file # Missing /\ DOMAIN mem["ipl"] = {} THEN Array(file) ELSE mem["ipl"]


IplLoaded(file) ==
    IF file = Missing THEN loaded.ipl ELSE DOMAIN IplAfter(file) # {}

(* The image becomes as long as the file. *)
BadInserted(rom) == Array(rom)

(* A shorter file leaves the end of the one before.                        *)
Inserted(rom) == Overlay(mem["cart"], 0, rom)

(* load_file: LoadIPL, then LoadCartridge, which resets the bus.  A file   *)
(* that cannot be opened (Missing) loads nothing; without the IPL the      *)
(* cartridge is still inserted.  load_file throws at an IPL path that does *)
(* not exist, before it has changed anything: no step.                     *)
LoadFile(ipl, rom) ==
    LET opened == rom # Missing
        m == [mem EXCEPT !["ipl"] = IplAfter(ipl),
                         !["cart"] = IF opened THEN Inserted(rom) ELSE @]
    IN  /\ ops < MaxOps /\ ops' = ops + 1
        /\ op' = [kind |-> "insert", file |-> IF opened THEN rom ELSE << >>]
        /\ mem' = IF opened THEN BusReset(m) ELSE m
        /\ time' = IF opened THEN 0 ELSE time
        /\ loaded' = [rom |-> loaded.rom \/ opened,
                      ipl |-> IplLoaded(ipl),
                      all |-> opened /\ ipl # Missing]
        /\ UNCHANGED <<mi_mask, rcp, stale>>

-----------------------------------------------------------------------------
(* The constructor of N64 resets; another instance may have read the IPL.  *)
Blank ==
    [r \in Registers \cup {"rdram", "cart", "dmem", "pif"} |->
        CASE r = "rdram" -> Zeros(RamPages * Page)
          [] r = "cart"  -> Array(Cartridge)
          [] r = "dmem"  -> Zeros(DmemSize)
          [] r = "pif"   -> Zeros(PifSize)
          [] OTHER -> Zeros(4)]

Init ==
    /\ \E ipl \in Files \cup {<<>>} :
          mem = RcpReset(BusReset([r \in DOMAIN Blank \cup {"ipl"} |->
                    IF r = "ipl" THEN Array(ipl) ELSE Blank[r]]))
    /\ mi_mask = {}
    /\ rcp = [num_halflines |-> DefaultLines, framebuffer |-> Null,
              width |-> DefaultWidth, bitdepth |-> "byte"]
    /\ time = 0
    /\ loaded = [rom |-> FALSE, ipl |-> FALSE, all |-> FALSE]
    /\ op = [kind |-> "none", addr |-> 0, size |-> 0, data |-> 0]
    /\ stale = Mirrored \ {"MI_MASK"}
    /\ ops = 0

(* The bound on steps, not a step of the code: nothing follows it.         *)
Horizon == ops = MaxOps /\ UNCHANGED vars

Next ==
    \/ Horizon
    \/ \E x \in Loads : Load(x[1], x[2], x[3])
    \/ \E x \in Stores : Store(x[1], x[2], x[3])
    \/ Tick \/ HandleVi \/ Reset
    \/ \E ipl, rom \in Files \cup {Missing} : LoadFile(ipl, rom)

Spec == Init /\ [][Next]_vars
-----------------------------------------------------------------------------
(* Every host object keeps its length and holds bytes.                     *)
TypeOK ==
    /\ DOMAIN mem = DOMAIN Blank \cup {"ipl"}
    /\ \A r \in DOMAIN Blank : mem[r] \in [DOMAIN Blank[r] -> Byte]
    /\ \A i \in DOMAIN mem["ipl"] : mem["ipl"][i] \in Byte
    /\ mi_mask \subseteq Interrupts /\ time \in 0 .. Frame - 1
    /\ rcp \in [num_halflines: Nat, width: Nat, bitdepth: {"byte", "5551"},
                framebuffer: {Null} \cup ((DOMAIN mem) \X Nat)]
    /\ stale \subseteq Mirrored /\ ops \in 0 .. MaxOps

(* What the host works with is what the program reads in the register it   *)
(* stored it into: picture, half lines and interrupt mask, through stores  *)
(* of every width, resets and reloads.  It fails only behind stores that   *)
(* invalidate_hwio does not see as they are, of zeros or of a few bytes,   *)
(* and, for the half lines and the depth, behind a reset.                  *)
HostFollowsRegisters ==
    LET shown(r) == Number(Slice(mem[r], 0, 4))
        followed == Mirrored \ stale
    IN  /\ "VI_WIDTH" \in followed => rcp.width = shown("VI_WIDTH")
        /\ "VI_V_SYNC" \in followed =>
               rcp.num_halflines = shown("VI_V_SYNC") \div 2
        /\ "VI_ORIGIN" \in followed =>
               rcp.framebuffer = Pointer(shown("VI_ORIGIN") % OriginMask)
        /\ "VI_CTRL" \in followed =>
               shown("VI_CTRL") % 4 = IF rcp.bitdepth = "byte" THEN 3 ELSE 2
        /\ "MI_MASK" \in followed => Bits(shown("MI_MASK")) = mi_mask


(* "calculate current based on time" (n64_cpubus.cxx:102): a load of       *)
(* VI_V_CURRENT gives the half line of the time.                           *)
CurrentIsLine ==
    op.kind = "load" /\ op.addr % Segment = Address["VI_V_CURRENT"] =>
        op.data = time \div (Frame \div rcp.num_halflines)
=============================================================================
