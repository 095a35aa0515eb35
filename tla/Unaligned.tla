----------------------------- MODULE Unaligned ------------------------------
(***************************************************************************)
(* The unaligned loads and stores (LWL, LWR, SWL, SWR, SDL, SDR of         *)
(* n64_cpu.cxx) on top of the bus: which bytes of the register and of the  *)
(* memory they merge.  When the pipeline lets them read and write is the   *)
(* subject of module Pipeline.                                             *)
(***************************************************************************)
EXTENDS Bus

CONSTANT Merges     \* <<base, imm, size, register>> to try

(* The code aligns by the offset alone, so the base has to be aligned.     *)
ASSUME MergeAssumption ==
    /\ Merges \subseteq Nat \X Int \X {4, 8} \X Nat
    /\ \A x \in Merges : Unmapped(x[1] + x[2]) /\ x[1] % x[3] = 0

(* A word read, masked and shifted: its upper k bytes, or its lower k.     *)
Upper(d, n, k) == (d \div Power[n - k]) * Power[n - k]
Lower(d, k) == d % Power[k]

Unaligned(kind, base, imm, n, rt, result) ==
    /\ ops < MaxOps /\ ops' = ops + 1
    /\ op' = [kind |-> kind, addr |-> base + imm, size |-> n,
              data |-> result, old |-> rt]

(* The address is aligned by the offset alone.                             *)
Aligned(base, imm, n) == base + imm - (imm % n)

(* Shifted by a byte too few. *)
BadStoreLeft(base, imm, n, rt) ==
    LET v == Aligned(base, imm, n)
        a == translate_vaddr(v)
        off == imm % n
    IN  /\ Unaligned("left", base, imm, n, rt, rt % Power[n])
        /\ Accessible(a, n)
        /\ store_memory(a, Upper(load_memory(a, n), n, off)
                              + (rt % Power[n]) \div Power[off + 1], n)

(* SWL and SDL: the upper bytes of memory stay, the register shifts right. *)
StoreLeft(base, imm, n, rt) ==
    LET a == translate_vaddr(Aligned(base, imm, n))
        off == imm % n
    IN  /\ Unaligned("left", base, imm, n, rt, rt % Power[n])
        /\ Accessible(a, n)
        /\ store_memory(a, Upper(load_memory(a, n), n, off)
                              + ((rt % Power[n]) \div Power[off]), n)

(* SWR and SDR: the lower bytes stay, the register shifts left.            *)
StoreRight(base, imm, n, rt) ==
    LET a == translate_vaddr(Aligned(base, imm, n))
        off == imm % n
    IN  /\ Unaligned("right", base, imm, n, rt, rt % Power[n])
        /\ Accessible(a, n)
        /\ store_memory(a, Lower(load_memory(a, n), n - 1 - off)
                              + Lower(rt * Power[n - 1 - off], n), n)

(* LWL and LWR: the whole address is looked at, the result is a word.      *)
LoadLeft(base, imm, rt) ==
    LET a == translate_vaddr(base + imm)
        off == (base + imm) % 4
        d == Lower(rt, off) + Lower(load_memory(a - (a % 4), 4) * Power[off], 4)
    IN  /\ Accessible(a - (a % 4), 4)
        /\ Unaligned("load_left", base, imm, 4, rt, SignExtend(d, 4))
        /\ mem' = Touch(mem, a - (a % 4))
        /\ UNCHANGED stale /\ Quiet

LoadRight(base, imm, rt) ==
    LET a == translate_vaddr(base + imm)
        off == (base + imm) % 4
        d == Upper(Lower(rt, 4), 4, 3 - off)
                + (load_memory(a - (a % 4), 4) \div Power[3 - off])
    IN  /\ Accessible(a - (a % 4), 4)
        /\ Unaligned("load_right", base, imm, 4, rt, SignExtend(d, 4))
        /\ mem' = Touch(mem, a - (a % 4))
        /\ UNCHANGED stale /\ Quiet

UnalignedNext ==
    \/ Next
    \/ \E x \in Merges :
          \/ StoreLeft(x[1], x[2], x[3], x[4])
          \/ StoreRight(x[1], x[2], x[3], x[4])
          \/ x[3] = 4 /\ LoadLeft(x[1], x[2], x[4])
          \/ x[3] = 4 /\ LoadRight(x[1], x[2], x[4])

UnalignedSpec == Init /\ [][UnalignedNext]_vars
-----------------------------------------------------------------------------
(* The registers in which a store changes its bytes and nothing else.      *)
Plain == {"MI_MODE", "VI_CTRL", "VI_ORIGIN", "VI_WIDTH", "VI_V_SYNC",
          "PI_DRAM_ADDR", "PI_CART_ADDR", "PI_WR_LEN"}

(* The host objects that are memory to the program, and their addresses.   *)
Homes == Plain \cup {"rdram", "cart", "dmem"}
First(r) == CASE r = "rdram" -> 0
              [] r = "cart"  -> CartFirst * Page
              [] OTHER -> Address[r]
Area(r) == {First(r) + i : i \in DOMAIN Blank[r]}
Flat == UNION {Area(r) : r \in Homes}

(* n64_addresses.hxx and map_direct_addresses: they lie apart from each    *)
(* other and from everything else that answers.                            *)
ASSUME FlatAssumption ==
    /\ \A r, s \in Homes : Area(r) \cap Area(s) # {} => r = s
    /\ \A r \in Registers \ Plain : Address[r] \notin Flat
    /\ Address["ipl"] <= Address["pif"]
    /\ (Address["ipl"] .. Address["pif"] + PifSize - 1) \cap Flat = {}

(* Where the byte of an address has its home.                              *)
Home == [a \in Flat |->
    LET r == CHOOSE r \in Homes : a \in Area(r)
    IN  <<r, a - First(r)>>]

Flattened == INSTANCE FlatMemory WITH
    cell <- [a \in Flat |-> mem[Home[a][1]][Home[a][2]]],
    CartStart <- First("cart"), DramAddr <- Address["PI_DRAM_ADDR"],
    CartAddr <- Address["PI_CART_ADDR"], WrLen <- Address["PI_WR_LEN"]

(* RDRAM, cartridge, DMEM and plain registers are one flat array of bytes, *)
(* in both segments, across the pages of the page table and for loads and  *)
(* stores of every width and alignment; DMA moves what the program named;  *)
(* and no store to a register, reset or PIF command changes it otherwise.  *)
ImplementsFlatMemory == Flattened!Spec
=============================================================================
