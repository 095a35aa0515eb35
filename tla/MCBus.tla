-------------------------------- MODULE MCBus -------------------------------
(* Two pages of four bytes of RDRAM, two of cartridge, bytes of one bit:   *)
(* the addresses 0 to 15, which a word can hold, are memory.  Registers,   *)
(* DMEM, IPL and PIF RAM lie above, in segments of 128 bytes.              *)
EXTENDS Unaligned

MCAddress ==
    [MI_MODE |-> 32, MI_INTERRUPT |-> 36, MI_MASK |-> 40, VI_CTRL |-> 44,
     VI_ORIGIN |-> 48, VI_WIDTH |-> 52, VI_V_INTR |-> 56, VI_V_CURRENT |-> 60,
     VI_V_SYNC |-> 64, PI_DRAM_ADDR |-> 68, PI_CART_ADDR |-> 72,
     PI_WR_LEN |-> 76, PI_STATUS |-> 80, RI_MODE |-> 84,
     dmem |-> 88, ipl |-> 96, pif |-> 104]

MCSeed == {0, 1}
MCChecksum == {2, 3}
MCCartridge == <<0, 0, 0, 0, 0, 0, 0, 0>>
MCFiles == {<<1, 0, 1, 1, 0, 1, 1, 0>>, <<0, 1, 1>>, << >>}
MCInterrupts == {0, 1}

K0(a) == (4 * Segment) + a
K1(a) == (5 * Segment) + a
Reg(r) == K1(Address[r])

MCLoads ==
    {<<K0(3), 2, TRUE>>, <<K1(2), 4, FALSE>>, <<K0(8), 8, FALSE>>,
     <<K1(11), 1, TRUE>>, <<Reg("PI_DRAM_ADDR"), 4, FALSE>>,
     <<Reg("VI_V_CURRENT"), 4, FALSE>>, <<K1(104), 4, FALSE>>}
MCStores ==
    {<<K0(1), 4, 11>>, <<K1(7), 1, 1>>, <<K0(0), 8, 178>>, <<K0(88), 2, 3>>,
     <<Reg("PI_DRAM_ADDR"), 4, 5>>, <<Reg("PI_CART_ADDR"), 4, 9>>,
     <<Reg("PI_WR_LEN"), 4, 4>>, <<Reg("PI_WR_LEN"), 4, 1>>,
     <<Reg("PI_WR_LEN"), 4, 0>>,
     <<Reg("PI_STATUS"), 4, 3>>, <<Reg("MI_MODE"), 2, 1>>,
     <<Reg("MI_MASK"), 4, 10>>, <<Reg("MI_MASK"), 4, 6>>,
     <<Reg("MI_MASK"), 4, 0>>, <<Reg("MI_INTERRUPT"), 4, 0>>,
     <<Reg("VI_CTRL"), 4, 2>>, <<Reg("VI_CTRL"), 4, 1>>,
     <<Reg("VI_ORIGIN"), 4, 5>>, <<Reg("VI_ORIGIN"), 1, 1>>,
     <<Reg("VI_WIDTH"), 4, 3>>, <<Reg("VI_WIDTH"), 2, 1>>,
     <<Reg("VI_V_INTR"), 4, 9>>, <<Reg("VI_V_CURRENT"), 4, 1>>,
     <<Reg("VI_V_SYNC"), 4, 5>>, <<K1(108), 4, 2>>, <<K1(108), 4, 4>>,
     <<K1(105), 1, 0>>}
MCMerges ==
    {<<K0(0), 1, 4, 11>>, <<K1(4), 3, 4, 2>>, <<K0(8), -2, 4, 13>>,
     <<K0(0), 5, 8, 178>>, <<K1(8), -7, 8, 89>>}
=============================================================================
