---------------------------- MODULE MCScheduler ----------------------------
(* Instances of Scheduler for TLC: a frame of 11 cycles, 3 half lines of 3 *)
(* cycles each and 2 left over, or 2 of 5 and 1 left over; bytes of 2 bits *)
(* and a line number of 3.                                                 *)
EXTENDS Scheduler

(* Stores to VI_V_INTR as <<bytes, value>>.                                *)
WordStores == {<<4, 0>>, <<4, 1>>, <<4, 10>>}
ByteStores == {<<1, 1>>, <<1, 2>>}
MixedStores == {<<1, 2>>, <<2, 9>>, <<4, 1>>}

(* Stores to MI_MASK.                                                      *)
SetVi == [set |-> {"VI"}, clear |-> {}]
SetAi == [set |-> {"AI"}, clear |-> {}]
ClearVi == [set |-> {}, clear |-> {"VI"}]
ViMask == {SetVi}
AnyMask == {SetVi, SetAi, ClearVi}

(* Stores to MI_INTERRUPT, as the interrupts they leave pending.           *)
Nothing == {{}}
DropOrRaise == {{}, {"VI"}}

Enabled == [ie |-> TRUE, exl |-> FALSE, erl |-> FALSE, im2 |-> TRUE]
Error == [Enabled EXCEPT !.erl = TRUE]
Enable == {Enabled}
EnableOrError == {Enabled, Error}

SomeCompares == {0, 3, 64, -128}
None == {}
=============================================================================
