---------------------------- MODULE PipelineISA -----------------------------
(***************************************************************************)
(* The pipeline implements the sequential machine: the refinement mapping  *)
(* and the properties that state it.                                       *)
(*                                                                         *)
(* The mapping completes what is in flight.  An instruction counts as done *)
(* once EX ran it; a load still in the EX/DC latch and a store still in    *)
(* the EX/DC or DC/WB latch are applied to the registers and the memory.   *)
(* The abstract pc is the oldest instruction that EX has not seen.         *)
(***************************************************************************)
EXTENDS Pipeline, Sequences

(* Stores that EX has issued and WB has yet to perform, oldest first.      *)
AbsMem ==
    LET older == IF dcwb.write = "MMU" /\ stage # "DC"
                 THEN [mem EXCEPT ![dcwb.loc] = Merge(dcwb.f, @, dcwb.data)]
                 ELSE mem
    IN  IF exdc.write = "MMU" /\ stage # "EX"
        THEN [older EXCEPT ![exdc.loc] = Merge(exdc.f, @, exdc.data)]
        ELSE older

AbsGpr ==
    LET loaded == IF exdc.write = "LATEREGISTER" /\ stage # "EX"
                  THEN [gpr EXCEPT ![exdc.dest] =
                           IF exdc.sext THEN SignExtend(exdc.f, AbsMem[exdc.loc])
                                        ELSE Narrow(exdc.f, AbsMem[exdc.loc])]
                  ELSE gpr
    IN  [loaded EXCEPT ![0] = 0]

(* Addresses fetched and not yet executed, then those to be fetched.       *)
Pending ==
    LET inRFEX == IF stage # "RF" /\ rfex.live THEN <<rfex.addr>> ELSE <<>>
        inICRF == IF stage # "IC" /\ icrf.live THEN <<icrf.addr>> ELSE <<>>
    IN  inRFEX \o inICRF \o <<pc, Inc(pc)>>

AbsPc  == Pending[1]
AbsNpc == Pending[2]

ISA == INSTANCE MipsISA WITH pc <- AbsPc, npc <- AbsNpc,
                             gpr <- AbsGpr, mem <- AbsMem

(* Every run of the pipeline is a run of the sequential machine: loads and *)
(* stores take effect in program order, no instruction is lost, repeated   *)
(* or run with a stale operand, and the delay slots and the interlock do   *)
(* not show.                                                               *)
ImplementsISA == ISA!Spec

(* An instruction that touches the memory in EX while the store in front   *)
(* of it, to the same word, is still on its way to WB.                     *)
Overtakes ==
    /\ stage = "EX"
    /\ I.op \in ExMemOps
    /\ dcwb.write = "MMU" /\ dcwb.loc = Addr

(* LWL, LWR, SWL, SWR, SDL, SDR, LDC1 and SDC1 keep program order too,     *)
(* except right behind a store to the same word.                           *)
ImplementsISAUnlessOvertaking ==
    [][ISA!Next \/ Overtakes]_(ISA!vars)

-----------------------------------------------------------------------------
(* What the mapping needs to know of the latches.  From IC until EX has    *)
(* run, IC/RF holds the instruction in front of pc, and while fill_pipeline *)
(* runs the later latches are still empty.  ~sext and r0 are what the load *)
(* and MTC0, which read them in EX, rely on.                               *)
MapInv ==
    /\ stage \in {"WB", "DC", "EX"} => icrf.live /\ pc = Inc(icrf.addr)
    /\ exdc.sext => LoadPending
    /\ rfex.live => \/ stage = "RF"
                    \/ gpr[0] = 0
                    \/ stage = "EX" /\ 0 \notin {rfex.instr.rs, rfex.instr.rt}
    /\ fill = 0 => ~rfex.live
    /\ fill <= 1 => exdc.write = "NONE"
    /\ fill <= 2 \/ (fill = 3 /\ stage = "DC") => dcwb.write = "NONE"

=============================================================================
