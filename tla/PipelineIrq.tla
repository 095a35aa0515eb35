---------------------------- MODULE PipelineIrq -----------------------------
(***************************************************************************)
(* Interrupts in the pipeline: check_interrupts and handle_exception,      *)
(* which update_pipeline runs between two cycles when the scheduler has an *)
(* Interrupt event due.  When that happens, and that mi_interrupt_,        *)
(* mi_mask_ and the IM bits let it pass, is up to the environment here and *)
(* the subject of module Scheduler; this module is about what an interrupt *)
(* does to the instructions in flight.                                     *)
(*                                                                         *)
(* handle_exception redirects pc_ and touches no latch: the instructions   *)
(* in IC/RF and RF/EX still execute, in front of the handler.              *)
(***************************************************************************)
EXTENDS Pipeline

CONSTANTS
    Vector,             \* 0x80000180
    MaxIrq              \* bound: interrupts taken in one run

VARIABLES
    irqs,               \* interrupts taken so far
    clean               \* history: the vector is the next thing to fetch

irqVars == <<irqs, clean>>

ASSUME VectorAssumption == Vector \in Word /\ MaxIrq \in Nat

(* A word has room for the EXL bit.                                        *)
ASSUME StatusAssumption == W % 4 = 0

(* The other bits of CP0_STATUS that check_interrupts looks at.            *)
IE(status)  == status % 2 = 1
ERL(status) == (status \div 4) % 2 = 1
SetEXL(status) == IF EXL(status) THEN status ELSE status + 2

(* currently_handling_exception is masked with 0, so EXL holds nothing     *)
(* back.                                                                   *)
Serviceable == IE(cp0[StatusReg]) /\ ~ERL(cp0[StatusReg])

(* EPC is the instruction fetched last. *)
BadEpc == IF exdc.branch THEN Dec(Dec(pc)) ELSE Dec(pc)

(* EPC is two instructions back from pc_, one more behind a branch.        *)
Epc == IF exdc.branch THEN Dec(Dec(Dec(pc))) ELSE Dec(Dec(pc))

(* No instruction that is about to execute will write pc_.                 *)
NoControlInFlight ==
    /\ ~Throws
    /\ rfex.instr.op \notin ControlOps
    /\ icrf.instr.op \notin ControlOps

(* pc_ is redirected only where EPC is set. *)
BadVector ==
    /\ ~halted /\ stage = "WB" /\ fill = 4
    /\ irqs < MaxIrq
    /\ Serviceable
    /\ cp0' = [cp0 EXCEPT
                ![EpcReg] = IF EXL(cp0[StatusReg]) THEN @ ELSE Epc,
                ![StatusReg] = SetEXL(@)]
    /\ pc' = IF EXL(cp0[StatusReg]) THEN pc ELSE Vector
    /\ irqs' = irqs + 1
    /\ clean' = NoControlInFlight
    /\ UNCHANGED <<program, gpr, fpr, hilo, mem, latches, stage>>

TakeInterrupt ==
    /\ ~halted /\ stage = "WB" /\ fill = 4
    /\ irqs < MaxIrq
    /\ Serviceable
    /\ cp0' = [cp0 EXCEPT
                ![EpcReg] = IF EXL(cp0[StatusReg]) THEN @ ELSE Epc,
                ![StatusReg] = SetEXL(@)]
    /\ pc' = Vector
    /\ irqs' = irqs + 1
    /\ clean' = NoControlInFlight
    /\ UNCHANGED <<program, gpr, fpr, hilo, mem, latches, stage>>

IrqInit == Init /\ irqs = 0 /\ clean = FALSE

Cycle ==
    /\ Next
    /\ clean' = (clean /\ stage # "IC" /\ fill' = 4)
    /\ UNCHANGED irqs

IrqNext == Cycle \/ TakeInterrupt

IrqSpec == IrqInit /\ [][IrqNext]_<<vars, irqVars>>

-----------------------------------------------------------------------------
(* An interrupt that finds no branch in flight enters the handler: the     *)
(* next fetch is the vector, even through an interlock cycle.              *)
HandlerFetched == clean /\ stage = "IC" => pc = Vector

OldestPending == IF rfex.live THEN rfex.addr ELSE IF icrf.live THEN icrf.addr ELSE pc

(* Return loses nothing: delay slots apart, EPC is the oldest instruction  *)
(* that has not executed, or the one before it, behind an interlock cycle  *)
(* or a squashed slot.  (Those in the latches execute all the same, and    *)
(* once more after ERET.)  Only the first interrupt can be promised: an    *)
(* MTC0 to STATUS that was in the latches clears EXL behind it, and a      *)
(* second interrupt then takes EPC from a pc_ that the first has replaced. *)
NothingSkipped ==
    [][TakeInterrupt /\ irqs = 0 /\ ~EXL(cp0[StatusReg]) /\ ~exdc.branch =>
          OldestPending \in {cp0'[EpcReg], Inc(cp0'[EpcReg])}]_<<vars, irqVars>>

-----------------------------------------------------------------------------
(* Inductive invariants behind HandlerFetched and NothingSkipped.          *)

(* From the interrupt to the next fetch nothing comes that writes pc_.     *)
HandlerInv ==
    clean => /\ fill = 4
             /\ pc = Vector
             /\ stage \in {"WB", "DC", "EX"} => rfex.instr.op \notin ControlOps
             /\ stage # "IC" => icrf.instr.op \notin ControlOps

(* Before any interrupt the latches hold the last two fetches, unless a    *)
(* branch has just executed; RF and EX are only reached with a full IC/RF. *)
ReturnInv ==
    irqs = 0 =>
        /\ stage \in {"WB", "DC", "EX"} =>
              /\ icrf.live /\ icrf.addr = Dec(pc)
              /\ rfex.live /\ ~exdc.branch => rfex.addr = Dec(Dec(pc))
        /\ stage = "RF" /\ icrf.live /\ ~exdc.branch => icrf.addr = Dec(pc)
        /\ stage = "IC" /\ rfex.live /\ ~exdc.branch => rfex.addr = Dec(pc)

-----------------------------------------------------------------------------
(* What a comment of the code promises.                                    *)

(* "currently executing branch delay slot": with was_branch set, EPC is    *)
(* the branch in front of the slot that is about to execute.               *)
EpcIsBranch ==
    [][TakeInterrupt /\ ~EXL(cp0[StatusReg]) /\ exdc.branch /\ rfex.live =>
          cp0'[EpcReg] = Dec(rfex.addr)]_<<vars, irqVars>>

=============================================================================
