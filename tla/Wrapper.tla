------------------------------ MODULE Wrapper -------------------------------
(***************************************************************************)
(* The thread that runs the emulation (src/n64_tkpwrapper.cxx) beside the  *)
(* thread of the front end.  They share the atomics Stopped, Paused and    *)
(* Step and the plain integers cur_instr_ and should_draw_.                *)
(*                                                                         *)
(* Every access of start() to shared state is an action, `pc' says which   *)
(* one is next.  cur_instr_ is no atomic: ++ is a read and a write, and    *)
(* what the front end stores in between is lost.  What one cycle of the    *)
(* machine does is the subject of the other modules; here it returns or    *)
(* throws.                                                                 *)
(*                                                                         *)
(* The front end is not part of the repository.  It may call what the      *)
(* wrapper gives it, in any order and at any time.                         *)
(***************************************************************************)
EXTENDS Naturals

CONSTANTS
    Batch,          \* INSTRS_PER_SECOND: updates between two looks at Stopped
    MaxCalls,       \* bound on the calls of the front end
    MaxStarts       \* bound on the threads started one after the other

ASSUME BatchAssumption ==
    Batch \in Nat \ {0} /\ MaxCalls \in Nat /\ MaxStarts \in Nat

VARIABLES
    pc,                     \* control point of the emulation thread
    stopped, paused, step,  \* Stopped, Paused, Step
    cur, tmp,               \* cur_instr_ and the register of its increment
    draw,                   \* should_draw_
    starts, calls,          \* bounds
    \* history, which no guard of the code reads:
    ran,                    \* updates of this batch
    after,                  \* updates begun while Stopped was set
    closes,                 \* calls of v_extra_close
    requests, singles,      \* steps asked for and steps made
    thrown, dead            \* a batch has thrown; updates since

flags   == <<stopped, paused, step>>
bounds  == <<starts, calls>>
history == <<ran, after, closes, requests, singles, thrown, dead>>
vars    == <<pc, stopped, paused, step, cur, tmp, draw, starts, calls,
             ran, after, closes, requests, singles, thrown, dead>>

Running   == {"zero", "test", "update", "read", "write"}
Starting  == {"unpause", "unstop", "unstep", "reset", "first"}
Control   == Running \cup Starting \cup {"none", "stop?", "pause?", "draw",
                "wait", "take", "single", "ended", "killed"}

Goto(from, to) == pc = from /\ pc' = to

-----------------------------------------------------------------------------
(* Stopped is false when the object is made; it may be set before start.   *)
Init ==
    /\ pc = "none"
    /\ stopped = FALSE /\ paused = FALSE /\ step = FALSE
    /\ cur = 0 /\ tmp = 0 /\ draw = FALSE
    /\ starts = 0 /\ calls = 0
    /\ ran = 0 /\ after = 0 /\ closes = 0 /\ requests = 0 /\ singles = 0
    /\ thrown = FALSE /\ dead = 0

(* A new thread enters start(), once the one before has returned and left  *)
(* ThreadStartedMutex.                                                     *)
Start ==
    /\ pc \in {"none", "ended"}
    /\ starts < MaxStarts /\ starts' = starts + 1
    /\ pc' = "unpause"
    /\ UNCHANGED <<flags, cur, tmp, draw, calls, history>>

ClearPaused ==
    /\ Goto("unpause", "unstop")
    /\ paused' = FALSE
    /\ UNCHANGED <<stopped, step, cur, tmp, draw, bounds, history>>

ClearStopped ==
    /\ Goto("unstop", "unstep")
    /\ stopped' = FALSE
    /\ after' = 0 /\ closes' = 0 /\ thrown' = FALSE /\ dead' = 0
    /\ UNCHANGED <<paused, step, cur, tmp, draw, bounds, ran, requests,
                   singles>>

(* The stop flag is cleared last. *)
BadClearStep ==
    /\ Goto("unstep", "reset")
    /\ step' = FALSE /\ stopped' = FALSE
    /\ UNCHANGED <<paused, cur, tmp, draw, bounds, history>>

ClearStep ==
    /\ Goto("unstep", "reset")
    /\ step' = FALSE
    /\ UNCHANGED <<stopped, paused, cur, tmp, draw, bounds, history>>

(* reset() catches everything.                                             *)
ResetMachine ==
    /\ Goto("reset", "first")
    /\ \/ UNCHANGED <<stopped, cur>>
       \/ stopped' = TRUE /\ cur' = Batch - 1
    /\ UNCHANGED <<paused, step, tmp, draw, bounds, history>>

FirstPaused ==
    /\ pc = "first" /\ pc' = IF paused THEN "wait" ELSE "zero"
    /\ UNCHANGED <<flags, cur, tmp, draw, bounds, history>>

-----------------------------------------------------------------------------
(* for (cur_instr_ = 0; cur_instr_ < INSTRS_PER_SECOND; cur_instr_++)      *)

Zero ==
    /\ Goto("zero", "test")
    /\ cur' = 0
    /\ ran' = 0
    /\ UNCHANGED <<flags, tmp, draw, bounds, after, closes, requests,
                   singles, thrown, dead>>

Test ==
    /\ pc = "test" /\ pc' = IF cur < Batch THEN "update" ELSE "stop?"
    /\ UNCHANGED <<flags, cur, tmp, draw, bounds, history>>

(* One call of update() at `from', with what its catch does.               *)
Cycle(from, to) ==
    /\ Goto(from, to)
    /\ after' = IF stopped THEN after + 1 ELSE after

Quiet == UNCHANGED <<stopped, cur, thrown>>
(* The catch forgets the loop counter. *)
BadCatch == stopped' = TRUE /\ thrown' = (thrown \/ pc = "update") /\ UNCHANGED cur
Catch == /\ stopped' = TRUE
         /\ cur' = Batch - 1
         /\ thrown' = (thrown \/ pc = "update")

Update ==
    /\ Cycle("update", "read")
    /\ ran' = ran + 1
    /\ dead' = IF thrown THEN dead + 1 ELSE dead
    /\ Quiet \/ Catch
    /\ UNCHANGED <<paused, step, tmp, draw, bounds, closes, requests, singles>>

(* s_TGE throws an int, which `catch (std::exception&)' lets through: the  *)
(* exception leaves the thread's function and ends the program.            *)
TrapEscapes ==
    /\ pc \in {"update", "single"} /\ pc' = "killed"
    /\ UNCHANGED <<flags, cur, tmp, draw, bounds, history>>

Read ==
    /\ Goto("read", "write")
    /\ tmp' = cur
    /\ UNCHANGED <<flags, cur, draw, bounds, history>>

Write ==
    /\ Goto("write", "test")
    /\ cur' = tmp + 1
    /\ UNCHANGED <<flags, tmp, draw, bounds, history>>

(* Paused is looked at first. *)
BadCheckStopped ==
    /\ pc = "stop?"
    /\ pc' = IF paused THEN "wait" ELSE IF stopped THEN "ended" ELSE "draw"
    /\ UNCHANGED <<flags, cur, tmp, draw, bounds, history>>

CheckStopped ==
    /\ pc = "stop?" /\ pc' = IF stopped THEN "ended" ELSE "pause?"
    /\ UNCHANGED <<flags, cur, tmp, draw, bounds, history>>

(* Only the first pause is looked at. *)
BadCheckPaused ==
    /\ Goto("pause?", "draw")
    /\ UNCHANGED <<flags, cur, tmp, draw, bounds, history>>

CheckPaused ==
    /\ pc = "pause?" /\ pc' = IF paused THEN "wait" ELSE "draw"
    /\ UNCHANGED <<flags, cur, tmp, draw, bounds, history>>

ShouldDraw ==
    /\ Goto("draw", "zero")
    /\ draw' = TRUE
    /\ UNCHANGED <<flags, cur, tmp, bounds, history>>

-----------------------------------------------------------------------------
(* paused: Step.wait(false); Step.store(false); update(); goto begin       *)

Wait ==
    /\ Goto("wait", "take") /\ step
    /\ UNCHANGED <<flags, cur, tmp, draw, bounds, history>>

(* The request is not taken back. *)
BadTake ==
    /\ Goto("take", "single")
    /\ singles' = singles + 1
    /\ UNCHANGED <<flags, cur, tmp, draw, bounds, ran, after, closes,
                   requests, thrown, dead>>

Take ==
    /\ Goto("take", "single")
    /\ step' = FALSE
    /\ singles' = singles + 1
    /\ UNCHANGED <<stopped, paused, cur, tmp, draw, bounds, ran, after,
                   closes, requests, thrown, dead>>

Single ==
    /\ Cycle("single", "zero")
    /\ Quiet \/ Catch
    /\ UNCHANGED <<paused, step, tmp, draw, bounds, ran, closes, requests,
                   singles, dead>>

Emulate == \/ ClearPaused \/ ClearStopped \/ ClearStep \/ ResetMachine
           \/ FirstPaused \/ Zero \/ Test \/ Update \/ TrapEscapes \/ Read
           \/ Write \/ CheckStopped \/ CheckPaused \/ ShouldDraw
           \/ Wait \/ Take \/ Single

-----------------------------------------------------------------------------
(* The front end.                                                          *)

Call ==
    /\ pc # "killed"
    /\ calls < MaxCalls /\ calls' = calls + 1
    /\ UNCHANGED <<pc, tmp, starts, ran, after, singles, thrown, dead>>

RequestStop ==
    /\ Call /\ stopped' = TRUE
    /\ UNCHANGED <<paused, step, cur, draw, closes, requests>>

(* The bound of the loop itself. *)
BadExtraClose ==
    /\ Call /\ cur' = Batch /\ closes' = closes + 1
    /\ UNCHANGED <<flags, draw, requests>>

(* v_extra_close: the last instruction of the batch, at once.              *)
ExtraClose ==
    /\ Call /\ cur' = Batch - 1 /\ closes' = closes + 1
    /\ UNCHANGED <<flags, draw, requests>>

SetPaused ==
    /\ Call /\ paused' \in BOOLEAN
    /\ UNCHANGED <<stopped, step, cur, draw, closes, requests>>

RequestStep ==
    /\ Call /\ step' = TRUE /\ requests' = requests + 1
    /\ UNCHANGED <<stopped, paused, cur, draw, closes>>

(* IsReadyToDraw gives the front end the flag itself to read and clear.    *)
Draw ==
    /\ pc # "killed"
    /\ draw /\ draw' = FALSE
    /\ UNCHANGED <<pc, flags, cur, tmp, bounds, history>>

FrontEnd == RequestStop \/ ExtraClose \/ SetPaused \/ RequestStep \/ Draw

(* Nothing is left to do: no thread runs or will be started.               *)
Terminated ==
    /\ pc \in {"ended", "killed", "wait"}
    /\ UNCHANGED vars

Next == Start \/ Emulate \/ FrontEnd \/ Terminated

Spec == Init /\ [][Next]_vars
(* The system schedules the emulation thread; nobody has to press a button. *)
FairSpec == Spec /\ WF_vars(Emulate)
-----------------------------------------------------------------------------
(* Every variable keeps its shape, and the loop counter its range.         *)
TypeOK ==
    /\ pc \in Control
    /\ stopped \in BOOLEAN /\ paused \in BOOLEAN /\ step \in BOOLEAN
    /\ cur \in 0 .. Batch /\ tmp \in 0 .. Batch
    /\ draw \in BOOLEAN /\ thrown \in BOOLEAN
    /\ starts \in Nat /\ calls \in Nat
    /\ ran \in Nat /\ after \in Nat /\ closes \in Nat
    /\ requests \in Nat /\ singles \in Nat /\ dead \in Nat

(* A stop is obeyed within the batch that runs when it is set, or the next *)
(* one after a pause: `Stopped' is looked at once a batch, v_extra_close   *)
(* shortens the batch, and when its store meets the increment it may also  *)
(* lengthen it, by one update a call.                                      *)
ClosesInABatch == after <= Batch + 1 + closes

(* "cur_instr_ = INSTRS_PER_SECOND - 1" in the catch of update: the        *)
(* machine that has thrown in a batch is not run again, but once for each  *)
(* store of v_extra_close that takes the counter back from the end.        *)
ThrowEndsBatch == dead <= closes

(* Each single step was asked for: one request never makes two steps, also *)
(* when requests and resets of Step cross.                                 *)
StepsAskedFor == singles <= requests

(* A stop that is set after start() has cleared the flag ends the thread,  *)
(* whatever the front end does with the counter and the pause, unless the  *)
(* thread waits for a step that nobody requests.                           *)
CloseObeyed ==
    stopped /\ pc \notin {"none", "unpause", "unstop"} ~>
        pc \in {"ended", "killed"} \/ (pc = "wait" /\ ~step)

(* A pause that stays set is reached, also when start() has cleared an     *)
(* earlier one and when single steps run whole batches in between.         *)
PauseObeyed ==
    <>[]paused => []<>(pc \in {"none", "wait", "ended", "killed"})
-----------------------------------------------------------------------------
(* Inductive invariants behind the bounds.                                 *)

(* The counter lags behind the updates of the batch by at most one for     *)
(* each store that has taken it back from the end.                         *)
LoopInv ==
    /\ pc \in {"test", "update"} => ran <= cur + closes
    /\ pc = "read"  => ran <= cur + 1 + closes
    /\ pc = "write" => ran <= tmp + 1 + closes /\ tmp < Batch
    /\ pc \in {"update", "read"} => cur < Batch
    /\ pc = "stop?" => ran <= Batch + closes

(* Updates under a stop: none before it, at most one in a single step and  *)
(* those of one batch.                                                     *)
AfterInv ==
    /\ ~stopped => after = 0
    /\ pc \in {"unstep", "reset", "first", "pause?", "draw", "wait", "take",
              "single"} => after = 0
    /\ pc = "zero" => after <= 1
    /\ pc \in {"test", "update", "read", "write", "stop?"} => after <= ran + 1

(* After a throw in a batch only the end of the loop and of the thread are *)
(* left, and each update on the way there was paid for by a close.         *)
ThrowInv ==
    /\ ~thrown => dead = 0
    /\ thrown =>
          /\ stopped
          /\ pc \in {"test", "update", "read", "write", "stop?", "ended",
                    "killed", "unpause", "unstop"}
          /\ pc = "read" => cur = Batch - 1
          /\ pc = "write" => tmp = Batch - 1
          /\ pc = "test" => cur = Batch \/ dead < closes
          /\ pc = "test" => cur >= Batch - 1
          /\ pc = "update" => cur = Batch - 1 /\ dead < closes

StepInv == step \/ pc = "take" => singles < requests

WrapperInv ==
    /\ TypeOK /\ LoopInv /\ AfterInv /\ ThrowInv /\ StepInv
    /\ ClosesInABatch /\ ThrowEndsBatch /\ StepsAskedFor
=============================================================================
