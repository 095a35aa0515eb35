----------------------------- MODULE Scheduler -----------------------------
(***************************************************************************)
(* The event queue of the CPU (scheduler_, n64_cpuscheduler.cxx) and what  *)
(* feeds it: writes to the VI and MI registers (invalidate_hwio), writes   *)
(* to CP0_COMPARE, and CPU::Reset.  One cycle is N64::Update: raise the AI *)
(* bit, handle every due event, then WB and EX of the pipeline, then       *)
(* ++time_.  What the other stages do is module Pipeline; the program is   *)
(* here whatever register writes it may make in WB and in EX, the first    *)
(* two instructions after a reset included, which fill_pipeline executes   *)
(* before the first cycle.                                                 *)
(*                                                                         *)
(* Events carry two history fields that no guard reads: `want' is the VI   *)
(* line or the COMPARE value the event stands for, `current' turns FALSE   *)
(* when the program rewrites the registers that its time was computed from.*)
(* `owed' is a history variable: an enabled VI interrupt not yet taken.    *)
(***************************************************************************)
EXTENDS Integers, FiniteSets

CONSTANTS
    Frame,          \* cycles in a video frame, 93'750'000 / 60
    HalfLines,      \* values of num_halflines_, 262 after a reset
    ResetLines,     \* 262
    LineMod,        \* VI_V_INTR keeps 10 bits: 1024
    Byte,           \* values of a byte: 256
    IntRange,       \* 2^32: `int time' of queue_event
    TimeRange,      \* 2^64
    ViStores,       \* <<bytes, value>> stores to VI_V_INTR
    MaskStores,     \* [set, clear] stores to MI_MASK
    PendingStores,  \* interrupts that a store to MI_INTERRUPT leaves
    Statuses,       \* values the program writes to CP0_STATUS
    Compares,       \* values the program writes to CP0_COMPARE
    MaxTime,        \* bound on time_
    MaxWrites,      \* bound on the register writes of the program
    MaxResets       \* bound on resets

Bits == {"SP", "SI", "AI", "VI", "PI", "DP"}
Status == [ie: BOOLEAN, exl: BOOLEAN, erl: BOOLEAN, im2: BOOLEAN]
ClearStatus == [ie |-> FALSE, exl |-> FALSE, erl |-> FALSE, im2 |-> FALSE]

ASSUME FrameAssumption ==
    /\ Frame \in Nat \ {0}
    /\ HalfLines \subseteq Nat \ {0}
    /\ ResetLines \in HalfLines
    /\ \A n \in HalfLines : n * n <= Frame

ASSUME WidthAssumption ==
    /\ Byte \in Nat \ {0, 1}
    /\ LineMod \in Nat \ {0, 1}
    /\ (Byte * Byte) % LineMod = 0
    /\ IntRange \in Nat /\ 2 * (Frame * LineMod) < IntRange
    /\ TimeRange \in Nat /\ MaxTime \in Nat /\ MaxTime < TimeRange

VARIABLES
    time, scheduler, viIntr, halflines, miInterrupt, miMask, ip2, status,
    compare,
    phase,      \* "idle", or where in Update the emulation thread is
    pushes,     \* events pushed so far, so that equal events stay two
    owed, writes, resets

rcp  == <<viIntr, halflines>>
cp0  == <<ip2, status, compare>>
bounds == <<writes, resets>>
vars == <<time, scheduler, viIntr, halflines, miInterrupt, miMask, ip2,
          status, compare, phase, pushes, owed, writes, resets>>

-----------------------------------------------------------------------------
(* Time on the screen.  The division rounds down, so the lines of a frame  *)
(* may end before the frame does.                                          *)
TimePer == Frame \div halflines
(* Bad...: mistakes the definition after it could have had, see Pipeline.  *)
BadCurLine == time \div TimePer
CurLine == (time % Frame) \div TimePer
BadLinesLeft(line) ==
    IF line >= CurLine THEN line - CurLine ELSE halflines - CurLine + line
LinesLeft(line) ==
    IF line > CurLine THEN line - CurLine ELSE halflines - CurLine + line

(* The low 10 bits of a VI_V_INTR value name a line, or no line at all.    *)
Line(v) == v % LineMod
Arms(v) == v # 0 /\ Line(v) \notin {0, LineMod - 1}

(* store_memory writes the low bytes of the value back to front over the   *)
(* host variable, which the handler above has already assigned.            *)
Size(bytes) == CASE bytes = 1 -> Byte
                 [] bytes = 2 -> Byte * Byte
                 [] bytes = 4 -> Byte * Byte * Byte * Byte
Swap(bytes, v) ==
    LET b(k) == (v \div k) % Byte
    IN  CASE bytes = 1 -> b(1)
          [] bytes = 2 -> b(1) * Byte + b(Byte)
          [] bytes = 4 -> ((b(1) * Byte + b(Byte)) * Byte + b(Byte * Byte))
                                * Byte + b(Byte * Byte * Byte)
StoreBytes(old, bytes, v) == (old - (old % Size(bytes))) + Swap(bytes, v)

ASSUME InputAssumption ==
    /\ ViStores \subseteq {1, 2, 4} \X Nat
    /\ \A s \in ViStores : s[2] < Size(s[1])
    /\ MaskStores \subseteq [set: SUBSET Bits, clear: SUBSET Bits]
    /\ PendingStores \subseteq SUBSET Bits
    /\ Statuses \subseteq Status
    /\ Compares \subseteq Int
    /\ MaxWrites \in Nat /\ MaxResets \in Nat

(* Conversion of a 64-bit value to int.                                    *)
ToInt(x) == ((x + IntRange \div 2) % IntRange) - IntRange \div 2

-----------------------------------------------------------------------------
(* The priority queue.                                                     *)

Event == [type: {"Interrupt", "Count", "Vi"}, at: Nat, id: Nat,
          want: Int, current: BOOLEAN]

ViEvent(line, id) ==
    [type |-> "Vi", at |-> time + TimePer * LinesLeft(line), id |-> id,
     want |-> line, current |-> TRUE]
BadInterruptEvent(id) ==
    [type |-> "Interrupt", at |-> time + 1, id |-> id, want |-> 0,
     current |-> TRUE]
InterruptEvent(id) ==
    [type |-> "Interrupt", at |-> time, id |-> id, want |-> 0,
     current |-> TRUE]
BadCountEvent(c, id) ==
    [type |-> "Count", id |-> id, want |-> c, current |-> TRUE,
     at |-> time + ToInt(2 * (c - time \div 2))]
CountEvent(c, id) ==
    [type |-> "Count", id |-> id, want |-> c, current |-> TRUE,
     at |-> (time + ToInt(2 * (c - time \div 2))) % TimeRange]

Push(e) == scheduler' = scheduler \cup {e} /\ pushes' = pushes + 1
Outdated == {[e EXCEPT !.current = FALSE] : e \in scheduler}

(* Any of the earliest events may be on top of the heap.                   *)
Due  == {e \in scheduler : e.at <= time}
Tops == {e \in scheduler : \A d \in scheduler : e.at <= d.at}

(* The event queued last comes first among equals. *)
BadPopAfter(e, new) ==
    LET earlier == {n \in new : n.at <= e.at}
        top == IF earlier = {} THEN e ELSE CHOOSE n \in earlier : TRUE
    IN  (scheduler \cup new) \ {top}

(* handle_event pops last, after its handler has pushed: what it pops is   *)
(* the event it has handled, unless a new one is earlier still.            *)
PopAfter(e, new) ==
    LET earlier == {n \in new : n.at < e.at}
        top == IF earlier = {} THEN e
               ELSE CHOOSE n \in earlier : \A m \in earlier : n.at <= m.at
    IN  (scheduler \cup new) \ {top}

-----------------------------------------------------------------------------
Init ==
    /\ time = 0
    /\ scheduler = {}
    /\ viIntr = LineMod - 1 /\ halflines = ResetLines
    /\ miInterrupt = {} /\ miMask = {}
    /\ ip2 = FALSE /\ status = ClearStatus /\ compare = 0
    /\ phase = "idle"
    /\ pushes = 0 /\ owed = FALSE /\ writes = 0 /\ resets = 0

(* CPU::Reset, CPUBus::Reset and RCP::Reset.  The queue, mi_interrupt_ and *)
(* mi_mask_ keep what they hold while the clock starts again at zero.      *)
Reset ==
    /\ phase = "idle"
    /\ resets < MaxResets /\ resets' = resets + 1
    /\ time' = 0
    /\ viIntr' = LineMod - 1
    /\ halflines' = ResetLines
    /\ ip2' = FALSE /\ status' = ClearStatus /\ compare' = 0
    /\ scheduler' = Outdated
    /\ UNCHANGED <<miInterrupt, miMask, phase, pushes, owed, writes>>

(* N64::Update: the write to CP0_CAUSE behind it goes to a local copy.     *)
Update ==
    /\ phase = "idle"
    /\ time < MaxTime
    /\ miInterrupt' = miInterrupt \cup {"AI"}
    /\ phase' = "drain"
    /\ UNCHANGED <<time, scheduler, rcp, miMask, cp0, pushes, owed, bounds>>

-----------------------------------------------------------------------------
(* handle_event, one action per case of its switch.                        *)

(* The next interrupt is not queued. *)
BadHandleVi(e) ==
    LET intr == IF miInterrupt' \cap miMask = {} THEN {}
                ELSE {InterruptEvent(pushes)}
    IN  /\ e.type = "Vi"
        /\ miInterrupt' = miInterrupt \cup {"VI"}
        /\ ip2' = (intr # {})
        /\ scheduler' = PopAfter(e, intr)
        /\ pushes' = pushes + 1
        /\ UNCHANGED <<status, compare, owed>>

(* invalidate_hwio(VI_V_INTR) with the value of the host variable, then    *)
(* the interrupt itself.                                                   *)
HandleVi(e) ==
    LET next == IF Arms(viIntr) THEN {ViEvent(Line(viIntr), pushes)} ELSE {}
        intr == IF miInterrupt' \cap miMask = {} THEN {}
                ELSE {InterruptEvent(pushes + 1)}
    IN  /\ e.type = "Vi"
        /\ miInterrupt' = miInterrupt \cup {"VI"}
        /\ ip2' = (intr # {})
        /\ scheduler' = PopAfter(e, next \cup intr)
        /\ pushes' = pushes + 2
        /\ owed' = (owed \/ ("VI" \in miMask /\ status.ie /\ status.im2
                                /\ ~status.erl))
        /\ UNCHANGED <<status, compare>>

(* check_interrupts and handle_exception.  EXL is masked by `& 0' in the   *)
(* test, so only IE, ERL and the IP/IM bits stop it.                       *)
Serviceable == ip2 /\ status.im2 /\ status.ie /\ ~status.erl

HandleInterrupt(e) ==
    /\ e.type = "Interrupt"
    /\ IF miInterrupt \cap miMask # {} /\ Serviceable
       THEN status' = [status EXCEPT !.exl = TRUE] /\ owed' = FALSE
       ELSE UNCHANGED <<status, owed>>
    /\ scheduler' = PopAfter(e, {})
    /\ UNCHANGED <<miInterrupt, ip2, compare, pushes>>

(* Returns before the pop. *)
BadHandleCount(e) ==
    /\ e.type = "Count"
    /\ UNCHANGED <<scheduler, miInterrupt, cp0, pushes, owed>>

(* fire_count is commented out: a Count event only leaves the queue.       *)
HandleCount(e) ==
    /\ e.type = "Count"
    /\ scheduler' = PopAfter(e, {})
    /\ UNCHANGED <<miInterrupt, cp0, pushes, owed>>

HandleEventOf(e) ==
    /\ phase = "drain"
    /\ HandleVi(e) \/ HandleInterrupt(e) \/ HandleCount(e)
    /\ UNCHANGED <<time, rcp, miMask, phase, bounds>>

HandleEvent == \E e \in Due \cap Tops : HandleEventOf(e)

(* An event that is due just now waits for the next cycle. *)
BadEndDrain ==
    /\ phase = "drain"
    /\ \A e \in Due : e.at = time
    /\ phase' = "WB"
    /\ UNCHANGED <<time, scheduler, rcp, miInterrupt, miMask, cp0, pushes,
                   owed, bounds>>

EndDrain ==
    /\ phase = "drain"
    /\ Due = {}
    /\ phase' = "WB"
    /\ UNCHANGED <<time, scheduler, rcp, miInterrupt, miMask, cp0, pushes,
                   owed, bounds>>

-----------------------------------------------------------------------------
(* WB: a store to a register, or none.  invalidate_hwio does nothing when  *)
(* the value is zero; the bytes are stored all the same.                   *)

Write(next) ==
    /\ writes < MaxWrites /\ writes' = writes + 1
    /\ phase' = next
    /\ UNCHANGED <<time, owed, resets>>

StoreViIntrOf(stores) ==
    /\ phase = "WB" /\ Write("EX")
    /\ \E s \in stores :
        /\ viIntr' = IF s[2] = 0 THEN StoreBytes(viIntr, s[1], 0)
                     ELSE StoreBytes(s[2], s[1], Line(s[2]))
        /\ scheduler' = Outdated \cup
              (IF Arms(s[2]) THEN {ViEvent(Line(s[2]), pushes)} ELSE {})
    /\ pushes' = pushes + 1
    /\ UNCHANGED <<halflines, miInterrupt, miMask, cp0>>

StoreViIntr == StoreViIntrOf(ViStores)

(* VI_V_CURRENT acknowledges the interrupt; a zero does not.               *)
StoreViCurrent ==
    /\ phase = "WB" /\ Write("EX")
    /\ miInterrupt' = miInterrupt \ {"VI"}
    /\ UNCHANGED <<scheduler, pushes, rcp, miMask, cp0>>

StoreViSync ==
    /\ phase = "WB" /\ Write("EX")
    /\ halflines' \in HalfLines
    /\ scheduler' = Outdated
    /\ UNCHANGED <<pushes, viIntr, miInterrupt, miMask, cp0>>

StoreMiMaskOf(stores) ==
    /\ phase = "WB" /\ Write("EX")
    /\ \E s \in stores : miMask' = (miMask \cup s.set) \ s.clear
    /\ UNCHANGED <<scheduler, pushes, rcp, miInterrupt, cp0>>

StoreMiMask == StoreMiMaskOf(MaskStores)

(* MI_INTERRUPT redirects to mi_interrupt_ itself, and invalidate_hwio     *)
(* does not know it: what the program stores is what is pending.           *)
StoreMiInterruptOf(stores) ==
    /\ phase = "WB" /\ Write("EX")
    /\ miInterrupt' \in stores
    /\ UNCHANGED <<scheduler, pushes, rcp, miMask, cp0>>

StoreMiInterrupt == StoreMiInterruptOf(PendingStores)

NoStore ==
    /\ phase = "WB" /\ phase' = "EX"
    /\ UNCHANGED <<time, scheduler, pushes, rcp, miInterrupt, miMask, cp0,
                   owed, bounds>>

-----------------------------------------------------------------------------
(* EX, and ++time_ at the end of the cycle.                                *)

MoveToStatus ==
    /\ status' \in Statuses
    /\ UNCHANGED <<scheduler, pushes, compare, ip2>>

(* Nothing keeps the program from writing the pending bits.                *)
MoveToCause ==
    /\ ip2' \in BOOLEAN
    /\ UNCHANGED <<scheduler, pushes, compare, status>>

MoveToCompare ==
    /\ compare' \in Compares
    /\ IF compare' = 0 THEN UNCHANGED <<scheduler, pushes>>
       ELSE Push(CountEvent(compare', pushes))
    /\ UNCHANGED <<status, ip2>>

ERET ==
    /\ status' = [status EXCEPT !.exl = FALSE]
    /\ UNCHANGED <<scheduler, pushes, compare, ip2>>

Execute ==
    /\ \/ /\ writes < MaxWrites /\ writes' = writes + 1
          /\ MoveToStatus \/ MoveToCause \/ MoveToCompare
       \/ ERET /\ UNCHANGED writes
       \/ UNCHANGED <<scheduler, pushes, cp0, writes>>
    /\ UNCHANGED <<rcp, miInterrupt, miMask, owed, resets>>

EX == phase = "EX" /\ phase' = "idle" /\ time' = time + 1 /\ Execute

(* EX in fill_pipeline, behind CPU::Reset: the clock does not run yet.     *)
FillEX == phase = "idle" /\ time = 0 /\ UNCHANGED <<phase, time>> /\ Execute

Step == \/ Update \/ HandleEvent \/ EndDrain
        \/ StoreViIntr \/ StoreViCurrent \/ StoreViSync \/ StoreMiMask
        \/ StoreMiInterrupt \/ NoStore \/ EX
(* The bound on time, not a step of the code: nothing follows it.          *)
Horizon == phase = "idle" /\ time = MaxTime /\ UNCHANGED vars

Next == Step \/ FillEX \/ Reset \/ Horizon

Spec == Init /\ [][Next]_vars
(* The emulation loop keeps calling Update and never waits in it.          *)
FairSpec == Spec /\ WF_vars(Step)
-----------------------------------------------------------------------------
(* Every variable keeps its shape, and no two queued events are the same.  *)
TypeOK ==
    /\ time \in Nat
    /\ scheduler \subseteq Event
    /\ \A e, d \in scheduler : e.id = d.id => e = d
    /\ viIntr \in Nat
    /\ halflines \in HalfLines
    /\ miInterrupt \subseteq Bits /\ miMask \subseteq Bits
    /\ ip2 \in BOOLEAN /\ status \in Status /\ compare \in Int
    /\ phase \in {"idle", "drain", "WB", "EX"}
    /\ pushes \in Nat /\ \A e \in scheduler : e.id < pushes
    /\ owed \in BOOLEAN

(* handle_event pushes and only then pops the top: what leaves the queue   *)
(* is the event it has handled, never the one its handler has just queued. *)
PopIsHandled ==
    [][phase = "drain" /\ phase' = "drain" =>
          \E e \in Due \cap Tops : scheduler \ {e} \subseteq scheduler'
                                   /\ e \notin scheduler']_vars

(* A VI event is never overdue: it is queued for a later cycle and handled *)
(* before that cycle's instruction stages, rewrites of VI_V_SYNC and       *)
(* resets of the clock included.                                           *)
ViNotOverdue ==
    \A e \in scheduler : e.type = "Vi" =>
        e.at >= time /\ (phase \in {"WB", "EX"} => e.at > time)

(* A VI event for a line of the frame is handled while that line is on the *)
(* screen, or early by at most the cycles that the division into lines     *)
(* leaves over at the end of a frame.                                      *)
ViOnTime ==
    \A e \in scheduler :
        phase = "drain" /\ e \in Due \cap Tops /\ e.type = "Vi" /\ e.current
            /\ e.want < halflines =>
        /\ TimePer * e.want <= (time % Frame) + (Frame - TimePer * halflines)
        /\ time % Frame < TimePer * (e.want + 1)

(* A VI interrupt that is enabled when its event is handled is taken in    *)
(* the same cycle, before any stage of the pipeline runs again: the        *)
(* Interrupt event that the handler queues is due at once.                 *)
ViServiced == phase \in {"WB", "EX"} => ~owed

(* An interrupt is decided in the cycle that requests it.  One that cannot *)
(* be taken then is dropped: none waits in the queue, to be taken under    *)
(* another mask, after an acknowledgement or after a reset.                *)
NoStaleInterrupt ==
    phase # "drain" => \A e \in scheduler : e.type # "Interrupt"

(* `while (scheduler_.size() && time_ >= top().time) handle_event()' ends, *)
(* although handlers queue new events.                                     *)
DrainEnds == phase = "drain" ~> phase = "WB"

(* While VI_V_INTR, as the handler of a Vi event will read it, names a     *)
(* line, some Vi event is queued to come back to it.                       *)
ArmedWhileProgrammed ==
    Arms(viIntr) => \E e \in scheduler : e.type = "Vi"

(* "queue next interrupt": the handler of a Vi event whose line is still   *)
(* the programmed one leaves a Vi event in the queue.                      *)
QueuesNextInterrupt ==
    [][\A e \in Due :
          phase = "drain" /\ e.type = "Vi" /\ e.current
              /\ e \notin scheduler' =>
          \E d \in scheduler' : d.type = "Vi"]_vars
=============================================================================
