------------------------------- MODULE Events -------------------------------
(***************************************************************************)
(* XRoar's event queues (events.c, events.h): singly linked lists that are *)
(* kept in the order of 32-bit times, which wrap round after five minutes, *)
(* and the way xroar_run and the machines' cpu_cycle work them off.  The   *)
(* user interface's list and the machine's share event_current_tick.       *)
(* Calling a delegate sets it back to the time the event was due; what the *)
(* delegate schedules is relative to that.                                 *)
(*                                                                         *)
(* due, older and lag are history: the same in time that never wraps (see  *)
(* Timers).  Nothing the code does depends on them.                        *)
(***************************************************************************)
EXTENDS Integers, SequencesExt

CONSTANTS
  UiEvents, MachineEvents,
  Half,                      \* half the range of event_ticks: 2^31
  Frame, MaxDt, MinUi

\* Two times that are compared are less than half the range apart: an event is
\* scheduled at most MaxDt ahead and is at most two frames late.  That also
\* needs the machine's events to schedule those of the user interface, if they
\* do (printer.c), well ahead, lest the two lists take turns in the past.
ASSUME EventsAssumption ==
  /\ Half \in Nat /\ Frame \in Nat \ {0} /\ MaxDt \in Nat /\ MinUi \in Nat
  /\ MinUi >= 2 * Frame
  /\ MaxDt + 2 * Frame < Half
  /\ UiEvents \cap MachineEvents = {}

VARIABLES
  clock,      \* event_current_tick
  list,       \* UI_EVENT_LIST and MACHINE_EVENT_LIST
  queued,     \* the events with their queued flag set
  at,         \* at_tick of those
  run,        \* event_run_queue works on this list, or "none"
  to,         \* its to_time
  calling,    \* it is calling a delegate
  left,       \* what is left of this frame
  due, older, lag

historyVars == <<due, older, lag>>
eventVars == <<clock, list, queued, at, run, to, calling, left, historyVars>>

Event == UiEvents \cup MachineEvents
Lists == {"ui", "machine"}
On(l) == IF l = "ui" THEN UiEvents ELSE MachineEvents
ListOf(e) == IF e \in UiEvents THEN "ui" ELSE "machine"
Ticks == 0 .. 2 * Half - 1

\* uint32_t arithmetic, for what is off by one turn at most
Wrap(x) == IF x >= 2 * Half THEN x - 2 * Half ELSE IF x < 0 THEN x + 2 * Half ELSE x

\* Variant for a mutant run: the times are compared as they are.
DeltaUnsigned(t0, t1) == t0 - t1

\* event_tick_delta: the difference as an int32_t
Delta(t0, t1) == LET dt == Wrap(t0 - t1) IN IF dt < Half THEN dt ELSE dt - 2 * Half

Init ==
  /\ clock = 0 /\ to = 0
  /\ list = [l \in Lists |-> <<>>] /\ queued = {} /\ at = [e \in Event |-> 0]
  /\ run = "none" /\ calling = FALSE /\ left = 0
  /\ due = [e \in Event |-> 0] /\ older = {} /\ lag = 0

\* The history of an event's being taken from its list ...
Forget(e) == {p \in older : p[1] # e /\ p[2] # e}
Forgotten(e) == due' = [due EXCEPT ![e] = 0] /\ older' = Forget(e)

\* ... and put there.
Remembered(e, dt) ==
  /\ due' = [due EXCEPT ![e] = dt - lag]
  /\ older' = Forget(e) \cup {<<x, e>> : x \in queued \ {e}}

-----------------------------------------------------------------------------
\* event_dequeue, the list
Without(s, e) ==
  IF Contains(s, e) THEN RemoveAt(s, CHOOSE i \in DOMAIN s : s[i] = e) ELSE s

\* event_queue's loop ends at p: before the first that is later than t.
Place(s, p, t) ==
  /\ p \in 1 .. Len(s) + 1
  /\ \A i \in 1 .. p - 1 : Delta(t, at[s[i]]) >= 0
  /\ p <= Len(s) => Delta(t, at[s[p]]) < 0

\* Code that schedules or cancels: a delegate, or whatever runs between two
\* runs of a queue, such as the processor and the user interface.
Working == run = "none" \/ calling

\* event_queue_dt, event_queue_abs, event_queue_auto
Queue(e, dt) ==
  /\ Working /\ (run = "machine" /\ e \in UiEvents => dt >= MinUi)
  /\ LET s == Without(list[ListOf(e)], e)
     IN \E p \in 1 .. Len(s) + 1 :
          /\ Place(s, p, Wrap(clock + dt))
          /\ list' = [list EXCEPT ![ListOf(e)] = InsertAt(s, p, e)]
  /\ queued' = queued \cup {e}
  /\ at' = [at EXCEPT ![e] = Wrap(clock + dt)]
  /\ Remembered(e, dt)
  /\ UNCHANGED <<clock, run, to, calling, left, lag>>

\* event_dequeue, event_free
Dequeue(e) ==
  /\ Working /\ e \in queued
  /\ list' = [list EXCEPT ![ListOf(e)] = Without(@, e)]
  /\ queued' = queued \ {e}
  /\ at' = [at EXCEPT ![e] = 0]
  /\ Forgotten(e)
  /\ UNCHANGED <<clock, run, to, calling, left, lag>>

-----------------------------------------------------------------------------
\* event_run_queue begins.
RunQueue(l, dt) ==
  /\ run = "none"
  /\ run' = l /\ to' = Wrap(clock + dt)
  /\ lag' = dt
  /\ due' = [e \in Event |-> IF e \in queued THEN due[e] - dt ELSE 0]
  /\ UNCHANGED <<clock, list, queued, at, calling, older>>

\* xroar_run, once a frame: what is due for the user interface, at once.
RunUi == left = 0 /\ RunQueue("ui", 0) /\ UNCHANGED left

\* cpu_cycle: some ticks of the frame are over.
RunMachine == \E dt \in 1 .. left : RunQueue("machine", dt) /\ left' = left - dt

\* event_pending
Pending(l) == list[l] # <<>> /\ Delta(to, at[Head(list[l])]) >= 0

\* Variant for a mutant run: the event stays at the head of the list.
DispatchKeeping ==
  /\ run # "none" /\ Pending(run)
  /\ LET e == Head(list[run])
     IN clock' = at[e] /\ lag' = -due[e]
  /\ calling' = TRUE
  /\ UNCHANGED <<list, queued, at, run, to, left, due, older>>

\* event_dispatch_next, up to the call
Dispatch ==
  /\ run # "none" /\ Pending(run)
  /\ LET e == Head(list[run])
     IN /\ list' = [list EXCEPT ![run] = Tail(@)]
        /\ queued' = queued \ {e}
        /\ clock' = at[e]
        /\ at' = [at EXCEPT ![e] = 0]
        /\ lag' = -due[e]
        /\ Forgotten(e)
  /\ calling' = TRUE
  /\ UNCHANGED <<run, to, left>>

\* Variant for a mutant run: the time stays where the last delegate found it.
RunEndsBack ==
  /\ run # "none" /\ ~Pending(run)
  /\ run' = "none" /\ calling' = FALSE /\ lag' = 0
  /\ to' = 0
  /\ left' \in IF run = "ui" THEN 0 .. Frame ELSE {left}
  /\ UNCHANGED <<clock, list, queued, at, due, older>>

\* Variant for a mutant run: one event is enough.
RunEndsEarly ==
  /\ run # "none" /\ (calling \/ ~Pending(run))
  /\ run' = "none" /\ calling' = FALSE /\ lag' = 0
  /\ clock' = to /\ to' = 0
  /\ left' \in IF run = "ui" THEN 0 .. Frame ELSE {left}
  /\ UNCHANGED <<list, queued, at, due, older>>

\* The end of event_run_queue.  xroar_run then runs the machine for a frame, or
\* not, when there is none or a debugger has stopped it.
RunEnds ==
  /\ run # "none" /\ ~Pending(run)
  /\ run' = "none" /\ calling' = FALSE /\ lag' = 0
  /\ clock' = to /\ to' = 0
  /\ left' \in IF run = "ui" THEN 0 .. Frame ELSE {left}
  /\ UNCHANGED <<list, queued, at, due, older>>

Scheduling == \E e \in Event : (\E dt \in 1 .. MaxDt : Queue(e, dt)) \/ Dequeue(e)
Running == RunUi \/ RunMachine \/ Dispatch \/ RunEnds

Next == Scheduling \/ Running

Spec == Init /\ [][Next]_eventVars

\* Frames go on, and queues are worked off.
FairSpec == Spec /\ WF_eventVars(Running)

-----------------------------------------------------------------------------
(***************************************************************************)
(* Properties.                                                             *)
(***************************************************************************)
\* The present as event_current_tick will have it when the run is over
Present == IF run = "none" THEN clock ELSE to

TypeOK ==
  /\ clock \in Ticks /\ to \in Ticks
  /\ list \in [Lists -> Seq(Event)]
  /\ queued \subseteq Event /\ at \in [Event -> Ticks]
  /\ run \in Lists \cup {"none"} /\ calling \in BOOLEAN /\ left \in 0 .. Frame
  /\ due \in [Event -> Int] /\ older \subseteq Event \X Event /\ lag \in Nat

\* The 32-bit times are the true ones, taken round: the clock, though a
\* delegate is called with it set back and another list is worked off in
\* between, loses no tick and gains none.
TimeIsKept ==
  /\ clock = Wrap(Present - lag)
  /\ \A e \in queued : at[e] = Wrap(Present + due[e])

\* No event waits for more than the rest of a frame after it was due (one of
\* the machine's that a late event of the user interface has scheduled: two
\* frames), so that two times that are compared never are half the range apart.
LateBounded ==
  /\ \A e \in queued : due[e] <= MaxDt
  /\ \A e \in queued \cap UiEvents : due[e] >= left - Frame
  /\ \A e \in queued \cap MachineEvents :
       due[e] >= IF run = "machine" THEN -2 * Frame ELSE -Frame

\* The queues do what Timers promises: what a delegate or the processor
\* schedules, moves or cancels while a queue is worked off, and the wrapping of
\* the times, never make an event come early, late, twice or out of order.
T == INSTANCE Timers WITH pending <- queued
TimersSpec == T!Spec

\* As long as the machine runs, an event happens unless it is cancelled or
\* scheduled again and again.
EventHappens ==
  \A e \in Event :
    []<>(left > 0) /\ <>[][~\E dt \in 1 .. MaxDt : Queue(e, dt)]_eventVars
      => []<>(e \notin queued)
=============================================================================
