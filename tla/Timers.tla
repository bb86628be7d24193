------------------------------- MODULE Timers -------------------------------
(***************************************************************************)
(* What XRoar's event queues promise, in time that never wraps round: the  *)
(* events of a list are carried out when they are due, each at its own     *)
(* time, the earlier first and, among those due at the same time, the one  *)
(* that was scheduled first (events.h: "events scheduled for the same time *)
(* will run in order of their being added to queue").                      *)
(*                                                                         *)
(* Times are relative to the present: due[e] is how long from now e is     *)
(* due, negative when it is late.  A delegate is called at the time its    *)
(* event was due, lag before the present.                                  *)
(***************************************************************************)
EXTENDS Integers

CONSTANTS
  UiEvents, MachineEvents,   \* the events of the two lists
  Frame,                     \* the machine runs at most this long at a time
  MaxDt,                     \* nothing is scheduled further ahead
  MinUi                      \* nor a UI event, by a machine event, nearer

VARIABLES
  pending,    \* the events that are scheduled
  due,        \* when, from now; 0 for an event that is not scheduled
  older,      \* <<x, y>>: x was scheduled before y
  lag,        \* how far the present is ahead of the time delegates see
  run,        \* the list whose events are being carried out, or "none"
  calling     \* a delegate is being called

timerVars == <<pending, due, older, lag, run, calling>>

Event == UiEvents \cup MachineEvents
On(l) == IF l = "ui" THEN UiEvents ELSE MachineEvents

Init ==
  /\ pending = {} /\ due = [e \in Event |-> 0] /\ older = {}
  /\ lag = 0 /\ run = "none" /\ calling = FALSE

\* x and everything it was before or after, forgotten
Forget(e) == {p \in older : p[1] # e /\ p[2] # e}

\* e is the last to have been scheduled of those in set
Youngest(e, set) == Forget(e) \cup {<<x, e>> : x \in set \ {e}}

\* e comes before everything else that is scheduled on its list.
First(e, l) ==
  /\ e \in pending \cap On(l)
  /\ \A x \in (pending \cap On(l)) \ {e} :
       due[e] < due[x] \/ (due[e] = due[x] /\ <<e, x>> \in older)

Schedule(e, dt) ==
  /\ run = "none" \/ calling
  /\ run = "machine" /\ e \in UiEvents => dt >= MinUi
  /\ pending' = pending \cup {e}
  /\ due' = [due EXCEPT ![e] = dt - lag]
  /\ older' = Youngest(e, pending)
  /\ UNCHANGED <<lag, run, calling>>

Cancel(e) ==
  /\ run = "none" \/ calling
  /\ e \in pending
  /\ pending' = pending \ {e}
  /\ due' = [due EXCEPT ![e] = 0]
  /\ older' = Forget(e)
  /\ UNCHANGED <<lag, run, calling>>

\* Time passes, and then the events of a list are looked at.
Begin(l, dt) ==
  /\ run = "none"
  /\ run' = l /\ lag' = dt
  /\ due' = [e \in Event |-> IF e \in pending THEN due[e] - dt ELSE 0]
  /\ UNCHANGED <<pending, older, calling>>

Fire(e, l) ==
  /\ run = l /\ First(e, l) /\ due[e] <= 0
  /\ lag' = -due[e] /\ calling' = TRUE
  /\ pending' = pending \ {e}
  /\ due' = [due EXCEPT ![e] = 0]
  /\ older' = Forget(e)
  /\ UNCHANGED run

\* None is due any more.
Finish(l) ==
  /\ run = l /\ \A e \in pending \cap On(l) : due[e] > 0
  /\ run' = "none" /\ lag' = 0 /\ calling' = FALSE
  /\ UNCHANGED <<pending, due, older>>

Next ==
  \/ \E e \in Event : (\E dt \in 1..MaxDt : Schedule(e, dt)) \/ Cancel(e)
  \/ \E l \in {"ui", "machine"} :
       \/ \E dt \in 0..Frame : Begin(l, dt)
       \/ \E e \in On(l) : Fire(e, l)
       \/ Finish(l)

Spec == Init /\ [][Next]_timerVars
=============================================================================
