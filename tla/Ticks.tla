------------------------------- MODULE Ticks -------------------------------
(***************************************************************************)
(* Time in SuperComm.  Once a second the timer of the /nil device sends a  *)
(* signal, and the signal handler counts it in one byte (115,U) at any     *)
(* moment, also between two instructions of what the program is doing.     *)
(* Two things are made of that byte: the on-line clock, which Sub_0F56     *)
(* brings up to date whenever the program is about to sleep, and the       *)
(* waits with a limit of Sub_3BBC and Sub_3BDA.                            *)
(*                                                                         *)
(* Without the device the waits compare the second of F$Time instead:      *)
(* Wrap is then 60 and nothing else changes, but there is no clock.        *)
(***************************************************************************)
EXTENDS Integers

CONSTANTS
  Wrap,        \* what the counter counts modulo: 256, or 60 without the device
  HasDevice,   \* 114,U: the device with the timer could be opened
  Base,        \* seconds of a minute, minutes of an hour, and hours shown (60)
  Limit,       \* seconds after which a wait is given up
  Gap,         \* at most so many seconds pass between two looks at the time
  Busy,        \* and so many between two calls of Sub_0F56
  MaxSeconds   \* bound: seconds that pass in all

ASSUME TicksAssumption ==
  /\ Wrap \in Nat \ {0}
  /\ HasDevice \in BOOLEAN
  /\ Base \in Nat \ {0, 1}
  /\ Limit \in Nat \ {0}
  /\ Gap \in Nat \ {0} /\ Limit + Gap <= Wrap
  /\ Busy \in Nat \ {0} /\ 2 * Busy < Wrap
  /\ MaxSeconds \in Nat

VARIABLES
  count,       \* 115,U (or the second of F$Time)
  seen,        \* 116,U: the seconds that the clock has shown
  clockOn,     \* 117,U
  clock,       \* the digits of the clock
  reg,         \* register A in Sub_0F56
  tpc,         \* where the program is
  since,       \* seconds since the last call of Sub_0F56
  began,       \* 96,U: count when the wait began
  wait,        \* what became of the wait
  gap,         \* seconds since the last look at the time in a wait
  now,         \* history: the true time
  onAt,        \* history: the true time when the clock was set to zero
  shown,       \* history: how often the clock was advanced since then
  startAt      \* history: the true time when the wait began

clockVars == <<seen, clockOn, clock, onAt, shown>>
waitVars == <<began, wait, gap, startAt>>
ticksVars == <<count, reg, tpc, since, now, clockVars, waitVars>>

TicksPc == {"run", "compare", "sleep"}

WaitStates == {"none", "waiting", "answered", "timeout"}

Zero == [h |-> 0, m |-> 0, s |-> 0]

TicksInit ==
  /\ count = 0 /\ seen = 0 /\ clockOn = FALSE /\ clock = Zero
  /\ reg = 0 /\ tpc = "run" /\ since = 0
  /\ began = 0 /\ wait = "none" /\ gap = 0
  /\ now = 0 /\ onAt = 0 /\ shown = 0 /\ startAt = 0

\* INC on the counter.
Inc(n) == IF n + 1 = Wrap THEN 0 ELSE n + 1

-----------------------------------------------------------------------------
\* Dat_0F18, the signal handler, at any time.  The machine is fast enough for
\* the program to look at the time every Gap, and to sleep every Busy seconds.
Tick ==
  /\ now < MaxSeconds
  /\ since < Busy
  /\ wait = "waiting" => gap < Gap
  /\ count' = Inc(count)
  /\ now' = now + 1
  /\ since' = since + 1
  /\ gap' = IF wait = "waiting" THEN gap + 1 ELSE gap
  /\ UNCHANGED <<reg, tpc, clockVars, began, wait, startAt>>

-----------------------------------------------------------------------------
\* Sub_175C, a key: the clock is stopped, or set to zero and started.  Hanging
\* up and dialing stop it, and a connection starts it, in the same way.
ToggleClock ==
  /\ tpc = "run" /\ HasDevice
  /\ IF clockOn
       THEN clockOn' = FALSE /\ UNCHANGED <<seen, clock, onAt, shown>>
       ELSE /\ clockOn' = TRUE /\ clock' = Zero /\ seen' = count
            /\ onAt' = now /\ shown' = 0
  /\ UNCHANGED <<count, reg, tpc, since, now, waitVars>>

\* Sub_0F56: on the way to sleep, to the loop that catches up if the clock is on.
Doze ==
  /\ since' = 0
  /\ IF clockOn THEN tpc' = "compare" /\ reg' = seen
                ELSE tpc' = "sleep" /\ UNCHANGED reg

GoToSleep ==
  /\ tpc = "run" /\ Doze
  /\ UNCHANGED <<count, now, clockVars, waitVars>>

\* Sub_0F78: one second more; the hours, too, go back to zero after Base.
Advanced(c) ==
  IF c.s + 1 < Base THEN [c EXCEPT !.s = @ + 1]
  ELSE IF c.m + 1 < Base THEN [c EXCEPT !.s = 0, !.m = @ + 1]
  ELSE IF c.h + 1 < Base THEN [h |-> c.h + 1, m |-> 0, s |-> 0]
  ELSE Zero

\* Variant for a mutant run: what was seen is taken from the counter as it is
\* after the clock was written.
CatchUpToCounter ==
  /\ tpc = "compare" /\ reg # count
  /\ clock' = Advanced(clock)
  /\ shown' = shown + 1
  /\ reg' = count /\ seen' = count
  /\ UNCHANGED <<count, tpc, since, now, clockOn, onAt, waitVars>>

\* One round of Sub_0F60: a second that was counted is shown.
CatchUp ==
  /\ tpc = "compare" /\ reg # count
  /\ clock' = Advanced(clock)
  /\ shown' = shown + 1
  /\ reg' = Inc(reg) /\ seen' = Inc(reg)
  /\ UNCHANGED <<count, tpc, since, now, clockOn, onAt, waitVars>>

CaughtUp ==
  /\ tpc = "compare" /\ reg = count
  /\ tpc' = "sleep"
  /\ UNCHANGED <<count, reg, since, now, clockVars, waitVars>>

\* F$Sleep returns: the time is over, or a signal came and Sub_0F56 starts again.
Wake ==
  /\ tpc = "sleep"
  /\ \/ tpc' = "run" /\ UNCHANGED <<reg, since>>
     \/ Doze
  /\ UNCHANGED <<count, now, clockVars, waitVars>>

-----------------------------------------------------------------------------
\* Sub_3BBC: a wait begins.
StartWait ==
  /\ tpc = "run" /\ wait # "waiting"
  /\ wait' = "waiting" /\ began' = count /\ startAt' = now /\ gap' = 0
  /\ UNCHANGED <<count, reg, tpc, since, now, clockVars>>

\* What was waited for has come.
Answer ==
  /\ tpc = "run" /\ wait = "waiting"
  /\ wait' = "answered"
  /\ UNCHANGED <<count, reg, tpc, since, now, clockVars, began, gap, startAt>>

\* Variant for a mutant run: the difference is taken without the wrap.
ElapsedUnwrapped == IF count >= began THEN count - began ELSE 0

\* Sub_3BDA: the seconds since the wait began, as far as the counter tells.
Elapsed == IF count >= began THEN count - began ELSE (count + Wrap) - began

\* Variant for a mutant run: the wait is given up one second early.
LookEarly ==
  /\ tpc = "run" /\ wait = "waiting"
  /\ wait' = IF Elapsed + 1 >= Limit THEN "timeout" ELSE wait
  /\ gap' = 0 /\ Doze
  /\ UNCHANGED <<count, now, clockVars, began, startAt>>

\* Sub_3BDA and what its callers do with the result; it also calls Sub_0F56.
Look ==
  /\ tpc = "run" /\ wait = "waiting"
  /\ wait' = IF Elapsed >= Limit THEN "timeout" ELSE wait
  /\ gap' = 0 /\ Doze
  /\ UNCHANGED <<count, now, clockVars, began, startAt>>

-----------------------------------------------------------------------------
TicksNext ==
  \/ Tick
  \/ ToggleClock \/ GoToSleep \/ CatchUp \/ CaughtUp \/ Wake
  \/ StartWait \/ Answer \/ Look

TicksSpec == TicksInit /\ [][TicksNext]_ticksVars

-----------------------------------------------------------------------------
TypeOK ==
  /\ {count, seen, reg, began} \subseteq 0..(Wrap - 1)
  /\ clockOn \in BOOLEAN
  /\ clock \in [h : 0..(Base - 1), m : 0..(Base - 1), s : 0..(Base - 1)]
  /\ tpc \in TicksPc /\ wait \in WaitStates
  /\ since \in 0..Busy /\ gap \in 0..Gap
  /\ {now, onAt, shown, startAt} \subseteq Nat

\* When the program goes to sleep the clock has been advanced once for every
\* second since it was set to zero: no signal is lost or counted twice, though
\* they come while the clock is being brought up to date.
ClockIsRight ==
  [][tpc = "compare" /\ tpc' = "sleep" => shown = now - onAt]_ticksVars

\* A wait is never given up before its limit ...
NeverEarly == [][wait = "waiting" /\ wait' = "timeout" => now >= startAt + Limit]_ticksVars

\* ... and never goes on for more than Gap seconds after it.
NeverLate == wait = "waiting" => now < startAt + Limit + Gap

\* Why that is so: how far the clock is behind, and how long a wait has lasted,
\* never reaches a full turn of the counter.
Behind == now - (onAt + shown)

\* n is what the counter shows d seconds after it showed m.
After(m, d, n) == n = m + d \/ n + Wrap = m + d

\* The program catches up only while the clock is on.
CatchUpInv == tpc = "compare" => clockOn

ClockInv ==
  clockOn =>
    /\ Behind >= 0
    /\ After(seen, Behind, count)
    /\ tpc = "compare" => reg = seen /\ Behind <= Busy + since
    /\ tpc # "compare" => Behind <= since

WaitInv ==
  wait = "waiting" =>
    /\ now >= startAt
    /\ now - startAt < Limit + gap
    /\ After(began, now - startAt, count)

TicksInv == TypeOK /\ CatchUpInv /\ ClockInv /\ WaitInv
=============================================================================
