---------------------------- MODULE XRoarProofs -----------------------------
(***************************************************************************)
(* Proofs about XRoar.  The GDB target (module Gdb): Exclusive holds       *)
(* whatever the debugger and the threads library do; the stop replies      *)
(* match as long as no wait ends without a signal; the mutex comes back    *)
(* if, besides, nobody has overtaken a thread that was woken.  The event   *)
(* queues (module Events), for every range of the times, every length of a *)
(* frame and every set of events: they stay sorted by the true times       *)
(* although they are sorted by wrapped ones, and so do what Timers says.   *)
(***************************************************************************)
EXTENDS Gdb, Events, SequenceTheorems, TLAPS

-----------------------------------------------------------------------------
(* The GDB target.                                                         *)

FitsInv == PlacesOK /\ StateFits

LEMMA FitsInit == GdbInit => FitsInv
  <1> SUFFICES ASSUME GdbInit PROVE FitsInv
    OBVIOUS
  <1>1. armed \in BOOLEAN /\ noAck \in BOOLEAN /\ unasked \in BOOLEAN /\ polite \in BOOLEAN
    BY Zenon DEF GdbInit
  <1> QED
    BY <1>1 DEF GdbInit, FitsInv, PlacesOK, StateFits, EmuPc, SockPc, Commands, Executing, Reporting

-----------------------------------------------------------------------------
(* The steps of the two threads keep the types and the mutex's promise.    *)

LEMMA EmuFits ==
  ASSUME FitsInv, EmuNext \/ EmuSpurious \/ EmuReplace \/ Stuck
  PROVE  FitsInv'
  <1> USE DEF FitsInv, PlacesOK, StateFits, EmuPc, SockPc, Commands, Executing, Reporting,
              replies, sockVars
  <1>1. CASE EmuEnter \/ EmuTimeout \/ EmuSpurious \/ EmuReplace \/ Stuck
    BY <1>1 DEF EmuEnter, EmuTimeout, EmuSpurious, EmuReplace, Stuck, gdbVars
  <1>2. CASE EmuLock \/ EmuWoken
    BY <1>2 DEF EmuLock, EmuWoken, Resume
  <1>3. CASE EmuLate \/ EmuFrameEnds
    BY <1>3 DEF EmuLate, EmuFrameEnds
  <1>4. CASE EmuStop \/ EmuStep
    BY <1>4 DEF EmuStop, EmuStep
  <1>5. CASE EmuReport \/ EmuStepReport
    <2>1. unasked' \in BOOLEAN
      BY <1>5, Zenon DEF EmuReport, EmuStepReport, StopReply
    <2> QED
      BY <1>5, <2>1 DEF EmuReport, EmuStepReport, StopReply
  <1>6. CASE EmuReplaced
    <2>1. armed' \in BOOLEAN /\ noAck' \in BOOLEAN /\ unasked' \in BOOLEAN /\ polite' \in BOOLEAN
      BY <1>6, Zenon DEF EmuReplaced
    <2> QED
      BY <1>6, <2>1 DEF EmuReplaced
  <1> QED
    BY <1>1, <1>2, <1>3, <1>4, <1>5, <1>6 DEF EmuNext

LEMMA SockFits ==
  ASSUME FitsInv,
         SockStep \/ StepSpurious \/ AckFails \/ Accept \/ Break \/ Packet \/ BadChecksum \/ ReadError
  PROVE  FitsInv'
  <1> USE DEF FitsInv, PlacesOK, StateFits, EmuPc, SockPc, Commands, Executing, Reporting, emuVars,
              replies, sockVars, TakeMutex
  <1>1. CASE Attach
    BY <1>1 DEF Attach
  <1>6. CASE Break
    <2>1. unasked' \in BOOLEAN
      BY <1>6, Zenon DEF Break, StopReply, replies
    <2> QED
      BY <1>6, <2>1 DEF Break, StopReply
  <1>2. CASE Check \/ AckFails \/ StepWoken \/ StepSpurious
    BY <1>2 DEF Check, AckFails, StepWoken, StepSpurious
  <1>7. CASE Accept
    <2>1. unasked' \in BOOLEAN /\ polite' \in BOOLEAN
      BY <1>7, Zenon DEF Accept
    <2> QED
      BY <1>7, <2>1 DEF Accept
  <1>3. CASE Packet \/ BadChecksum \/ ReadError
    <2>1. polite' \in BOOLEAN
      BY <1>3, Zenon DEF Packet, BadChecksum, ReadError
    <2> QED
      BY <1>3, <2>1 DEF Packet, BadChecksum, ReadError
  <1>4. CASE Command \/ Detach
    <2>1. noAck' \in BOOLEAN
      BY <1>4, Zenon DEF Command, Detach
    <2> QED
      BY <1>4, <2>1 DEF Command, Detach
  <1>5. CASE Continue \/ Step \/ Close
    BY <1>5 DEF Continue, Step, Close, SignalEmu
  <1> QED
    BY <1>1, <1>2, <1>3, <1>4, <1>5, <1>6, <1>7 DEF SockStep

LEMMA FitsStep == FitsInv /\ [GdbNext]_gdbVars => FitsInv'
  <1> SUFFICES ASSUME FitsInv, [GdbNext]_gdbVars PROVE FitsInv'
    OBVIOUS
  <1>1. CASE UNCHANGED gdbVars
    BY <1>1 DEF gdbVars, FitsInv, PlacesOK, StateFits
  <1> QED
    BY <1>1, EmuFits, SockFits DEF GdbNext

OddOK == odd \subseteq {"spurious", "overtaken"}

LEMMA OddStep == OddOK /\ [GdbNext]_gdbVars => OddOK'
  <1> SUFFICES ASSUME OddOK, [GdbNext]_gdbVars PROVE OddOK'
    OBVIOUS
  <1>1. odd' \in {odd, {}, odd \cup {"spurious"}, odd \cup {"overtaken"}}
    <2>1. CASE EmuNext \/ EmuSpurious \/ EmuReplace \/ Stuck \/ UNCHANGED gdbVars
      BY <2>1, Zenon DEF EmuNext, EmuEnter, EmuLock, EmuTimeout, EmuLate, EmuWoken, EmuFrameEnds,
         EmuStop, EmuReport, EmuStep, EmuStepReport, EmuReplaced, EmuSpurious, EmuReplace,
         Stuck, gdbVars
    <2>2. CASE SockStep \/ StepSpurious \/ AckFails \/ Accept \/ Break \/ Packet \/ BadChecksum
               \/ ReadError
      BY <2>2, Zenon DEF SockStep, Attach, Check, Command, Detach, Continue, Step, StepWoken,
         Close, StepSpurious, AckFails, Accept, Break, Packet, BadChecksum, ReadError, TakeMutex
    <2> QED
      BY <2>1, <2>2 DEF GdbNext
  <1>2. \A x \in odd' : x \in odd \/ x \in {"spurious", "overtaken"}
    BY <1>1, Zenon
  <1> QED
    BY <1>2, Zenon DEF OddOK

\* Every variable keeps its type; the run state is one of gdb.c's three.
THEOREM TypeCorrect == GdbSpec => []GdbTypeOK
  <1>1. GdbInit => OddOK
    BY DEF GdbInit, OddOK
  <1>2. FitsInv /\ OddOK => GdbTypeOK
    BY DEF FitsInv, GdbTypeOK, OddOK
  <1> QED
    BY FitsInit, FitsStep, OddStep, <1>1, <1>2, PTL DEF GdbSpec

\* The socket thread works on registers, memory and breakpoints only while the
\* processor does not execute (gdb.c:423 and the commands after it).
THEOREM NeverBoth == GdbSpec => []Exclusive
  <1>1. FitsInv => Exclusive
    BY DEF FitsInv, StateFits, Exclusive, Executing
  <1> QED
    BY FitsInit, FitsStep, <1>1, PTL DEF GdbSpec

-----------------------------------------------------------------------------
(* The stop replies.                                                       *)

LEMMA EmuReplies ==
  ASSUME FitsInv, RepliesInv, EmuNext \/ EmuSpurious \/ EmuReplace \/ Stuck
  PROVE  RepliesInv'
  <1> USE DEF FitsInv, PlacesOK, StateFits, RepliesInv, RepliesMatch, Connected, SockPc, Executing,
              Reporting, replies, sockVars
  <1>1. CASE EmuEnter \/ EmuTimeout \/ EmuSpurious \/ EmuReplace \/ Stuck
    BY <1>1 DEF EmuEnter, EmuTimeout, EmuSpurious, EmuReplace, Stuck, gdbVars
  <1>2. CASE EmuLock \/ EmuWoken
    BY <1>2 DEF EmuLock, EmuWoken, Resume
  <1>3. CASE EmuLate \/ EmuFrameEnds
    BY <1>3 DEF EmuLate, EmuFrameEnds
  <1>4. CASE EmuStop \/ EmuStep
    BY <1>4 DEF EmuStop, EmuStep
  <1>5. CASE EmuReport \/ EmuStepReport
    BY <1>5 DEF EmuReport, EmuStepReport, StopReply
  <1>6. CASE EmuReplaced
    BY <1>6 DEF EmuReplaced
  <1> QED
    BY <1>1, <1>2, <1>3, <1>4, <1>5, <1>6 DEF EmuNext

LEMMA SockReplies ==
  ASSUME FitsInv, RepliesInv,
         SockStep \/ StepSpurious \/ AckFails \/ Accept \/ Break \/ Packet \/ BadChecksum \/ ReadError
  PROVE  RepliesInv'
  <1> USE DEF FitsInv, PlacesOK, StateFits, RepliesInv, RepliesMatch, Connected, SockPc, Executing,
              Reporting, emuVars, replies, sockVars, TakeMutex
  <1>1. CASE Attach \/ Break
    BY <1>1 DEF Attach, Break, StopReply
  <1>2. CASE Check \/ AckFails \/ StepWoken \/ StepSpurious \/ Accept
    BY <1>2 DEF Check, AckFails, StepWoken, StepSpurious, Accept
  <1>3. CASE Packet \/ BadChecksum \/ ReadError
    <2>1. polite' => polite /\ (owed <= 0 \/ ReadError)
      BY <1>3, Zenon DEF Packet, BadChecksum, ReadError
    <2> QED
      BY <1>3, <2>1 DEF Packet, BadChecksum, ReadError
  <1>4. CASE Command \/ Detach
    <2>1. /\ spc = "exec" /\ spc' \in {"read", "closing"}
          /\ UNCHANGED <<epc, runState, owed, odd>>
      BY <1>4 DEF Command, Detach
    <2>2. UNCHANGED unasked
      BY <1>4, Zenon DEF Command, Detach
    <2> QED
      BY <2>1, <2>2
  <1>5. CASE Continue \/ Step \/ Close
    BY <1>5 DEF Continue, Step, Close, SignalEmu
  <1> QED
    BY <1>1, <1>2, <1>3, <1>4, <1>5 DEF SockStep

LEMMA RepliesStep == FitsInv /\ RepliesInv /\ [GdbNext]_gdbVars => RepliesInv'
  <1> SUFFICES ASSUME FitsInv, RepliesInv, [GdbNext]_gdbVars PROVE RepliesInv'
    OBVIOUS
  <1>1. CASE UNCHANGED gdbVars
    BY <1>1 DEF gdbVars, RepliesInv, RepliesMatch
  <1> QED
    BY <1>1, EmuReplies, SockReplies DEF GdbNext

\* A machine that is let run or step answers with one stop reply, and with none
\* at any other time (gdb_stop, gdb_single_step and gdb_machine_signal), but for
\* the one that a breakpoint left behind may send between accept (gdb.c:376) and
\* gdb_machine_signal (gdb.c:391).
THEOREM OneStopReply == GdbSpec => []RepliesMatch
  <1>1. GdbInit => RepliesInv
    BY DEF GdbInit, RepliesInv, RepliesMatch, Connected, SockPc
  <1>2. RepliesInv => RepliesMatch
    BY DEF RepliesInv
  <1> QED
    BY FitsInit, FitsStep, RepliesStep, <1>1, <1>2, PTL DEF GdbSpec

\* The stop replies of the emulator's thread do not fall into the answers of
\* the socket thread, if the debugger waits for what by its count it is owed and
\* was not sent one unasked when it came.
THEOREM CleanWire == GdbSpec => []WireIsClean
  <1>1. GdbInit => RepliesInv
    BY DEF GdbInit, RepliesInv, RepliesMatch, Connected, SockPc
  <1>2. FitsInv /\ RepliesInv => WireIsClean
    BY DEF FitsInv, PlacesOK, RepliesInv, RepliesMatch, WireIsClean, Connected, SockPc
  <1> QED
    BY FitsInit, FitsStep, RepliesStep, <1>1, <1>2, PTL DEF GdbSpec

-----------------------------------------------------------------------------
(* The mutex.                                                              *)

LEMMA EmuLocks ==
  ASSUME FitsInv, LockInv, EmuNext \/ EmuSpurious \/ EmuReplace \/ Stuck
  PROVE  LockInv'
  <1> USE DEF FitsInv, PlacesOK, StateFits, LockInv, LockIsReturned, EmuPc, Executing, Reporting,
              replies, sockVars
  <1>1. CASE EmuEnter \/ EmuTimeout \/ EmuSpurious \/ EmuReplace \/ Stuck
    BY <1>1 DEF EmuEnter, EmuTimeout, EmuSpurious, EmuReplace, Stuck, gdbVars
  <1>2. CASE EmuLock \/ EmuWoken
    BY <1>2 DEF EmuLock, EmuWoken, Resume
  <1>3. CASE EmuLate \/ EmuFrameEnds
    BY <1>3 DEF EmuLate, EmuFrameEnds
  <1>4. CASE EmuStop \/ EmuStep
    BY <1>4 DEF EmuStop, EmuStep
  <1>5. CASE EmuReport \/ EmuStepReport
    BY <1>5 DEF EmuReport, EmuStepReport, StopReply
  <1>6. CASE EmuReplaced
    BY <1>6 DEF EmuReplaced
  <1> QED
    BY <1>1, <1>2, <1>3, <1>4, <1>5, <1>6 DEF EmuNext

LEMMA SockLocks ==
  ASSUME FitsInv, LockInv,
         SockStep \/ StepSpurious \/ AckFails \/ Accept \/ Break \/ Packet \/ BadChecksum \/ ReadError
  PROVE  LockInv'
  <1> USE DEF FitsInv, PlacesOK, LockInv, LockIsReturned, EmuPc, Executing, Reporting, emuVars,
              replies, sockVars, TakeMutex
  <1>1. CASE Attach \/ Break
    BY <1>1 DEF Attach, Break, StopReply
  <1>2. CASE Check \/ AckFails \/ StepWoken \/ StepSpurious \/ Accept
    BY <1>2 DEF Check, AckFails, StepWoken, StepSpurious, Accept
  <1>3. CASE Packet \/ BadChecksum \/ ReadError
    BY <1>3 DEF Packet, BadChecksum, ReadError
  <1>4. CASE Command \/ Detach
    BY <1>4 DEF Command, Detach
  <1>5. CASE Continue \/ Step \/ Close
    BY <1>5 DEF Continue, Step, Close, SignalEmu
  <1> QED
    BY <1>1, <1>2, <1>3, <1>4, <1>5 DEF SockStep

\* gdb_run_lock leaves its caller the mutex when it is going to run the
\* processor, and does not when the machine is stopped.
THEOREM LockReturned == GdbSpec => []LockIsReturned
  <1>1. GdbInit => LockInv
    BY DEF GdbInit, LockInv, LockIsReturned, Executing, Reporting
  <1>2. FitsInv /\ LockInv /\ [GdbNext]_gdbVars => LockInv'
    <2> SUFFICES ASSUME FitsInv, LockInv, [GdbNext]_gdbVars PROVE LockInv'
      OBVIOUS
    <2>1. CASE UNCHANGED gdbVars
      BY <2>1 DEF gdbVars, LockInv, LockIsReturned
    <2> QED
      BY <2>1, EmuLocks, SockLocks DEF GdbNext
  <1>3. LockInv => LockIsReturned
    BY DEF LockInv
  <1> QED
    BY FitsInit, FitsStep, <1>1, <1>2, <1>3, PTL DEF GdbSpec

-----------------------------------------------------------------------------
(* The event queues.                                                       *)

USE EventsAssumption

-----------------------------------------------------------------------------
(***************************************************************************)
(* Wrapped times                                                           *)
(***************************************************************************)
\* The difference of two wrapped times is that of the true ones, if that is
\* less than half the range.
LEMMA DeltaIsDifference ==
  ASSUME NEW p \in Ticks, NEW a \in Int, NEW b \in Int,
         -Half < a, a < Half, -Half < b, b < Half,
         -Half < a - b, a - b < Half
  PROVE  Delta(Wrap(p + a), Wrap(p + b)) = a - b
BY DEF Delta, Wrap, Ticks

\* Going on from a wrapped time
LEMMA WrapAdds ==
  ASSUME NEW p \in Ticks, NEW a \in Int, NEW b \in Int,
         -Half < a, a < Half, -Half < b, b < Half,
         -Half < a + b, a + b < Half
  PROVE  Wrap(Wrap(p + a) + b) = Wrap(p + a + b)
BY DEF Wrap, Ticks

\* A wrapped time fits.
LEMMA WrapInTicks ==
  ASSUME NEW p \in Ticks, NEW a \in Int, -Half < a, a < Half
  PROVE  Wrap(p + a) \in Ticks
BY DEF Wrap, Ticks

\* The present again, from a time a later
LEMMA WrapBack ==
  ASSUME NEW p \in Ticks, NEW a \in Int, NEW b \in Int,
         -Half < a, a < Half, -Half < b, b < Half,
         -Half < b - a, b - a < Half
  PROVE  Wrap(Wrap(p + a) + (b - a)) = Wrap(p + b)
BY DEF Wrap, Ticks

-----------------------------------------------------------------------------
(***************************************************************************)
(* Sequences in the order of a relation R, a set of pairs                  *)
(***************************************************************************)
Ordered(s, R) == \A i, j \in 1 .. Len(s) : i < j => <<s[i], s[j]>> \in R

Irreflexive(R) == \A p \in R : p[1] # p[2]

\* The elements of s are those of set.
Holds(s, set) ==
  /\ \A i \in 1 .. Len(s) : s[i] \in set
  /\ \A x \in set : \E i \in 1 .. Len(s) : s[i] = x

\* e belongs at p.
Fits(s, p, e, R) ==
  /\ p \in 1 .. Len(s) + 1
  /\ \A i \in 1 .. Len(s) : IF i < p THEN <<s[i], e>> \in R ELSE <<e, s[i]>> \in R

\* Inserting
LEMMA InsertAtIs ==
  ASSUME NEW S, NEW s \in Seq(S), NEW e \in S, NEW p \in 1 .. Len(s) + 1
  PROVE  /\ InsertAt(s, p, e) \in Seq(S)
         /\ Len(InsertAt(s, p, e)) = Len(s) + 1
         /\ \A j \in 1 .. Len(s) + 1 :
              InsertAt(s, p, e)[j] = IF j < p THEN s[j] ELSE IF j = p THEN e ELSE s[j - 1]
<1> DEFINE f == SubSeq(s, 1, p - 1)
           g == SubSeq(s, p, Len(s))
<1>1. Len(s) \in Nat /\ p \in Int
  OBVIOUS
<1>2. f \in Seq(S) /\ Len(f) = p - 1 /\ \A i \in 1 .. p - 1 : f[i] = s[i]
  BY <1>1
<1>3. /\ g \in Seq(S) /\ Len(g) = Len(s) - p + 1
      /\ \A i \in 1 .. Len(s) - p + 1 : g[i] = s[p + i - 1]
  BY <1>1
<1>4. InsertAt(s, p, e) = (f \o <<e>>) \o g
  BY DEF InsertAt
<1> HIDE DEF f, g
<1> DEFINE h == f \o <<e>>
<1>5. /\ h \in Seq(S) /\ Len(h) = p
      /\ \A i \in 1 .. p : h[i] = IF i < p THEN s[i] ELSE e
  BY <1>1, <1>2
<1>6. InsertAt(s, p, e) = h \o g
  BY <1>4
<1> HIDE DEF h
<1>7. h \o g \in Seq(S) /\ Len(h \o g) = Len(s) + 1
  <2>1. h \o g \in Seq(S) /\ Len(h \o g) = Len(h) + Len(g)
    BY <1>3, <1>5, ConcatProperties, Zenon
  <2>2. QED
    BY <1>1, <1>3, <1>5, <2>1
<1>8. ASSUME NEW j \in 1 .. Len(s) + 1
      PROVE  (h \o g)[j] = IF j < p THEN s[j] ELSE IF j = p THEN e ELSE s[j - 1]
  <2>1. (h \o g)[j] = IF j <= p THEN h[j] ELSE g[j - p]
    BY <1>1, <1>3, <1>5, ConcatProperties
  <2>2. CASE j <= p
    BY <1>1, <1>5, <2>1, <2>2
  <2>3. CASE j > p
    <3>1. j - p \in 1 .. Len(s) - p + 1 /\ p + (j - p) - 1 = j - 1
      BY <1>1, <2>3
    <3>2. QED
      BY <1>1, <1>3, <2>1, <2>3, <3>1
  <2>4. j <= p \/ j > p
    BY <1>1
  <2>5. QED
    BY <2>2, <2>3, <2>4, Zenon
<1>9. QED
  BY <1>6, <1>7, <1>8

\* Removing
LEMMA RemoveAtIs ==
  ASSUME NEW S, NEW s \in Seq(S), NEW p \in 1 .. Len(s)
  PROVE  /\ RemoveAt(s, p) \in Seq(S)
         /\ Len(RemoveAt(s, p)) = Len(s) - 1
         /\ \A j \in 1 .. Len(s) - 1 :
              RemoveAt(s, p)[j] = IF j < p THEN s[j] ELSE s[j + 1]
<1> DEFINE f == SubSeq(s, 1, p - 1)
           g == SubSeq(s, p + 1, Len(s))
<1>1. Len(s) \in Nat /\ p \in Int
  OBVIOUS
<1>2. f \in Seq(S) /\ Len(f) = p - 1 /\ \A i \in 1 .. p - 1 : f[i] = s[i]
  BY <1>1
<1>3. /\ g \in Seq(S) /\ Len(g) = Len(s) - p
      /\ \A i \in 1 .. Len(s) - p : g[i] = s[p + i]
  BY <1>1
<1>4. RemoveAt(s, p) = f \o g
  BY DEF RemoveAt
<1> HIDE DEF f, g
<1>5. QED
  BY <1>1, <1>2, <1>3, <1>4

\* What is left of an ordered sequence is ordered.
LEMMA WithoutOrdered ==
  ASSUME NEW S, NEW s \in Seq(S), NEW R, NEW set, NEW e,
         Ordered(s, R), Irreflexive(R), Holds(s, set)
  PROVE  /\ Without(s, e) \in Seq(S)
         /\ Ordered(Without(s, e), R)
         /\ Holds(Without(s, e), set \ {e})
<1>1. CASE ~ Contains(s, e)
  BY <1>1 DEF Without, Contains, Holds
<1>2. CASE Contains(s, e)
  <2>1. PICK p \in 1 .. Len(s) : s[p] = e /\ Without(s, e) = RemoveAt(s, p)
    <3>1. DOMAIN s = 1 .. Len(s) /\ \E i \in DOMAIN s : s[i] = e
      BY <1>2 DEF Contains
    <3>2. Without(s, e) = RemoveAt(s, CHOOSE i \in DOMAIN s : s[i] = e)
      BY <1>2 DEF Without
    <3>3. QED
      BY <3>1, <3>2, Zenon
  <2> DEFINE w == RemoveAt(s, p)
  <2>2. /\ w \in Seq(S) /\ Len(w) = Len(s) - 1 /\ Len(s) \in Nat
        /\ \A j \in 1 .. Len(s) - 1 : w[j] = IF j < p THEN s[j] ELSE s[j + 1]
    <3>1. /\ w \in Seq(S) /\ Len(w) = Len(s) - 1
          /\ \A j \in 1 .. Len(s) - 1 : w[j] = IF j < p THEN s[j] ELSE s[j + 1]
      BY RemoveAtIs, Zenon
    <3>2. Len(s) \in Nat
      OBVIOUS
    <3> QED
      BY <3>1, <3>2, Zenon
  <2> HIDE DEF w
  <2>3. \A j \in 1 .. Len(s) : s[j] = e => j = p
    <3>1. SUFFICES ASSUME NEW j \in 1 .. Len(s), s[j] = e, j # p PROVE FALSE
      OBVIOUS
    <3>2. <<e, e>> \in R
      BY <2>1, <2>2, <3>1 DEF Ordered
    <3>3. QED
      BY <3>2 DEF Irreflexive
  <2>4. Ordered(w, R)
    <3>1. SUFFICES ASSUME NEW i \in 1 .. Len(w), NEW j \in 1 .. Len(w), i < j
                   PROVE  <<w[i], w[j]>> \in R
      BY DEF Ordered
    <3>2. PICK k \in 1 .. Len(s), m \in 1 .. Len(s) : k < m /\ w[i] = s[k] /\ w[j] = s[m]
      <4>1. CASE j < p
        BY <2>2, <3>1, <4>1
      <4>2. CASE i < p /\ ~ (j < p)
        <5>1. /\ i \in 1 .. Len(s) /\ j + 1 \in 1 .. Len(s) /\ i < j + 1
              /\ w[i] = s[i] /\ w[j] = s[j + 1]
          BY <2>2, <3>1, <4>2
        <5>2. QED
          BY <5>1
      <4>3. CASE ~ (i < p)
        BY <2>2, <3>1, <4>3
      <4>4. QED
        BY <2>2, <3>1, <4>1, <4>2, <4>3
    <3>3. QED
      BY <3>2 DEF Ordered
  <2>5. Holds(w, set \ {e})
    <3>1. ASSUME NEW i \in 1 .. Len(w) PROVE w[i] \in set \ {e}
      <4>1. PICK k \in 1 .. Len(s) : k # p /\ w[i] = s[k]
        BY <2>2
      <4>2. QED
        BY <2>3, <4>1 DEF Holds
    <3>2. ASSUME NEW x \in set \ {e} PROVE \E i \in 1 .. Len(w) : w[i] = x
      <4>1. PICK k \in 1 .. Len(s) : s[k] = x
        BY DEF Holds
      <4>2. k # p
        BY <2>1, <4>1
      <4>3. CASE k < p
        BY <2>2, <4>1, <4>3
      <4>4. CASE k > p
        <5>1. k - 1 \in 1 .. Len(w) /\ w[k - 1] = s[k]
          BY <2>2, <4>4
        <5>2. QED
          BY <4>1, <5>1
      <4>5. QED
        BY <2>2, <4>2, <4>3, <4>4
    <3>3. QED
      BY <3>1, <3>2 DEF Holds
  <2>6. QED
    BY <2>1, <2>2, <2>4, <2>5 DEF w
<1>3. QED
  BY <1>1, <1>2

\* An element put where it belongs leaves a sequence ordered.
LEMMA InsertOrdered ==
  ASSUME NEW S, NEW s \in Seq(S), NEW R, NEW set, NEW e \in S, NEW p,
         Ordered(s, R), Holds(s, set), Fits(s, p, e, R)
  PROVE  /\ InsertAt(s, p, e) \in Seq(S)
         /\ Ordered(InsertAt(s, p, e), R)
         /\ Holds(InsertAt(s, p, e), set \cup {e})
<1> DEFINE w == InsertAt(s, p, e)
<1>0. /\ p \in 1 .. Len(s) + 1
      /\ \A i \in 1 .. Len(s) : IF i < p THEN <<s[i], e>> \in R ELSE <<e, s[i]>> \in R
  BY DEF Fits
<1>1. /\ w \in Seq(S) /\ Len(w) = Len(s) + 1 /\ Len(s) \in Nat
      /\ \A j \in 1 .. Len(s) + 1 : w[j] = IF j < p THEN s[j] ELSE IF j = p THEN e ELSE s[j - 1]
  BY <1>0, InsertAtIs, SMTT(30)
<1> HIDE DEF w
<1>2. Ordered(w, R)
  <2>1. SUFFICES ASSUME NEW i \in 1 .. Len(w), NEW j \in 1 .. Len(w), i < j
                 PROVE  <<w[i], w[j]>> \in R
    BY DEF Ordered
  <2>2. CASE j < p
    <3>1. j \in 1 .. Len(s) /\ i \in 1 .. Len(s) /\ w[i] = s[i] /\ w[j] = s[j]
      BY <1>0, <1>1, <2>1, <2>2
    <3>2. QED
      BY <2>1, <3>1 DEF Ordered
  <2>3. CASE j = p
    <3>1. i \in 1 .. Len(s) /\ i < p /\ w[i] = s[i] /\ w[j] = e
      BY <1>0, <1>1, <2>1, <2>3
    <3>2. QED
      BY <1>0, <3>1
  <2>4. CASE j > p /\ i < p
    <3>1. j - 1 \in 1 .. Len(s) /\ i \in 1 .. Len(s) /\ i < j - 1
      BY <1>0, <1>1, <2>1, <2>4
    <3>2. w[i] = s[i] /\ w[j] = s[j - 1]
      BY <1>0, <1>1, <2>1, <2>4
    <3>3. QED
      BY <3>1, <3>2 DEF Ordered
  <2>5. CASE j > p /\ i = p
    <3>1. j - 1 \in 1 .. Len(s) /\ ~ (j - 1 < p) /\ w[i] = e /\ w[j] = s[j - 1]
      BY <1>0, <1>1, <2>1, <2>5
    <3>2. QED
      BY <1>0, <3>1
  <2>6. CASE j > p /\ i > p
    <3>1. /\ j - 1 \in 1 .. Len(s) /\ i - 1 \in 1 .. Len(s) /\ i - 1 < j - 1
          /\ w[i] = s[i - 1] /\ w[j] = s[j - 1]
      BY <1>0, <1>1, <2>1, <2>6
    <3>2. QED
      BY <3>1 DEF Ordered
  <2>7. QED
    BY <1>0, <1>1, <2>2, <2>3, <2>4, <2>5, <2>6
<1>3. Holds(w, set \cup {e})
  <2>1. ASSUME NEW i \in 1 .. Len(w) PROVE w[i] \in set \cup {e}
    <3>1. w[i] = e \/ \E k \in 1 .. Len(s) : w[i] = s[k]
      BY <1>0, <1>1
    <3>2. QED
      BY <3>1 DEF Holds
  <2>2. ASSUME NEW x \in set \cup {e} PROVE \E i \in 1 .. Len(w) : w[i] = x
    <3>1. CASE x = e
      BY <1>0, <1>1, <3>1
    <3>2. CASE x # e
      <4>1. PICK k \in 1 .. Len(s) : s[k] = x
        BY <3>2 DEF Holds
      <4>2. CASE k < p
        BY <1>0, <1>1, <4>1, <4>2
      <4>3. CASE k >= p
        <5>1. k + 1 \in 1 .. Len(w) /\ w[k + 1] = s[k]
          BY <1>0, <1>1, <4>3
        <5>2. QED
          BY <4>1, <5>1
      <4>4. QED
        BY <1>0, <1>1, <4>2, <4>3
    <3>3. QED
      BY <3>1, <3>2
  <2>3. QED
    BY <2>1, <2>2 DEF Holds
<1>4. QED
  BY <1>0, <1>1, <1>2, <1>3 DEF w

\* So does taking the first one.
LEMMA TailOrdered ==
  ASSUME NEW S, NEW s \in Seq(S), NEW R, NEW set, s # <<>>,
         Ordered(s, R), Irreflexive(R), Holds(s, set)
  PROVE  /\ Tail(s) \in Seq(S) /\ Head(s) \in set
         /\ Ordered(Tail(s), R)
         /\ Holds(Tail(s), set \ {Head(s)})
         /\ \A x \in set \ {Head(s)} : <<Head(s), x>> \in R
<1>1. /\ Tail(s) \in Seq(S) /\ Len(Tail(s)) = Len(s) - 1 /\ Len(s) \in Nat /\ Len(s) >= 1
      /\ Head(s) = s[1]
      /\ \A i \in 1 .. Len(Tail(s)) : Tail(s)[i] = s[i + 1]
  OBVIOUS
<1>2. \A k \in 2 .. Len(s) : <<s[1], s[k]>> \in R /\ s[k] # s[1]
  BY <1>1 DEF Ordered, Irreflexive
<1>3. Ordered(Tail(s), R)
  BY <1>1 DEF Ordered
<1>4. \A x \in set \ {s[1]} : \E k \in 2 .. Len(s) : s[k] = x
  BY <1>1 DEF Holds
<1>5. Holds(Tail(s), set \ {Head(s)})
  <2>1. ASSUME NEW i \in 1 .. Len(Tail(s)) PROVE Tail(s)[i] \in set \ {Head(s)}
    <3>1. i + 1 \in 2 .. Len(s) /\ i + 1 \in 1 .. Len(s) /\ Tail(s)[i] = s[i + 1]
      BY <1>1
    <3>2. QED
      BY <1>1, <1>2, <3>1 DEF Holds
  <2>2. ASSUME NEW x \in set \ {Head(s)} PROVE \E i \in 1 .. Len(Tail(s)) : Tail(s)[i] = x
    <3>1. PICK k \in 2 .. Len(s) : s[k] = x
      BY <1>1, <1>4
    <3>2. k - 1 \in 1 .. Len(Tail(s)) /\ Tail(s)[k - 1] = s[k]
      BY <1>1
    <3>3. QED
      BY <3>1, <3>2
  <2>3. QED
    BY <2>1, <2>2 DEF Holds
<1>6. QED
  BY <1>1, <1>2, <1>3, <1>4, <1>5 DEF Holds

-----------------------------------------------------------------------------
(***************************************************************************)
(* The invariant                                                           *)
(***************************************************************************)
\* Which of two events comes first
Earlier == {p \in Event \X Event :
              due[p[1]] < due[p[2]] \/ (due[p[1]] = due[p[2]] /\ p \in older)}

\* Where in a frame things are, and how far the time is set back
PhaseInv ==
  /\ run = "none" => lag = 0 /\ ~calling
  /\ run = "ui" => left = 0 /\ lag <= Frame
  /\ lag <= 2 * Frame

\* Each list holds its queued events, in the order of the true times.
ListsInv ==
  /\ Irreflexive(older)
  /\ \A l \in Lists :
       /\ list[l] \in Seq(On(l))
       /\ Holds(list[l], queued \cap On(l))
       /\ Ordered(list[l], Earlier)

EventsInv == TypeOK /\ TimeIsKept /\ LateBounded /\ PhaseInv /\ ListsInv

LEMMA EarlierIrreflexive == TypeOK /\ Irreflexive(older) => Irreflexive(Earlier)
BY DEF TypeOK, Irreflexive, Earlier

\* Events and lists
LEMMA ListsOf ==
  /\ \A e \in Event : ListOf(e) \in Lists /\ e \in On(ListOf(e))
  /\ \A e \in Event, l \in Lists : e \in On(l) => l = ListOf(e)
  /\ \A l \in Lists : On(l) \subseteq Event
BY DEF Event, Lists, On, ListOf

\* Due times are less than half the range away.
LEMMA DueNear ==
  ASSUME EventsInv, NEW e \in queued
  PROVE  /\ due[e] \in Int /\ due[e] <= MaxDt /\ -2 * Frame <= due[e]
         /\ -Half < due[e] /\ due[e] < Half
BY DEF EventsInv, TypeOK, LateBounded, Event

\* An ordered sequence stays ordered if the order of its elements stays.
LEMMA OrderedStays ==
  ASSUME NEW s, NEW R, NEW Q, NEW set,
         Ordered(s, R), Holds(s, set),
         \A x, y \in set : <<x, y>> \in R => <<x, y>> \in Q
  PROVE  Ordered(s, Q)
BY DEF Ordered, Holds

\* It holds when XRoar starts.
LEMMA InvInit == Init => EventsInv
<1> SUFFICES ASSUME Init PROVE EventsInv
  OBVIOUS
<1>1. TypeOK
  <2>1. <<>> \in Seq(Event)
    OBVIOUS
  <2>2. list \in [Lists -> Seq(Event)]
    BY <2>1 DEF Init
  <2>3. 0 \in Ticks
    BY DEF Ticks
  <2>4. at \in [Event -> Ticks] /\ due \in [Event -> Int]
    BY <2>3 DEF Init
  <2>5. calling \in BOOLEAN
    BY Zenon DEF Init
  <2>6. run \in Lists \cup {"none"} /\ left \in 0 .. Frame /\ lag \in Nat
    BY DEF Init
  <2>7. QED
    BY <2>2, <2>3, <2>4, <2>5, <2>6 DEF Init, TypeOK
<1>2. TimeIsKept /\ LateBounded /\ PhaseInv
  BY DEF Init, TimeIsKept, LateBounded, PhaseInv, Present, Wrap
<1>3. Irreflexive(older)
  BY DEF Init, Irreflexive
<1>4. ASSUME NEW l \in Lists
      PROVE  list[l] \in Seq(On(l)) /\ Holds(list[l], queued \cap On(l)) /\ Ordered(list[l], Earlier)
  <2>1. list[l] = <<>> /\ queued = {}
    BY DEF Init
  <2>2. QED
    BY <2>1 DEF Holds, Ordered
<1>5. QED
  BY <1>1, <1>2, <1>3, <1>4 DEF EventsInv, ListsInv

\* Scheduling
LEMMA InvQueue ==
  ASSUME EventsInv, NEW e \in Event, NEW dt \in 1 .. MaxDt, Queue(e, dt)
  PROVE  EventsInv'
<1> DEFINE l == ListOf(e)
           s == Without(list[l], e)
           d == dt - lag
<1>1. /\ clock \in Ticks /\ to \in Ticks /\ Present \in Ticks /\ Present' = Present
      /\ lag \in Nat /\ lag <= 2 * Frame /\ lag' = lag /\ clock' = clock
      /\ at \in [Event -> Ticks] /\ due \in [Event -> Int] /\ queued \subseteq Event
      /\ queued' = queued \cup {e} /\ queued' \subseteq Event
      /\ older \subseteq Event \X Event
  BY DEF EventsInv, TypeOK, PhaseInv, Queue, Present
<1>2. l \in Lists /\ e \in On(l)
  BY ListsOf
<1>3. /\ at' = [at EXCEPT ![e] = Wrap(clock + dt)] /\ due' = [due EXCEPT ![e] = d]
      /\ older' = Forget(e) \cup {<<x, e>> : x \in queued \ {e}}
  BY DEF Queue, Remembered
<1>4. d \in Int /\ d <= MaxDt /\ 1 - lag <= d /\ -Half < d /\ d < Half /\ dt \in Int /\ dt < Half
  BY <1>1
<1>5. Wrap(clock + dt) = Wrap(Present + d) /\ Wrap(clock + dt) \in Ticks
  <2>1. clock = Wrap(Present + (-lag)) /\ -lag \in Int /\ -Half < -lag /\ -lag < Half
    <3>1. clock = Wrap(Present - lag)
      BY DEF EventsInv, TimeIsKept
    <3>2. Present - lag = Present + (-lag)
      BY <1>1 DEF Ticks
    <3>3. -lag \in Int /\ -Half < -lag /\ -lag < Half
      BY <1>1
    <3>4. QED
      BY <3>1, <3>2, <3>3
  <2>2. Wrap(Wrap(Present + (-lag)) + dt) = Wrap(Present + (-lag) + dt)
    BY <1>1, <1>4, <2>1, WrapAdds
  <2>3. Present + (-lag) + dt = Present + d
    BY <1>1, <1>4 DEF Ticks
  <2>4. Wrap(Present + d) \in Ticks
    BY <1>1, <1>4, WrapInTicks
  <2>5. QED
    BY <2>1, <2>2, <2>3, <2>4
<1>6. /\ s \in Seq(On(l)) /\ Ordered(s, Earlier) /\ Holds(s, (queued \cap On(l)) \ {e})
  BY <1>2, WithoutOrdered, EarlierIrreflexive DEF EventsInv, ListsInv
<1>7. PICK p \in 1 .. Len(s) + 1 :
        Place(s, p, Wrap(clock + dt)) /\ list' = [list EXCEPT ![l] = InsertAt(s, p, e)]
  BY DEF Queue
<1> HIDE DEF s, d, l
<1>8. Len(s) \in Nat /\ \A i \in 1 .. Len(s) : s[i] \in queued /\ s[i] # e /\ s[i] \in On(l) /\ s[i] \in Event
  BY <1>1, <1>6 DEF Holds
<1>9. \A i \in 1 .. Len(s) : Delta(Wrap(clock + dt), at[s[i]]) = d - due[s[i]]
  <2>1. SUFFICES ASSUME NEW i \in 1 .. Len(s)
                 PROVE  Delta(Wrap(clock + dt), at[s[i]]) = d - due[s[i]]
    OBVIOUS
  <2>2. /\ due[s[i]] \in Int /\ due[s[i]] <= MaxDt /\ -2 * Frame <= due[s[i]]
        /\ -Half < due[s[i]] /\ due[s[i]] < Half
    BY <1>8, DueNear
  <2>3. at[s[i]] = Wrap(Present + due[s[i]])
    BY <1>8 DEF EventsInv, TimeIsKept
  <2>4. -Half < d - due[s[i]] /\ d - due[s[i]] < Half
    BY <1>1, <1>4, <2>2
  <2>5. QED
    BY <1>1, <1>4, <1>5, <2>2, <2>3, <2>4, DeltaIsDifference
<1>10. \A x \in queued \ {e} : due'[x] = due[x] /\ due[x] \in Int /\ x \in Event
  BY <1>1, <1>3
<1>11. due'[e] = d
  BY <1>1, <1>3
<1>12. \A x, y \in queued \ {e} : <<x, y>> \in Earlier => <<x, y>> \in Earlier'
  BY <1>1, <1>3, <1>10 DEF Earlier, Forget
<1>13. \A x \in queued \ {e} : due[x] <= d => <<x, e>> \in Earlier'
  BY <1>1, <1>3, <1>4, <1>10, <1>11 DEF Earlier
<1>14. \A x \in queued \ {e} : d < due[x] => <<e, x>> \in Earlier'
  BY <1>1, <1>3, <1>4, <1>10, <1>11 DEF Earlier
<1>15. \A i \in 1 .. Len(s) :
         IF i < p THEN <<s[i], e>> \in Earlier' ELSE <<e, s[i]>> \in Earlier'
  <2>1. SUFFICES ASSUME NEW i \in 1 .. Len(s)
                 PROVE  IF i < p THEN <<s[i], e>> \in Earlier' ELSE <<e, s[i]>> \in Earlier'
    OBVIOUS
  <2>2. s[i] \in queued \ {e} /\ due[s[i]] \in Int
    BY <1>8, <1>10
  <2>3. CASE i < p
    <3>1. Delta(Wrap(clock + dt), at[s[i]]) >= 0
      BY <1>7, <1>8, <2>3 DEF Place
    <3>2. due[s[i]] <= d
      BY <1>4, <1>9, <2>2, <3>1
    <3>3. QED
      BY <1>13, <2>2, <2>3, <3>2
  <2>4. CASE ~ (i < p)
    <3>1. p \in 1 .. Len(s) /\ Delta(Wrap(clock + dt), at[s[p]]) < 0
      BY <1>7, <1>8, <2>4 DEF Place
    <3>2. s[p] \in queued \ {e} /\ due[s[p]] \in Int
      BY <1>8, <1>10, <3>1
    <3>3. d < due[s[p]]
      BY <1>4, <1>9, <3>1, <3>2
    <3>4. p = i \/ <<s[p], s[i]>> \in Earlier
      BY <1>6, <1>8, <2>4, <3>1 DEF Ordered
    <3>5. d < due[s[i]]
      BY <1>4, <2>2, <3>2, <3>3, <3>4 DEF Earlier
    <3>6. QED
      BY <1>14, <2>2, <2>4, <3>5
  <2>5. QED
    BY <2>3, <2>4
<1>16. Ordered(s, Earlier')
  BY <1>6, <1>12, OrderedStays
<1>17. /\ InsertAt(s, p, e) \in Seq(On(l))
       /\ Ordered(InsertAt(s, p, e), Earlier')
       /\ Holds(InsertAt(s, p, e), ((queued \cap On(l)) \ {e}) \cup {e})
  <2> DEFINE R == Earlier'
             q == (queued \cap On(l)) \ {e}
             S == On(l)
  <2>1. s \in Seq(S) /\ e \in S /\ Ordered(s, R) /\ Holds(s, q) /\ Fits(s, p, e, R)
    BY <1>2, <1>6, <1>15, <1>16 DEF Fits
  <2> HIDE DEF R, q, S
  <2>2. /\ InsertAt(s, p, e) \in Seq(S)
        /\ Ordered(InsertAt(s, p, e), R)
        /\ Holds(InsertAt(s, p, e), q \cup {e})
    BY <2>1, InsertOrdered, Zenon
  <2>3. QED
    BY <2>2 DEF R, q, S
<1>18. list \in [Lists -> Seq(Event)] /\ list'[l] = InsertAt(s, p, e)
  BY <1>2, <1>7 DEF EventsInv, TypeOK
<1>19. ListsInv'
  <2>1. Irreflexive(older')
    BY <1>3 DEF EventsInv, ListsInv, Irreflexive, Forget
  <2>2. ASSUME NEW m \in Lists
        PROVE  /\ list'[m] \in Seq(On(m))
               /\ Holds(list'[m], queued' \cap On(m)) /\ Ordered(list'[m], Earlier')
    <3>1. CASE m = l
      <4>1. ((queued \cap On(l)) \ {e}) \cup {e} = queued' \cap On(l)
        BY <1>1, <1>2
      <4>2. QED
        BY <1>17, <1>18, <3>1, <4>1
    <3>2. CASE m # l
      <4>1. list'[m] = list[m]
        BY <1>7, <1>18, <3>2
      <4>2. e \notin On(m)
        BY <1>2, <3>2, ListsOf DEF l
      <4>3. queued' \cap On(m) = queued \cap On(m) /\ queued \cap On(m) \subseteq queued \ {e}
        BY <1>1, <4>2
      <4>4. Ordered(list[m], Earlier')
        <5>1. Ordered(list[m], Earlier) /\ Holds(list[m], queued \cap On(m))
          BY DEF EventsInv, ListsInv
        <5>2. \A x, y \in queued \cap On(m) : <<x, y>> \in Earlier => <<x, y>> \in Earlier'
          BY <1>12, <4>3
        <5>3. QED
          BY <5>1, <5>2, OrderedStays
      <4>5. QED
        BY <4>1, <4>3, <4>4 DEF EventsInv, ListsInv
    <3>3. QED
      BY <3>1, <3>2
  <2>3. QED
    BY <2>1, <2>2 DEF ListsInv, Earlier
<1>20. TypeOK'
  <2>1. list' \in [Lists -> Seq(Event)]
    <3>1. InsertAt(s, p, e) \in Seq(Event)
      BY <1>2, <1>17, ListsOf
    <3>2. QED
      BY <1>7, <1>18, <3>1
  <2>2. older' \subseteq Event \X Event
    BY <1>1, <1>3 DEF Forget
  <2>3. at' \in [Event -> Ticks] /\ due' \in [Event -> Int]
    BY <1>1, <1>3, <1>4, <1>5
  <2>4. QED
    BY <1>1, <2>1, <2>2, <2>3 DEF EventsInv, TypeOK, Queue
<1>21. TimeIsKept'
  <2>1. ASSUME NEW x \in queued' PROVE at'[x] = Wrap(Present + due'[x])
    BY <1>1, <1>3, <1>5, <1>10, <1>11 DEF EventsInv, TimeIsKept
  <2>2. QED
    BY <1>1, <2>1 DEF EventsInv, TimeIsKept
<1>22. LateBounded' /\ PhaseInv'
  <2>1. run' = run /\ left' = left /\ calling' = calling /\ left \in 0 .. Frame /\ run \in {"none", "ui", "machine"}
    BY DEF Queue, EventsInv, TypeOK, Lists
  <2>2. e \in UiEvents => d >= left - Frame
    BY <1>1, <1>4, <2>1 DEF Queue, EventsInv, PhaseInv, d
  <2>3. e \in MachineEvents => d >= IF run = "machine" THEN -2 * Frame ELSE -Frame
    BY <1>1, <1>4, <2>1 DEF EventsInv, PhaseInv
  <2>4. PhaseInv'
    BY <1>1, <2>1 DEF EventsInv, PhaseInv
  <2>5. \A x \in queued' : x = e \/ (x \in queued /\ due'[x] = due[x])
    BY <1>1, <1>10
  <2>6. LateBounded'
    BY <1>1, <1>4, <1>11, <2>1, <2>2, <2>3, <2>5 DEF EventsInv, LateBounded
  <2>7. QED
    BY <2>4, <2>6
<1>23. QED
  BY <1>19, <1>20, <1>21, <1>22 DEF EventsInv

\* What taking an event off its list does to the order of the others
LEMMA ForgottenOrder ==
  ASSUME EventsInv, NEW e \in Event, queued' = queued \ {e}, Forgotten(e)
  PROVE  /\ Irreflexive(older') /\ older' \subseteq Event \X Event
         /\ due' \in [Event -> Int]
         /\ \A x \in queued' : due'[x] = due[x] /\ x \in queued /\ x # e
         /\ \A x, y \in queued' : <<x, y>> \in Earlier => <<x, y>> \in Earlier'
<1>1. due \in [Event -> Int] /\ older \subseteq Event \X Event /\ queued \subseteq Event
  BY DEF EventsInv, TypeOK
<1>2. due' = [due EXCEPT ![e] = 0] /\ older' = Forget(e)
  BY DEF Forgotten
<1>3. Irreflexive(older') /\ older' \subseteq Event \X Event
  BY <1>1, <1>2 DEF Forget, Irreflexive, EventsInv, ListsInv
<1>4. due' \in [Event -> Int]
  BY <1>1, <1>2
<1>5. \A x \in queued' : due'[x] = due[x] /\ x \in queued /\ x # e /\ x \in Event
  BY <1>1, <1>2
<1>6. ASSUME NEW x \in queued', NEW y \in queued', <<x, y>> \in Earlier
      PROVE  <<x, y>> \in Earlier'
  BY <1>1, <1>2, <1>5, <1>6 DEF Earlier, Forget
<1>7. QED
  BY <1>3, <1>4, <1>5, <1>6

\* A list without one of its events, and the others as they were, still is what
\* it should be.
LEMMA ListsShrink ==
  ASSUME EventsInv, NEW l \in Lists, NEW e \in On(l), queued' = queued \ {e}, Forgotten(e),
         NEW s \in Seq(On(l)), list' = [list EXCEPT ![l] = s],
         Ordered(s, Earlier), Holds(s, (queued \cap On(l)) \ {e})
  PROVE  ListsInv' /\ list' \in [Lists -> Seq(Event)]
<1>1. e \in Event /\ On(l) \subseteq Event /\ list \in [Lists -> Seq(Event)]
  BY ListsOf DEF EventsInv, TypeOK
<1>2. /\ Irreflexive(older')
      /\ \A x, y \in queued' : <<x, y>> \in Earlier => <<x, y>> \in Earlier'
  BY <1>1, ForgottenOrder
<1>3. ASSUME NEW m \in Lists
      PROVE  /\ list'[m] \in Seq(On(m))
             /\ Holds(list'[m], queued' \cap On(m)) /\ Ordered(list'[m], Earlier')
  <2>1. CASE m = l
    <3>1. list'[m] = s /\ (queued \cap On(l)) \ {e} = queued' \cap On(m)
      BY <1>1, <2>1
    <3>2. \A x, y \in queued' \cap On(m) : <<x, y>> \in Earlier => <<x, y>> \in Earlier'
      BY <1>2
    <3>3. Ordered(s, Earlier')
      BY <3>1, <3>2, OrderedStays
    <3>4. QED
      BY <2>1, <3>1, <3>3
  <2>2. CASE m # l
    <3>1. list'[m] = list[m] /\ e \notin On(m)
      BY <1>1, <2>2, ListsOf
    <3>2. queued' \cap On(m) = queued \cap On(m)
      BY <3>1
    <3>3. \A x, y \in queued \cap On(m) : <<x, y>> \in Earlier => <<x, y>> \in Earlier'
      BY <1>2, <3>2
    <3>4. /\ Ordered(list[m], Earlier) /\ Holds(list[m], queued \cap On(m))
          /\ list[m] \in Seq(On(m))
      BY DEF EventsInv, ListsInv
    <3>5. Ordered(list[m], Earlier')
      BY <3>3, <3>4, OrderedStays
    <3>6. QED
      BY <3>1, <3>2, <3>4, <3>5
  <2>3. QED
    BY <2>1, <2>2
<1>4. list' \in [Lists -> Seq(Event)]
  <2>1. s \in Seq(Event)
    BY <1>1
  <2>2. QED
    BY <1>1, <2>1
<1>5. QED
  BY <1>2, <1>3, <1>4 DEF ListsInv, Earlier

\* Cancelling
LEMMA InvDequeue ==
  ASSUME EventsInv, NEW e \in Event, Dequeue(e)
  PROVE  EventsInv'
<1> DEFINE l == ListOf(e)
           s == Without(list[l], e)
<1>1. /\ queued' = queued \ {e} /\ Forgotten(e) /\ list' = [list EXCEPT ![l] = s]
      /\ at' = [at EXCEPT ![e] = 0]
      /\ UNCHANGED <<clock, run, to, calling, left, lag>>
  BY DEF Dequeue
<1>2. l \in Lists /\ e \in On(l)
  BY ListsOf
<1>3. s \in Seq(On(l)) /\ Ordered(s, Earlier) /\ Holds(s, (queued \cap On(l)) \ {e})
  BY <1>2, WithoutOrdered, EarlierIrreflexive DEF EventsInv, ListsInv
<1> HIDE DEF l, s
<1>4. ListsInv' /\ list' \in [Lists -> Seq(Event)]
  BY <1>1, <1>2, <1>3, ListsShrink
<1>5. /\ older' \subseteq Event \X Event /\ due' \in [Event -> Int]
      /\ \A x \in queued' : due'[x] = due[x] /\ x \in queued /\ x # e
  BY <1>1, ForgottenOrder
<1>6. TypeOK'
  <2>1. calling' \in BOOLEAN
    BY <1>1 DEF EventsInv, TypeOK
  <2>2. at' \in [Event -> Ticks]
    BY <1>1 DEF EventsInv, TypeOK, Ticks
  <2>3. QED
    BY <1>1, <1>4, <1>5, <2>1, <2>2 DEF EventsInv, TypeOK
<1>7. TimeIsKept'
  BY <1>1, <1>5 DEF EventsInv, TypeOK, TimeIsKept, Present
<1>8. LateBounded' /\ PhaseInv'
  BY <1>1, <1>5 DEF EventsInv, LateBounded, PhaseInv
<1>9. QED
  BY <1>4, <1>6, <1>7, <1>8 DEF EventsInv

\* The time until the first event of a list is due
LEMMA PendingMeans ==
  ASSUME EventsInv, run # "none", list[run] # <<>>
  PROVE  /\ run \in Lists /\ Head(list[run]) \in queued \cap On(run)
         /\ Delta(to, at[Head(list[run])]) = -due[Head(list[run])]
<1>1. run \in Lists /\ to \in Ticks /\ Present = to
  BY DEF EventsInv, TypeOK, Present
<1>2. Head(list[run]) \in queued \cap On(run)
  <2>1. list[run] \in Seq(On(run)) /\ Holds(list[run], queued \cap On(run))
    BY <1>1 DEF EventsInv, ListsInv
  <2>2. 1 \in 1 .. Len(list[run]) /\ Head(list[run]) = list[run][1]
    BY <2>1
  <2>3. QED
    BY <2>1, <2>2 DEF Holds
<1> DEFINE e == Head(list[run])
<1> HIDE DEF e
<1>3. e \in queued /\ at[e] = Wrap(to + due[e])
  BY <1>1, <1>2 DEF EventsInv, TimeIsKept, e
<1>4. due[e] \in Int /\ -Half < due[e] /\ due[e] < Half
  BY <1>3, DueNear
<1>5. to = Wrap(to + 0)
  BY <1>1 DEF Wrap, Ticks
<1>6. Delta(Wrap(to + 0), Wrap(to + due[e])) = 0 - due[e]
  BY <1>1, <1>4, DeltaIsDifference
<1>7. QED
  BY <1>1, <1>2, <1>3, <1>4, <1>5, <1>6 DEF e

\* When the first event is not due, none is.
LEMMA NonePending ==
  ASSUME EventsInv, run # "none", ~ Pending(run)
  PROVE  \A x \in queued \cap On(run) : due[x] \in Int /\ due[x] > 0
<1>1. run \in Lists
  BY DEF EventsInv, TypeOK
<1>2. /\ list[run] \in Seq(On(run)) /\ Holds(list[run], queued \cap On(run))
      /\ Ordered(list[run], Earlier) /\ Irreflexive(Earlier)
  BY <1>1, EarlierIrreflexive DEF EventsInv, ListsInv
<1>3. CASE list[run] = <<>>
  BY <1>2, <1>3 DEF Holds
<1>4. CASE list[run] # <<>>
  <2> DEFINE e == Head(list[run])
  <2>1. e \in queued /\ Delta(to, at[e]) = -due[e]
    BY <1>4, PendingMeans
  <2>2. \A x \in (queued \cap On(run)) \ {e} : <<e, x>> \in Earlier
    BY <1>2, <1>4, TailOrdered, Zenon
  <2>3. ~ (Delta(to, at[e]) >= 0)
    BY <1>4 DEF Pending
  <2> HIDE DEF e
  <2>4. due[e] \in Int /\ due[e] > 0
    BY <2>1, <2>3, DueNear
  <2>5. \A x \in queued : due[x] \in Int
    BY DueNear
  <2>6. ASSUME NEW x \in queued \cap On(run), x # e PROVE due[x] > 0
    <3>1. <<e, x>> \in Earlier
      BY <2>2, <2>6
    <3>2. due[e] <= due[x]
      BY <2>4, <2>5, <3>1 DEF Earlier
    <3>3. QED
      BY <2>4, <2>5, <3>2
  <2>7. QED
    BY <2>4, <2>5, <2>6
<1>5. QED
  BY <1>3, <1>4

\* Calling the delegate of the first event
LEMMA InvDispatch == EventsInv /\ Dispatch => EventsInv'
<1> SUFFICES ASSUME EventsInv, Dispatch PROVE EventsInv'
  OBVIOUS
<1> DEFINE e == Head(list[run])
           s == Tail(list[run])
<1>1. /\ run # "none" /\ list[run] # <<>> /\ Delta(to, at[e]) >= 0
      /\ list' = [list EXCEPT ![run] = s] /\ queued' = queued \ {e}
      /\ clock' = at[e] /\ at' = [at EXCEPT ![e] = 0] /\ lag' = -due[e]
      /\ Forgotten(e) /\ calling' = TRUE /\ UNCHANGED <<run, to, left>>
  BY DEF Dispatch, Pending
<1>2. run \in Lists /\ e \in queued /\ e \in On(run) /\ Delta(to, at[e]) = -due[e]
  BY <1>1, PendingMeans
<1>3. s \in Seq(On(run)) /\ Ordered(s, Earlier) /\ Holds(s, (queued \cap On(run)) \ {e})
  <2>1. /\ list[run] \in Seq(On(run)) /\ Ordered(list[run], Earlier)
        /\ Holds(list[run], queued \cap On(run)) /\ Irreflexive(Earlier)
    BY <1>2, EarlierIrreflexive DEF EventsInv, ListsInv
  <2>2. QED
    BY <1>1, <2>1, TailOrdered, Zenon
<1> HIDE DEF e, s
<1>4. ListsInv' /\ list' \in [Lists -> Seq(Event)]
  BY <1>1, <1>2, <1>3, ListsShrink
<1>5. /\ due[e] \in Int /\ due[e] <= 0 /\ -2 * Frame <= due[e] /\ e \in Event
      /\ run = "ui" => -Frame <= due[e]
  <2>1. due[e] \in Int /\ due[e] <= 0 /\ -2 * Frame <= due[e]
    BY <1>1, <1>2, DueNear
  <2>2. run = "ui" => -Frame <= due[e]
    BY <1>2 DEF EventsInv, LateBounded, PhaseInv, On
  <2>3. QED
    BY <1>2, <2>1, <2>2 DEF EventsInv, TypeOK
<1>6. /\ older' \subseteq Event \X Event /\ due' \in [Event -> Int]
      /\ \A x \in queued' : due'[x] = due[x] /\ x \in queued /\ x # e
  BY <1>1, <1>5, ForgottenOrder
<1>7. TypeOK'
  <2>1. at' \in [Event -> Ticks] /\ clock' \in Ticks /\ lag' \in Nat /\ calling' \in BOOLEAN
    <3>1. 0 \in Ticks /\ at \in [Event -> Ticks]
      BY DEF EventsInv, TypeOK, Ticks
    <3>2. calling' \in BOOLEAN
      BY <1>1
    <3>3. QED
      BY <1>1, <1>5, <3>1, <3>2
  <2>2. QED
    BY <1>1, <1>4, <1>6, <2>1 DEF EventsInv, TypeOK
<1>8. TimeIsKept'
  <2>1. Present = to /\ Present' = to
    BY <1>1 DEF Present
  <2>2. at[e] = Wrap(to + due[e]) /\ to + due[e] = to - lag'
    BY <1>1, <1>2, <1>5, <2>1 DEF EventsInv, TimeIsKept, TypeOK, Ticks
  <2>3. \A x \in queued' : at'[x] = at[x] /\ at[x] = Wrap(to + due'[x])
    BY <1>1, <1>6, <2>1 DEF EventsInv, TimeIsKept, TypeOK
  <2>4. QED
    BY <1>1, <2>1, <2>2, <2>3 DEF TimeIsKept
<1>9. LateBounded' /\ PhaseInv'
  BY <1>1, <1>5, <1>6 DEF EventsInv, LateBounded, PhaseInv
<1>10. QED
  BY <1>4, <1>7, <1>8, <1>9 DEF EventsInv

\* The end of a run
LEMMA InvRunEnds == EventsInv /\ RunEnds => EventsInv'
<1> SUFFICES ASSUME EventsInv, RunEnds PROVE EventsInv'
  OBVIOUS
<1>1. /\ run # "none" /\ run' = "none" /\ calling' = FALSE /\ lag' = 0
      /\ clock' = to /\ to' = 0 /\ left' \in 0 .. Frame
      /\ run # "ui" => left' = left
      /\ list' = list /\ queued' = queued /\ at' = at /\ due' = due /\ older' = older
  BY DEF RunEnds, EventsInv, TypeOK
<1>2. \A x \in queued \cap On(run) : due[x] \in Int /\ due[x] > 0
  BY NonePending DEF RunEnds
<1>3. TypeOK'
  <2>1. calling' \in BOOLEAN
    BY <1>1
  <2>2. QED
    BY <1>1, <2>1 DEF EventsInv, TypeOK, Ticks
<1>4. TimeIsKept'
  <2>1. Present = to /\ Present' = to /\ to \in Ticks
    BY <1>1 DEF Present, EventsInv, TypeOK
  <2>2. to = Wrap(to - 0)
    BY <2>1 DEF Wrap, Ticks
  <2>3. QED
    BY <1>1, <2>1, <2>2 DEF EventsInv, TimeIsKept
<1>5. LateBounded'
  <2>1. \A x \in queued : due[x] \in Int
    BY DueNear
  <2>2. run \in Lists /\ left \in 0 .. Frame
    BY <1>1 DEF EventsInv, TypeOK
  <2>3. ASSUME NEW x \in queued \cap UiEvents PROVE due[x] >= left' - Frame
    BY <1>1, <1>2, <2>1, <2>2 DEF EventsInv, LateBounded, Lists, On
  <2>4. ASSUME NEW x \in queued \cap MachineEvents PROVE due[x] >= -Frame
    BY <1>1, <1>2, <2>1, <2>2 DEF EventsInv, LateBounded, Lists, On
  <2>5. QED
    BY <1>1, <2>3, <2>4 DEF EventsInv, LateBounded
<1>6. PhaseInv'
  BY <1>1 DEF PhaseInv
<1>7. ListsInv'
  BY <1>1 DEF EventsInv, ListsInv, Earlier
<1>8. QED
  BY <1>3, <1>4, <1>5, <1>6, <1>7 DEF EventsInv

\* The beginning of a run: time goes on by dt.
LEMMA InvRunQueue ==
  ASSUME EventsInv, NEW l \in Lists, NEW dt \in 0 .. Frame, RunQueue(l, dt),
         left' = left - dt, left' \in Nat, l = "ui" => left = 0 /\ dt = 0
  PROVE  EventsInv'
<1>1. /\ run = "none" /\ run' = l /\ to' = Wrap(clock + dt) /\ lag' = dt
      /\ due' = [x \in Event |-> IF x \in queued THEN due[x] - dt ELSE 0]
      /\ UNCHANGED <<clock, list, queued, at, calling, older>>
  BY DEF RunQueue
<1>2. /\ clock \in Ticks /\ clock' = clock /\ lag = 0 /\ Present = clock /\ Present' = to' /\ ~ calling
      /\ queued \subseteq Event /\ queued' = queued /\ due \in [Event -> Int] /\ l # "none"
      /\ left \in 0 .. Frame /\ dt \in Int /\ dt < Half /\ -Half < dt /\ older' = older
  BY <1>1 DEF EventsInv, TypeOK, PhaseInv, Present, Lists
<1>3. \A x \in queued : due'[x] = due[x] - dt
  BY <1>1, <1>2
<1>4. TypeOK'
  <2>1. to' \in Ticks
    BY <1>1, <1>2, WrapInTicks
  <2>2. due' \in [Event -> Int]
    BY <1>1, <1>2
  <2>3. calling' \in BOOLEAN
    BY <1>1 DEF EventsInv, TypeOK
  <2>4. QED
    BY <1>1, <1>2, <2>1, <2>2, <2>3 DEF EventsInv, TypeOK
<1>5. TimeIsKept'
  <2>1. clock = Wrap(to' - dt)
    <3>1. Wrap(Wrap(clock + dt) + (0 - dt)) = Wrap(clock + 0) /\ clock + 0 = clock
      <4>1. 0 \in Int /\ -Half < 0 /\ 0 < Half /\ -Half < 0 - dt /\ 0 - dt < Half
        BY <1>2
      <4>2. Wrap(Wrap(clock + dt) + (0 - dt)) = Wrap(clock + 0)
        BY <1>2, <4>1, WrapBack
      <4>3. clock + 0 = clock
        BY <1>2 DEF Ticks
      <4>4. QED
        BY <4>2, <4>3
    <3>2. to' \in Int /\ Wrap(clock) = clock
      BY <1>2, <1>4 DEF TypeOK, Ticks, Wrap
    <3>3. to' + (0 - dt) = to' - dt
      BY <1>2, <3>2
    <3>4. QED
      BY <1>1, <3>1, <3>2, <3>3
  <2>2. ASSUME NEW x \in queued PROVE at[x] = Wrap(to' + due'[x])
    <3>1. /\ due[x] \in Int /\ -2 * Frame <= due[x] /\ due[x] <= MaxDt
          /\ -Half < due[x] /\ due[x] < Half
      BY DueNear
    <3>2. at[x] = Wrap(clock + due[x])
      BY <1>2 DEF EventsInv, TimeIsKept
    <3>3. -Frame <= due[x]
      <4>1. x \in UiEvents \/ x \in MachineEvents
        BY <1>2 DEF Event
      <4>2. x \in UiEvents => due[x] >= left - Frame
        BY DEF EventsInv, LateBounded
      <4>3. x \in MachineEvents => due[x] >= -Frame
        BY <1>1 DEF EventsInv, LateBounded
      <4>4. QED
        BY <1>2, <3>1, <4>1, <4>2, <4>3
    <3>4. -Half < due[x] - dt /\ due[x] - dt < Half
      BY <1>2, <3>1, <3>3
    <3>5. Wrap(Wrap(clock + dt) + (due[x] - dt)) = Wrap(clock + due[x])
      BY <1>2, <3>1, <3>4, WrapBack
    <3>6. QED
      BY <1>1, <1>3, <3>2, <3>5
  <2>3. QED
    BY <1>1, <1>2, <2>1, <2>2 DEF TimeIsKept
<1>6. LateBounded'
  <2>1. \A x \in queued : due[x] \in Int
    BY DueNear
  <2>2. ASSUME NEW x \in queued PROVE due'[x] <= MaxDt
    BY <1>2, <1>3, <2>1 DEF EventsInv, LateBounded
  <2>3. ASSUME NEW x \in queued \cap UiEvents PROVE due'[x] >= left' - Frame
    <3>1. due[x] >= left - Frame /\ due'[x] = due[x] - dt
      BY <1>3 DEF EventsInv, LateBounded
    <3>2. QED
      BY <1>2, <2>1, <3>1
  <2>4. ASSUME NEW x \in queued \cap MachineEvents
        PROVE  due'[x] >= IF run' = "machine" THEN -2 * Frame ELSE -Frame
    <3>1. due[x] >= -Frame /\ due'[x] = due[x] - dt
      BY <1>1, <1>3 DEF EventsInv, LateBounded
    <3>2. l = "machine" \/ dt = 0
      BY DEF Lists
    <3>3. QED
      BY <1>1, <1>2, <2>1, <3>1, <3>2
  <2>5. QED
    BY <1>2, <2>2, <2>3, <2>4 DEF LateBounded
<1>7. PhaseInv'
  BY <1>1, <1>2 DEF PhaseInv
<1>8. ListsInv'
  <2>1. \A x, y \in queued : <<x, y>> \in Earlier => <<x, y>> \in Earlier'
    <3>1. SUFFICES ASSUME NEW x \in queued, NEW y \in queued, <<x, y>> \in Earlier
                   PROVE  <<x, y>> \in Earlier'
      OBVIOUS
    <3>2. due'[x] = due[x] - dt /\ due'[y] = due[y] - dt /\ due[x] \in Int /\ due[y] \in Int
      BY <1>3, DueNear
    <3>3. QED
      BY <1>2, <3>1, <3>2 DEF Earlier
  <2>2. ASSUME NEW m \in Lists
        PROVE  /\ list'[m] \in Seq(On(m))
               /\ Holds(list'[m], queued' \cap On(m)) /\ Ordered(list'[m], Earlier')
    <3>1. /\ list' = list /\ list[m] \in Seq(On(m)) /\ Ordered(list[m], Earlier)
          /\ Holds(list[m], queued \cap On(m))
      BY <1>1 DEF EventsInv, ListsInv
    <3>2. \A x, y \in queued \cap On(m) : <<x, y>> \in Earlier => <<x, y>> \in Earlier'
      BY <2>1
    <3>3. Ordered(list[m], Earlier')
      BY <3>1, <3>2, OrderedStays
    <3>4. QED
      BY <1>2, <3>1, <3>3
  <2>3. Irreflexive(older')
    BY <1>2 DEF EventsInv, ListsInv
  <2>4. QED
    BY <2>2, <2>3 DEF ListsInv, Earlier
<1>9. QED
  BY <1>4, <1>5, <1>6, <1>7, <1>8 DEF EventsInv

\* Every step preserves the invariant.
LEMMA InvNext == EventsInv /\ [Next]_eventVars => EventsInv'
<1> SUFFICES ASSUME EventsInv, [Next]_eventVars PROVE EventsInv'
  OBVIOUS
<1>1. ASSUME NEW e \in Event, NEW dt \in 1 .. MaxDt, Queue(e, dt) PROVE EventsInv'
  BY <1>1, InvQueue
<1>2. ASSUME NEW e \in Event, Dequeue(e) PROVE EventsInv'
  BY <1>2, InvDequeue
<1>3. CASE RunUi
  <2>1. left \in 0 .. Frame
    BY DEF EventsInv, TypeOK
  <2>2. "ui" \in Lists /\ 0 \in 0 .. Frame /\ left' = left - 0 /\ left' \in Nat
    BY <1>3, <2>1 DEF RunUi, Lists
  <2>3. QED
    BY <1>3, <2>2, InvRunQueue DEF RunUi
<1>4. CASE RunMachine
  <2>1. left \in 0 .. Frame
    BY DEF EventsInv, TypeOK
  <2>2. PICK dt \in 1 .. left : RunQueue("machine", dt) /\ left' = left - dt
    BY <1>4 DEF RunMachine
  <2>3. "machine" \in Lists /\ dt \in 0 .. Frame /\ left' \in Nat
    BY <2>1, <2>2 DEF Lists
  <2>4. QED
    BY <2>2, <2>3, InvRunQueue
<1>5. CASE Dispatch
  BY <1>5, InvDispatch
<1>6. CASE RunEnds
  BY <1>6, InvRunEnds
<1>7. CASE UNCHANGED eventVars
  BY <1>7 DEF eventVars, historyVars, EventsInv, TypeOK, TimeIsKept, Present, LateBounded,
              PhaseInv, ListsInv, Earlier
<1>8. QED
  BY <1>1, <1>2, <1>3, <1>4, <1>5, <1>6, <1>7 DEF Next, Scheduling, Running

\* The invariant, of every reachable state
LEMMA InvAlways == Spec => []EventsInv
<1>1. QED
  BY InvInit, InvNext, PTL DEF Spec

-----------------------------------------------------------------------------
\* The wrapped times are the true ones: event_current_tick loses nothing when a
\* delegate is called with the time set back.
THEOREM TimeKept == Spec => []TimeIsKept
<1>1. EventsInv => TimeIsKept
  BY DEF EventsInv
<1>2. QED
  BY <1>1, InvAlways, PTL

\* No event is more than two frames late, so that no comparison of two times
\* goes round.
THEOREM NeverLater == Spec => []LateBounded
<1>1. EventsInv => LateBounded
  BY DEF EventsInv
<1>2. QED
  BY <1>1, InvAlways, PTL

-----------------------------------------------------------------------------
(***************************************************************************)
(* Events implements Timers: each of its steps is one of theirs.           *)
(***************************************************************************)
LEMMA SameOperators ==
  /\ T!Event = Event
  /\ \A l : T!On(l) = On(l)
  /\ \A e : T!Forget(e) = Forget(e)
BY DEF T!Event, Event, T!On, On, T!Forget, Forget

LEMMA QueueIsSchedule ==
  ASSUME NEW e \in Event, NEW dt \in 1 .. MaxDt, Queue(e, dt)
  PROVE  T!Next
<1>1. T!Schedule(e, dt)
  BY SameOperators DEF Queue, Working, Remembered, T!Schedule, T!Youngest
<1>2. QED
  BY <1>1, SameOperators DEF T!Next

LEMMA DequeueIsCancel ==
  ASSUME NEW e \in Event, Dequeue(e)
  PROVE  T!Next
<1>1. T!Cancel(e)
  BY SameOperators DEF Dequeue, Working, Forgotten, T!Cancel
<1>2. QED
  BY <1>1, SameOperators DEF T!Next

LEMMA RunQueueIsBegin ==
  ASSUME NEW l \in Lists, NEW dt \in 0 .. Frame, RunQueue(l, dt)
  PROVE  T!Next
<1>1. T!Begin(l, dt)
  BY SameOperators DEF RunQueue, T!Begin
<1>2. QED
  BY <1>1 DEF T!Next, Lists

\* The first event of the sorted list is the one that is due first.
LEMMA DispatchIsFire ==
  ASSUME EventsInv, Dispatch
  PROVE  T!Next
<1> DEFINE e == Head(list[run])
<1>1. /\ run # "none" /\ list[run] # <<>> /\ Delta(to, at[e]) >= 0
      /\ queued' = queued \ {e} /\ lag' = -due[e] /\ calling' = TRUE /\ run' = run
      /\ Forgotten(e)
  BY DEF Dispatch, Pending
<1>2. run \in Lists /\ e \in queued \cap On(run) /\ Delta(to, at[e]) = -due[e]
  BY <1>1, PendingMeans
<1>3. \A x \in (queued \cap On(run)) \ {e} : <<e, x>> \in Earlier
  <2>1. /\ list[run] \in Seq(On(run)) /\ Ordered(list[run], Earlier)
        /\ Holds(list[run], queued \cap On(run)) /\ Irreflexive(Earlier)
    BY <1>2, EarlierIrreflexive DEF EventsInv, ListsInv
  <2>2. QED
    BY <1>1, <2>1, TailOrdered, Zenon
<1> HIDE DEF e
<1>4. T!First(e, run)
  BY <1>2, <1>3, SameOperators DEF T!First, Earlier
<1>5. due[e] <= 0
  BY <1>1, <1>2, DueNear
<1>6. T!Fire(e, run)
  BY <1>1, <1>4, <1>5, SameOperators DEF T!Fire, Forgotten
<1>7. e \in T!On(run) /\ run \in {"ui", "machine"}
  BY <1>2, SameOperators DEF Lists
<1>8. QED
  BY <1>6, <1>7 DEF T!Next

LEMMA RunEndsIsFinish ==
  ASSUME EventsInv, RunEnds
  PROVE  T!Next
<1>1. /\ run # "none" /\ ~ Pending(run) /\ run \in {"ui", "machine"}
      /\ run' = "none" /\ lag' = 0 /\ calling' = FALSE
      /\ UNCHANGED <<queued, due, older>>
  BY DEF RunEnds, EventsInv, TypeOK, Lists
<1>2. \A x \in queued \cap On(run) : due[x] > 0
  BY <1>1, NonePending
<1>3. T!Finish(run)
  BY <1>1, <1>2, SameOperators DEF T!Finish
<1>4. QED
  BY <1>1, <1>3 DEF T!Next

\* What is scheduled on XRoar's lists happens in the order of the true times,
\* and, at the same time, in the order in which it was scheduled.
THEOREM EventsImplementTimers == Spec => TimersSpec
<1>1. Init => T!Init
  BY SameOperators DEF Init, T!Init
<1>2. EventsInv /\ [Next]_eventVars => [T!Next]_(T!timerVars)
  <2>1. SUFFICES ASSUME EventsInv, [Next]_eventVars
                 PROVE  T!Next \/ UNCHANGED T!timerVars
    OBVIOUS
  <2>2. ASSUME NEW e \in Event, NEW dt \in 1 .. MaxDt, Queue(e, dt) PROVE T!Next
    BY <2>2, QueueIsSchedule
  <2>3. ASSUME NEW e \in Event, Dequeue(e) PROVE T!Next
    BY <2>3, DequeueIsCancel
  <2>4. CASE RunUi
    <3>1. "ui" \in Lists /\ 0 \in 0 .. Frame
      BY DEF Lists
    <3>2. QED
      BY <2>4, <3>1, RunQueueIsBegin DEF RunUi
  <2>5. CASE RunMachine
    <3>1. PICK dt \in 1 .. left : RunQueue("machine", dt)
      BY <2>5 DEF RunMachine
    <3>2. "machine" \in Lists /\ dt \in 0 .. Frame
      BY <2>1 DEF Lists, EventsInv, TypeOK
    <3>3. QED
      BY <3>1, <3>2, RunQueueIsBegin
  <2>6. CASE Dispatch
    BY <2>1, <2>6, DispatchIsFire
  <2>7. CASE RunEnds
    BY <2>1, <2>7, RunEndsIsFinish
  <2>8. CASE UNCHANGED eventVars
    BY <2>8 DEF eventVars, historyVars, T!timerVars
  <2>9. QED
    BY <2>1, <2>2, <2>3, <2>4, <2>5, <2>6, <2>7, <2>8 DEF Next, Scheduling, Running
<1>3. QED
  BY <1>1, <1>2, InvAlways, PTL DEF Spec, TimersSpec, T!Spec
=============================================================================
