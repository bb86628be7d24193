--------------------------- MODULE TerminalProofs ---------------------------
(***************************************************************************)
(* Proofs about the terminal session: the path table (module Paths), for a *)
(* table of any size from ten entries on, the matchers of what the host    *)
(* sends (module Scanner), for any characters, any header and prompts and  *)
(* chunks of any length, and the clock and the waits (module Ticks), for a *)
(* counter of any width, any limit and any time.                           *)
(***************************************************************************)
EXTENDS Paths, Scanner, Ticks, FiniteSetTheorems, SequenceTheorems, WellFoundedInduction, TLAPS

-----------------------------------------------------------------------------
(* OS-9's path table.                                                      *)

\* A set of path numbers that is not empty has a lowest element.
LEMMA LowestIsLowest ==
  ASSUME NEW S \in SUBSET Numbers, S # {}
  PROVE  Lowest(S) \in S /\ \A k \in S : Lowest(S) <= k
  <1>1. S \subseteq Nat
    BY PathsAssumption DEF Numbers
  <1> DEFINE less == {s \in Nat \X Nat : s[1] < s[2]}
  <1>2. less = OpToRel(<, Nat)
    BY DEF OpToRel
  <1>3. IsWellFoundedOn(less, Nat)
    BY <1>2, NatLessThanWellFounded
  <1>4. \A k, n \in Nat : ~(<<k, n>> \in less) => n <= k
    OBVIOUS
  <1> HIDE DEF less
  <1>5. PICK n \in S : \A k \in S : ~(<<k, n>> \in less)
    BY <1>1, <1>3, WFMin
  <1>6. \A k \in S : n <= k
    BY <1>1, <1>4, <1>5
  <1> QED
    BY <1>6 DEF Lowest

\* I$Open: one free path, never one that is in use, becomes the new object's.
LEMMA OpenFacts ==
  ASSUME NEW p \in Table, NEW o \in Objects \cup {"free"}, FreeIn(p) # {}
  PROVE  LET n == Lowest(FreeIn(p))
         IN /\ n \in Numbers /\ p[n] = "free" /\ \A k \in FreeIn(p) : n <= k
            /\ WithOpen(p, o) \in Table /\ WithOpen(p, o)[n] = o
            /\ \A k \in Numbers \ {n} : WithOpen(p, o)[k] = p[k]
  <1> DEFINE n == Lowest(FreeIn(p))
  <1>1. n \in FreeIn(p) /\ \A k \in FreeIn(p) : n <= k
    BY LowestIsLowest DEF FreeIn
  <1>2. n \in Numbers /\ p[n] = "free"
    BY <1>1 DEF FreeIn
  <1>3. WithOpen(p, o) = [p EXCEPT ![n] = o]
    BY DEF WithOpen
  <1> HIDE DEF n
  <1>4. /\ [p EXCEPT ![n] = o] \in Table /\ [p EXCEPT ![n] = o][n] = o
        /\ \A k \in Numbers \ {n} : [p EXCEPT ![n] = o][k] = p[k]
    BY <1>2 DEF Table
  <1> QED
    BY <1>1, <1>2, <1>3, <1>4 DEF n

\* I$Close: the path is free, the others are what they were.
LEMMA CloseFacts ==
  ASSUME NEW p \in Table, NEW n \in Numbers
  PROVE  /\ Closed(p, n) \in Table /\ Closed(p, n)[n] = "free"
         /\ \A k \in Numbers \ {n} : Closed(p, n)[k] = p[k]
  BY DEF Closed, Table

\* A number that is not open, or none at all, is closed without effect.
LEMMA CloseNothing ==
  ASSUME NEW p \in Table, NEW n \in Numbers \cup {NoPath}, n = NoPath \/ p[n] = "free"
  PROVE  Closed(p, n) = p
  <1>1. CASE n \notin Numbers
    BY <1>1 DEF Closed
  <1>2. CASE n \in Numbers
    <2>1. n # NoPath
      BY <1>2, PathsAssumption DEF Numbers, NoPath
    <2> QED
      BY <1>2, <2>1 DEF Closed, Table
  <1> QED
    BY <1>1, <1>2

\* Whatever is opened, closed or duplicated, a table stays a table.
LEMMA TablesStay ==
  ASSUME NEW p \in Table
  PROVE  /\ \A n : Closed(p, n) \in Table
         /\ FreeIn(p) # {} => \A o \in Objects : WithOpen(p, o) \in Table
         /\ FreeIn(p) # {} => Lowest(FreeIn(p)) \in Numbers
         /\ \A n \in Numbers : WithDup(p, n) \in Table /\ DupNumber(p, n) \in Numbers
  <1>1. ASSUME NEW n PROVE Closed(p, n) \in Table
    <2>1. CASE n \in Numbers
      BY <2>1, CloseFacts
    <2>2. CASE n \notin Numbers
      BY <2>2 DEF Closed
    <2> QED
      BY <2>1, <2>2
  <1>2. ASSUME FreeIn(p) # {}, NEW o \in Objects \cup {"free"}
        PROVE  WithOpen(p, o) \in Table
    BY <1>2, OpenFacts
  <1>3. FreeIn(p) # {} => Lowest(FreeIn(p)) \in Numbers
    <2>1. FreeIn(p) \in SUBSET Numbers
      BY DEF FreeIn
    <2> QED
      BY <2>1, LowestIsLowest
  <1>4. ASSUME NEW n \in Numbers PROVE WithDup(p, n) \in Table /\ DupNumber(p, n) \in Numbers
    <2>1. p[n] \in Objects \cup {"free"}
      BY DEF Table
    <2>2. CASE DupFails(p, n)
      BY <2>2 DEF WithDup, DupNumber
    <2>3. CASE ~DupFails(p, n)
      BY <1>2, <1>3, <2>1, <2>3 DEF WithDup, DupNumber, DupFails
    <2> QED
      BY <2>2, <2>3
  <1> QED
    BY <1>1, <1>2, <1>3, <1>4

\* What is open where after an I$Open, as long as path 0 is not free ...
LEMMA OpenOn ==
  ASSUME PathsTypeOK, NEW o \in Objects, FreeIn(paths) # {}, paths[0] # "free",
         paths' = WithOpen(paths, o)
  PROVE  LET n == Lowest(FreeIn(paths))
         IN /\ n \in Numbers /\ n # 0 /\ paths[n] = "free"
            /\ paths'[0] = paths[0] /\ paths'[n] = o
            /\ On(o)' = On(o) \cup {n}
            /\ \A q \in Objects \ {o} : On(q)' = On(q)
  <1> DEFINE n == Lowest(FreeIn(paths))
  <1>1. paths \in Table /\ 0 \in Numbers /\ "free" \notin Objects
    BY PathsAssumption DEF PathsTypeOK, Numbers, NoPath, Objects
  <1>2. /\ n \in Numbers /\ paths[n] = "free" /\ paths'[n] = o
        /\ \A k \in Numbers \ {n} : paths'[k] = paths[k]
    BY <1>1, OpenFacts
  <1> HIDE DEF n
  <1>3. n # 0 /\ paths'[0] = paths[0]
    BY <1>1, <1>2
  <1>4. On(o)' = On(o) \cup {n}
    BY <1>2 DEF On
  <1>5. ASSUME NEW q \in Objects \ {o} PROVE On(q)' = On(q)
    BY <1>1, <1>2 DEF On
  <1> QED
    BY <1>2, <1>3, <1>4, <1>5 DEF n

\* ... and after an I$Close of something that is open.
LEMMA CloseOn ==
  ASSUME PathsTypeOK, NEW o \in Objects, NEW n \in Numbers, paths[n] = o,
         paths' = Closed(paths, n)
  PROVE  /\ paths'[n] = "free" /\ (n # 0 => paths'[0] = paths[0])
         /\ On(o)' = On(o) \ {n}
         /\ \A q \in Objects \ {o} : On(q)' = On(q)
  <1>1. paths \in Table /\ 0 \in Numbers /\ "free" \notin Objects
    BY PathsAssumption DEF PathsTypeOK, Numbers, NoPath, Objects
  <1>2. /\ paths'[n] = "free"
        /\ \A k \in Numbers \ {n} : paths'[k] = paths[k]
    BY <1>1, CloseFacts
  <1>3. n # 0 => paths'[0] = paths[0]
    BY <1>1, <1>2
  <1>4. On(o)' = On(o) \ {n}
    BY <1>1, <1>2 DEF On
  <1>5. ASSUME NEW q \in Objects \ {o} PROVE On(q)' = On(q)
    BY <1>1, <1>2 DEF On
  <1> QED
    BY <1>2, <1>3, <1>4, <1>5

-----------------------------------------------------------------------------
(* The types.                                                              *)

LEMMA TableTyped == PathsTypeOK /\ [PathsNext]_pathsVars => paths' \in Table
  <1> SUFFICES ASSUME PathsTypeOK, [PathsNext]_pathsVars PROVE paths' \in Table
    OBVIOUS
  <1>1. /\ paths \in Table /\ 0 \in Numbers /\ serial \in Numbers
        /\ {"conf", "capture", "ascii", "xfer"} \subseteq Objects
    BY PathsAssumption DEF PathsTypeOK, Numbers, NoPath, Objects
  <1>2. CASE UNCHANGED paths
    BY <1>1, <1>2
  <1>3. CASE \E n : paths' = Closed(paths, n)
    BY <1>1, <1>3, TablesStay
  <1>4. CASE FreeIn(paths) # {} /\ \E o \in Objects : paths' = WithOpen(paths, o)
    BY <1>1, <1>4, TablesStay
  <1>5. CASE ZModemBegins
    <2> DEFINE p1 == Closed(WithDup(paths, 0), 0)
               p2 == WithDup(p1, serial)
               p3 == Closed(p2, 0)
               aside == DupNumber(paths, 0)
    <2>1. p1 \in Table /\ aside \in Numbers
      BY <1>1, TablesStay
    <2> HIDE DEF p1, aside
    <2>2. p2 \in Table
      BY <1>1, <2>1, TablesStay
    <2> HIDE DEF p2
    <2>3. p3 \in Table
      BY <2>2, TablesStay
    <2> HIDE DEF p3
    <2>4. Closed(WithDup(p3, aside), aside) \in Table
      BY <2>1, <2>3, TablesStay
    <2> QED
      BY <1>5, <2>4 DEF ZModemBegins, p1, p2, p3, aside
  <1>6. \/ UNCHANGED paths
        \/ \E n : paths' = Closed(paths, n)
        \/ FreeIn(paths) # {} /\ \E o \in Objects : paths' = WithOpen(paths, o)
        \/ ZModemBegins
    BY <1>1 DEF PathsNext, pathsVars,
       ConferenceOn, ConferenceFails, ConferenceOff, CaptureOpened, CaptureClosed,
       AsciiBegins, AsciiEnds, TransferBegins, Create, CreateNot, Received, Opened,
       OpenedEmpty, OpenNot, SentAll, EotAnswered, BatchEnds, UploadGivenUp,
       PollKeyboard, Interrupted, Reaped, KeyRead, KeyAwaited, ShellBegins, ChildEnds, Type
  <1> QED
    BY <1>2, <1>3, <1>4, <1>5, <1>6

\* The standard input of a child is what is on path 0 then.
LEMMA ChildTyped ==
  ASSUME PathsTypeOK, [PathsNext]_pathsVars
  PROVE  childIn' \in Objects \cup {"none", "free"}
  <1>1. paths \in Table /\ 0 \in Numbers /\ serial \in Numbers
    BY PathsAssumption DEF PathsTypeOK, Numbers, NoPath
  <1>2. \A q \in Table : q[0] \in Objects \cup {"free"}
    BY <1>1 DEF Table
  <1>3. WithDup(Closed(WithDup(paths, 0), 0), serial) \in Table
    BY <1>1, TablesStay
  <1>4. childIn' \in {childIn, paths[0], WithDup(Closed(WithDup(paths, 0), 0), serial)[0]}
    BY DEF PathsNext, pathsVars, childVars,
       ConferenceOn, ConferenceFails, ConferenceOff, CaptureOpened, CaptureClosed,
       AsciiBegins, AsciiEnds, TransferBegins, Create, CreateNot, Received, Opened,
       OpenedEmpty, OpenNot, SentAll, EotAnswered, BatchEnds, UploadGivenUp, ZModemBegins,
       PollKeyboard, Interrupted, Reaped, KeyRead, KeyAwaited, ShellBegins, ChildEnds, Type
  <1> QED
    BY <1>1, <1>2, <1>3, <1>4 DEF PathsTypeOK

LEMMA TypeStep == PathsTypeOK /\ [PathsNext]_pathsVars => PathsTypeOK'
  <1> SUFFICES ASSUME PathsTypeOK, [PathsNext]_pathsVars PROVE PathsTypeOK'
    OBVIOUS
  <1> DEFINE lowest == Lowest(FreeIn(paths))
  <1>1. paths' \in Table /\ UNCHANGED <<nil, serial>>
    <2>1. UNCHANGED <<nil, serial>>
      BY DEF PathsNext, pathsVars,
       ConferenceOn, ConferenceFails, ConferenceOff, CaptureOpened, CaptureClosed,
       AsciiBegins, AsciiEnds, TransferBegins, Create, CreateNot, Received, Opened,
       OpenedEmpty, OpenNot, SentAll, EotAnswered, BatchEnds, UploadGivenUp, ZModemBegins,
       PollKeyboard, Interrupted, Reaped, KeyRead, KeyAwaited, ShellBegins, ChildEnds, Type
    <2> QED
      BY <2>1, TableTyped
  <1>2. FreeIn(paths) # {} => lowest \in Numbers
    BY TablesStay DEF PathsTypeOK
  <1> HIDE DEF lowest
  <1>3. conf' \in Numbers /\ capture' \in Numbers /\ ascii' \in Numbers
    <2>1. conf' = conf \/ (FreeIn(paths) # {} /\ conf' = lowest)
      BY DEF PathsNext, pathsVars, fileVars, lowest,
       ConferenceOn, ConferenceFails, ConferenceOff, CaptureOpened, CaptureClosed,
       AsciiBegins, AsciiEnds, TransferBegins, Create, CreateNot, Received, Opened,
       OpenedEmpty, OpenNot, SentAll, EotAnswered, BatchEnds, UploadGivenUp, ZModemBegins,
       PollKeyboard, Interrupted, Reaped, KeyRead, KeyAwaited, ShellBegins, ChildEnds, Type
    <2>2. capture' = capture \/ (FreeIn(paths) # {} /\ capture' = lowest)
      BY DEF PathsNext, pathsVars, fileVars, lowest,
       ConferenceOn, ConferenceFails, ConferenceOff, CaptureOpened, CaptureClosed,
       AsciiBegins, AsciiEnds, TransferBegins, Create, CreateNot, Received, Opened,
       OpenedEmpty, OpenNot, SentAll, EotAnswered, BatchEnds, UploadGivenUp, ZModemBegins,
       PollKeyboard, Interrupted, Reaped, KeyRead, KeyAwaited, ShellBegins, ChildEnds, Type
    <2>3. ascii' = ascii \/ (FreeIn(paths) # {} /\ ascii' = lowest)
      BY DEF PathsNext, pathsVars, fileVars, lowest,
       ConferenceOn, ConferenceFails, ConferenceOff, CaptureOpened, CaptureClosed,
       AsciiBegins, AsciiEnds, TransferBegins, Create, CreateNot, Received, Opened,
       OpenedEmpty, OpenNot, SentAll, EotAnswered, BatchEnds, UploadGivenUp, ZModemBegins,
       PollKeyboard, Interrupted, Reaped, KeyRead, KeyAwaited, ShellBegins, ChildEnds, Type
    <2> QED
      BY <1>2, <2>1, <2>2, <2>3 DEF PathsTypeOK
  <1>4. xfer' \in Numbers \cup {NoPath}
    <2>1. xfer' = xfer \/ xfer' = NoPath \/ (FreeIn(paths) # {} /\ xfer' = lowest)
      BY DEF PathsNext, pathsVars, xferVars, lowest,
       ConferenceOn, ConferenceFails, ConferenceOff, CaptureOpened, CaptureClosed,
       AsciiBegins, AsciiEnds, TransferBegins, Create, CreateNot, Received, Opened,
       OpenedEmpty, OpenNot, SentAll, EotAnswered, BatchEnds, UploadGivenUp, ZModemBegins,
       PollKeyboard, Interrupted, Reaped, KeyRead, KeyAwaited, ShellBegins, ChildEnds, Type
    <2> QED
      BY <1>2, <2>1 DEF PathsTypeOK
  <1>5. confOn' \in BOOLEAN /\ capOpen' \in BOOLEAN /\ asciiOn' \in BOOLEAN
    <2>1. confOn' = confOn \/ confOn' = TRUE \/ confOn' = FALSE
      BY Zenon DEF PathsNext, pathsVars, fileVars,
       ConferenceOn, ConferenceFails, ConferenceOff, CaptureOpened, CaptureClosed,
       AsciiBegins, AsciiEnds, TransferBegins, Create, CreateNot, Received, Opened,
       OpenedEmpty, OpenNot, SentAll, EotAnswered, BatchEnds, UploadGivenUp, ZModemBegins,
       PollKeyboard, Interrupted, Reaped, KeyRead, KeyAwaited, ShellBegins, ChildEnds, Type
    <2>2. capOpen' = capOpen \/ capOpen' = TRUE \/ capOpen' = FALSE
      BY Zenon DEF PathsNext, pathsVars, fileVars,
       ConferenceOn, ConferenceFails, ConferenceOff, CaptureOpened, CaptureClosed,
       AsciiBegins, AsciiEnds, TransferBegins, Create, CreateNot, Received, Opened,
       OpenedEmpty, OpenNot, SentAll, EotAnswered, BatchEnds, UploadGivenUp, ZModemBegins,
       PollKeyboard, Interrupted, Reaped, KeyRead, KeyAwaited, ShellBegins, ChildEnds, Type
    <2>3. asciiOn' = asciiOn \/ asciiOn' = TRUE \/ asciiOn' = FALSE
      BY Zenon DEF PathsNext, pathsVars, fileVars,
       ConferenceOn, ConferenceFails, ConferenceOff, CaptureOpened, CaptureClosed,
       AsciiBegins, AsciiEnds, TransferBegins, Create, CreateNot, Received, Opened,
       OpenedEmpty, OpenNot, SentAll, EotAnswered, BatchEnds, UploadGivenUp, ZModemBegins,
       PollKeyboard, Interrupted, Reaped, KeyRead, KeyAwaited, ShellBegins, ChildEnds, Type
    <2> QED
      BY <2>1, <2>2, <2>3, Zenon DEF PathsTypeOK
  <1>6. batch' \in BOOLEAN /\ failed' \in BOOLEAN
    <2>1. batch' = batch \/ batch' \in BOOLEAN
      BY Zenon DEF PathsNext, pathsVars, xferVars,
       ConferenceOn, ConferenceFails, ConferenceOff, CaptureOpened, CaptureClosed,
       AsciiBegins, AsciiEnds, TransferBegins, Create, CreateNot, Received, Opened,
       OpenedEmpty, OpenNot, SentAll, EotAnswered, BatchEnds, UploadGivenUp, ZModemBegins,
       PollKeyboard, Interrupted, Reaped, KeyRead, KeyAwaited, ShellBegins, ChildEnds, Type
    <2>2. failed' = failed \/ failed' = TRUE
      BY Zenon DEF PathsNext, pathsVars,
       ConferenceOn, ConferenceFails, ConferenceOff, CaptureOpened, CaptureClosed,
       AsciiBegins, AsciiEnds, TransferBegins, Create, CreateNot, Received, Opened,
       OpenedEmpty, OpenNot, SentAll, EotAnswered, BatchEnds, UploadGivenUp, ZModemBegins,
       PollKeyboard, Interrupted, Reaped, KeyRead, KeyAwaited, ShellBegins, ChildEnds, Type
    <2> QED
      BY <2>1, <2>2, Zenon DEF PathsTypeOK
  <1>7. ppc' \in {"loop", "create", "head", "down", "open", "up", "eot", "last", "poll", "wait",
                  "key", "shell"}
    BY DEF PathsTypeOK, PathsNext, pathsVars,
       ConferenceOn, ConferenceFails, ConferenceOff, CaptureOpened, CaptureClosed,
       AsciiBegins, AsciiEnds, TransferBegins, Create, CreateNot, Received, Opened,
       OpenedEmpty, OpenNot, SentAll, EotAnswered, BatchEnds, UploadGivenUp, ZModemBegins,
       PollKeyboard, Interrupted, Reaped, KeyRead, KeyAwaited, ShellBegins, ChildEnds, Type
  <1>8. /\ child' \in {"none", "running", "killed", "done", "failed"}
        /\ typed' \in {"none", "break", "other"}
    BY DEF PathsTypeOK, PathsNext, pathsVars, childVars,
       ConferenceOn, ConferenceFails, ConferenceOff, CaptureOpened, CaptureClosed,
       AsciiBegins, AsciiEnds, TransferBegins, Create, CreateNot, Received, Opened,
       OpenedEmpty, OpenNot, SentAll, EotAnswered, BatchEnds, UploadGivenUp, ZModemBegins,
       PollKeyboard, Interrupted, Reaped, KeyRead, KeyAwaited, ShellBegins, ChildEnds, Type
  <1> QED
    BY <1>1, <1>3, <1>4, <1>5, <1>6, <1>7, <1>8, ChildTyped DEF PathsTypeOK

-----------------------------------------------------------------------------
(* The exchange for external ZModem.                                       *)

\* When path 0 is free it is the lowest one: it is opened next, and closing it
\* again restores the table.
LEMMA ZeroIsNext ==
  ASSUME NEW p \in Table, p[0] = "free", NEW o \in Objects
  PROVE  /\ FreeIn(p) # {} /\ Lowest(FreeIn(p)) = 0
         /\ WithOpen(p, o) \in Table /\ WithOpen(p, o)[0] = o
         /\ \A k \in Numbers \ {0} : WithOpen(p, o)[k] = p[k]
         /\ Closed(WithOpen(p, o), 0) = p
  <1> DEFINE n == Lowest(FreeIn(p))
             q == WithOpen(p, o)
  <1>1. 0 \in FreeIn(p) /\ 0 \in Numbers
    BY PathsAssumption DEF FreeIn, Numbers, NoPath
  <1>2. /\ n \in Numbers /\ \A k \in FreeIn(p) : n <= k
        /\ q \in Table /\ q[n] = o
        /\ \A k \in Numbers \ {n} : q[k] = p[k]
    BY <1>1, OpenFacts
  <1> HIDE DEF n, q
  <1>3. n = 0
    BY <1>1, <1>2, PathsAssumption DEF Numbers, NoPath
  <1>4. /\ Closed(q, 0) \in Table /\ Closed(q, 0)[0] = "free"
        /\ \A k \in Numbers \ {0} : Closed(q, 0)[k] = q[k]
    BY <1>1, <1>2, CloseFacts
  <1>5. \A k \in Numbers : Closed(q, 0)[k] = p[k]
    BY <1>2, <1>3, <1>4
  <1>6. Closed(q, 0) = p
    BY <1>4, <1>5 DEF Table
  <1> QED
    BY <1>1, <1>2, <1>3, <1>6 DEF n, q

\* The child gets the serial line, and the table is afterwards what it was,
\* except that path 0 is lost when no path was free to put it aside.
LEMMA ExchangeFacts ==
  ASSUME PathsTypeOK, paths[0] \in {"term", "free"}, paths[serial] = "serial", ZModemBegins
  PROVE  /\ \/ paths' = paths
            \/ /\ paths[0] = "term" /\ FreeIn(paths) = {}
               /\ paths' = Closed(paths, 0)
         /\ ppc' = "poll" => childIn' = "serial"
  <1> DEFINE d == WithDup(paths, 0)
             aside == DupNumber(paths, 0)
             p1 == Closed(d, 0)
             p2 == WithDup(p1, serial)
             p3 == Closed(p2, 0)
             p4 == WithDup(p3, aside)
  <1>1. /\ paths' = Closed(p4, aside)
        /\ ppc' = "poll" => childIn' = p2[0]
    BY DEF ZModemBegins
  <1>2. /\ paths \in Table /\ 0 \in Numbers /\ serial \in Numbers \ {0}
        /\ "serial" \in Objects /\ "term" \in Objects
    BY PathsAssumption DEF PathsTypeOK, Numbers, NoPath, Objects
  <1>3. ASSUME p1 \in Table, p1[0] = "free", p1[serial] = "serial"
        PROVE  p2[0] = "serial" /\ p3 = p1
    <2> HIDE DEF p1
    <2>1. ~DupFails(p1, serial)
      BY <1>2, <1>3, ZeroIsNext DEF DupFails
    <2>2. p2 = WithOpen(p1, "serial")
      BY <1>3, <2>1 DEF WithDup
    <2> HIDE DEF p2
    <2> QED
      BY <1>2, <1>3, <2>2, ZeroIsNext
  <1>4. CASE DupFails(paths, 0)
    <2>1. d = paths /\ aside = 0
      BY <1>4 DEF WithDup, DupNumber
    <2>2. p1 = Closed(paths, 0)
      BY <2>1
    <2>3. p1 \in Table /\ p1[0] = "free" /\ p1[serial] = "serial"
      BY <1>2, <2>2, CloseFacts
    <2>4. p2[0] = "serial" /\ p3 = p1
      BY <1>3, <2>3
    <2> HIDE DEF d, p1, p2, p3, aside
    <2>5. p4 = p1
      BY <2>1, <2>3, <2>4 DEF WithDup, DupFails
    <2>6. Closed(p1, 0) = p1
      BY <1>2, <2>3, CloseNothing
    <2>7. paths' = Closed(paths, 0)
      BY <1>1, <2>1, <2>2, <2>5, <2>6
    <2>8. CASE paths[0] = "free"
      BY <1>1, <1>2, <2>4, <2>7, <2>8, CloseNothing
    <2>9. CASE paths[0] # "free"
      BY <1>1, <1>4, <2>4, <2>7, <2>9 DEF DupFails
    <2> QED
      BY <2>8, <2>9
  <1>5. CASE ~DupFails(paths, 0)
    <2> DEFINE n == Lowest(FreeIn(paths))
    <2>1. paths[0] = "term" /\ FreeIn(paths) # {}
      BY <1>5 DEF DupFails
    <2>2. d = WithOpen(paths, "term") /\ aside = n
      BY <1>5, <2>1 DEF WithDup, DupNumber
    <2>3. /\ n \in Numbers /\ paths[n] = "free"
          /\ d \in Table /\ d[n] = "term"
          /\ \A k \in Numbers \ {n} : d[k] = paths[k]
      BY <1>2, <2>1, <2>2, OpenFacts
    <2> HIDE DEF d, n, aside
    <2>4. n # 0 /\ n # serial
      BY <2>1, <2>3
    <2>5. /\ p1 \in Table /\ p1[0] = "free"
          /\ \A k \in Numbers \ {0} : p1[k] = d[k]
      BY <1>2, <2>3, CloseFacts
    <2> HIDE DEF p1
    <2>6. p1[serial] = "serial" /\ p1[n] = "term"
      BY <1>2, <2>3, <2>4, <2>5
    <2>7. p2[0] = "serial" /\ p3 = p1
      BY <1>3, <2>5, <2>6 DEF p1
    <2> HIDE DEF p2, p3
    <2>8. p4 = WithOpen(p1, "term")
      <3>1. ~DupFails(p1, n)
        BY <1>2, <2>5, <2>6, ZeroIsNext DEF DupFails
      <3> QED
        BY <2>2, <2>6, <2>7, <3>1 DEF WithDup
    <2> HIDE DEF p4
    <2>9. /\ p4 \in Table /\ p4[0] = "term"
          /\ \A k \in Numbers \ {0} : p4[k] = p1[k]
      BY <1>2, <2>5, <2>8, ZeroIsNext
    <2>10. /\ paths' \in Table /\ paths'[n] = "free"
           /\ \A k \in Numbers \ {n} : paths'[k] = p4[k]
      BY <1>1, <2>2, <2>3, <2>9, CloseFacts
    <2>11. \A k \in Numbers : paths'[k] = paths[k]
      BY <2>1, <2>3, <2>4, <2>5, <2>9, <2>10
    <2>12. paths' = paths
      BY <1>2, <2>10, <2>11 DEF Table
    <2> QED
      BY <1>1, <2>7, <2>12
  <1> QED
    BY <1>4, <1>5

-----------------------------------------------------------------------------
(* Counting: a table without a free path has too many leaked ones.         *)

LEMMA OneMore ==
  ASSUME NEW S, IsFiniteSet(S), NEW x
  PROVE  /\ IsFiniteSet(S \cup {x})
         /\ Cardinality(S) \in Nat
         /\ Cardinality(S \cup {x}) \in Nat
         /\ Cardinality(S \cup {x}) <= Cardinality(S) + 1
  <1>1. IsFiniteSet(S \cup {x}) /\ Cardinality(S) \in Nat
    BY FS_AddElement, FS_CardinalityType
  <1>2. CASE x \in S
    <2>1. S \cup {x} = S
      BY <1>2
    <2> QED
      BY <1>1, <2>1
  <1>3. CASE x \notin S
    BY <1>1, <1>3, FS_AddElement
  <1> QED
    BY <1>2, <1>3

\* Up to nine paths are open that some variable knows.
LEMMA NineMore ==
  ASSUME NEW S, IsFiniteSet(S), NEW x, NEW y, NEW z
  PROVE  /\ IsFiniteSet(S \cup {0, 1, 2} \cup {3, 4, 5} \cup {x, y, z})
         /\ Cardinality(S) \in Nat
         /\ Cardinality(S \cup {0, 1, 2} \cup {3, 4, 5} \cup {x, y, z}) <= Cardinality(S) + 9
  <1>1. ASSUME NEW T, IsFiniteSet(T), NEW a, NEW b, NEW c
        PROVE  /\ IsFiniteSet(T \cup {a, b, c})
               /\ Cardinality(T) \in Nat /\ Cardinality(T \cup {a, b, c}) \in Nat
               /\ Cardinality(T \cup {a, b, c}) <= Cardinality(T) + 3
    <2> DEFINE A == T \cup {a}
               B == A \cup {b}
               C == B \cup {c}
    <2>1. /\ IsFiniteSet(A) /\ Cardinality(T) \in Nat /\ Cardinality(A) \in Nat
          /\ Cardinality(A) <= Cardinality(T) + 1
      BY <1>1, OneMore
    <2> HIDE DEF A
    <2>2. IsFiniteSet(B) /\ Cardinality(B) \in Nat /\ Cardinality(B) <= Cardinality(A) + 1
      BY <2>1, OneMore
    <2> HIDE DEF B
    <2>3. IsFiniteSet(C) /\ Cardinality(C) \in Nat /\ Cardinality(C) <= Cardinality(B) + 1
      BY <2>2, OneMore
    <2>4. C = T \cup {a, b, c}
      BY DEF A, B
    <2> HIDE DEF C
    <2>5. Cardinality(C) <= Cardinality(T) + 3
      BY <2>1, <2>2, <2>3
    <2> QED
      BY <2>1, <2>3, <2>4, <2>5
  <1> DEFINE A == S \cup {0, 1, 2}
             B == A \cup {3, 4, 5}
             C == B \cup {x, y, z}
  <1>2. /\ IsFiniteSet(A) /\ Cardinality(S) \in Nat /\ Cardinality(A) \in Nat
        /\ Cardinality(A) <= Cardinality(S) + 3
    BY <1>1
  <1> HIDE DEF A
  <1>3. IsFiniteSet(B) /\ Cardinality(B) \in Nat /\ Cardinality(B) <= Cardinality(A) + 3
    BY <1>1, <1>2
  <1> HIDE DEF B
  <1>4. IsFiniteSet(C) /\ Cardinality(C) \in Nat /\ Cardinality(C) <= Cardinality(B) + 3
    BY <1>1, <1>3
  <1> HIDE DEF C
  <1>5. Cardinality(C) <= Cardinality(S) + 9
    BY <1>2, <1>3, <1>4
  <1> QED
    BY <1>2, <1>4, <1>5 DEF A, B, C

LEMMA FullIsLeaked ==
  ASSUME PathsTypeOK, OwnPaths, ppc = "loop", FreeIn(paths) = {}
  PROVE  Cardinality(Leaked) + 10 > MaxPath
  <1> DEFINE U == Leaked \cup {0, 1, 2} \cup {3, 4, 5} \cup {conf, capture, ascii}
  <1>1. IsFiniteSet(Numbers) /\ Cardinality(Numbers) = MaxPath /\ MaxPath \in Nat
    <2>1. 0 \in Int /\ MaxPath - 1 \in Int /\ MaxPath \in Nat /\ (MaxPath - 1) - 0 + 1 = MaxPath
          /\ ~(0 > MaxPath - 1)
      BY PathsAssumption DEF NoPath
    <2> QED
      BY <2>1, FS_Interval DEF Numbers
  <1>2. Leaked \subseteq Numbers /\ IsFiniteSet(Leaked)
    <2>1. Leaked \subseteq Numbers
      BY DEF Leaked, On
    <2> QED
      BY <1>1, <2>1, FS_Subset
  <1>3. /\ IsFiniteSet(U) /\ Cardinality(Leaked) \in Nat
        /\ Cardinality(U) <= Cardinality(Leaked) + 9
    BY <1>2, NineMore
  <1>4. Numbers \subseteq U
    <2> SUFFICES ASSUME NEW n \in Numbers PROVE n \in U
      OBVIOUS
    <2>1. paths[n] \in Objects
      BY DEF PathsTypeOK, Table, FreeIn
    <2>2. n \in On(paths[n])
      BY DEF On
    <2>3. On("term") \subseteq {0, 1, 2}
      BY DEF OwnPaths, LineStays
    <2>4. /\ On("serial") \subseteq {3, 4, 5} /\ On("status") \subseteq {3, 4, 5}
          /\ On("nil") \subseteq {3, 4, 5}
      BY DEF OwnPaths, LineStays, PathsTypeOK
    <2>5. /\ On("conf") \subseteq {conf} /\ On("capture") \subseteq {capture}
          /\ On("ascii") \subseteq {ascii}
      BY DEF OwnPaths, LineStays
    <2>6. On("xfer") = Leaked
      BY DEF Leaked
    <2> QED
      BY <2>1, <2>2, <2>3, <2>4, <2>5, <2>6 DEF Objects
  <1> HIDE DEF U
  <1>5. Cardinality(Numbers) <= Cardinality(U) /\ Cardinality(U) \in Nat
    BY <1>3, <1>4, FS_Subset, FS_CardinalityType
  <1> QED
    BY <1>1, <1>3, <1>5

-----------------------------------------------------------------------------
(* The steps, as long as no conference window failed.                      *)

\* What the whole invariant comes to in two frequent cases: nothing but a file
\* of a transfer is opened or closed ...
LEMMA OwnPathsStay ==
  ASSUME OwnPaths, \A q \in Objects \ {"xfer"} : On(q)' = On(q), paths'[0] = paths[0],
         UNCHANGED <<nil, serial, fileVars>>
  PROVE  OwnPaths'
  <1>1. {"term", "serial", "status", "nil", "conf", "capture", "ascii"} \subseteq Objects \ {"xfer"}
    BY DEF Objects
  <1> QED
    BY <1>1 DEF OwnPaths, LineStays, fileVars

\* ... and path 0 stays what it is.
LEMMA KeyboardStaysLost ==
  ASSUME KeyboardLost, paths'[0] = paths[0],
         paths[0] = "free" => On("xfer")' = On("xfer") /\ ppc' \in {"loop", "poll", "wait", "key"}
  PROVE  KeyboardLost'
  <1> SUFFICES ASSUME paths[0] = "free"
               PROVE  ppc' \in {"loop", "poll", "wait", "key"} /\ Cardinality(Leaked') + 10 > MaxPath
    BY DEF KeyboardLost
  <1>1. Leaked' = Leaked
    BY DEF KeyboardLost, Leaked
  <1> QED
    BY <1>1 DEF KeyboardLost

\* The conference window, the capture file and the file of an ASCII upload.
LEMMA OwnFileSteps ==
  ASSUME TableInv, ~failed,
         \/ ConferenceOn \/ ConferenceOff \/ CaptureOpened \/ CaptureClosed
         \/ AsciiBegins \/ AsciiEnds
  PROVE  OwnPaths' /\ TransferFile' /\ KeyboardLost' /\ ChildHasLine'
  <1>1. PathsTypeOK /\ OwnPaths /\ KeyboardLost
    BY DEF TableInv
  <1>2. /\ ppc = "loop" /\ ppc' = "loop" /\ UNCHANGED <<nil, serial>>
    BY DEF ConferenceOn, ConferenceOff, CaptureOpened, CaptureClosed, AsciiBegins, AsciiEnds, Command
  <1>3. TransferFile' /\ ChildHasLine'
    BY <1>2 DEF TransferFile, ChildHasLine
  <1>4. 0 \in On("term") => paths[0] = "term"
    BY DEF On
  <1> DEFINE n == Lowest(FreeIn(paths))
  <1>5. ASSUME Command, FreeIn(paths) # {}, NEW o \in {"conf", "capture", "ascii"},
               paths' = WithOpen(paths, o)
        PROVE  /\ paths'[0] = paths[0] /\ On(o)' = On(o) \cup {n}
               /\ \A q \in Objects \ {o} : On(q)' = On(q)
    BY <1>1, <1>5, OpenOn DEF Command, Objects
  <1>6. ASSUME NEW o \in {"conf", "capture", "ascii"}, NEW k \in Numbers, On(o) = {k},
               paths' = Closed(paths, k)
        PROVE  /\ paths'[0] = paths[0] /\ On(o)' = {}
               /\ \A q \in Objects \ {o} : On(q)' = On(q)
    <2>1. paths[k] = o /\ o \in Objects
      BY <1>6 DEF On, Objects
    <2>2. k # 0
      BY <1>1, <2>1 DEF OwnPaths, LineStays
    <2> QED
      BY <1>1, <1>6, <2>1, <2>2, CloseOn
  <1> HIDE DEF n
  <1>7. /\ paths'[0] = paths[0]
        /\ \A q \in Objects \ {"conf", "capture", "ascii"} : On(q)' = On(q)
        /\ On("conf")' = IF confOn' THEN {conf'} ELSE {}
        /\ On("capture")' = IF capOpen' THEN {capture'} ELSE {}
        /\ On("ascii")' = IF asciiOn' THEN {ascii'} ELSE {}
    <2>0. /\ {"conf", "capture", "ascii"} \subseteq Objects
          /\ On("conf") = IF confOn THEN {conf} ELSE {}
          /\ On("capture") = IF capOpen THEN {capture} ELSE {}
          /\ On("ascii") = IF asciiOn THEN {ascii} ELSE {}
          /\ conf \in Numbers /\ capture \in Numbers /\ ascii \in Numbers
      BY <1>1 DEF OwnPaths, LineStays, Objects, PathsTypeOK
    <2>1. CASE ConferenceOn
      <3>1. /\ Command /\ FreeIn(paths) # {} /\ paths' = WithOpen(paths, "conf")
            /\ ~confOn /\ confOn' /\ conf' = n /\ UNCHANGED <<capture, capOpen, ascii, asciiOn>>
        BY <2>1 DEF ConferenceOn, n
      <3> QED
        BY <1>5, <2>0, <3>1
    <2>2. CASE ConferenceOff
      <3>1. /\ confOn /\ paths' = Closed(paths, conf) /\ ~confOn'
            /\ UNCHANGED <<capture, capOpen, ascii, asciiOn>>
        BY <2>2 DEF ConferenceOff
      <3> QED
        BY <1>6, <2>0, <3>1
    <2>3. CASE CaptureOpened
      <3>1. /\ Command /\ FreeIn(paths) # {} /\ paths' = WithOpen(paths, "capture")
            /\ ~capOpen /\ capOpen' /\ capture' = n /\ UNCHANGED <<conf, confOn, ascii, asciiOn>>
        BY <2>3 DEF CaptureOpened, n
      <3> QED
        BY <1>5, <2>0, <3>1
    <2>4. CASE CaptureClosed
      <3>1. /\ capOpen /\ paths' = Closed(paths, capture) /\ ~capOpen'
            /\ UNCHANGED <<conf, confOn, ascii, asciiOn>>
        BY <2>4 DEF CaptureClosed
      <3> QED
        BY <1>6, <2>0, <3>1
    <2>5. CASE AsciiBegins
      <3>1. /\ Command /\ FreeIn(paths) # {} /\ paths' = WithOpen(paths, "ascii")
            /\ ~asciiOn /\ asciiOn' /\ ascii' = n /\ UNCHANGED <<conf, confOn, capture, capOpen>>
        BY <2>5 DEF AsciiBegins, Command, n
      <3> QED
        BY <1>5, <2>0, <3>1
    <2>6. CASE AsciiEnds
      <3>1. /\ asciiOn /\ paths' = Closed(paths, ascii) /\ ~asciiOn'
            /\ UNCHANGED <<conf, confOn, capture, capOpen>>
        BY <2>6 DEF AsciiEnds
      <3> QED
        BY <1>6, <2>0, <3>1
    <2> QED
      BY <2>1, <2>2, <2>3, <2>4, <2>5, <2>6
  <1>8. {"term", "serial", "status", "nil", "xfer"} \subseteq Objects \ {"conf", "capture", "ascii"}
    BY DEF Objects
  <1>9. OwnPaths'
    BY <1>1, <1>2, <1>7, <1>8 DEF OwnPaths, LineStays
  <1>10. KeyboardLost'
    BY <1>1, <1>2, <1>7, <1>8, KeyboardStaysLost
  <1> QED
    BY <1>3, <1>9, <1>10

\* A file of a transfer is opened ...
LEMMA TransferOpens ==
  ASSUME TableInv, ~failed, Create \/ Opened \/ OpenedEmpty
  PROVE  OwnPaths' /\ TransferFile' /\ KeyboardLost' /\ ChildHasLine'
  <1>1. /\ PathsTypeOK /\ OwnPaths /\ KeyboardLost
        /\ paths[0] # "free" /\ FreeIn(paths) # {} /\ "xfer" \in Objects
        /\ paths' = WithOpen(paths, "xfer") /\ xfer' = Lowest(FreeIn(paths))
        /\ ppc' \in {"down", "up", "last", "loop"} /\ UNCHANGED <<nil, serial, fileVars>>
    BY DEF TableInv, KeyboardLost, Create, Opened, OpenedEmpty, Objects
  <1>2. /\ paths'[0] = paths[0] /\ paths'[xfer'] = "xfer" /\ xfer' \in On("xfer")'
        /\ \A q \in Objects \ {"xfer"} : On(q)' = On(q)
    BY <1>1, OpenOn
  <1>3. OwnPaths' /\ KeyboardLost'
    BY <1>1, <1>2, OwnPathsStay, KeyboardStaysLost
  <1>4. TransferFile' /\ ChildHasLine'
    BY <1>1, <1>2 DEF TransferFile, ChildHasLine
  <1> QED
    BY <1>3, <1>4

\* ... and closed, or closed once more.
LEMMA TransferCloses ==
  ASSUME TableInv, ~failed,
         CreateNot \/ Received \/ SentAll \/ EotAnswered \/ UploadGivenUp
  PROVE  OwnPaths' /\ TransferFile' /\ KeyboardLost' /\ ChildHasLine'
  <1>1. /\ PathsTypeOK /\ OwnPaths /\ TransferFile /\ KeyboardLost
        /\ paths[0] # "free" /\ UNCHANGED <<nil, serial, fileVars>>
    BY DEF TableInv, KeyboardLost, CreateNot, Received, SentAll, EotAnswered, UploadGivenUp
  <1>2. paths \in Table /\ xfer \in Numbers \cup {NoPath} /\ NoPath \notin Numbers
        /\ "free" \notin Objects /\ "xfer" \in Objects
    BY <1>1, PathsAssumption DEF PathsTypeOK, Numbers, NoPath, Objects
  <1>3. \/ paths' = paths
        \/ /\ xfer \in Numbers /\ paths[xfer] = "xfer" /\ paths' = Closed(paths, xfer)
    <2>1. CASE paths' = Closed(paths, xfer) /\ (xfer = NoPath \/ paths[xfer] = "free")
      BY <1>2, <2>1, CloseNothing
    <2>2. CASE paths' = Closed(paths, NoPath)
      BY <1>2, <2>2 DEF Closed
    <2>3. \/ paths' = paths
          \/ paths' = Closed(paths, NoPath)
          \/ /\ paths' = Closed(paths, xfer)
             /\ xfer = NoPath \/ paths[xfer] = "free" \/ paths[xfer] = "xfer"
      <3>1. ppc \in {"down", "up"} => paths[xfer] = "xfer"
        BY <1>1 DEF TransferFile, On
      <3> QED
        BY <1>1, <3>1 DEF TransferFile, CreateNot, Received, SentAll, EotAnswered, UploadGivenUp
    <2>4. CASE paths' = Closed(paths, xfer) /\ xfer # NoPath /\ paths[xfer] = "xfer"
      BY <1>2, <2>4
    <2> QED
      BY <2>1, <2>2, <2>3, <2>4
  <1>4. /\ paths'[0] = paths[0]
        /\ \A q \in Objects \ {"xfer"} : On(q)' = On(q)
        /\ xfer \in Numbers /\ paths[xfer] = "xfer" /\ paths' = Closed(paths, xfer)
             => paths'[xfer] = "free"
    <2>1. CASE paths' = paths /\ ~(xfer \in Numbers /\ paths[xfer] = "xfer")
      BY <2>1 DEF On
    <2>2. CASE xfer \in Numbers /\ paths[xfer] = "xfer" /\ paths' = Closed(paths, xfer)
      <3>1. xfer # 0
        BY <1>1, <2>2 DEF OwnPaths, LineStays
      <3> QED
        BY <1>1, <1>2, <2>2, <3>1, CloseOn
    <2>3. CASE paths' = paths /\ paths' # Closed(paths, xfer)
      BY <2>3 DEF On
    <2> QED
      BY <1>3, <2>1, <2>2, <2>3
  <1>5. OwnPaths' /\ KeyboardLost'
    BY <1>1, <1>4, OwnPathsStay, KeyboardStaysLost
  <1>6. ChildHasLine'
    BY DEF ChildHasLine, CreateNot, Received, SentAll, EotAnswered, UploadGivenUp
  <1>7. TransferFile'
    <2>1. CASE CreateNot \/ UploadGivenUp
      BY <2>1 DEF TransferFile, CreateNot, UploadGivenUp
    <2>2. CASE Received \/ SentAll
      <3>1. /\ xfer \in Numbers /\ paths[xfer] = "xfer" /\ paths' = Closed(paths, xfer)
            /\ xfer' = xfer /\ ppc' \in {"loop", "head", "eot"}
        BY <1>1, <2>2 DEF TransferFile, On, Received, SentAll, xferVars
      <3> QED
        BY <1>4, <3>1 DEF TransferFile
    <2>3. CASE EotAnswered
      BY <1>1, <2>3 DEF TransferFile, EotAnswered
    <2> QED
      BY <2>1, <2>2, <2>3
  <1> QED
    BY <1>5, <1>6, <1>7

\* The steps that open and close nothing.
LEMMA OtherSteps ==
  ASSUME TableInv, ~failed,
         \/ TransferBegins \/ OpenNot \/ BatchEnds \/ PollKeyboard \/ Interrupted \/ Reaped
         \/ KeyRead \/ KeyAwaited \/ ShellBegins \/ ChildEnds \/ Type \/ UNCHANGED pathsVars
  PROVE  OwnPaths' /\ TransferFile' /\ KeyboardLost' /\ ChildHasLine'
  <1>1. OwnPaths /\ TransferFile /\ KeyboardLost /\ ChildHasLine
    BY DEF TableInv
  <1>2. paths' = paths /\ UNCHANGED <<nil, serial, fileVars>>
    BY DEF TransferBegins, OpenNot, BatchEnds, PollKeyboard, Interrupted, Reaped,
           KeyRead, KeyAwaited, ShellBegins, ChildEnds, Type, pathsVars
  <1>3. \A q : On(q)' = On(q)
    BY <1>2 DEF On
  <1>4. paths[0] = "free" => ppc' \in {"loop", "poll", "wait", "key"}
    BY <1>1 DEF KeyboardLost, TransferBegins, OpenNot, BatchEnds, PollKeyboard, Interrupted,
                Reaped, KeyRead, KeyAwaited, ShellBegins, ChildEnds, Type, pathsVars, Command
  <1>5. OwnPaths' /\ KeyboardLost'
    BY <1>1, <1>2, <1>3, <1>4, OwnPathsStay, KeyboardStaysLost
  <1>6. ChildHasLine'
    BY <1>1 DEF ChildHasLine, TransferBegins, OpenNot, BatchEnds, PollKeyboard, Interrupted,
                Reaped, KeyRead, KeyAwaited, ShellBegins, ChildEnds, Type, pathsVars, childVars
  <1>7. TransferFile'
    <2>1. CASE TransferBegins
      BY <2>1 DEF TransferBegins, TransferFile
    <2>2. CASE OpenNot
      BY <1>1, <2>2 DEF OpenNot, TransferFile
    <2>3. CASE xfer' = xfer /\ (ppc' = ppc \/ ppc' \in {"loop", "poll", "wait", "key", "shell"})
      BY <1>1, <1>2, <1>3, <2>3 DEF TransferFile
    <2> QED
      BY <2>1, <2>2, <2>3 DEF BatchEnds, PollKeyboard, Interrupted, Reaped,
         KeyRead, KeyAwaited, ShellBegins, ChildEnds, Type, pathsVars, xferVars
  <1> QED
    BY <1>5, <1>6, <1>7

\* External ZModem begins: the table stays as it is, or the keyboard is lost to
\* a table that is full.
LEMMA ZModemStep ==
  ASSUME TableInv, ~failed, ZModemBegins
  PROVE  OwnPaths' /\ TransferFile' /\ KeyboardLost' /\ ChildHasLine'
  <1>1. /\ PathsTypeOK /\ OwnPaths /\ TransferFile /\ KeyboardLost
        /\ ppc = "loop" /\ ppc' \in {"loop", "poll"} /\ UNCHANGED <<nil, serial, fileVars>>
    BY DEF TableInv, ZModemBegins
  <1>2. paths[serial] = "serial" /\ paths[0] \in {"term", "free"}
    BY <1>1 DEF OwnPaths, LineStays, On
  <1>3. ppc' = "poll" => childIn' = "serial"
    BY <1>1, <1>2, ExchangeFacts
  <1>4. TransferFile' /\ ChildHasLine'
    BY <1>1, <1>3 DEF TransferFile, ChildHasLine
  <1>5. CASE paths' = paths
    <2>1. \A q : On(q)' = On(q)
      BY <1>5 DEF On
    <2> QED
      BY <1>1, <1>4, <1>5, <2>1, OwnPathsStay, KeyboardStaysLost
  <1>6. CASE paths[0] = "term" /\ FreeIn(paths) = {} /\ paths' = Closed(paths, 0)
    <2>1. 0 \in Numbers /\ "term" \in Objects /\ "xfer" \in Objects
      BY PathsAssumption DEF Numbers, NoPath, Objects
    <2>2. /\ paths'[0] = "free" /\ On("term")' = On("term") \ {0}
          /\ \A q \in Objects \ {"term"} : On(q)' = On(q)
      BY <1>1, <1>6, <2>1, CloseOn
    <2>3. {"serial", "status", "nil", "conf", "capture", "ascii", "xfer"} \subseteq Objects \ {"term"}
      BY DEF Objects
    <2>4. OwnPaths'
      BY <1>1, <2>2, <2>3 DEF OwnPaths, LineStays, fileVars
    <2>5. Leaked' = Leaked
      BY <1>1, <2>1, <2>2 DEF Leaked
    <2>6. KeyboardLost'
      BY <1>1, <1>6, <2>5, FullIsLeaked DEF KeyboardLost
    <2> QED
      BY <1>4, <2>4, <2>6
  <1> QED
    BY <1>1, <1>2, <1>5, <1>6, ExchangeFacts

-----------------------------------------------------------------------------
LEMMA TableInit == PathsInit => TableInv
  <1> SUFFICES ASSUME PathsInit PROVE TableInv
    OBVIOUS
  <1>1. MaxPath \in Int /\ MaxPath >= 10 /\ \A n \in 0..9 : n \in Numbers
    BY PathsAssumption DEF Numbers, NoPath
  <1>2. /\ nil \in {0, 3} /\ serial = IF nil = 3 THEN 5 ELSE 4
        /\ \A n \in Numbers : paths[n] =
             IF n < 3 THEN "term" ELSE IF n = nil THEN "nil"
             ELSE IF n = serial - 1 THEN "status" ELSE IF n = serial THEN "serial" ELSE "free"
    BY DEF PathsInit
  <1>3. PathsTypeOK
    <2>1. paths \in Table
      BY DEF PathsInit, Table, Objects
    <2>2. confOn \in BOOLEAN /\ capOpen \in BOOLEAN /\ asciiOn \in BOOLEAN /\ batch \in BOOLEAN
          /\ failed \in BOOLEAN
      BY Zenon DEF PathsInit
    <2>3. conf \in Numbers /\ capture \in Numbers /\ ascii \in Numbers /\ xfer \in Numbers
      BY <1>1 DEF PathsInit
    <2>4. /\ ppc = "loop" /\ child = "none" /\ childIn = "none" /\ typed = "none"
      BY DEF PathsInit
    <2> QED
      BY <1>2, <2>1, <2>2, <2>3, <2>4 DEF PathsTypeOK
  <1>4. On("term") = 0..2 /\ paths[0] = "term"
    BY <1>1, <1>2 DEF On, Numbers
  <1>5. /\ On("serial") = {serial} /\ On("status") = {serial - 1}
        /\ On("nil") = IF nil = 0 THEN {} ELSE {nil}
    BY <1>1, <1>2 DEF On, Numbers
  <1>6. On("conf") = {} /\ On("capture") = {} /\ On("ascii") = {}
    BY <1>2 DEF On
  <1>7. OwnPaths
    BY <1>4, <1>5, <1>6 DEF OwnPaths, LineStays, PathsInit
  <1>8. TransferFile /\ KeyboardLost /\ ChildHasLine
    BY <1>4 DEF PathsInit, TransferFile, KeyboardLost, ChildHasLine
  <1> QED
    BY <1>3, <1>7, <1>8 DEF TableInv

\* The table is in order until a conference window fails, in every reachable
\* state, whatever is opened, closed or given to a child.
THEOREM TableInvariant == PathsSpec => []TableInv
  <1>1. TableInv /\ [PathsNext]_pathsVars => TableInv'
    <2> SUFFICES ASSUME TableInv, [PathsNext]_pathsVars PROVE TableInv'
      OBVIOUS
    <2>1. PathsTypeOK'
      BY TypeStep DEF TableInv
    <2>2. ASSUME ~failed' PROVE OwnPaths' /\ TransferFile' /\ KeyboardLost' /\ ChildHasLine'
      <3>1. ~failed
        BY <2>2 DEF PathsNext, pathsVars, ConferenceOn, ConferenceFails, ConferenceOff, CaptureOpened,
           CaptureClosed, AsciiBegins, AsciiEnds, TransferBegins, Create, CreateNot, Received, Opened,
           OpenedEmpty, OpenNot, SentAll, EotAnswered, BatchEnds, UploadGivenUp, ZModemBegins,
           PollKeyboard, Interrupted, Reaped, KeyRead, KeyAwaited, ShellBegins, ChildEnds, Type
      <3>2. ~ConferenceFails
        BY <2>2 DEF ConferenceFails
      <3>3. CASE \/ ConferenceOn \/ ConferenceOff \/ CaptureOpened \/ CaptureClosed
                 \/ AsciiBegins \/ AsciiEnds
        BY <3>1, <3>3, OwnFileSteps
      <3>4. CASE Create \/ Opened \/ OpenedEmpty
        BY <3>1, <3>4, TransferOpens
      <3>5. CASE CreateNot \/ Received \/ SentAll \/ EotAnswered \/ UploadGivenUp
        BY <3>1, <3>5, TransferCloses
      <3>6. CASE \/ TransferBegins \/ OpenNot \/ BatchEnds \/ PollKeyboard \/ Interrupted
                 \/ Reaped \/ KeyRead \/ KeyAwaited \/ ShellBegins \/ ChildEnds \/ Type
                 \/ UNCHANGED pathsVars
        BY <3>1, <3>6, OtherSteps
      <3>7. CASE ZModemBegins
        BY <3>1, <3>7, ZModemStep
      <3> QED
        BY <3>2, <3>3, <3>4, <3>5, <3>6, <3>7 DEF PathsNext
    <2> QED
      BY <2>1, <2>2 DEF TableInv
  <1> QED
    BY <1>1, TableInit, PTL DEF PathsSpec

\* Until a conference window failed or the leaked paths have filled the table,
\* every object is open exactly on the path its variable names.
THEOREM PathsHold == PathsSpec => []PathsInv
  <1>1. TableInv => PathsInv
    <2> SUFFICES ASSUME TableInv PROVE PathsInv
      OBVIOUS
    <2>1. PathsTypeOK
      BY DEF TableInv
    <2>2. ASSUME Sound PROVE
            /\ On("term") = 0..2 /\ On("serial") = {serial} /\ On("status") = {serial - 1}
            /\ On("nil") = IF nil = 0 THEN {} ELSE {nil}
            /\ On("conf") = IF confOn THEN {conf} ELSE {}
            /\ On("capture") = IF capOpen THEN {capture} ELSE {}
            /\ On("ascii") = IF asciiOn THEN {ascii} ELSE {}
            /\ ppc \in {"down", "up"} => paths[xfer] = "xfer"
            /\ ppc \in {"poll", "wait"} => childIn = "serial"
      <3>1. OwnPaths /\ TransferFile /\ KeyboardLost /\ ChildHasLine
        BY <2>2 DEF TableInv, Sound
      <3>2. Cardinality(Leaked) \in Nat
        <4>1. IsFiniteSet(Numbers)
          BY PathsAssumption, FS_Interval DEF Numbers, NoPath
        <4>2. Leaked \subseteq Numbers
          BY DEF Leaked, On
        <4> QED
          BY <4>1, <4>2, FS_Subset, FS_CardinalityType
      <3>3. paths[0] = "term"
        BY <2>2, <3>1, <3>2, PathsAssumption DEF Sound, KeyboardLost, OwnPaths, LineStays, NoPath
      <3>4. On("term") = 0..2
        <4>1. 0 \in On("term")
          BY <3>3, PathsAssumption DEF On, Numbers, NoPath
        <4> QED
          BY <3>1, <4>1 DEF OwnPaths, LineStays
      <3>5. ppc \in {"down", "up"} => paths[xfer] = "xfer"
        BY <3>1 DEF TransferFile, On
      <3> QED
        BY <3>1, <3>4, <3>5 DEF OwnPaths, LineStays, ChildHasLine
    <2> QED
      BY <2>1, <2>2 DEF PathsInv, OnItsPath
  <1> QED
    BY <1>1, TableInvariant, PTL

-----------------------------------------------------------------------------
(* The line, the screen and the status window, whatever goes wrong.        *)

\* Up to the serial path no number but 0 is free, or names a file.
LEMMA LowPathsInUse ==
  ASSUME PathsTypeOK, LineStays, NEW n \in Numbers, n # 0,
         paths[n] \in {"free", "conf", "capture", "ascii", "xfer"}
  PROVE  n > serial
  <1>1. n \notin {1, 2} /\ n # serial /\ n # serial - 1
    <2>1. \A o \in {"term", "serial", "status"} : n \notin On(o)
      BY DEF On
    <2>2. {1, 2} \subseteq On("term") \cup {0}
      BY DEF LineStays
    <2> QED
      BY <2>1, <2>2 DEF LineStays
  <1>2. nil # 0 => n # nil
    <2>1. n \notin On("nil")
      BY DEF On
    <2> QED
      BY <2>1 DEF LineStays
  <1> QED
    BY <1>1, <1>2, PathsAssumption DEF PathsTypeOK, Numbers, NoPath

\* A file that is opened gets a number above them all, ...
LEMMA LineOpens ==
  ASSUME PathsTypeOK, LineStays, NEW o \in {"conf", "capture", "ascii", "xfer"},
         FreeIn(paths) # {}, paths[0] # "free", paths' = WithOpen(paths, o),
         UNCHANGED <<nil, serial>>
  PROVE  LineStays' /\ paths'[0] = paths[0] /\ Lowest(FreeIn(paths)) > serial
  <1>1. /\ o \in Objects
        /\ {"term", "serial", "status", "nil"} \subseteq Objects \ {o}
    BY DEF Objects
  <1> DEFINE n == Lowest(FreeIn(paths))
  <1>2. /\ n \in Numbers /\ n # 0 /\ paths[n] = "free" /\ paths'[0] = paths[0]
        /\ \A q \in Objects \ {o} : On(q)' = On(q)
    BY <1>1, OpenOn
  <1> HIDE DEF n
  <1>3. n > serial
    BY <1>2, LowPathsInUse
  <1>4. LineStays'
    BY <1>1, <1>2 DEF LineStays
  <1> QED
    BY <1>2, <1>3, <1>4 DEF n

\* ... and what is closed is one of those, nothing, or the keyboard's path.
LEMMA LineCloses ==
  ASSUME PathsTypeOK, LineStays, NEW n \in Numbers \cup {NoPath}, n = 0 \/ n > serial,
         paths' = Closed(paths, n), UNCHANGED <<nil, serial>>
  PROVE  LineStays' /\ (n # 0 => paths'[0] = paths[0])
  <1>1. /\ paths \in Table /\ 0 \in Numbers /\ NoPath \notin Numbers /\ "free" \notin Objects
        /\ {"term", "serial", "status", "nil"} \subseteq Objects
    BY PathsAssumption DEF PathsTypeOK, Numbers, NoPath, Objects
  <1>2. CASE paths' = paths
    BY <1>2 DEF LineStays, On
  <1>3. CASE n \in Numbers /\ n # 0 /\ paths[n] # "free"
    <2>1. /\ paths'[n] = "free" /\ paths'[0] = paths[0]
          /\ \A k \in Numbers \ {n} : paths'[k] = paths[k]
      BY <1>1, <1>3, CloseFacts
    <2>2. \A q \in {"term", "serial", "status", "nil"} : n \notin On(q)
      BY <1>3, PathsAssumption DEF LineStays, PathsTypeOK, Numbers, NoPath
    <2>3. \A q \in {"term", "serial", "status", "nil"} : On(q)' = On(q)
      BY <1>1, <2>1, <2>2 DEF On
    <2> QED
      BY <1>3, <2>1, <2>3 DEF LineStays
  <1>4. CASE n = 0 /\ paths[0] = "term"
    <2>1. /\ paths'[0] = "free" /\ On("term")' = On("term") \ {0}
          /\ \A q \in Objects \ {"term"} : On(q)' = On(q)
      BY <1>1, <1>4, CloseOn
    <2>2. {"serial", "status", "nil"} \subseteq Objects \ {"term"}
      BY DEF Objects
    <2> QED
      BY <1>4, <2>1, <2>2 DEF LineStays
  <1>5. \/ paths' = paths
        \/ n \in Numbers /\ n # 0 /\ paths[n] # "free"
        \/ n = 0 /\ paths[0] = "term"
    <2>1. CASE n = NoPath \/ paths[n] = "free"
      BY <1>1, <2>1, CloseNothing
    <2>2. CASE n # NoPath /\ paths[n] # "free"
      BY <2>2 DEF LineStays
    <2> QED
      BY <2>1, <2>2
  <1> QED
    BY <1>2, <1>3, <1>4, <1>5

\* The steps that open a file.
LEMMA LineOpenSteps ==
  ASSUME LineInv, PathsTypeOK',
         \/ ConferenceOn \/ CaptureOpened \/ AsciiBegins \/ Create \/ Opened \/ OpenedEmpty
  PROVE  LineInv'
  <1> DEFINE n == Lowest(FreeIn(paths))
  <1>1. /\ PathsTypeOK /\ LineStays /\ paths[0] # "free" /\ FreeIn(paths) # {}
        /\ UNCHANGED <<nil, serial>>
        /\ \E o \in {"conf", "capture", "ascii", "xfer"} : paths' = WithOpen(paths, o)
    BY DEF LineInv, ConferenceOn, CaptureOpened, AsciiBegins, Create, Opened, OpenedEmpty, Command
  <1>2. LineStays' /\ paths'[0] # "free" /\ n > serial
    BY <1>1, LineOpens
  <1> HIDE DEF n
  <1>3. CASE ConferenceOn
    BY <1>1, <1>2, <1>3 DEF LineInv, ConferenceOn, Command, xferVars, n
  <1>4. CASE CaptureOpened
    BY <1>1, <1>2, <1>4 DEF LineInv, CaptureOpened, Command, xferVars, n
  <1>5. CASE AsciiBegins
    BY <1>1, <1>2, <1>5 DEF LineInv, AsciiBegins, Command, xferVars, n
  <1>6. CASE Create \/ Opened \/ OpenedEmpty
    <2>1. xfer' = n /\ UNCHANGED fileVars
      BY <1>6 DEF Create, Opened, OpenedEmpty, n
    <2> QED
      BY <1>1, <1>2, <2>1 DEF LineInv, fileVars
  <1> QED
    BY <1>3, <1>4, <1>5, <1>6

\* The steps that close one, or something else by a stale number.
LEMMA LineCloseSteps ==
  ASSUME LineInv, PathsTypeOK',
         \/ ConferenceFails \/ ConferenceOff \/ CaptureClosed \/ AsciiEnds
         \/ CreateNot \/ Received \/ SentAll \/ EotAnswered \/ UploadGivenUp
  PROVE  LineInv'
  <1>1. /\ PathsTypeOK /\ LineStays /\ serial > 0 /\ NoPath > serial
        /\ conf \in Numbers /\ capture \in Numbers /\ ascii \in Numbers
        /\ xfer \in Numbers \cup {NoPath} /\ 0 \in Numbers
    BY PathsAssumption DEF LineInv, PathsTypeOK, NoPath, Numbers
  <1>2. CASE ConferenceFails
    <2>1. LineStays'
      BY <1>1, <1>2, LineCloses DEF LineInv, ConferenceFails
    <2> QED
      BY <1>1, <1>2, <2>1 DEF LineInv, ConferenceFails, Command, fileVars, xferVars
  <1>3. CASE ConferenceOff
    <2>1. conf > serial /\ conf # 0
      BY <1>3, PathsAssumption DEF LineInv, PathsTypeOK, ConferenceOff
    <2>2. LineStays' /\ paths'[0] = paths[0]
      BY <1>1, <1>3, <2>1, LineCloses DEF ConferenceOff
    <2> QED
      BY <1>1, <1>3, <2>2 DEF LineInv, ConferenceOff, xferVars
  <1>4. CASE CaptureClosed
    <2>1. capture > serial /\ capture # 0
      BY <1>4, PathsAssumption DEF LineInv, PathsTypeOK, CaptureClosed
    <2>2. LineStays' /\ paths'[0] = paths[0]
      BY <1>1, <1>4, <2>1, LineCloses DEF CaptureClosed
    <2> QED
      BY <1>1, <1>4, <2>2 DEF LineInv, CaptureClosed, xferVars
  <1>5. CASE AsciiEnds
    <2>1. ascii > serial /\ ascii # 0
      BY <1>5, PathsAssumption DEF LineInv, PathsTypeOK, AsciiEnds
    <2>2. LineStays' /\ paths'[0] = paths[0]
      BY <1>1, <1>5, <2>1, LineCloses DEF AsciiEnds
    <2> QED
      BY <1>1, <1>5, <2>2 DEF LineInv, AsciiEnds, xferVars
  <1>6. CASE CreateNot \/ Received \/ SentAll \/ EotAnswered \/ UploadGivenUp
    <2>1. /\ paths[0] # "free" /\ xfer > serial /\ UNCHANGED <<nil, serial, fileVars>>
          /\ xfer' = xfer \/ xfer' = NoPath
          /\ \/ paths' = paths
             \/ \E k \in {xfer, NoPath} : paths' = Closed(paths, k)
      BY <1>6 DEF LineInv, CreateNot, Received, SentAll, EotAnswered, UploadGivenUp, xferVars
    <2>2. LineStays' /\ paths'[0] # "free"
      <3>1. CASE paths' = paths
        BY <1>1, <2>1, <3>1 DEF LineStays, On
      <3>2. ASSUME NEW k \in {xfer, NoPath}, paths' = Closed(paths, k)
            PROVE  LineStays' /\ paths'[0] # "free"
        <4>1. k \in Numbers \cup {NoPath} /\ k > serial /\ k # 0
          BY <1>1, <2>1, PathsAssumption DEF PathsTypeOK, Numbers, NoPath
        <4> QED
          BY <1>1, <2>1, <3>2, <4>1, LineCloses
      <3> QED
        BY <2>1, <3>1, <3>2
    <2> QED
      BY <1>1, <2>1, <2>2 DEF LineInv, fileVars
  <1> QED
    BY <1>2, <1>3, <1>4, <1>5, <1>6

\* The steps that leave the table as it is, and the exchange for a child.
LEMMA LineOtherSteps ==
  ASSUME LineInv, PathsTypeOK',
         \/ TransferBegins \/ OpenNot \/ BatchEnds \/ ZModemBegins \/ PollKeyboard \/ Interrupted
         \/ Reaped \/ KeyRead \/ KeyAwaited \/ ShellBegins \/ ChildEnds \/ Type
         \/ UNCHANGED pathsVars
  PROVE  LineInv'
  <1>1. PathsTypeOK /\ LineStays /\ 0 \in Numbers /\ serial > 0 /\ NoPath > serial
    BY PathsAssumption DEF LineInv, PathsTypeOK, Numbers, NoPath
  <1>2. UNCHANGED <<nil, serial, fileVars>>
    BY DEF TransferBegins, OpenNot, BatchEnds, ZModemBegins, PollKeyboard, Interrupted, Reaped,
       KeyRead, KeyAwaited, ShellBegins, ChildEnds, Type, pathsVars
  <1>3. CASE ZModemBegins
    <2>1. paths[serial] = "serial" /\ paths[0] \in {"term", "free"}
      BY <1>1 DEF LineStays, On
    <2>2. paths' = paths \/ paths' = Closed(paths, 0)
      BY <1>1, <1>3, <2>1, ExchangeFacts
    <2>3. LineStays'
      <3>1. CASE paths' = paths
        BY <1>1, <1>2, <3>1 DEF LineStays, On
      <3>2. CASE paths' = Closed(paths, 0)
        BY <1>1, <1>2, <3>2, LineCloses
      <3> QED
        BY <2>2, <3>1, <3>2
    <2>4. ppc' \in {"loop", "poll"}
      BY <1>3 DEF ZModemBegins
    <2> QED
      BY <1>2, <2>3, <2>4 DEF LineInv, fileVars
  <1>4. CASE ~ZModemBegins
    <2>1. paths' = paths
      BY <1>4 DEF TransferBegins, OpenNot, BatchEnds, PollKeyboard, Interrupted, Reaped,
         KeyRead, KeyAwaited, ShellBegins, ChildEnds, Type, pathsVars
    <2>2. LineStays'
      BY <1>1, <1>2, <2>1 DEF LineStays, On
    <2>3. /\ ppc' \in {"create", "head", "down", "open", "up", "eot", "last"} => xfer' > serial
          /\ paths[0] = "free" => ppc' \in {"loop", "poll", "wait", "key"}
      BY <1>1, <1>4 DEF LineInv, Command, TransferBegins, OpenNot, BatchEnds, PollKeyboard,
         Interrupted, Reaped, KeyRead, KeyAwaited, ShellBegins, ChildEnds, Type, pathsVars, xferVars
    <2> QED
      BY <1>2, <2>1, <2>2, <2>3 DEF LineInv, fileVars
  <1> QED
    BY <1>3, <1>4

\* Whatever fails, also after a conference window that could not be opened has
\* closed a path that is not its own (asm 4275, 2591), and with a table that
\* empty files have filled (7083): every write to the line, the screen or the
\* status window goes where it should, and path 0 is the keyboard or nothing.
THEOREM LineKept == PathsSpec => []LineStays
  <1>1. PathsInit => LineInv
    <2>1. PathsInit => TableInv /\ ~failed
      BY TableInit DEF PathsInit
    <2>2. TableInv /\ ~failed => PathsTypeOK /\ LineStays /\ KeyboardLost
      BY DEF TableInv, OwnPaths
    <2> QED
      BY <2>1, <2>2 DEF LineInv, PathsInit, KeyboardLost
  <1>2. LineInv /\ [PathsNext]_pathsVars => LineInv'
    <2> SUFFICES ASSUME LineInv, [PathsNext]_pathsVars PROVE LineInv'
      OBVIOUS
    <2>1. PathsTypeOK'
      BY TypeStep DEF LineInv
    <2> QED
      BY <2>1, LineOpenSteps, LineCloseSteps, LineOtherSteps DEF PathsNext
  <1>3. LineInv => LineStays
    BY DEF LineInv
  <1> QED
    BY <1>1, <1>2, <1>3, PTL DEF PathsSpec

-----------------------------------------------------------------------------
(* Streams of characters, cut into chunks.                                 *)

\* The stream s goes on with chunk c, of which r has not been read.
Upto(s, c, r) == s \o SubSeq(c, 1, Len(c) - Len(r))

IsRest(c, r) ==
  /\ c \in Seq(Chars) /\ r \in Seq(Chars) /\ Len(r) <= Len(c)
  /\ \A i \in 1..Len(r) : r[i] = c[Len(c) - Len(r) + i]

\* The last n characters of s are the first n of p.
Reaches(p, s, n) == n \in 1..Len(s) /\ \A i \in 1..n : s[Len(s) - n + i] = p[i]

\* A matcher that counts n characters of p is right that they have come ...
Begun(p, s, n) == n > 0 => Reaches(p, s, n)

\* ... and that no others have.
NotBegun(p, s, n) == n = 0 => \A k \in 1..Len(p) : ~Reaches(p, s, k)

Occurs(p, s) == \E i \in 1..Len(s) : At(p, s, i)

LEMMA UptoFacts ==
  ASSUME NEW s \in Seq(Chars), NEW c, NEW r, IsRest(c, r)
  PROVE  /\ Upto(s, c, r) \in Seq(Chars)
         /\ Upto(s, c, c) = s
         /\ Upto(s, c, <<>>) = s \o c
         /\ r # <<>> =>
              /\ Head(r) \in Chars /\ IsRest(c, Tail(r))
              /\ Head(r) = c[Len(c) - Len(r) + 1]
<1>1. c \in Seq(Chars) /\ r \in Seq(Chars) /\ Len(r) <= Len(c) /\ Len(c) \in Nat /\ Len(r) \in Nat
  BY DEF IsRest
<1> DEFINE n == Len(c) - Len(r)
<1>2. n \in 0..Len(c) /\ SubSeq(c, 1, n) \in Seq(Chars)
  BY <1>1
<1>3. SubSeq(c, 1, Len(c)) = c
  BY <1>1
<1>4. SubSeq(c, 1, 0) = <<>> /\ s \o <<>> = s
  BY <1>1
<1>5. ASSUME r # <<>>
      PROVE  /\ Head(r) \in Chars /\ IsRest(c, Tail(r))
             /\ Head(r) = c[Len(c) - Len(r) + 1]
  <2>1. /\ Len(r) > 0 /\ Head(r) = r[1] /\ Tail(r) \in Seq(Chars) /\ Len(Tail(r)) = Len(r) - 1
        /\ \A i \in 1..(Len(r) - 1) : Tail(r)[i] = r[i + 1]
    BY <1>1, <1>5
  <2>2. Head(r) = c[n + 1] /\ Head(r) \in Chars
    BY <1>1, <2>1 DEF IsRest
  <2>3. IsRest(c, Tail(r))
    <3>1. ASSUME NEW i \in 1..Len(Tail(r)) PROVE Tail(r)[i] = c[Len(c) - Len(Tail(r)) + i]
      <4>1. i + 1 \in 1..Len(r) /\ Tail(r)[i] = r[i + 1]
        BY <1>1, <2>1
      <4>2. r[i + 1] = c[Len(c) - Len(r) + (i + 1)]
        BY <4>1 DEF IsRest
      <4>3. Len(c) - Len(r) + (i + 1) = Len(c) - Len(Tail(r)) + i
        BY <1>1, <2>1
      <4> QED BY <4>1, <4>2, <4>3
    <3> QED BY <1>1, <2>1, <3>1 DEF IsRest
  <2> QED BY <2>2, <2>3
<1>6. Upto(s, c, c) = s
  <2>1. Len(c) - Len(c) = 0
    BY <1>1
  <2> QED BY <1>4, <2>1 DEF Upto
<1>7. Upto(s, c, <<>>) = s \o c
  <2>1. Len(c) - Len(<<>>) = Len(c)
    BY <1>1
  <2> QED BY <1>3, <2>1 DEF Upto
<1>8. Upto(s, c, r) \in Seq(Chars)
  <2> DEFINE x == SubSeq(c, 1, n)
  <2>1. x \in Seq(Chars) /\ Upto(s, c, r) = s \o x
    BY <1>2 DEF Upto
  <2> HIDE DEF x
  <2> QED BY <2>1
<1> QED BY <1>5, <1>6, <1>7, <1>8

LEMMA UptoNext ==
  ASSUME NEW s \in Seq(Chars), NEW c, NEW r, IsRest(c, r), r # <<>>
  PROVE  Upto(s, c, Tail(r)) = Append(Upto(s, c, r), Head(r))
<1>1. c \in Seq(Chars) /\ r \in Seq(Chars) /\ Len(r) <= Len(c) /\ Len(c) \in Nat /\ Len(r) \in Nat
  BY DEF IsRest
<1> DEFINE n == Len(c) - Len(r)
           x == SubSeq(c, 1, n)
<1>2. n \in 0..Len(c) /\ x \in Seq(Chars)
  BY <1>1
<1>3. Len(r) > 0 /\ Head(r) = r[1] /\ Len(Tail(r)) = Len(r) - 1
  BY <1>1
<1>4. Head(r) = c[n + 1] /\ Head(r) \in Chars
  BY <1>1, <1>3 DEF IsRest
<1>5. SubSeq(c, 1, n + 1) = Append(x, c[n + 1])
  BY <1>1, <1>2, <1>3
<1>6. Len(c) - Len(Tail(r)) = n + 1
  BY <1>1, <1>3
<1>7. s \o Append(x, Head(r)) = Append(s \o x, Head(r))
  <2> HIDE DEF x
  <2> QED BY <1>2, <1>4
<1> QED BY <1>4, <1>5, <1>6, <1>7 DEF Upto

LEMMA ReachesAppend ==
  ASSUME NEW p, NEW s \in Seq(Chars), NEW c \in Chars, NEW n \in Nat \ {0}
  PROVE  Reaches(p, Append(s, c), n) <=> c = p[n] /\ (n = 1 \/ Reaches(p, s, n - 1))
<1> DEFINE a == Append(s, c)
<1>1. /\ Len(s) \in Nat /\ Len(a) = Len(s) + 1 /\ a[Len(s) + 1] = c
      /\ \A i \in 1..Len(s) : a[i] = s[i]
  OBVIOUS
<1> HIDE DEF a
<1>2. ASSUME Reaches(p, a, n) PROVE c = p[n] /\ (n = 1 \/ Reaches(p, s, n - 1))
  <2>1. n \in 1..Len(a) /\ \A i \in 1..n : a[Len(a) - n + i] = p[i]
    BY <1>2 DEF Reaches
  <2>2. c = p[n]
    BY <1>1, <2>1
  <2>3. ASSUME n # 1 PROVE Reaches(p, s, n - 1)
    <3>1. n - 1 \in 1..Len(s)
      BY <1>1, <2>1, <2>3
    <3>2. ASSUME NEW i \in 1..(n - 1) PROVE s[Len(s) - (n - 1) + i] = p[i]
      <4>1. Len(s) - (n - 1) + i = Len(a) - n + i /\ Len(s) - (n - 1) + i \in 1..Len(s) /\ i \in 1..n
        BY <1>1, <3>1
      <4> QED BY <1>1, <2>1, <4>1
    <3> QED BY <3>1, <3>2 DEF Reaches
  <2> QED BY <2>2, <2>3
<1>3. ASSUME c = p[n], n = 1 \/ Reaches(p, s, n - 1) PROVE Reaches(p, a, n)
  <2>1. CASE n = 1
    <3>1. n \in 1..Len(a)
      BY <1>1, <2>1
    <3>2. ASSUME NEW i \in 1..n PROVE a[Len(a) - n + i] = p[i]
      <4>1. i = 1 /\ Len(a) - n + i = Len(s) + 1
        BY <1>1, <2>1
      <4> QED BY <1>1, <1>3, <2>1, <4>1
    <3> QED BY <3>1, <3>2 DEF Reaches
  <2>2. CASE n # 1
    <3>1. n - 1 \in 1..Len(s) /\ \A i \in 1..(n - 1) : s[Len(s) - (n - 1) + i] = p[i]
      BY <1>3, <2>2 DEF Reaches
    <3>2. n \in 1..Len(a)
      BY <1>1, <3>1
    <3>3. ASSUME NEW i \in 1..n PROVE a[Len(a) - n + i] = p[i]
      <4>1. CASE i = n
        BY <1>1, <1>3, <4>1
      <4>2. CASE i # n
        <5>1. i \in 1..(n - 1) /\ Len(a) - n + i = Len(s) - (n - 1) + i
              /\ Len(s) - (n - 1) + i \in 1..Len(s)
          BY <1>1, <3>1, <4>2
        <5> QED BY <1>1, <3>1, <5>1
      <4> QED BY <4>1, <4>2
    <3> QED BY <3>2, <3>3 DEF Reaches
  <2> QED BY <2>1, <2>2
<1> QED BY <1>2, <1>3 DEF a

\* If the first character of p does not come back in it, at most one beginning
\* of p is at the end of a stream.
LEMMA OneBeginning ==
  ASSUME NEW p \in Seq(Chars), Simple(p), NEW s \in Seq(Chars),
         NEW k \in 1..Len(p), NEW n \in 1..Len(p), Reaches(p, s, k), Reaches(p, s, n)
  PROVE  k = n
<1>1. ASSUME NEW i \in 1..Len(p), NEW j \in 1..Len(p), Reaches(p, s, i), Reaches(p, s, j), i < j
      PROVE  FALSE
  <2>1. s[Len(s) - i + 1] = p[1] /\ Len(s) \in Nat /\ i <= Len(s) /\ j <= Len(s)
    BY <1>1 DEF Reaches
  <2>2. j - i + 1 \in 2..Len(p) /\ j - i + 1 \in 1..j
    BY <1>1
  <2>3. s[Len(s) - j + (j - i + 1)] = p[j - i + 1]
    BY <1>1, <2>2 DEF Reaches
  <2>4. Len(s) - j + (j - i + 1) = Len(s) - i + 1
    BY <2>1, <1>1
  <2> QED BY <2>1, <2>2, <2>3, <2>4 DEF Simple
<1> QED BY <1>1

\* What one more character makes of the count.
LEMMA FitsRight ==
  ASSUME NEW p \in Seq(Chars), NEW s \in Seq(Chars), NEW c \in Chars,
         NEW k \in 0..(Len(p) - 1), Begun(p, s, k)
  PROVE  /\ Fits(p, k, c) \in 0..Len(p)
         /\ Begun(p, Append(s, c), Fits(p, k, c))
         /\ Simple(p) /\ NotBegun(p, s, k) => NotBegun(p, Append(s, c), Fits(p, k, c))
<1> DEFINE n == Fits(p, k, c)
           a == Append(s, c)
<1>1. n = IF c = p[k + 1] THEN k + 1 ELSE IF c = p[1] THEN 1 ELSE 0
  BY DEF Fits
<1>2. n \in 0..Len(p)
  BY <1>1
<1>3. ASSUME n > 0 PROVE Reaches(p, a, n)
  <2>1. CASE c = p[k + 1]
    <3>1. n = k + 1 /\ n \in Nat \ {0} /\ (n = 1 \/ Reaches(p, s, n - 1))
      BY <1>1, <2>1 DEF Begun
    <3> QED BY <2>1, <3>1, ReachesAppend
  <2>2. CASE c # p[k + 1]
    <3>1. n = 1 /\ c = p[1]
      BY <1>1, <1>3, <2>2
    <3> QED BY <3>1, ReachesAppend
  <2> QED BY <2>1, <2>2
<1>4. ASSUME Simple(p), NotBegun(p, s, k), n = 0, NEW j \in 1..Len(p) PROVE ~Reaches(p, a, j)
  <2> SUFFICES ASSUME Reaches(p, a, j) PROVE FALSE
    OBVIOUS
  <2>1. c = p[j] /\ (j = 1 \/ Reaches(p, s, j - 1))
    BY ReachesAppend
  <2>2. c # p[1] /\ c # p[k + 1]
    BY <1>1, <1>4
  <2>3. Reaches(p, s, j - 1) /\ j - 1 \in 1..Len(p)
    BY <2>1, <2>2
  <2>4. k \in 1..Len(p) /\ Reaches(p, s, k)
    BY <1>4, <2>3 DEF NotBegun, Begun
  <2>5. k = j - 1
    BY <1>4, <2>3, <2>4, OneBeginning
  <2> QED BY <2>1, <2>2, <2>5
<1> QED BY <1>2, <1>3, <1>4 DEF Begun, NotBegun

LEMMA ReachesLast ==
  ASSUME NEW p, NEW s \in Seq(Chars), NEW k \in Nat
  PROVE  /\ Last(s, k) \in Seq(Chars) /\ Len(Last(s, k)) <= k /\ Len(Last(s, k)) <= Len(s)
         /\ \A n \in 1..k : Reaches(p, Last(s, k), n) <=> Reaches(p, s, n)
         /\ \A i \in 1..Len(Last(s, k)) : Last(s, k)[i] = s[Len(s) - Len(Last(s, k)) + i]
<1> DEFINE l == Last(s, k)
<1>1. Len(s) \in Nat
  OBVIOUS
<1>2. CASE Len(s) <= k
  <2>1. l = s
    BY <1>2 DEF Last
  <2>2. \A i \in 1..Len(s) : Len(s) - Len(s) + i = i
    BY <1>1
  <2> QED BY <1>1, <1>2, <2>1, <2>2
<1>3. CASE Len(s) > k
  <2>1. l = SubSeq(s, Len(s) - k + 1, Len(s))
    BY <1>1, <1>3 DEF Last
  <2>2. /\ l \in Seq(Chars) /\ Len(l) = k
        /\ \A i \in 1..k : l[i] = s[Len(s) - k + i]
    BY <1>1, <1>3, <2>1
  <2> HIDE DEF l
  <2>3. ASSUME NEW n \in 1..k PROVE Reaches(p, l, n) <=> Reaches(p, s, n)
    <3>1. \A i \in 1..n : /\ k - n + i \in 1..k /\ Len(s) - k + (k - n + i) = Len(s) - n + i
                          /\ Len(l) - n + i = k - n + i
      BY <1>1, <2>2
    <3>2. \A i \in 1..n : l[Len(l) - n + i] = s[Len(s) - n + i]
      BY <2>2, <3>1
    <3>3. n \in 1..Len(l) /\ n \in 1..Len(s)
      BY <1>1, <1>3, <2>2
    <3> QED BY <3>2, <3>3 DEF Reaches
  <2> QED BY <1>1, <1>3, <2>2, <2>3 DEF l
<1> QED BY <1>1, <1>2, <1>3

LEMMA AtIs ==
  ASSUME NEW p \in Seq(Chars), NEW s \in Seq(Chars), NEW i \in 1..Len(s)
  PROVE  At(p, s, i) <=> /\ i + Len(p) - 1 <= Len(s)
                         /\ \A j \in 1..Len(p) : s[i + j - 1] = p[j]
<1> DEFINE e == i + Len(p) - 1
           x == SubSeq(s, i, e)
<1>1. Len(p) \in Nat /\ Len(s) \in Nat /\ i \in Nat \ {0} /\ e \in Nat
  OBVIOUS
<1>2. ASSUME e <= Len(s)
      PROVE  x \in Seq(Chars) /\ Len(x) = Len(p) /\ \A j \in 1..Len(p) : x[j] = s[i + j - 1]
  BY <1>1, <1>2
<1>3. ASSUME e <= Len(s) PROVE x = p <=> \A j \in 1..Len(p) : s[i + j - 1] = p[j]
  <2> HIDE DEF x
  <2>1. x = p => \A j \in 1..Len(p) : s[i + j - 1] = p[j]
    BY <1>2, <1>3
  <2>2. ASSUME \A j \in 1..Len(p) : s[i + j - 1] = p[j] PROVE x = p
    <3>1. \A j \in 1..Len(p) : x[j] = p[j]
      BY <1>2, <1>3, <2>2
    <3> QED BY <1>2, <1>3, <3>1, SeqEqual
  <2> QED BY <2>1, <2>2
<1> QED BY <1>3 DEF At

LEMMA OccursAppend ==
  ASSUME NEW p \in Seq(Chars), p # <<>>, NEW s \in Seq(Chars), NEW c \in Chars
  PROVE  Occurs(p, Append(s, c)) <=> Occurs(p, s) \/ Reaches(p, Append(s, c), Len(p))
<1> DEFINE a == Append(s, c)
<1>1. /\ a \in Seq(Chars) /\ Len(s) \in Nat /\ Len(p) \in Nat \ {0} /\ Len(a) = Len(s) + 1
      /\ \A i \in 1..Len(s) : a[i] = s[i]
  OBVIOUS
<1> HIDE DEF a
<1>2. ASSUME NEW i \in 1..Len(s), At(p, s, i) PROVE Occurs(p, a)
  <2>1. i + Len(p) - 1 <= Len(s) /\ \A j \in 1..Len(p) : s[i + j - 1] = p[j]
    BY <1>2, AtIs
  <2>2. \A j \in 1..Len(p) : i + j - 1 \in 1..Len(s) /\ a[i + j - 1] = p[j]
    BY <1>1, <2>1
  <2>3. i \in 1..Len(a) /\ i + Len(p) - 1 <= Len(a)
    BY <1>1, <2>1
  <2>4. At(p, a, i)
    BY <1>1, <2>2, <2>3, AtIs
  <2> QED BY <2>3, <2>4 DEF Occurs
<1>3. ASSUME Reaches(p, a, Len(p)) PROVE Occurs(p, a)
  <2> DEFINE i == Len(a) - Len(p) + 1
  <2>1. Len(p) \in 1..Len(a) /\ \A j \in 1..Len(p) : a[Len(a) - Len(p) + j] = p[j]
    BY <1>3 DEF Reaches
  <2>2. i \in 1..Len(a) /\ i + Len(p) - 1 <= Len(a)
    BY <1>1, <2>1
  <2>3. \A j \in 1..Len(p) : i + j - 1 = Len(a) - Len(p) + j
    BY <1>1
  <2>4. At(p, a, i)
    <3>1. \A j \in 1..Len(p) : a[i + j - 1] = p[j]
      BY <2>1, <2>3
    <3> HIDE DEF i
    <3> QED BY <1>1, <2>2, <3>1, AtIs
  <2> QED BY <2>2, <2>4 DEF Occurs
<1>4. ASSUME NEW i \in 1..Len(a), At(p, a, i), ~Reaches(p, a, Len(p)) PROVE Occurs(p, s)
  <2>1. i + Len(p) - 1 <= Len(a) /\ \A j \in 1..Len(p) : a[i + j - 1] = p[j]
    BY <1>1, <1>4, AtIs
  <2>2. CASE i + Len(p) - 1 = Len(a)
    <3>1. Len(p) \in 1..Len(a) /\ \A j \in 1..Len(p) : Len(a) - Len(p) + j = i + j - 1
      BY <1>1, <2>2
    <3> QED BY <1>4, <2>1, <3>1 DEF Reaches
  <2>3. CASE i + Len(p) - 1 # Len(a)
    <3>1. i \in 1..Len(s) /\ i + Len(p) - 1 <= Len(s)
      BY <1>1, <2>1, <2>3
    <3>2. \A j \in 1..Len(p) : i + j - 1 \in 1..Len(s)
      BY <1>1, <3>1
    <3>3. At(p, s, i)
      BY <1>1, <2>1, <3>1, <3>2, AtIs
    <3> QED BY <3>1, <3>3 DEF Occurs
  <2> QED BY <2>2, <2>3
<1>5. Occurs(p, s) => Occurs(p, a)
  BY <1>2 DEF Occurs
<1>6. Occurs(p, a) => Occurs(p, s) \/ Reaches(p, a, Len(p))
  BY <1>4 DEF Occurs
<1> QED BY <1>3, <1>5, <1>6 DEF a

LEMMA OccursLast ==
  ASSUME NEW p \in Seq(Chars), p # <<>>, NEW s \in Seq(Chars), NEW k \in Nat,
         Occurs(p, Last(s, k))
  PROVE  Occurs(p, s)
<1> DEFINE l == Last(s, k)
           d == Len(s) - Len(l)
<1>1. /\ l \in Seq(Chars) /\ Len(l) \in Nat /\ Len(s) \in Nat /\ Len(p) \in Nat \ {0}
      /\ Len(l) <= Len(s) /\ \A i \in 1..Len(l) : l[i] = s[Len(s) - Len(l) + i]
  <2>1. l \in Seq(Chars) /\ Len(l) <= Len(s)
    BY ReachesLast
  <2>2. \A i \in 1..Len(l) : l[i] = s[Len(s) - Len(l) + i]
    BY ReachesLast
  <2> HIDE DEF l
  <2> QED BY <2>1, <2>2
<1> HIDE DEF l
<1>2. PICK i \in 1..Len(l) : At(p, l, i)
  BY DEF Occurs, l
<1>3. i + Len(p) - 1 <= Len(l) /\ \A j \in 1..Len(p) : l[i + j - 1] = p[j]
  BY <1>1, <1>2, AtIs
<1>4. d + i \in 1..Len(s) /\ d + i + Len(p) - 1 <= Len(s)
  BY <1>1, <1>3
<1>5. ASSUME NEW j \in 1..Len(p) PROVE s[d + i + j - 1] = p[j]
  <2>1. i + j - 1 \in 1..Len(l) /\ d + (i + j - 1) = d + i + j - 1
    BY <1>1, <1>3
  <2> QED BY <1>1, <1>3, <2>1
<1>6. At(p, s, d + i)
  BY <1>1, <1>4, <1>5, AtIs
<1> QED BY <1>4, <1>6 DEF Occurs

-----------------------------------------------------------------------------
(* ZModem headers.                                                         *)

LEMMA PatternFacts ==
  /\ Pattern \in Seq(Chars) /\ Pattern # <<>> /\ Len(Pattern) \in Nat /\ Len(Pattern) > 1 /\ Simple(Pattern)
  /\ DOMAIN Decides = {"0", "1"}
  /\ Decides["0"] = "receive" /\ Decides["1"] = "send"
<1>1. Pattern \in Seq(Chars) /\ Len(Pattern) > 1 /\ Simple(Pattern)
  BY ScannerAssumption DEF ScannerAssumption
<1>2. Pattern # <<>> /\ Len(Pattern) \in Nat /\ Len(Pattern) > 1
  <2> DEFINE n == Len(Pattern)
  <2>1. n \in Nat /\ n > 1 /\ Len(<<>>) = 0
    BY <1>1
  <2> HIDE DEF n
  <2>2. n # 0 /\ n # 1
    BY <2>1
  <2> QED BY <2>1, <2>2 DEF n
<1>3. DOMAIN Decides = {"0", "1"} /\ Decides["0"] = "receive" /\ Decides["1"] = "send"
  BY DEF Decides
<1> QED BY <1>1, <1>2, <1>3

LEMMA HeadersShort ==
  ASSUME NEW s \in Seq(Chars), Len(s) <= Len(Pattern)
  PROVE  Headers(s) = {}
BY PatternFacts DEF Headers

\* A header is complete with its digit.
LEMMA HeadersAppend ==
  ASSUME NEW s \in Seq(Chars), NEW c \in Chars, Headers(s) = {},
         ~(Reaches(Pattern, s, Len(Pattern)) /\ c \in DOMAIN Decides)
  PROVE  Headers(Append(s, c)) = {}
<1> DEFINE a == Append(s, c)
           L == Len(Pattern)
<1>1. /\ a \in Seq(Chars) /\ Len(s) \in Nat /\ Len(a) = Len(s) + 1 /\ a[Len(s) + 1] = c
      /\ \A i \in 1..Len(s) : a[i] = s[i]
  OBVIOUS
<1>2. Pattern \in Seq(Chars) /\ L \in Nat /\ L > 1
  BY PatternFacts
<1> HIDE DEF a, L
<1>3. SUFFICES ASSUME NEW i \in 1..Len(a), At(Pattern, a, i), i + L <= Len(a),
                      a[i + L] \in DOMAIN Decides
               PROVE  FALSE
  BY DEF Headers, a, L
<1>4. \A j \in 1..L : a[i + j - 1] = Pattern[j]
  BY <1>1, <1>2, <1>3, AtIs DEF L
<1>5. i + L - 1 <= Len(s) /\ i \in 1..Len(s)
  BY <1>1, <1>2, <1>3
<1>6. ASSUME NEW j \in 1..L PROVE i + j - 1 \in 1..Len(s) /\ s[i + j - 1] = Pattern[j]
  <2>1. i + j - 1 \in 1..Len(s)
    BY <1>1, <1>2, <1>5
  <2> QED BY <1>1, <1>4, <2>1
<1>7. CASE i + L <= Len(s)
  <2>1. At(Pattern, s, i)
    BY <1>1, <1>2, <1>5, <1>6, AtIs DEF L
  <2>2. s[i + L] \in DOMAIN Decides
    BY <1>1, <1>2, <1>3, <1>7
  <2> QED BY <1>5, <1>7, <2>1, <2>2 DEF Headers, L
<1>8. CASE i + L > Len(s)
  <2>1. i + L = Len(s) + 1 /\ L \in 1..Len(s)
    BY <1>1, <1>2, <1>3, <1>8
  <2>2. \A j \in 1..L : Len(s) - L + j = i + j - 1
    BY <1>1, <1>2, <2>1
  <2>3. Reaches(Pattern, s, L)
    BY <1>6, <2>1, <2>2 DEF Reaches
  <2> QED BY <1>1, <1>3, <2>1, <2>3 DEF L
<1> QED BY <1>1, <1>2, <1>7, <1>8

\* The first header of a stream is the first that a character completes in it.
LEMMA FirstHeader ==
  ASSUME NEW s \in Seq(Chars), Headers(s) = {}, Reaches(Pattern, s, Len(Pattern)),
         NEW c \in DOMAIN Decides, NEW t \in Seq(Chars), Len(t) > Len(s),
         \A i \in 1..Len(s) : t[i] = s[i], t[Len(s) + 1] = c
  PROVE  FirstOf(t) = Decides[c]
<1> DEFINE L == Len(Pattern)
           h == Len(s) - L + 1
<1>1. /\ Len(s) \in Nat /\ Len(t) \in Nat /\ L \in Nat /\ L > 1 /\ Pattern \in Seq(Chars)
      /\ L \in 1..Len(s) /\ \A j \in 1..L : s[Len(s) - L + j] = Pattern[j]
  BY PatternFacts DEF Reaches
<1> HIDE DEF L
<1>2. h \in 1..Len(s) /\ h + L = Len(s) + 1 /\ h \in 1..Len(t) /\ h + L <= Len(t)
  BY <1>1
<1>3. h \in Headers(t)
  <2>1. ASSUME NEW j \in 1..L PROVE t[h + j - 1] = Pattern[j]
    <3>1. h + j - 1 = Len(s) - L + j /\ h + j - 1 \in 1..Len(s)
      BY <1>1
    <3> QED BY <1>1, <3>1
  <2>2. h + L - 1 <= Len(t)
    BY <1>1, <1>2
  <2> HIDE DEF h
  <2>3. At(Pattern, t, h)
    BY <1>1, <1>2, <2>1, <2>2, AtIs DEF L
  <2> QED BY <1>2, <2>3 DEF Headers, L
<1>4. ASSUME NEW i \in Headers(t) PROVE h <= i
  <2> SUFFICES ASSUME i < h PROVE FALSE
    BY <1>2 DEF Headers
  <2>1. /\ i \in 1..Len(t) /\ i + L <= Len(s) /\ t[i + L] \in DOMAIN Decides /\ At(Pattern, t, i)
    BY <1>1, <1>2 DEF Headers, L
  <2>2. i \in 1..Len(s) /\ i + L - 1 <= Len(s) /\ s[i + L] \in DOMAIN Decides
    BY <1>1, <2>1
  <2>3. \A j \in 1..L : t[i + j - 1] = Pattern[j]
    BY <1>1, <2>1, AtIs DEF L
  <2>4. \A j \in 1..L : i + j - 1 \in 1..Len(s)
    BY <1>1, <2>1
  <2>5. At(Pattern, s, i)
    BY <1>1, <2>2, <2>3, <2>4, AtIs DEF L
  <2> QED BY <2>1, <2>2, <2>5 DEF Headers, L
<1> DEFINE i == CHOOSE i \in Headers(t) : \A k \in Headers(t) : i <= k
<1>5. i \in Headers(t) /\ \A k \in Headers(t) : i <= k
  BY <1>3, <1>4
<1> HIDE DEF i
<1>6. i = h
  <2>1. i <= h /\ h <= i
    BY <1>3, <1>4, <1>5
  <2>2. i \in Nat
    BY <1>5 DEF Headers
  <2> QED BY <1>2, <2>1, <2>2
<1>7. FirstOf(t) = Decides[t[i + L]]
  BY <1>3 DEF FirstOf, L, i
<1> QED BY <1>2, <1>6, <1>7

-----------------------------------------------------------------------------
(* The invariants.                                                         *)

\* What the ZModem matcher has seen, and the matcher of prompts heard.
Seen == Upto(tail, chunk, IF spc = "zmodem" THEN rest ELSE <<>>)

Unheard == IF spc = "logon" THEN rest ELSE IF spc = "end" THEN <<>> ELSE chunk

Heard == Upto(ltail, chunk, Unheard)

ChunkInv ==
  /\ spc \in {"idle", "zmodem", "logon", "end"}
  /\ IsRest(chunk, rest) /\ Len(chunk) <= MaxChunk
  /\ tail \in Seq(Chars) /\ Len(tail) <= Len(Pattern)
  /\ ltail \in Seq(Chars) /\ Len(ltail) <= LongestPrompt
  /\ look \in BOOLEAN /\ header \in BOOLEAN /\ answer \in BOOLEAN /\ old \in BOOLEAN
  /\ matched \in 0..(Len(Pattern) - 1) /\ start \in Transfers
  /\ line \in 0..(Len(Prompts) + 1) /\ place \in Nat
  /\ spc = "idle" => chunk = <<>> /\ ~old
  /\ spc = "end" => rest = <<>>

\* A character that came after Pattern without being a digit is still to be
\* compared with the beginning of Pattern.
Again ==
  /\ spc = "zmodem" /\ ~look /\ header /\ rest # <<>> /\ Head(rest) \notin DOMAIN Decides
  /\ matched = IF Head(rest) = Pattern[1] THEN 1 ELSE 0

\* matched counts how much of Pattern is at the end of the stream.
Counted ==
  \/ Begun(Pattern, Seen, matched) /\ NotBegun(Pattern, Seen, matched)
  \/ Again /\ Reaches(Pattern, Seen, Len(Pattern))

\* With a flag 107 that is left over, the matcher may miss what comes, but it
\* never counts what has not come.
MatcherInv ==
  /\ spc \in {"idle", "zmodem"} => start = "none"
  /\ old => header
  /\ start = "none" => Begun(Pattern, Seen, matched) \/ Again
  /\ ~Stale /\ start = "none" =>
       /\ Headers(Seen) = {}
       /\ spc # "idle" /\ look /\ header => Reaches(Pattern, Seen, Len(Pattern))
       /\ ~header \/ (spc # "idle" /\ ~look) => Counted
  /\ ~Stale /\ start # "none" => matched = 0 /\ start = FirstOf(tail \o chunk)

\* Prompt p is waited for: place counts how much of it is at the end of what has
\* been heard since the last answer, and, if p is simple, it has not come.
Awaited(p) ==
  IF p = <<>>
    THEN place = 0 /\ \A i \in 1..(Len(chunk) - Len(Unheard)) : chunk[i] # "NUL"
    ELSE /\ place < Len(p) /\ Begun(p, Heard, place)
         /\ Simple(p) => ~Occurs(p, Heard) /\ NotBegun(p, Heard, place)

Came(p) ==
  IF p = <<>> THEN \E i \in 1..Len(chunk) : chunk[i] = "NUL" ELSE Occurs(p, ltail \o chunk)

LogonInv ==
  /\ answer => /\ spc = "end" /\ line \in 2..(Len(Prompts) + 1) /\ place = 0
               /\ Came(Prompts[line - 1])
  /\ ~answer /\ spc = "end" => line # Len(Prompts) + 1
  /\ ~answer /\ line \in 1..Len(Prompts) => Awaited(Prompts[line])

-----------------------------------------------------------------------------
(* The types.                                                              *)

LEMMA PromptFacts ==
  /\ Len(Prompts) \in Nat \ {0}
  /\ \A i \in 1..Len(Prompts) : Prompts[i] \in Seq(Chars \ {"NUL"}) /\ Prompts[i] \in Seq(Chars)
<1>1. Prompts \in Seq(Seq(Chars \ {"NUL"})) /\ Prompts # <<>>
  BY ScannerAssumption DEF ScannerAssumption
<1>2. ASSUME NEW S, NEW p \in Seq(S), p # <<>> PROVE Len(p) \in Nat \ {0}
  BY <1>2
<1>3. Len(Prompts) \in Nat \ {0}
  BY <1>1, <1>2
<1>4. \A i \in 1..Len(Prompts) : Prompts[i] \in Seq(Chars \ {"NUL"})
  BY <1>1
<1>5. ASSUME NEW S, NEW p \in Seq(S \ {"NUL"}) PROVE p \in Seq(S)
  <2>1. \A i \in 1..Len(p) : p[i] \in S
    BY <1>5
  <2> QED BY <1>5, <2>1, IsASeq
<1> QED BY <1>3, <1>4, <1>5

\* Finitely many prompts have a longest one.
LEMMA LongestIsLongest ==
  LongestPrompt \in Nat /\ \A i \in 1..Len(Prompts) : Len(Prompts[i]) <= LongestPrompt
<1> DEFINE N == Len(Prompts)
           Tops(k) == {i \in 1..k : \A j \in 1..k : Len(Prompts[j]) <= Len(Prompts[i])}
           without == {k \in 1..N : Tops(k) = {}}
<1>1. N \in Nat \ {0} /\ \A i \in 1..N : Len(Prompts[i]) \in Nat
  <2>1. ASSUME NEW S, NEW p \in Seq(S) PROVE Len(p) \in Nat
    OBVIOUS
  <2> QED BY <2>1, PromptFacts
<1> HIDE DEF N
<1>2. without = {}
  <2> SUFFICES ASSUME without # {} PROVE FALSE
    OBVIOUS
  <2> DEFINE less == {s \in Nat \X Nat : s[1] < s[2]}
  <2>1. less = OpToRel(<, Nat)
    BY DEF OpToRel
  <2>2. IsWellFoundedOn(less, Nat) /\ without \subseteq Nat
    <3>1. IsWellFoundedOn(less, Nat)
      BY <2>1, NatLessThanWellFounded
    <3> HIDE DEF less
    <3> QED BY <1>1, <3>1
  <2>3. \A i, j \in Nat : ~(<<i, j>> \in less) => j <= i
    OBVIOUS
  <2> HIDE DEF less, without
  <2>4. PICK k \in without : \A i \in without : ~(<<i, k>> \in less)
    BY <2>2, WFMin
  <2>5. \A i \in without : k <= i
    BY <2>2, <2>3, <2>4
  <2>6. k \in 1..N /\ Tops(k) = {}
    BY <2>4 DEF without
  <2>7. CASE k = 1
    <3>1. 1 \in Tops(1)
      BY <1>1
    <3> QED BY <2>6, <2>7, <3>1
  <2>8. CASE k # 1
    <3>1. k - 1 \in 1..N /\ k - 1 \notin without
      BY <1>1, <2>5, <2>6, <2>8
    <3>2. PICK i \in 1..(k - 1) : \A j \in 1..(k - 1) : Len(Prompts[j]) <= Len(Prompts[i])
      BY <3>1 DEF without
    <3>3. CASE Len(Prompts[k]) <= Len(Prompts[i])
      <4>1. \A j \in 1..k : j \in 1..(k - 1) \/ j = k
        BY <2>6
      <4>2. i \in 1..k
        BY <2>6, <3>2
      <4>3. \A j \in 1..k : Len(Prompts[j]) <= Len(Prompts[i])
        BY <3>2, <3>3, <4>1
      <4>4. i \in Tops(k)
        BY <4>2, <4>3
      <4> QED BY <2>6, <4>4
    <3>4. CASE ~(Len(Prompts[k]) <= Len(Prompts[i]))
      <4>1. \A j \in 1..k : j \in 1..(k - 1) \/ j = k
        BY <2>6
      <4>2. \A j \in 1..k : j \in 1..N
        BY <1>1, <2>6
      <4>3. \A j \in 1..k : Len(Prompts[j]) <= Len(Prompts[k])
        BY <1>1, <3>2, <3>4, <4>1, <4>2
      <4>4. k \in Tops(k)
        BY <2>6, <4>3
      <4> QED BY <2>6, <4>4
    <3> QED BY <3>3, <3>4
  <2> QED BY <2>7, <2>8
<1>3. PICK i \in 1..N : \A j \in 1..N : Len(Prompts[j]) <= Len(Prompts[i])
  <2>1. N \in 1..N /\ N \notin without
    BY <1>1, <1>2
  <2>2. Tops(N) # {}
    BY <2>1
  <2> QED BY <2>2
<1> DEFINE lengths == {Len(Prompts[j]) : j \in 1..N}
<1>4. Len(Prompts[i]) \in lengths /\ \A j \in 1..N : Len(Prompts[j]) <= Len(Prompts[i])
  BY <1>3
<1>5. LongestPrompt \in lengths /\ \A j \in 1..N : Len(Prompts[j]) <= LongestPrompt
  BY <1>4 DEF LongestPrompt, N
<1>6. LongestPrompt \in Nat
  BY <1>1, <1>5
<1> QED BY <1>5, <1>6 DEF N

LEMMA SeenFacts ==
  ASSUME ChunkInv
  PROVE  /\ IsRest(chunk, <<>>) /\ IsRest(chunk, chunk) /\ IsRest(chunk, Unheard)
         /\ Seen \in Seq(Chars) /\ Heard \in Seq(Chars)
         /\ spc = "zmodem" => Seen = Upto(tail, chunk, rest)
         /\ spc # "zmodem" => Seen = tail \o chunk
         /\ spc \in {"idle", "zmodem"} => Heard = ltail /\ Len(chunk) - Len(Unheard) = 0
         /\ spc = "logon" => Heard = Upto(ltail, chunk, rest)
         /\ spc = "end" => Heard = ltail \o chunk
<1>1. /\ IsRest(chunk, rest) /\ chunk \in Seq(Chars) /\ tail \in Seq(Chars)
      /\ ltail \in Seq(Chars) /\ Len(chunk) \in Nat
  BY DEF ChunkInv, IsRest
<1>2. IsRest(chunk, <<>>)
  <2>1. Len(<<>>) = 0 /\ <<>> \in Seq(Chars)
    OBVIOUS
  <2> QED BY <1>1, <2>1 DEF IsRest
<1>3. IsRest(chunk, chunk)
  <2>1. \A i \in 1..Len(chunk) : Len(chunk) - Len(chunk) + i = i
    BY <1>1
  <2> QED BY <1>1, <2>1 DEF IsRest
<1>4. IsRest(chunk, Unheard)
  BY <1>1, <1>2, <1>3 DEF Unheard
<1>5. Seen \in Seq(Chars) /\ Heard \in Seq(Chars)
  BY <1>1, <1>2, <1>4, UptoFacts DEF Seen, Heard
<1>6. spc # "zmodem" => Seen = tail \o chunk
  BY <1>1, <1>2, UptoFacts DEF Seen
<1>7. spc \in {"idle", "zmodem"} => Heard = ltail /\ Len(chunk) - Len(Unheard) = 0
  BY <1>1, <1>3, UptoFacts DEF Heard, Unheard
<1>8. spc = "end" => Heard = ltail \o chunk
  BY <1>1, <1>2, UptoFacts DEF Heard, Unheard
<1> QED BY <1>2, <1>3, <1>4, <1>5, <1>6, <1>7, <1>8 DEF Seen, Heard, Unheard

LEMMA ChunkInit == ScanInit => ChunkInv
<1> SUFFICES ASSUME ScanInit PROVE ChunkInv
  OBVIOUS
<1>1. <<>> \in Seq(Chars) /\ Len(<<>>) = 0
  OBVIOUS
<1>2. IsRest(chunk, rest) /\ Len(chunk) <= MaxChunk
  BY <1>1, ScannerAssumption DEF ScanInit, IsRest, ScannerAssumption
<1>3. matched \in 0..(Len(Pattern) - 1) /\ line \in 0..(Len(Prompts) + 1)
  BY PatternFacts, PromptFacts DEF ScanInit
<1>4. Len(tail) <= Len(Pattern) /\ Len(ltail) <= LongestPrompt
  BY <1>1, PatternFacts, LongestIsLongest DEF ScanInit
<1> QED BY <1>1, <1>2, <1>3, <1>4 DEF ScanInit, ChunkInv, Transfers

LEMMA ChunkRead == ChunkInv /\ Read => ChunkInv'
<1> SUFFICES ASSUME ChunkInv, Read PROVE ChunkInv'
  OBVIOUS
<1>1. PICK n \in 1..MaxChunk : chunk' \in [1..n -> Chars]
  BY DEF Read, Chunks
<1>2. n \in Nat /\ MaxChunk \in Nat
  BY <1>1, ScannerAssumption DEF ScannerAssumption
<1>3. chunk' \in Seq(Chars) /\ Len(chunk') = n
  BY <1>1, <1>2, LenProperties, IsASeq
<1>4. \A i \in 1..Len(chunk') : Len(chunk') - Len(chunk') + i = i
  BY <1>3
<1>5. IsRest(chunk', chunk') /\ Len(chunk') <= MaxChunk
  BY <1>1, <1>2, <1>3, <1>4 DEF IsRest
<1> QED BY <1>5 DEF ChunkInv, Read, lVars

LEMMA ChunkZModem ==
  ChunkInv /\ (Match \/ LookAfterHeader \/ LookOn \/ ToLogon) => ChunkInv'
<1> SUFFICES ASSUME ChunkInv, Match \/ LookAfterHeader \/ LookOn \/ ToLogon PROVE ChunkInv'
  OBVIOUS
<1>1. /\ rest # <<>> => IsRest(chunk, Tail(rest)) /\ Head(rest) \in Chars
      /\ IsRest(chunk, chunk) /\ Len(Pattern) \in Nat /\ Len(Pattern) > 1
  BY UptoFacts, SeenFacts, PatternFacts DEF ChunkInv
<1>2. CASE Match
  <2> DEFINE n == Fits(Pattern, matched, Head(rest))
  <2>1. n \in 0..Len(Pattern)
    BY <1>1 DEF ChunkInv, Fits
  <2> HIDE DEF n
  <2>2. matched' \in 0..(Len(Pattern) - 1) /\ header' \in BOOLEAN /\ look' \in BOOLEAN
    <3>1. CASE n = Len(Pattern)
      BY <1>1, <1>2, <3>1 DEF Match, n
    <3>2. CASE n # Len(Pattern)
      BY <1>1, <1>2, <2>1, <3>2 DEF Match, n, ChunkInv
    <3> QED BY <3>1, <3>2
  <2>3. IsRest(chunk', rest')
    BY <1>1, <1>2 DEF Match
  <2> QED BY <1>2, <2>2, <2>3 DEF Match, ChunkInv, lVars
<1>3. CASE LookAfterHeader
  <2>1. start' \in Transfers
    BY <1>3, PatternFacts DEF LookAfterHeader, ChunkInv, Transfers
  <2>2. matched' \in 0..(Len(Pattern) - 1)
    <3>1. matched' \in {0, 1} \/ matched' = matched
      BY <1>3 DEF LookAfterHeader
    <3>2. 0 \in 0..(Len(Pattern) - 1) /\ 1 \in 0..(Len(Pattern) - 1)
      BY <1>1
    <3> QED BY <3>1, <3>2 DEF ChunkInv
  <2>3. IsRest(chunk', rest') /\ spc' \in {"zmodem", "logon"}
    BY <1>1, <1>3 DEF LookAfterHeader, ChunkInv
  <2> QED BY <1>3, <2>1, <2>2, <2>3 DEF LookAfterHeader, ChunkInv, lVars
<1>4. CASE LookOn \/ ToLogon
  BY <1>1, <1>4 DEF LookOn, ToLogon, ChunkInv, zVars, lVars
<1> QED BY <1>2, <1>3, <1>4

LEMMA ChunkLogon ==
  ChunkInv /\ (LogonOff \/ MatchPrompt \/ PromptsRead \/ LogonBegins) => ChunkInv'
<1> SUFFICES ASSUME ChunkInv, LogonOff \/ MatchPrompt \/ PromptsRead \/ LogonBegins
             PROVE  ChunkInv'
  OBVIOUS
<1>1. /\ rest # <<>> => IsRest(chunk, Tail(rest)) /\ IsRest(chunk, <<>>)
      /\ Len(Prompts) \in Nat \ {0} /\ IsRest(chunk, <<>>)
  BY UptoFacts, SeenFacts, PromptFacts DEF ChunkInv
<1>2. CASE LogonOff
  BY <1>1, <1>2 DEF LogonOff, ChunkInv, zVars
<1>3. CASE PromptsRead
  BY <1>3 DEF PromptsRead, ChunkInv, zVars, lVars
<1>4. CASE LogonBegins
  <2>1. <<>> \in Seq(Chars) /\ Len(<<>>) <= LongestPrompt
    <3>1. <<>> \in Seq(Chars) /\ Len(<<>>) = 0
      OBVIOUS
    <3> QED BY <3>1, LongestIsLongest
  <2> QED BY <1>1, <1>4, <2>1 DEF LogonBegins, ChunkInv, zVars
<1>5. CASE MatchPrompt
  <2> DEFINE p == Append(Prompts[line], "NUL")
             n == Fits(p, place, Head(rest))
  <2>1. n \in Nat
    BY DEF Fits, ChunkInv
  <2> HIDE DEF p, n
  <2>2. CASE n > 0 /\ n >= Len(p) - 1
    <3>1. /\ line' = line + 1 /\ place' = 0 /\ answer' = TRUE /\ spc' = "end" /\ rest' = <<>>
          /\ line \in 1..Len(Prompts) /\ UNCHANGED <<chunk, zVars, tail, old, ltail>>
      BY <1>5, <2>2 DEF MatchPrompt, n, p
    <3>2. line' \in 0..(Len(Prompts) + 1)
      BY <1>1, <3>1
    <3> QED BY <1>1, <3>1, <3>2 DEF ChunkInv, zVars
  <2>3. CASE ~(n > 0 /\ n >= Len(p) - 1)
    <3>1. /\ place' = n /\ rest' = Tail(rest) /\ rest # <<>> /\ spc = "logon"
          /\ UNCHANGED <<line, answer, spc, chunk, zVars, tail, old, ltail>>
      BY <1>5, <2>3 DEF MatchPrompt, n, p
    <3> QED BY <1>1, <2>1, <3>1 DEF ChunkInv, zVars
  <2> QED BY <2>2, <2>3
<1> QED BY <1>2, <1>3, <1>4, <1>5

LEMMA ChunkEnd == ChunkInv /\ EndOfChunk => ChunkInv'
<1> SUFFICES ASSUME ChunkInv, EndOfChunk PROVE ChunkInv'
  OBVIOUS
<1>1. /\ tail \in Seq(Chars) /\ ltail \in Seq(Chars) /\ chunk \in Seq(Chars)
      /\ Pattern \in Seq(Chars) /\ Len(Pattern) \in Nat /\ Len(Pattern) > 1 /\ LongestPrompt \in Nat
  BY PatternFacts, LongestIsLongest DEF ChunkInv, IsRest
<1>2. <<>> \in Seq(Chars) /\ Len(<<>>) = 0
  OBVIOUS
<1>3. tail \o chunk \in Seq(Chars) /\ ltail \o chunk \in Seq(Chars)
  BY <1>1
<1>4. tail' \in Seq(Chars) /\ Len(tail') <= Len(Pattern)
  <2>1. CASE start = "none"
    <3>1. tail' = Last(tail \o chunk, Len(Pattern))
      BY <2>1 DEF EndOfChunk
    <3> QED BY <1>1, <1>3, <3>1, ReachesLast
  <2>2. CASE start # "none" /\ Stale
    <3>1. tail' = SubSeq(Pattern, 1, matched) /\ matched \in 0..(Len(Pattern) - 1)
      BY <2>2 DEF EndOfChunk, ChunkInv
    <3> QED BY <1>1, <3>1
  <2>3. CASE start # "none" /\ ~Stale
    <3>1. tail' = <<>>
      BY <2>3 DEF EndOfChunk
    <3> QED BY <1>1, <1>2, <3>1
  <2> QED BY <2>1, <2>2, <2>3
<1>5. ltail' \in Seq(Chars) /\ Len(ltail') <= LongestPrompt
  <2>1. CASE answer \/ line = 0
    BY <1>1, <1>2, <2>1 DEF EndOfChunk
  <2>2. CASE ~(answer \/ line = 0)
    <3>1. ltail' = Last(ltail \o chunk, LongestPrompt)
      BY <2>2 DEF EndOfChunk
    <3> QED BY <1>1, <1>3, <3>1, ReachesLast
  <2> QED BY <2>1, <2>2
<1>6. /\ spc' = "idle" /\ chunk' = <<>> /\ answer' = FALSE /\ start' = "none" /\ old' = FALSE
      /\ header' \in BOOLEAN /\ UNCHANGED <<rest, look, matched, line, place>>
      /\ rest = <<>>
  BY DEF EndOfChunk, ChunkInv
<1>7. IsRest(chunk', rest') /\ Len(chunk') <= MaxChunk
  BY <1>2, <1>6, ScannerAssumption DEF IsRest, ScannerAssumption
<1> QED BY <1>4, <1>5, <1>6, <1>7 DEF ChunkInv, Transfers

-----------------------------------------------------------------------------
(* The ZModem matcher.                                                     *)

LEMMA ChunkStep == ChunkInv /\ [ScanNext]_scanVars => ChunkInv'
<1>1. ChunkInv /\ UNCHANGED scanVars => ChunkInv'
  BY DEF scanVars, zVars, lVars, ChunkInv
<1> QED BY <1>1, ChunkRead, ChunkZModem, ChunkLogon, ChunkEnd DEF ScanNext

LEMMA NothingBegun ==
  ASSUME NEW p, NEW s \in Seq(Chars), Len(s) = 0
  PROVE  Begun(p, s, 0) /\ NotBegun(p, s, 0) /\ \A k : ~Reaches(p, s, k)
BY DEF Begun, NotBegun, Reaches

LEMMA MatcherInit == ScanInit => MatcherInv
<1> SUFFICES ASSUME ScanInit PROVE MatcherInv
  OBVIOUS
<1>1. ChunkInv
  BY ChunkInit
<1>2. Seen \in Seq(Chars) /\ Len(Seen) = 0
  <2>1. Seen = tail \o chunk /\ Seen \in Seq(Chars)
    BY <1>1, SeenFacts DEF ScanInit
  <2>2. tail \o chunk = <<>>
    BY DEF ScanInit
  <2> QED BY <2>1, <2>2
<1>3. Begun(Pattern, Seen, matched) /\ NotBegun(Pattern, Seen, matched)
  BY <1>2, NothingBegun DEF ScanInit
<1>4. Headers(Seen) = {}
  <2>1. Len(Seen) <= Len(Pattern)
    BY <1>2, PatternFacts
  <2> QED BY <1>2, <2>1, HeadersShort
<1> QED BY <1>3, <1>4 DEF ScanInit, MatcherInv, Counted

LEMMA MatcherRead == ChunkInv /\ MatcherInv /\ Read => MatcherInv'
<1> SUFFICES ASSUME ChunkInv, MatcherInv, Read PROVE MatcherInv'
  OBVIOUS
<1>1. ChunkInv' /\ spc = "idle" /\ spc' = "zmodem" /\ chunk' = rest' /\ chunk = <<>>
  BY ChunkRead DEF Read, ChunkInv
<1>2. /\ tail \in Seq(Chars) /\ Len(tail) <= Len(Pattern) /\ tail' = tail
      /\ UNCHANGED <<matched, header, start>> /\ look' /\ old' = header /\ ~old
      /\ header \in BOOLEAN
  BY DEF Read, ChunkInv
<1>3. Seen = tail /\ Seen' = tail
  <2>1. Seen = tail \o chunk
    BY <1>1, SeenFacts
  <2>2. tail \o chunk = tail
    BY <1>1, <1>2
  <2>3. Seen' = Upto(tail', chunk', chunk')
    BY <1>1 DEF Seen
  <2>4. Seen' = tail
    BY <1>1, <1>2, <2>3, UptoFacts DEF ChunkInv
  <2> QED BY <2>1, <2>2, <2>4
<1>4. start = "none" /\ ~Again /\ ~Stale
  BY <1>1, <1>2 DEF MatcherInv, Again, Stale
<1>5. Begun(Pattern, tail, matched)
  BY <1>3, <1>4 DEF MatcherInv
<1>6. Headers(tail) = {}
  BY <1>2, HeadersShort
<1>7. ASSUME ~header' PROVE Counted'
  <2>1. Begun(Pattern, tail, matched) /\ NotBegun(Pattern, tail, matched)
    BY <1>2, <1>3, <1>4, <1>7 DEF MatcherInv, Counted
  <2> QED BY <1>2, <1>3, <2>1 DEF Counted
<1>8. ASSUME ~Stale', header' PROVE Reaches(Pattern, tail, Len(Pattern))
  <2>1. tail = Pattern
    BY <1>2, <1>8 DEF Stale
  <2>2. Len(Pattern) \in 1..Len(tail) /\ \A i \in 1..Len(Pattern) : Len(tail) - Len(Pattern) + i = i
    BY <2>1, PatternFacts
  <2> QED BY <2>1, <2>2 DEF Reaches
<1>9. Begun(Pattern, Seen', matched') /\ Headers(Seen') = {} /\ start' = "none"
  BY <1>2, <1>3, <1>4, <1>5, <1>6
<1> QED BY <1>1, <1>2, <1>3, <1>7, <1>8, <1>9 DEF MatcherInv

\* Steps that are not the ZModem matcher's leave what it has seen.
LEMMA MatcherStays ==
  ASSUME ChunkInv, ChunkInv', MatcherInv, UNCHANGED <<chunk, zVars, tail, old>>,
         spc' # "zmodem", spc = "zmodem" => rest = <<>>, spc' = "idle" <=> spc = "idle"
  PROVE  MatcherInv'
<1>1. Seen = tail \o chunk /\ Seen' = tail \o chunk
  <2>1. spc = "zmodem" => Seen = Upto(tail, chunk, <<>>)
    BY SeenFacts
  <2>2. Upto(tail, chunk, <<>>) = tail \o chunk
    BY SeenFacts, UptoFacts DEF ChunkInv
  <2>3. Seen' = Upto(tail, chunk, <<>>)
    BY DEF Seen
  <2> QED BY <2>1, <2>2, <2>3, SeenFacts
<1>2. ~Again /\ ~Again'
  BY DEF Again
<1>3. Stale' = Stale /\ UNCHANGED <<look, matched, header, start>>
  BY DEF Stale, zVars
<1>4. Counted => Counted'
  BY <1>1, <1>2, <1>3 DEF Counted
<1> QED BY <1>1, <1>2, <1>3, <1>4 DEF MatcherInv

LEMMA MatcherOthers ==
  ChunkInv /\ MatcherInv /\ (ToLogon \/ LogonOff \/ MatchPrompt \/ PromptsRead \/ LogonBegins)
    => MatcherInv'
<1> SUFFICES ASSUME ChunkInv, MatcherInv,
                    ToLogon \/ LogonOff \/ MatchPrompt \/ PromptsRead \/ LogonBegins
             PROVE  MatcherInv'
  OBVIOUS
<1>1. ChunkInv'
  BY ChunkZModem, ChunkLogon
<1>2. CASE ToLogon
  BY <1>1, <1>2, MatcherStays DEF ToLogon
<1>3. CASE LogonOff
  BY <1>1, <1>3, MatcherStays DEF LogonOff
<1>4. CASE MatchPrompt
  <2>1. spc = "logon" /\ spc' \in {"logon", "end"} /\ UNCHANGED <<chunk, zVars, tail, old>>
    BY <1>4 DEF MatchPrompt
  <2> QED BY <1>1, <2>1, MatcherStays
<1>5. CASE PromptsRead
  BY <1>1, <1>5, MatcherStays DEF PromptsRead
<1>6. CASE LogonBegins
  BY <1>1, <1>6, MatcherStays DEF LogonBegins
<1> QED BY <1>2, <1>3, <1>4, <1>5, <1>6

\* A matcher in the middle of Pattern is not at its end.
LEMMA NotWhole ==
  ASSUME NEW s \in Seq(Chars), NEW n \in 0..(Len(Pattern) - 1), Begun(Pattern, s, n),
         n > 0 \/ NotBegun(Pattern, s, n), Reaches(Pattern, s, Len(Pattern))
  PROVE  FALSE
<1>1. /\ Len(Pattern) \in 1..Len(Pattern) /\ Len(Pattern) \in Nat
      /\ Pattern \in Seq(Chars) /\ Simple(Pattern)
  BY PatternFacts
<1>2. CASE n = 0
  BY <1>1, <1>2 DEF NotBegun
<1>3. CASE n # 0
  <2>1. n \in 1..Len(Pattern) /\ Reaches(Pattern, s, n)
    BY <1>1, <1>3 DEF Begun
  <2>2. n = Len(Pattern)
    BY <1>1, <2>1, OneBeginning
  <2> QED BY <1>1, <2>2
<1> QED BY <1>2, <1>3

\* The character after Pattern that is compared again counts as it did.
LEMMA AgainStep ==
  ASSUME NEW s \in Seq(Chars), NEW c \in Chars, NEW n, n = IF c = Pattern[1] THEN 1 ELSE 0
  PROVE  /\ Fits(Pattern, n, c) = n /\ n \in {0, 1}
         /\ Begun(Pattern, Append(s, c), n)
         /\ Reaches(Pattern, s, Len(Pattern)) => NotBegun(Pattern, Append(s, c), n)
<1> DEFINE L == Len(Pattern)
<1>1. /\ L \in Nat /\ L > 1 /\ Pattern \in Seq(Chars) /\ Simple(Pattern)
  BY PatternFacts
<1>2. Pattern[2] # Pattern[1]
  BY <1>1 DEF Simple
<1>3. n \in {0, 1} /\ (n = 1 <=> c = Pattern[1])
  OBVIOUS
<1>4. Fits(Pattern, n, c) = n
  BY <1>2, <1>3 DEF Fits
<1>5. Begun(Pattern, Append(s, c), n)
  BY <1>3, ReachesAppend DEF Begun
<1> HIDE DEF L
<1>6. ASSUME Reaches(Pattern, s, L), n = 0, NEW k \in 1..L, Reaches(Pattern, Append(s, c), k)
      PROVE  FALSE
  <2>1. k \in Nat \ {0} /\ c = Pattern[k] /\ (k = 1 \/ Reaches(Pattern, s, k - 1))
    BY <1>1, <1>6, ReachesAppend
  <2>2. k - 1 \in 1..L /\ Reaches(Pattern, s, k - 1)
    BY <1>1, <1>3, <1>6, <2>1
  <2>3. L \in 1..L
    BY <1>1
  <2>4. k - 1 = L
    BY <1>1, <1>6, <2>2, <2>3, OneBeginning DEF L
  <2> QED BY <1>1, <2>4
<1> QED BY <1>3, <1>4, <1>5, <1>6 DEF NotBegun, L

LEMMA MatcherMatch == ChunkInv /\ MatcherInv /\ Match => MatcherInv'
<1> SUFFICES ASSUME ChunkInv, MatcherInv, Match PROVE MatcherInv'
  OBVIOUS
<1>0. /\ Head(rest) \in Chars
      /\ Upto(tail, chunk, Tail(rest)) = Append(Upto(tail, chunk, rest), Head(rest))
  <2>1. tail \in Seq(Chars) /\ IsRest(chunk, rest) /\ rest # <<>>
    BY DEF ChunkInv, Match
  <2>2. Head(rest) \in Chars
    BY <2>1, UptoFacts
  <2> QED BY <2>1, <2>2, UptoNext
<1> DEFINE c == Head(rest)
           L == Len(Pattern)
           n == Fits(Pattern, matched, c)
           s == Append(Seen, c)
<1>1. /\ spc = "zmodem" /\ ~look /\ rest # <<>> /\ start = "none" /\ header \in BOOLEAN
      /\ UNCHANGED <<spc, start, tail, old, chunk>> /\ rest' = Tail(rest)
      /\ matched \in 0..(L - 1)
  BY DEF Match, MatcherInv, ChunkInv
<1>2. n = L => header' = TRUE /\ matched' = 0 /\ look' = TRUE
  BY DEF Match
<1>3. n # L => matched' = n /\ header' = header /\ look' = FALSE
  BY <1>1 DEF Match
<1>4. c \in Chars /\ Seen \in Seq(Chars) /\ Seen' = s
  <2>1. Seen = Upto(tail, chunk, rest) /\ Seen' = Upto(tail, chunk, Tail(rest))
    BY <1>1 DEF Seen
  <2>2. Seen \in Seq(Chars)
    BY SeenFacts
  <2> QED BY <1>0, <2>1, <2>2
<1>5. L \in Nat /\ L > 1 /\ Pattern \in Seq(Chars) /\ Simple(Pattern)
  BY PatternFacts
<1>6. Stale' = Stale /\ (old' => header')
  BY <1>1, <1>2, <1>3 DEF Stale, MatcherInv
<1> HIDE DEF c, L, n, s
<1>7. ASSUME Again
      PROVE  /\ n = matched /\ n # L /\ Begun(Pattern, s, n)
             /\ Reaches(Pattern, Seen, L) => NotBegun(Pattern, s, n)
  <2>1. matched = IF c = Pattern[1] THEN 1 ELSE 0
    BY <1>7 DEF Again, c
  <2>2. /\ n = matched /\ matched \in {0, 1} /\ Begun(Pattern, s, matched)
        /\ Reaches(Pattern, Seen, L) => NotBegun(Pattern, s, matched)
    BY <1>4, <2>1, AgainStep DEF n, s, L
  <2> QED BY <1>5, <2>2
<1>8. ASSUME Begun(Pattern, Seen, matched)
      PROVE  /\ Begun(Pattern, s, n)
             /\ NotBegun(Pattern, Seen, matched) => NotBegun(Pattern, s, n)
  BY <1>1, <1>4, <1>5, <1>8, FitsRight DEF n, s, L
<1>9. Begun(Pattern, s, n)
  BY <1>1, <1>7, <1>8 DEF MatcherInv
<1>10. Begun(Pattern, s, matched')
  BY <1>2, <1>3, <1>9 DEF Begun
<1>11. ASSUME ~Stale
       PROVE  /\ Headers(s) = {}
              /\ n = L => Reaches(Pattern, s, L)
              /\ n # L => NotBegun(Pattern, s, n)
  <2>1. Headers(Seen) = {} /\ Counted
    BY <1>1, <1>11 DEF MatcherInv
  <2>2. n = L => Reaches(Pattern, s, L)
    BY <1>5, <1>9 DEF Begun
  <2>3. CASE Begun(Pattern, Seen, matched) /\ NotBegun(Pattern, Seen, matched)
    <3>1. ~Reaches(Pattern, Seen, L)
      BY <1>1, <1>4, <2>3, NotWhole DEF L
    <3>2. Headers(s) = {}
      BY <1>4, <2>1, <3>1, HeadersAppend DEF L, s
    <3> QED BY <1>8, <2>2, <2>3, <3>2
  <2>4. CASE Again /\ Reaches(Pattern, Seen, L)
    <3>1. c \notin DOMAIN Decides
      BY <2>4 DEF Again, c
    <3>2. Headers(s) = {}
      BY <1>4, <2>1, <3>1, HeadersAppend DEF s
    <3> QED BY <1>7, <2>2, <2>4, <3>2
  <2> QED BY <2>1, <2>3, <2>4 DEF Counted, L
<1>12. ASSUME ~Stale
       PROVE  /\ Headers(Seen') = {}
              /\ look' /\ header' => Reaches(Pattern, Seen', Len(Pattern))
              /\ ~header' \/ ~look' => Counted'
  <2>1. CASE n = L
    BY <1>2, <1>4, <1>11, <1>12, <2>1 DEF L
  <2>2. CASE n # L
    BY <1>3, <1>4, <1>9, <1>11, <1>12, <2>2 DEF Counted
  <2> QED BY <2>1, <2>2
<1> QED BY <1>1, <1>4, <1>6, <1>10, <1>12 DEF MatcherInv

\* What has been read is the beginning of what is to be read.
LEMMA UptoBegins ==
  ASSUME NEW s \in Seq(Chars), NEW c, NEW r, IsRest(c, r)
  PROVE  /\ s \o c \in Seq(Chars) /\ Len(Upto(s, c, r)) <= Len(s \o c)
         /\ \A i \in 1..Len(Upto(s, c, r)) : (s \o c)[i] = Upto(s, c, r)[i]
         /\ r # <<>> => /\ Len(s \o c) > Len(Upto(s, c, r))
                        /\ (s \o c)[Len(Upto(s, c, r)) + 1] = Head(r)
<1> DEFINE n == Len(c) - Len(r)
           x == SubSeq(c, 1, n)
<1>1. /\ c \in Seq(Chars) /\ r \in Seq(Chars) /\ Len(c) \in Nat /\ n \in 0..Len(c)
      /\ Len(s) \in Nat /\ (r # <<>> => n + 1 \in 1..Len(c) /\ Head(r) = c[n + 1])
  BY UptoFacts DEF IsRest
<1>2. x \in Seq(Chars) /\ Len(x) = n /\ \A i \in 1..n : x[i] = c[i]
  BY <1>1
<1>3. Upto(s, c, r) = s \o x
  BY DEF Upto
<1> HIDE DEF n, x
<1>4. /\ Len(s \o x) = Len(s) + n /\ s \o x \in Seq(Chars)
      /\ \A i \in 1..(Len(s) + n) :
           (s \o x)[i] = IF i <= Len(s) THEN s[i] ELSE x[i - Len(s)]
  BY <1>2, ConcatProperties
<1>5. /\ Len(s \o c) = Len(s) + Len(c) /\ s \o c \in Seq(Chars)
      /\ \A i \in 1..(Len(s) + Len(c)) :
           (s \o c)[i] = IF i <= Len(s) THEN s[i] ELSE c[i - Len(s)]
  BY <1>1, ConcatProperties
<1>6. ASSUME NEW i \in 1..(Len(s) + n) PROVE (s \o c)[i] = (s \o x)[i]
  <2>1. CASE i <= Len(s)
    BY <1>1, <1>4, <1>5, <2>1
  <2>2. CASE ~(i <= Len(s))
    <3>1. i - Len(s) \in 1..n /\ i \in 1..(Len(s) + Len(c))
      BY <1>1, <2>2
    <3>2. (s \o c)[i] = c[i - Len(s)] /\ (s \o x)[i] = x[i - Len(s)]
      BY <1>1, <1>4, <1>5, <2>2, <3>1
    <3> QED BY <1>2, <3>1, <3>2
  <2> QED BY <2>1, <2>2
<1>7. ASSUME r # <<>> PROVE (s \o c)[Len(s) + n + 1] = Head(r) /\ Len(s) + Len(c) > Len(s) + n
  <2>1. Len(s) + n + 1 \in 1..(Len(s) + Len(c)) /\ Len(s) + n + 1 > Len(s)
        /\ Len(s) + n + 1 - Len(s) = n + 1
    BY <1>1, <1>7
  <2> QED BY <1>1, <1>7, <1>5, <2>1
<1> QED BY <1>1, <1>3, <1>4, <1>5, <1>6, <1>7

LEMMA MatcherLook == ChunkInv /\ MatcherInv /\ (LookAfterHeader \/ LookOn) => MatcherInv'
<1> SUFFICES ASSUME ChunkInv, MatcherInv, LookAfterHeader \/ LookOn PROVE MatcherInv'
  OBVIOUS
<1>1. /\ spc = "zmodem" /\ look /\ rest # <<>> /\ start = "none" /\ ~Again
      /\ UNCHANGED <<tail, old, chunk, header>> /\ look' = FALSE
      /\ matched \in 0..(Len(Pattern) - 1) /\ Begun(Pattern, Seen, matched)
      /\ Stale' = Stale /\ (old' => header')
  BY DEF LookAfterHeader, LookOn, MatcherInv, ChunkInv, Again, Stale
<1>2. Seen = Upto(tail, chunk, rest) /\ Seen \in Seq(Chars) /\ IsRest(chunk, rest)
      /\ tail \in Seq(Chars) /\ Len(Pattern) \in Nat
  BY <1>1, SeenFacts, PatternFacts DEF ChunkInv
<1>3. ~Stale => Headers(Seen) = {} /\ (header => Reaches(Pattern, Seen, Len(Pattern)))
  BY <1>1 DEF MatcherInv
<1>4. CASE LookOn
  <2>1. UNCHANGED <<spc, rest, matched, start>> /\ ~header /\ Seen' = Seen
    BY <1>4 DEF LookOn, Seen
  <2>2. ~Stale => Counted
    BY <1>1, <2>1 DEF MatcherInv
  <2>3. ~Stale => Counted'
    BY <1>1, <2>1, <2>2 DEF Counted
  <2> QED BY <1>1, <1>3, <2>1, <2>3 DEF MatcherInv
<1>5. CASE LookAfterHeader /\ Head(rest) \in DOMAIN Decides
  <2>1. /\ start' = Decides[Head(rest)] /\ spc' = "logon" /\ matched' = matched /\ header
    BY <1>5 DEF LookAfterHeader
  <2>2. start' # "none"
    BY <1>5, <2>1, PatternFacts
  <2>3. ASSUME ~Stale PROVE matched = 0 /\ start' = FirstOf(tail \o chunk)
    <3>1. Headers(Seen) = {} /\ Reaches(Pattern, Seen, Len(Pattern))
      BY <1>3, <2>1, <2>3
    <3>2. matched = 0
      <4>1. CASE matched > 0
        BY <1>1, <1>2, <3>1, <4>1, NotWhole
      <4> QED BY <1>1, <1>2, <4>1
    <3>3. /\ tail \o chunk \in Seq(Chars) /\ Len(tail \o chunk) > Len(Seen)
          /\ \A i \in 1..Len(Seen) : (tail \o chunk)[i] = Seen[i]
          /\ (tail \o chunk)[Len(Seen) + 1] = Head(rest)
      <4>1. /\ tail \o chunk \in Seq(Chars)
            /\ Len(tail \o chunk) > Len(Upto(tail, chunk, rest))
            /\ (tail \o chunk)[Len(Upto(tail, chunk, rest)) + 1] = Head(rest)
        BY <1>1, <1>2, UptoBegins
      <4>2. \A i \in 1..Len(Upto(tail, chunk, rest)) :
              (tail \o chunk)[i] = Upto(tail, chunk, rest)[i]
        BY <1>2, UptoBegins
      <4> QED BY <1>2, <4>1, <4>2
    <3>4. FirstOf(tail \o chunk) = Decides[Head(rest)]
      BY <1>2, <1>5, <3>1, <3>3, FirstHeader
    <3> QED BY <2>1, <3>2, <3>4
  <2> QED BY <1>1, <2>1, <2>2, <2>3 DEF MatcherInv
<1>6. CASE LookAfterHeader /\ Head(rest) \notin DOMAIN Decides
  <2>1. /\ UNCHANGED <<start, rest, spc>> /\ header
        /\ matched' = IF Head(rest) = Pattern[1] THEN 1 ELSE 0
    BY <1>6 DEF LookAfterHeader
  <2>2. Again' /\ Seen' = Seen
    BY <1>1, <1>6, <2>1 DEF Again, Seen
  <2>3. ~Stale => Counted'
    BY <1>3, <2>1, <2>2 DEF Counted
  <2> QED BY <1>1, <1>3, <2>1, <2>2, <2>3 DEF MatcherInv
<1> QED BY <1>4, <1>5, <1>6

LEMMA MatcherEnd == ChunkInv /\ MatcherInv /\ EndOfChunk => MatcherInv'
<1> SUFFICES ASSUME ChunkInv, MatcherInv, EndOfChunk PROVE MatcherInv'
  OBVIOUS
<1> DEFINE L == Len(Pattern)
           t == tail \o chunk
<1>1. /\ spc = "end" /\ spc' = "idle" /\ chunk' = <<>> /\ start' = "none" /\ old' = FALSE
      /\ UNCHANGED <<look, matched>> /\ header' = (header /\ start = "none")
      /\ ~Again /\ ~Stale' /\ header \in BOOLEAN /\ (old => header)
      /\ matched \in 0..(L - 1)
  BY DEF EndOfChunk, Again, Stale, ChunkInv, MatcherInv
<1>2. /\ L \in Nat /\ L > 1 /\ Pattern \in Seq(Chars) /\ t \in Seq(Chars) /\ Seen = t
      /\ tail' \in Seq(Chars) /\ Len(tail') <= L
  BY <1>1, SeenFacts, PatternFacts, ChunkEnd DEF ChunkInv
<1>3. Seen' = tail'
  <2>1. Seen' = tail' \o chunk'
    <3>1. Seen' = Upto(tail', <<>>, <<>>)
      BY <1>1 DEF Seen
    <3>2. IsRest(<<>>, <<>>)
      <4>1. <<>> \in Seq(Chars) /\ Len(<<>>) = 0
        OBVIOUS
      <4> QED BY <4>1 DEF IsRest
    <3> QED BY <1>1, <1>2, <3>1, <3>2, UptoFacts
  <2> QED BY <1>1, <1>2, <2>1
<1>4. Headers(tail') = {}
  BY <1>2, HeadersShort
<1> HIDE DEF L, t
<1>5. CASE start = "none"
  <2>1. tail' = Last(t, L)
    BY <1>5 DEF EndOfChunk, t, L
  <2>2. Begun(Pattern, t, matched)
    BY <1>1, <1>2, <1>5 DEF MatcherInv
  <2>3. \A n \in 1..L : Reaches(Pattern, tail', n) <=> Reaches(Pattern, t, n)
    BY <1>2, <2>1, ReachesLast
  <2>4. Begun(Pattern, tail', matched)
    BY <1>1, <1>2, <2>2, <2>3 DEF Begun
  <2>5. ASSUME ~header PROVE NotBegun(Pattern, tail', matched)
    <3>1. NotBegun(Pattern, t, matched)
      <4>1. ~Stale
        BY <1>1, <2>5 DEF Stale
      <4> QED BY <1>1, <1>2, <1>5, <2>5, <4>1 DEF MatcherInv, Counted
    <3> QED BY <2>3, <3>1 DEF NotBegun, L
  <2> QED BY <1>1, <1>3, <1>4, <1>5, <2>4, <2>5 DEF MatcherInv, Counted
<1>6. CASE start # "none"
  <2>1. Begun(Pattern, tail', matched) /\ NotBegun(Pattern, tail', matched)
    <3>1. CASE matched = 0
      <4>1. Len(tail') = 0
        <5>1. tail' = <<>> \/ tail' = SubSeq(Pattern, 1, 0)
          BY <1>6, <3>1 DEF EndOfChunk
        <5>2. SubSeq(Pattern, 1, 0) = <<>>
          BY <1>2
        <5> QED BY <5>1, <5>2
      <4> QED BY <1>2, <3>1, <4>1, NothingBegun
    <3>2. CASE matched # 0
      <4>1. tail' = SubSeq(Pattern, 1, matched)
        BY <1>6, <3>2 DEF EndOfChunk, MatcherInv
      <4>2. Len(tail') = matched /\ \A i \in 1..matched : tail'[i] = Pattern[i]
        BY <1>1, <1>2, <4>1
      <4>3. \A i \in 1..matched : Len(tail') - matched + i = i
        BY <1>1, <1>2, <4>2
      <4>4. matched \in 1..Len(tail')
        BY <1>1, <1>2, <3>2, <4>2
      <4>5. Reaches(Pattern, tail', matched)
        BY <4>2, <4>3, <4>4 DEF Reaches
      <4> QED BY <3>2, <4>5 DEF Begun, NotBegun
    <3> QED BY <3>1, <3>2
  <2> QED BY <1>1, <1>3, <1>4, <1>6, <2>1 DEF MatcherInv, Counted
<1> QED BY <1>5, <1>6

LEMMA MatcherStep == ChunkInv /\ MatcherInv /\ [ScanNext]_scanVars => MatcherInv'
<1>1. ASSUME ChunkInv, MatcherInv, UNCHANGED scanVars PROVE MatcherInv'
  <2>1. /\ UNCHANGED <<spc, chunk, rest, look, matched, header, start, tail, old>>
        /\ Seen' = Seen /\ Again' = Again /\ Stale' = Stale
    BY <1>1 DEF scanVars, zVars, Seen, Again, Stale
  <2> QED BY <1>1, <2>1 DEF MatcherInv, Counted
<1> QED BY <1>1, MatcherRead, MatcherMatch, MatcherLook, MatcherOthers, MatcherEnd DEF ScanNext

\* A transfer starts exactly for a header that starts one (Sub_1062-10A8), for
\* every way to cut the stream into chunks, every MaxChunk and every Pattern whose
\* first character does not come back in it.
THEOREM StartsForHeaders == ScanSpec => []ScanInv
<1>1. ScanInit => ChunkInv /\ MatcherInv
  BY ChunkInit, MatcherInit
<1>2. ChunkInv /\ MatcherInv /\ [ScanNext]_scanVars => (ChunkInv /\ MatcherInv)'
  BY ChunkStep, MatcherStep
<1>3. ASSUME ChunkInv, MatcherInv PROVE ScanInv
  <2>1. ScanTypeOK
    <3>1. chunk \in Seq(Chars) /\ Len(chunk) \in Nat /\ Len(chunk) <= MaxChunk /\ MaxChunk \in Nat
      BY <1>3, ScannerAssumption DEF ChunkInv, IsRest, ScannerAssumption
    <3>2. chunk \in Chunks \cup {<<>>}
      <4>1. CASE Len(chunk) = 0
        BY <3>1, <4>1
      <4>2. CASE Len(chunk) # 0
        <5>1. Len(chunk) \in 1..MaxChunk /\ chunk \in [1..Len(chunk) -> Chars]
          BY <3>1, <4>2
        <5> QED BY <5>1 DEF Chunks
      <4> QED BY <4>1, <4>2
    <3> QED BY <1>3, <3>2 DEF ScanTypeOK, ChunkInv, IsRest
  <2>2. ASSUME spc = "end", ~Stale PROVE start = FirstOf(tail \o chunk)
    <3>1. CASE start = "none"
      <4>1. Headers(tail \o chunk) = {}
        BY <1>3, <2>2, <3>1, SeenFacts DEF MatcherInv
      <4> QED BY <3>1, <4>1 DEF FirstOf
    <3> QED BY <1>3, <2>2, <3>1 DEF MatcherInv
  <2> QED BY <2>1, <2>2 DEF ScanInv, StartsAreReal
<1>4. ChunkInv /\ MatcherInv => ScanInv
  BY <1>3
<1> QED BY <1>1, <1>2, <1>4, PTL DEF ScanSpec

-----------------------------------------------------------------------------
(* The matcher of prompts.                                                 *)

LEMMA RestSelf ==
  ASSUME NEW s \in Seq(Chars), NEW c \in Seq(Chars)
  PROVE  Upto(s, c, c) = s /\ Len(c) - Len(c) = 0
<1>1. Len(c) \in Nat /\ \A i \in 1..Len(c) : Len(c) - Len(c) + i = i
  OBVIOUS
<1>2. IsRest(c, c)
  BY <1>1 DEF IsRest
<1> QED BY <1>1, <1>2, UptoFacts

\* What occurs in the beginning of a stream occurs in the stream.
LEMMA OccursBegins ==
  ASSUME NEW p \in Seq(Chars), NEW s \in Seq(Chars), NEW t \in Seq(Chars), Len(s) <= Len(t),
         \A i \in 1..Len(s) : t[i] = s[i], p # <<>>, Occurs(p, s)
  PROVE  Occurs(p, t)
<1>1. PICK i \in 1..Len(s) : At(p, s, i)
  BY DEF Occurs
<1>2. Len(p) \in Nat /\ Len(p) > 0 /\ Len(s) \in Nat /\ Len(t) \in Nat
  OBVIOUS
<1>3. i + Len(p) - 1 <= Len(s) /\ \A j \in 1..Len(p) : s[i + j - 1] = p[j]
  BY <1>1, AtIs
<1>4. \A j \in 1..Len(p) : i + j - 1 \in 1..Len(s)
  BY <1>2, <1>3
<1>5. \A j \in 1..Len(p) : t[i + j - 1] = p[j]
  BY <1>3, <1>4
<1>6. i \in 1..Len(t) /\ i + Len(p) - 1 <= Len(t)
  BY <1>2, <1>3
<1>7. At(p, t, i)
  BY <1>5, <1>6, AtIs
<1> QED BY <1>6, <1>7 DEF Occurs

\* A prompt that is waited for from now on.
LEMMA FreshlyAwaited ==
  ASSUME NEW p, Len(Heard') = 0, Heard' \in Seq(Chars), place' = 0,
         p # <<>> => Len(p) > 0, Len(chunk') - Len(Unheard') = 0
  PROVE  Awaited(p)'
<1>1. ~Occurs(p, Heard')
  BY DEF Occurs
<1>2. Begun(p, Heard', 0) /\ NotBegun(p, Heard', 0)
  BY NothingBegun
<1> QED BY <1>1, <1>2 DEF Awaited

LEMMA LogonInit == ScanInit => LogonInv
BY DEF ScanInit, LogonInv

\* Steps of the ZModem matcher.
LEMMA LogonStays ==
  ASSUME ChunkInv, ChunkInv', LogonInv, UNCHANGED <<lVars, ltail>>, spc \in {"idle", "zmodem"},
         spc' \in {"zmodem", "logon"}, spc' = "logon" => rest' = chunk'
  PROVE  LogonInv'
<1>1. Heard = ltail /\ Len(chunk) - Len(Unheard) = 0
  BY SeenFacts
<1>2. Unheard' = chunk' /\ chunk' \in Seq(Chars) /\ ltail' \in Seq(Chars) /\ ltail' = ltail
  BY DEF Unheard, ChunkInv, IsRest
<1>3. Heard' = ltail /\ Len(chunk') - Len(Unheard') = 0
  BY <1>2, RestSelf DEF Heard
<1>4. UNCHANGED <<line, place, answer>> /\ ~answer
  BY DEF lVars, LogonInv
<1>5. ASSUME NEW p, Awaited(p) PROVE Awaited(p)'
  <2>1. CASE p = <<>>
    <3>1. place' = 0 /\ \A i \in 1..(Len(chunk') - Len(Unheard')) : chunk'[i] # "NUL"
      BY <1>3, <1>4, <1>5, <2>1 DEF Awaited
    <3> QED BY <2>1, <3>1 DEF Awaited
  <2>2. CASE p # <<>>
    BY <1>1, <1>3, <1>4, <1>5, <2>2 DEF Awaited
  <2> QED BY <2>1, <2>2
<1> QED BY <1>4, <1>5 DEF LogonInv

LEMMA LogonOthers ==
  ChunkInv /\ LogonInv /\ (Read \/ Match \/ LookAfterHeader \/ LookOn \/ ToLogon) => LogonInv'
<1> SUFFICES ASSUME ChunkInv, LogonInv, Read \/ Match \/ LookAfterHeader \/ LookOn \/ ToLogon
             PROVE  LogonInv'
  OBVIOUS
<1>1. ChunkInv'
  BY ChunkRead, ChunkZModem
<1>2. CASE Read
  BY <1>1, <1>2, LogonStays DEF Read
<1>3. CASE Match
  BY <1>1, <1>3, LogonStays DEF Match
<1>4. CASE LookAfterHeader
  BY <1>1, <1>4, LogonStays DEF LookAfterHeader
<1>5. CASE LookOn
  BY <1>1, <1>5, LogonStays DEF LookOn
<1>6. CASE ToLogon
  BY <1>1, <1>6, LogonStays DEF ToLogon
<1> QED BY <1>2, <1>3, <1>4, <1>5, <1>6

LEMMA LogonPrompt == ChunkInv /\ LogonInv /\ MatchPrompt => LogonInv'
<1> SUFFICES ASSUME ChunkInv, LogonInv, MatchPrompt PROVE LogonInv'
  OBVIOUS
<1>1. /\ spc = "logon" /\ line \in 1..Len(Prompts) /\ rest # <<>> /\ ~answer
      /\ UNCHANGED <<chunk, ltail>> /\ Awaited(Prompts[line]) /\ place \in Nat
      /\ IsRest(chunk, rest) /\ ltail \in Seq(Chars) /\ answer \in BOOLEAN
      /\ Heard = Upto(ltail, chunk, rest) /\ Unheard = rest /\ Heard \in Seq(Chars)
  BY SeenFacts DEF MatchPrompt, LogonInv, ChunkInv, Unheard
<1>2. /\ Head(rest) \in Chars /\ IsRest(chunk, Tail(rest))
      /\ Head(rest) = chunk[Len(chunk) - Len(rest) + 1]
  BY <1>1, UptoFacts
<1>3. Upto(ltail, chunk, Tail(rest)) = Append(Heard, Head(rest))
  BY <1>1, UptoNext
<1>4. /\ Len(chunk) \in Nat /\ Len(rest) \in Nat /\ Len(rest) > 0 /\ Len(rest) <= Len(chunk)
      /\ Len(Tail(rest)) = Len(rest) - 1 /\ Len(Prompts) \in Nat
  BY <1>1, PromptFacts DEF IsRest
<1>5. PICK p \in Seq(Chars) : p = Prompts[line]
  BY <1>1, PromptFacts
<1> DEFINE c == Head(rest)
           q == Append(p, "NUL")
           n == Fits(q, place, c)
           s == Append(Heard, c)
<1>6. /\ p \in Seq(Chars) /\ Len(p) \in Nat /\ Len(q) = Len(p) + 1 /\ q[Len(p) + 1] = "NUL"
      /\ (p # <<>> => Len(p) > 0) /\ \A i \in 1..Len(p) : q[i] = p[i]
  OBVIOUS
<1>7. ASSUME n > 0 /\ n >= Len(q) - 1
      PROVE  /\ line' = line + 1 /\ place' = 0 /\ answer' = TRUE /\ spc' = "end"
  BY <1>7, <1>5 DEF MatchPrompt
<1>8. ASSUME ~(n > 0 /\ n >= Len(q) - 1)
      PROVE  place' = n /\ rest' = Tail(rest) /\ UNCHANGED <<line, answer, spc>>
  BY <1>8, <1>5 DEF MatchPrompt
<1>9. s \in Seq(Chars)
  BY <1>1, <1>2
<1>10. Upto(ltail, chunk, Tail(rest)) = s /\ c \in Chars /\ Awaited(p)
      /\ c = chunk[Len(chunk) - Len(rest) + 1]
  BY <1>1, <1>5, <1>2, <1>3
<1>11. n = IF c = q[place + 1] THEN place + 1 ELSE IF c = q[1] THEN 1 ELSE 0
  BY DEF Fits
<1>12. ASSUME p # <<>>
       PROVE  n = Fits(p, place, c) /\ place \in 0..(Len(p) - 1)
  <2>1. place < Len(p)
    BY <1>10, <1>12 DEF Awaited
  <2>2. place + 1 \in 1..Len(p) /\ 1 \in 1..Len(p)
    BY <1>1, <1>6, <2>1
  <2> QED BY <1>1, <1>6, <1>11, <2>1, <2>2 DEF Fits
<1> HIDE DEF q, n, s, c
<1>13. ASSUME p # <<>>
       PROVE  /\ n \in 0..Len(p) /\ Begun(p, s, n)
              /\ Simple(p) => NotBegun(p, s, n)
  <2>1. Begun(p, Heard, place) /\ (Simple(p) => NotBegun(p, Heard, place))
    BY <1>10, <1>13 DEF Awaited
  <2> QED BY <1>1, <1>6, <1>10, <1>12, <1>13, <2>1, FitsRight DEF s
<1>14. CASE n > 0 /\ n >= Len(q) - 1
  <2>1. Came(p)'
    <3>1. CASE p = <<>>
      <4>1. place = 0 /\ Len(p) = 0
        BY <1>10, <3>1 DEF Awaited
      <4>2. c = "NUL"
        BY <1>6, <1>11, <1>14, <4>1
      <4>3. Len(chunk) - Len(rest) + 1 \in 1..Len(chunk)
        BY <1>4
      <4> QED BY <1>1, <1>10, <3>1, <4>2, <4>3 DEF Came
    <3>2. CASE p # <<>>
      <4>1. n = Len(p) /\ Reaches(p, s, Len(p))
        BY <1>6, <1>13, <1>14, <3>2 DEF Begun
      <4>2. Occurs(p, s)
        BY <1>1, <1>6, <1>10, <3>2, <4>1, OccursAppend DEF s
      <4>3. /\ ltail \o chunk \in Seq(Chars) /\ Len(s) <= Len(ltail \o chunk)
            /\ \A i \in 1..Len(s) : (ltail \o chunk)[i] = s[i]
        <5> DEFINE r == Tail(rest)
        <5>1. IsRest(chunk, r) /\ Upto(ltail, chunk, r) = s /\ ltail \in Seq(Chars)
          BY <1>1, <1>2, <1>10
        <5> HIDE DEF r
        <5>2. /\ ltail \o chunk \in Seq(Chars)
              /\ Len(Upto(ltail, chunk, r)) <= Len(ltail \o chunk)
          BY <5>1, UptoBegins
        <5>3. \A i \in 1..Len(Upto(ltail, chunk, r)) :
                (ltail \o chunk)[i] = Upto(ltail, chunk, r)[i]
          BY <5>1, UptoBegins
        <5> QED BY <5>1, <5>2, <5>3
      <4>4. Occurs(p, ltail \o chunk)
        BY <1>6, <1>9, <3>2, <4>2, <4>3, OccursBegins
      <4> QED BY <1>1, <3>2, <4>4 DEF Came
    <3> QED BY <3>1, <3>2
  <2>2. line' - 1 = line /\ line' \in 2..(Len(Prompts) + 1)
    BY <1>1, <1>4, <1>7, <1>14
  <2>3. Came(Prompts[line - 1])'
    BY <1>5, <2>1, <2>2
  <2> QED BY <1>7, <1>14, <2>2, <2>3 DEF LogonInv
<1>15. CASE ~(n > 0 /\ n >= Len(q) - 1)
  <2>1. Unheard' = Tail(rest) /\ Heard' = s
    BY <1>1, <1>8, <1>10, <1>15 DEF Unheard, Heard
  <2>2. Awaited(p)'
    <3>1. CASE p = <<>>
      <4>1. place = 0 /\ Len(p) = 0 /\ \A i \in 1..(Len(chunk) - Len(rest)) : chunk[i] # "NUL"
        BY <1>1, <1>10, <3>1 DEF Awaited
      <4>2. n = 0 /\ c # "NUL"
        BY <1>6, <1>11, <1>15, <4>1
      <4>3. Len(chunk) - Len(Tail(rest)) = Len(chunk) - Len(rest) + 1
        <5> DEFINE d == Len(Tail(rest))
        <5>1. d = Len(rest) - 1
          BY <1>4
        <5> HIDE DEF d
        <5>2. Len(chunk) - d = Len(chunk) - Len(rest) + 1
          BY <1>4, <5>1
        <5> QED BY <5>2 DEF d
      <4>4. \A i \in 1..(Len(chunk) - Len(Tail(rest))) : chunk[i] # "NUL"
        BY <1>4, <1>10, <4>1, <4>2, <4>3
      <4> QED BY <1>1, <1>8, <1>15, <2>1, <3>1, <4>2, <4>4 DEF Awaited
    <3>2. CASE p # <<>>
      <4>1. n < Len(p) /\ place' = n /\ n \in 0..Len(p)
        BY <1>6, <1>8, <1>13, <1>15, <3>2
      <4>2. ASSUME Simple(p) PROVE ~Occurs(p, s)
        <5>1. ~Occurs(p, Heard)
          BY <1>10, <3>2, <4>2 DEF Awaited
        <5>2. ~Reaches(p, s, Len(p))
          <6>1. Len(p) \in 1..Len(p)
            BY <1>6, <3>2
          <6>2. CASE n = 0
            BY <1>13, <3>2, <4>2, <6>1, <6>2 DEF NotBegun
          <6>3. CASE n # 0
            <7>1. n \in 1..Len(p) /\ Reaches(p, s, n) /\ n # Len(p)
              BY <1>6, <1>13, <3>2, <4>1, <6>3 DEF Begun
            <7> QED BY <1>6, <1>9, <4>2, <6>1, <7>1, OneBeginning
          <6> QED BY <6>2, <6>3
        <5> QED BY <1>1, <1>6, <1>10, <3>2, <5>1, <5>2, OccursAppend DEF s
      <4> QED BY <1>13, <2>1, <3>2, <4>1, <4>2 DEF Awaited
    <3> QED BY <3>1, <3>2
  <2>3. Awaited(Prompts[line])'
    BY <1>5, <1>8, <1>15, <2>2
  <2> QED BY <1>1, <1>8, <1>15, <2>3 DEF LogonInv
<1> QED BY <1>14, <1>15

LEMMA LogonRest ==
  ChunkInv /\ LogonInv /\ (LogonOff \/ PromptsRead \/ LogonBegins) => LogonInv'
<1> SUFFICES ASSUME ChunkInv, LogonInv, LogonOff \/ PromptsRead \/ LogonBegins
             PROVE  LogonInv'
  OBVIOUS
<1>1. Len(Prompts) \in Nat /\ Len(Prompts) > 0
  BY PromptFacts
<1>2. CASE LogonOff
  BY <1>1, <1>2 DEF LogonOff, LogonInv
<1>3. CASE PromptsRead
  <2>1. /\ UNCHANGED <<chunk, ltail, line, place, answer>> /\ ~answer /\ rest = <<>>
        /\ spc = "logon" /\ spc' = "end" /\ line \in 1..Len(Prompts)
    BY <1>3 DEF PromptsRead, lVars, LogonInv
  <2>2. Unheard' = Unheard /\ Heard' = Heard
    BY <2>1 DEF Unheard, Heard
  <2>3. ASSUME NEW p, Awaited(p) PROVE Awaited(p)'
    BY <2>1, <2>2, <2>3 DEF Awaited
  <2> QED BY <1>1, <2>1, <2>3 DEF LogonInv
<1>4. CASE LogonBegins
  <2>1. /\ line' = 1 /\ place' = 0 /\ ltail' = <<>> /\ ~answer' /\ chunk' = <<>>
        /\ spc' = "idle"
    BY <1>4 DEF LogonBegins, LogonInv, ChunkInv
  <2>2. Unheard' = <<>>
    BY <2>1 DEF Unheard
  <2>3. <<>> \in Seq(Chars)
    OBVIOUS
  <2>4. Heard' = <<>> /\ Len(chunk') - Len(Unheard') = 0
    BY <2>1, <2>2, <2>3, RestSelf DEF Heard
  <2>5. ASSUME NEW p, p # <<>> => Len(p) > 0 PROVE Awaited(p)'
    <3>1. Len(Heard') = 0 /\ Heard' \in Seq(Chars)
      BY <2>3, <2>4
    <3> QED BY <2>1, <2>4, <2>5, <3>1, FreshlyAwaited
  <2>6. PICK p \in Seq(Chars) : p = Prompts[1]
    BY <1>1, PromptFacts
  <2>7. Awaited(p)'
    <3>1. p # <<>> => Len(p) > 0
      OBVIOUS
    <3> QED BY <2>5, <3>1
  <2> QED BY <2>1, <2>6, <2>7 DEF LogonInv
<1> QED BY <1>2, <1>3, <1>4

LEMMA LogonEnd == ChunkInv /\ LogonInv /\ EndOfChunk => LogonInv'
<1> SUFFICES ASSUME ChunkInv, LogonInv, EndOfChunk PROVE LogonInv'
  OBVIOUS
<1>1. /\ spc = "end" /\ spc' = "idle" /\ chunk' = <<>> /\ answer' = FALSE
      /\ UNCHANGED <<line, place>> /\ Heard = ltail \o chunk /\ Heard \in Seq(Chars)
      /\ place \in Nat
  BY SeenFacts DEF EndOfChunk, ChunkInv
<1>2. ltail' \in Seq(Chars) /\ LongestPrompt \in Nat
  BY ChunkEnd, LongestIsLongest DEF ChunkInv
<1>3. Heard' = ltail' /\ Len(chunk') - Len(Unheard') = 0
  <2>1. Unheard' = <<>> /\ <<>> \in Seq(Chars)
    BY <1>1 DEF Unheard
  <2> QED BY <1>1, <1>2, <2>1, RestSelf DEF Heard
<1>4. ASSUME line \in 1..Len(Prompts) PROVE Awaited(Prompts[line])'
  <2>1. PICK p \in Seq(Chars) : p = Prompts[line]
    BY <1>4, PromptFacts
  <2>2. p # <<>> => Len(p) > 0
    OBVIOUS
  <2>3. CASE answer
    <3>1. ltail' = <<>> /\ place' = 0
      BY <1>1, <2>3 DEF EndOfChunk, LogonInv
    <3>2. Len(Heard') = 0 /\ Heard' \in Seq(Chars)
      BY <1>2, <1>3, <3>1
    <3>3. Awaited(p)'
      BY <1>3, <2>2, <3>1, <3>2, FreshlyAwaited
    <3> QED BY <1>1, <2>1, <3>3
  <2>4. CASE ~answer
    <3>1. ltail' = Last(Heard, LongestPrompt) /\ Awaited(p)
      <4>1. line # 0
        BY <1>4
      <4> QED BY <1>1, <1>4, <2>1, <2>4, <4>1 DEF EndOfChunk, LogonInv
    <3>2. Awaited(p)'
      <4>1. CASE p = <<>>
        <5>1. place' = 0 /\ \A i \in 1..(Len(chunk') - Len(Unheard')) : chunk'[i] # "NUL"
          BY <1>1, <1>3, <3>1, <4>1 DEF Awaited
        <5> QED BY <4>1, <5>1 DEF Awaited
      <4>2. CASE p # <<>>
        <5>1. /\ place < Len(p) /\ Begun(p, Heard, place) /\ Len(p) <= LongestPrompt
              /\ Len(p) \in Nat /\ (Simple(p) => ~Occurs(p, Heard) /\ NotBegun(p, Heard, place))
          BY <1>4, <2>1, <3>1, <4>2, LongestIsLongest DEF Awaited
        <5>2. \A n \in 1..LongestPrompt : Reaches(p, ltail', n) <=> Reaches(p, Heard, n)
          BY <1>1, <1>2, <3>1, ReachesLast
        <5>3. Begun(p, ltail', place)
          BY <1>1, <1>2, <5>1, <5>2 DEF Begun
        <5>4. NotBegun(p, Heard, place) => NotBegun(p, ltail', place)
          <6>1. \A n \in 1..Len(p) : n \in 1..LongestPrompt
            BY <1>2, <5>1
          <6> QED BY <5>2, <6>1 DEF NotBegun
        <5>5. Occurs(p, ltail') => Occurs(p, Heard)
          BY <1>1, <1>2, <3>1, <4>2, OccursLast
        <5> QED BY <1>1, <1>3, <4>2, <5>1, <5>3, <5>4, <5>5 DEF Awaited
      <4> QED BY <4>1, <4>2
    <3> QED BY <1>1, <2>1, <3>2
  <2> QED BY <2>3, <2>4
<1> QED BY <1>1, <1>4 DEF LogonInv

LEMMA LogonStep == ChunkInv /\ LogonInv /\ [ScanNext]_scanVars => LogonInv'
<1>1. ASSUME ChunkInv, LogonInv, UNCHANGED scanVars PROVE LogonInv'
  <2>1. /\ UNCHANGED <<spc, chunk, rest, line, place, answer, ltail>>
        /\ Unheard' = Unheard /\ Heard' = Heard
    BY <1>1 DEF scanVars, lVars, Unheard, Heard
  <2> QED BY <1>1, <2>1 DEF LogonInv, Awaited, Came
<1> QED BY <1>1, LogonOthers, LogonPrompt, LogonRest, LogonEnd DEF ScanNext

\* An answer is sent only when its prompt has come since the one before, and a
\* prompt whose first character does not come back in it is never missed
\* (Sub_254A): for any prompts, in chunks of any length.
THEOREM PromptsAreAnswered == ScanSpec => []AnswersAreAsked
<1>1. ScanInit => ChunkInv /\ LogonInv
  BY ChunkInit, LogonInit
<1>2. ChunkInv /\ LogonInv /\ [ScanNext]_scanVars => (ChunkInv /\ LogonInv)'
  BY ChunkStep, LogonStep
<1>3. ASSUME ChunkInv, LogonInv, spc = "end", line # 0,
             NEW p, p = Prompts[IF answer THEN line - 1 ELSE line],
             NEW asked, asked = IF p = <<>> THEN \E i \in 1..Len(chunk) : chunk[i] = "NUL"
                                ELSE \E i \in 1..Len(ltail \o chunk) : At(p, ltail \o chunk, i)
      PROVE  (answer => asked) /\ (asked /\ Simple(p) => answer)
  <2>1. line \in 0..(Len(Prompts) + 1) /\ Len(Prompts) \in Nat
    BY <1>3, PromptFacts DEF ChunkInv
  <2>2. CASE answer
    <3>1. Came(p)
      BY <1>3, <2>2 DEF LogonInv
    <3>2. asked
      <4>1. CASE p = <<>>
        BY <1>3, <3>1, <4>1 DEF Came
      <4>2. CASE p # <<>>
        BY <1>3, <3>1, <4>2 DEF Came, Occurs
      <4> QED BY <4>1, <4>2
    <3> QED BY <2>2, <3>2
  <2>3. CASE ~answer
    <3>1. line \in 1..Len(Prompts)
      BY <1>3, <2>1, <2>3 DEF LogonInv
    <3>2. Awaited(p)
      BY <1>3, <2>3, <3>1 DEF LogonInv
    <3>3. Heard = ltail \o chunk /\ Unheard = <<>> /\ Len(chunk) \in Nat
      BY <1>3, SeenFacts DEF Unheard, ChunkInv, IsRest
    <3>4. ~(asked /\ Simple(p))
      <4>1. CASE p = <<>>
        <5>1. Len(chunk) - Len(<<>>) = Len(chunk)
          BY <3>3
        <5> QED BY <1>3, <3>2, <3>3, <4>1, <5>1 DEF Awaited
      <4>2. CASE p # <<>>
        BY <1>3, <3>2, <3>3, <4>2 DEF Awaited, Occurs
      <4> QED BY <4>1, <4>2
    <3> QED BY <2>3, <3>4
  <2> QED BY <2>2, <2>3
<1>4. ChunkInv /\ LogonInv => AnswersAreAsked
  BY <1>3 DEF AnswersAreAsked
<1> QED BY <1>1, <1>2, <1>4, PTL DEF ScanSpec

-----------------------------------------------------------------------------
(* The tick counter, the clock and the waits.                              *)

\* One more second is one more step of the counter, wherever it wraps.
LEMMA AfterInc ==
  ASSUME NEW m \in 0..(Wrap - 1), NEW n \in 0..(Wrap - 1), NEW d \in Int, After(m, d, n)
  PROVE  Inc(n) \in 0..(Wrap - 1) /\ (0 <= d /\ d + 1 < Wrap => After(m, d + 1, Inc(n)))
  BY TicksAssumption DEF After, Inc

\* A second less behind is one more step of what was seen.
LEMMA AfterSeen ==
  ASSUME NEW m \in 0..(Wrap - 1), NEW n \in 0..(Wrap - 1), NEW d \in 1..(Wrap - 1), After(m, d, n)
  PROVE  Inc(m) \in 0..(Wrap - 1) /\ After(Inc(m), d - 1, n)
  BY TicksAssumption DEF After, Inc

\* Less than a turn after m the counter is at m only when no time has passed.
LEMMA AfterSame ==
  ASSUME NEW m \in 0..(Wrap - 1), NEW d \in 0..(Wrap - 1)
  PROVE  After(m, d, m) <=> d = 0
  BY TicksAssumption DEF After

-----------------------------------------------------------------------------
LEMMA InitHolds == TicksInit => TicksInv
  <1> SUFFICES ASSUME TicksInit PROVE TicksInv
    OBVIOUS
  <1>1. /\ {count, seen, reg, began} \subseteq 0..(Wrap - 1)
        /\ since \in 0..Busy /\ gap \in 0..Gap
        /\ {now, onAt, shown, startAt} \subseteq Nat
    BY TicksAssumption DEF TicksInit
  <1>2. clock \in [h : 0..(Base - 1), m : 0..(Base - 1), s : 0..(Base - 1)]
    BY TicksAssumption DEF TicksInit, Zero
  <1>3. clockOn \in BOOLEAN /\ tpc \in TicksPc /\ wait \in WaitStates
    BY Zenon DEF TicksInit, TicksPc, WaitStates
  <1>4. ClockInv /\ WaitInv
    BY Zenon DEF TicksInit, ClockInv, WaitInv
  <1>5. CatchUpInv
    BY Zenon DEF TicksInit, CatchUpInv
  <1> QED
    BY <1>1, <1>2, <1>3, <1>4, <1>5 DEF TicksInv, TypeOK

LEMMA TickStep ==
  ASSUME TicksInv, Tick
  PROVE  TypeOK' /\ ClockInv' /\ WaitInv'
  <1>1. /\ UNCHANGED <<reg, tpc, seen, clockOn, clock, onAt, shown, began, wait, startAt>>
        /\ count' = Inc(count) /\ now' = now + 1 /\ since' = since + 1 /\ since < Busy
        /\ wait = "waiting" => gap < Gap /\ gap' = gap + 1
        /\ wait # "waiting" => gap' = gap
    BY DEF Tick, clockVars
  <1>2. /\ {count, seen, began} \subseteq 0..(Wrap - 1) /\ {now, onAt, shown, startAt} \subseteq Nat
        /\ since \in 0..Busy /\ gap \in 0..Gap
    BY DEF TicksInv, TypeOK
  <1>3. count' \in 0..(Wrap - 1)
    BY <1>1, <1>2, TicksAssumption DEF Inc
  <1>4. TypeOK'
    BY <1>1, <1>2, <1>3, TicksAssumption DEF TicksInv, TypeOK
  <1>5. ClockInv'
    <2> SUFFICES ASSUME clockOn PROVE ClockInv'
      BY <1>1 DEF ClockInv
    <2>1. Behind \in Int /\ Behind' = Behind + 1
      BY <1>1, <1>2 DEF Behind
    <2>2. /\ Behind >= 0 /\ After(seen, Behind, count)
          /\ tpc = "compare" => reg = seen /\ Behind <= Busy + since
          /\ tpc # "compare" => Behind <= since
      BY DEF TicksInv, ClockInv
    <2>3. Behind + 1 < Wrap
      BY <1>1, <1>2, <2>1, <2>2, TicksAssumption
    <2>4. After(seen, Behind + 1, Inc(count))
      BY <1>2, <2>1, <2>2, <2>3, AfterInc
    <2> HIDE DEF Behind
    <2>5. After(seen, Behind, count)'
      BY <1>1, <2>1, <2>4 DEF After
    <2> QED
      BY <1>1, <1>2, <2>1, <2>2, <2>5, TicksAssumption DEF ClockInv
  <1>6. WaitInv'
    <2> SUFFICES ASSUME wait = "waiting" PROVE WaitInv'
      BY <1>1 DEF WaitInv
    <2> DEFINE d == now - startAt
    <2>1. d \in Int /\ now' - startAt' = d + 1
      BY <1>1, <1>2
    <2>2. d >= 0 /\ d < Limit + gap /\ After(began, d, count)
      BY <1>2 DEF TicksInv, WaitInv
    <2>3. d + 1 < Wrap \/ d + 1 >= Wrap
      BY <2>1, TicksAssumption
    <2> HIDE DEF d
    <2>4. d + 1 < Wrap
      BY <1>1, <1>2, <2>1, <2>2, TicksAssumption
    <2>5. After(began, d + 1, Inc(count))
      BY <1>2, <2>1, <2>2, <2>4, AfterInc
    <2>6. After(began, now - startAt, count)'
      BY <1>1, <2>1, <2>5 DEF After
    <2>7. (now >= startAt)' /\ (now - startAt < Limit + gap)'
      BY <1>1, <1>2, <2>1, <2>2, TicksAssumption DEF d
    <2> QED
      BY <2>6, <2>7 DEF WaitInv
  <1> QED
    BY <1>4, <1>5, <1>6 DEF TicksInv

\* A call of Sub_0F56: the program goes to sleep, or to the loop that catches up.
LEMMA SleepStep ==
  ASSUME TicksInv, tpc # "compare", tpc' \in TicksPc, since' = 0,
         IF clockOn THEN tpc' = "compare" /\ reg' = seen ELSE tpc' # "compare" /\ reg' = reg,
         UNCHANGED <<count, now, clockVars>>
  PROVE  ClockInv' /\ since' \in 0..Busy /\ reg' \in 0..(Wrap - 1)
  <1>1. since \in 0..Busy /\ seen \in 0..(Wrap - 1) /\ reg \in 0..(Wrap - 1)
        /\ {now, onAt, shown} \subseteq Nat
    BY DEF TicksInv, TypeOK
  <1>2. since' \in 0..Busy /\ reg' \in 0..(Wrap - 1)
    BY <1>1, TicksAssumption
  <1>3. Behind \in Int /\ Behind' = Behind
    BY <1>1 DEF Behind, clockVars
  <1>4. ClockInv'
    <2> SUFFICES ASSUME clockOn PROVE ClockInv'
      BY DEF ClockInv, clockVars
    <2>1. Behind >= 0 /\ After(seen, Behind, count) /\ Behind <= since
      BY DEF TicksInv, ClockInv
    <2>2. Behind' >= 0 /\ After(seen, Behind, count)'
      BY <1>3, <2>1 DEF clockVars, After
    <2>3. tpc' = "compare" /\ reg' = seen' /\ Behind' <= Busy + since'
      BY <1>1, <1>3, <2>1, TicksAssumption DEF clockVars
    <2> QED
      BY <2>2, <2>3 DEF ClockInv
  <1> QED
    BY <1>2, <1>4

LEMMA GoToSleepStep ==
  ASSUME TicksInv, GoToSleep
  PROVE  TypeOK' /\ ClockInv' /\ WaitInv'
  <1>1. /\ tpc # "compare" /\ tpc' \in TicksPc /\ since' = 0
        /\ IF clockOn THEN tpc' = "compare" /\ reg' = seen ELSE tpc' # "compare" /\ reg' = reg
        /\ UNCHANGED <<count, now, clockVars, waitVars>>
    BY DEF GoToSleep, Doze, TicksPc
  <1>2. ClockInv' /\ since' \in 0..Busy /\ reg' \in 0..(Wrap - 1)
    BY <1>1, SleepStep
  <1>3. TypeOK'
    BY <1>1, <1>2 DEF TicksInv, TypeOK, clockVars, waitVars
  <1>4. WaitInv'
    BY <1>1 DEF TicksInv, WaitInv, waitVars
  <1> QED
    BY <1>2, <1>3, <1>4 DEF TicksInv

LEMMA WakeStep ==
  ASSUME TicksInv, Wake
  PROVE  TypeOK' /\ ClockInv' /\ WaitInv'
  <1>1. tpc = "sleep" /\ UNCHANGED <<count, now, clockVars, waitVars>>
    BY DEF Wake
  <1>2. WaitInv'
    BY <1>1 DEF TicksInv, WaitInv, waitVars
  <1>3. CASE tpc' = "run" /\ UNCHANGED <<reg, since>>
    <2>1. TypeOK'
      BY <1>1, <1>3 DEF TicksInv, TypeOK, TicksPc, clockVars, waitVars
    <2>2. ClockInv'
      BY <1>1, <1>3 DEF TicksInv, ClockInv, Behind, clockVars
    <2> QED
      BY <1>2, <2>1, <2>2 DEF TicksInv
  <1>4. CASE Doze
    <2>1. /\ tpc # "compare" /\ tpc' \in TicksPc /\ since' = 0
          /\ IF clockOn THEN tpc' = "compare" /\ reg' = seen ELSE tpc' # "compare" /\ reg' = reg
      BY <1>1, <1>4 DEF Doze, TicksPc
    <2>2. ClockInv' /\ since' \in 0..Busy /\ reg' \in 0..(Wrap - 1)
      BY <1>1, <1>4, <2>1, SleepStep
    <2>3. TypeOK'
      BY <1>1, <2>1, <2>2 DEF TicksInv, TypeOK, clockVars, waitVars
    <2> QED
      BY <1>2, <2>2, <2>3 DEF TicksInv
  <1> QED
    BY <1>3, <1>4 DEF Wake

LEMMA AdvancedIsClock ==
  ASSUME NEW c \in [h : 0..(Base - 1), m : 0..(Base - 1), s : 0..(Base - 1)]
  PROVE  Advanced(c) \in [h : 0..(Base - 1), m : 0..(Base - 1), s : 0..(Base - 1)]
  <1>1. c.h \in 0..(Base - 1) /\ c.m \in 0..(Base - 1) /\ c.s \in 0..(Base - 1)
    OBVIOUS
  <1>2. CASE c.s + 1 < Base
    <2>1. c.s + 1 \in 0..(Base - 1)
      BY <1>1, <1>2, TicksAssumption
    <2> QED
      BY <1>2, <2>1 DEF Advanced
  <1>3. CASE ~(c.s + 1 < Base) /\ c.m + 1 < Base
    <2>1. c.m + 1 \in 0..(Base - 1) /\ 0 \in 0..(Base - 1)
      BY <1>1, <1>3, TicksAssumption
    <2> QED
      BY <1>3, <2>1 DEF Advanced
  <1>4. CASE ~(c.s + 1 < Base) /\ ~(c.m + 1 < Base)
    <2>1. 0 \in 0..(Base - 1) /\ (c.h + 1 < Base => c.h + 1 \in 0..(Base - 1))
      BY <1>1, TicksAssumption
    <2> QED
      BY <1>4, <2>1 DEF Advanced, Zero
  <1> QED
    BY <1>2, <1>3, <1>4

LEMMA CatchUpStep ==
  ASSUME TicksInv, CatchUp
  PROVE  TypeOK' /\ ClockInv' /\ WaitInv'
  <1>1. /\ tpc = "compare" /\ reg # count /\ reg' = Inc(reg) /\ seen' = Inc(reg)
        /\ shown' = shown + 1 /\ clock' = Advanced(clock)
        /\ UNCHANGED <<count, tpc, since, now, clockOn, onAt, waitVars>>
    BY DEF CatchUp
  <1>2. /\ {count, seen, reg} \subseteq 0..(Wrap - 1) /\ {now, onAt, shown} \subseteq Nat
        /\ since \in 0..Busy
    BY DEF TicksInv, TypeOK
  <1>3. clock' \in [h : 0..(Base - 1), m : 0..(Base - 1), s : 0..(Base - 1)]
    BY <1>1, AdvancedIsClock DEF TicksInv, TypeOK
  <1>4. Inc(reg) \in 0..(Wrap - 1) /\ shown' \in Nat
    BY <1>1, <1>2, TicksAssumption DEF Inc
  <1>5. TypeOK'
    BY <1>1, <1>2, <1>3, <1>4 DEF TicksInv, TypeOK, waitVars
  <1>6. WaitInv'
    BY <1>1 DEF TicksInv, WaitInv, waitVars
  <1>7. ClockInv'
    <2> SUFFICES ASSUME clockOn PROVE ClockInv'
      BY <1>1 DEF ClockInv
    <2>1. Behind \in Int /\ Behind' = Behind - 1
      BY <1>1, <1>2 DEF Behind
    <2>2. Behind >= 0 /\ After(seen, Behind, count) /\ reg = seen /\ Behind <= Busy + since
      BY <1>1 DEF TicksInv, ClockInv
    <2> HIDE DEF Behind
    <2>3. Behind \in 0..(Wrap - 1)
      BY <1>2, <2>1, <2>2, TicksAssumption
    <2>4. Behind # 0
      BY <1>1, <1>2, <2>2, TicksAssumption DEF After
    <2>5. Behind \in 1..(Wrap - 1)
      BY <2>3, <2>4, TicksAssumption
    <2>6. After(Inc(seen), Behind - 1, count)
      BY <1>2, <2>2, <2>5, AfterSeen
    <2>7. After(seen, Behind, count)' /\ reg' = seen'
      BY <1>1, <2>1, <2>2, <2>6 DEF After
    <2>8. Behind' >= 0 /\ Behind' <= Busy + since'
      BY <1>1, <1>2, <2>1, <2>2, <2>5, TicksAssumption
    <2> QED
      BY <1>1, <2>7, <2>8 DEF ClockInv
  <1> QED
    BY <1>5, <1>6, <1>7 DEF TicksInv

\* With nothing left to catch up the clock is not behind at all.
LEMMA CaughtUpIsExact ==
  ASSUME TicksInv, CaughtUp, clockOn
  PROVE  Behind = 0
  <1>1. /\ tpc = "compare" /\ reg = count /\ {count, seen} \subseteq 0..(Wrap - 1)
        /\ {now, onAt, shown} \subseteq Nat /\ since \in 0..Busy
    BY DEF TicksInv, TypeOK, CaughtUp
  <1>2. Behind \in Int /\ Behind >= 0 /\ Behind <= Busy + since
        /\ After(seen, Behind, count) /\ seen = count
    BY <1>1 DEF TicksInv, ClockInv, Behind
  <1> HIDE DEF Behind
  <1>3. Behind \in 0..(Wrap - 1)
    BY <1>1, <1>2, TicksAssumption
  <1> QED
    BY <1>1, <1>2, <1>3, AfterSame

LEMMA CaughtUpStep ==
  ASSUME TicksInv, CaughtUp
  PROVE  TypeOK' /\ ClockInv' /\ WaitInv'
  <1>1. /\ tpc = "compare" /\ tpc' = "sleep" /\ reg = count
        /\ UNCHANGED <<count, reg, since, now, clockVars, waitVars>>
    BY DEF CaughtUp
  <1>2. TypeOK' /\ WaitInv'
    BY <1>1 DEF TicksInv, TypeOK, WaitInv, TicksPc, clockVars, waitVars
  <1>3. Behind' = Behind /\ (clockOn => Behind = 0)
    BY <1>1, CaughtUpIsExact DEF Behind, clockVars
  <1>4. ClockInv'
    <2> SUFFICES ASSUME clockOn PROVE ClockInv'
      BY <1>1 DEF ClockInv, clockVars
    <2>1. Behind >= 0 /\ After(seen, Behind, count) /\ Behind <= since
      BY <1>3, TicksAssumption DEF TicksInv, ClockInv, TypeOK
    <2> QED
      BY <1>1, <1>3, <2>1 DEF ClockInv, After, clockVars
  <1> QED
    BY <1>2, <1>4 DEF TicksInv

LEMMA ToggleClockStep ==
  ASSUME TicksInv, ToggleClock
  PROVE  TypeOK' /\ ClockInv' /\ WaitInv'
  <1>1. tpc = "run" /\ UNCHANGED <<count, reg, tpc, since, now, waitVars>>
    BY DEF ToggleClock
  <1>2. WaitInv'
    BY <1>1 DEF TicksInv, WaitInv, waitVars
  <1>3. CASE clockOn
    <2>1. clockOn' = FALSE /\ UNCHANGED <<seen, clock, onAt, shown>>
      BY <1>3 DEF ToggleClock
    <2>2. TypeOK'
      BY <1>1, <2>1 DEF TicksInv, TypeOK, waitVars
    <2>3. ClockInv'
      BY <2>1, Zenon DEF ClockInv
    <2> QED
      BY <1>2, <2>2, <2>3 DEF TicksInv
  <1>4. CASE ~clockOn
    <2>1. clockOn' = TRUE /\ clock' = Zero /\ seen' = count /\ onAt' = now /\ shown' = 0
      BY <1>4 DEF ToggleClock
    <2>2. Zero \in [h : 0..(Base - 1), m : 0..(Base - 1), s : 0..(Base - 1)]
      BY TicksAssumption DEF Zero
    <2>3. TypeOK'
      BY <1>1, <2>1, <2>2 DEF TicksInv, TypeOK, waitVars
    <2>4. Behind' = 0
      BY <1>1, <2>1 DEF Behind, TicksInv, TypeOK
    <2>5. After(seen, Behind, count)'
      BY <1>1, <2>1, <2>4, TicksAssumption DEF After, TicksInv, TypeOK
    <2>6. ClockInv'
      BY <1>1, <2>4, <2>5, TicksAssumption DEF ClockInv, TicksInv, TypeOK
    <2> QED
      BY <1>2, <2>3, <2>6 DEF TicksInv
  <1> QED
    BY <1>3, <1>4

-----------------------------------------------------------------------------
LEMMA StartWaitStep ==
  ASSUME TicksInv, StartWait
  PROVE  TypeOK' /\ ClockInv' /\ WaitInv'
  <1>1. /\ wait' = "waiting" /\ began' = count /\ startAt' = now /\ gap' = 0
        /\ UNCHANGED <<count, reg, tpc, since, now, clockVars>>
    BY DEF StartWait
  <1>2. TypeOK'
    BY <1>1, TicksAssumption DEF TicksInv, TypeOK, WaitStates, clockVars
  <1>3. ClockInv'
    BY <1>1 DEF TicksInv, ClockInv, Behind, After, clockVars
  <1>4. WaitInv'
    BY <1>1, TicksAssumption DEF TicksInv, TypeOK, WaitInv, After
  <1> QED
    BY <1>2, <1>3, <1>4 DEF TicksInv

LEMMA AnswerStep ==
  ASSUME TicksInv, Answer
  PROVE  TypeOK' /\ ClockInv' /\ WaitInv'
  <1>1. /\ wait' = "answered"
        /\ UNCHANGED <<count, reg, tpc, since, now, clockVars, began, gap, startAt>>
    BY DEF Answer
  <1>2. TypeOK'
    BY <1>1 DEF TicksInv, TypeOK, WaitStates, clockVars
  <1>3. ClockInv'
    BY <1>1 DEF TicksInv, ClockInv, Behind, After, clockVars
  <1>4. WaitInv'
    BY <1>1 DEF WaitInv
  <1> QED
    BY <1>2, <1>3, <1>4 DEF TicksInv

\* In a wait the difference of the two bytes is the true time that has passed.
LEMMA ElapsedIsTrue ==
  ASSUME TicksInv, wait = "waiting"
  PROVE  Elapsed = now - startAt
  <1>1. count \in 0..(Wrap - 1) /\ began \in 0..(Wrap - 1) /\ gap \in 0..Gap
        /\ now \in Nat /\ startAt \in Nat
    BY DEF TicksInv, TypeOK
  <1>2. now >= startAt /\ now - startAt < Limit + gap /\ After(began, now - startAt, count)
    BY DEF TicksInv, WaitInv
  <1>3. now - startAt \in 0..(Wrap - 1)
    BY <1>1, <1>2, TicksAssumption
  <1> QED
    BY <1>1, <1>2, <1>3, TicksAssumption DEF Elapsed, After

LEMMA LookStep ==
  ASSUME TicksInv, Look
  PROVE  TypeOK' /\ ClockInv' /\ WaitInv'
  <1>1. /\ tpc # "compare" /\ tpc' \in TicksPc /\ since' = 0 /\ gap' = 0
        /\ IF clockOn THEN tpc' = "compare" /\ reg' = seen ELSE tpc' # "compare" /\ reg' = reg
        /\ UNCHANGED <<count, now, clockVars, began, startAt>>
        /\ wait = "waiting" /\ wait' = IF Elapsed >= Limit THEN "timeout" ELSE wait
    BY DEF Look, Doze, TicksPc
  <1>2. ClockInv' /\ since' \in 0..Busy /\ reg' \in 0..(Wrap - 1)
    BY <1>1, SleepStep
  <1>3. TypeOK'
    BY <1>1, <1>2, TicksAssumption DEF TicksInv, TypeOK, WaitStates, clockVars
  <1>4. WaitInv'
    <2> SUFFICES ASSUME wait' = "waiting" PROVE WaitInv'
      BY DEF WaitInv
    <2>1. ~(Elapsed >= Limit) /\ Elapsed = now - startAt
      BY <1>1, ElapsedIsTrue
    <2>2. now >= startAt /\ After(began, now - startAt, count)
      BY <1>1 DEF TicksInv, WaitInv
    <2>3. now \in Nat /\ startAt \in Nat
      BY DEF TicksInv, TypeOK
    <2>4. (now >= startAt)' /\ (now - startAt < Limit + gap)'
      BY <1>1, <2>1, <2>2, <2>3, TicksAssumption
    <2> QED
      BY <1>1, <2>2, <2>4 DEF WaitInv, After
  <1> QED
    BY <1>2, <1>3, <1>4 DEF TicksInv

\* The loop that catches up is entered only with the clock on, and left before
\* the keyboard is looked at, so that the clock is on in it.
LEMMA CatchUpNeedsClock ==
  ASSUME CatchUpInv, TicksNext
  PROVE  CatchUpInv'
  <1>1. CASE ToggleClock
    BY <1>1, Zenon DEF ToggleClock, CatchUpInv
  <1>2. CASE GoToSleep
    BY <1>2, Zenon DEF GoToSleep, Doze, CatchUpInv, clockVars
  <1>3. CASE Wake
    BY <1>3, Zenon DEF Wake, Doze, CatchUpInv, clockVars
  <1>4. CASE Look
    BY <1>4, Zenon DEF Look, Doze, CatchUpInv, clockVars
  <1>5. CASE Tick \/ CatchUp \/ CaughtUp \/ StartWait \/ Answer
    <2>1. clockOn' = clockOn /\ (tpc' = tpc \/ tpc' = "sleep")
      BY <1>5, Zenon DEF Tick, CatchUp, CaughtUp, StartWait, Answer, clockVars
    <2> QED
      BY <2>1, Zenon DEF CatchUpInv
  <1> QED
    BY <1>1, <1>2, <1>3, <1>4, <1>5, Zenon DEF TicksNext

LEMMA NextStep == TicksInv /\ [TicksNext]_ticksVars => TicksInv'
  <1> SUFFICES ASSUME TicksInv, [TicksNext]_ticksVars PROVE TicksInv'
    OBVIOUS
  <1>1. CASE TicksNext
    <2>1. CatchUpInv'
      BY <1>1, CatchUpNeedsClock, Zenon DEF TicksInv
    <2>2. TypeOK' /\ ClockInv' /\ WaitInv'
      BY <1>1, TickStep, ToggleClockStep, GoToSleepStep, CatchUpStep, CaughtUpStep,
         WakeStep, StartWaitStep, AnswerStep, LookStep, Zenon DEF TicksNext
    <2> QED
      BY <2>1, <2>2, Zenon DEF TicksInv
  <1>2. CASE UNCHANGED ticksVars
    BY <1>2 DEF TicksInv, TypeOK, CatchUpInv, ClockInv, WaitInv, Behind, After,
       ticksVars, clockVars, waitVars
  <1> QED
    BY <1>1, <1>2

\* The counter is never a full turn ahead of the clock or of the start of a wait.
THEOREM TicksInvariant == TicksSpec => []TicksInv
  BY InitHolds, NextStep, PTL DEF TicksSpec

-----------------------------------------------------------------------------
\* Only CaughtUp leaves the loop that catches up.
LEMMA OnlyCaughtUpSleeps ==
  ASSUME TicksNext, tpc = "compare", tpc' = "sleep"
  PROVE  CaughtUp
  BY Zenon DEF TicksNext, Tick, ToggleClock, GoToSleep, CatchUp, Wake, StartWait, Answer, Look

\* Whenever the program goes to sleep the clock has been advanced once for each
\* second since it was set to zero.
THEOREM ClockRight == TicksSpec => ClockIsRight
  <1>1. TicksInv /\ [TicksNext]_ticksVars =>
           [tpc = "compare" /\ tpc' = "sleep" => shown = now - onAt]_ticksVars
    <2> SUFFICES ASSUME TicksInv, TicksNext, tpc = "compare", tpc' = "sleep"
                 PROVE  shown = now - onAt
      OBVIOUS
    <2>1. CaughtUp
      BY OnlyCaughtUpSleeps
    <2>2. clockOn
      BY Zenon DEF TicksInv, CatchUpInv
    <2>3. Behind = 0
      BY <2>1, <2>2, CaughtUpIsExact
    <2> QED
      BY <2>3 DEF Behind, TicksInv, TypeOK
  <1> QED
    BY <1>1, TicksInvariant, PTL DEF TicksSpec, ClockIsRight

\* No wait goes on for more than Gap seconds after its limit.
THEOREM WaitNeverLate == TicksSpec => []NeverLate
  <1>1. TicksInv => NeverLate
    <2> SUFFICES ASSUME TicksInv, wait = "waiting" PROVE now < startAt + Limit + Gap
      BY DEF NeverLate
    <2>1. now - startAt < Limit + gap
      BY DEF TicksInv, WaitInv
    <2>2. gap \in 0..Gap /\ now \in Nat /\ startAt \in Nat
      BY DEF TicksInv, TypeOK
    <2> QED
      BY <2>1, <2>2, TicksAssumption
  <1> QED
    BY <1>1, TicksInvariant, PTL

\* Only a look at the time gives up a wait, when its limit is reached.
LEMMA OnlyLookGivesUp ==
  ASSUME TicksNext, wait = "waiting", wait' = "timeout"
  PROVE  Look
  BY Zenon DEF TicksNext, Tick, ToggleClock, GoToSleep, CatchUp, CaughtUp, Wake, StartWait,
     Answer, waitVars

\* No wait is given up before its limit, wherever the counter wraps in it.
THEOREM WaitNeverEarly == TicksSpec => NeverEarly
  <1>1. TicksInv /\ [TicksNext]_ticksVars =>
           [wait = "waiting" /\ wait' = "timeout" => now >= startAt + Limit]_ticksVars
    <2> SUFFICES ASSUME TicksInv, TicksNext, wait = "waiting", wait' = "timeout"
                 PROVE  now >= startAt + Limit
      OBVIOUS
    <2>1. Elapsed >= Limit
      BY OnlyLookGivesUp DEF Look
    <2>2. Elapsed = now - startAt
      BY ElapsedIsTrue
    <2> QED
      BY <2>1, <2>2, TicksAssumption DEF TicksInv, TypeOK
  <1> QED
    BY <1>1, TicksInvariant, PTL DEF TicksSpec, NeverEarly
=============================================================================
