---------------------------- MODULE CaptureProofs ----------------------------
(***************************************************************************)
(* Proofs about Capture, for a buffer and blocks of any size, any amount   *)
(* of text and any number of aborted downloads.                            *)
(***************************************************************************)
EXTENDS Capture, SequenceTheorems, TLAPS

-----------------------------------------------------------------------------
(* Sequences of bytes.                                                     *)

LEMMA TextIsBytes ==
  ASSUME NEW s \in Seq(Text)
  PROVE  s \in Seq(Bytes)
  BY SeqMonotonic DEF Bytes

\* Moving the first element of t to the end of b moves nothing.
LEMMA MoveHead ==
  ASSUME NEW f \in Seq(Bytes), NEW b \in Seq(Bytes), NEW t \in Seq(Bytes), t # <<>>
  PROVE  /\ (f \o Append(b, Head(t))) \o Tail(t) = (f \o b) \o t
         /\ ((f \o Append(b, Head(t))) \o <<>>) \o Tail(t) = (f \o b) \o t
  <1> DEFINE h == Head(t)
             r == Tail(t)
             x == f \o b
  <1>1. h \in Bytes /\ r \in Seq(Bytes) /\ x \in Seq(Bytes) /\ <<h>> \in Seq(Bytes)
    BY HeadTailProperties, ConcatProperties
  <1>2. t = <<h>> \o r
    <2>1. Len(t) \in Nat \ {0} /\ Len(r) = Len(t) - 1
      BY HeadTailProperties, EmptySeq
    <2>2. \A i \in 1..Len(r) : r[i] = t[i + 1]
      BY HeadTailProperties
    <2>3. h = t[1]
      BY <2>1
    <2>4. <<h>> \o r \in Seq(Bytes) /\ Len(<<h>> \o r) = Len(t)
      BY <1>1, <2>1, ConcatProperties
    <2>5. \A i \in 1..Len(t) : t[i] = (<<h>> \o r)[i]
      <3> TAKE i \in 1..Len(t)
      <3> HIDE DEF r, h
      <3>1. (<<h>> \o r)[i] = IF i <= 1 THEN <<h>>[i] ELSE r[i - 1]
        BY <1>1, <2>1, ConcatProperties
      <3>2. CASE i = 1
        BY <2>3, <3>1, <3>2
      <3>3. CASE i > 1
        <4>1. i - 1 \in 1..Len(r)
          BY <2>1, <3>3
        <4>2. r[i - 1] = t[(i - 1) + 1] /\ (i - 1) + 1 = i
          BY <2>2, <4>1
        <4> QED
          BY <2>1, <3>1, <3>3, <4>2
      <3> QED
        BY <2>1, <3>2, <3>3
    <2> QED
      BY <2>4, <2>5, SeqEqual
  <1>3. Append(b, h) = b \o <<h>>
    BY <1>1, AppendIsConcat
  <1> HIDE DEF h, r
  <1>4. f \o (b \o <<h>>) = x \o <<h>>
    BY <1>1, ConcatAssociative
  <1> HIDE DEF x
  <1>5. (x \o <<h>>) \o r = x \o (<<h>> \o r)
    BY <1>1, ConcatAssociative
  <1>6. (x \o <<h>>) \o <<>> = x \o <<h>>
    BY <1>1, ConcatProperties, ConcatEmptySeq
  <1> QED
    BY <1>2, <1>3, <1>4, <1>5, <1>6 DEF h, r, x

-----------------------------------------------------------------------------
\* What a flush leaves behind: an empty buffer, and in the file what was there
\* before, followed by the whole buffer if there is a file and no write failed.
LEMMA FlushFacts ==
  ASSUME TypeOK, NEW b \in Seq(Bytes), Flush(b)
  PROVE  /\ buf' = <<>>
         /\ file' \in Seq(Bytes) /\ exists' = exists /\ failed' \in BOOLEAN
         /\ ~failed' => ~failed /\ file' = IF open THEN file \o b ELSE file
  <1>1. CASE open /\ failed' = TRUE /\ \E k \in 0..Len(b) : file' = file \o SubSeq(b, 1, k)
    <2>1. PICK k \in 0..Len(b) : file' = file \o SubSeq(b, 1, k)
      BY <1>1
    <2>2. \A i \in 1..k : b[i] \in Bytes
      BY ElementOfSeq, LenProperties
    <2>3. SubSeq(b, 1, k) \in Seq(Bytes)
      BY <2>2, LenProperties, SubSeqProperties
    <2>4. file' \in Seq(Bytes)
      BY <2>1, <2>3, ConcatProperties DEF TypeOK
    <2> QED
      BY <1>1, <2>4 DEF Flush
  <1>2. CASE ~open /\ UNCHANGED <<file, failed>>
    BY <1>2 DEF Flush, TypeOK
  <1>3. CASE open /\ file' = file \o b /\ UNCHANGED failed
    BY <1>3, ConcatProperties DEF Flush, TypeOK
  <1> QED
    BY <1>1, <1>2, <1>3 DEF Flush

-----------------------------------------------------------------------------
\* In the terminal loop without an aborted download or a failed write: a flush
\* moves the captured text to the file and loses none of it.
LEMMA FlushIsExact ==
  ASSUME CaptureInv, cpc \in {"terminal", "copy"}, Flush(buf), aborts = 0, ~failed'
  PROVE  /\ file' = file \o buf
         /\ file' \o <<>> = file \o buf
         /\ file' \o todo = Kept
  <1>1. buf \in Seq(Bytes) /\ file \in Seq(Bytes)
    BY DEF CaptureInv, TypeOK
  <1>2. file' = IF open THEN file \o buf ELSE file
    BY <1>1, FlushFacts DEF CaptureInv
  <1>3. ~open => buf = <<>>
    BY DEF CaptureInv, NoFileNoText
  <1>4. file' = file \o buf
    BY <1>1, <1>2, <1>3, ConcatEmptySeq
  <1>5. file \o buf \in Seq(Bytes)
    BY <1>1, ConcatProperties
  <1> QED
    BY <1>4, <1>5, ConcatEmptySeq DEF Kept

\* The invariant holds at the start ...
LEMMA InitHolds == CaptureInit => CaptureInv
  <1> SUFFICES ASSUME CaptureInit PROVE CaptureInv
    OBVIOUS
  <1>1. <<>> \in Seq(Bytes) /\ <<>> \in Seq(Text) /\ Len(<<>>) = 0
    BY EmptySeq
  <1>2. (<<>> \o <<>>) \o <<>> = <<>>
    BY <1>1, ConcatEmptySeq
  <1>3. TypeOK
    <2>1. came \in 0..MaxText /\ aborts \in 0..MaxAborts /\ top \in 0..(Cap + 1)
      BY CaptureAssumption DEF CaptureInit
    <2> QED
      BY <1>1, <2>1, Zenon DEF CaptureInit, TypeOK, CapturePc
  <1>4. RoomLeft
    BY <1>1, CaptureAssumption DEF CaptureInit, RoomLeft
  <1>6. NoFileNoText /\ CopyPhase
    BY DEF CaptureInit, NoFileNoText, CopyPhase
  <1>5. CaptureIsExact
    BY <1>2 DEF CaptureInit, CaptureIsExact, Kept
  <1> QED
    BY <1>3, <1>4, <1>5, <1>6 DEF CaptureInv

\* ... and every step preserves it.  First the steps that copy text.
LEMMA ShowStep ==
  ASSUME CaptureInv, NEW n \in 0..MaxText, cpc \in {"terminal", "dialer"}, Show(n)
  PROVE  CaptureInv'
  <1>1. n \in Nat /\ came' \in 0..MaxText
    BY CaptureAssumption DEF Show, CaptureInv, TypeOK
  <1>2. CASE ~(open /\ capturing)
    <2>1. /\ cpc' = "terminal" /\ todo = <<>>
          /\ UNCHANGED <<flags, buf, todo, disk, logged, aborts, top>>
      BY <1>2 DEF Show, CaptureInv, CopyPhase
    <2>2. TypeOK'
      BY <1>1, <2>1 DEF CaptureInv, TypeOK, CapturePc, flags, disk
    <2> QED
      BY <2>1, <2>2 DEF CaptureInv, RoomLeft, NoFileNoText, CopyPhase, CaptureIsExact, Kept, flags, disk
  <1>3. CASE open /\ capturing
    <2>1. /\ cpc' = "copy" /\ open' /\ todo = <<>>
          /\ logged' = logged \o todo'
          /\ UNCHANGED <<flags, buf, disk, aborts, top>>
      BY <1>3 DEF Show, CaptureInv, CopyPhase, flags
    <2>2. todo' \in Seq(Text)
      <3>1. \A i \in 1..n : came + i \in Text
        BY <1>1, CaptureAssumption DEF Show, Text, CaptureInv, TypeOK
      <3>2. [i \in 1..n |-> came + i] \in [1..n -> Text]
        BY <3>1
      <3> QED
        BY <1>1, <1>3, <3>2, SeqDef DEF Show
    <2>3. logged' \in Seq(Text)
      BY <2>1, <2>2, ConcatProperties DEF CaptureInv, TypeOK
    <2>4. TypeOK'
      BY <1>1, <2>1, <2>2, <2>3 DEF CaptureInv, TypeOK, CapturePc, flags, disk
    <2>5. CaptureIsExact'
      <3>1. file \o buf \in Seq(Bytes)
        BY ConcatProperties DEF CaptureInv, TypeOK
      <3>2. Kept = file \o buf
        BY <2>1, <3>1, ConcatEmptySeq DEF Kept
      <3>3. Kept' = (file \o buf) \o todo'
        BY <2>1 DEF Kept, disk
      <3> QED
        BY <2>1, <3>2, <3>3 DEF CaptureIsExact, CaptureInv, disk
    <2>6. RoomLeft'
      BY <2>1 DEF RoomLeft, CaptureInv
    <2>7. NoFileNoText' /\ CopyPhase'
      BY <2>1 DEF NoFileNoText, CopyPhase
    <2> QED
      BY <2>4, <2>5, <2>6, <2>7 DEF CaptureInv
  <1> QED
    BY <1>2, <1>3

LEMMA CopyCharStep ==
  ASSUME CaptureInv, CopyChar
  PROVE  CaptureInv'
  <1> DEFINE h == Head(todo)
             b == Append(buf, h)
  <1>1. /\ cpc = "copy" /\ cpc' = "copy" /\ open /\ open' /\ todo # <<>>
        /\ buf \in Seq(Bytes) /\ file \in Seq(Bytes) /\ todo \in Seq(Text)
        /\ todo \in Seq(Bytes) /\ Len(buf) \in Nat
    BY TextIsBytes, LenProperties DEF CaptureInv, TypeOK, CopyPhase, CopyChar, flags
  <1>2. h \in Text /\ h \in Bytes /\ todo' \in Seq(Text)
    BY <1>1, HeadTailProperties DEF CopyChar, Bytes
  <1>3. b \in Seq(Bytes) /\ Len(b) = Len(buf) + 1
    BY <1>1, <1>2, AppendProperties
  <1>4. top' = IF Len(b) > top THEN Len(b) ELSE top
    BY <1>3 DEF CopyChar
  <1>5. top' \in 0..(Cap + 1) /\ (aborts = 0 => top' <= Cap)
    <2>1. Len(buf) <= Cap /\ (aborts = 0 => Len(buf) < Cap /\ top <= Cap) /\ top \in 0..(Cap + 1)
      BY <1>1 DEF CaptureInv, RoomLeft, TypeOK
    <2> HIDE DEF b
    <2> QED
      BY <1>1, <1>3, <1>4, <2>1, CaptureAssumption
  <1>6. (file \o b) \o todo' = Kept /\ ((file \o b) \o <<>>) \o todo' = Kept
    BY <1>1, MoveHead DEF CopyChar, Kept
  <1>7. NoFileNoText' /\ CopyPhase'
    BY <1>1 DEF NoFileNoText, CopyPhase
  <1>8. CASE Len(b) >= Cap
    <2>1. Flush(b)
      BY <1>8 DEF CopyChar, FlushIfFull
    <2>2. /\ buf' = <<>> /\ file' \in Seq(Bytes) /\ exists' = exists /\ failed' \in BOOLEAN
          /\ ~failed' => ~failed /\ file' = file \o b
      BY <1>1, <1>3, <2>1, FlushFacts DEF CaptureInv
    <2>3. buf' \in Seq(Bytes) /\ Len(buf') = 0
      BY <2>2, EmptySeq
    <2>4. TypeOK'
      BY <1>1, <1>2, <1>5, <2>2, <2>3 DEF CopyChar, CaptureInv, TypeOK, flags, arrivals
    <2>5. file' \o <<>> = file'
      BY <2>2, ConcatEmptySeq
    <2>6. Kept' = (file' \o <<>>) \o todo'
      BY <1>1, <2>2 DEF Kept
    <2>7. CaptureIsExact'
      BY <1>6, <2>2, <2>5, <2>6 DEF CaptureIsExact, CopyChar, CaptureInv, arrivals
    <2>8. RoomLeft'
      BY <1>5, <2>3, CaptureAssumption DEF RoomLeft, CopyChar
    <2> QED
      BY <1>7, <2>4, <2>7, <2>8 DEF CaptureInv
  <1>9. CASE ~(Len(b) >= Cap)
    <2>1. buf' = b /\ UNCHANGED disk
      BY <1>9 DEF CopyChar, FlushIfFull
    <2>2. Len(buf') < Cap /\ Len(buf') <= Cap /\ buf' \in Seq(Bytes)
      BY <1>1, <1>3, <1>9, <2>1, CaptureAssumption
    <2>3. TypeOK'
      BY <1>1, <1>2, <1>5, <2>1, <2>2 DEF CopyChar, CaptureInv, TypeOK, flags, arrivals, disk
    <2>4. Kept' = (file \o b) \o todo'
      BY <1>1, <2>1 DEF Kept, disk
    <2>5. CaptureIsExact'
      BY <1>6, <2>1, <2>4 DEF CaptureIsExact, CopyChar, CaptureInv, arrivals, disk
    <2>6. RoomLeft'
      BY <1>5, <2>2 DEF RoomLeft, CopyChar
    <2> QED
      BY <1>7, <2>3, <2>5, <2>6 DEF CaptureInv
  <1> QED
    BY <1>8, <1>9

\* What a step that flushes the buffer and otherwise stays out of the download
\* keeps of the invariant: all of it.
LEMMA FlushingStep ==
  ASSUME CaptureInv, cpc \in {"terminal", "copy"}, Flush(buf), cpc' \in CapturePc,
         UNCHANGED <<todo, arrivals, aborts, top>>,
         open' \in BOOLEAN, capturing' \in BOOLEAN, startClosed' \in BOOLEAN,
         capturing' => open', CopyPhase'
  PROVE  CaptureInv'
  <1>1. buf \in Seq(Bytes) /\ file \in Seq(Bytes)
    BY DEF CaptureInv, TypeOK
  <1>2. buf' = <<>> /\ file' \in Seq(Bytes) /\ exists' = exists /\ failed' \in BOOLEAN
        /\ (~failed' => ~failed)
    BY <1>1, FlushFacts DEF CaptureInv
  <1>3. buf' \in Seq(Bytes) /\ Len(buf') = 0
    BY <1>2, EmptySeq
  <1>4. TypeOK'
    BY <1>2, <1>3 DEF CaptureInv, TypeOK, arrivals
  <1>5. RoomLeft' /\ NoFileNoText'
    BY <1>2, <1>3, CaptureAssumption DEF CaptureInv, RoomLeft, NoFileNoText
  <1>6. CaptureIsExact'
    <2> SUFFICES ASSUME aborts' = 0, ~failed' PROVE Kept' = logged'
      BY DEF CaptureIsExact
    <2>1. file' \o <<>> = file \o buf /\ file' \o todo = Kept /\ file' = file \o buf
      BY FlushIsExact
    <2>2. Kept' = file' \o todo
      BY <1>2, <2>1 DEF Kept
    <2> QED
      BY <1>2, <2>1, <2>2 DEF CaptureInv, CaptureIsExact, arrivals
  <1> QED
    BY <1>4, <1>5, <1>6 DEF CaptureInv

LEMMA CopyLineFeedStep ==
  ASSUME CaptureInv, CopyLineFeed
  PROVE  CaptureInv'
  <1>1. /\ cpc = "copy" /\ cpc' = "copy"
        /\ UNCHANGED <<open, capturing, startClosed, todo, arrivals, aborts, top>>
    BY DEF CopyLineFeed, flags
  <1>2. CopyPhase'
    BY <1>1 DEF CaptureInv, CopyPhase
  <1>3. CASE Len(buf) >= Cap
    <2>1. Flush(buf)
      BY <1>3 DEF CopyLineFeed, FlushIfFull
    <2>2. open' \in BOOLEAN /\ capturing' \in BOOLEAN /\ startClosed' \in BOOLEAN
          /\ (capturing' => open')
      BY <1>1 DEF CaptureInv, TypeOK
    <2>3. cpc' \in CapturePc
      BY <1>1 DEF CapturePc
    <2> QED
      BY <1>1, <1>2, <2>1, <2>2, <2>3, FlushingStep
  <1>4. CASE ~(Len(buf) >= Cap)
    <2>1. UNCHANGED captureVars
      BY <1>1, <1>4 DEF CopyLineFeed, FlushIfFull, captureVars, flags
    <2> QED
      BY <2>1 DEF CaptureInv, TypeOK, RoomLeft, NoFileNoText, CopyPhase, CaptureIsExact,
                  Kept, captureVars, flags, disk, arrivals
  <1> QED
    BY <1>3, <1>4

LEMMA CopyDoneStep ==
  ASSUME CaptureInv, CopyDone
  PROVE  CaptureInv'
  <1>1. /\ cpc = "copy" /\ cpc' = "terminal" /\ todo = <<>>
        /\ UNCHANGED <<flags, buf, todo, disk, arrivals, aborts, top>>
    BY DEF CopyDone
  <1>2. TypeOK'
    BY <1>1 DEF CaptureInv, TypeOK, CapturePc, flags, disk, arrivals
  <1>3. RoomLeft' /\ CopyPhase'
    BY <1>1 DEF CaptureInv, RoomLeft, CopyPhase
  <1>4. NoFileNoText'
    BY <1>1 DEF CaptureInv, CopyPhase, NoFileNoText, flags
  <1>5. CaptureIsExact'
    BY <1>1 DEF CaptureInv, CaptureIsExact, Kept, disk, arrivals
  <1> QED
    BY <1>2, <1>3, <1>4, <1>5 DEF CaptureInv

-----------------------------------------------------------------------------
(* The keys and the dialog.                                                *)

LEMMA ToggleStep ==
  ASSUME CaptureInv, Toggle
  PROVE  CaptureInv'
  <1>1. UNCHANGED <<cpc, open, startClosed, buf, todo, disk, arrivals, aborts, top>>
    BY DEF Toggle
  <1>2. capturing' \in BOOLEAN /\ (capturing' => open')
    <2>1. open \in BOOLEAN /\ open' = open
      BY <1>1 DEF CaptureInv, TypeOK
    <2>2. capturing' = FALSE \/ capturing' = open
      BY DEF Toggle
    <2>3. CASE capturing' = FALSE
      BY <2>3
    <2>4. CASE capturing' = open
      BY <2>1, <2>4, Zenon
    <2> QED
      BY <2>2, <2>3, <2>4
  <1>3. TypeOK'
    BY <1>1, <1>2 DEF CaptureInv, TypeOK, disk, arrivals
  <1> QED
    BY <1>1, <1>3 DEF CaptureInv, RoomLeft, NoFileNoText, CopyPhase, CaptureIsExact, Kept, disk, arrivals

LEMMA OpenDialogStep ==
  ASSUME CaptureInv, OpenDialog
  PROVE  CaptureInv'
  <1>1. /\ cpc = "terminal" /\ cpc' = "terminal" /\ ~open
        /\ UNCHANGED <<buf, todo, came, aborts, top>>
    BY DEF OpenDialog
  <1>2. todo = <<>> /\ (aborts = 0 => buf = <<>>)
    BY <1>1 DEF CaptureInv, CopyPhase, NoFileNoText
  <1>3. /\ open' \in BOOLEAN /\ capturing' \in BOOLEAN /\ startClosed' \in BOOLEAN
        /\ (capturing' => open') /\ exists' \in BOOLEAN /\ failed' = failed
    <2> USE Zenon DEF CaptureInv, TypeOK, disk
    <2>1. CASE OpenNew
      BY <2>1 DEF OpenNew, Opened
    <2>2. CASE OpenAppend
      BY <2>2 DEF OpenAppend, Opened
    <2>3. CASE OpenOverwrite
      BY <2>3 DEF OpenOverwrite, Opened
    <2>4. CASE OpenNot
      BY <2>4 DEF OpenNot
    <2> QED
      BY <2>1, <2>2, <2>3, <2>4 DEF OpenDialog
  <1>4. \/ UNCHANGED <<file, logged>>
        \/ file' = <<>> /\ logged' = <<>>
    BY DEF OpenDialog, OpenNew, OpenAppend, OpenOverwrite, OpenNot, disk
  <1>5. file' \in Seq(Bytes) /\ logged' \in Seq(Text)
    BY <1>4, EmptySeq DEF CaptureInv, TypeOK
  <1>6. TypeOK'
    BY <1>1, <1>3, <1>5 DEF CaptureInv, TypeOK
  <1>7. RoomLeft' /\ NoFileNoText' /\ CopyPhase'
    BY <1>1, <1>2 DEF CaptureInv, RoomLeft, NoFileNoText, CopyPhase
  <1>8. CaptureIsExact'
    <2> SUFFICES ASSUME aborts' = 0, ~failed' PROVE Kept' = logged'
      BY DEF CaptureIsExact
    <2>1. buf = <<>> /\ todo = <<>> /\ Kept = logged
      BY <1>1, <1>2, <1>3 DEF CaptureInv, CaptureIsExact
    <2>2. CASE UNCHANGED <<file, logged>>
      BY <1>1, <2>1, <2>2 DEF Kept
    <2>3. CASE file' = <<>> /\ logged' = <<>>
      <3>1. (<<>> \o <<>>) \o <<>> = <<>>
        BY ConcatEmptySeq, EmptySeq
      <3> QED
        BY <1>1, <2>1, <2>3, <3>1 DEF Kept
    <2> QED
      BY <1>4, <2>2, <2>3
  <1> QED
    BY <1>6, <1>7, <1>8 DEF CaptureInv

LEMMA CloseFileStep ==
  ASSUME CaptureInv, CloseFile
  PROVE  CaptureInv'
  <1>1. /\ cpc = "terminal" /\ cpc' = "terminal" /\ Flush(buf)
        /\ UNCHANGED <<todo, arrivals, aborts, top>>
    BY DEF CloseFile
  <1>2. CopyPhase' /\ cpc' \in CapturePc
    BY <1>1 DEF CaptureInv, CopyPhase, CapturePc
  <1>3. /\ open' \in BOOLEAN /\ capturing' \in BOOLEAN /\ startClosed' \in BOOLEAN
        /\ (capturing' => open')
    BY Zenon DEF CloseFile, CaptureInv, TypeOK
  <1> QED
    BY <1>1, <1>2, <1>3, FlushingStep

LEMMA LeaveStep ==
  ASSUME CaptureInv, Leave
  PROVE  CaptureInv'
  <1>1. /\ cpc = "terminal" /\ cpc' = "left"
        /\ UNCHANGED <<open, capturing, startClosed, todo, arrivals, aborts, top>>
    BY DEF Leave, flags
  <1>2. CopyPhase' /\ cpc' \in CapturePc
    BY <1>1 DEF CaptureInv, CopyPhase, CapturePc
  <1>3. /\ open' \in BOOLEAN /\ capturing' \in BOOLEAN /\ startClosed' \in BOOLEAN
        /\ (capturing' => open')
    BY <1>1 DEF CaptureInv, TypeOK
  <1>4. CASE open
    BY <1>1, <1>2, <1>3, <1>4, FlushingStep DEF Leave
  <1>5. CASE ~open
    <2>1. UNCHANGED <<buf, file, exists, failed>>
      BY <1>5 DEF Leave, disk
    <2>2. TypeOK'
      BY <1>1, <1>2, <1>3, <2>1 DEF CaptureInv, TypeOK, arrivals
    <2>3. RoomLeft' /\ NoFileNoText'
      BY <1>1, <2>1 DEF CaptureInv, RoomLeft, NoFileNoText
    <2>4. CaptureIsExact'
      BY <1>1, <2>1 DEF CaptureInv, CaptureIsExact, Kept, arrivals
    <2> QED
      BY <1>2, <2>2, <2>3, <2>4 DEF CaptureInv
  <1> QED
    BY <1>4, <1>5

-----------------------------------------------------------------------------
(* Transfers and calls.                                                    *)

LEMMA UploadStep ==
  ASSUME CaptureInv, Upload
  PROVE  CaptureInv'
  <1>1. /\ cpc = "terminal" /\ cpc' = "terminal" /\ Flush(buf)
        /\ UNCHANGED <<open, capturing, startClosed, todo, arrivals, aborts, top>>
    BY DEF Upload, flags
  <1>2. CopyPhase' /\ cpc' \in CapturePc
    BY <1>1 DEF CaptureInv, CopyPhase, CapturePc
  <1>3. /\ open' \in BOOLEAN /\ capturing' \in BOOLEAN /\ startClosed' \in BOOLEAN
        /\ (capturing' => open')
    BY <1>1 DEF CaptureInv, TypeOK
  <1> QED
    BY <1>1, <1>2, <1>3, FlushingStep

LEMMA DialStep ==
  ASSUME CaptureInv, Dial
  PROVE  CaptureInv'
  <1>1. /\ cpc = "terminal" /\ cpc' = "dialer" /\ Flush(buf)
        /\ UNCHANGED <<open, capturing, startClosed, todo, arrivals, aborts, top>>
    BY DEF Dial, flags
  <1>2. CopyPhase' /\ cpc' \in CapturePc
    BY <1>1 DEF CaptureInv, CopyPhase, CapturePc
  <1>3. /\ open' \in BOOLEAN /\ capturing' \in BOOLEAN /\ startClosed' \in BOOLEAN
        /\ (capturing' => open')
    BY <1>1 DEF CaptureInv, TypeOK
  <1> QED
    BY <1>1, <1>2, <1>3, FlushingStep

\* The captured text is in the file, the blocks that follow are not part of it.
LEMMA BeginDownloadStep ==
  ASSUME CaptureInv, BeginDownload
  PROVE  CaptureInv'
  <1>1. /\ cpc = "terminal" /\ cpc' = "download" /\ Flush(buf)
        /\ UNCHANGED <<open, capturing, startClosed, todo, arrivals, aborts, top>>
    BY DEF BeginDownload, flags
  <1>2. CopyPhase' /\ cpc' \in CapturePc
    BY <1>1 DEF CaptureInv, CopyPhase, CapturePc
  <1>3. /\ open' \in BOOLEAN /\ capturing' \in BOOLEAN /\ startClosed' \in BOOLEAN
        /\ (capturing' => open')
    BY <1>1 DEF CaptureInv, TypeOK
  <1> QED
    BY <1>1, <1>2, <1>3, FlushingStep

LEMMA BlockBytesFacts ==
  BlockBytes \in Seq(Bytes) /\ Len(BlockBytes) = Block
  <1>1. BlockBytes \in [1..Block -> Bytes] /\ Block \in Nat
    BY CaptureAssumption DEF BlockBytes, Bytes
  <1> QED
    BY <1>1, SeqDef, LenProperties DEF BlockBytes

LEMMA StoreBlockStep ==
  ASSUME CaptureInv, StoreBlock
  PROVE  CaptureInv'
  <1>1. /\ cpc = "download" /\ cpc' = "download"
        /\ UNCHANGED <<flags, todo, disk, arrivals, aborts>>
        /\ buf \in Seq(Bytes) /\ Len(buf) \in Nat
    BY LenProperties DEF StoreBlock, CaptureInv, TypeOK
  <1>2. buf' \in Seq(Bytes) /\ Len(buf') \in Nat /\ Len(buf') <= Cap
    <2>1. CASE Cap - Block >= Len(buf)
      <3>1. buf' = buf \o BlockBytes
        BY <2>1 DEF StoreBlock
      <3>2. buf' \in Seq(Bytes) /\ Len(buf') = Len(buf) + Block
        BY <1>1, <3>1, BlockBytesFacts, ConcatProperties
      <3> QED
        BY <1>1, <2>1, <3>2, CaptureAssumption
    <2>2. CASE ~(Cap - Block >= Len(buf))
      <3>1. buf' = BlockBytes
        BY <2>2 DEF StoreBlock
      <3> QED
        BY <3>1, BlockBytesFacts, CaptureAssumption
    <2> QED
      BY <2>1, <2>2
  <1>3. top' \in 0..(Cap + 1) /\ (aborts = 0 => top' <= Cap)
    BY <1>2, CaptureAssumption DEF StoreBlock, CaptureInv, TypeOK, RoomLeft
  <1>4. TypeOK'
    BY <1>1, <1>2, <1>3 DEF CaptureInv, TypeOK, flags, disk, arrivals
  <1>5. RoomLeft'
    BY <1>1, <1>2, <1>3 DEF RoomLeft
  <1>6. NoFileNoText' /\ CopyPhase'
    BY <1>1 DEF CaptureInv, NoFileNoText, CopyPhase
  <1>7. CaptureIsExact'
    BY <1>1 DEF CaptureInv, CaptureIsExact, Kept, disk, arrivals
  <1> QED
    BY <1>4, <1>5, <1>6, <1>7 DEF CaptureInv

LEMMA EndDownloadStep ==
  ASSUME CaptureInv, EndDownload
  PROVE  CaptureInv'
  <1>1. /\ cpc = "download" /\ cpc' = "terminal" /\ buf' = <<>>
        /\ UNCHANGED <<flags, todo, disk, arrivals, aborts, top>>
    BY DEF EndDownload
  <1>2. buf' \in Seq(Bytes) /\ Len(buf') = 0
    BY <1>1, EmptySeq
  <1>3. TypeOK'
    BY <1>1, <1>2 DEF CaptureInv, TypeOK, CapturePc, flags, disk, arrivals
  <1>4. RoomLeft' /\ NoFileNoText' /\ CopyPhase'
    BY <1>1, <1>2, CaptureAssumption DEF CaptureInv, RoomLeft, NoFileNoText, CopyPhase
  <1>5. CaptureIsExact'
    BY <1>1 DEF CaptureInv, CaptureIsExact, Kept, disk, arrivals
  <1> QED
    BY <1>3, <1>4, <1>5 DEF CaptureInv

LEMMA AbortDownloadStep ==
  ASSUME CaptureInv, AbortDownload
  PROVE  CaptureInv'
  <1>1. /\ cpc = "download" /\ cpc' = "terminal"
        /\ aborts < MaxAborts /\ aborts' = aborts + 1
        /\ UNCHANGED <<flags, buf, todo, disk, arrivals, top>>
    BY DEF AbortDownload
  <1>2. aborts' \in 0..MaxAborts /\ aborts' # 0
    BY <1>1, CaptureAssumption DEF CaptureInv, TypeOK
  <1>3. TypeOK'
    BY <1>1, <1>2 DEF CaptureInv, TypeOK, CapturePc, flags, disk, arrivals
  <1>4. RoomLeft' /\ NoFileNoText' /\ CopyPhase' /\ CaptureIsExact'
    BY <1>1, <1>2 DEF CaptureInv, RoomLeft, NoFileNoText, CopyPhase, CaptureIsExact
  <1> QED
    BY <1>3, <1>4 DEF CaptureInv

LEMMA StutteringStep ==
  ASSUME CaptureInv, UNCHANGED captureVars
  PROVE  CaptureInv'
  BY DEF CaptureInv, TypeOK, RoomLeft, NoFileNoText, CopyPhase, CaptureIsExact, Kept,
         captureVars, flags, disk, arrivals

-----------------------------------------------------------------------------
\* The invariant of the capture buffer holds whatever the order of keys, text
\* and transfers.
THEOREM CaptureInvariant == CaptureSpec => []CaptureInv
  <1>1. CaptureInv /\ [CaptureNext]_captureVars => CaptureInv'
    <2> SUFFICES ASSUME CaptureInv, [CaptureNext]_captureVars PROVE CaptureInv'
      OBVIOUS
    <2>1. CASE \E n \in 1..MaxText : Receive(n)
      <3>1. PICK n \in 1..MaxText : Receive(n)
        BY <2>1
      <3>2. n \in 0..MaxText
        BY CaptureAssumption
      <3> QED
        BY <3>1, <3>2, ShowStep DEF Receive
    <2>2. CASE CopyChar
      BY <2>2, CopyCharStep
    <2>3. CASE CopyLineFeed
      BY <2>3, CopyLineFeedStep
    <2>4. CASE CopyDone
      BY <2>4, CopyDoneStep
    <2>5. CASE Toggle
      BY <2>5, ToggleStep
    <2>6. CASE OpenDialog
      BY <2>6, OpenDialogStep
    <2>7. CASE CloseFile
      BY <2>7, CloseFileStep
    <2>8. CASE BeginDownload
      BY <2>8, BeginDownloadStep
    <2>9. CASE Upload
      BY <2>9, UploadStep
    <2>15. CASE Dial
      BY <2>15, DialStep
    <2>16. CASE \E n \in 0..MaxText : LeaveDialer(n)
      BY <2>16, ShowStep DEF LeaveDialer
    <2>10. CASE StoreBlock
      BY <2>10, StoreBlockStep
    <2>11. CASE EndDownload
      BY <2>11, EndDownloadStep
    <2>12. CASE AbortDownload
      BY <2>12, AbortDownloadStep
    <2>13. CASE Leave
      BY <2>13, LeaveStep
    <2>14. CASE UNCHANGED captureVars
      BY <2>14, StutteringStep
    <2> QED
      BY <2>1, <2>2, <2>3, <2>4, <2>5, <2>6, <2>7, <2>8, <2>9, <2>10, <2>11, <2>12,
         <2>13, <2>14, <2>15, <2>16 DEF CaptureNext
  <1> QED
    BY <1>1, InitHolds, PTL DEF CaptureSpec

\* Without an aborted download or a failed write the capture file and the
\* buffer together are the captured text, to the letter.
THEOREM CaptureExact == CaptureSpec => []CaptureIsExact
  <1>1. CaptureInv => CaptureIsExact
    BY DEF CaptureInv
  <1> QED
    BY <1>1, CaptureInvariant, PTL

\* No store into the buffer goes further than the byte ParamStr points to,
\* and none that far unless a download was aborted.
THEOREM CaptureBounded == CaptureSpec => []BufferBounded
  <1>1. CaptureInv => BufferBounded
    BY CaptureAssumption DEF CaptureInv, TypeOK, RoomLeft, BufferBounded
  <1> QED
    BY <1>1, CaptureInvariant, PTL
-----------------------------------------------------------------------------
(* The text in a sequence of bytes.                                        *)

\* Text that is in order, and before all text of t, is in order with t behind.
LEMMA TextOfConcat ==
  ASSUME NEW s \in Seq(Bytes), NEW t \in Seq(Bytes)
  PROVE  /\ s \o t \in Seq(Bytes)
         /\ TextIn(s \o t) = TextIn(s) \cup TextIn(t)
         /\ InOrder(s) /\ InOrder(t) /\ Before(s, t) => InOrder(s \o t)
  <1> DEFINE u == s \o t
             m == Len(s)
             n == Len(t)
  <1>1. /\ m \in Nat /\ n \in Nat /\ u \in Seq(Bytes) /\ Len(u) = m + n
        /\ \A i \in 1..(m + n) : u[i] = IF i <= m THEN s[i] ELSE t[i - m]
    BY LenProperties, ConcatProperties
  <1>a. \A i \in 1..m : i \in 1..(m + n) /\ u[i] = s[i]
    <2> HIDE DEF u, m, n
    <2> QED
      BY <1>1
  <1>b. \A i \in 1..n : i + m \in 1..(m + n) /\ u[i + m] = t[i]
    <2> HIDE DEF u, m, n
    <2> TAKE i \in 1..n
    <2>1. i + m \in 1..(m + n) /\ ~(i + m <= m) /\ (i + m) - m = i
      BY <1>1
    <2> QED
      BY <1>1, <2>1
  <1>c. \A i \in 1..(m + n) : i \in 1..m \/ (i - m \in 1..n /\ (i - m) + m = i)
    <2> HIDE DEF u, m, n
    <2> QED
      BY <1>1
  <1>2. TextIn(u) = TextIn(s) \cup TextIn(t)
    <2>1. ASSUME NEW x \in TextIn(u) PROVE x \in TextIn(s) \cup TextIn(t)
      <3>1. PICK i \in 1..(m + n) : x = u[i]
        BY <1>1 DEF TextIn
      <3>2. CASE i \in 1..m
        BY <1>a, <3>1, <3>2 DEF TextIn
      <3>3. CASE i - m \in 1..n /\ (i - m) + m = i
        BY <1>b, <3>1, <3>3 DEF TextIn
      <3> QED
        BY <1>c, <3>2, <3>3
    <2>2. ASSUME NEW x \in TextIn(s) PROVE x \in TextIn(u)
      BY <1>1, <1>a DEF TextIn
    <2>3. ASSUME NEW x \in TextIn(t) PROVE x \in TextIn(u)
      BY <1>1, <1>b DEF TextIn
    <2> QED
      BY <2>1, <2>2, <2>3
  <1>3. ASSUME InOrder(s), InOrder(t), Before(s, t)
        PROVE  InOrder(u)
    <2> SUFFICES ASSUME NEW i \in 1..(m + n), NEW j \in 1..(m + n),
                        i < j, u[i] # Foreign, u[j] # Foreign
                 PROVE  u[i] < u[j]
      BY <1>1 DEF InOrder
    <2>1. CASE i \in 1..m /\ j \in 1..m
      BY <1>a, <1>3, <2>1 DEF InOrder
    <2>2. CASE i \in 1..m /\ j - m \in 1..n /\ (j - m) + m = j
      <3>1. u[i] \in TextIn(s) /\ u[j] \in TextIn(t)
        BY <1>a, <1>b, <2>2 DEF TextIn
      <3> QED
        BY <1>3, <3>1 DEF Before
    <2>3. CASE i - m \in 1..n /\ j - m \in 1..n /\ (i - m) + m = i /\ (j - m) + m = j
      <3>1. u[i] = t[i - m] /\ u[j] = t[j - m]
        BY <1>b, <2>3
      <3>2. i - m < j - m
        <4> HIDE DEF m, n, u
        <4> QED
          BY <1>1
      <3> HIDE DEF m, n, u
      <3> QED
        BY <1>3, <2>3, <3>1, <3>2 DEF InOrder, n
    <2>4. CASE i - m \in 1..n /\ j \in 1..m
      <3> HIDE DEF m, n, u
      <3> QED
        BY <1>1, <2>4
    <2> QED
      BY <1>c, <2>1, <2>2, <2>3, <2>4
  <1> QED
    BY <1>1, <1>2, <1>3

\* A beginning of a sequence has some of its text, in the same order.
LEMMA TextOfPrefix ==
  ASSUME NEW s \in Seq(Bytes), NEW k \in 0..Len(s)
  PROVE  /\ SubSeq(s, 1, k) \in Seq(Bytes)
         /\ TextIn(SubSeq(s, 1, k)) \subseteq TextIn(s)
         /\ InOrder(s) => InOrder(SubSeq(s, 1, k))
  <1> DEFINE p == SubSeq(s, 1, k)
  <1>1. Len(s) \in Nat /\ k \in Nat /\ \A i \in 1..k : i \in 1..Len(s) /\ s[i] \in Bytes
    BY ElementOfSeq, LenProperties
  <1>2. p \in Seq(Bytes) /\ Len(p) = k /\ \A i \in 1..k : p[i] = s[i]
    <2>1. p \in Seq(Bytes)
      BY <1>1, SubSeqProperties
    <2>2. Len(p) = k /\ \A i \in 1..k : p[i] = s[(1 + i) - 1]
      BY <1>1, SubSeqProperties
    <2>3. \A i \in 1..k : (1 + i) - 1 = i
      BY <1>1
    <2> QED
      BY <2>1, <2>2, <2>3
  <1> HIDE DEF p
  <1>3. TextIn(p) \subseteq TextIn(s)
    BY <1>1, <1>2 DEF TextIn
  <1>4. InOrder(s) => InOrder(p)
    BY <1>1, <1>2 DEF InOrder
  <1> QED
    BY <1>2, <1>3, <1>4 DEF p

\* Nothing, and a single character.
LEMMA TextOfNone ==
  TextIn(<<>>) = {} /\ InOrder(<<>>)
  BY DEF TextIn, InOrder

LEMMA TextOfOne ==
  ASSUME NEW c \in Text
  PROVE  /\ <<c>> \in Seq(Bytes) /\ TextIn(<<c>>) = {c} /\ InOrder(<<c>>)
  <1>1. c \in Nat /\ c # Foreign /\ c \in Bytes
    BY CaptureAssumption DEF Text, Foreign, Bytes
  <1>2. Len(<<c>>) = 1 /\ <<c>>[1] = c /\ <<c>> \in Seq(Bytes)
    BY <1>1
  <1>3. \A i \in 1..1 : i = 1
    OBVIOUS
  <1>4. TextIn(<<c>>) = {c}
    BY <1>1, <1>2, <1>3 DEF TextIn
  <1>5. InOrder(<<c>>)
    BY <1>2, <1>3 DEF InOrder
  <1> QED
    BY <1>2, <1>4, <1>5

\* The first element of a text and the rest of it.
LEMMA TextOfHead ==
  ASSUME NEW s \in Seq(Text), s # <<>>
  PROVE  /\ Head(s) \in Text /\ Tail(s) \in Seq(Text)
         /\ TextIn(s) = {Head(s)} \cup TextIn(Tail(s))
         /\ InOrder(s) => InOrder(Tail(s)) /\ \A x \in TextIn(Tail(s)) : Head(s) < x
  <1> DEFINE r == Tail(s)
             n == Len(r)
  <1>1. /\ Head(s) = s[1] /\ Head(s) \in Text /\ r \in Seq(Text)
        /\ n \in Nat /\ Len(s) = n + 1
        /\ \A i \in 1..n : r[i] = s[i + 1]
    BY HeadTailProperties, EmptySeq, LenProperties
  <1>2. \A i \in 1..Len(s) : s[i] \in Text /\ s[i] # Foreign
    BY ElementOfSeq, CaptureAssumption DEF Text, Foreign
  <1> HIDE DEF n, r
  <1>3. \A i \in 1..n : i + 1 \in 1..(n + 1) /\ 1 < i + 1
    BY <1>1
  <1>4. \A i \in 1..(n + 1) : i = 1 \/ (i - 1 \in 1..n /\ (i - 1) + 1 = i)
    BY <1>1
  <1>5. 1 \in 1..(n + 1)
    BY <1>1
  <1>6. TextIn(s) = {Head(s)} \cup TextIn(r)
    <2>1. ASSUME NEW x \in TextIn(s) PROVE x \in {Head(s)} \cup TextIn(r)
      <3>1. PICK i \in 1..(n + 1) : x = s[i] /\ x # Foreign
        BY <1>1, <2>1 DEF TextIn
      <3>2. CASE i = 1
        BY <1>1, <3>1, <3>2
      <3>3. CASE i - 1 \in 1..n /\ (i - 1) + 1 = i
        <4>1. r[i - 1] = x
          BY <1>1, <3>1, <3>3
        <4> QED
          BY <3>1, <3>3, <4>1 DEF TextIn, n
      <3> QED
        BY <1>4, <3>2, <3>3
    <2>2. ASSUME NEW x \in TextIn(r) PROVE x \in TextIn(s)
      BY <1>1, <1>3, <2>2 DEF TextIn, n
    <2>3. Head(s) \in TextIn(s)
      BY <1>1, <1>2, <1>5 DEF TextIn
    <2> QED
      BY <2>1, <2>2, <2>3
  <1>7. ASSUME InOrder(s) PROVE InOrder(r)
    <2> SUFFICES ASSUME NEW i \in 1..n, NEW j \in 1..n, i < j PROVE r[i] < r[j]
      BY DEF InOrder, n
    <2>1. i + 1 < j + 1
      BY <1>1
    <2> QED
      BY <1>1, <1>2, <1>3, <1>7, <2>1 DEF InOrder
  <1>8. ASSUME InOrder(s), NEW x \in TextIn(r) PROVE Head(s) < x
    <2>1. PICK i \in 1..n : x = s[i + 1]
      BY <1>1, <1>8 DEF TextIn, n
    <2>2. 1 < i + 1 /\ i + 1 \in 1..Len(s)
      BY <1>1, <1>3
    <2> QED
      BY <1>1, <1>2, <1>5, <1>8, <2>1, <2>2 DEF InOrder
  <1> QED
    BY <1>1, <1>6, <1>7, <1>8 DEF r

-----------------------------------------------------------------------------
\* What a flush does to the text: it is in the file then, in order, or a write
\* has failed and the beginning of it is.
LEMMA FlushText ==
  ASSUME TypeOK, NEW b \in Seq(Bytes), Flush(b),
         InOrder(file), InOrder(b), Before(file, b), ~open => TextIn(b) = {}
  PROVE  /\ file' \in Seq(Bytes) /\ InOrder(file')
         /\ TextIn(file') \subseteq TextIn(file) \cup TextIn(b)
         /\ ~failed' => ~failed /\ TextIn(file') = TextIn(file) \cup TextIn(b)
         /\ buf' = <<>> /\ TextIn(buf') = {} /\ InOrder(buf')
  <1>1. file \in Seq(Bytes)
    BY DEF TypeOK
  <1>2. buf' = <<>> /\ file' \in Seq(Bytes) /\ (~failed' => ~failed)
    BY FlushFacts
  <1>3. CASE ~open /\ UNCHANGED <<file, failed>>
    BY <1>2, <1>3, TextOfNone
  <1>4. CASE open /\ file' = file \o b /\ UNCHANGED failed
    BY <1>1, <1>2, <1>4, TextOfConcat, TextOfNone
  <1>5. CASE failed' = TRUE /\ \E k \in 0..Len(b) : file' = file \o SubSeq(b, 1, k)
    <2>1. PICK k \in 0..Len(b) : file' = file \o SubSeq(b, 1, k)
      BY <1>5
    <2> DEFINE p == SubSeq(b, 1, k)
    <2>2. p \in Seq(Bytes) /\ TextIn(p) \subseteq TextIn(b) /\ InOrder(p)
      BY TextOfPrefix
    <2> HIDE DEF p
    <2>3. Before(file, p)
      BY <2>2 DEF Before
    <2>4. TextIn(file \o p) = TextIn(file) \cup TextIn(p) /\ InOrder(file \o p)
      BY <1>1, <2>2, <2>3, TextOfConcat
    <2>5. file' = file \o p
      BY <2>1 DEF p
    <2> QED
      BY <1>2, <1>5, <2>2, <2>4, <2>5, TextOfNone
  <1> QED
    BY <1>3, <1>4, <1>5 DEF Flush

LEMMA FlushingKeepsText ==
  ASSUME TypeOK, TextInv, Flush(buf), UNCHANGED <<todo, arrivals>>
  PROVE  TextInv'
  <1>1. buf \in Seq(Bytes) /\ came' = came /\ logged' = logged /\ todo' = todo
    BY DEF TypeOK, arrivals
  <1>2. /\ InOrder(file) /\ InOrder(buf) /\ InOrder(todo)
        /\ Before(file, buf) /\ Before(file, todo) /\ Before(buf, todo)
        /\ TextIn(file) \cup TextIn(buf) \cup TextIn(todo) \subseteq 1..came
        /\ ~failed => TextIn(file) \cup TextIn(buf) \cup TextIn(todo) = TextIn(logged)
        /\ ~open => TextIn(buf) = {}
    BY DEF TextInv, TextInOrder, TextIsThere, NoTextAtRisk
  <1>3. /\ InOrder(file')
        /\ TextIn(file') \subseteq TextIn(file) \cup TextIn(buf)
        /\ ~failed' => ~failed /\ TextIn(file') = TextIn(file) \cup TextIn(buf)
        /\ TextIn(buf') = {} /\ InOrder(buf')
    BY <1>1, <1>2, FlushText
  <1>4. TextInOrder'
    BY <1>1, <1>2, <1>3 DEF TextInOrder, Before
  <1>5. TextIsThere'
    BY <1>1, <1>2, <1>3 DEF TextIsThere
  <1>6. NoTextAtRisk'
    BY <1>3 DEF NoTextAtRisk
  <1> QED
    BY <1>4, <1>5, <1>6 DEF TextInv

\* The steps that leave file, buffer and captured text alone, except that the
\* buffer may have no text before and after.
LEMMA QuietKeepsText ==
  ASSUME TextInv, UNCHANGED <<file, todo, came, logged>>, failed' = failed,
         \/ buf' = buf
         \/ TextIn(buf) = {} /\ TextIn(buf') = {} /\ InOrder(buf'),
         NoTextAtRisk'
  PROVE  TextInv'
  <1>1. TextIn(buf') = TextIn(buf) /\ InOrder(buf')
    BY DEF TextInv, TextInOrder
  <1>2. TextInOrder'
    BY <1>1 DEF TextInv, TextInOrder, Before
  <1>3. TextIsThere'
    BY <1>1 DEF TextInv, TextIsThere
  <1> QED
    BY <1>2, <1>3 DEF TextInv

LEMMA InitText == CaptureInit => TextInv
  <1> SUFFICES ASSUME CaptureInit PROVE TextInv
    OBVIOUS
  <1>1. file = <<>> /\ buf = <<>> /\ todo = <<>> /\ logged = <<>>
    BY DEF CaptureInit
  <1> QED
    BY <1>1, TextOfNone DEF TextInv, TextInOrder, TextIsThere, NoTextAtRisk, Before

\* What is shown has arrived after everything that is kept.
LEMMA ShowText ==
  ASSUME CaptureInv, TextInv, NEW n \in 0..MaxText, cpc \in {"terminal", "dialer"}, Show(n)
  PROVE  TextInv'
  <1>1. n \in Nat /\ came \in Nat /\ came' = came + n /\ todo = <<>>
    BY CaptureAssumption DEF Show, CaptureInv, CopyPhase, TypeOK
  <1>2. TextIn(todo) = {} /\ InOrder(todo)
    BY <1>1, TextOfNone
  <1>3. /\ InOrder(file) /\ InOrder(buf) /\ Before(file, buf)
        /\ \A x \in TextIn(file) \cup TextIn(buf) : x \in Nat /\ 1 <= x /\ x <= came
        /\ ~failed => TextIn(file) \cup TextIn(buf) = TextIn(logged)
    BY <1>1, <1>2 DEF TextInv, TextInOrder, TextIsThere
  <1>4. CASE ~(open /\ capturing)
    <2>1. /\ cpc' = "terminal"
          /\ UNCHANGED <<open, file, failed, buf, todo, logged>>
      BY <1>4 DEF Show, flags, disk
    <2>2. TextIn(file) \cup TextIn(buf) \subseteq 1..came'
      BY <1>1, <1>3
    <2>3. TextInOrder'
      BY <1>2, <1>3, <2>1, <2>2 DEF TextInOrder, Before
    <2>4. TextIsThere' /\ NoTextAtRisk'
      BY <2>1 DEF TextInv, TextIsThere, NoTextAtRisk
    <2> QED
      BY <2>3, <2>4 DEF TextInv
  <1>5. CASE open /\ capturing
    <2> DEFINE more == [i \in 1..n |-> came + i]
    <2>1. /\ cpc' = "copy" /\ todo' = more /\ logged' = logged \o more
          /\ UNCHANGED <<open, file, failed, buf>>
      BY <1>5 DEF Show, flags, disk
    <2>2. Len(more) = n /\ \A i \in 1..n : more[i] = came + i
      BY <1>1, LenProperties
    <2>3. more \in Seq(Bytes)
      <3>1. \A i \in 1..n : came + i \in Bytes
        BY <1>1, CaptureAssumption DEF Show, Bytes, Text
      <3> QED
        BY <1>1, <3>1, SeqDef
    <2> HIDE DEF more
    <2>4. TextIn(more) \subseteq (came + 1)..(came + n) /\ InOrder(more)
      <3>1. \A i \in 1..n : came + i \in (came + 1)..(came + n)
        BY <1>1
      <3>2. \A i, j \in 1..n : i < j => came + i < came + j
        BY <1>1
      <3>3. TextIn(more) \subseteq (came + 1)..(came + n)
        BY <2>2, <3>1 DEF TextIn
      <3>4. InOrder(more)
        BY <2>2, <3>2 DEF InOrder
      <3> QED
        BY <3>3, <3>4
    <2>5. Before(file, more) /\ Before(buf, more)
      <3>1. \A x \in TextIn(more) : x \in Int /\ came + 1 <= x
        BY <1>1, <2>4
      <3> QED
        BY <1>1, <1>3, <3>1 DEF Before
    <2>6. TextIn(file) \cup TextIn(buf) \cup TextIn(more) \subseteq 1..came'
      <3>1. TextIn(more) \subseteq 1..came'
        BY <1>1, <2>4
      <3>2. TextIn(file) \cup TextIn(buf) \subseteq 1..came'
        BY <1>1, <1>3
      <3> QED
        BY <3>1, <3>2
    <2>7. TextIn(logged') = TextIn(logged) \cup TextIn(more)
      BY <2>1, <2>3, TextIsBytes, TextOfConcat DEF CaptureInv, TypeOK
    <2>8. TextInOrder'
      BY <1>3, <2>1, <2>4, <2>5, <2>6 DEF TextInOrder
    <2>9. TextIsThere'
      BY <1>3, <2>1, <2>7 DEF TextIsThere
    <2>10. NoTextAtRisk'
      BY <1>5, <2>1 DEF NoTextAtRisk
    <2> QED
      BY <2>8, <2>9, <2>10 DEF TextInv
  <1> QED
    BY <1>4, <1>5

\* A character moves from what is to be copied to the end of the buffer, and
\* with the buffer to the file when that was the last free byte.
LEMMA CopyCharText ==
  ASSUME CaptureInv, TextInv, CopyChar
  PROVE  TextInv'
  <1> DEFINE h == Head(todo)
             r == Tail(todo)
             b == Append(buf, h)
  <1>1. /\ cpc = "copy" /\ open /\ todo # <<>> /\ todo' = r
        /\ cpc' = "copy" /\ open' = open /\ came' = came /\ logged' = logged
        /\ todo \in Seq(Text) /\ buf \in Seq(Bytes) /\ FlushIfFull(b)
    BY DEF CaptureInv, TypeOK, CopyPhase, CopyChar, flags, arrivals
  <1>2. /\ InOrder(file) /\ InOrder(buf) /\ InOrder(todo)
        /\ Before(file, buf) /\ Before(file, todo) /\ Before(buf, todo)
        /\ TextIn(file) \cup TextIn(buf) \cup TextIn(todo) \subseteq 1..came
        /\ ~failed => TextIn(file) \cup TextIn(buf) \cup TextIn(todo) = TextIn(logged)
    BY DEF TextInv, TextInOrder, TextIsThere
  <1>3. /\ h \in Text /\ TextIn(todo) = {h} \cup TextIn(r) /\ InOrder(r)
        /\ \A x \in TextIn(r) : h < x
    BY <1>1, <1>2, TextOfHead
  <1>4. b \in Seq(Bytes) /\ TextIn(b) = TextIn(buf) \cup {h} /\ InOrder(b)
    <2>1. h \in Bytes /\ b = buf \o <<h>>
      BY <1>1, <1>3, AppendIsConcat DEF Bytes
    <2>2. <<h>> \in Seq(Bytes) /\ TextIn(<<h>>) = {h} /\ InOrder(<<h>>)
      BY <1>3, TextOfOne
    <2> HIDE DEF h, b
    <2>3. Before(buf, <<h>>)
      BY <1>2, <1>3, <2>2 DEF Before
    <2> QED
      BY <1>1, <1>2, <2>1, <2>2, <2>3, TextOfConcat
  <1> HIDE DEF h, r, b
  <1>5. Before(file, b) /\ Before(file, r) /\ Before(b, r)
    BY <1>2, <1>3, <1>4 DEF Before
  <1>6. NoTextAtRisk'
    BY <1>1 DEF NoTextAtRisk
  <1>7. CASE Len(b) >= Cap
    <2>1. Flush(b) /\ TypeOK
      BY <1>1, <1>7 DEF FlushIfFull, CaptureInv
    <2>2. /\ InOrder(file')
          /\ TextIn(file') \subseteq TextIn(file) \cup TextIn(b)
          /\ ~failed' => ~failed /\ TextIn(file') = TextIn(file) \cup TextIn(b)
          /\ TextIn(buf') = {} /\ InOrder(buf')
      BY <1>1, <1>2, <1>4, <1>5, <2>1, FlushText
    <2>3. TextInOrder'
      BY <1>1, <1>2, <1>3, <1>4, <1>5, <2>2 DEF TextInOrder, Before
    <2>4. TextIsThere'
      BY <1>1, <1>2, <1>3, <1>4, <2>2 DEF TextIsThere
    <2> QED
      BY <1>6, <2>3, <2>4 DEF TextInv
  <1>8. CASE ~(Len(b) >= Cap)
    <2>1. buf' = b /\ file' = file /\ failed' = failed
      BY <1>1, <1>8 DEF FlushIfFull, disk
    <2>2. TextInOrder'
      BY <1>1, <1>2, <1>3, <1>4, <1>5, <2>1 DEF TextInOrder
    <2>3. TextIsThere'
      BY <1>1, <1>2, <1>3, <1>4, <2>1 DEF TextIsThere
    <2> QED
      BY <1>6, <2>2, <2>3 DEF TextInv
  <1> QED
    BY <1>7, <1>8

LEMMA OpenDialogText ==
  ASSUME CaptureInv, TextInv, OpenDialog
  PROVE  TextInv'
  <1>1. /\ cpc = "terminal" /\ cpc' = "terminal" /\ ~open
        /\ UNCHANGED <<buf, todo, came>> /\ failed' = failed
        /\ \/ UNCHANGED <<file, logged>>
           \/ file' = <<>> /\ logged' = <<>>
    BY DEF OpenDialog, OpenNew, OpenAppend, OpenOverwrite, OpenNot, disk
  <1>2. TextIn(buf) = {} /\ todo = <<>>
    BY <1>1 DEF CaptureInv, CopyPhase, TextInv, NoTextAtRisk
  <1>3. NoTextAtRisk'
    BY <1>1, <1>2 DEF NoTextAtRisk
  <1>4. CASE UNCHANGED <<file, logged>>
    BY <1>1, <1>3, <1>4, QuietKeepsText
  <1>5. CASE file' = <<>> /\ logged' = <<>>
    <2>1. TextInOrder'
      BY <1>1, <1>2, <1>5, TextOfNone DEF TextInv, TextInOrder, Before
    <2>2. TextIsThere'
      BY <1>1, <1>2, <1>5, TextOfNone DEF TextIsThere
    <2> QED
      BY <1>3, <2>1, <2>2 DEF TextInv
  <1> QED
    BY <1>1, <1>4, <1>5

LEMMA StoreBlockText ==
  ASSUME CaptureInv, TextInv, StoreBlock
  PROVE  TextInv'
  <1>1. /\ cpc = "download" /\ cpc' = "download"
        /\ UNCHANGED <<open, file, failed, todo, came, logged>>
        /\ buf \in Seq(Bytes) /\ BlockBytes \in Seq(Bytes)
    BY BlockBytesFacts DEF StoreBlock, flags, disk, arrivals, CaptureInv, TypeOK
  <1>2. TextIn(BlockBytes) = {} /\ InOrder(BlockBytes)
    <2>1. \A i \in 1..Len(BlockBytes) : BlockBytes[i] = Foreign
      BY BlockBytesFacts DEF BlockBytes
    <2> QED
      BY <2>1 DEF TextIn, InOrder
  <1>3. TextIn(buf) = {} /\ InOrder(buf)
    BY <1>1 DEF TextInv, TextInOrder, NoTextAtRisk
  <1>4. TextIn(buf') = {} /\ InOrder(buf')
    <2>1. Before(buf, BlockBytes)
      BY <1>3 DEF Before
    <2>2. TextIn(buf \o BlockBytes) = {} /\ InOrder(buf \o BlockBytes)
      BY <1>1, <1>2, <1>3, <2>1, TextOfConcat
    <2> QED
      BY <1>2, <2>2 DEF StoreBlock
  <1>5. NoTextAtRisk'
    BY <1>4 DEF NoTextAtRisk
  <1> QED
    BY <1>1, <1>3, <1>4, <1>5, QuietKeepsText

LEMMA EndDownloadText ==
  ASSUME CaptureInv, TextInv, EndDownload
  PROVE  TextInv'
  <1>1. /\ cpc = "download" /\ buf' = <<>>
        /\ UNCHANGED <<file, failed, todo, came, logged>>
    BY DEF EndDownload, disk, arrivals
  <1>2. TextIn(buf) = {} /\ TextIn(buf') = {} /\ InOrder(buf')
    BY <1>1, TextOfNone DEF TextInv, NoTextAtRisk
  <1>3. NoTextAtRisk'
    BY <1>2 DEF NoTextAtRisk
  <1> QED
    BY <1>1, <1>2, <1>3, QuietKeepsText

\* What an aborted download leaves in the buffer is no text.
LEMMA AbortDownloadText ==
  ASSUME CaptureInv, TextInv, AbortDownload
  PROVE  TextInv'
  <1>1. /\ cpc = "download"
        /\ UNCHANGED <<file, failed, buf, todo, came, logged>>
    BY DEF AbortDownload, disk, arrivals
  <1>2. NoTextAtRisk'
    BY <1>1 DEF TextInv, NoTextAtRisk
  <1> QED
    BY <1>1, <1>2, QuietKeepsText

LEMMA LeaveText ==
  ASSUME CaptureInv, TextInv, Leave
  PROVE  TextInv'
  <1>1. CASE open
    BY <1>1, FlushingKeepsText DEF Leave, CaptureInv
  <1>2. CASE ~open
    <2>1. UNCHANGED <<file, failed, buf, todo, came, logged>>
      BY <1>2 DEF Leave, disk, arrivals
    <2>2. NoTextAtRisk'
      BY <1>2, <2>1 DEF TextInv, NoTextAtRisk
    <2> QED
      BY <2>1, <2>2, QuietKeepsText
  <1> QED
    BY <1>1, <1>2

\* The other steps of the terminal loop flush the buffer, or touch nothing of
\* it while there is a file or nothing of text in it.
LEMMA LoopText ==
  ASSUME CaptureInv, TextInv,
         CopyLineFeed \/ CopyDone \/ Toggle \/ UNCHANGED captureVars
  PROVE  TextInv'
  <1>1. CASE CopyLineFeed
    <2>1. CASE Len(buf) >= Cap
      BY <1>1, <2>1, FlushingKeepsText DEF CopyLineFeed, FlushIfFull, CaptureInv
    <2>2. CASE ~(Len(buf) >= Cap)
      <3>1. UNCHANGED <<file, failed, buf, todo, came, logged, cpc, open>>
        BY <1>1, <2>2 DEF CopyLineFeed, FlushIfFull, disk, arrivals, flags
      <3>2. NoTextAtRisk'
        BY <3>1 DEF TextInv, NoTextAtRisk
      <3> QED
        BY <3>1, <3>2, QuietKeepsText
    <2> QED
      BY <2>1, <2>2
  <1>2. CASE CopyDone \/ Toggle \/ UNCHANGED captureVars
    <2>1. UNCHANGED <<file, failed, buf, todo, came, logged, open>>
      BY <1>2 DEF CopyDone, Toggle, captureVars, disk, arrivals, flags
    <2>2. cpc' = cpc \/ (cpc' = "terminal" /\ open)
      BY <1>2 DEF CopyDone, Toggle, captureVars, CaptureInv, CopyPhase
    <2>3. NoTextAtRisk'
      BY <2>1, <2>2 DEF TextInv, NoTextAtRisk
    <2> QED
      BY <2>1, <2>3, QuietKeepsText
  <1> QED
    BY <1>1, <1>2

-----------------------------------------------------------------------------
\* Where the captured text is, in every reachable state: in the file, in the
\* buffer and still to be copied, in that order, and never in a buffer that is
\* about to be emptied without being written.
THEOREM CapturedText == CaptureSpec => []TextInv
  <1>1. CaptureInv /\ TextInv /\ [CaptureNext]_captureVars => TextInv'
    <2> SUFFICES ASSUME CaptureInv, TextInv, [CaptureNext]_captureVars PROVE TextInv'
      OBVIOUS
    <2>1. CASE \E n \in 1..MaxText : Receive(n)
      <3>1. PICK n \in 1..MaxText : Receive(n)
        BY <2>1
      <3>2. n \in 0..MaxText
        BY CaptureAssumption
      <3> QED
        BY <3>1, <3>2, ShowText DEF Receive
    <2>2. CASE \E n \in 0..MaxText : LeaveDialer(n)
      BY <2>2, ShowText DEF LeaveDialer
    <2>3. CASE CopyChar
      BY <2>3, CopyCharText
    <2>4. CASE CopyLineFeed \/ CopyDone \/ Toggle \/ UNCHANGED captureVars
      BY <2>4, LoopText
    <2>5. CASE OpenDialog
      BY <2>5, OpenDialogText
    <2>6. CASE CloseFile \/ Upload \/ Dial \/ BeginDownload
      BY <2>6, FlushingKeepsText DEF CloseFile, Upload, Dial, BeginDownload, CaptureInv
    <2>7. CASE StoreBlock
      BY <2>7, StoreBlockText
    <2>8. CASE EndDownload
      BY <2>8, EndDownloadText
    <2>9. CASE AbortDownload
      BY <2>9, AbortDownloadText
    <2>10. CASE Leave
      BY <2>10, LeaveText
    <2> QED
      BY <2>1, <2>2, <2>3, <2>4, <2>5, <2>6, <2>7, <2>8, <2>9, <2>10 DEF CaptureNext
  <1> QED
    BY <1>1, InitText, CaptureInvariant, PTL DEF CaptureSpec

\* The text that is kept, as one sequence.
LEMMA KeptText ==
  ASSUME CaptureInv, TextInv
  PROVE  /\ TextIn(Kept) = TextIn(file) \cup TextIn(buf) \cup TextIn(todo)
         /\ InOrder(Kept)
  <1> DEFINE b == IF cpc = "download" THEN <<>> ELSE buf
  <1>1. file \in Seq(Bytes) /\ buf \in Seq(Bytes) /\ todo \in Seq(Bytes)
    BY TextIsBytes DEF CaptureInv, TypeOK
  <1>2. b \in Seq(Bytes) /\ TextIn(b) = TextIn(buf) /\ InOrder(b)
    <2>1. CASE cpc = "download"
      <3>1. TextIn(buf) = {} /\ b = <<>> /\ b \in Seq(Bytes)
        BY <2>1 DEF TextInv, NoTextAtRisk
      <3> QED
        BY <3>1, TextOfNone
    <2>2. CASE cpc # "download"
      <3>1. b = buf
        BY <2>2
      <3> QED
        BY <1>1, <3>1 DEF TextInv, TextInOrder
    <2> QED
      BY <2>1, <2>2
  <1>3. Kept = (file \o b) \o todo
    BY DEF Kept
  <1> HIDE DEF b
  <1>4. /\ InOrder(file) /\ InOrder(todo)
        /\ Before(file, b) /\ Before(file, todo) /\ Before(b, todo)
    BY <1>2 DEF TextInv, TextInOrder, Before
  <1>5. /\ file \o b \in Seq(Bytes)
        /\ TextIn(file \o b) = TextIn(file) \cup TextIn(b) /\ InOrder(file \o b)
    BY <1>1, <1>2, <1>4, TextOfConcat
  <1>6. Before(file \o b, todo)
    BY <1>4, <1>5 DEF Before
  <1>7. /\ TextIn((file \o b) \o todo) = TextIn(file \o b) \cup TextIn(todo)
        /\ InOrder((file \o b) \o todo)
    BY <1>1, <1>4, <1>5, <1>6, TextOfConcat, Zenon
  <1> QED
    BY <1>2, <1>3, <1>5, <1>7

\* As long as no write to the capture file failed, file, buffer and what is
\* being copied hold the captured text and nothing else of text.
THEOREM CaptureLosesNothing == CaptureSpec => []NoTextLost
  <1>1. CaptureInv /\ TextInv => NoTextLost
    BY KeptText DEF TextInv, TextIsThere, NoTextLost
  <1> QED
    BY <1>1, CaptureInvariant, CapturedText, PTL

\* No character is in there twice or out of order, on a full disk either.
THEOREM CaptureNothingTwice == CaptureSpec => []NothingTwice
  <1>1. CaptureInv /\ TextInv => NothingTwice
    BY KeptText DEF NothingTwice
  <1> QED
    BY <1>1, CaptureInvariant, CapturedText, PTL

\* A closed capture file has the captured text, and so it has when the program
\* was left.
THEOREM CaptureClosedComplete == CaptureSpec => []ClosedIsComplete
  <1>1. CaptureInv /\ TextInv => ClosedIsComplete
    <2> SUFFICES ASSUME CaptureInv, TextInv, ~open \/ cpc = "left", ~failed
                 PROVE  TextIn(file) = TextIn(logged)
      BY DEF ClosedIsComplete
    <2>1. todo = <<>>
      BY DEF CaptureInv, CopyPhase
    <2>2. TextIn(buf) = {} /\ TextIn(todo) = {}
      BY <2>1, TextOfNone DEF TextInv, NoTextAtRisk
    <2> QED
      BY <2>2 DEF TextInv, TextIsThere
  <1> QED
    BY <1>1, CaptureInvariant, CapturedText, PTL
=============================================================================
