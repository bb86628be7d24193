------------------------------ MODULE Capture ------------------------------
(***************************************************************************)
(* Session capture of SuperComm: text that arrives in the terminal loop is *)
(* collected in the transfer buffer (from ParamBase to ParamStr, RxBufPtr  *)
(* its next free byte) and written to the capture file, path 42, when the  *)
(* buffer is full, when the capture is closed, before a transfer or a      *)
(* call, and on the way out.  A download stores its blocks in the very     *)
(* same buffer, and one that is aborted leaves them there.                 *)
(*                                                                         *)
(* A character of text is the number of its arrival; what is captured as   *)
(* line feed (dropped by Sub_4394) may come between any two of them.  When *)
(* the user leaves the dialer the terminal loop gets the chunk that was    *)
(* read last, or the modem's answer, once more (5235): what it shows again *)
(* is captured again, and counts as text of its own.                       *)
(***************************************************************************)
EXTENDS Integers, Sequences

CONSTANTS
  Cap,         \* bytes between ParamBase and ParamStr
  Block,       \* bytes of a block that a download stores
  DiskFails,   \* TRUE: a write to the capture file may fail
  MaxText,     \* bound: characters that arrive
  MaxAborts    \* bound: downloads that are aborted

ASSUME CaptureAssumption ==
  /\ Cap \in Nat \ {0}
  /\ Block \in 1..Cap
  /\ DiskFails \in BOOLEAN
  /\ MaxText \in Nat
  /\ MaxAborts \in Nat

VARIABLES
  cpc,         \* where the program is
  open,        \* 37,U: there is a capture file
  capturing,   \* 38,U: arriving text goes to it
  startClosed, \* 36,U: -f= was given, the next file is opened with capturing off
  buf,         \* the bytes from ParamBase to RxBufPtr
  todo,        \* what Sub_4394 has yet to copy into the buffer
  file,        \* what this session wrote to the capture file, as it is now
  exists,      \* there is a file of that name
  came,        \* history: characters that have arrived
  logged,      \* history: text that arrived while it was being captured
  failed,      \* history: a write to the capture file has failed
  aborts,      \* history: downloads aborted so far
  top          \* history: the highest byte of the buffer ever stored into

flags == <<open, capturing, startClosed>>
disk == <<file, exists, failed>>
arrivals == <<came, logged>>
captureVars == <<cpc, flags, buf, todo, disk, arrivals, aborts, top>>

Text == 1..MaxText

\* A byte of a downloaded block.
Foreign == 0

CapturePc == {"terminal", "copy", "dialer", "download", "left"}

BlockBytes == [i \in 1..Block |-> Foreign]

\* Sub_4403 has read the command line: -f= sets startClosed.  (It then calls
\* Sub_4233 with the direction, 3232,U, still 0, so that the dialog of the
\* ASCII upload comes up and no capture file is opened.)
CaptureInit ==
  /\ cpc = "terminal"
  /\ open = FALSE /\ capturing = FALSE /\ startClosed \in BOOLEAN
  /\ buf = <<>> /\ todo = <<>>
  /\ file = <<>> /\ exists \in BOOLEAN /\ failed = FALSE
  /\ came = 0 /\ logged = <<>>
  /\ aborts = 0 /\ top = 0

-----------------------------------------------------------------------------
\* Variant for a mutant run: the buffer is emptied only if the write worked.
FlushKeeping(b) ==
  /\ \/ ~open /\ buf' = <<>> /\ UNCHANGED <<file, failed>>
     \/ open /\ buf' = <<>> /\ file' = file \o b /\ UNCHANGED failed
     \/ open /\ DiskFails /\ buf' = b /\ failed' = TRUE
        /\ \E k \in 0..Len(b) : file' = file \o SubSeq(b, 1, k)
  /\ UNCHANGED exists

\* Sub_43CA with b in the buffer: written if there is a file, then forgotten.
\* A failing write, of which a beginning may reach the disk, is not noticed.
Flush(b) ==
  /\ buf' = <<>>
  /\ \/ ~open /\ UNCHANGED <<file, failed>>
     \/ open /\ file' = file \o b /\ UNCHANGED failed
     \/ /\ open /\ DiskFails /\ failed' = TRUE
        /\ \E k \in 0..Len(b) : file' = file \o SubSeq(b, 1, k)
  /\ UNCHANGED exists

\* The buffer is flushed as soon as it is full.
FlushIfFull(b) ==
  IF Len(b) >= Cap THEN Flush(b) ELSE buf' = b /\ UNCHANGED disk

\* Sub_0FD2: n characters are shown, and captured if that is on.
Show(n) ==
  /\ came + n <= MaxText
  /\ came' = came + n
  /\ IF open /\ capturing
       THEN /\ cpc' = "copy"
            /\ todo' = [i \in 1..n |-> came + i]
            /\ logged' = logged \o todo'
       ELSE /\ cpc' = "terminal"
            /\ UNCHANGED <<todo, logged>>
  /\ UNCHANGED <<flags, buf, disk, aborts, top>>

\* Sub_0FB8: they have been read from the line.
Receive(n) == cpc = "terminal" /\ Show(n)

\* Variant for a mutant run: the buffer is never found full.
CopyCharUnchecked ==
  /\ cpc = "copy" /\ todo # <<>>
  /\ todo' = Tail(todo)
  /\ top' = IF Len(buf) + 1 > top THEN Len(buf) + 1 ELSE top
  /\ buf' = Append(buf, Head(todo))
  /\ UNCHANGED <<cpc, flags, disk, arrivals, aborts>>

\* One round of the loop of Sub_4394: a character is stored ...
CopyChar ==
  /\ cpc = "copy" /\ todo # <<>>
  /\ todo' = Tail(todo)
  /\ top' = IF Len(buf) + 1 > top THEN Len(buf) + 1 ELSE top
  /\ FlushIfFull(Append(buf, Head(todo)))
  /\ UNCHANGED <<cpc, flags, arrivals, aborts>>

\* ... or, a line feed, left out.
CopyLineFeed ==
  /\ cpc = "copy"
  /\ FlushIfFull(buf)
  /\ UNCHANGED <<cpc, flags, todo, arrivals, aborts, top>>

CopyDone ==
  /\ cpc = "copy" /\ todo = <<>>
  /\ cpc' = "terminal"
  /\ UNCHANGED <<flags, buf, todo, disk, arrivals, aborts, top>>

-----------------------------------------------------------------------------
\* Sub_2364, a key: capturing off, or on again if there is a file.
Toggle ==
  /\ cpc = "terminal"
  /\ IF capturing THEN capturing' = FALSE ELSE capturing' = open
  /\ UNCHANGED <<cpc, open, startClosed, buf, todo, disk, arrivals, aborts, top>>

\* The dialog has a file: it is captured to at once, unless the command line
\* said otherwise.
Opened ==
  /\ open' = TRUE
  /\ capturing' = ~startClosed
  /\ startClosed' = FALSE

\* Sub_42E7: a new file is created.
OpenNew ==
  /\ ~exists
  /\ Opened
  /\ exists' = TRUE /\ file' = <<>> /\ logged' = <<>>
  /\ UNCHANGED failed

\* Sub_4363: the file exists and the user wants to go on at its end.
OpenAppend ==
  /\ exists
  /\ Opened
  /\ UNCHANGED <<disk, logged>>

\* Sub_438A: the file exists and is deleted first.
OpenOverwrite ==
  /\ exists
  /\ Opened
  /\ file' = <<>> /\ logged' = <<>>
  /\ UNCHANGED <<exists, failed>>

\* No name, a name that cannot be used, or no answer to the question.
OpenNot ==
  /\ startClosed' = FALSE
  /\ UNCHANGED <<open, capturing, disk, logged>>

\* Sub_4233 while there is no capture file.
OpenDialog ==
  /\ cpc = "terminal" /\ ~open
  /\ OpenNew \/ OpenAppend \/ OpenOverwrite \/ OpenNot
  /\ UNCHANGED <<cpc, buf, todo, came, aborts, top>>

\* Variant for a mutant run: the file is closed without a flush.
CloseUnflushed ==
  /\ cpc = "terminal" /\ open
  /\ open' = FALSE /\ capturing' = FALSE /\ startClosed' = FALSE
  /\ buf' = <<>>
  /\ UNCHANGED <<cpc, todo, disk, arrivals, aborts, top>>

\* Sub_42A3, the answer Y of the dialog while there is a capture file.  When
\* I$Close reports an error the flags stay.
CloseFile ==
  /\ cpc = "terminal" /\ open
  /\ Flush(buf)
  /\ \/ open' = FALSE /\ capturing' = FALSE
     \/ DiskFails /\ UNCHANGED <<open, capturing>>
  /\ startClosed' = FALSE
  /\ UNCHANGED <<cpc, todo, arrivals, aborts, top>>

\* Sub_0F06: the program is left.
Leave ==
  /\ cpc = "terminal"
  /\ cpc' = "left"
  /\ IF open THEN Flush(buf) ELSE UNCHANGED <<buf, disk>>
  /\ UNCHANGED <<flags, todo, arrivals, aborts, top>>

-----------------------------------------------------------------------------
\* Variant for a mutant run: the buffer is taken over as it is.
BeginDownloadUnflushed ==
  /\ cpc = "terminal"
  /\ cpc' = "download"
  /\ buf' = <<>>
  /\ UNCHANGED <<flags, todo, disk, arrivals, aborts, top>>

\* Sub_364D and Sub_37C9: a download takes the buffer over.
BeginDownload ==
  /\ cpc = "terminal"
  /\ cpc' = "download"
  /\ Flush(buf)
  /\ UNCHANGED <<flags, todo, arrivals, aborts, top>>

\* Sub_364D in an upload: the buffer is flushed and left alone.
Upload ==
  /\ cpc = "terminal"
  /\ Flush(buf)
  /\ UNCHANGED <<cpc, flags, todo, arrivals, aborts, top>>

\* Sub_2ED8 in the dialer: the buffer is flushed ...
Dial ==
  /\ cpc = "terminal"
  /\ cpc' = "dialer"
  /\ Flush(buf)
  /\ UNCHANGED <<flags, todo, arrivals, aborts, top>>

\* ... and $2F79: back to Sub_0FD2 with what is still in the input buffer.
LeaveDialer(n) == cpc = "dialer" /\ Show(n)

\* Sub_4191: a block is stored, after the buffer went to the file of the
\* download if the block does not fit.
StoreBlock ==
  /\ cpc = "download"
  /\ buf' = IF Cap - Block >= Len(buf) THEN buf \o BlockBytes ELSE BlockBytes
  /\ top' = IF Len(buf') > top THEN Len(buf') ELSE top
  /\ UNCHANGED <<cpc, flags, todo, disk, arrivals, aborts>>

\* Variant for a mutant run: the last bytes stay in the buffer.
EndDownloadKeeping ==
  /\ cpc = "download"
  /\ cpc' = "terminal"
  /\ UNCHANGED <<flags, buf, todo, disk, arrivals, aborts, top>>

\* Sub_3BAC, Sub_3941: the download is complete, the rest goes to its file.
EndDownload ==
  /\ cpc = "download"
  /\ cpc' = "terminal"
  /\ buf' = <<>>
  /\ UNCHANGED <<flags, todo, disk, arrivals, aborts, top>>

\* Sub_3992: it is aborted; RxBufPtr stays where it is.
AbortDownload ==
  /\ cpc = "download" /\ aborts < MaxAborts
  /\ cpc' = "terminal"
  /\ aborts' = aborts + 1
  /\ UNCHANGED <<flags, buf, todo, disk, arrivals, top>>

-----------------------------------------------------------------------------
CaptureNext ==
  \/ \E n \in 1..MaxText : Receive(n)
  \/ CopyChar \/ CopyLineFeed \/ CopyDone
  \/ Toggle \/ OpenDialog \/ CloseFile
  \/ Upload \/ Dial \/ \E n \in 0..MaxText : LeaveDialer(n)
  \/ BeginDownload \/ StoreBlock \/ EndDownload \/ AbortDownload
  \/ Leave
  \/ cpc = "left" /\ UNCHANGED captureVars

CaptureSpec == CaptureInit /\ [][CaptureNext]_captureVars

-----------------------------------------------------------------------------
Bytes == Text \cup {Foreign}

TypeOK ==
  /\ cpc \in CapturePc
  /\ open \in BOOLEAN /\ capturing \in BOOLEAN /\ startClosed \in BOOLEAN
  /\ exists \in BOOLEAN /\ failed \in BOOLEAN
  /\ buf \in Seq(Bytes) /\ file \in Seq(Bytes)
  /\ todo \in Seq(Text) /\ logged \in Seq(Text)
  /\ came \in 0..MaxText /\ aborts \in 0..MaxAborts /\ top \in 0..(Cap + 1)
  /\ capturing => open

\* What SuperComm has of the text: on disk, in the buffer, and being copied.
\* During a download the buffer holds something else.
Kept == file \o (IF cpc = "download" THEN <<>> ELSE buf) \o todo

\* The characters of text in a sequence of bytes, and that they are in it in
\* the order of their arrival, each once: then they say which text it is.
TextIn(s) == {s[i] : i \in 1..Len(s)} \ {Foreign}

InOrder(s) ==
  \A i, j \in 1..Len(s) : i < j /\ s[i] # Foreign /\ s[j] # Foreign => s[i] < s[j]

\* As long as no write fails, all captured text is there and nothing else,
\* whatever the user does in between: capturing off and on, transfers and
\* calls that need the buffer, closing the file and opening it again.
NoTextLost == ~failed => TextIn(Kept) = TextIn(logged)

\* Even when the disk is full no character is written twice or out of order.
NothingTwice == InOrder(Kept)

\* Unless a download was aborted or a write failed, the capture file with what
\* is still in the buffer is the captured text to the letter: nothing that a
\* transfer left in the buffer gets in.
CaptureIsExact == aborts = 0 /\ ~failed => Kept = logged

\* Once the file is closed, or the program left, the captured text is in it.
ClosedIsComplete ==
  (~open \/ cpc = "left") /\ ~failed => TextIn(file) = TextIn(logged)

\* The buffer never grows beyond the byte ParamStr points to, the first of
\* the 64 that are left to the stack, and that one is only used after an
\* aborted download.
BufferBounded == top <= Cap + 1 /\ (aborts = 0 => top <= Cap)

\* Why CaptureIsExact and BufferBounded hold, as an inductive invariant: until
\* a download is aborted the buffer has room for one more character between
\* any two steps of the terminal loop, and is empty without a capture file.
RoomLeft ==
  /\ Len(buf) <= Cap
  /\ aborts = 0 => top <= Cap
  /\ aborts = 0 /\ cpc # "download" => Len(buf) < Cap

NoFileNoText == aborts = 0 /\ cpc # "download" /\ ~open => buf = <<>>

CopyPhase == (cpc = "copy" => open) /\ (cpc # "copy" => todo = <<>>)

CaptureInv == TypeOK /\ RoomLeft /\ NoFileNoText /\ CopyPhase /\ CaptureIsExact

\* Why NoTextLost, NothingTwice and ClosedIsComplete hold, as an inductive
\* invariant on top of CaptureInv.  The text in the file, in the buffer and
\* still to be copied came in that order, all of it before what comes next; ...
Before(s, t) == \A x \in TextIn(s), y \in TextIn(t) : x < y

TextInOrder ==
  /\ InOrder(file) /\ InOrder(buf) /\ InOrder(todo)
  /\ Before(file, buf) /\ Before(file, todo) /\ Before(buf, todo)
  /\ TextIn(file) \cup TextIn(buf) \cup TextIn(todo) \subseteq 1..came

\* ... the three together are what was captured; ...
TextIsThere ==
  ~failed => TextIn(file) \cup TextIn(buf) \cup TextIn(todo) = TextIn(logged)

\* ... and the buffer, which a flush without a file and the end of a download
\* simply empty, has none of it then.
NoTextAtRisk == cpc \in {"download", "left"} \/ ~open => TextIn(buf) = {}

TextInv == TextInOrder /\ TextIsThere /\ NoTextAtRisk
=============================================================================
