------------------------------- MODULE Paths -------------------------------
(***************************************************************************)
(* The path table of SuperComm's process.  OS-9 gives every I$Open,        *)
(* I$Create and I$Dup the lowest free number, and SuperComm keeps these    *)
(* numbers in variables that it never clears; only flags tell whether the  *)
(* number in a variable is still its own.                                  *)
(*                                                                         *)
(* External ZModem needs the serial line as its standard input: path 0 is  *)
(* put aside, closed, replaced by a duplicate of the serial path, and put  *)
(* back when the child has been forked.                                    *)
(*                                                                         *)
(* Left out are the files that one routine opens and closes (directory of  *)
(* numbers, configuration), and what is written to the paths.              *)
(***************************************************************************)
EXTENDS Integers, FiniteSets

CONSTANT MaxPath   \* entries of the table (16 in OS-9 Level 2)

\* What a variable holds that names no path; path numbers are bytes.
NoPath == 255

\* Six paths are open from the start; ASCII upload, capture file, conference
\* window and the duplicate of path 0 are needed at most besides.
ASSUME PathsAssumption == MaxPath \in 10..NoPath

VARIABLES
  paths,       \* what is open on each path, or "free"
  nil,         \* 114,U: the timer device, 0 if there is none
  serial,      \* 43,U
  conf,        \* 63,U: conference window
  confOn,      \* 64,U
  capture,     \* 42,U: capture file
  capOpen,     \* 37,U
  ascii,       \* 44,U: file of the ASCII upload
  asciiOn,     \* 35,U
  xfer,        \* 66,U: file of a transfer
  batch,       \* 70,U
  ppc,         \* where the program is
  child,       \* the forked process: none, running, killed, or ended: done, or
               \* failed if its exit status is not 0
  childIn,     \* the standard input the child was given
  typed,       \* first key in the keyboard buffer while a child is waited for
               \* or has failed
  failed       \* history: a conference window could not be opened

fileVars == <<conf, confOn, capture, capOpen, ascii, asciiOn>>
xferVars == <<xfer, batch>>
childVars == <<child, childIn, typed>>
pathsVars == <<paths, nil, serial, fileVars, xferVars, childVars, ppc, failed>>

Numbers == 0..(MaxPath - 1)

Objects == {"term", "status", "nil", "serial", "conf", "capture", "ascii", "xfer"}

-----------------------------------------------------------------------------
\* OS-9's path table.
FreeIn(p) == {n \in Numbers : p[n] = "free"}

Lowest(S) == CHOOSE n \in S : \A k \in S : n <= k

WithOpen(p, o) == [p EXCEPT ![Lowest(FreeIn(p))] = o]

\* I$Close reports an error for a number that is not open, and nothing else.
Closed(p, n) == IF n \in Numbers THEN [p EXCEPT ![n] = "free"] ELSE p

DupFails(p, n) == p[n] = "free" \/ FreeIn(p) = {}

\* The table after I$Dup, and register A, which an error leaves as it was.
WithDup(p, n) == IF DupFails(p, n) THEN p ELSE WithOpen(p, p[n])

DupNumber(p, n) == IF DupFails(p, n) THEN n ELSE Lowest(FreeIn(p))

-----------------------------------------------------------------------------
\* Start-up: standard paths, timer device if there is one, status window, line.
PathsInit ==
  /\ nil \in {0, 3}
  /\ serial = IF nil = 3 THEN 5 ELSE 4
  /\ paths = [n \in Numbers |->
       IF n < 3 THEN "term" ELSE IF n = nil THEN "nil"
       ELSE IF n = serial - 1 THEN "status" ELSE IF n = serial THEN "serial" ELSE "free"]
  /\ conf = 0 /\ confOn = FALSE /\ capture = 0 /\ capOpen = FALSE
  /\ ascii = 0 /\ asciiOn = FALSE /\ xfer = 0 /\ batch = FALSE
  /\ child = "none" /\ childIn = "none" /\ typed = "none"
  /\ ppc = "loop" /\ failed = FALSE

On(o) == {n \in Numbers : paths[n] = o}

\* The paths of files that were empty and that no variable knows any more.
Leaked == On("xfer") \ (IF ppc \in {"down", "up", "last"} THEN {xfer} ELSE {})

\* A key can be read in the terminal loop; during an ASCII upload no command is.
Command == ppc = "loop" /\ ~asciiOn /\ paths[0] # "free"

-----------------------------------------------------------------------------
\* Sub_2610: the conference window is opened ...
ConferenceOn ==
  /\ Command /\ ~confOn
  /\ FreeIn(paths) # {}
  /\ paths' = WithOpen(paths, "conf")
  /\ conf' = Lowest(FreeIn(paths)) /\ confOn' = TRUE
  /\ UNCHANGED <<nil, serial, capture, capOpen, ascii, asciiOn, xferVars, childVars, ppc, failed>>

\* ... but when that fails the routine is run through once more with the flag
\* set, as if the window were to be closed: whatever 63,U was before is.
ConferenceFails ==
  /\ Command /\ ~confOn
  /\ paths' = Closed(paths, conf)
  /\ failed' = TRUE
  /\ UNCHANGED <<nil, serial, fileVars, xferVars, childVars, ppc>>

\* Variant for a mutant run: the window stays open.
ConferenceLeft ==
  /\ Command /\ confOn
  /\ confOn' = FALSE
  /\ UNCHANGED <<paths, nil, serial, conf, capture, capOpen, ascii, asciiOn, xferVars,
                 childVars, ppc, failed>>

\* The window is closed, by the same key or before dialing.
ConferenceOff ==
  /\ Command /\ confOn
  /\ paths' = Closed(paths, conf)
  /\ confOn' = FALSE
  /\ UNCHANGED <<nil, serial, conf, capture, capOpen, ascii, asciiOn, xferVars,
                 childVars, ppc, failed>>

\* The capture dialog (module Capture has what it does with the text).
CaptureOpened ==
  /\ Command /\ ~capOpen
  /\ FreeIn(paths) # {}
  /\ paths' = WithOpen(paths, "capture")
  /\ capture' = Lowest(FreeIn(paths)) /\ capOpen' = TRUE
  /\ UNCHANGED <<nil, serial, conf, confOn, ascii, asciiOn, xferVars, childVars, ppc, failed>>

CaptureClosed ==
  /\ Command /\ capOpen
  /\ paths[capture] # "free"
  /\ paths' = Closed(paths, capture)
  /\ capOpen' = FALSE
  /\ UNCHANGED <<nil, serial, conf, confOn, capture, ascii, asciiOn, xferVars, childVars, ppc, failed>>

\* Sub_444C: the file of an ASCII upload is opened ...
AsciiBegins ==
  /\ Command
  /\ FreeIn(paths) # {}
  /\ paths' = WithOpen(paths, "ascii")
  /\ ascii' = Lowest(FreeIn(paths)) /\ asciiOn' = TRUE
  /\ UNCHANGED <<nil, serial, conf, confOn, capture, capOpen, xferVars, childVars, ppc, failed>>

\* ... and closed at its end, at a read error, or for ^C or BREAK.
AsciiEnds ==
  /\ ppc = "loop" /\ asciiOn
  /\ paths' = Closed(paths, ascii)
  /\ asciiOn' = FALSE
  /\ UNCHANGED <<nil, serial, conf, confOn, capture, capOpen, ascii, xferVars, childVars, ppc, failed>>

-----------------------------------------------------------------------------
\* A transfer is chosen from a menu (Sub_3580, Sub_35DF, Sub_364D).
TransferBegins ==
  /\ Command
  /\ batch' \in BOOLEAN
  /\ xfer' = NoPath
  /\ ppc' \in {"open", IF batch' THEN "head" ELSE "create"}
  /\ UNCHANGED <<paths, nil, serial, fileVars, childVars, failed>>

\* The file of a download is created: the one that was named at the keyboard, or
\* the next of a batch, when its header has come.
Create ==
  /\ ppc \in {"create", "head"}
  /\ FreeIn(paths) # {}
  /\ paths' = WithOpen(paths, "xfer")
  /\ xfer' = Lowest(FreeIn(paths))
  /\ ppc' = "down"
  /\ UNCHANGED <<nil, serial, fileVars, batch, childVars, failed>>

\* It cannot be created, or no name was given, or the batch has no more files:
\* Sub_3947 closes 66,U, which Sub_3954 does not.
CreateNot ==
  /\ \/ ppc = "create" /\ UNCHANGED <<paths, xfer>>
     \/ ppc = "head" /\ xfer' = NoPath /\ paths' = Closed(paths, xfer')
     \/ ppc = "head" /\ paths' = Closed(paths, xfer) /\ UNCHANGED xfer
  /\ ppc' = "loop" /\ batch' = FALSE
  /\ UNCHANGED <<nil, serial, fileVars, childVars, failed>>

\* A download ends, or is given up (the file is then deleted and 66,U closed a
\* second time); a batch asks for the next file.
Received ==
  /\ ppc = "down"
  /\ paths' = Closed(paths, xfer)
  /\ \/ ppc' = "loop" /\ batch' = FALSE
     \/ batch /\ ppc' = "head" /\ UNCHANGED batch
  /\ UNCHANGED <<nil, serial, fileVars, xfer, childVars, failed>>

-----------------------------------------------------------------------------
\* A file of an upload is opened and its first bytes can be read.
Opened ==
  /\ ppc = "open"
  /\ FreeIn(paths) # {}
  /\ paths' = WithOpen(paths, "xfer")
  /\ xfer' = Lowest(FreeIn(paths))
  /\ ppc' = "up"
  /\ UNCHANGED <<nil, serial, fileVars, batch, childVars, failed>>

\* They cannot be read, the file is empty: it is left open.  Bound: one path
\* more than the table has to spare.
OpenedEmpty ==
  /\ ppc = "open"
  /\ FreeIn(paths) # {}
  /\ Cardinality(Leaked) + 10 <= MaxPath
  /\ paths' = WithOpen(paths, "xfer")
  /\ xfer' = Lowest(FreeIn(paths))
  /\ IF batch THEN ppc' = "last" /\ UNCHANGED batch ELSE ppc' = "loop" /\ batch' = FALSE
  /\ UNCHANGED <<nil, serial, fileVars, childVars, failed>>

\* It cannot be opened, or the list of names is at its end.
OpenNot ==
  /\ ppc = "open"
  /\ IF batch THEN ppc' = "last" /\ UNCHANGED batch ELSE ppc' = "loop" /\ batch' = FALSE
  /\ UNCHANGED <<paths, nil, serial, fileVars, xfer, childVars, failed>>

\* Sub_40BE: the file is closed before its EOT is answered.
SentAll ==
  /\ ppc = "up"
  /\ paths' = Closed(paths, xfer)
  /\ ppc' = "eot"
  /\ UNCHANGED <<nil, serial, fileVars, xferVars, childVars, failed>>

\* The EOT is answered: the next file of a batch, or the end.
EotAnswered ==
  /\ ppc = "eot"
  /\ IF batch THEN ppc' = "open" /\ UNCHANGED <<paths, batch>>
              ELSE ppc' = "loop" /\ paths' = Closed(paths, xfer) /\ batch' = FALSE
  /\ UNCHANGED <<nil, serial, fileVars, xfer, childVars, failed>>

\* The header that ends a batch is answered: Sub_3954, 66,U is not closed.
BatchEnds ==
  /\ ppc = "last"
  /\ ppc' = "loop" /\ batch' = FALSE
  /\ UNCHANGED <<paths, nil, serial, fileVars, xfer, childVars, failed>>

\* Sub_39AA: the upload is given up.
UploadGivenUp ==
  /\ ppc \in {"up", "eot", "last"}
  /\ paths' = Closed(paths, xfer)
  /\ ppc' = "loop" /\ batch' = FALSE
  /\ UNCHANGED <<nil, serial, fileVars, xfer, childVars, failed>>

-----------------------------------------------------------------------------
\* Variant for a mutant run: the path put aside stays open.
ZModemBeginsKeeping ==
  /\ ppc = "loop"
  /\ LET p1 == Closed(WithDup(paths, 0), 0)
         p2 == WithDup(p1, serial)
         p3 == Closed(p2, 0)
     IN /\ paths' = WithDup(p3, DupNumber(paths, 0))
        /\ \/ ppc' = "poll" /\ child' = "running" /\ childIn' = p2[0]
           \/ UNCHANGED <<ppc, child, childIn>>
  /\ typed' = "none"
  /\ UNCHANGED <<nil, serial, fileVars, xferVars, failed>>

\* Sub_1793, Sub_1859: by the menu, or because the host has started a transfer.
\* F$Fork may fail.
ZModemBegins ==
  /\ ppc = "loop"
  /\ LET p1 == Closed(WithDup(paths, 0), 0)
         p2 == WithDup(p1, serial)
         p3 == Closed(p2, 0)
         aside == DupNumber(paths, 0)   \* 110,U
     IN /\ paths' = Closed(WithDup(p3, aside), aside)
        /\ \/ ppc' = "poll" /\ child' = "running" /\ childIn' = p2[0]
           \/ UNCHANGED <<ppc, child, childIn>>
  /\ typed' = "none"
  /\ UNCHANGED <<nil, serial, fileVars, xferVars, failed>>

\* The keyboard is looked at: all keys are read, and the first one counts.
PollKeyboard ==
  /\ ppc = "poll"
  /\ ppc' = "wait"
  /\ IF paths[0] # "free" /\ typed # "none"
       THEN /\ child' = IF typed = "break" /\ child = "running" THEN "killed" ELSE child
            /\ typed' = "none"
       ELSE UNCHANGED <<child, typed>>
  /\ UNCHANGED <<paths, nil, serial, fileVars, xferVars, childIn, failed>>

\* There is an ended child for F$Wait.
Ended == child \in {"done", "failed"}

\* Variant for a mutant run: only F$Wait is called again.
InterruptedUnpolled ==
  /\ ppc = "wait" /\ nil # 0 /\ ~Ended
  /\ UNCHANGED pathsVars

\* F$Wait returns for the signal of the timer, unless there is an ended child.
Interrupted ==
  /\ ppc = "wait" /\ nil # 0 /\ ~Ended
  /\ ppc' = "poll"
  /\ UNCHANGED <<paths, nil, serial, fileVars, xferVars, childVars, failed>>

\* F$Wait returns with the child.  One of external ZModem's that has not ended
\* well has left its message on the screen: Sub_2AC5 is called.
Reaped ==
  /\ ppc \in {"wait", "shell"} /\ Ended
  /\ ppc' = IF ppc = "wait" /\ child = "failed" THEN "key" ELSE "loop"
  /\ child' = "none"
  /\ UNCHANGED <<paths, nil, serial, fileVars, xferVars, childIn, typed, failed>>

\* Sub_2AC5 waits for a key, whatever it is ...
KeyRead ==
  /\ ppc = "key" /\ paths[0] # "free" /\ typed # "none"
  /\ ppc' = "loop" /\ typed' = "none"
  /\ UNCHANGED <<paths, nil, serial, fileVars, xferVars, child, childIn, failed>>

\* ... and without a keyboard for ever.
KeyAwaited == ppc = "key" /\ paths[0] = "free" /\ UNCHANGED pathsVars

\* Sub_16DC: a shell with SuperComm's own standard paths.
ShellBegins ==
  /\ Command
  /\ ppc' = "shell" /\ child' = "running" /\ childIn' = paths[0]
  /\ UNCHANGED <<paths, nil, serial, fileVars, xferVars, typed, failed>>

\* The child ends, by itself at any time or because of the signal: then its exit
\* status is an error, unless it was about to exit with another.
ChildEnds ==
  /\ child \in {"running", "killed"}
  /\ child' \in {"done", "failed"}
  /\ UNCHANGED <<paths, nil, serial, fileVars, xferVars, childIn, typed, ppc, failed>>

\* The user types while the child is waited for, or a key.
Type ==
  /\ ppc \in {"poll", "wait", "key"} /\ typed = "none" /\ paths[0] = "term"
  /\ typed' \in {"break", "other"}
  /\ UNCHANGED <<paths, nil, serial, fileVars, xferVars, child, childIn, ppc, failed>>

-----------------------------------------------------------------------------
PathsNext ==
  \/ ConferenceOn \/ ConferenceFails \/ ConferenceOff
  \/ CaptureOpened \/ CaptureClosed \/ AsciiBegins \/ AsciiEnds
  \/ TransferBegins \/ Create \/ CreateNot \/ Received
  \/ Opened \/ OpenedEmpty \/ OpenNot \/ SentAll \/ EotAnswered \/ BatchEnds \/ UploadGivenUp
  \/ ZModemBegins \/ PollKeyboard \/ Interrupted \/ Reaped
  \/ KeyRead \/ KeyAwaited \/ ShellBegins \/ ChildEnds \/ Type

\* SuperComm goes on, its timer ticks, and a process that was killed ends.  The
\* child may run forever by itself, and the user need not type anything.
PathsFairness ==
  /\ WF_pathsVars(PollKeyboard) /\ WF_pathsVars(Interrupted) /\ WF_pathsVars(Reaped)
  /\ WF_pathsVars(KeyRead)
  /\ WF_pathsVars(ChildEnds /\ child = "killed")

PathsSpec == PathsInit /\ [][PathsNext]_pathsVars /\ PathsFairness

-----------------------------------------------------------------------------
Table == [Numbers -> Objects \cup {"free"}]

PathsTypeOK ==
  /\ paths \in Table
  /\ nil \in {0, 3} /\ serial = IF nil = 3 THEN 5 ELSE 4
  /\ conf \in Numbers /\ capture \in Numbers /\ ascii \in Numbers
  /\ xfer \in Numbers \cup {NoPath}
  /\ confOn \in BOOLEAN /\ capOpen \in BOOLEAN /\ asciiOn \in BOOLEAN
  /\ batch \in BOOLEAN /\ failed \in BOOLEAN
  /\ ppc \in {"loop", "create", "head", "down", "open", "up", "eot", "last", "poll", "wait",
              "key", "shell"}
  /\ child \in {"none", "running", "killed", "done", "failed"}
  /\ childIn \in Objects \cup {"none", "free"} /\ typed \in {"none", "break", "other"}

\* No conference window failed, and the leaked paths leave enough free ones.
Sound == ~failed /\ Cardinality(Leaked) + 10 <= MaxPath

\* While that is so every object is open exactly on the path that its variable
\* names, as long as its flag is set: nothing is written to a path that has
\* been closed, or closed and given to something else.
OnItsPath ==
  Sound =>
    /\ On("term") = 0..2 /\ On("serial") = {serial} /\ On("status") = {serial - 1}
    /\ On("nil") = IF nil = 0 THEN {} ELSE {nil}
    /\ On("conf") = IF confOn THEN {conf} ELSE {}
    /\ On("capture") = IF capOpen THEN {capture} ELSE {}
    /\ On("ascii") = IF asciiOn THEN {ascii} ELSE {}
    /\ ppc \in {"down", "up"} => paths[xfer] = "xfer"
    /\ ppc \in {"poll", "wait"} => childIn = "serial"

PathsInv == PathsTypeOK /\ OnItsPath

\* Whatever goes wrong, a conference window that cannot be opened and closes
\* what another file has been given since, or the keyboard, a table full of
\* leaked paths, and exchanges for a child in either case: the line, the screen,
\* the status window and the timer stay on their paths, and the keyboard's is
\* given to nothing else.
LineStays ==
  /\ On("serial") = {serial} /\ On("status") = {serial - 1}
  /\ On("nil") = IF nil = 0 THEN {} ELSE {nil}
  /\ On("term") \cup {0} = 0..2 /\ paths[0] \in {"term", "free"}

\* Why that is so: the variables, stale ones too, never name one of these paths,
\* except that 63,U is 0 before the first window; and nothing is opened once the
\* keyboard is lost.
LineInv ==
  /\ PathsTypeOK /\ LineStays
  /\ conf = 0 \/ conf > serial
  /\ confOn => conf > serial
  /\ capOpen => capture > serial
  /\ asciiOn => ascii > serial
  /\ ppc \in {"create", "head", "down", "open", "up", "eot", "last"} => xfer > serial
  /\ paths[0] = "free" => ppc \in {"loop", "poll", "wait", "key"}

\* Why PathsInv holds.  It follows the table beyond what Sound allows: when the
\* leaked paths have filled it, an exchange for a child loses the keyboard, and
\* nothing is opened any more.
OwnPaths ==
  /\ LineStays
  /\ On("conf") = IF confOn THEN {conf} ELSE {}
  /\ On("capture") = IF capOpen THEN {capture} ELSE {}
  /\ On("ascii") = IF asciiOn THEN {ascii} ELSE {}

\* 66,U names the file of the transfer while there is one, and between two of
\* them a path that nothing else was given: a second close hits nothing.
TransferFile ==
  /\ ppc \in {"down", "up"} => xfer \in On("xfer")
  /\ ppc \in {"create", "head", "open", "eot"} => xfer = NoPath \/ paths[xfer] = "free"
  /\ ppc = "last" => xfer = NoPath \/ paths[xfer] \in {"free", "xfer"}

KeyboardLost ==
  paths[0] = "free" =>
    /\ ppc \in {"loop", "poll", "wait", "key"}
    /\ Cardinality(Leaked) + 10 > MaxPath

ChildHasLine == ppc \in {"poll", "wait"} => childIn = "serial"

TableInv ==
  /\ PathsTypeOK
  /\ ~failed => OwnPaths /\ TransferFile /\ KeyboardLost /\ ChildHasLine

\* A BREAK that is the first key while external ZModem is waited for ends the
\* wait, whatever the child does, if there is a timer: the user is back at the
\* terminal, or is asked for one more key.
BreakEndsZModem ==
  (nil # 0 /\ ppc \in {"poll", "wait"} /\ typed = "break") ~>
    (ppc = "loop" \/ (ppc = "key" /\ typed = "none"))
=============================================================================
