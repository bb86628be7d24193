------------------------------- MODULE Dialer -------------------------------
(***************************************************************************)
(* SuperComm's dialer: Sub_2EBF, from the choice of an entry of the        *)
(* directory to the redial loop Sub_33E0, and the modem it talks to.       *)
(*                                                                         *)
(* Each try hangs up, writes the number, and looks for an answer until a   *)
(* second for every unit of RPS= has begun.  The answer is CONNECT or BUSY *)
(* in what the modem writes (34,U set) or the carrier bit (34,U clear); the*)
(* modem's reply to ATH decides which.  The words are looked for in the    *)
(* buffer at 5033,U, which also takes the digits of the counters and keeps *)
(* whatever nothing was written over.                                      *)
(*                                                                         *)
(* The modem is not under src/.  It does what ATH and the number ask for,  *)
(* but sends them to the other end while it is on line; any character that *)
(* it gets while it is dialing ends the call it was about to make.         *)
(***************************************************************************)
EXTENDS Integers, FiniteSets

CONSTANTS
  ByteMod,       \* what a byte counts modulo (256)
  MaxTries,      \* bound: RTR= of an entry, unless it is Endless
  MaxWait,       \* bound: RPS= of an entry
  ShortReplies   \* TRUE: the modem writes answers of less than eight characters

ASSUME DialerAssumption ==
  /\ ByteMod \in Nat \ {0}
  /\ MaxTries \in Nat /\ MaxTries + 1 < ByteMod
  /\ MaxWait \in Nat /\ MaxWait < ByteMod
  /\ ShortReplies \in BOOLEAN

\* RTR=FF: try until there is an answer.
Endless == ByteMod - 1

\* INC on a byte.
Inc(n) == IF n + 1 = ByteMod THEN 0 ELSE n + 1

VARIABLES
  dpc,         \* where the program is
  entry,       \* 3353,U and 3354,U: RTR= and RPS= of the entry
  number,      \* 3314,U: there is a telephone number
  string,      \* 4892,U: there is a connect string (CNS=)
  byText,      \* 34,U
  try,         \* 5023,U
  secs,        \* 3236,U
  second,      \* a second has begun since 3235,U was set
  buf,         \* the words that are found in the buffer at 5033,U
  clockOn,     \* 117,U, with the timer device
  kind,        \* what the modem is like
  modem,       \* idle, dialing or online
  text,        \* what it wrote and nobody has read yet
  dials,       \* history: numbers written for this entry, up to MaxTries + 1
  wasOnline,   \* history: the modem was on line when ATH was written
  waiting,     \* history: something was waiting to be read when ATH was written
  up,          \* history: the modem came on line since then, and when
  sent         \* history: the connect string has been sent

loopVars == <<byText, try, secs, second, buf>>
modemVars == <<kind, modem, text>>
entryVars == <<entry, number, string>>
atAth == <<wasOnline, waiting>>
history == <<dials, atAth, up, sent>>
dialerVars == <<dpc, entryVars, loopVars, clockOn, modemVars, history>>

Words == {"CONNECT", "BUSY"}

\* The words that are looked for beyond what has just been read.
Stale == IF ShortReplies THEN Words ELSE {"BUSY"}

Kinds == [codes : BOOLEAN, echo : BOOLEAN, dcd : BOOLEAN]

Entries == [tries : 0..MaxTries \cup {Endless}, wait : 0..MaxWait]

DialerPc == {"terminal", "hangup", "mode", "purge", "dial", "settle", "look", "time"}

Ups == {"no", "early", "noticed", "new", "missed"}

DialerInit ==
  /\ dpc = "terminal" /\ entry = [tries |-> 0, wait |-> 0]
  /\ number = FALSE /\ string = FALSE
  /\ byText = FALSE /\ try = 0 /\ secs = 0 /\ second = FALSE
  /\ buf = {} /\ clockOn \in BOOLEAN
  /\ kind \in Kinds /\ modem \in {"idle", "online"} /\ text = {}
  /\ dials = 0 /\ wasOnline = FALSE /\ waiting = FALSE /\ up = "no" /\ sent = FALSE

-----------------------------------------------------------------------------
\* The modem.

\* It answers a command: a result code, an echo, or nothing.
Answers(word) ==
  text \cup (IF kind.codes THEN {word} ELSE {}) \cup (IF kind.echo THEN {"other"} ELSE {})

\* What it says by itself.
Says(word) == IF kind.codes THEN text \cup {word} ELSE text

ModemConnects ==
  /\ modem = "dialing"
  /\ modem' = "online" /\ text' = Says("CONNECT")
  /\ up' = IF dpc \in {"look", "time"} THEN "new" ELSE "early"
  /\ UNCHANGED <<kind, dpc, entryVars, loopVars, clockOn, dials, atAth, sent>>

\* The line is busy, or the call fails for another reason.
ModemFails ==
  /\ modem = "dialing"
  /\ modem' = "idle"
  /\ \E w \in {"BUSY", "other"} : text' = Says(w)
  /\ UNCHANGED <<kind, dpc, entryVars, loopVars, clockOn, history>>

\* The other end writes something, or hangs up.
HostSpeaks ==
  /\ modem = "online"
  /\ \/ modem' = "online" /\ text' = text \cup {"other"}
     \/ modem' = "idle" /\ text' = Says("other")
  /\ UNCHANGED <<kind, dpc, entryVars, loopVars, clockOn, history>>

SecondPasses ==
  /\ second' = TRUE
  /\ UNCHANGED <<dpc, entryVars, byText, try, secs, buf, clockOn, modemVars, history>>

Carrier == ~kind.dcd \/ modem = "online"

-----------------------------------------------------------------------------
\* What may be found in the buffer after everything that is waiting has been
\* read into it: what was found there may be found still, behind it.  BUSY is
\* looked for in the first fourteen places, where it is if it came alone.
Contents ==
  IF text = {} THEN {buf}
  ELSE {b \in SUBSET ((buf \cup text) \cap Stale) :
          Cardinality(text) = 1 => text \cap Stale \subseteq b}

\* Sub_2D50.
Purge == text' = {} /\ buf' \in Contents

\* Sub_354B: three digits are written at the beginning of the buffer.
Digits(b) == buf' \in SUBSET b

-----------------------------------------------------------------------------
\* Back to the terminal: Sub_3533 sends the connect string if there is one.
Leave ==
  /\ dpc' = "terminal"
  /\ sent' = (sent \/ string')

\* No call: the string is cleared first.
GiveUp ==
  /\ string' = FALSE
  /\ Leave

\* Sub_314B: the file of an entry is read, which may have a connect string, and
\* may have a number: if not, that of the entry before is still there.  The
\* clock stops (5163).
Choose ==
  /\ dpc = "terminal"
  /\ entry' \in Entries
  /\ number' \in {number, TRUE}
  /\ clockOn' = FALSE
  /\ buf' \in SUBSET Stale
  /\ dials' = 0 /\ wasOnline' = FALSE /\ waiting' = FALSE /\ up' = "no" /\ try' = 1
  /\ IF entry'.tries = 0 \/ ~number'
       THEN dpc' = "terminal" /\ string' = FALSE
       ELSE dpc' = "hangup" /\ string' \in BOOLEAN
  /\ sent' = FALSE
  /\ UNCHANGED <<byText, secs, second, modemVars>>

\* The user chooses nothing, or the file cannot be read.
ChooseNot ==
  /\ dpc = "terminal"
  /\ clockOn' = FALSE
  /\ UNCHANGED <<dpc, entryVars, loopVars, modemVars, history>>

\* Sub_3446: ATH.
HangUp ==
  /\ dpc = "hangup"
  /\ dpc' = "mode"
  /\ wasOnline' = (modem = "online") /\ waiting' = (text # {})
  /\ up' = "no"
  /\ IF modem = "online" THEN UNCHANGED <<modem, text>>
                         ELSE modem' = "idle" /\ text' = Answers("other")
  /\ UNCHANGED <<kind, entryVars, loopVars, clockOn, dials, sent>>

\* Variant for a mutant run: the carrier, where it is always there, is not asked.
ChooseModeByReply ==
  /\ dpc = "mode"
  /\ dpc' = "purge"
  /\ byText' = (text # {})
  /\ UNCHANGED <<entryVars, try, secs, second, buf, clockOn, modemVars, history>>

\* $3460: what answers are made of.
ChooseMode ==
  /\ dpc = "mode"
  /\ dpc' = "purge"
  /\ byText' = (text # {} \/ Carrier)
  /\ UNCHANGED <<entryVars, try, secs, second, buf, clockOn, modemVars, history>>

\* Sub_3473.
PurgeLine ==
  /\ dpc = "purge"
  /\ dpc' = "dial"
  /\ Purge
  /\ UNCHANGED <<entryVars, byText, try, secs, second, clockOn, kind, modem, history>>

\* $3476: the number is written.
Dial ==
  /\ dpc = "dial"
  /\ dpc' = "settle"
  /\ dials' = IF dials <= MaxTries THEN dials + 1 ELSE dials
  /\ IF modem = "online"
       THEN UNCHANGED <<modem, text>>
       ELSE /\ modem' = "dialing"
            /\ text' = IF kind.echo THEN text \cup {"other"} ELSE text
  /\ UNCHANGED <<kind, entryVars, loopVars, clockOn, atAth, up, sent>>

\* $3486: the echo of the number is read away, and whatever else has come.
Settle ==
  /\ dpc = "settle"
  /\ dpc' = "look"
  /\ Purge
  /\ secs' = ByteMod - 1 /\ second' = FALSE
  /\ UNCHANGED <<entryVars, byText, try, clockOn, kind, modem, history>>

-----------------------------------------------------------------------------
\* $34EF: the next try, if there is one.
NextTry(b) ==
  /\ Digits(b)
  /\ try' = Inc(try)
  /\ IF entry.tries = Endless \/ try' < entry.tries
       THEN dpc' = "hangup" /\ UNCHANGED <<string, sent>>
       ELSE GiveUp

\* Sub_3509: there is a connection.
Connected ==
  /\ clockOn' = TRUE
  /\ UNCHANGED string
  /\ Leave

\* What a look that takes the modem for connected has to do with a connection.
Noticed == IF up = "no" THEN up ELSE "noticed"

\* A connection that a look at the modem has not found, and that is still there.
Unnoticed == IF up = "new" /\ modem = "online" THEN "missed" ELSE up

\* Sub_2DDD finds CONNECT in what it has read, or, if that is short, in the rest
\* of the buffer, which holds b.
FindsConnect(b) ==
  text # {} /\ ("CONNECT" \in text \/ (ShortReplies /\ "CONNECT" \in b))

\* Variant for a mutant run: BUSY is looked for first.
LookForBusyFirst ==
  /\ dpc = "look" /\ byText
  /\ text' = {}
  /\ \E b \in Contents :
       \/ /\ "BUSY" \in b /\ NextTry(b)
          /\ up' = Unnoticed /\ UNCHANGED clockOn
       \/ /\ "BUSY" \notin b /\ FindsConnect(b)
          /\ buf' = b /\ up' = Noticed /\ Connected /\ UNCHANGED try
       \/ /\ "BUSY" \notin b /\ ~FindsConnect(b)
          /\ dpc' = "time" /\ buf' = b /\ up' = Unnoticed /\ UNCHANGED <<string, sent, try, clockOn>>
  /\ UNCHANGED <<entry, number, byText, secs, second, kind, modem, dials, atAth>>

\* $349A: CONNECT in the modem's words, else BUSY, which ends the try at once.
LookForText ==
  /\ dpc = "look" /\ byText
  /\ text' = {}
  /\ \E b \in Contents :
       \/ /\ FindsConnect(b)
          /\ buf' = b /\ up' = Noticed /\ Connected /\ UNCHANGED try
       \/ /\ ~FindsConnect(b) /\ up' = Unnoticed /\ UNCHANGED clockOn
          /\ \/ "BUSY" \in b /\ NextTry(b)
             \/ "BUSY" \notin b /\ dpc' = "time" /\ buf' = b /\ UNCHANGED <<string, sent, try>>
  /\ UNCHANGED <<entry, number, byText, secs, second, kind, modem, dials, atAth>>

\* Sub_34A6: the carrier.
LookForCarrier ==
  /\ dpc = "look" /\ ~byText
  /\ IF Carrier THEN Connected /\ up' = Noticed
                ELSE dpc' = "time" /\ up' = Unnoticed /\ UNCHANGED <<clockOn, string, sent>>
  /\ UNCHANGED <<entry, number, loopVars, modemVars, dials, atAth>>

\* Sub_34AB: the space bar is held down.
UserBreaks ==
  /\ dpc = "time"
  /\ GiveUp
  /\ UNCHANGED <<entry, number, loopVars, clockOn, modemVars, dials, atAth, up>>

\* Sub_34BC: still the same second.
SameSecond ==
  /\ dpc = "time" /\ ~second
  /\ dpc' = "look"
  /\ UNCHANGED <<entryVars, loopVars, clockOn, modemVars, history>>

\* Variant for a mutant run: the count starts again with every second.
NewSecondRestarting ==
  /\ dpc = "time" /\ second
  /\ second' = FALSE
  /\ secs' = 0
  /\ \/ /\ secs' < entry.wait
        /\ dpc' = "look" /\ Digits(buf) /\ UNCHANGED <<string, sent, try>>
     \/ secs' >= entry.wait /\ NextTry(buf)
  /\ UNCHANGED <<entry, number, byText, clockOn, modemVars, dials, atAth, up>>

\* $34C5: a new second is counted, and may be the last.
NewSecond ==
  /\ dpc = "time" /\ second
  /\ second' = FALSE
  /\ secs' = Inc(secs)
  /\ \/ /\ secs' < entry.wait
        /\ dpc' = "look" /\ Digits(buf) /\ UNCHANGED <<string, sent, try>>
     \/ secs' >= entry.wait /\ NextTry(buf)
  /\ UNCHANGED <<entry, number, byText, clockOn, modemVars, dials, atAth, up>>

-----------------------------------------------------------------------------
Loop ==
  \/ HangUp \/ ChooseMode \/ PurgeLine \/ Dial \/ Settle
  \/ LookForText \/ LookForCarrier \/ SameSecond \/ NewSecond

DialerNext ==
  \/ Choose \/ ChooseNot \/ Loop \/ UserBreaks
  \/ ModemConnects \/ ModemFails \/ HostSpeaks \/ SecondPasses

\* The program goes on and so does time; modem, host and user need not.
DialerSpec ==
  /\ DialerInit /\ [][DialerNext]_dialerVars
  /\ WF_dialerVars(Loop) /\ WF_dialerVars(SecondPasses)

-----------------------------------------------------------------------------
TypeOK ==
  /\ dpc \in DialerPc /\ entry \in Entries /\ kind \in Kinds
  /\ {number, string, byText, second, clockOn, wasOnline, waiting, sent} \subseteq BOOLEAN
  /\ try \in 0..(ByteMod - 1) /\ secs \in 0..(ByteMod - 1) /\ dials \in 0..(MaxTries + 1)
  /\ buf \subseteq Stale /\ text \subseteq Words \cup {"other"}
  /\ modem \in {"idle", "dialing", "online"} /\ up \in Ups

\* The number is never dialed more often than RTR= says: once for RTR=01, then
\* once less (the number of the try is raised before it is compared).
TriesCounted ==
  entry.tries # Endless =>
    dials <= (IF entry.tries < 2 THEN entry.tries ELSE entry.tries - 1)

\* The connect string, which may hold a password, goes out and the clock starts
\* only when the modem has been on line since ATH was written: neither the
\* answer to an earlier try nor what is left in the buffer is taken for one.
CallsAreReal == sent \/ (dpc = "terminal" /\ clockOn /\ dials > 0) => wasOnline \/ up # "no"

\* The modem tells about a connection in a way that the dialer looks for: in
\* words, or by the carrier if nothing that is written on the line hides it.
Audible == kind.codes \/ (kind.dcd /\ ~kind.echo /\ ~waiting)

\* A connection that comes while the dialer looks for an answer, and lasts, is
\* noticed at the next look, unless the modem was still on line when it was to
\* hang up.
CallsAreNoticed == up = "missed" /\ Audible => wasOnline

-----------------------------------------------------------------------------
(***************************************************************************)
(* Why the three hold, as an inductive invariant: what the numbers of the  *)
(* try and of the calls, the words on the line and the choice of 34,U have *)
(* to do with each other at each place of the loop.                        *)
(***************************************************************************)
Before == {"hangup", "mode", "purge", "dial"}

Looking == {"look", "time"}

TryInv ==
  dpc # "terminal" /\ entry.tries # Endless =>
    /\ try >= 1 /\ (try = 1 \/ try < entry.tries)
    /\ dials = IF dpc \in Before THEN try - 1 ELSE try
    /\ entry.tries >= 1

\* What can be taken for a connection is one.
RealInv ==
  /\ dpc # "terminal" => ~sent /\ ~clockOn
  /\ dpc \notin {"terminal", "hangup"} /\ modem = "online" => wasOnline \/ up # "no"
  /\ dpc \in Looking /\ "CONNECT" \in text => wasOnline \/ up # "no"
  /\ dpc \notin {"terminal", "hangup", "mode"} /\ ~byText => kind.dcd

\* A connection that has not been noticed can be.
NoticeInv ==
  /\ dpc \in {"mode", "purge", "dial"} => modem # "dialing"
  /\ dpc \in {"mode", "purge", "dial", "settle"} => up # "new"
  /\ dpc \in Looking /\ up = "new" /\ kind.codes => "CONNECT" \in text
  /\ ~kind.codes /\ Audible /\ ~wasOnline =>
       /\ dpc = "mode" => text = {} /\ modem # "online"
       /\ dpc \notin {"terminal", "hangup", "mode"} => ~byText

DialerInv == TypeOK /\ TriesCounted /\ TryInv /\ RealInv /\ NoticeInv

\* Unless the tries are endless the user gets the terminal back.
DialerEnds == (dpc # "terminal" /\ entry.tries # Endless) ~> dpc = "terminal"
=============================================================================
