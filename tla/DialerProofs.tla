---------------------------- MODULE DialerProofs ----------------------------
(***************************************************************************)
(* The dialer's properties, for every width of its counters, every bound   *)
(* on tries and waits, and every modem that writes no answer of less than  *)
(* eight characters.                                                       *)
(***************************************************************************)
EXTENDS Dialer, TLAPS

\* A byte stays a byte when it is raised, and grows unless it was Endless.
LEMMA IncFacts ==
  ASSUME NEW n \in 0..(ByteMod - 1)
  PROVE  Inc(n) \in 0..(ByteMod - 1) /\ (n # Endless => Inc(n) = n + 1)
  BY DialerAssumption DEF Inc, Endless

\* The same RTR= is never Endless and a number of tries at once.
LEMMA TriesFacts ==
  ASSUME TypeOK, entry.tries # Endless
  PROVE  entry.tries \in 0..MaxTries /\ entry.tries < Endless /\ Endless \in Nat
  BY DialerAssumption DEF TypeOK, Entries, Endless

LEMMA InitHolds == DialerInit => DialerInv
  <1> SUFFICES ASSUME DialerInit PROVE DialerInv
    OBVIOUS
  <1>1. entry \in Entries /\ try \in 0..(ByteMod - 1) /\ secs \in 0..(ByteMod - 1)
    BY DialerAssumption DEF DialerInit, Entries
  <1>5. {number, string, byText, second, clockOn, wasOnline, waiting, sent} \subseteq BOOLEAN
    BY Zenon DEF DialerInit
  <1>2. TypeOK
    BY <1>1, <1>5, DialerAssumption DEF DialerInit, TypeOK, DialerPc, Ups
  <1>3. TriesCounted /\ TryInv
    BY DEF DialerInit, TriesCounted, TryInv
  <1>4. RealInv /\ NoticeInv
    BY DEF DialerInit, RealInv, NoticeInv, Looking
  <1> QED
    BY <1>2, <1>3, <1>4 DEF DialerInv

-----------------------------------------------------------------------------
(* What the modem does by itself.                                          *)

LEMMA ModemConnectsStep ==
  ASSUME DialerInv, ModemConnects
  PROVE  DialerInv'
  <1>1. /\ UNCHANGED <<kind, dpc, entry, number, string, byText, try, secs, second, buf, clockOn,
                       dials, wasOnline, waiting, sent>>
        /\ up' = (IF dpc \in Looking THEN "new" ELSE "early") /\ text' = Says("CONNECT") /\ modem' = "online"
        /\ modem = "dialing"
    BY DEF ModemConnects, entryVars, loopVars, atAth, Looking
  <1>2. TypeOK'
    BY <1>1 DEF DialerInv, TypeOK, Ups, Says, Words
  <1>3. TriesCounted' /\ TryInv'
    BY <1>1 DEF DialerInv, TriesCounted, TryInv
  <1>4. RealInv'
    BY <1>1 DEF DialerInv, RealInv
  <1>5. NoticeInv'
    BY <1>1 DEF DialerInv, NoticeInv, Says, Audible, Looking
  <1> QED
    BY <1>2, <1>3, <1>4, <1>5 DEF DialerInv

LEMMA ModemFailsStep ==
  ASSUME DialerInv, ModemFails
  PROVE  DialerInv'
  <1>1. /\ UNCHANGED <<kind, dpc, entry, number, string, byText, try, secs, second, buf, clockOn,
                       dials, wasOnline, waiting, up, sent>>
        /\ modem' = "idle" /\ modem = "dialing"
        /\ \E w \in {"BUSY", "other"} : text' = Says(w)
    BY DEF ModemFails, entryVars, loopVars, history, atAth
  <1>2. text \subseteq text' /\ text' \subseteq text \cup {"BUSY", "other"}
    BY <1>1 DEF Says
  <1>3. TypeOK'
    BY <1>1, <1>2 DEF DialerInv, TypeOK, Words
  <1>4. TriesCounted' /\ TryInv'
    BY <1>1 DEF DialerInv, TriesCounted, TryInv
  <1>5. RealInv'
    BY <1>1, <1>2 DEF DialerInv, RealInv
  <1>6. NoticeInv'
    BY <1>1, <1>2 DEF DialerInv, NoticeInv, Audible
  <1> QED
    BY <1>3, <1>4, <1>5, <1>6 DEF DialerInv

LEMMA HostSpeaksStep ==
  ASSUME DialerInv, HostSpeaks
  PROVE  DialerInv'
  <1>1. /\ UNCHANGED <<kind, dpc, entry, number, string, byText, try, secs, second, buf, clockOn,
                       dials, wasOnline, waiting, up, sent>>
        /\ modem' \in {"online", "idle"} /\ modem = "online"
        /\ text \subseteq text' /\ text' \subseteq text \cup {"other"}
    BY DEF HostSpeaks, Says, entryVars, loopVars, history, atAth
  <1>2. TypeOK'
    BY <1>1 DEF DialerInv, TypeOK
  <1>3. TriesCounted' /\ TryInv'
    BY <1>1 DEF DialerInv, TriesCounted, TryInv
  <1>4. RealInv'
    BY <1>1 DEF DialerInv, RealInv
  <1>5. NoticeInv'
    BY <1>1 DEF DialerInv, NoticeInv, Audible
  <1> QED
    BY <1>2, <1>3, <1>4, <1>5 DEF DialerInv

LEMMA SecondPassesStep ==
  ASSUME DialerInv, SecondPasses
  PROVE  DialerInv'
  <1>1. /\ UNCHANGED <<kind, modem, text, dpc, entry, number, string, byText, try, secs, buf, clockOn,
                       dials, wasOnline, waiting, up, sent>>
        /\ second' = TRUE
    BY DEF SecondPasses, entryVars, modemVars, history, atAth
  <1>2. TypeOK'
    BY <1>1 DEF DialerInv, TypeOK
  <1>3. TriesCounted' /\ TryInv' /\ RealInv' /\ NoticeInv'
    BY <1>1 DEF DialerInv, TriesCounted, TryInv, RealInv, NoticeInv, Audible
  <1> QED
    BY <1>2, <1>3 DEF DialerInv

-----------------------------------------------------------------------------
(* The choice of an entry, and a try up to the first look.                 *)

LEMMA ChooseStep ==
  ASSUME DialerInv, Choose
  PROVE  DialerInv'
  <1>1. /\ entry' \in Entries /\ number' \in {number, TRUE} /\ string' \in BOOLEAN
        /\ buf' \in SUBSET Stale /\ UNCHANGED <<byText, secs, second, kind, modem, text>>
        /\ clockOn' = FALSE /\ wasOnline' = FALSE /\ waiting' = FALSE /\ sent' = FALSE
        /\ dials' = 0 /\ try' = 1 /\ up' = "no"
        /\ dpc' \in {"terminal", "hangup"}
        /\ dpc' = "hangup" => entry'.tries # 0
    BY DEF Choose, modemVars
  <1>2. {number', string', byText', second', clockOn', wasOnline', waiting', sent'} \subseteq BOOLEAN
    BY <1>1 DEF DialerInv, TypeOK
  <1>3. TypeOK'
    BY <1>1, <1>2, DialerAssumption DEF DialerInv, TypeOK, DialerPc, Ups
  <1>4. TriesCounted' /\ TryInv'
    BY <1>1, DialerAssumption DEF TriesCounted, TryInv, Before, Entries, Endless
  <1>5. RealInv' /\ NoticeInv'
    BY <1>1 DEF RealInv, NoticeInv, Looking
  <1> QED
    BY <1>3, <1>4, <1>5 DEF DialerInv

LEMMA ChooseNotStep ==
  ASSUME DialerInv, ChooseNot
  PROVE  DialerInv'
  <1>1. /\ UNCHANGED <<kind, modem, text, dpc, entry, number, string, byText, try, secs, second, buf,
                       dials, wasOnline, waiting, up, sent>>
        /\ clockOn' = FALSE /\ dpc = "terminal"
    BY DEF ChooseNot, entryVars, loopVars, modemVars, history, atAth
  <1>2. TypeOK'
    BY <1>1 DEF DialerInv, TypeOK
  <1>3. TriesCounted' /\ TryInv' /\ RealInv' /\ NoticeInv'
    BY <1>1 DEF DialerInv, TriesCounted, TryInv, RealInv, NoticeInv, Audible
  <1> QED
    BY <1>2, <1>3 DEF DialerInv

LEMMA HangUpStep ==
  ASSUME DialerInv, HangUp
  PROVE  DialerInv'
  <1>1. /\ UNCHANGED <<kind, entry, number, string, byText, try, secs, second, buf, clockOn, dials, sent>>
        /\ dpc = "hangup" /\ dpc' = "mode" /\ up' = "no"
        /\ wasOnline' = (modem = "online") /\ waiting' = (text # {})
    BY DEF HangUp, entryVars, loopVars
  <1>2. CASE modem = "online"
    <2>1. UNCHANGED <<modem, text>>
      BY <1>2 DEF HangUp
    <2>2. TypeOK'
      BY <1>1, <2>1 DEF DialerInv, TypeOK, DialerPc, Ups
    <2>3. TriesCounted' /\ TryInv'
      BY <1>1 DEF DialerInv, TriesCounted, TryInv, Before
    <2>4. RealInv' /\ NoticeInv'
      BY <1>1, <1>2, <2>1 DEF DialerInv, RealInv, NoticeInv, Audible, Looking
    <2> QED
      BY <2>2, <2>3, <2>4 DEF DialerInv
  <1>3. CASE modem # "online"
    <2>1. modem' = "idle" /\ text' = Answers("other")
      BY <1>3 DEF HangUp
    <2>2. text' \subseteq text \cup {"other"}
      BY <2>1 DEF Answers
    <2>3. TypeOK'
      BY <1>1, <2>1, <2>2 DEF DialerInv, TypeOK, DialerPc, Ups
    <2>4. TriesCounted' /\ TryInv'
      BY <1>1 DEF DialerInv, TriesCounted, TryInv, Before
    <2>5. ~kind.codes /\ ~kind.echo /\ text = {} => text' = {}
      BY <2>1 DEF Answers
    <2>6. RealInv' /\ NoticeInv'
      BY <1>1, <2>1, <2>5 DEF DialerInv, RealInv, NoticeInv, Audible, Looking
    <2> QED
      BY <2>3, <2>4, <2>6 DEF DialerInv
  <1> QED
    BY <1>2, <1>3

LEMMA ChooseModeStep ==
  ASSUME DialerInv, ChooseMode
  PROVE  DialerInv'
  <1>1. /\ UNCHANGED <<kind, modem, text, entry, number, string, try, secs, second, buf, clockOn,
                       dials, wasOnline, waiting, up, sent>>
        /\ dpc = "mode" /\ dpc' = "purge"
        /\ byText' = (text # {} \/ ~kind.dcd \/ modem = "online")
    BY DEF ChooseMode, Carrier, entryVars, modemVars, history, atAth
  <1>2. byText' \in BOOLEAN
    BY <1>1
  <1>3. TypeOK'
    BY <1>1, <1>2 DEF DialerInv, TypeOK, DialerPc
  <1>4. TriesCounted' /\ TryInv'
    BY <1>1 DEF DialerInv, TriesCounted, TryInv, Before
  <1>5. RealInv'
    BY <1>1 DEF DialerInv, RealInv, Looking
  <1>6. NoticeInv'
    BY <1>1 DEF DialerInv, NoticeInv, Looking, Audible
  <1> QED
    BY <1>3, <1>4, <1>5, <1>6 DEF DialerInv

\* What was written is read into the buffer.
LEMMA PurgeFacts ==
  ASSUME TypeOK, Purge
  PROVE  text' = {} /\ buf' \subseteq Stale
  BY DEF Purge, Contents, TypeOK

LEMMA PurgeLineStep ==
  ASSUME DialerInv, PurgeLine
  PROVE  DialerInv'
  <1>1. /\ UNCHANGED <<kind, modem, entry, number, string, byText, try, secs, second, clockOn,
                       dials, wasOnline, waiting, up, sent>>
        /\ dpc = "purge" /\ dpc' = "dial" /\ text' = {} /\ buf' \subseteq Stale
    BY PurgeFacts DEF DialerInv, PurgeLine, entryVars, history, atAth
  <1>2. TypeOK'
    BY <1>1 DEF DialerInv, TypeOK, DialerPc
  <1>3. TriesCounted' /\ TryInv'
    BY <1>1 DEF DialerInv, TriesCounted, TryInv, Before
  <1>4. RealInv' /\ NoticeInv'
    BY <1>1 DEF DialerInv, RealInv, NoticeInv, Looking, Audible
  <1> QED
    BY <1>2, <1>3, <1>4 DEF DialerInv

LEMMA DialStep ==
  ASSUME DialerInv, Dial
  PROVE  DialerInv'
  <1>1. /\ UNCHANGED <<kind, entry, number, string, byText, try, secs, second, buf, clockOn,
                       wasOnline, waiting, up, sent>>
        /\ dpc = "dial" /\ dpc' = "settle" /\ modem' \in {modem, "dialing"}
        /\ text' \subseteq text \cup {"other"}
        /\ dials' = IF dials <= MaxTries THEN dials + 1 ELSE dials
    BY DEF Dial, entryVars, loopVars, atAth
  <1>2. dials' \in 0..(MaxTries + 1)
    BY <1>1, DialerAssumption DEF DialerInv, TypeOK
  <1>3. TypeOK'
    BY <1>1, <1>2 DEF DialerInv, TypeOK, DialerPc
  <1>4. TriesCounted' /\ TryInv'
    <2>1. CASE entry.tries = Endless
      BY <1>1, <2>1 DEF TriesCounted, TryInv
    <2>2. CASE entry.tries # Endless
      <3>1. entry.tries \in 0..MaxTries
        BY <2>2, TriesFacts DEF DialerInv
      <3>2. /\ try \in Nat /\ try >= 1 /\ (try = 1 \/ try < entry.tries)
            /\ dials = try - 1 /\ entry.tries >= 1
        BY <1>1, <2>2 DEF DialerInv, TypeOK, TryInv, Before
      <3>3. dials' = try
        BY <1>1, <3>1, <3>2, DialerAssumption
      <3> QED
        BY <1>1, <3>1, <3>2, <3>3 DEF TriesCounted, TryInv, Before
    <2> QED
      BY <2>1, <2>2
  <1>5. RealInv'
    BY <1>1 DEF DialerInv, RealInv, Looking
  <1>6. NoticeInv'
    BY <1>1 DEF DialerInv, NoticeInv, Looking, Audible
  <1> QED
    BY <1>3, <1>4, <1>5, <1>6 DEF DialerInv

LEMMA SettleStep ==
  ASSUME DialerInv, Settle
  PROVE  DialerInv'
  <1>1. /\ UNCHANGED <<kind, modem, entry, number, string, byText, try, clockOn,
                       dials, wasOnline, waiting, up, sent>>
        /\ dpc = "settle" /\ dpc' = "look" /\ text' = {} /\ buf' \subseteq Stale
        /\ secs' = ByteMod - 1 /\ second' = FALSE
    BY PurgeFacts DEF DialerInv, Settle, entryVars, history, atAth
  <1>5. {number', string', byText', second', clockOn', wasOnline', waiting', sent'} \subseteq BOOLEAN
    BY <1>1 DEF DialerInv, TypeOK
  <1>6. secs' \in 0..(ByteMod - 1)
    BY <1>1, DialerAssumption
  <1>2. TypeOK'
    BY <1>1, <1>5, <1>6 DEF DialerInv, TypeOK, DialerPc
  <1>3. TriesCounted' /\ TryInv'
    BY <1>1 DEF DialerInv, TriesCounted, TryInv, Before
  <1>4. RealInv' /\ NoticeInv'
    BY <1>1 DEF DialerInv, RealInv, NoticeInv, Looking, Audible
  <1> QED
    BY <1>2, <1>3, <1>4 DEF DialerInv

-----------------------------------------------------------------------------
(* The looks, and what follows them.                                       *)

\* The entry is done with: what holds at the terminal holds.
LEMMA LeftHolds ==
  ASSUME DialerInv, TypeOK', dpc' = "terminal", UNCHANGED <<entry, dials>>
  PROVE  DialerInv'
  BY DEF DialerInv, TriesCounted, TryInv, RealInv, NoticeInv, Looking

\* The next try, or none.
LEMMA NextTryStep ==
  ASSUME DialerInv, NEW b \in SUBSET Stale, NextTry(b), dpc \in Looking,
         text' \subseteq text, up' \in Ups, second' \in BOOLEAN, secs' \in 0..(ByteMod - 1),
         UNCHANGED <<kind, modem, entry, number, byText, clockOn, dials, wasOnline, waiting>>
  PROVE  DialerInv'
  <1>1. try' = Inc(try) /\ buf' \subseteq Stale
    BY DEF NextTry, Digits
  <1>2. dpc' \in {"hangup", "terminal"} /\ string' \in BOOLEAN /\ sent' \in BOOLEAN
    BY DEF NextTry, GiveUp, Leave, DialerInv, TypeOK
  <1>3. try' \in 0..(ByteMod - 1)
    BY <1>1, IncFacts DEF DialerInv, TypeOK
  <1>4. {number', string', byText', second', clockOn', wasOnline', waiting', sent'} \subseteq BOOLEAN
    BY <1>2 DEF DialerInv, TypeOK
  <1>5. TypeOK'
    BY <1>1, <1>2, <1>3, <1>4 DEF DialerInv, TypeOK, DialerPc
  <1>6. CASE dpc' = "terminal"
    BY <1>5, <1>6, LeftHolds
  <1>7. CASE dpc' = "hangup"
    <2>1. sent' = sent /\ (entry.tries = Endless \/ try' < entry.tries)
      BY <1>7 DEF NextTry, GiveUp, Leave
    <2>2. TryInv'
      <3>1. CASE entry.tries = Endless
        BY <3>1 DEF TryInv
      <3>2. CASE entry.tries # Endless
        <4>1. entry.tries \in 0..MaxTries /\ entry.tries < Endless /\ Endless \in Nat
          BY <3>2, TriesFacts DEF DialerInv
        <4>2. try >= 1 /\ (try = 1 \/ try < entry.tries) /\ dials = try /\ entry.tries >= 1
          BY <3>2 DEF DialerInv, TryInv, Looking, Before
        <4>3. try # Endless /\ try \in 0..(ByteMod - 1)
          BY <4>1, <4>2, DialerAssumption DEF DialerInv, TypeOK, Endless
        <4>4. try' = try + 1
          BY <1>1, <4>3, IncFacts
        <4> QED
          BY <1>7, <2>1, <3>2, <4>2, <4>3, <4>4 DEF TryInv, Before
      <3> QED
        BY <3>1, <3>2
    <2>3. TriesCounted'
      BY DEF DialerInv, TriesCounted
    <2>4. RealInv' /\ NoticeInv'
      BY <1>7, <2>1 DEF DialerInv, RealInv, NoticeInv, Looking
    <2> QED
      BY <1>5, <2>2, <2>3, <2>4 DEF DialerInv
  <1> QED
    BY <1>2, <1>6, <1>7

\* Where no reply is short only BUSY is found where nothing was written.
LEMMA ContentsFacts ==
  ASSUME TypeOK, ~ShortReplies, NEW b \in Contents
  PROVE  b \in SUBSET Stale /\ (FindsConnect(b) <=> "CONNECT" \in text)
  BY DEF TypeOK, Contents, Stale, FindsConnect

LEMMA LookForTextStep ==
  ASSUME DialerInv, ~ShortReplies, LookForText
  PROVE  DialerInv'
  <1>1. /\ UNCHANGED <<entry, number, byText, secs, second, kind, modem, dials, wasOnline, waiting>>
        /\ dpc = "look" /\ byText /\ text' = {}
    BY DEF LookForText, atAth
  <1>2. PICK b \in Contents :
          \/ FindsConnect(b) /\ buf' = b /\ up' = Noticed /\ Connected /\ UNCHANGED try
          \/ ~FindsConnect(b) /\ up' = Unnoticed /\ UNCHANGED clockOn /\ NextTry(b)
          \/ /\ ~FindsConnect(b) /\ up' = Unnoticed /\ dpc' = "time" /\ buf' = b
             /\ UNCHANGED <<string, sent, try, clockOn>>
    BY DEF LookForText
  <1>3. b \in SUBSET Stale /\ (FindsConnect(b) <=> "CONNECT" \in text)
    BY ContentsFacts DEF DialerInv
  <1>4. up' \in Ups
    BY <1>2 DEF Noticed, Unnoticed, Ups, DialerInv, TypeOK
  <1>5. CASE FindsConnect(b) /\ buf' = b /\ up' = Noticed /\ Connected /\ UNCHANGED try
    <2>1. dpc' = "terminal" /\ clockOn' = TRUE /\ UNCHANGED string /\ sent' = (sent \/ string)
      BY <1>5 DEF Connected, Leave
    <2>2. {number', string', byText', second', clockOn', wasOnline', waiting', sent'} \subseteq BOOLEAN
      BY <1>1, <2>1 DEF DialerInv, TypeOK
    <2>3. TypeOK'
      BY <1>1, <1>3, <1>4, <1>5, <2>1, <2>2 DEF DialerInv, TypeOK, DialerPc
    <2> QED
      BY <1>1, <2>1, <2>3, LeftHolds
  <1>6. CASE ~FindsConnect(b) /\ up' = Unnoticed /\ UNCHANGED clockOn /\ NextTry(b)
    <2>1. text' \subseteq text /\ second' \in BOOLEAN /\ secs' \in 0..(ByteMod - 1)
      BY <1>1 DEF DialerInv, TypeOK
    <2> QED
      BY <1>1, <1>3, <1>4, <1>6, <2>1, NextTryStep DEF Looking
  <1>7. CASE /\ ~FindsConnect(b) /\ up' = Unnoticed /\ dpc' = "time" /\ buf' = b
             /\ UNCHANGED <<string, sent, try, clockOn>>
    <2>1. TypeOK'
      BY <1>1, <1>3, <1>4, <1>7 DEF DialerInv, TypeOK, DialerPc
    <2>2. TriesCounted' /\ TryInv'
      BY <1>1, <1>7 DEF DialerInv, TriesCounted, TryInv, Before
    <2>3. up' \in {up, "missed"} /\ (up' = "missed" => up = "new" \/ up = "missed")
      BY <1>7 DEF Unnoticed
    <2>4. RealInv'
      BY <1>1, <1>7, <2>3 DEF DialerInv, RealInv, Looking
    <2>5. up' = "new" => ~kind.codes
      BY <1>1, <1>3, <1>7, <2>3 DEF DialerInv, NoticeInv, Looking
    <2>6. NoticeInv'
      BY <1>1, <1>7, <2>5 DEF DialerInv, NoticeInv, Looking, Audible
    <2> QED
      BY <2>1, <2>2, <2>4, <2>6 DEF DialerInv
  <1> QED
    BY <1>2, <1>5, <1>6, <1>7

LEMMA LookForCarrierStep ==
  ASSUME DialerInv, LookForCarrier
  PROVE  DialerInv'
  <1>1. /\ UNCHANGED <<entry, number, byText, try, secs, second, buf, kind, modem, text,
                       dials, wasOnline, waiting>>
        /\ dpc = "look" /\ ~byText
    BY DEF LookForCarrier, loopVars, modemVars, atAth
  <1>2. up' \in Ups
    BY DEF LookForCarrier, Noticed, Unnoticed, Ups, DialerInv, TypeOK
  <1>3. CASE Carrier
    <2>1. /\ dpc' = "terminal" /\ clockOn' = TRUE /\ UNCHANGED string /\ sent' = (sent \/ string)
      BY <1>3 DEF LookForCarrier, Connected, Leave
    <2>2. {number', string', byText', second', clockOn', wasOnline', waiting', sent'} \subseteq BOOLEAN
      BY <1>1, <2>1 DEF DialerInv, TypeOK
    <2>3. TypeOK'
      BY <1>1, <1>2, <2>1, <2>2 DEF DialerInv, TypeOK, DialerPc
    <2> QED
      BY <1>1, <2>1, <2>3, LeftHolds
  <1>4. CASE ~Carrier
    <2>1. /\ dpc' = "time" /\ up' = Unnoticed /\ UNCHANGED <<clockOn, string, sent>>
      BY <1>4 DEF LookForCarrier
    <2>2. up' = up
      BY <1>4, <2>1 DEF Unnoticed, Carrier
    <2>3. TypeOK'
      BY <1>1, <2>1, <2>2 DEF DialerInv, TypeOK, DialerPc
    <2>4. TriesCounted' /\ TryInv'
      BY <1>1, <2>1 DEF DialerInv, TriesCounted, TryInv, Before
    <2>5. RealInv' /\ NoticeInv'
      BY <1>1, <2>1, <2>2 DEF DialerInv, RealInv, NoticeInv, Looking, Audible
    <2> QED
      BY <2>3, <2>4, <2>5 DEF DialerInv
  <1> QED
    BY <1>3, <1>4

LEMMA UserBreaksStep ==
  ASSUME DialerInv, UserBreaks
  PROVE  DialerInv'
  <1>1. /\ UNCHANGED <<entry, number, byText, try, secs, second, buf, clockOn, kind, modem, text,
                       dials, wasOnline, waiting, up>>
        /\ dpc' = "terminal" /\ string' = FALSE /\ sent' = sent
    BY DEF UserBreaks, GiveUp, Leave, loopVars, modemVars, atAth, DialerInv, TypeOK
  <1>2. TypeOK'
    BY <1>1 DEF DialerInv, TypeOK, DialerPc
  <1> QED
    BY <1>1, <1>2, LeftHolds

LEMMA SameSecondStep ==
  ASSUME DialerInv, SameSecond
  PROVE  DialerInv'
  <1>1. /\ UNCHANGED <<entry, number, string, byText, try, secs, second, buf, clockOn, kind, modem,
                       text, dials, wasOnline, waiting, up, sent>>
        /\ dpc = "time" /\ dpc' = "look"
    BY DEF SameSecond, entryVars, loopVars, modemVars, history, atAth
  <1>2. TypeOK'
    BY <1>1 DEF DialerInv, TypeOK, DialerPc
  <1>3. TriesCounted' /\ TryInv' /\ RealInv' /\ NoticeInv'
    BY <1>1 DEF DialerInv, TriesCounted, TryInv, RealInv, NoticeInv, Audible, Before, Looking
  <1> QED
    BY <1>2, <1>3 DEF DialerInv

LEMMA NewSecondStep ==
  ASSUME DialerInv, NewSecond
  PROVE  DialerInv'
  <1>1. /\ UNCHANGED <<entry, number, byText, clockOn, kind, modem, text, dials, wasOnline, waiting, up>>
        /\ dpc = "time" /\ second' = FALSE /\ secs' = Inc(secs)
    BY DEF NewSecond, modemVars, atAth
  <1>2. secs' \in 0..(ByteMod - 1)
    BY <1>1, IncFacts DEF DialerInv, TypeOK
  <1>3. CASE dpc' = "look" /\ Digits(buf) /\ UNCHANGED <<string, sent, try>>
    <2>1. buf' \subseteq Stale
      BY <1>3 DEF Digits, DialerInv, TypeOK
    <2>2. {number', string', byText', second', clockOn', wasOnline', waiting', sent'} \subseteq BOOLEAN
      BY <1>1, <1>3 DEF DialerInv, TypeOK
    <2>3. TypeOK'
      BY <1>1, <1>2, <1>3, <2>1, <2>2 DEF DialerInv, TypeOK, DialerPc
    <2>4. TriesCounted' /\ TryInv' /\ RealInv' /\ NoticeInv'
      BY <1>1, <1>3 DEF DialerInv, TriesCounted, TryInv, RealInv, NoticeInv, Audible, Before, Looking
    <2> QED
      BY <2>3, <2>4 DEF DialerInv
  <1>4. CASE NextTry(buf)
    <2>1. buf \in SUBSET Stale /\ up' \in Ups /\ second' \in BOOLEAN /\ text' \subseteq text
      BY <1>1 DEF DialerInv, TypeOK
    <2> QED
      BY <1>1, <1>2, <1>4, <2>1, NextTryStep DEF Looking
  <1> QED
    BY <1>3, <1>4 DEF NewSecond

LEMMA StutteringStep ==
  ASSUME DialerInv, UNCHANGED dialerVars
  PROVE  DialerInv'
  <1>1. /\ UNCHANGED <<entry, number, string, byText, try, secs, second, buf, clockOn, kind, modem,
                       text, dials, wasOnline, waiting, up, sent, dpc>>
    BY DEF dialerVars, entryVars, loopVars, modemVars, history, atAth
  <1>2. TypeOK'
    BY <1>1 DEF DialerInv, TypeOK
  <1>3. TriesCounted' /\ TryInv' /\ RealInv' /\ NoticeInv'
    BY <1>1 DEF DialerInv, TriesCounted, TryInv, RealInv, NoticeInv, Audible
  <1> QED
    BY <1>2, <1>3 DEF DialerInv

LEMMA StepHolds ==
  ASSUME DialerInv, ~ShortReplies, [DialerNext]_dialerVars
  PROVE  DialerInv'
  BY ChooseStep, ChooseNotStep, HangUpStep, ChooseModeStep, PurgeLineStep, DialStep, SettleStep,
     LookForTextStep, LookForCarrierStep, SameSecondStep, NewSecondStep, UserBreaksStep,
     ModemConnectsStep, ModemFailsStep, HostSpeaksStep, SecondPassesStep, StutteringStep
  DEF DialerNext, Loop

-----------------------------------------------------------------------------
(* The two promises about calls, which rest on the invariant.              *)

\* While the dialer is at work nothing has been sent and the clock stands still.
LEMMA QuietUntilDone ==
  ASSUME DialerInv, CallsAreReal, dpc # "terminal", UNCHANGED sent, dpc' # "terminal"
  PROVE  CallsAreReal'
  BY DEF DialerInv, RealInv, CallsAreReal

\* After a call that was not made, neither.
LEMMA GiveUpIsQuiet ==
  ASSUME DialerInv, GiveUp, dpc # "terminal", UNCHANGED clockOn
  PROVE  CallsAreReal'
  <1>1. sent' = FALSE /\ clockOn' = FALSE
    BY DEF GiveUp, Leave, DialerInv, TypeOK, RealInv
  <1> QED
    BY <1>1 DEF CallsAreReal

\* NextTry gives up or begins again.
LEMMA NextTryIsQuiet ==
  ASSUME DialerInv, CallsAreReal, NEW b, NextTry(b), dpc # "terminal", UNCHANGED clockOn
  PROVE  CallsAreReal'
  <1>1. (dpc' = "hangup" /\ UNCHANGED sent) \/ GiveUp
    BY DEF NextTry
  <1> QED
    BY <1>1, QuietUntilDone, GiveUpIsQuiet

\* What the dialer finds is a connection.
LEMMA RealStep ==
  ASSUME DialerInv, CallsAreReal, ~ShortReplies, [DialerNext]_dialerVars
  PROVE  CallsAreReal'
  <1>1. CASE Choose
    BY <1>1 DEF Choose, CallsAreReal
  <1>2. CASE ChooseNot
    BY <1>2 DEF ChooseNot, history, atAth, CallsAreReal
  <1>3. CASE HangUp
    BY <1>3, QuietUntilDone DEF HangUp
  <1>4. CASE ChooseMode \/ PurgeLine \/ Settle \/ SameSecond
    <2>1. dpc # "terminal" /\ dpc' # "terminal" /\ UNCHANGED sent
      BY <1>4 DEF ChooseMode, PurgeLine, Settle, SameSecond, history
    <2> QED
      BY <2>1, QuietUntilDone
  <1>5. CASE Dial
    BY <1>5, QuietUntilDone DEF Dial
  <1>6. CASE LookForText
    <2>1. PICK b \in Contents :
            \/ FindsConnect(b) /\ up' = Noticed
            \/ NextTry(b) /\ UNCHANGED clockOn
            \/ dpc' = "time" /\ UNCHANGED sent
      BY <1>6 DEF LookForText
    <2>2. dpc = "look" /\ UNCHANGED wasOnline
      BY <1>6 DEF LookForText, atAth
    <2>3. CASE FindsConnect(b) /\ up' = Noticed
      <3>1. "CONNECT" \in text
        BY <2>3, ContentsFacts DEF DialerInv
      <3> QED
        BY <2>2, <2>3, <3>1 DEF DialerInv, RealInv, Looking, Noticed, CallsAreReal
    <2> QED
      BY <2>1, <2>2, <2>3, NextTryIsQuiet, QuietUntilDone
  <1>7. CASE LookForCarrier
    <2>1. dpc = "look" /\ ~byText /\ UNCHANGED <<wasOnline, modem>>
      BY <1>7 DEF LookForCarrier, modemVars, atAth
    <2>2. CASE Carrier
      <3>1. modem = "online" /\ up' = Noticed
        BY <1>7, <2>1, <2>2 DEF LookForCarrier, Carrier, DialerInv, RealInv
      <3> QED
        BY <2>1, <3>1 DEF DialerInv, RealInv, Noticed, CallsAreReal
    <2>3. CASE ~Carrier
      BY <1>7, <2>1, <2>3, QuietUntilDone DEF LookForCarrier
    <2> QED
      BY <2>2, <2>3
  <1>8. CASE UserBreaks
    BY <1>8, GiveUpIsQuiet DEF UserBreaks
  <1>9. CASE NewSecond
    <2>1. dpc = "time" /\ UNCHANGED clockOn
      BY <1>9 DEF NewSecond
    <2>2. NextTry(buf) \/ (dpc' = "look" /\ UNCHANGED sent)
      BY <1>9 DEF NewSecond
    <2> QED
      BY <2>1, <2>2, NextTryIsQuiet, QuietUntilDone
  <1>10. CASE ModemConnects
    BY <1>10 DEF ModemConnects, CallsAreReal
  <1>11. CASE ModemFails \/ HostSpeaks \/ SecondPasses \/ UNCHANGED dialerVars
    <2>1. UNCHANGED <<dpc, sent, clockOn, dials, wasOnline, up>>
      BY <1>11 DEF ModemFails, HostSpeaks, SecondPasses, dialerVars, history, atAth
    <2> QED
      BY <2>1 DEF CallsAreReal
  <1> QED
    BY <1>1, <1>2, <1>3, <1>4, <1>5, <1>6, <1>7, <1>8, <1>9, <1>10, <1>11 DEF DialerNext, Loop

\* A look misses no connection that the modem tells about.
LEMMA NoticeStep ==
  ASSUME DialerInv, CallsAreNoticed, ~ShortReplies, [DialerNext]_dialerVars
  PROVE  CallsAreNoticed'
  <1>1. CASE Choose
    BY <1>1 DEF Choose, CallsAreNoticed
  <1>2. CASE HangUp
    BY <1>2 DEF HangUp, CallsAreNoticed
  <1>3. CASE ModemConnects
    BY <1>3 DEF ModemConnects, CallsAreNoticed
  <1>4. CASE LookForText
    <2>1. PICK b \in Contents : up' = Noticed \/ (~FindsConnect(b) /\ up' = Unnoticed)
      BY <1>4 DEF LookForText
    <2>2. dpc = "look" /\ byText /\ UNCHANGED <<kind, wasOnline, waiting>>
      BY <1>4 DEF LookForText, atAth
    <2>3. CASE up' = Noticed
      BY <2>3 DEF Noticed, CallsAreNoticed
    <2>4. CASE ~FindsConnect(b) /\ up' = Unnoticed
      <3>1. "CONNECT" \notin text
        BY <2>4, ContentsFacts DEF DialerInv
      <3>2. up = "new" => ~kind.codes
        BY <2>2, <3>1 DEF DialerInv, NoticeInv, Looking
      <3>3. ~kind.codes /\ Audible => wasOnline
        BY <2>2 DEF DialerInv, NoticeInv
      <3> QED
        BY <2>2, <2>4, <3>2, <3>3 DEF Unnoticed, CallsAreNoticed, Audible
    <2> QED
      BY <2>1, <2>3, <2>4
  <1>5. CASE LookForCarrier
    <2>1. /\ UNCHANGED <<kind, wasOnline, waiting>>
          /\ up' = Noticed \/ (~Carrier /\ up' = Unnoticed)
      BY <1>5 DEF LookForCarrier, modemVars, atAth
    <2> QED
      BY <2>1 DEF Noticed, Unnoticed, Carrier, CallsAreNoticed, Audible
  <1>6. CASE \/ ChooseNot \/ ChooseMode \/ PurgeLine \/ Dial \/ Settle \/ SameSecond \/ NewSecond
             \/ UserBreaks \/ ModemFails \/ HostSpeaks \/ SecondPasses \/ UNCHANGED dialerVars
    <2>1. UNCHANGED <<kind, wasOnline, waiting, up>>
      BY <1>6 DEF ChooseNot, ChooseMode, PurgeLine, Dial, Settle, SameSecond, NewSecond, UserBreaks,
        ModemFails, HostSpeaks, SecondPasses, dialerVars, modemVars, history, atAth
    <2> QED
      BY <2>1 DEF CallsAreNoticed, Audible
  <1> QED
    BY <1>1, <1>2, <1>3, <1>4, <1>5, <1>6 DEF DialerNext, Loop

-----------------------------------------------------------------------------
\* The state of a call is consistent at every place of the redial loop: RTR=
\* bounds the numbers dialed, and what will be taken for a connection is one
\* ($3446 to $3509, for modems whose replies are long).
THEOREM DialerInvariant == ~ShortReplies => (DialerSpec => []DialerInv)
  <1> SUFFICES ASSUME ~ShortReplies PROVE DialerSpec => []DialerInv
    OBVIOUS
  <1>1. DialerInit => DialerInv
    BY InitHolds
  <1>2. DialerInv /\ [DialerNext]_dialerVars => DialerInv'
    BY StepHolds
  <1> QED
    BY <1>1, <1>2, PTL DEF DialerSpec

\* The connect string is sent and the clock started only on a connection: no
\* answer to an earlier try and no remnant in the buffer starts them.
THEOREM CallsReal == ~ShortReplies => (DialerSpec => []CallsAreReal)
  <1> SUFFICES ASSUME ~ShortReplies PROVE DialerSpec => []CallsAreReal
    OBVIOUS
  <1>1. DialerInit => DialerInv /\ CallsAreReal
    BY InitHolds DEF DialerInit, CallsAreReal
  <1>2. DialerInv /\ CallsAreReal /\ [DialerNext]_dialerVars => DialerInv' /\ CallsAreReal'
    BY StepHolds, RealStep
  <1> QED
    BY <1>1, <1>2, PTL DEF DialerSpec

\* A connection made while the dialer looks for an answer, and told about, is
\* noticed at the next look, in words or by the carrier.
THEOREM CallsNoticed == ~ShortReplies => (DialerSpec => []CallsAreNoticed)
  <1> SUFFICES ASSUME ~ShortReplies PROVE DialerSpec => []CallsAreNoticed
    OBVIOUS
  <1>1. DialerInit => DialerInv /\ CallsAreNoticed
    BY InitHolds DEF DialerInit, CallsAreNoticed
  <1>2. DialerInv /\ CallsAreNoticed /\ [DialerNext]_dialerVars => DialerInv' /\ CallsAreNoticed'
    BY StepHolds, NoticeStep
  <1> QED
    BY <1>1, <1>2, PTL DEF DialerSpec
=============================================================================
