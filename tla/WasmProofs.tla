----------------------------- MODULE WasmProofs -----------------------------
(***************************************************************************)
(* Proofs about XRoar in the browser, for any machines, cartridges, files  *)
(* and software: no file is used whose download has not ended, and what is *)
(* selected while all is quiet is what runs in the end.                    *)
(*                                                                         *)
(* FilesComeFirst alone is not inductive: that a ROM is there when it is   *)
(* used follows from the count of pending downloads being zero, so the     *)
(* count must be that of the locked files (Good), and a request that was   *)
(* put off must have its files locked or there whenever it is tried again. *)
(* SelectionTakesEffect speaks of the end, its invariant (SelectionInv) of *)
(* the messages that are on their way there; and that there is nothing     *)
(* else to set up when all is quiet is an invariant as well (SetUp).       *)
(***************************************************************************)
EXTENDS Wasm, FiniteSetTheorems, SequenceTheorems, TLAPS

Events ==
  [kind : {"machine"}, of : Machines] \cup [kind : {"cart"}, of : Carts]
    \cup [kind : {"load"}, of : Files]

EmuStates ==
  [locked : SUBSET Files, waiting : Int, machine : Machines \cup {None},
   cart : Carts \cup {None}, loaded : Files \cup {None},
   enabled : [Machines -> BOOLEAN], default : [Machines -> Carts \cup {None}],
   rom : [Carts -> Files], out : Seq(Events)]

\* The files of the events of a list that load one.
Loads(q) == {q[i].of : i \in {j \in DOMAIN q : q[j].kind = "load"}}

\* What the messages work on is consistent with the files that are there.
Good(s, there) ==
  /\ s \in EmuStates
  /\ IsFiniteSet(s.locked) /\ s.waiting = Cardinality(s.locked)
  /\ s.locked \cap there = {}
  /\ s.machine # None => Roms[s.machine] \subseteq there
  /\ s.cart # None => s.loaded \in there
  /\ Loads(s.out) \subseteq s.locked \cup there

FilesInv ==
  /\ Good(emu, settled) /\ emu.out = <<>>
  /\ settled \subseteq Files
  /\ due \in Seq(Events) /\ later \in Seq(Events)
  /\ Loads(due) \cup Loads(later) \cup Media \subseteq emu.locked \cup settled
  /\ place # "idle" => Loads(due) \subseteq settled
  /\ phase = "run" => Media \subseteq settled

-----------------------------------------------------------------------------
(***************************************************************************)
(* Lists.                                                                  *)
(***************************************************************************)
LEMMA LoadsEmpty == Loads(<<>>) = {}
BY DEF Loads

LEMMA LoadsOf ==
  ASSUME NEW q \in Seq(Events)
  PROVE  \A f : f \in Loads(q) <=> \E i \in 1..Len(q) : q[i].kind = "load" /\ f = q[i].of
BY DEF Loads

LEMMA LoadsAppend ==
  ASSUME NEW q \in Seq(Events), NEW e \in Events
  PROVE  /\ Append(q, e) \in Seq(Events)
         /\ Loads(Append(q, e)) \subseteq Loads(q) \cup (IF e.kind = "load" THEN {e.of} ELSE {})
<1>1. Append(q, e) \in Seq(Events)
  OBVIOUS
<1>2. ASSUME NEW f \in Loads(Append(q, e))
      PROVE  f \in Loads(q) \/ (e.kind = "load" /\ f = e.of)
  <2> DEFINE a == Append(q, e)
  <2>0. a \in Seq(Events) /\ f \in Loads(a)
    BY <1>1, <1>2
  <2> HIDE DEF a
  <2>1. PICK i \in 1..Len(a) : a[i].kind = "load" /\ f = a[i].of
    BY <2>0, LoadsOf
  <2> USE DEF a
  <2>2. CASE i = Len(q) + 1
    BY <2>1, <2>2
  <2>3. CASE i # Len(q) + 1
    <3>1. i \in 1..Len(q) /\ Append(q, e)[i] = q[i]
      BY <2>1, <2>3
    <3> QED BY <3>1, <2>1, LoadsOf
  <2> QED BY <2>2, <2>3
<1> QED BY <1>1, <1>2

LEMMA LoadsConcat ==
  ASSUME NEW q \in Seq(Events), NEW r \in Seq(Events)
  PROVE  q \o r \in Seq(Events) /\ Loads(q \o r) \subseteq Loads(q) \cup Loads(r)
<1>1. q \o r \in Seq(Events)
  OBVIOUS
<1>2. ASSUME NEW f \in Loads(q \o r)
      PROVE  f \in Loads(q) \/ f \in Loads(r)
  <2> DEFINE a == q \o r
  <2>0. a \in Seq(Events) /\ f \in Loads(a)
    BY <1>1, <1>2
  <2> HIDE DEF a
  <2>1. PICK i \in 1..Len(a) : a[i].kind = "load" /\ f = a[i].of
    BY <2>0, LoadsOf
  <2> USE DEF a
  <2>2. CASE i <= Len(q)
    <3>1. i \in 1..Len(q) /\ (q \o r)[i] = q[i]
      BY <2>1, <2>2
    <3> QED BY <3>1, <2>1, LoadsOf
  <2>3. CASE i > Len(q)
    <3>1. i - Len(q) \in 1..Len(r) /\ (q \o r)[i] = r[i - Len(q)]
      BY <2>1, <2>3
    <3> QED BY <3>1, <2>1, LoadsOf
  <2> QED BY <2>1, <2>2, <2>3
<1> QED BY <1>1, <1>2

LEMMA LoadsTail ==
  ASSUME NEW q \in Seq(Events), q # <<>>
  PROVE  /\ Tail(q) \in Seq(Events) /\ Head(q) \in Events
         /\ Loads(Tail(q)) \subseteq Loads(q)
         /\ Head(q).kind = "load" => Head(q).of \in Loads(q)
<1>1. Tail(q) \in Seq(Events) /\ Head(q) \in Events /\ Head(q) = q[1] /\ 1 \in 1..Len(q)
  OBVIOUS
<1>2. ASSUME NEW f \in Loads(Tail(q)) PROVE f \in Loads(q)
  <2>1. PICK i \in 1..Len(Tail(q)) : Tail(q)[i].kind = "load" /\ f = Tail(q)[i].of
    BY <1>1, <1>2, LoadsOf
  <2>2. i + 1 \in 1..Len(q) /\ Tail(q)[i] = q[i + 1]
    BY <2>1
  <2> QED BY <2>1, <2>2, LoadsOf
<1> QED BY <1>1, <1>2, LoadsOf

-----------------------------------------------------------------------------
(***************************************************************************)
(* The messages.                                                           *)
(***************************************************************************)
\* A download that is pending is counted.
LEMMA NothingPending ==
  ASSUME NEW s, Good(s, settled), s.waiting = 0
  PROVE  s.locked = {}
BY FS_EmptySet DEF Good

LEMMA WgetFields ==
  ASSUME NEW s \in EmuStates, NEW files
  PROVE  LET new == files \ (s.locked \cup settled)
         IN /\ Wget(s, files).locked = s.locked \cup new
            /\ Wget(s, files).waiting = s.waiting + Cardinality(new)
            /\ Wget(s, files).machine = s.machine
            /\ Wget(s, files).cart = s.cart
            /\ Wget(s, files).loaded = s.loaded
            /\ Wget(s, files).enabled = s.enabled
            /\ Wget(s, files).default = s.default
            /\ Wget(s, files).rom = s.rom
            /\ Wget(s, files).out = s.out
BY DEF Wget, EmuStates

LEMMA WgetGood ==
  ASSUME NEW s, Good(s, settled), NEW files \in SUBSET Files
  PROVE  /\ Good(Wget(s, files), settled)
         /\ files \subseteq Wget(s, files).locked \cup settled
         /\ s.locked \subseteq Wget(s, files).locked
<1> DEFINE new == files \ (s.locked \cup settled)
           w == Wget(s, files)
<1>1. s \in EmuStates
  BY DEF Good
<1>2. /\ w.locked = s.locked \cup new /\ w.waiting = s.waiting + Cardinality(new)
      /\ w.machine = s.machine /\ w.cart = s.cart /\ w.loaded = s.loaded
      /\ w.out = s.out
  BY <1>1, WgetFields
<1>3. IsFiniteSet(new) /\ Cardinality(new) \in Nat
  BY WasmAssumption, FS_Subset, FS_CardinalityType DEF WasmAssumption
<1>4. IsFiniteSet(s.locked \cup new) /\ Cardinality(s.locked \cup new) = s.waiting + Cardinality(new)
  <2>1. IsFiniteSet(s.locked) /\ s.waiting = Cardinality(s.locked) /\ s.locked \cap new = {}
    BY DEF Good
  <2>2. Cardinality(s.locked \cap new) = 0
    BY <2>1, FS_EmptySet
  <2>3. Cardinality(s.locked) \in Nat
    BY <2>1, FS_CardinalityType
  <2>4. /\ IsFiniteSet(s.locked \cup new)
        /\ Cardinality(s.locked \cup new)
             = Cardinality(s.locked) + Cardinality(new) - Cardinality(s.locked \cap new)
    BY <1>3, <2>1, FS_Union
  <2> HIDE DEF new
  <2> QED BY <1>3, <2>1, <2>2, <2>3, <2>4
<1>5. w \in EmuStates
  <2>1. s.locked \cup new \in SUBSET Files /\ s.waiting + Cardinality(new) \in Int
    BY <1>1, <1>3 DEF EmuStates
  <2> QED BY <1>1, <2>1 DEF Wget, EmuStates
<1>6. w.locked \cap settled = {} /\ files \subseteq w.locked \cup settled
  BY <1>2 DEF Good
<1> QED BY <1>2, <1>4, <1>5, <1>6 DEF Good

LEMMA LaterGood ==
  ASSUME NEW s, Good(s, settled), NEW e \in Events,
         e.kind = "load" => e.of \in s.locked \cup settled
  PROVE  /\ Good(Later(s, e), settled) /\ Later(s, e).locked = s.locked
         /\ e.kind # "load" => Loads(Later(s, e).out) \subseteq Loads(s.out)
<1>1. s \in EmuStates /\ s.out \in Seq(Events)
  BY DEF Good, EmuStates
<1>2. /\ Append(s.out, e) \in Seq(Events)
      /\ Loads(Append(s.out, e)) \subseteq s.locked \cup settled
      /\ e.kind # "load" => Loads(Append(s.out, e)) \subseteq Loads(s.out)
  BY <1>1, LoadsAppend DEF Good
<1>3. /\ Later(s, e) \in EmuStates /\ Later(s, e).out = Append(s.out, e)
      /\ Later(s, e).locked = s.locked /\ Later(s, e).waiting = s.waiting
      /\ Later(s, e).machine = s.machine /\ Later(s, e).cart = s.cart
      /\ Later(s, e).loaded = s.loaded
  BY <1>1, <1>2 DEF Later, EmuStates
<1> QED BY <1>2, <1>3 DEF Good

\* The ROM is there, so that the cartridge may go in.
LEMMA InsertGood ==
  ASSUME NEW s, Good(s, settled), s.machine \in Machines,
         NEW c \in Carts \cup {None}, c # None => s.rom[c] \in settled
  PROVE  /\ Good(Insert(s, c), settled) /\ Insert(s, c).locked = s.locked
         /\ Insert(s, c).out = s.out
<1>1. s \in EmuStates
  BY DEF Good
<1>2. CASE c = s.cart
  BY <1>2 DEF Insert
<1>3. CASE c # s.cart
  <2> DEFINE w == Insert(s, c)
             l == IF c = None THEN None ELSE s.rom[c]
             en == [s.enabled EXCEPT ![s.machine] = c # None]
             d == [s.default EXCEPT ![s.machine] = IF c = None THEN @ ELSE c]
  <2>1. l \in Files \cup {None}
    BY <1>1 DEF EmuStates
  <2>2. en \in [Machines -> BOOLEAN] /\ d \in [Machines -> Carts \cup {None}]
    BY <1>1 DEF EmuStates
  <2>3. w = [s EXCEPT !.cart = c, !.loaded = l, !.enabled = en, !.default = d]
    BY <1>1, <1>3 DEF Insert, EmuStates
  <2> HIDE DEF l, en, d, w
  <2>4. /\ w \in EmuStates /\ w.locked = s.locked /\ w.waiting = s.waiting
        /\ w.machine = s.machine /\ w.cart = c /\ w.loaded = l /\ w.out = s.out
    BY <1>1, <2>1, <2>2, <2>3 DEF EmuStates
  <2>5. c # None => l \in settled
    BY DEF l
  <2>6. Good(w, settled)
    BY <2>4, <2>5 DEF Good
  <2> QED BY <2>4, <2>6 DEF w
<1> QED BY <1>2, <1>3

LEMMA SetCartridgeGood ==
  ASSUME NEW s, Good(s, settled), NEW c \in Carts \cup {None}
  PROVE  /\ Good(SetCartridge(s, c), settled) /\ s.locked \subseteq SetCartridge(s, c).locked
         /\ Loads(SetCartridge(s, c).out) \subseteq Loads(s.out)
<1> DEFINE files == IF c = None THEN {} ELSE {s.rom[c]}
           w == Wget(s, files)
<1>1. s \in EmuStates
  BY DEF Good
<1>2. files \in SUBSET Files
  BY <1>1 DEF EmuStates
<1>3. Good(w, settled) /\ files \subseteq w.locked \cup settled /\ s.locked \subseteq w.locked
  BY <1>2, WgetGood
<1>4. w.machine = s.machine /\ w.rom = s.rom /\ w.out = s.out
  BY <1>1, WgetFields
<1>5. CASE s.machine = None \/ s.machine \in NoPort
  BY <1>5 DEF SetCartridge
<1>6. CASE ~(s.machine = None \/ s.machine \in NoPort)
  <2>1. SetCartridge(s, c) =
          IF c # None /\ w.waiting # 0 THEN Later(w, CartEvent(c)) ELSE Insert(w, c)
    BY <1>6 DEF SetCartridge
  <2>2. w.machine \in Machines
    BY <1>1, <1>4, <1>6 DEF EmuStates
  <2> HIDE DEF w, files
  <2>3. CASE c # None /\ w.waiting # 0
    <3>1. CartEvent(c) \in Events /\ CartEvent(c).kind # "load"
      BY <2>3 DEF CartEvent, Events
    <3> QED BY <1>3, <1>4, <2>1, <2>3, <3>1, LaterGood
  <2>4. CASE ~(c # None /\ w.waiting # 0)
    <3>1. c # None => w.rom[c] \in settled
      <4> SUFFICES ASSUME c # None PROVE w.rom[c] \in settled
        OBVIOUS
      <4>1. w.locked = {}
        BY <1>3, <2>4, NothingPending
      <4> QED BY <1>3, <1>4, <4>1 DEF files
    <3>2. /\ Good(Insert(w, c), settled) /\ Insert(w, c).locked = w.locked
          /\ Insert(w, c).out = w.out
      BY <1>3, <2>2, <3>1, InsertGood
    <3> QED BY <1>3, <1>4, <2>1, <2>4, <3>2
  <2> QED BY <2>3, <2>4
<1> QED BY <1>5, <1>6

LEMMA CartOfIsCart ==
  ASSUME NEW s \in EmuStates, NEW m \in Machines
  PROVE  CartOf(s, m) \in Carts \cup {None} /\ Needs(s, m) \in SUBSET Files
BY WasmAssumption DEF CartOf, Needs, EmuStates, WasmAssumption

LEMMA SetMachineGood ==
  ASSUME NEW s, Good(s, settled), NEW m \in Machines
  PROVE  /\ Good(SetMachine(s, m), settled) /\ s.locked \subseteq SetMachine(s, m).locked
         /\ Loads(SetMachine(s, m).out) \subseteq Loads(s.out)
<1> DEFINE w == Wget(s, Needs(s, m))
<1>1. s \in EmuStates
  BY DEF Good
<1>2. Needs(s, m) \in SUBSET Files
  BY <1>1, CartOfIsCart
<1>3. /\ Good(w, settled) /\ Needs(s, m) \subseteq w.locked \cup settled
      /\ s.locked \subseteq w.locked /\ w.out = s.out
  BY <1>1, <1>2, WgetGood, WgetFields
<1>4. Roms[m] \subseteq Needs(s, m)
  BY DEF Needs
<1> DEFINE n == [w EXCEPT !.machine = m, !.cart = None, !.loaded = None]
<1>5. SetMachine(s, m) =
        IF w.waiting # 0 THEN Later(w, MachineEvent(m)) ELSE SetCartridge(n, CartOf(w, m))
  BY DEF SetMachine
<1> HIDE DEF w
<1>6. CASE w.waiting # 0
  <2>1. MachineEvent(m) \in Events /\ MachineEvent(m).kind # "load"
    BY DEF MachineEvent, Events
  <2> QED BY <1>3, <1>5, <1>6, <2>1, LaterGood
<1>7. CASE w.waiting = 0
  <2>1. w.locked = {}
    BY <1>3, <1>7, NothingPending
  <2>2. w \in EmuStates
    BY <1>3 DEF Good
  <2>3. /\ n \in EmuStates /\ n.locked = w.locked /\ n.waiting = w.waiting
        /\ n.machine = m /\ n.cart = None /\ n.out = w.out
    BY <2>2 DEF EmuStates
  <2>4. Good(n, settled)
    BY <1>3, <1>4, <2>1, <2>3 DEF Good
  <2>5. CartOf(w, m) \in Carts \cup {None}
    BY <2>2, CartOfIsCart
  <2> HIDE DEF n
  <2>6. /\ Good(SetCartridge(n, CartOf(w, m)), settled)
        /\ n.locked \subseteq SetCartridge(n, CartOf(w, m)).locked
        /\ Loads(SetCartridge(n, CartOf(w, m)).out) \subseteq Loads(n.out)
    BY <2>4, <2>5, SetCartridgeGood
  <2> QED BY <1>3, <1>5, <1>7, <2>3, <2>6
<1> QED BY <1>6, <1>7

LEMMA ToggleGood ==
  ASSUME NEW s, Good(s, settled)
  PROVE  Good(Toggle(s), settled) /\ s.locked \subseteq Toggle(s).locked
<1>1. CASE s.machine = None \/ s.machine \in NoPort
  BY <1>1 DEF Toggle
<1>2. CASE ~(s.machine = None \/ s.machine \in NoPort)
  <2> DEFINE en == [s.enabled EXCEPT ![s.machine] = ~@]
             t == [s EXCEPT !.enabled = en]
  <2>1. s \in EmuStates /\ s.machine \in Machines
    BY <1>2 DEF Good, EmuStates
  <2>2. en \in [Machines -> BOOLEAN]
    BY <2>1 DEF EmuStates
  <2>3. Toggle(s) = SetCartridge(t, CartOf(t, t.machine))
    BY <1>2, <2>1 DEF Toggle, EmuStates
  <2> HIDE DEF en
  <2>4. /\ t \in EmuStates /\ t.locked = s.locked /\ t.waiting = s.waiting
        /\ t.machine = s.machine /\ t.cart = s.cart /\ t.loaded = s.loaded /\ t.out = s.out
    BY <2>1, <2>2 DEF EmuStates
  <2> HIDE DEF t
  <2>5. Good(t, settled)
    BY <2>4 DEF Good
  <2>6. CartOf(t, t.machine) \in Carts \cup {None}
    BY <2>1, <2>4, CartOfIsCart
  <2> QED BY <2>3, <2>4, <2>5, <2>6, SetCartridgeGood
<1> QED BY <1>1, <1>2

LEMMA LoadFileGood ==
  ASSUME NEW s, Good(s, settled), NEW f \in Files
  PROVE  Good(LoadFile(s, f), settled) /\ s.locked \subseteq LoadFile(s, f).locked
<1>1. /\ Good(Wget(s, {f}), settled) /\ {f} \subseteq Wget(s, {f}).locked \cup settled
      /\ s.locked \subseteq Wget(s, {f}).locked
  BY WgetGood
<1>2. LoadEvent(f) \in Events /\ LoadEvent(f).of = f
  BY DEF LoadEvent, Events
<1> QED BY <1>1, <1>2, LaterGood DEF LoadFile

LEMMA SetMachineCartGood ==
  ASSUME NEW s, Good(s, settled), NEW m \in Machines, NEW c \in Carts \cup {None},
         NEW rom \in Files \cup {None}
  PROVE  /\ Good(SetMachineCart(s, m, c, rom), settled)
         /\ s.locked \subseteq SetMachineCart(s, m, c, rom).locked
<1> DEFINE n == SetMachine(s, m)
           r == [n.rom EXCEPT ![c] = rom]
           x == IF c # None /\ rom # None THEN [n EXCEPT !.rom = r] ELSE n
<1>1. Good(n, settled) /\ s.locked \subseteq n.locked /\ n \in EmuStates
  BY SetMachineGood DEF Good
<1>2. SetMachineCart(s, m, c, rom) = SetCartridge(x, c)
  BY <1>1 DEF SetMachineCart, EmuStates
<1> HIDE DEF n
<1>3. /\ x \in EmuStates /\ x.locked = n.locked /\ x.waiting = n.waiting
      /\ x.machine = n.machine /\ x.cart = n.cart /\ x.loaded = n.loaded /\ x.out = n.out
  <2>1. c # None /\ rom # None => r \in [Carts -> Files]
    BY <1>1 DEF EmuStates
  <2> HIDE DEF r
  <2> QED BY <1>1, <2>1 DEF EmuStates
<1> HIDE DEF x
<1>4. Good(x, settled)
  BY <1>1, <1>3 DEF Good
<1> QED BY <1>1, <1>2, <1>3, <1>4, SetCartridgeGood

LEMMA SelectGood ==
  ASSUME NEW s, Good(s, settled), NEW p \in Software
  PROVE  Good(Select(s, p), settled) /\ s.locked \subseteq Select(s, p).locked
<1>1. /\ p.machine \in Machines /\ p.cart \in Carts \cup {None}
      /\ p.rom \in Files \cup {None} /\ p.media \in Files \cup {None}
  BY WasmAssumption DEF WasmAssumption
<1> DEFINE n == IF p.media = None THEN s ELSE LoadFile(s, p.media)
<1>2. Good(n, settled) /\ s.locked \subseteq n.locked
  BY <1>1, LoadFileGood
<1>3. Select(s, p) = SetMachineCart(n, p.machine, p.cart, p.rom)
  BY DEF Select
<1> HIDE DEF n
<1> QED BY <1>1, <1>2, <1>3, SetMachineCartGood

-----------------------------------------------------------------------------
(***************************************************************************)
(* The steps.                                                              *)
(***************************************************************************)
LEMMA WithoutOut ==
  ASSUME NEW s \in EmuStates
  PROVE  LET w == [s EXCEPT !.out = <<>>]
         IN /\ w \in EmuStates /\ w.out = <<>> /\ w.locked = s.locked
            /\ w.waiting = s.waiting /\ w.machine = s.machine
            /\ w.cart = s.cart /\ w.loaded = s.loaded
<1> DEFINE q == <<>>
<1>1. q \in Seq(Events)
  OBVIOUS
<1> HIDE DEF q
<1>2. LET w == [s EXCEPT !.out = q]
      IN /\ w \in EmuStates /\ w.out = q /\ w.locked = s.locked
         /\ w.waiting = s.waiting /\ w.machine = s.machine
         /\ w.cart = s.cart /\ w.loaded = s.loaded
  BY <1>1 DEF EmuStates
<1> QED BY <1>2 DEF q

\* Its events are in a list now.
LEMMA EmptiedGood ==
  ASSUME NEW s, Good(s, settled), Emptied(s), UNCHANGED settled
  PROVE  /\ Good(emu, settled)' /\ emu'.out = <<>> /\ emu'.locked = s.locked
         /\ s.out \in Seq(Events) /\ Loads(s.out) \subseteq emu'.locked \cup settled
<1>1. s \in EmuStates /\ s.out \in Seq(Events)
  BY DEF Good, EmuStates
<1>2. /\ emu' \in EmuStates /\ emu'.out = <<>> /\ emu'.locked = s.locked
      /\ emu'.waiting = s.waiting /\ emu'.machine = s.machine
      /\ emu'.cart = s.cart /\ emu'.loaded = s.loaded
  BY <1>1, WithoutOut DEF Emptied
<1> QED BY <1>1, <1>2, LoadsEmpty DEF Good

\* The first machine and the media given with it are put on their way.
LEMMA FilesInit == Init => FilesInv
<1> SUFFICES ASSUME Init PROVE FilesInv
  OBVIOUS
<1> DEFINE s == Wget(SetMachine(Nothing, First), Media)
<1>1. /\ phase = "init" /\ place = "idle" /\ settled = {} /\ later = <<>>
      /\ emu = [s EXCEPT !.out = <<>>] /\ due = s.out
  BY DEF Init
<1>2. Good(Nothing, settled)
  <2>1. Nothing \in EmuStates
    <3>1. [m \in Machines |-> StockCart[m] # None] \in [Machines -> BOOLEAN]
      OBVIOUS
    <3> QED BY <3>1, WasmAssumption DEF Nothing, EmuStates, WasmAssumption
  <2>2. /\ Nothing.locked = {} /\ Nothing.waiting = 0 /\ Nothing.machine = None
        /\ Nothing.cart = None /\ Nothing.out = <<>>
    BY DEF Nothing
  <2> QED BY <2>1, <2>2, FS_EmptySet, LoadsEmpty DEF Good
<1>3. Good(SetMachine(Nothing, First), settled)
  BY <1>2, SetMachineGood, WasmAssumption DEF WasmAssumption
<1>4. Good(s, settled) /\ Media \subseteq s.locked \cup settled
  BY <1>3, WgetGood, WasmAssumption DEF WasmAssumption
<1> HIDE DEF s
<1>5. s \in EmuStates /\ s.out \in Seq(Events) /\ Loads(s.out) \subseteq s.locked \cup settled
  BY <1>4 DEF Good, EmuStates
<1>6. /\ emu \in EmuStates /\ emu.out = <<>> /\ emu.locked = s.locked
      /\ emu.waiting = s.waiting /\ emu.machine = s.machine
      /\ emu.cart = s.cart /\ emu.loaded = s.loaded
  BY <1>1, <1>5, WithoutOut
<1>7. Good(emu, settled)
  BY <1>4, <1>6, LoadsEmpty DEF Good
<1> QED BY <1>1, <1>4, <1>5, <1>6, <1>7, LoadsEmpty DEF FilesInv

\* What the page asks for goes to the end of the later events.
LEMMA FilesUser ==
  ASSUME FilesInv, NEW s, User(s), Good(s, settled), emu.locked \subseteq s.locked
  PROVE  FilesInv'
<1>1. /\ place = "idle" /\ Emptied(s) /\ later' = later \o s.out
      /\ UNCHANGED <<phase, place, settled, due>>
  BY DEF User
<1>2. /\ Good(emu, settled)' /\ emu'.out = <<>> /\ emu'.locked = s.locked
      /\ s.out \in Seq(Events) /\ Loads(s.out) \subseteq emu'.locked \cup settled
  BY <1>1, EmptiedGood
<1>3. /\ later' \in Seq(Events)
      /\ Loads(later') \subseteq Loads(later) \cup Loads(s.out)
  BY <1>1, <1>2, LoadsConcat DEF FilesInv
<1> QED BY <1>1, <1>2, <1>3 DEF FilesInv

LEMMA FilesUserActs == FilesInv /\ UserActs => FilesInv'
<1> SUFFICES ASSUME FilesInv, UserActs PROVE FilesInv'
  OBVIOUS
<1>1. Good(emu, settled)
  BY DEF FilesInv
<1>2. ASSUME NEW m \in Machines, UserMachine(m) PROVE FilesInv'
  BY <1>1, <1>2, FilesUser, SetMachineGood DEF UserMachine
<1>3. ASSUME NEW c \in Carts \cup {None}, UserCart(c) PROVE FilesInv'
  BY <1>1, <1>3, FilesUser, SetCartridgeGood DEF UserCart
<1>4. ASSUME NEW f \in Files, UserLoad(f) PROVE FilesInv'
  BY <1>1, <1>4, FilesUser, LoadFileGood DEF UserLoad
<1>5. ASSUME NEW p \in Software, UserSelect(p) PROVE FilesInv'
  BY <1>1, <1>5, FilesUser, SelectGood DEF UserSelect
<1> QED BY <1>2, <1>3, <1>4, <1>5 DEF UserActs

\* A download ends: the file is there before it is unlocked for anyone else.
LEMMA FilesFetched == FilesInv /\ Fetched => FilesInv'
<1> SUFFICES ASSUME FilesInv, Fetched PROVE FilesInv'
  OBVIOUS
<1>1. PICK f \in emu.locked :
        /\ emu' = [emu EXCEPT !.locked = @ \ {f}, !.waiting = @ - 1]
        /\ settled' = settled \cup {f}
  BY DEF Fetched
<1>2. place = "idle" /\ UNCHANGED <<phase, place, due, later>>
  BY DEF Fetched
<1>3. /\ emu \in EmuStates /\ IsFiniteSet(emu.locked)
      /\ emu.waiting = Cardinality(emu.locked) /\ f \in Files
  BY <1>1 DEF FilesInv, Good, EmuStates
<1>4. /\ emu' \in EmuStates /\ emu'.locked = emu.locked \ {f}
      /\ emu'.waiting = emu.waiting - 1 /\ emu'.machine = emu.machine
      /\ emu'.cart = emu.cart /\ emu'.loaded = emu.loaded /\ emu'.out = emu.out
  <2> DEFINE l == emu.locked \ {f}
             n == emu.waiting - 1
  <2>1. l \in SUBSET Files /\ n \in Int
    BY <1>3 DEF EmuStates
  <2>2. emu' = [emu EXCEPT !.locked = l, !.waiting = n]
    BY <1>1, <1>3 DEF EmuStates
  <2> HIDE DEF l, n
  <2>3. /\ emu' \in EmuStates /\ emu'.locked = l /\ emu'.waiting = n
        /\ emu'.machine = emu.machine /\ emu'.cart = emu.cart
        /\ emu'.loaded = emu.loaded /\ emu'.out = emu.out
    BY <1>3, <2>1, <2>2 DEF EmuStates
  <2> QED BY <2>3 DEF l, n
<1>5. IsFiniteSet(emu'.locked) /\ emu'.waiting = Cardinality(emu'.locked)
  <2>1. /\ IsFiniteSet(emu.locked \ {f})
        /\ Cardinality(emu.locked \ {f}) = Cardinality(emu.locked) - 1
    BY <1>1, <1>3, FS_RemoveElement
  <2> QED BY <1>3, <1>4, <2>1
<1>6. Good(emu, settled)'
  BY <1>1, <1>4, <1>5, LoadsEmpty DEF FilesInv, Good
<1> QED BY <1>1, <1>2, <1>3, <1>4, <1>6 DEF FilesInv

\* No download is pending when finish_init or a frame begins.
LEMMA FilesBegin == FilesInv /\ (InitBegins \/ FrameBegins) => FilesInv'
<1> SUFFICES ASSUME FilesInv, InitBegins \/ FrameBegins PROVE FilesInv'
  OBVIOUS
<1>1. emu.waiting = 0 /\ UNCHANGED <<settled, emu, phase>>
  BY DEF InitBegins, FrameBegins, Stay
<1>2. emu.locked = {}
  BY <1>1, NothingPending DEF FilesInv
<1>3. CASE InitBegins
  <2>1. due' = due \o later /\ later' = <<>>
    BY <1>3 DEF InitBegins
  <2>2. due' \in Seq(Events) /\ Loads(due') \subseteq Loads(due) \cup Loads(later)
    BY <2>1, LoadsConcat DEF FilesInv
  <2> QED BY <1>1, <1>2, <2>1, <2>2, LoadsEmpty DEF FilesInv
<1>4. CASE FrameBegins
  BY <1>1, <1>2, <1>4 DEF FilesInv, FrameBegins
<1> QED BY <1>3, <1>4

LEMMA FilesInitEnds == FilesInv /\ InitEnds => FilesInv'
<1> SUFFICES ASSUME FilesInv, InitEnds PROVE FilesInv'
  OBVIOUS
<1>1. /\ place' = "idle" /\ UNCHANGED <<due, later, settled, emu>>
      /\ phase' = IF emu.waiting = 0 THEN "run" ELSE "init"
  BY DEF InitEnds, Stay
<1>2. phase' = "run" => emu.locked = {}
  BY <1>1, NothingPending DEF FilesInv
<1> QED BY <1>1, <1>2 DEF FilesInv

LEMMA FilesKey == FilesInv /\ Key => FilesInv'
<1> SUFFICES ASSUME FilesInv, Key PROVE FilesInv'
  OBVIOUS
<1> DEFINE s == Toggle(emu)
<1>1. /\ Emptied(s) /\ later' = later \o s.out
      /\ UNCHANGED <<phase, place, settled, due>>
  BY DEF Key
<1>2. Good(s, settled) /\ emu.locked \subseteq s.locked
  BY ToggleGood DEF FilesInv
<1> HIDE DEF s
<1>3. /\ Good(emu, settled)' /\ emu'.out = <<>> /\ emu'.locked = s.locked
      /\ s.out \in Seq(Events) /\ Loads(s.out) \subseteq emu'.locked \cup settled
  BY <1>1, <1>2, EmptiedGood
<1>4. /\ later' \in Seq(Events)
      /\ Loads(later') \subseteq Loads(later) \cup Loads(s.out)
  BY <1>1, <1>3, LoadsConcat DEF FilesInv
<1> QED BY <1>1, <1>2, <1>3, <1>4 DEF FilesInv

LEMMA FilesRun == FilesInv /\ (RunBegins \/ FrameEnds) => FilesInv'
BY LoadsEmpty DEF FilesInv, RunBegins, FrameEnds, Stay

\* A message may put itself off once more, but starts no loading of a file.
LEMMA HandleGood ==
  ASSUME FilesInv, NEW e \in Events
  PROVE  /\ Good(Handle(e), settled) /\ emu.locked \subseteq Handle(e).locked
         /\ Loads(Handle(e).out) = {}
<1>1. Good(emu, settled) /\ Loads(emu.out) = {}
  BY LoadsEmpty DEF FilesInv
<1>2. CASE e.kind = "machine"
  <2>1. e.of \in Machines /\ Handle(e) = SetMachine(emu, e.of)
    BY <1>2 DEF Events, Handle
  <2> QED BY <1>1, <2>1, SetMachineGood
<1>3. CASE e.kind = "cart"
  <2>1. e.of \in Carts /\ Handle(e) = SetCartridge(emu, e.of)
    BY <1>3 DEF Events, Handle
  <2> QED BY <1>1, <2>1, SetCartridgeGood
<1>4. CASE e.kind \notin {"machine", "cart"}
  <2>1. Handle(e) = emu
    BY <1>4 DEF Handle
  <2> QED BY <1>1, <2>1
<1> QED BY <1>2, <1>3, <1>4

LEMMA FilesDispatch ==
  ASSUME FilesInv, NEW now \in {"init", "events", "late"}, Dispatch(now)
  PROVE  FilesInv'
<1> DEFINE e == Head(due)
           s == Handle(e)
<1>1. /\ place \in {"init", "events", "late"} /\ due # <<>> /\ place' = now
      /\ Emptied(s)
      /\ due' = IF now = "late" THEN Tail(due) ELSE Tail(due) \o s.out
      /\ later' = IF now = "late" THEN later \o s.out ELSE later
      /\ UNCHANGED <<phase, settled>>
  BY DEF Dispatch
<1>2. /\ Tail(due) \in Seq(Events) /\ e \in Events /\ later \in Seq(Events)
      /\ Loads(Tail(due)) \subseteq Loads(due)
  BY <1>1, LoadsTail DEF FilesInv
<1>3. Good(s, settled) /\ emu.locked \subseteq s.locked /\ Loads(s.out) = {}
  BY <1>2, HandleGood
<1> HIDE DEF s
<1>4. /\ Good(emu, settled)' /\ emu'.out = <<>> /\ emu'.locked = s.locked
      /\ s.out \in Seq(Events)
  BY <1>1, <1>3, EmptiedGood
<1>5. /\ Tail(due) \o s.out \in Seq(Events) /\ later \o s.out \in Seq(Events)
      /\ Loads(Tail(due) \o s.out) \subseteq Loads(due)
      /\ Loads(later \o s.out) \subseteq Loads(later)
  BY <1>2, <1>3, <1>4, LoadsConcat
<1>6. /\ due' \in Seq(Events) /\ later' \in Seq(Events)
      /\ Loads(due') \subseteq Loads(due) /\ Loads(later') \subseteq Loads(later)
  BY <1>1, <1>2, <1>5
<1> QED BY <1>1, <1>3, <1>4, <1>6 DEF FilesInv

LEMMA FilesStep == FilesInv /\ [Next]_wasmVars => FilesInv'
<1> SUFFICES ASSUME FilesInv, [Next]_wasmVars PROVE FilesInv'
  OBVIOUS
<1>1. CASE UserActs
  BY <1>1, FilesUserActs
<1>2. CASE Key
  BY <1>2, FilesKey
<1>3. CASE TimeIsUp
  BY <1>3, FilesDispatch DEF TimeIsUp
<1>4. CASE TimeGoesOn
  <2>1. place \in {"init", "events", "late"} /\ Dispatch(place)
    BY <1>4 DEF TimeGoesOn, Dispatch
  <2> QED BY <2>1, FilesDispatch
<1>5. CASE Fetched
  BY <1>5, FilesFetched
<1>6. CASE InitBegins \/ FrameBegins
  BY <1>6, FilesBegin
<1>7. CASE InitEnds
  BY <1>7, FilesInitEnds
<1>8. CASE RunBegins \/ FrameEnds
  BY <1>8, FilesRun
<1>9. CASE UNCHANGED wasmVars
  BY <1>9 DEF wasmVars, FilesInv, Good, EmuStates
<1> QED BY <1>1, <1>2, <1>3, <1>4, <1>5, <1>6, <1>7, <1>8, <1>9 DEF Next, Browser

\* Neither a machine or a cartridge, nor an event that loads a file, nor the end
\* of the initialisation comes before the downloads it needs, for any machines,
\* cartridges, files and software, whenever the user selects something.
THEOREM FilesFirst == Spec => []FilesComeFirst
<1>1. FilesInv => FilesComeFirst
  <2> SUFFICES ASSUME FilesInv PROVE FilesComeFirst
    OBVIOUS
  <2>1. place \notin {"idle", "keys"} /\ due # <<>> /\ Head(due).kind = "load" =>
          Head(due).of \in settled
    BY LoadsTail DEF FilesInv
  <2> QED BY <2>1 DEF FilesInv, Good, FilesComeFirst
<1> QED BY <1>1, FilesInit, FilesStep, PTL DEF Spec
-----------------------------------------------------------------------------
(***************************************************************************)
(* What was selected.                                                      *)
(*                                                                         *)
(* SelectionTakesEffect speaks of the end only.  On the way there a        *)
(* message for the machine stands before the one for its cartridge, and    *)
(* what they need is locked or there, so that neither is put off again: a  *)
(* frame, or finish_init, that works them off begins only when all of it   *)
(* is there.                                                               *)
(***************************************************************************)
Has(q, k) == \E i \in DOMAIN q : q[i].kind = k

\* The machine that runs should have a cartridge, and has none.
CartWaits(s) ==
  /\ s.machine # None /\ s.machine \notin NoPort
  /\ s.cart = None /\ CartOf(s, s.machine) # None

\* What is not set up yet has its message waiting.
SetUp ==
  /\ emu.machine = None => Has(due, "machine") \/ Has(later, "machine")
  /\ CartWaits(emu) => Has(due, "cart") \/ Has(later, "cart")

\* The messages of list q are those for p, the machine first.
OnItsWay(q, p) ==
  /\ \A i \in DOMAIN q :
        /\ q[i].kind = "machine" => q[i].of = p.machine
        /\ q[i].kind = "cart" => q[i].of = p.cart /\ p.cart # None
  /\ \A i, j \in DOMAIN q : q[i].kind = "machine" /\ q[j].kind = "cart" => i < j

MachineToCome(s, q, there, p) ==
  Has(q, "machine") =>
    /\ Needs(s, p.machine) \subseteq s.locked \cup there
    /\ ~Has(q, "cart") /\ p.machine \notin NoPort =>
         p.cart = None /\ CartOf(s, p.machine) = None

CartToCome(s, q, there, p) ==
  Has(q, "cart") =>
    /\ s.rom[p.cart] \in s.locked \cup there
    /\ p.rom # None => s.rom[p.cart] = p.rom

MachineIsThere(s, q, p) ==
  ~Has(q, "machine") =>
    /\ s.machine = p.machine
    /\ p.machine \notin NoPort =>
         /\ s.cart = p.cart /\ p.rom # None => s.loaded = p.rom
         /\ ~Has(q, "cart") => s.cart = p.cart

\* Software p will be set up from state s by the messages of list q.
Comes(s, q, there, p) ==
  /\ OnItsWay(q, p) /\ MachineToCome(s, q, there, p)
  /\ CartToCome(s, q, there, p) /\ MachineIsThere(s, q, p)

SelectionInv ==
  sure =>
    /\ wish \in Software
    /\ place # "idle" => emu.waiting = 0
    /\ Comes(emu, due \o later, settled, wish)

-----------------------------------------------------------------------------
(* Messages in lists.                                                      *)

LEMMA HasOf ==
  ASSUME NEW q \in Seq(Events), NEW k
  PROVE  Has(q, k) <=> \E i \in 1..Len(q) : q[i].kind = k
BY DEF Has

LEMMA HasNone == \A k : ~Has(<<>>, k)
BY DEF Has

LEMMA HasAppend ==
  ASSUME NEW q \in Seq(Events), NEW e \in Events, NEW k
  PROVE  /\ Append(q, e) \in Seq(Events)
         /\ Has(Append(q, e), k) <=> Has(q, k) \/ e.kind = k
<1> DEFINE a == Append(q, e)
<1>1. /\ a \in Seq(Events) /\ Len(a) = Len(q) + 1 /\ Len(q) \in Nat
      /\ a[Len(q) + 1] = e /\ \A i \in 1..Len(q) : a[i] = q[i]
  OBVIOUS
<1> HIDE DEF a
<1>2. Has(a, k) <=> \E i \in 1..Len(a) : a[i].kind = k
  BY <1>1, HasOf
<1>3. Has(q, k) <=> \E i \in 1..Len(q) : q[i].kind = k
  BY HasOf
<1>4. 1..Len(a) = 1..Len(q) \cup {Len(q) + 1}
  BY <1>1
<1>5. Has(a, k) <=> Has(q, k) \/ e.kind = k
  BY <1>1, <1>2, <1>3, <1>4
<1> QED BY <1>1, <1>5 DEF a

LEMMA HasConcat ==
  ASSUME NEW q \in Seq(Events), NEW r \in Seq(Events), NEW k
  PROVE  /\ q \o r \in Seq(Events)
         /\ Has(q \o r, k) <=> Has(q, k) \/ Has(r, k)
<1> DEFINE a == q \o r
<1>1. /\ a \in Seq(Events) /\ Len(a) = Len(q) + Len(r) /\ Len(q) \in Nat /\ Len(r) \in Nat
      /\ \A i \in 1..Len(q) : a[i] = q[i]
      /\ \A i \in 1..Len(r) : a[i + Len(q)] = r[i]
  OBVIOUS
<1> HIDE DEF a
<1>2. Has(a, k) <=> \E i \in 1..Len(a) : a[i].kind = k
  BY <1>1, HasOf
<1>3. /\ Has(q, k) <=> \E i \in 1..Len(q) : q[i].kind = k
      /\ Has(r, k) <=> \E i \in 1..Len(r) : r[i].kind = k
  BY HasOf
<1>4. ASSUME Has(q, k) \/ Has(r, k) PROVE Has(a, k)
  <2>1. CASE Has(q, k)
    <3>1. PICK i \in 1..Len(q) : q[i].kind = k
      BY <1>3, <2>1
    <3> QED BY <1>1, <1>2, <3>1
  <2>2. CASE Has(r, k)
    <3>1. PICK i \in 1..Len(r) : r[i].kind = k
      BY <1>3, <2>2
    <3>2. i + Len(q) \in 1..Len(a)
      BY <1>1
    <3> QED BY <1>1, <1>2, <3>1, <3>2
  <2> QED BY <1>4, <2>1, <2>2
<1>5. ASSUME Has(a, k) PROVE Has(q, k) \/ Has(r, k)
  <2>1. PICK i \in 1..Len(a) : a[i].kind = k
    BY <1>2, <1>5
  <2>2. CASE i <= Len(q)
    BY <1>1, <1>3, <2>1, <2>2
  <2>3. CASE i > Len(q)
    <3>1. i - Len(q) \in 1..Len(r) /\ (i - Len(q)) + Len(q) = i
      BY <1>1, <2>1, <2>3
    <3>2. a[i] = r[i - Len(q)]
      BY <1>1, <3>1
    <3> QED BY <1>3, <2>1, <3>1, <3>2
  <2> QED BY <1>1, <2>1, <2>2, <2>3
<1> QED BY <1>1, <1>4, <1>5 DEF a

LEMMA HasTail ==
  ASSUME NEW q \in Seq(Events), q # <<>>, NEW k
  PROVE  /\ Tail(q) \in Seq(Events) /\ Head(q) \in Events
         /\ Has(q, k) <=> Has(Tail(q), k) \/ Head(q).kind = k
<1> DEFINE t == Tail(q)
<1>1. /\ t \in Seq(Events) /\ Head(q) \in Events /\ Head(q) = q[1]
      /\ Len(q) \in Nat \ {0} /\ Len(t) = Len(q) - 1
      /\ \A i \in 1..Len(t) : t[i] = q[i + 1]
  OBVIOUS
<1> HIDE DEF t
<1>2. Has(t, k) <=> \E i \in 1..Len(t) : t[i].kind = k
  BY <1>1, HasOf
<1>3. Has(q, k) <=> \E i \in 1..Len(q) : q[i].kind = k
  BY HasOf
<1>4. ASSUME Has(q, k) PROVE Has(t, k) \/ Head(q).kind = k
  <2>1. PICK i \in 1..Len(q) : q[i].kind = k
    BY <1>3, <1>4
  <2>2. CASE i # 1
    <3>1. i - 1 \in 1..Len(t) /\ (i - 1) + 1 = i
      BY <1>1, <2>1, <2>2
    <3>2. t[i - 1] = q[i]
      BY <1>1, <3>1
    <3> QED BY <1>2, <2>1, <3>1, <3>2
  <2> QED BY <1>1, <2>1, <2>2
<1>5. ASSUME Has(t, k) PROVE Has(q, k)
  <2>1. PICK i \in 1..Len(t) : t[i].kind = k
    BY <1>2, <1>5
  <2>2. i + 1 \in 1..Len(q) /\ t[i] = q[i + 1]
    BY <1>1, <2>1
  <2> QED BY <1>3, <2>1, <2>2
<1>6. ASSUME Head(q).kind = k PROVE Has(q, k)
  BY <1>1, <1>3, <1>6
<1> QED BY <1>1, <1>4, <1>5, <1>6 DEF t

\* One more message behind those of p, or one less before them.
LEMMA OnItsWayAppend ==
  ASSUME NEW q \in Seq(Events), NEW e \in Events, NEW p, OnItsWay(q, p),
         e.kind = "machine" => e.of = p.machine /\ ~Has(q, "cart"),
         e.kind = "cart" => e.of = p.cart /\ p.cart # None
  PROVE  OnItsWay(Append(q, e), p)
<1> DEFINE a == Append(q, e)
<1>1. /\ Len(q) \in Nat /\ DOMAIN q = 1..Len(q) /\ DOMAIN a = 1..(Len(q) + 1)
      /\ a[Len(q) + 1] = e /\ \A i \in 1..Len(q) : a[i] = q[i]
  OBVIOUS
<1> HIDE DEF a
<1>2. ASSUME NEW i \in DOMAIN a
      PROVE  /\ a[i].kind = "machine" => a[i].of = p.machine
             /\ a[i].kind = "cart" => a[i].of = p.cart /\ p.cart # None
  <2>1. CASE i = Len(q) + 1
    BY <1>1, <2>1
  <2>2. CASE i # Len(q) + 1
    <3>1. i \in DOMAIN q /\ a[i] = q[i]
      BY <1>1, <2>2
    <3> QED BY <3>1 DEF OnItsWay
  <2> QED BY <2>1, <2>2
<1>3. ASSUME NEW i \in DOMAIN a, NEW j \in DOMAIN a, a[i].kind = "machine", a[j].kind = "cart"
      PROVE  i < j
  <2>1. CASE i = Len(q) + 1
    <3>1. j \in DOMAIN q /\ a[j] = q[j]
      BY <1>1, <1>3, <2>1
    <3> QED BY <1>1, <1>3, <2>1, <3>1 DEF Has
  <2>2. CASE i # Len(q) + 1 /\ j = Len(q) + 1
    BY <1>1, <2>2
  <2>3. CASE i # Len(q) + 1 /\ j # Len(q) + 1
    <3>1. i \in DOMAIN q /\ j \in DOMAIN q /\ a[i] = q[i] /\ a[j] = q[j]
      BY <1>1, <2>3
    <3> QED BY <1>3, <3>1 DEF OnItsWay
  <2> QED BY <2>1, <2>2, <2>3
<1>4. OnItsWay(a, p)
  BY <1>2, <1>3 DEF OnItsWay
<1> QED BY <1>4 DEF a

LEMMA OnItsWayTail ==
  ASSUME NEW q \in Seq(Events), q # <<>>, NEW p, OnItsWay(q, p)
  PROVE  /\ OnItsWay(Tail(q), p)
         /\ Head(q).kind = "machine" => Head(q).of = p.machine
         /\ Head(q).kind = "cart" =>
              Head(q).of = p.cart /\ p.cart # None /\ ~Has(q, "machine")
<1> DEFINE t == Tail(q)
<1>1. /\ Len(q) \in Nat \ {0} /\ DOMAIN q = 1..Len(q) /\ DOMAIN t = 1..(Len(q) - 1)
      /\ Head(q) = q[1] /\ \A i \in DOMAIN t : t[i] = q[i + 1]
  OBVIOUS
<1> HIDE DEF t
<1>2. \A i \in DOMAIN t : i + 1 \in DOMAIN q /\ t[i] = q[i + 1] /\ i \in Nat
  BY <1>1
<1>3. ASSUME NEW i \in DOMAIN t
      PROVE  /\ t[i].kind = "machine" => t[i].of = p.machine
             /\ t[i].kind = "cart" => t[i].of = p.cart /\ p.cart # None
  BY <1>2 DEF OnItsWay
<1>4. ASSUME NEW i \in DOMAIN t, NEW j \in DOMAIN t, t[i].kind = "machine", t[j].kind = "cart"
      PROVE  i < j
  <2>1. i + 1 < j + 1
    BY <1>2, <1>4 DEF OnItsWay
  <2> QED BY <1>2, <2>1
<1>5. OnItsWay(t, p)
  BY <1>3, <1>4 DEF OnItsWay
<1>6. 1 \in DOMAIN q /\ \A i \in DOMAIN q : ~(i < 1)
  BY <1>1
<1>7. Head(q).kind = "cart" => ~Has(q, "machine")
  BY <1>1, <1>6 DEF OnItsWay, Has
<1>8. /\ Head(q).kind = "machine" => Head(q).of = p.machine
      /\ Head(q).kind = "cart" => Head(q).of = p.cart /\ p.cart # None
  BY <1>1, <1>6 DEF OnItsWay
<1> QED BY <1>5, <1>7, <1>8 DEF t

-----------------------------------------------------------------------------
(* What a message does to the machine and its cartridge. *)

\* Nothing but files and queued events differs.
SameMachine(s, r) ==
  /\ r.machine = s.machine /\ r.cart = s.cart /\ r.loaded = s.loaded
  /\ r.enabled = s.enabled /\ r.default = s.default /\ r.rom = s.rom

\* Message e waits for its files.
PutOff(s, r, e, files) ==
  /\ r.waiting # 0 /\ r.out = Append(s.out, e) /\ SameMachine(s, r)
  /\ s.waiting # 0 \/ ~(files \subseteq s.locked \cup settled)
  /\ files \subseteq r.locked \cup settled

\* The machine that runs has got cartridge c.
Inserted(s, r, c) ==
  /\ c # None => r.waiting = 0
  /\ r.waiting = s.waiting /\ r.out = s.out /\ r.machine = s.machine /\ r.rom = s.rom
  /\ r.cart = c
  /\ c = s.cart => r.loaded = s.loaded
  /\ c # s.cart /\ c # None => r.loaded = s.rom[c]
  /\ CartOf(r, s.machine) = IF c = s.cart THEN CartOf(s, s.machine) ELSE c
  /\ \A m \in Machines \ {s.machine} : CartOf(r, m) = CartOf(s, m)

\* Machine m has been started, with its cartridge.
Started(s, r, m) ==
  /\ s.waiting = 0 /\ r.waiting = 0 /\ r.out = s.out /\ r.machine = m /\ r.rom = s.rom
  /\ Needs(s, m) \subseteq settled
  /\ r.cart = IF m \in NoPort THEN None ELSE CartOf(s, m)
  /\ r.cart # None => r.loaded = s.rom[r.cart]
  /\ \A k \in Machines : CartOf(r, k) = CartOf(s, k)

LEMMA SameCarts ==
  ASSUME NEW s, NEW r, SameMachine(s, r)
  PROVE  \A m : CartOf(r, m) = CartOf(s, m) /\ Needs(r, m) = Needs(s, m)
BY DEF SameMachine, CartOf, Needs

\* Files that are there already cost no download.
LEMMA WgetCount ==
  ASSUME NEW s, Good(s, settled), NEW files \in SUBSET Files
  PROVE  LET w == Wget(s, files)
         IN /\ SameMachine(s, w) /\ w.out = s.out
            /\ w.waiting = 0 => s.waiting = 0 /\ files \subseteq settled
            /\ files \subseteq s.locked \cup settled => w.waiting = s.waiting
<1> DEFINE new == files \ (s.locked \cup settled)
           w == Wget(s, files)
<1>1. s \in EmuStates /\ IsFiniteSet(s.locked) /\ s.waiting = Cardinality(s.locked)
  BY DEF Good
<1>2. SameMachine(s, w) /\ w.out = s.out /\ w.waiting = s.waiting + Cardinality(new)
  BY <1>1, WgetFields DEF SameMachine
<1>3. IsFiniteSet(new) /\ Cardinality(new) \in Nat
  BY WasmAssumption, FS_Subset, FS_CardinalityType DEF WasmAssumption
<1>4. s.waiting \in Nat
  BY <1>1, FS_CardinalityType
<1>5. files \subseteq s.locked \cup settled => w.waiting = s.waiting
  <2> SUFFICES ASSUME files \subseteq s.locked \cup settled PROVE w.waiting = s.waiting
    OBVIOUS
  <2>1. Cardinality(new) = 0
    BY <1>3, FS_EmptySet
  <2> QED BY <1>2, <1>4, <2>1
<1>6. ASSUME w.waiting = 0 PROVE s.waiting = 0 /\ files \subseteq settled
  <2>1. s.waiting = 0
    BY <1>2, <1>3, <1>4, <1>6
  <2>2. w.locked = {} /\ files \subseteq w.locked \cup settled
    BY <1>6, WgetGood, NothingPending
  <2> QED BY <2>1, <2>2
<1> QED BY <1>2, <1>5, <1>6

LEMMA InsertEffect ==
  ASSUME NEW s \in EmuStates, s.machine \in Machines, NEW c \in Carts \cup {None},
         c # None => s.waiting = 0
  PROVE  Inserted(s, Insert(s, c), c)
<1>1. CASE c = s.cart
  BY <1>1 DEF Insert, Inserted
<1>2. CASE c # s.cart
  <2> DEFINE w == Insert(s, c)
             l == IF c = None THEN None ELSE s.rom[c]
             en == [s.enabled EXCEPT ![s.machine] = c # None]
             d == [s.default EXCEPT ![s.machine] = IF c = None THEN @ ELSE c]
  <2>1. w = [s EXCEPT !.cart = c, !.loaded = l, !.enabled = en, !.default = d]
    BY <1>2 DEF Insert, EmuStates
  <2>2. /\ en[s.machine] = (c # None)
        /\ d[s.machine] = IF c = None THEN s.default[s.machine] ELSE c
        /\ \A m \in Machines \ {s.machine} : en[m] = s.enabled[m] /\ d[m] = s.default[m]
    BY DEF EmuStates
  <2> HIDE DEF l, en, d, w
  <2>3. /\ w.waiting = s.waiting /\ w.machine = s.machine /\ w.rom = s.rom
        /\ w.cart = c /\ w.loaded = l /\ w.out = s.out /\ w.enabled = en /\ w.default = d
    BY <2>1 DEF EmuStates
  <2>4. CartOf(w, s.machine) = c
    <3>1. CASE c = None
      <4>1. ~en[s.machine]
        BY <2>2, <3>1
      <4> QED BY <2>3, <3>1, <4>1 DEF CartOf
    <3>2. CASE c # None
      <4>1. en[s.machine] /\ d[s.machine] = c
        BY <2>2, <3>2
      <4> QED BY <2>3, <4>1 DEF CartOf
    <3> QED BY <3>1, <3>2
  <2>5. \A m \in Machines \ {s.machine} : CartOf(w, m) = CartOf(s, m)
    BY <2>2, <2>3 DEF CartOf
  <2>6. c # None => l = s.rom[c]
    BY DEF l
  <2>7. Inserted(s, w, c)
    BY <1>2, <2>3, <2>4, <2>5, <2>6 DEF Inserted
  <2> QED BY <2>7 DEF w
<1> QED BY <1>1, <1>2

\* Without a slot nothing happens; a cartridge whose ROM is not there waits.
LEMMA SetCartridgeEffect ==
  ASSUME NEW s, Good(s, settled), NEW c \in Carts \cup {None}
  PROVE  LET r == SetCartridge(s, c)
         IN IF s.machine = None \/ s.machine \in NoPort THEN r = s
            ELSE Inserted(s, r, c) \/ (c # None /\ PutOff(s, r, CartEvent(c), {s.rom[c]}))
<1>1. CASE s.machine = None \/ s.machine \in NoPort
  BY <1>1 DEF SetCartridge
<1>2. CASE ~(s.machine = None \/ s.machine \in NoPort)
  <2> DEFINE files == IF c = None THEN {} ELSE {s.rom[c]}
             w == Wget(s, files)
             r == SetCartridge(s, c)
  <2>1. r = IF c # None /\ w.waiting # 0 THEN Later(w, CartEvent(c)) ELSE Insert(w, c)
    BY <1>2 DEF SetCartridge
  <2>2. s \in EmuStates /\ files \in SUBSET Files /\ s.machine \in Machines
    BY <1>2 DEF Good, EmuStates
  <2>3. /\ SameMachine(s, w) /\ w.out = s.out
        /\ w.waiting = 0 => s.waiting = 0 /\ files \subseteq settled
        /\ files \subseteq s.locked \cup settled => w.waiting = s.waiting
    BY <2>2, WgetCount
  <2>4. w \in EmuStates /\ files \subseteq w.locked \cup settled
    BY <2>2, WgetGood DEF Good
  <2>5. (c = None => files = {}) /\ (c # None => files = {s.rom[c]})
    OBVIOUS
  <2> HIDE DEF w, files, r
  <2>6. CASE c # None /\ w.waiting # 0
    <3>1. r = Later(w, CartEvent(c))
      BY <2>1, <2>6
    <3>2. /\ r.waiting = w.waiting /\ r.out = Append(w.out, CartEvent(c))
          /\ r.locked = w.locked /\ SameMachine(w, r)
      BY <2>4, <3>1 DEF Later, SameMachine, EmuStates
    <3>3. PutOff(s, r, CartEvent(c), files)
      BY <2>3, <2>4, <2>6, <3>2 DEF PutOff, SameMachine
    <3> QED BY <1>2, <2>5, <2>6, <3>3 DEF r
  <2>7. CASE ~(c # None /\ w.waiting # 0)
    <3>1. r = Insert(w, c) /\ w.machine = s.machine
      BY <2>1, <2>3, <2>7 DEF SameMachine
    <3>2. Inserted(w, r, c)
      BY <2>2, <2>4, <2>7, <3>1, InsertEffect
    <3>3. w.waiting = s.waiting
      BY <2>3, <2>5, <2>7
    <3>4. \A m : CartOf(w, m) = CartOf(s, m)
      BY <2>3, SameCarts
    <3>5. Inserted(s, r, c)
      BY <2>3, <3>2, <3>3, <3>4 DEF Inserted, SameMachine
    <3> QED BY <1>2, <3>5 DEF r
  <2> QED BY <2>6, <2>7
<1> QED BY <1>1, <1>2

\* A machine whose files are not there waits; otherwise it starts, and since the
\* ROM of its cartridge is there as well, that is not put off.
LEMMA SetMachineEffect ==
  ASSUME NEW s, Good(s, settled), NEW m \in Machines
  PROVE  LET r == SetMachine(s, m)
         IN Started(s, r, m) \/ PutOff(s, r, MachineEvent(m), Needs(s, m))
<1> DEFINE w == Wget(s, Needs(s, m))
           n == [w EXCEPT !.machine = m, !.cart = None, !.loaded = None]
           c == CartOf(w, m)
           r == SetMachine(s, m)
<1>1. r = IF w.waiting # 0 THEN Later(w, MachineEvent(m)) ELSE SetCartridge(n, c)
  BY DEF SetMachine
<1>2. s \in EmuStates /\ Needs(s, m) \in SUBSET Files
  BY CartOfIsCart DEF Good
<1>3. /\ SameMachine(s, w) /\ w.out = s.out
      /\ w.waiting = 0 => s.waiting = 0 /\ Needs(s, m) \subseteq settled
      /\ Needs(s, m) \subseteq s.locked \cup settled => w.waiting = s.waiting
  BY <1>2, WgetCount
<1>4. Good(w, settled) /\ w \in EmuStates /\ Needs(s, m) \subseteq w.locked \cup settled
  BY <1>2, WgetGood DEF Good
<1>5. c = CartOf(s, m)
  BY <1>3, SameCarts
<1> HIDE DEF w, r
<1>6. CASE w.waiting # 0
  <2>1. r = Later(w, MachineEvent(m))
    BY <1>1, <1>6
  <2>2. /\ r.waiting = w.waiting /\ r.out = Append(w.out, MachineEvent(m))
        /\ r.locked = w.locked /\ SameMachine(w, r)
    BY <1>4, <2>1 DEF Later, SameMachine, EmuStates
  <2>3. PutOff(s, r, MachineEvent(m), Needs(s, m))
    BY <1>3, <1>4, <1>6, <2>2 DEF PutOff, SameMachine
  <2> QED BY <2>3 DEF r
<1>7. CASE w.waiting = 0
  <2>1. r = SetCartridge(n, c) /\ s.waiting = 0 /\ Needs(s, m) \subseteq settled
    BY <1>1, <1>3, <1>7
  <2>2. /\ n \in EmuStates /\ n.locked = w.locked /\ n.waiting = 0 /\ n.machine = m
        /\ n.cart = None /\ n.out = s.out /\ n.rom = s.rom
        /\ n.enabled = s.enabled /\ n.default = s.default
    BY <1>3, <1>4, <1>7 DEF EmuStates, SameMachine
  <2>3. c \in Carts \cup {None} /\ m # None
    BY <1>4, CartOfIsCart, WasmAssumption DEF WasmAssumption
  <2>4. \A k : CartOf(n, k) = CartOf(s, k)
    BY <2>2 DEF CartOf
  <2>5. c # None => s.rom[c] \in settled
    BY <1>5, <2>1 DEF Needs
  <2>6. Good(n, settled)
    <3>1. w.locked = {} /\ Roms[m] \subseteq Needs(s, m)
      BY <1>4, <1>7, NothingPending DEF Needs
    <3>2. Roms[m] \subseteq settled
      BY <2>1, <3>1
    <3> QED BY <1>3, <1>4, <1>7, <2>2, <3>1, <3>2 DEF Good
  <2> HIDE DEF n, c
  <2>7. CASE m \in NoPort
    <3>1. r = n
      BY <2>1, <2>2, <2>3, <2>6, <2>7, SetCartridgeEffect
    <3>2. Started(s, r, m)
      BY <2>1, <2>2, <2>4, <2>7, <3>1 DEF Started
    <3> QED BY <3>2 DEF r
  <2>8. CASE m \notin NoPort
    <3>1. Inserted(n, r, c) \/ (c # None /\ PutOff(n, r, CartEvent(c), {n.rom[c]}))
      BY <2>1, <2>2, <2>3, <2>6, <2>8, SetCartridgeEffect
    <3>2. ~(c # None /\ PutOff(n, r, CartEvent(c), {n.rom[c]}))
      BY <2>2, <2>5 DEF PutOff
    <3>3. Inserted(n, r, c)
      BY <3>1, <3>2
    <3>4. CartOf(r, m) = CartOf(s, m)
      BY <1>5, <2>2, <2>4, <3>3 DEF Inserted
    <3>5. \A k \in Machines : CartOf(r, k) = CartOf(s, k)
      BY <2>2, <2>4, <3>3, <3>4 DEF Inserted
    <3>6. Started(s, r, m)
      BY <1>5, <2>1, <2>2, <2>8, <3>3, <3>5 DEF Started, Inserted
    <3> QED BY <3>6 DEF r
  <2> QED BY <2>7, <2>8
<1> QED BY <1>3, <1>4, <1>6, <1>7 DEF Good, EmuStates

LEMMA LoadFileEffect ==
  ASSUME NEW s, Good(s, settled), NEW f \in Files
  PROVE  SameMachine(s, LoadFile(s, f)) /\ LoadFile(s, f).out = Append(s.out, LoadEvent(f))
<1> DEFINE w == Wget(s, {f})
<1>1. SameMachine(s, w) /\ w.out = s.out /\ w \in EmuStates
  BY WgetCount, WgetGood DEF Good
<1>2. LoadFile(s, f) = Later(w, LoadEvent(f))
  BY DEF LoadFile
<1> HIDE DEF w
<1> QED BY <1>1, <1>2 DEF Later, SameMachine, EmuStates

-----------------------------------------------------------------------------
(* What is not set up has its message. *)

\* From s to r no machine stops, no message is lost, and a cartridge that waits
\* in r waited before or has its message.
KeepsSetUp(s, r) ==
  /\ r.machine = None => s.machine = None
  /\ CartWaits(r) => CartWaits(s) \/ Has(r.out, "cart")
  /\ \A k : Has(s.out, k) => Has(r.out, k)

LEMMA KeepsTwice ==
  ASSUME NEW s, NEW t, NEW r, KeepsSetUp(s, t), KeepsSetUp(t, r)
  PROVE  KeepsSetUp(s, r)
BY Zenon DEF KeepsSetUp

LEMMA SameKeeps ==
  ASSUME NEW s, NEW r, SameMachine(s, r), \A k : Has(s.out, k) => Has(r.out, k)
  PROVE  KeepsSetUp(s, r)
<1>1. CartWaits(r) => CartWaits(s)
  BY SameCarts DEF SameMachine, CartWaits
<1>2. r.machine = None => s.machine = None
  BY DEF SameMachine
<1> QED BY <1>1, <1>2, Zenon DEF KeepsSetUp

LEMMA PutOffKeeps ==
  ASSUME NEW s \in EmuStates, NEW r, NEW e \in Events, NEW files, PutOff(s, r, e, files)
  PROVE  KeepsSetUp(s, r) /\ Has(r.out, e.kind)
<1>1. s.out \in Seq(Events) /\ r.out = Append(s.out, e) /\ SameMachine(s, r)
  BY DEF EmuStates, PutOff
<1>2. \A k : Has(r.out, k) <=> Has(s.out, k) \/ e.kind = k
  BY <1>1, HasAppend
<1> QED BY <1>1, <1>2, SameKeeps

LEMMA InsertedKeeps ==
  ASSUME NEW s, NEW r, NEW c, Inserted(s, r, c)
  PROVE  KeepsSetUp(s, r)
<1>1. CartWaits(r) => CartWaits(s)
  BY DEF Inserted, CartWaits
<1> QED BY <1>1 DEF Inserted, KeepsSetUp

LEMMA SetCartridgeKeeps ==
  ASSUME NEW s, Good(s, settled), NEW c \in Carts \cup {None}
  PROVE  /\ KeepsSetUp(s, SetCartridge(s, c))
         /\ c # None /\ CartWaits(SetCartridge(s, c)) => Has(SetCartridge(s, c).out, "cart")
<1> DEFINE r == SetCartridge(s, c)
<1>1. IF s.machine = None \/ s.machine \in NoPort THEN r = s
      ELSE Inserted(s, r, c) \/ (c # None /\ PutOff(s, r, CartEvent(c), {s.rom[c]}))
  BY SetCartridgeEffect
<1>2. s \in EmuStates
  BY DEF Good
<1> HIDE DEF r
<1>3. CASE s.machine = None \/ s.machine \in NoPort
  <2>1. r = s /\ ~CartWaits(r)
    BY <1>1, <1>3 DEF CartWaits
  <2> QED BY <2>1 DEF KeepsSetUp, r
<1>4. CASE Inserted(s, r, c)
  <2>1. c # None => ~CartWaits(r)
    BY <1>4 DEF Inserted, CartWaits
  <2> QED BY <1>4, <2>1, InsertedKeeps DEF r
<1>5. CASE c # None /\ PutOff(s, r, CartEvent(c), {s.rom[c]})
  <2>1. CartEvent(c) \in Events /\ CartEvent(c).kind = "cart"
    BY <1>5 DEF CartEvent, Events
  <2> QED BY <1>2, <1>5, <2>1, PutOffKeeps DEF r
<1> QED BY <1>1, <1>3, <1>4, <1>5

LEMMA SetMachineKeeps ==
  ASSUME NEW s, Good(s, settled), NEW m \in Machines
  PROVE  /\ KeepsSetUp(s, SetMachine(s, m))
         /\ SetMachine(s, m).machine # None \/ Has(SetMachine(s, m).out, "machine")
<1> DEFINE r == SetMachine(s, m)
<1>1. Started(s, r, m) \/ PutOff(s, r, MachineEvent(m), Needs(s, m))
  BY SetMachineEffect
<1>2. s \in EmuStates /\ m # None
  BY WasmAssumption DEF Good, WasmAssumption
<1> HIDE DEF r
<1>3. CASE Started(s, r, m)
  <2>1. ~CartWaits(r) /\ r.machine # None /\ r.out = s.out
    BY <1>2, <1>3 DEF Started, CartWaits
  <2> QED BY <2>1 DEF KeepsSetUp, r
<1>4. CASE PutOff(s, r, MachineEvent(m), Needs(s, m))
  <2>1. MachineEvent(m) \in Events /\ MachineEvent(m).kind = "machine"
    BY DEF MachineEvent, Events
  <2> QED BY <1>2, <1>4, <2>1, PutOffKeeps DEF r
<1> QED BY <1>1, <1>3, <1>4

LEMMA LoadFileKeeps ==
  ASSUME NEW s, Good(s, settled), NEW f \in Files
  PROVE  KeepsSetUp(s, LoadFile(s, f))
<1>1. LoadEvent(f) \in Events /\ s.out \in Seq(Events)
  BY DEF LoadEvent, Events, Good, EmuStates
<1>2. \A k : Has(s.out, k) => Has(Append(s.out, LoadEvent(f)), k)
  BY <1>1, HasAppend
<1>3. LoadFile(s, f).out = Append(s.out, LoadEvent(f))
  BY LoadFileEffect
<1> QED BY <1>2, <1>3, LoadFileEffect, SameKeeps

\* The cartridge that goes in or out is the one the machine then should have.
LEMMA ToggleKeeps ==
  ASSUME NEW s, Good(s, settled)
  PROVE  KeepsSetUp(s, Toggle(s))
<1>1. CASE s.machine = None \/ s.machine \in NoPort
  BY <1>1 DEF Toggle, KeepsSetUp
<1>2. CASE ~(s.machine = None \/ s.machine \in NoPort)
  <2> DEFINE en == [s.enabled EXCEPT ![s.machine] = ~@]
             t == [s EXCEPT !.enabled = en]
             c == CartOf(t, t.machine)
             r == Toggle(s)
  <2>1. s \in EmuStates /\ s.machine \in Machines
    BY <1>2 DEF Good, EmuStates
  <2>2. en \in [Machines -> BOOLEAN]
    BY <2>1 DEF EmuStates
  <2>3. r = SetCartridge(t, c)
    BY <1>2, <2>1 DEF Toggle, EmuStates
  <2> HIDE DEF en, r
  <2>4. /\ t \in EmuStates /\ t.locked = s.locked /\ t.waiting = s.waiting
        /\ t.machine = s.machine /\ t.cart = s.cart /\ t.loaded = s.loaded /\ t.out = s.out
    BY <2>1, <2>2 DEF EmuStates
  <2> HIDE DEF t
  <2>5. Good(t, settled)
    BY <2>4 DEF Good
  <2>6. c \in Carts \cup {None}
    BY <2>1, <2>4, CartOfIsCart
  <2>7. Inserted(t, r, c) \/ (c # None /\ PutOff(t, r, CartEvent(c), {t.rom[c]}))
    BY <1>2, <2>3, <2>4, <2>5, <2>6, SetCartridgeEffect
  <2>8. CASE Inserted(t, r, c)
    <3>1. /\ r.machine = t.machine /\ r.cart = c /\ r.out = s.out
          /\ CartOf(r, t.machine) = c
      BY <2>4, <2>8 DEF Inserted
    <3>2. ~CartWaits(r)
      BY <3>1 DEF CartWaits
    <3> QED BY <2>4, <3>1, <3>2 DEF KeepsSetUp, r
  <2>9. CASE c # None /\ PutOff(t, r, CartEvent(c), {t.rom[c]})
    <3>1. CartEvent(c) \in Events /\ CartEvent(c).kind = "cart"
      BY <2>6, <2>9 DEF CartEvent, Events
    <3>2. KeepsSetUp(t, r) /\ Has(r.out, "cart")
      BY <2>4, <2>9, <3>1, PutOffKeeps
    <3> QED BY <2>4, <3>2 DEF KeepsSetUp, r
  <2> QED BY <2>7, <2>8, <2>9
<1> QED BY <1>1, <1>2

\* The ROM of a cartridge is exchanged, as wasm_set_machine_cart does.
WithRom(s, c, rom) == IF c # None /\ rom # None THEN [s EXCEPT !.rom[c] = rom] ELSE s

LEMMA WithRomFields ==
  ASSUME NEW s, Good(s, settled), NEW c \in Carts \cup {None}, NEW rom \in Files \cup {None}
  PROVE  LET x == WithRom(s, c, rom)
         IN /\ Good(x, settled)
            /\ x.locked = s.locked /\ x.waiting = s.waiting /\ x.out = s.out
            /\ x.machine = s.machine /\ x.cart = s.cart /\ x.loaded = s.loaded
            /\ x.enabled = s.enabled /\ x.default = s.default
            /\ c # None /\ rom # None => x.rom[c] = rom
            /\ c = None \/ rom = None => x.rom = s.rom
            /\ \A d \in Carts \ {c} : x.rom[d] = s.rom[d]
            /\ \A m : CartOf(x, m) = CartOf(s, m)
<1>1. s \in EmuStates
  BY DEF Good
<1>2. CASE c # None /\ rom # None
  <2> DEFINE r == [s.rom EXCEPT ![c] = rom]
             x == [s EXCEPT !.rom = r]
  <2>1. WithRom(s, c, rom) = x
    BY <1>1, <1>2 DEF WithRom, EmuStates
  <2>2. r \in [Carts -> Files] /\ r[c] = rom /\ \A d \in Carts \ {c} : r[d] = s.rom[d]
    BY <1>1, <1>2 DEF EmuStates
  <2> HIDE DEF r
  <2>3. /\ x \in EmuStates
        /\ x.locked = s.locked /\ x.waiting = s.waiting /\ x.out = s.out
        /\ x.machine = s.machine /\ x.cart = s.cart /\ x.loaded = s.loaded
        /\ x.enabled = s.enabled /\ x.default = s.default /\ x.rom = r
    BY <1>1, <2>2 DEF EmuStates
  <2> HIDE DEF x
  <2>4. Good(x, settled)
    BY <2>3 DEF Good
  <2>5. \A m : CartOf(x, m) = CartOf(s, m)
    BY <2>3 DEF CartOf
  <2> QED BY <1>2, <2>1, <2>2, <2>3, <2>4, <2>5
<1>3. CASE c = None \/ rom = None
  <2>1. WithRom(s, c, rom) = s
    BY <1>3 DEF WithRom
  <2> QED BY <1>3, <2>1
<1> QED BY <1>2, <1>3

LEMMA SelectKeeps ==
  ASSUME NEW s, Good(s, settled), NEW p \in Software
  PROVE  KeepsSetUp(s, Select(s, p))
<1> DEFINE s0 == IF p.media = None THEN s ELSE LoadFile(s, p.media)
           n == SetMachine(s0, p.machine)
           x == WithRom(n, p.cart, p.rom)
<1>1. /\ p.machine \in Machines /\ p.cart \in Carts \cup {None}
      /\ p.rom \in Files \cup {None} /\ p.media \in Files \cup {None}
  BY WasmAssumption DEF WasmAssumption
<1>2. Good(s0, settled) /\ KeepsSetUp(s, s0)
  <2>1. CASE p.media = None
    BY <2>1 DEF KeepsSetUp
  <2>2. CASE p.media # None
    BY <1>1, <2>2, LoadFileGood, LoadFileKeeps
  <2> QED BY <2>1, <2>2
<1>3. Select(s, p) = SetCartridge(x, p.cart)
  BY DEF Select, SetMachineCart, WithRom
<1> HIDE DEF s0
<1>4. Good(n, settled) /\ KeepsSetUp(s0, n)
  BY <1>1, <1>2, SetMachineGood, SetMachineKeeps
<1> HIDE DEF n
<1>5. /\ Good(x, settled) /\ x.machine = n.machine /\ x.cart = n.cart /\ x.out = n.out
      /\ \A m : CartOf(x, m) = CartOf(n, m)
  BY <1>1, <1>4, WithRomFields
<1> HIDE DEF x
<1>6. KeepsSetUp(n, x)
  BY <1>5 DEF KeepsSetUp, CartWaits
<1>7. KeepsSetUp(x, SetCartridge(x, p.cart))
  BY <1>1, <1>5, SetCartridgeKeeps
<1> QED BY <1>2, <1>3, <1>4, <1>6, <1>7, KeepsTwice

\* Emptying the queue of events changes nothing else.
LEMMA EmptiedFields ==
  ASSUME NEW s \in EmuStates, Emptied(s)
  PROVE  /\ SameMachine(s, emu') /\ emu'.locked = s.locked /\ emu'.waiting = s.waiting
         /\ emu'.out = <<>> /\ (CartWaits(emu') <=> CartWaits(s))
<1> DEFINE q == <<>>
<1>1. emu' = [s EXCEPT !.out = q]
  BY DEF Emptied
<1> HIDE DEF q
<1>2. /\ SameMachine(s, emu') /\ emu'.locked = s.locked /\ emu'.waiting = s.waiting
      /\ emu'.out = q
  BY <1>1 DEF SameMachine, EmuStates
<1>3. CartOf(emu', s.machine) = CartOf(s, s.machine)
  BY <1>2, SameCarts
<1>4. CartWaits(emu') <=> CartWaits(s)
  BY <1>2, <1>3 DEF CartWaits, SameMachine
<1> QED BY <1>2, <1>4 DEF q

LEMMA SetUpInit == Init => SetUp
<1> SUFFICES ASSUME Init PROVE SetUp
  OBVIOUS
<1> DEFINE t == SetMachine(Nothing, First)
           s == Wget(t, Media)
<1>1. settled = {} /\ emu = [s EXCEPT !.out = <<>>] /\ due = s.out
  BY DEF Init
<1>2. Good(Nothing, settled) /\ Nothing.machine = None /\ Nothing.out = <<>>
  <2>1. Nothing \in EmuStates
    <3>1. [m \in Machines |-> StockCart[m] # None] \in [Machines -> BOOLEAN]
      OBVIOUS
    <3> QED BY <3>1, WasmAssumption DEF Nothing, EmuStates, WasmAssumption
  <2>2. /\ Nothing.locked = {} /\ Nothing.waiting = 0 /\ Nothing.machine = None
        /\ Nothing.cart = None /\ Nothing.out = <<>>
    BY DEF Nothing
  <2> QED BY <1>1, <2>1, <2>2, FS_EmptySet, LoadsEmpty DEF Good
<1>3. /\ Good(t, settled) /\ KeepsSetUp(Nothing, t)
      /\ t.machine # None \/ Has(t.out, "machine")
  BY <1>2, SetMachineGood, SetMachineKeeps, WasmAssumption DEF WasmAssumption
<1>4. CartWaits(t) => Has(t.out, "cart")
  BY <1>2, <1>3 DEF KeepsSetUp, CartWaits
<1> HIDE DEF t
<1>5. Good(s, settled) /\ SameMachine(t, s) /\ s.out = t.out
  BY <1>3, WgetGood, WgetCount, WasmAssumption DEF WasmAssumption
<1> HIDE DEF s
<1>6. SameMachine(s, emu)
  <2> DEFINE q == <<>>
  <2>1. emu = [s EXCEPT !.out = q] /\ s \in EmuStates
    BY <1>1, <1>5 DEF Good
  <2> HIDE DEF q
  <2> QED BY <2>1 DEF SameMachine, EmuStates
<1>7. SameMachine(t, emu)
  BY <1>5, <1>6 DEF SameMachine
<1>8. CartWaits(emu) => CartWaits(t)
  BY <1>7, SameCarts DEF CartWaits, SameMachine
<1> QED BY <1>1, <1>3, <1>4, <1>5, <1>7, <1>8 DEF SetUp, SameMachine

\* What is asked for between the events.
LEMMA SetUpAsked ==
  ASSUME FilesInv, SetUp, NEW s, Good(s, settled), Emptied(s), KeepsSetUp(emu, s),
         later' = later \o s.out, UNCHANGED due
  PROVE  SetUp'
<1>1. s \in EmuStates /\ s.out \in Seq(Events) /\ later \in Seq(Events)
  BY DEF FilesInv, Good, EmuStates
<1>2. SameMachine(s, emu') /\ (CartWaits(emu') <=> CartWaits(s))
  BY <1>1, EmptiedFields
<1>3. \A k : Has(later \o s.out, k) <=> Has(later, k) \/ Has(s.out, k)
  BY <1>1, HasConcat
<1>4. emu'.machine = None => Has(due', "machine") \/ Has(later', "machine")
  BY <1>2, <1>3 DEF SetUp, KeepsSetUp, SameMachine
<1>5. CartWaits(emu') => Has(due', "cart") \/ Has(later', "cart")
  BY <1>2, <1>3, Zenon DEF SetUp, KeepsSetUp
<1> QED BY <1>4, <1>5 DEF SetUp

LEMMA SetUpUserActs == FilesInv /\ SetUp /\ UserActs => SetUp'
<1> SUFFICES ASSUME FilesInv, SetUp, UserActs PROVE SetUp'
  OBVIOUS
<1>1. Good(emu, settled)
  BY DEF FilesInv
<1>2. ASSUME NEW s, Good(s, settled), User(s), KeepsSetUp(emu, s) PROVE SetUp'
  BY <1>2, SetUpAsked DEF User
<1>3. ASSUME NEW m \in Machines, UserMachine(m) PROVE SetUp'
  BY <1>1, <1>2, <1>3, SetMachineGood, SetMachineKeeps DEF UserMachine
<1>4. ASSUME NEW c \in Carts \cup {None}, UserCart(c) PROVE SetUp'
  BY <1>1, <1>2, <1>4, SetCartridgeGood, SetCartridgeKeeps DEF UserCart
<1>5. ASSUME NEW f \in Files, UserLoad(f) PROVE SetUp'
  BY <1>1, <1>2, <1>5, LoadFileGood, LoadFileKeeps DEF UserLoad
<1>6. ASSUME NEW p \in Software, UserSelect(p) PROVE SetUp'
  BY <1>1, <1>2, <1>6, SelectGood, SelectKeeps DEF UserSelect
<1> QED BY <1>3, <1>4, <1>5, <1>6 DEF UserActs

LEMMA SetUpKey == FilesInv /\ SetUp /\ Key => SetUp'
BY SetUpAsked, ToggleGood, ToggleKeeps DEF Key, FilesInv

\* The events of a list in another order, or in another list.
LEMMA SetUpMoved ==
  ASSUME SetUp, SameMachine(emu, emu'),
         \A k : Has(due, k) \/ Has(later, k) => Has(due', k) \/ Has(later', k)
  PROVE  SetUp'
<1>1. CartWaits(emu') => CartWaits(emu)
  BY SameCarts DEF CartWaits, SameMachine
<1>2. emu'.machine = emu.machine
  BY DEF SameMachine
<1> QED BY <1>1, <1>2, Zenon DEF SetUp

LEMMA SetUpBrowser ==
  FilesInv /\ SetUp
    /\ (Fetched \/ InitBegins \/ InitEnds \/ FrameBegins \/ RunBegins \/ FrameEnds)
  => SetUp'
<1> SUFFICES ASSUME FilesInv, SetUp,
                    Fetched \/ InitBegins \/ InitEnds \/ FrameBegins \/ RunBegins \/ FrameEnds
             PROVE  SetUp'
  OBVIOUS
<1>1. due \in Seq(Events) /\ later \in Seq(Events) /\ emu \in EmuStates
  BY DEF FilesInv, Good
<1>2. CASE Fetched
  <2>1. PICK f \in emu.locked :
          emu' = [emu EXCEPT !.locked = @ \ {f}, !.waiting = @ - 1]
    BY <1>2 DEF Fetched
  <2>2. SameMachine(emu, emu')
    BY <1>1, <2>1 DEF SameMachine, EmuStates
  <2>3. due' = due /\ later' = later
    BY <1>2 DEF Fetched
  <2> QED BY <2>2, <2>3, SetUpMoved
<1>3. CASE InitEnds \/ FrameBegins \/ RunBegins
  BY <1>3 DEF InitEnds, FrameBegins, RunBegins, Stay, SetUp
<1>4. CASE InitBegins
  <2>1. due' = due \o later /\ emu' = emu
    BY <1>4 DEF InitBegins, Stay
  <2>2. \A k : Has(due', k) <=> Has(due, k) \/ Has(later, k)
    BY <1>1, <2>1, HasConcat
  <2> QED BY <2>1, <2>2, SetUpMoved DEF SameMachine
<1>5. CASE FrameEnds
  <2>1. due = <<>> /\ due' = later /\ emu' = emu
    BY <1>5 DEF FrameEnds, Stay
  <2>2. \A k : ~Has(due, k)
    BY <2>1, HasNone
  <2> QED BY <2>1, <2>2, SetUpMoved DEF SameMachine
<1> QED BY <1>2, <1>3, <1>4, <1>5

\* A message that is carried out either sets up what it stands for or is put off.
LEMMA SetUpDispatch ==
  ASSUME FilesInv, SetUp, NEW now, Dispatch(now)
  PROVE  SetUp'
<1> DEFINE e == Head(due)
           s == Handle(e)
<1>1. /\ due # <<>> /\ Emptied(s)
      /\ due' = IF now = "late" THEN Tail(due) ELSE Tail(due) \o s.out
      /\ later' = IF now = "late" THEN later \o s.out ELSE later
  BY DEF Dispatch
<1>2. due \in Seq(Events) /\ later \in Seq(Events) /\ Good(emu, settled)
  BY DEF FilesInv
<1>3. /\ Tail(due) \in Seq(Events) /\ e \in Events
      /\ \A k : Has(due, k) <=> Has(Tail(due), k) \/ e.kind = k
  BY <1>1, <1>2, HasTail
<1>4. Good(s, settled) /\ s \in EmuStates /\ s.out \in Seq(Events)
  BY <1>3, HandleGood DEF Good, EmuStates
<1>5. /\ KeepsSetUp(emu, s)
      /\ e.kind = "machine" => s.machine # None \/ Has(s.out, "machine")
      /\ e.kind = "cart" => (CartWaits(s) => Has(s.out, "cart"))
  <2>1. CASE e.kind = "machine"
    <3>1. e.of \in Machines /\ s = SetMachine(emu, e.of)
      BY <1>3, <2>1 DEF Events, Handle
    <3> HIDE DEF e, s
    <3> QED BY <1>2, <2>1, <3>1, SetMachineKeeps
  <2>2. CASE e.kind = "cart"
    <3>1. e.of \in Carts /\ e.of # None /\ s = SetCartridge(emu, e.of)
      BY <1>3, <2>2, WasmAssumption DEF Events, Handle, WasmAssumption
    <3> HIDE DEF e, s
    <3> QED BY <1>2, <2>2, <3>1, SetCartridgeKeeps
  <2>3. CASE e.kind \notin {"machine", "cart"}
    <3>1. s = emu
      BY <2>3 DEF Handle
    <3> QED BY <2>3, <3>1 DEF KeepsSetUp
  <2> QED BY <2>1, <2>2, <2>3
<1> HIDE DEF s, e
<1>6. SameMachine(s, emu') /\ (CartWaits(emu') <=> CartWaits(s))
  BY <1>1, <1>4, EmptiedFields
<1>7. /\ \A k : Has(Tail(due) \o s.out, k) <=> Has(Tail(due), k) \/ Has(s.out, k)
      /\ \A k : Has(later \o s.out, k) <=> Has(later, k) \/ Has(s.out, k)
  BY <1>2, <1>3, <1>4, HasConcat
<1>8. \A k : Has(Tail(due), k) \/ Has(later, k) \/ Has(s.out, k)
        => Has(due', k) \/ Has(later', k)
  BY <1>1, <1>7
<1>9. ASSUME emu'.machine = None PROVE Has(due', "machine") \/ Has(later', "machine")
  <2>1. s.machine = None /\ emu.machine = None
    BY <1>5, <1>6, <1>9 DEF SameMachine, KeepsSetUp
  <2> QED BY <1>3, <1>5, <1>8, <2>1, Zenon DEF SetUp
<1>10. ASSUME CartWaits(emu') PROVE Has(due', "cart") \/ Has(later', "cart")
  <2>1. Has(s.out, "cart") \/ (CartWaits(emu) /\ e.kind # "cart")
    BY <1>5, <1>6, <1>10, Zenon DEF KeepsSetUp
  <2> QED BY <1>3, <1>8, <2>1, Zenon DEF SetUp
<1> QED BY <1>9, <1>10 DEF SetUp

LEMMA SetUpStep == FilesInv /\ SetUp /\ [Next]_wasmVars => SetUp'
<1> SUFFICES ASSUME FilesInv, SetUp, [Next]_wasmVars PROVE SetUp'
  OBVIOUS
<1>1. CASE UserActs
  BY <1>1, SetUpUserActs
<1>2. CASE Key
  BY <1>2, SetUpKey
<1>3. CASE TimeIsUp \/ TimeGoesOn
  BY <1>3, SetUpDispatch DEF TimeIsUp, TimeGoesOn
<1>4. CASE Fetched \/ InitBegins \/ InitEnds \/ FrameBegins \/ RunBegins \/ FrameEnds
  BY <1>4, SetUpBrowser
<1>5. CASE UNCHANGED wasmVars
  BY <1>5 DEF wasmVars, SetUp
<1> QED BY <1>1, <1>2, <1>3, <1>4, <1>5 DEF Next, Browser

-----------------------------------------------------------------------------
(* What was selected is on its way. *)

\* More files locked or there, and events of other kinds, make no difference.
LEMMA ComesStill ==
  ASSUME NEW s, NEW q, NEW there, NEW p, Comes(s, q, there, p),
         NEW r, SameMachine(s, r),
         NEW now, s.locked \cup there \subseteq r.locked \cup now,
         NEW h, OnItsWay(h, p), \A k \in {"machine", "cart"} : Has(h, k) <=> Has(q, k)
  PROVE  Comes(r, h, now, p)
<1>1. Needs(r, p.machine) = Needs(s, p.machine) /\ CartOf(r, p.machine) = CartOf(s, p.machine)
  BY SameCarts
<1>2. (Has(h, "machine") <=> Has(q, "machine")) /\ (Has(h, "cart") <=> Has(q, "cart"))
  OBVIOUS
<1>3. MachineToCome(r, h, now, p)
  BY <1>1, <1>2 DEF Comes, MachineToCome
<1>4. CartToCome(r, h, now, p)
  BY <1>2 DEF Comes, CartToCome, SameMachine
<1>5. MachineIsThere(r, h, p)
  BY <1>2 DEF Comes, MachineIsThere, SameMachine
<1> QED BY <1>3, <1>4, <1>5 DEF Comes

LEMMA ConcatAssoc ==
  ASSUME NEW q \in Seq(Events), NEW r \in Seq(Events), NEW s \in Seq(Events)
  PROVE  /\ (q \o r) \o s = q \o (r \o s) /\ q \o r \in Seq(Events)
         /\ q \o <<>> = q /\ <<>> \o q = q
         /\ q # <<>> => Head(q \o r) = Head(q) /\ Tail(q \o r) = Tail(q) \o r /\ q \o r # <<>>
OBVIOUS

LEMMA SelectionUserLoad ==
  ASSUME FilesInv, SelectionInv, NEW f \in Files, UserLoad(f)
  PROVE  SelectionInv'
<1> DEFINE s == LoadFile(emu, f)
           e == LoadEvent(f)
           q == due \o later
<1> SUFFICES ASSUME sure' PROVE
       /\ wish' \in Software /\ place' = "idle"
       /\ Comes(emu', due' \o later', settled', wish')
  BY DEF SelectionInv
<1>1. /\ sure /\ wish' = wish /\ place' = "idle" /\ due' = due /\ settled' = settled
      /\ Emptied(s) /\ later' = later \o s.out
  BY DEF UserLoad, User
<1>2. wish \in Software /\ Comes(emu, q, settled, wish)
  BY <1>1 DEF SelectionInv
<1>3. Good(emu, settled) /\ emu.out = <<>> /\ due \in Seq(Events) /\ later \in Seq(Events)
  BY DEF FilesInv
<1>4. Good(s, settled) /\ s \in EmuStates /\ emu.locked \subseteq s.locked
  BY <1>3, LoadFileGood DEF Good
<1>5. SameMachine(emu, s) /\ s.out = Append(emu.out, e)
  BY <1>3, LoadFileEffect
<1>6. e \in Events /\ e.kind = "load"
  BY DEF LoadEvent, Events
<1> HIDE DEF s, e
<1>7. due' \o later' = Append(q, e) /\ q \in Seq(Events)
  BY <1>1, <1>3, <1>5, <1>6
<1>8. SameMachine(s, emu') /\ emu'.locked = s.locked
  BY <1>1, <1>4, EmptiedFields
<1> HIDE DEF q
<1>9. OnItsWay(Append(q, e), wish)
  BY <1>2, <1>6, <1>7, OnItsWayAppend DEF Comes
<1>10. \A k \in {"machine", "cart"} : Has(Append(q, e), k) <=> Has(q, k)
  BY <1>6, <1>7, HasAppend
<1>11. SameMachine(emu, emu') /\ emu.locked \cup settled \subseteq emu'.locked \cup settled
  BY <1>4, <1>5, <1>8 DEF SameMachine
<1>12. Comes(emu', Append(q, e), settled, wish)
  BY <1>2, <1>9, <1>10, <1>11, ComesStill
<1> QED BY <1>1, <1>2, <1>7, <1>12

LEMMA SelectionFetched == FilesInv /\ SelectionInv /\ Fetched => SelectionInv'
<1> SUFFICES ASSUME FilesInv, SelectionInv, Fetched, sure' PROVE
       /\ wish' \in Software /\ place' = "idle"
       /\ Comes(emu', due' \o later', settled', wish')
  BY DEF SelectionInv
<1>1. PICK f \in emu.locked :
        /\ emu' = [emu EXCEPT !.locked = @ \ {f}, !.waiting = @ - 1]
        /\ settled' = settled \cup {f}
  BY DEF Fetched
<1>2. place' = "idle" /\ sure /\ UNCHANGED <<due, later, wish>>
  BY DEF Fetched
<1>3. emu \in EmuStates
  BY DEF FilesInv, Good
<1>4. SameMachine(emu, emu') /\ emu'.locked = emu.locked \ {f}
  BY <1>1, <1>3 DEF SameMachine, EmuStates
<1>5. emu.locked \cup settled \subseteq emu'.locked \cup settled'
  BY <1>1, <1>4
<1>6. wish \in Software /\ Comes(emu, due \o later, settled, wish)
  BY <1>2 DEF SelectionInv
<1>7. Comes(emu', due \o later, settled', wish)
  BY <1>4, <1>5, <1>6, ComesStill DEF Comes
<1> QED BY <1>2, <1>6, <1>7

LEMMA SelectionMoves ==
  FilesInv /\ SelectionInv
    /\ (InitBegins \/ InitEnds \/ FrameBegins \/ RunBegins \/ FrameEnds)
  => SelectionInv'
<1> SUFFICES ASSUME FilesInv, SelectionInv,
                    InitBegins \/ InitEnds \/ FrameBegins \/ RunBegins \/ FrameEnds
             PROVE  SelectionInv'
  OBVIOUS
<1>1. due \in Seq(Events) /\ later \in Seq(Events)
  BY DEF FilesInv
<1>2. due' \o later' = due \o later
  <2>1. CASE InitEnds \/ FrameBegins \/ RunBegins
    BY <2>1 DEF InitEnds, FrameBegins, RunBegins
  <2>2. CASE InitBegins
    BY <1>1, <2>2, ConcatAssoc DEF InitBegins
  <2>3. CASE FrameEnds
    BY <1>1, <2>3, ConcatAssoc DEF FrameEnds
  <2> QED BY <2>1, <2>2, <2>3
<1>3. UNCHANGED <<settled, emu, wish, sure>>
  BY DEF InitBegins, InitEnds, FrameBegins, RunBegins, FrameEnds, Stay
<1>4. place' # "idle" => emu.waiting = 0 \/ place # "idle"
  BY DEF InitBegins, InitEnds, FrameBegins, RunBegins, FrameEnds
<1> QED BY <1>2, <1>3, <1>4 DEF SelectionInv

\* The machine starts with the cartridge it should have.
LEMMA MachineComes ==
  ASSUME FilesInv, emu.waiting = 0, NEW p \in Software,
         NEW q \in Seq(Events), q # <<>>, Comes(emu, q, settled, p), Head(q).kind = "machine"
  PROVE  LET r == SetMachine(emu, p.machine)
         IN Head(q).of = p.machine /\ r.waiting = 0 /\ r.out = <<>> /\ Comes(r, Tail(q), settled, p)
<1> DEFINE m == p.machine
           r == SetMachine(emu, m)
           t == Tail(q)
<1>1. /\ m \in Machines /\ p.cart \in Carts \cup {None}
      /\ p.cart = None => p.rom = None
  BY WasmAssumption DEF WasmAssumption
<1>2. Good(emu, settled) /\ emu.out = <<>> /\ emu.locked = {}
  BY NothingPending DEF FilesInv
<1>3. OnItsWay(t, p) /\ Head(q).of = m
  BY OnItsWayTail DEF Comes
<1>4. Has(q, "machine") /\ (Has(q, "cart") <=> Has(t, "cart"))
  BY HasTail
<1>5. /\ Needs(emu, m) \subseteq settled
      /\ ~Has(q, "cart") /\ m \notin NoPort => p.cart = None /\ CartOf(emu, m) = None
  BY <1>2, <1>4 DEF Comes, MachineToCome
<1>6. Has(q, "cart") =>
        emu.rom[p.cart] \in settled /\ (p.rom # None => emu.rom[p.cart] = p.rom)
  BY <1>2 DEF Comes, CartToCome
<1>7. Started(emu, r, m) \/ PutOff(emu, r, MachineEvent(m), Needs(emu, m))
  BY <1>1, <1>2, SetMachineEffect
<1> HIDE DEF r, t
<1>8. Started(emu, r, m)
  BY <1>5, <1>7 DEF PutOff
<1>9. r.waiting = 0 /\ r.out = <<>> /\ r.rom = emu.rom /\ r.machine = m
  BY <1>2, <1>8 DEF Started
<1>10. CartOf(r, m) = CartOf(emu, m) /\ Needs(r, m) = Needs(emu, m)
  BY <1>1, <1>8 DEF Started, Needs
<1>11. MachineToCome(r, t, settled, p)
  BY <1>4, <1>5, <1>10 DEF MachineToCome
<1>12. CartToCome(r, t, settled, p)
  BY <1>4, <1>6, <1>9 DEF CartToCome
<1>13. ASSUME m \notin NoPort
       PROVE  /\ r.cart = p.cart /\ p.rom # None => r.loaded = p.rom
              /\ ~Has(t, "cart") => r.cart = p.cart
  <2>1. r.cart = CartOf(emu, m) /\ (r.cart # None => r.loaded = emu.rom[r.cart])
    BY <1>8, <1>13 DEF Started
  <2>2. CASE Has(q, "cart")
    <3>1. p.cart # None
      BY <2>2 DEF Comes, OnItsWay, Has
    <3> QED BY <1>4, <1>6, <2>1, <2>2, <3>1
  <2>3. CASE ~Has(q, "cart")
    BY <1>1, <1>5, <1>13, <2>1, <2>3
  <2> QED BY <2>2, <2>3
<1>14. MachineIsThere(r, t, p)
  BY <1>9, <1>13 DEF MachineIsThere
<1>15. Comes(r, t, settled, p)
  BY <1>3, <1>11, <1>12, <1>14 DEF Comes
<1> QED BY <1>3, <1>9, <1>15 DEF r, t

\* The cartridge goes in, and the machine for it is there.
LEMMA CartComes ==
  ASSUME FilesInv, emu.waiting = 0, NEW p \in Software,
         NEW q \in Seq(Events), q # <<>>, Comes(emu, q, settled, p), Head(q).kind = "cart"
  PROVE  LET r == SetCartridge(emu, p.cart)
         IN Head(q).of = p.cart /\ r.waiting = 0 /\ r.out = <<>> /\ Comes(r, Tail(q), settled, p)
<1> DEFINE c == p.cart
           r == SetCartridge(emu, c)
           t == Tail(q)
<1>1. p.machine \in Machines /\ p.machine # None /\ c \in Carts \cup {None}
  BY WasmAssumption DEF WasmAssumption
<1>2. Good(emu, settled) /\ emu.out = <<>> /\ emu.locked = {}
  BY NothingPending DEF FilesInv
<1>3. OnItsWay(t, p) /\ Head(q).of = c /\ c # None /\ ~Has(q, "machine")
  BY OnItsWayTail DEF Comes
<1>4. Has(q, "cart") /\ ~Has(t, "machine")
  BY <1>3, HasTail
<1>5. emu.rom[c] \in settled /\ (p.rom # None => emu.rom[c] = p.rom)
  BY <1>2, <1>4 DEF Comes, CartToCome
<1>6. /\ emu.machine = p.machine
      /\ p.machine \notin NoPort => (emu.cart = c /\ p.rom # None => emu.loaded = p.rom)
  BY <1>3 DEF Comes, MachineIsThere
<1>7. IF p.machine \in NoPort THEN r = emu
      ELSE Inserted(emu, r, c) \/ (c # None /\ PutOff(emu, r, CartEvent(c), {emu.rom[c]}))
  BY <1>1, <1>2, <1>6, SetCartridgeEffect
<1> HIDE DEF r, t
<1>8. MachineToCome(r, t, settled, p)
  BY <1>4 DEF MachineToCome
<1>9. CASE p.machine \in NoPort
  <2>1. r = emu
    BY <1>7, <1>9
  <2>2. CartToCome(r, t, settled, p)
    BY <1>5, <2>1 DEF CartToCome
  <2>3. MachineIsThere(r, t, p)
    BY <1>6, <1>9, <2>1 DEF MachineIsThere
  <2>4. Comes(r, t, settled, p)
    BY <1>3, <1>8, <2>2, <2>3 DEF Comes
  <2> QED BY <1>2, <1>3, <2>1, <2>4 DEF r, t
<1>10. CASE p.machine \notin NoPort
  <2>1. ~PutOff(emu, r, CartEvent(c), {emu.rom[c]})
    BY <1>5 DEF PutOff
  <2>2. Inserted(emu, r, c)
    BY <1>7, <1>10, <2>1
  <2>3. /\ r.waiting = 0 /\ r.out = <<>> /\ r.rom = emu.rom /\ r.machine = emu.machine
        /\ r.cart = c
    BY <1>2, <2>2 DEF Inserted
  <2>4. p.rom # None => r.loaded = p.rom
    BY <1>3, <1>5, <1>6, <1>10, <2>2 DEF Inserted
  <2>5. CartToCome(r, t, settled, p)
    BY <1>5, <2>3 DEF CartToCome
  <2>6. MachineIsThere(r, t, p)
    BY <1>6, <2>3, <2>4 DEF MachineIsThere
  <2>7. Comes(r, t, settled, p)
    BY <1>3, <1>8, <2>5, <2>6 DEF Comes
  <2> QED BY <1>3, <2>3, <2>7 DEF r, t
<1> QED BY <1>9, <1>10

LEMMA SelectionDispatch ==
  ASSUME FilesInv, SelectionInv, NEW now, Dispatch(now)
  PROVE  SelectionInv'
<1> DEFINE e == Head(due)
           s == Handle(e)
           q == due \o later
<1> SUFFICES ASSUME sure' PROVE
       /\ wish' \in Software /\ emu'.waiting = 0
       /\ Comes(emu', due' \o later', settled', wish')
  BY DEF SelectionInv
<1>1. /\ place # "idle" /\ due # <<>> /\ Emptied(s)
      /\ due' = IF now = "late" THEN Tail(due) ELSE Tail(due) \o s.out
      /\ later' = IF now = "late" THEN later \o s.out ELSE later
      /\ UNCHANGED <<settled, wish, sure>>
  BY DEF Dispatch
<1>2. wish \in Software /\ emu.waiting = 0 /\ Comes(emu, q, settled, wish)
  BY <1>1 DEF SelectionInv
<1>3. due \in Seq(Events) /\ later \in Seq(Events) /\ emu.out = <<>>
  BY DEF FilesInv
<1>4. q \in Seq(Events) /\ q # <<>> /\ Head(q) = e /\ Tail(q) = Tail(due) \o later
  BY <1>1, <1>3, ConcatAssoc
<1>5. Tail(due) \in Seq(Events) /\ e \in Events
  BY <1>1, <1>3, LoadsTail
<1>6. Good(s, settled) /\ s \in EmuStates
  BY <1>5, HandleGood DEF Good
<1> HIDE DEF q
<1>7. s.waiting = 0 /\ s.out = <<>> /\ Comes(s, Tail(q), settled, wish)
  <2>1. CASE e.kind = "machine"
    <3>1. s = SetMachine(emu, e.of)
      BY <2>1 DEF Handle
    <3> HIDE DEF e, s
    <3> QED BY <1>2, <1>4, <2>1, <3>1, MachineComes
  <2>2. CASE e.kind = "cart"
    <3>1. s = SetCartridge(emu, e.of)
      BY <2>2 DEF Handle
    <3> HIDE DEF e, s
    <3> QED BY <1>2, <1>4, <2>2, <3>1, CartComes
  <2>3. CASE e.kind \notin {"machine", "cart"}
    <3>1. s = emu
      BY <2>3 DEF Handle
    <3>2. OnItsWay(Tail(q), wish)
      BY <1>2, <1>4, OnItsWayTail DEF Comes
    <3>3. \A k \in {"machine", "cart"} : Has(Tail(q), k) <=> Has(q, k)
      BY <1>4, <2>3, HasTail
    <3>4. Comes(emu, Tail(q), settled, wish)
      BY <1>2, <3>2, <3>3, ComesStill DEF SameMachine
    <3> QED BY <1>2, <1>3, <3>1, <3>4
  <2> QED BY <2>1, <2>2, <2>3
<1> HIDE DEF s, e
<1>8. due' \o later' = Tail(q)
  <2>1. Tail(due) \o <<>> = Tail(due) /\ later \o <<>> = later
    BY <1>3, <1>5, ConcatAssoc
  <2> QED BY <1>1, <1>4, <1>7, <2>1
<1>9. SameMachine(s, emu') /\ emu'.locked = s.locked /\ emu'.waiting = s.waiting
  BY <1>1, <1>6, EmptiedFields
<1>10. Comes(emu', Tail(q), settled, wish)
  BY <1>7, <1>9, ComesStill DEF Comes
<1> QED BY <1>1, <1>2, <1>7, <1>8, <1>9, <1>10

\* Software p can be selected for sure: see SelectionTakesEffect.
CanBeSure(p) ==
  /\ Quiet /\ emu.machine \notin NoPort
  /\ p.cart = None => emu.machine = p.machine \/ ~emu.enabled[p.machine]
  /\ p.cart # None /\ p.cart = CartOf(emu, p.machine) => p.rom \in {None, emu.rom[p.cart]}

\* s is what is selected from: the media may have to be loaded, nothing else.
Selected(s, p) ==
  /\ Good(s, settled) /\ s \in EmuStates /\ SameMachine(emu, s) /\ OnItsWay(s.out, p)
  /\ ~Has(s.out, "machine") /\ ~Has(s.out, "cart")

LEMMA SelectedMedia ==
  ASSUME FilesInv, NEW p \in Software
  PROVE  Selected(IF p.media = None THEN emu ELSE LoadFile(emu, p.media), p)
<1> DEFINE f == p.media
           s == LoadFile(emu, f)
           none == <<>>
<1>1. Good(emu, settled) /\ emu \in EmuStates /\ emu.out = none /\ none \in Seq(Events)
  BY DEF FilesInv, Good
<1>2. OnItsWay(none, p) /\ ~Has(none, "machine") /\ ~Has(none, "cart")
  BY DEF OnItsWay, Has
<1> HIDE DEF none
<1>3. CASE f = None
  BY <1>1, <1>2, <1>3 DEF Selected, SameMachine
<1>4. CASE f # None
  <2>1. f \in Files /\ LoadEvent(f) \in Events /\ LoadEvent(f).kind = "load"
    BY <1>4, WasmAssumption DEF WasmAssumption, LoadEvent, Events
  <2>2. /\ Good(s, settled) /\ s \in EmuStates /\ SameMachine(emu, s)
        /\ s.out = Append(none, LoadEvent(f))
    BY <1>1, <2>1, LoadFileGood, LoadFileEffect DEF Good
  <2> HIDE DEF s
  <2>3. ~Has(s.out, "machine") /\ ~Has(s.out, "cart")
    BY <1>1, <1>2, <2>1, <2>2, HasAppend
  <2>4. OnItsWay(s.out, p)
    BY <1>1, <1>2, <2>1, <2>2, OnItsWayAppend
  <2>5. Selected(s, p)
    BY <2>2, <2>3, <2>4 DEF Selected
  <2> QED BY <1>4, <2>5 DEF s
<1> QED BY <1>3, <1>4

\* The machine has to wait, and then so has the cartridge.
LEMMA SelectionWaits ==
  ASSUME FilesInv, SetUp, NEW p \in Software, CanBeSure(p), NEW s, Selected(s, p),
         PutOff(s, SetMachine(s, p.machine), MachineEvent(p.machine), Needs(s, p.machine))
  PROVE  LET r == SetMachineCart(s, p.machine, p.cart, p.rom)
         IN Comes(r, r.out, settled, p)
<1> DEFINE m == p.machine
           c == p.cart
           n == SetMachine(s, m)
           x == WithRom(n, c, p.rom)
           r == SetMachineCart(s, m, c, p.rom)
<1>1. /\ m \in Machines /\ c \in Carts \cup {None} /\ p.rom \in Files \cup {None}
      /\ c = None => p.rom = None
  BY WasmAssumption DEF WasmAssumption
<1>2. r = SetCartridge(x, c)
  BY DEF SetMachineCart, WithRom
<1>3. emu.machine # None /\ ~CartWaits(emu) /\ emu.machine \notin NoPort
  BY HasNone DEF CanBeSure, Quiet, SetUp
<1>4. SameMachine(emu, s) /\ s.out \in Seq(Events) /\ Good(s, settled)
  BY DEF Selected, EmuStates
<1>5. Good(n, settled) /\ PutOff(s, n, MachineEvent(m), Needs(s, m))
  BY <1>1, <1>4, SetMachineGood
<1> HIDE DEF n
<1>6. /\ n.waiting # 0 /\ SameMachine(emu, n) /\ Needs(s, m) \subseteq n.locked \cup settled
      /\ n.out = Append(s.out, MachineEvent(m))
  BY <1>4, <1>5 DEF PutOff, SameMachine
<1>7. \A k : CartOf(n, k) = CartOf(emu, k) /\ Needs(n, k) = Needs(emu, k)
  BY <1>6, SameCarts
<1>8. \A k : Needs(s, k) = Needs(emu, k)
  BY <1>4, SameCarts
<1>9. /\ Good(x, settled)
      /\ x.locked = n.locked /\ x.waiting = n.waiting /\ x.out = n.out
      /\ x.machine = n.machine /\ x.cart = n.cart
      /\ c # None /\ p.rom # None => x.rom[c] = p.rom
      /\ c = None \/ p.rom = None => x.rom = n.rom
      /\ \A d \in Carts \ {c} : x.rom[d] = n.rom[d]
      /\ \A k : CartOf(x, k) = CartOf(n, k)
  BY <1>1, <1>5, WithRomFields
<1> HIDE DEF x, r
<1>10. x.machine = emu.machine /\ x.cart = emu.cart /\ x.waiting # 0
  BY <1>6, <1>9 DEF SameMachine
<1>11. Inserted(x, r, c) \/ (c # None /\ PutOff(x, r, CartEvent(c), {x.rom[c]}))
  BY <1>1, <1>2, <1>3, <1>9, <1>10, SetCartridgeEffect
<1>12. n.locked \subseteq r.locked
  BY <1>1, <1>2, <1>9, SetCartridgeGood
<1>13. MachineEvent(m) \in Events /\ MachineEvent(m).kind = "machine" /\ MachineEvent(m).of = m
  BY <1>1 DEF MachineEvent, Events
<1>14. /\ x.out \in Seq(Events) /\ OnItsWay(x.out, p)
       /\ Has(x.out, "machine") /\ ~Has(x.out, "cart")
  <2>1. /\ x.out \in Seq(Events)
        /\ \A k : Has(x.out, k) <=> Has(s.out, k) \/ MachineEvent(m).kind = k
    BY <1>4, <1>6, <1>9, <1>13, HasAppend
  <2>2. OnItsWay(x.out, p)
    BY <1>4, <1>6, <1>9, <1>13, OnItsWayAppend DEF Selected
  <2> QED BY <1>13, <2>1, <2>2 DEF Selected
<1>15. CASE c = None
  <2>1. Inserted(x, r, c) /\ r.out = x.out
    BY <1>11, <1>15 DEF Inserted
  <2>2. CartOf(r, m) = None
    <3>1. CASE m = emu.machine
      <4>1. emu.cart = None => CartOf(emu, m) = None
        BY <1>3, <3>1 DEF CartWaits
      <4> QED BY <1>7, <1>9, <1>10, <1>15, <2>1, <3>1, <4>1 DEF Inserted
    <3>2. CASE m # emu.machine
      <4>1. CartOf(emu, m) = None
        BY <1>15, <3>2 DEF CanBeSure, CartOf
      <4> QED BY <1>1, <1>7, <1>9, <1>10, <2>1, <3>2, <4>1 DEF Inserted
    <3> QED BY <3>1, <3>2
  <2>3. Needs(r, m) \subseteq r.locked \cup settled
    BY <1>6, <1>12, <2>2 DEF Needs
  <2>4. MachineToCome(r, r.out, settled, p)
    BY <1>15, <2>2, <2>3 DEF MachineToCome
  <2> QED BY <1>14, <2>1, <2>4 DEF Comes, CartToCome, MachineIsThere, r
<1>16. CASE c # None
  <2>1. PutOff(x, r, CartEvent(c), {x.rom[c]})
    BY <1>10, <1>11, <1>16 DEF Inserted
  <2>2. CartEvent(c) \in Events /\ CartEvent(c).kind = "cart" /\ CartEvent(c).of = c
    BY <1>1, <1>16 DEF CartEvent, Events
  <2>3. r.out = Append(x.out, CartEvent(c)) /\ SameMachine(x, r)
        /\ x.rom[c] \in r.locked \cup settled
    BY <2>1 DEF PutOff
  <2>4. Has(r.out, "machine") /\ Has(r.out, "cart")
    BY <1>14, <2>2, <2>3, HasAppend
  <2>5. OnItsWay(r.out, p)
    BY <1>14, <1>16, <2>2, <2>3, OnItsWayAppend
  <2>6. Needs(x, m) = Needs(n, m)
    <3> DEFINE d == CartOf(emu, m)
    <3>1. d \in Carts \cup {None} /\ CartOf(x, m) = d /\ CartOf(n, m) = d
      BY <1>1, <1>7, <1>9, CartOfIsCart DEF FilesInv, Good
    <3>2. d = c /\ p.rom # None => p.rom = n.rom[c]
      BY <1>6, <1>16 DEF CanBeSure, SameMachine
    <3> HIDE DEF d
    <3>3. d # None => x.rom[d] = n.rom[d]
      BY <1>9, <1>16, <3>1, <3>2
    <3> QED BY <3>1, <3>3 DEF Needs
  <2>7. Needs(r, m) = Needs(x, m)
    BY <2>3, SameCarts
  <2>8. Needs(r, m) \subseteq r.locked \cup settled
    BY <1>6, <1>7, <1>8, <1>12, <2>6, <2>7
  <2>9. MachineToCome(r, r.out, settled, p)
    BY <2>4, <2>8 DEF MachineToCome
  <2>10. CartToCome(r, r.out, settled, p)
    BY <1>9, <1>16, <2>3 DEF CartToCome, SameMachine
  <2> QED BY <2>4, <2>5, <2>9, <2>10 DEF Comes, MachineIsThere, r
<1> QED BY <1>15, <1>16

\* The machine starts at once; only the cartridge may have to wait.
LEMMA SelectionStarts ==
  ASSUME FilesInv, NEW p \in Software, CanBeSure(p), NEW s, Selected(s, p),
         Started(s, SetMachine(s, p.machine), p.machine)
  PROVE  LET r == SetMachineCart(s, p.machine, p.cart, p.rom)
         IN Comes(r, r.out, settled, p)
<1> DEFINE m == p.machine
           c == p.cart
           n == SetMachine(s, m)
           x == WithRom(n, c, p.rom)
           r == SetMachineCart(s, m, c, p.rom)
<1>1. /\ m \in Machines /\ c \in Carts \cup {None} /\ p.rom \in Files \cup {None}
      /\ c = None => p.rom = None
      /\ m # None
  BY WasmAssumption DEF WasmAssumption
<1>2. r = SetCartridge(x, c)
  BY DEF SetMachineCart, WithRom
<1>3. SameMachine(emu, s) /\ s.out \in Seq(Events) /\ Good(s, settled)
  BY DEF Selected, EmuStates
<1>4. Good(n, settled) /\ Started(s, n, m)
  BY <1>1, <1>3, SetMachineGood
<1> HIDE DEF n
<1>5. /\ Good(x, settled)
      /\ x.out = n.out /\ x.machine = n.machine /\ x.cart = n.cart /\ x.loaded = n.loaded
      /\ c # None /\ p.rom # None => x.rom[c] = p.rom
  BY <1>1, <1>4, WithRomFields
<1> HIDE DEF x, r
<1>6. x.machine = m /\ x.out = s.out
  BY <1>4, <1>5 DEF Started
<1>7. IF m \in NoPort THEN r = x
      ELSE Inserted(x, r, c) \/ (c # None /\ PutOff(x, r, CartEvent(c), {x.rom[c]}))
  BY <1>1, <1>2, <1>5, <1>6, SetCartridgeEffect
<1>8. m \notin NoPort /\ c # None /\ p.rom # None /\ x.cart = c => x.loaded = p.rom
  <2> SUFFICES ASSUME m \notin NoPort, c # None, p.rom # None, x.cart = c
               PROVE  x.loaded = p.rom
    OBVIOUS
  <2>1. c = CartOf(s, m) /\ x.loaded = s.rom[c]
    BY <1>4, <1>5 DEF Started
  <2>2. c = CartOf(emu, m) /\ s.rom = emu.rom
    BY <1>3, <2>1, SameCarts DEF SameMachine
  <2> QED BY <2>1, <2>2 DEF CanBeSure
<1>9. CASE m \in NoPort
  <2>1. r = x
    BY <1>7, <1>9
  <2> QED BY <1>6, <1>9, <2>1 DEF Selected, Comes, MachineToCome, CartToCome, MachineIsThere, r
<1>10. CASE m \notin NoPort /\ Inserted(x, r, c)
  <2>1. r.machine = m /\ r.out = s.out /\ r.cart = c
    BY <1>6, <1>10 DEF Inserted
  <2>2. p.rom # None => r.loaded = p.rom
    BY <1>1, <1>5, <1>8, <1>10 DEF Inserted
  <2> QED BY <2>1, <2>2 DEF Selected, Comes, MachineToCome, CartToCome, MachineIsThere, r
<1>11. CASE m \notin NoPort /\ c # None /\ PutOff(x, r, CartEvent(c), {x.rom[c]})
  <2>1. CartEvent(c) \in Events /\ CartEvent(c).kind = "cart" /\ CartEvent(c).of = c
    BY <1>1, <1>11 DEF CartEvent, Events
  <2>2. r.out = Append(s.out, CartEvent(c)) /\ SameMachine(x, r)
        /\ x.rom[c] \in r.locked \cup settled
    BY <1>6, <1>11 DEF PutOff
  <2>3. ~Has(r.out, "machine") /\ Has(r.out, "cart")
    BY <1>3, <2>1, <2>2, HasAppend DEF Selected
  <2>4. OnItsWay(r.out, p)
    BY <1>3, <1>11, <2>1, <2>2, OnItsWayAppend DEF Selected
  <2>5. CartToCome(r, r.out, settled, p)
    BY <1>5, <1>11, <2>2 DEF CartToCome, SameMachine
  <2>6. MachineIsThere(r, r.out, p)
    BY <1>6, <1>8, <1>11, <2>2, <2>3 DEF MachineIsThere, SameMachine
  <2> QED BY <2>3, <2>4, <2>5, <2>6 DEF Comes, MachineToCome, r
<1> QED BY <1>7, <1>9, <1>10, <1>11

LEMMA SelectionUserSelect ==
  ASSUME FilesInv, SetUp, NEW p \in Software, UserSelect(p)
  PROVE  SelectionInv'
<1> DEFINE s == IF p.media = None THEN emu ELSE LoadFile(emu, p.media)
           r == Select(emu, p)
<1> SUFFICES ASSUME sure' PROVE
       /\ wish' \in Software /\ place' = "idle"
       /\ Comes(emu', due' \o later', settled', wish')
  BY DEF SelectionInv
<1>1. /\ place' = "idle" /\ due' = due /\ settled' = settled
      /\ Emptied(r) /\ later' = later \o r.out /\ wish' = p
  BY DEF UserSelect, User
<1>2. CanBeSure(p)
  BY DEF UserSelect, CanBeSure
<1>3. Selected(s, p) /\ p.machine \in Machines
  BY SelectedMedia, WasmAssumption DEF WasmAssumption
<1>4. r = SetMachineCart(s, p.machine, p.cart, p.rom)
  BY DEF Select
<1>5. r \in EmuStates /\ r.out \in Seq(Events)
  BY SelectGood DEF FilesInv, Good, EmuStates
<1> HIDE DEF s, r
<1>6. Comes(r, r.out, settled, p)
  <2>1. \/ Started(s, SetMachine(s, p.machine), p.machine)
        \/ PutOff(s, SetMachine(s, p.machine), MachineEvent(p.machine), Needs(s, p.machine))
    BY <1>3, SetMachineEffect DEF Selected
  <2> QED BY <1>2, <1>3, <1>4, <2>1, SelectionStarts, SelectionWaits
<1>7. due' \o later' = r.out
  <2>1. due = <<>> /\ later = <<>>
    BY <1>2 DEF CanBeSure, Quiet
  <2> QED BY <1>1, <1>5, <2>1, ConcatAssoc
<1>8. SameMachine(r, emu') /\ emu'.locked = r.locked
  BY <1>1, <1>5, EmptiedFields
<1>9. Comes(emu', r.out, settled, p)
  BY <1>6, <1>8, ComesStill DEF Comes
<1> QED BY <1>1, <1>7, <1>9

LEMMA SelectionStep ==
  FilesInv /\ SetUp /\ SelectionInv /\ [Next]_wasmVars => SelectionInv'
<1> SUFFICES ASSUME FilesInv, SetUp, SelectionInv, [Next]_wasmVars PROVE SelectionInv'
  OBVIOUS
<1>1. ASSUME NEW m \in Machines, UserMachine(m) PROVE SelectionInv'
  BY <1>1 DEF UserMachine, SelectionInv
<1>2. ASSUME NEW c \in Carts \cup {None}, UserCart(c) PROVE SelectionInv'
  BY <1>2 DEF UserCart, SelectionInv
<1>3. ASSUME NEW f \in Files, UserLoad(f) PROVE SelectionInv'
  BY <1>3, SelectionUserLoad
<1>4. ASSUME NEW p \in Software, UserSelect(p) PROVE SelectionInv'
  BY <1>4, SelectionUserSelect
<1>5. CASE UserActs
  BY <1>1, <1>2, <1>3, <1>4, <1>5 DEF UserActs
<1>6. CASE Key
  BY <1>6 DEF Key, SelectionInv
<1>7. CASE TimeIsUp \/ TimeGoesOn
  BY <1>7, SelectionDispatch DEF TimeIsUp, TimeGoesOn
<1>8. CASE Fetched
  BY <1>8, SelectionFetched
<1>9. CASE InitBegins \/ InitEnds \/ FrameBegins \/ RunBegins \/ FrameEnds
  BY <1>9, SelectionMoves
<1>10. CASE UNCHANGED wasmVars
  BY <1>10 DEF wasmVars, SelectionInv
<1> QED BY <1>5, <1>6, <1>7, <1>8, <1>9, <1>10 DEF Next, Browser

\* Software that is selected while all is quiet gets its machine and its cartridge,
\* with the ROM it asked for, however its downloads end, whatever files the user
\* loads meanwhile and in whatever frame each of its messages is carried out, for
\* any machines, cartridges, files and software.
THEOREM SelectionIsMade == Spec => []SelectionTakesEffect
<1>1. Init => SelectionInv
  BY DEF Init, SelectionInv
<1>2. FilesInv /\ SelectionInv => SelectionTakesEffect
  <2> SUFFICES ASSUME FilesInv, SelectionInv, sure, Quiet
               PROVE  /\ emu.machine = wish.machine
                      /\ wish.machine \notin NoPort =>
                           /\ emu.cart = wish.cart
                           /\ wish.rom # None => emu.loaded = wish.rom
    BY DEF SelectionTakesEffect
  <2> DEFINE none == <<>>
  <2>1. due \o later = none
    BY DEF Quiet
  <2>2. ~Has(none, "machine") /\ ~Has(none, "cart")
    BY HasNone
  <2> HIDE DEF none
  <2>3. MachineIsThere(emu, none, wish)
    BY <2>1 DEF SelectionInv, Comes
  <2> QED BY <2>2, <2>3 DEF MachineIsThere
<1> DEFINE Inv == FilesInv /\ SetUp /\ SelectionInv
<1>3. Init => Inv
  BY <1>1, FilesInit, SetUpInit
<1>4. Inv /\ [Next]_wasmVars => Inv'
  BY FilesStep, SetUpStep, SelectionStep
<1>5. Inv => SelectionTakesEffect
  BY <1>2
<1> HIDE DEF Inv
<1> QED BY <1>3, <1>4, <1>5, PTL DEF Spec
=============================================================================
