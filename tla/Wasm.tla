-------------------------------- MODULE Wasm --------------------------------
(***************************************************************************)
(* XRoar in the browser (wasm.c): a machine or a cartridge can only be set *)
(* up when its ROM images are there, but they come over the network, and   *)
(* the browser carries out one callback at a time.  So a request whose     *)
(* files are missing starts their downloads and queues itself on the user  *)
(* interface's event list, to be tried again; and the emulator does not    *)
(* run frames while downloads are pending.                                 *)
(*                                                                         *)
(* A callback is what lies between two states with place = "idle": what    *)
(* the page calls, the end of a download, a call of finish_init, a frame.  *)
(* In a frame xroar_run works off the events that are due, at times set    *)
(* back to theirs, and then the machine runs.  An event queued by one that *)
(* is being carried out is due one tick later: nearly always at once.      *)
(*                                                                         *)
(* A cartridge has one ROM here; what a media file does to the machine is  *)
(* left out.                                                               *)
(***************************************************************************)
EXTENDS Integers, Sequences, FiniteSets

CONSTANTS
  Machines, Carts, Files, None,
  Roms,          \* the ROM images of each machine
  NoPort,        \* the machines that take no cartridge
  StockRom,      \* the ROM each cartridge is configured with
  StockCart,     \* the default cartridge of each machine, or None
  First, Media,  \* the machine to start with; media given with it
  Software,      \* what the page offers: [machine, cart, rom, media]
  Early,         \* software may be selected before initialisation is over
  MaxQueue       \* what the user does while so many events wait is left out

ASSUME WasmAssumption ==
  /\ IsFiniteSet(Files)
  /\ Roms \in [Machines -> SUBSET Files] /\ NoPort \subseteq Machines
  /\ StockRom \in [Carts -> Files] /\ StockCart \in [Machines -> Carts \cup {None}]
  /\ First \in Machines /\ Media \subseteq Files
  /\ Software \subseteq [machine : Machines, cart : Carts \cup {None},
                         rom : Files \cup {None}, media : Files \cup {None}]
  /\ \A p \in Software : p.cart = None => p.rom = None
  /\ Early \in BOOLEAN /\ MaxQueue \in Nat
  /\ None \notin Machines \cup Carts \cup Files

VARIABLES
  phase,     \* "init" up to the end of finish_init, then "run"
  place,     \* "idle", "init" (finish_init's loop), "keys" and "events" (of a
             \* frame), "late" (events, the frame's start is behind the clock)
  settled,   \* files that are there, or failed to be fetched
  emu,       \* what the messages below work on
  due,       \* UI events that are due in the next frame, or this one
  later,     \* UI events that are not
  wish, sure \* history: the last selection, and whether it has to succeed

wasmVars == <<phase, place, settled, emu, due, later, wish, sure>>

\* The fields of emu: locked files and wasm_waiting_files; the machine, its
\* cartridge and the ROM that was loaded into it; cart_enabled and default_cart
\* of every machine; rom of every cartridge; the events queued by this step.
Nothing ==
  [locked |-> {}, waiting |-> 0, machine |-> None, cart |-> None, loaded |-> None,
   enabled |-> [m \in Machines |-> StockCart[m] # None], default |-> StockCart,
   rom |-> StockRom, out |-> <<>>]

MachineEvent(m) == [kind |-> "machine", of |-> m]
CartEvent(c) == [kind |-> "cart", of |-> c]
LoadEvent(f) == [kind |-> "load", of |-> f]

\* wasm_wget, of each file of a set: unless it is locked, failed or there.
Wget(s, files) ==
  LET new == files \ (s.locked \cup settled)
  IN [s EXCEPT !.locked = @ \cup new, !.waiting = @ + Cardinality(new)]

\* wasm_queue_message_value_event, event_queue_auto
Later(s, e) == [s EXCEPT !.out = Append(@, e)]

-----------------------------------------------------------------------------
(***************************************************************************)
(* The messages.                                                           *)
(***************************************************************************)
\* The end of xroar_ui_set_cartridge: the old one out, the new one in.
Insert(s, c) ==
  IF c = s.cart THEN s
  ELSE [s EXCEPT !.cart = c,
                 !.loaded = IF c = None THEN None ELSE s.rom[c],
                 !.enabled[s.machine] = c # None,
                 !.default[s.machine] = IF c = None THEN @ ELSE c]

\* Variant for a mutant run: the new cartridge goes in, ROM or no ROM.
SetCartridgeNow(s, c) ==
  IF s.machine = None \/ s.machine \in NoPort THEN s
  ELSE LET w == Wget(s, IF c = None THEN {} ELSE {s.rom[c]}) IN Insert(w, c)

\* xroar_ui_set_cartridge
SetCartridge(s, c) ==
  IF s.machine = None \/ s.machine \in NoPort THEN s
  ELSE LET w == Wget(s, IF c = None THEN {} ELSE {s.rom[c]})
       IN IF c # None /\ w.waiting # 0 THEN Later(w, CartEvent(c)) ELSE Insert(w, c)

\* The cartridge a machine comes with.
CartOf(s, m) == IF s.enabled[m] THEN s.default[m] ELSE None

\* What has to be fetched for a machine and its cartridge.
Needs(s, m) ==
  Roms[m] \cup (IF CartOf(s, m) = None THEN {} ELSE {s.rom[CartOf(s, m)]})

\* xroar_ui_set_machine, with xroar_configure_machine: a new machine, without a
\* cartridge until the message for that.
SetMachine(s, m) ==
  LET w == Wget(s, Needs(s, m))
  IN IF w.waiting # 0 THEN Later(w, MachineEvent(m))
     ELSE SetCartridge([w EXCEPT !.machine = m, !.cart = None, !.loaded = None],
                       CartOf(w, m))

\* Control-E: the cartridge in or out.
Toggle(s) ==
  IF s.machine = None \/ s.machine \in NoPort THEN s
  ELSE LET t == [s EXCEPT !.enabled[s.machine] = ~@]
       IN SetCartridge(t, CartOf(t, t.machine))

\* wasm_load_file
LoadFile(s, f) == Later(Wget(s, {f}), LoadEvent(f))

\* Variant for a mutant run: the cartridge first.
SetMachineCartSwapped(s, m, c, rom) ==
  LET n == IF c # None /\ rom # None THEN [s EXCEPT !.rom[c] = rom] ELSE s
  IN SetMachine(SetCartridge(n, c), m)

\* wasm_set_machine_cart
SetMachineCart(s, m, c, rom) ==
  LET n == SetMachine(s, m)
  IN SetCartridge(IF c # None /\ rom # None THEN [n EXCEPT !.rom[c] = rom] ELSE n, c)

\* start_program
Select(s, p) ==
  SetMachineCart(IF p.media = None THEN s ELSE LoadFile(s, p.media),
                 p.machine, p.cart, p.rom)

-----------------------------------------------------------------------------
\* The step ends with s; what it has queued goes to the end of list q.
Emptied(s) == emu' = [s EXCEPT !.out = <<>>]

\* Nothing is under way.
Quiet ==
  /\ phase = "run" /\ place = "idle" /\ emu.waiting = 0
  /\ due = <<>> /\ later = <<>>

\* xroar_init: the first machine, then its media
Init ==
  /\ phase = "init" /\ place = "idle" /\ settled = {}
  /\ LET s == Wget(SetMachine(Nothing, First), Media)
     IN emu = [s EXCEPT !.out = <<>>] /\ due = s.out
  /\ later = <<>> /\ wish = None /\ sure = FALSE

(***************************************************************************)
(* What the page calls.                                                    *)
(***************************************************************************)
User(s) ==
  /\ place = "idle" /\ (phase = "run" \/ Early)
  /\ Len(due) + Len(later) < MaxQueue
  /\ Emptied(s)
  /\ later' = later \o s.out
  /\ UNCHANGED <<phase, place, settled, due>>

UserMachine(m) == User(SetMachine(emu, m)) /\ sure' = FALSE /\ wish' = None

UserCart(c) == User(SetCartridge(emu, c)) /\ sure' = FALSE /\ wish' = None

UserLoad(f) == User(LoadFile(emu, f)) /\ UNCHANGED <<wish, sure>>

\* See SelectionTakesEffect for what has to be so if p is to be started for sure.
UserSelect(p) ==
  /\ User(Select(emu, p))
  /\ wish' = p
  /\ sure' = /\ Quiet
             /\ emu.machine \notin NoPort
             /\ p.cart = None =>
                  emu.machine = p.machine \/ ~emu.enabled[p.machine]
             /\ p.cart # None /\ p.cart = CartOf(emu, p.machine) =>
                  p.rom \in {None, emu.rom[p.cart]}

UserActs ==
  \/ \E m \in Machines : UserMachine(m)
  \/ \E c \in Carts \cup {None} : UserCart(c)
  \/ \E f \in Files : UserLoad(f)
  \/ \E p \in Software : UserSelect(p)

\* Variant for a mutant run: an error leaves the file locked.
FetchedOnly ==
  /\ place = "idle"
  /\ \E f \in emu.locked \ settled :
       \/ /\ emu' = [emu EXCEPT !.locked = @ \ {f}, !.waiting = @ - 1]
          /\ settled' = settled \cup {f}
       \/ UNCHANGED emu /\ settled' = settled \cup {f}
  /\ UNCHANGED <<phase, place, due, later, wish, sure>>

\* wasm_onload, wasm_onerror
Fetched ==
  /\ place = "idle"
  /\ \E f \in emu.locked :
       /\ emu' = [emu EXCEPT !.locked = @ \ {f}, !.waiting = @ - 1]
       /\ settled' = settled \cup {f}
  /\ UNCHANGED <<phase, place, due, later, wish, sure>>

-----------------------------------------------------------------------------
(***************************************************************************)
(* finish_init and the frames.                                             *)
(***************************************************************************)
Stay == UNCHANGED <<settled, emu, wish, sure>>

InitBegins ==
  /\ phase = "init" /\ place = "idle" /\ emu.waiting = 0
  /\ place' = "init" /\ due' = due \o later /\ later' = <<>>
  /\ UNCHANGED phase /\ Stay

\* The list is empty: initialised, unless that led to more waiting.
InitEnds ==
  /\ place = "init" /\ due = <<>>
  /\ place' = "idle"
  /\ phase' = IF emu.waiting = 0 THEN "run" ELSE "init"
  /\ UNCHANGED <<due, later>> /\ Stay

\* wasm_ui_run
FrameBegins ==
  /\ phase = "run" /\ place = "idle" /\ emu.waiting = 0
  /\ place' = "keys"
  /\ UNCHANGED <<phase, due, later>> /\ Stay

\* The keys that SDL has for us
Key ==
  /\ place = "keys" /\ Len(due) + Len(later) < MaxQueue
  /\ Emptied(Toggle(emu))
  /\ later' = later \o Toggle(emu).out
  /\ wish' = None /\ sure' = FALSE
  /\ UNCHANGED <<phase, place, settled, due>>

RunBegins ==
  /\ place = "keys"
  /\ place' = "events"
  /\ UNCHANGED <<phase, due, later>> /\ Stay

\* do_message_value_event; do_wasm_load_file and do_wasm_queue_basic
Handle(e) ==
  CASE e.kind = "machine" -> SetMachine(emu, e.of)
    [] e.kind = "cart"    -> SetCartridge(emu, e.of)
    [] OTHER              -> emu

\* event_dispatch_next.  now: what the event queues is not due before the next
\* frame any more.
Dispatch(now) ==
  /\ place \in {"init", "events", "late"} /\ due # <<>>
  /\ place' = now
  /\ LET s == Handle(Head(due))
     IN /\ Emptied(s)
        /\ due' = IF now = "late" THEN Tail(due) ELSE Tail(due) \o s.out
        /\ later' = IF now = "late" THEN later \o s.out ELSE later
  /\ UNCHANGED <<phase, settled, wish, sure>>

TimeGoesOn == Dispatch(place)

TimeIsUp == place = "events" /\ Dispatch("late")

\* The machine has run, and what was queued before is due.
FrameEnds ==
  /\ place \in {"events", "late"} /\ due = <<>>
  /\ place' = "idle" /\ due' = later /\ later' = <<>>
  /\ UNCHANGED phase /\ Stay

Browser ==
  Fetched \/ InitBegins \/ InitEnds \/ FrameBegins \/ RunBegins \/ TimeGoesOn \/ FrameEnds

Next == UserActs \/ Key \/ TimeIsUp \/ Browser

Spec == Init /\ [][Next]_wasmVars

\* Downloads end, callbacks go on, and an event that is tried again and again in
\* one frame is a tick later each time.
FairSpec == Spec /\ WF_wasmVars(Browser) /\ WF_wasmVars(TimeIsUp)

-----------------------------------------------------------------------------
(***************************************************************************)
(* Properties.                                                             *)
(***************************************************************************)
\* Nothing is used whose download has not ended: neither the ROMs of the machine
\* and of its cartridge, whatever was asked for in the meantime, nor the file
\* of an event that loads it, nor the media when initialisation is over.
FilesComeFirst ==
  /\ emu.machine # None => Roms[emu.machine] \subseteq settled
  /\ emu.cart # None => emu.loaded \in settled
  /\ place \notin {"idle", "keys"} /\ due # <<>> /\ Head(due).kind = "load" =>
       Head(due).of \in settled
  /\ phase = "run" => Media \subseteq settled

\* When all is quiet, the software selected last has got its machine and its
\* cartridge, with the ROM it asked for, in spite of the downloads and retries
\* it took.  That is sure only if nothing else was under way, if the machine
\* that ran takes cartridges, if software without a cartridge is for the same
\* machine or one that has none enabled, and if the cartridge is not the one its
\* machine would have got anyway, with another ROM.
SelectionTakesEffect ==
  sure /\ Quiet =>
    /\ emu.machine = wish.machine
    /\ wish.machine \notin NoPort =>
         /\ emu.cart = wish.cart
         /\ wish.rom # None => emu.loaded = wish.rom

\* When the user lets it, XRoar gets through its initialisation, its downloads
\* and all it has put off.
AllSettles ==
  <>[][~UserActs /\ ~Key]_wasmVars =>
    <>[](phase = "run" /\ emu.waiting = 0 /\ due = <<>> /\ later = <<>>)
=============================================================================
