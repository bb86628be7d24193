# Formal models of SuperComm and of XRoar's concurrent parts

This directory holds TLA+ modules for two programs of this repository.

*SuperComm 2.2* is the OS-9 Level II terminal program for the Tandy Color
Computer 3 the repository is about; its restored 6809 source is
`src/supercomm22-restored/supercomm22_proj_restored.asm`. Bare line numbers
below are lines of that file; `Sub_...`, `$...` and `n,U` are its labels,
addresses and variables.

*XRoar*, in `src/emcc_workflow/xroar/src`, is the emulator the repository builds
for the browser, so that SuperComm and other software run there. What is modelled
of it is where more than one thing goes on at a time: the debugger's thread, the
event queues, and fetching files while the browser calls back. Line numbers
with a file name, such as `gdb.c:423`, are lines of its files.

* [1. The system](#1-the-system): parts, state, interactions, what is hard
* [2. The modules](#2-the-modules): which module models what, and how
* [3. The runs](#3-the-runs): what is checked, with which bounds, what it shows
* [4. The proofs](#4-the-proofs): what holds for every value of the constants
* [5. Assumptions](#5-assumptions-and-what-happens-without-them)
* [6. What the code does at the edges](#6-what-the-code-does-at-the-edges)
* [7. What is not modelled](#7-what-is-not-modelled)
* [8. The plan](#8-the-plan)

To run: `tlc -config Xmodem_noise.cfg MCXmodem.tla` (the table in section 3
gives the module of every cfg), `tlapm XmodemProofs.tla`.

---

## 1. The system

SuperComm is one OS-9 process without threads. Concurrency comes from outside:
the other end of the line, the modem, the user at the keyboard, a forked child,
the operating system's path table, and one signal handler that runs between
any two instructions. The program looks at each of them by polling.

XRoar emulates a machine frame by frame in one thread. Everything that has to
happen at a time is an event on one of two lists. A native build may serve a
debugger from a second thread; the browser build has no threads, but its
callbacks come in any order, and files arrive when they like.

| part | code | its state | its operations | what it talks to |
|---|---|---|---|---|
| XMODEM download | `Sub_36F4`-`Sub_3992`, `Sub_39F1`, `Sub_4191`, `Sub_41EC`, `Sub_36CD` | block number 83,U, errors 82,U, CRC flag 90,U, duplicate flag 98,U, memory buffer up to `RxBufPtr`, file on path 66 | ask with C or NAK, receive a packet, store, flush, purge, end at EOT, give up | the sender through the line; the capture buffer, which is the same memory |
| XMODEM upload | `Sub_3F08`-`Sub_40E7`, `Sub_2408`, `Sub_249F`, `Sub_2A15` | block number, tries, CRC flag, block in memory | answer C, NAK, ACK, CAN; send EOT; give up after 59 s | the receiver through the line |
| YMODEM batch | the same with flag 70,U; `Sub_38FD`, `Sub_40BE`, `Sub_40EA`, `Sub_2A52` | list of names, file number 106,U, name 159,U, size | header (block 0), its answer, next file, last header | both transfers |
| ticks, timeouts, clock | signal handler (2985), `Sub_0F56`-`Sub_0FAC`, `Sub_3BBC`, `Sub_3BDA` | second counter 115,U, last seen 116,U, clock 117,U, start of a wait 96,U | count, bring the clock up to date, look whether a wait is over | everything that waits |
| session capture | `Sub_4394`, `Sub_43CA`, `Sub_2364`, `Sub_4233` | flags 36-38,U, `RxBufPtr`, path 42 | store, flush, toggle, open, close | downloads and the dialer, which use or need its buffer |
| terminal loop, conversion, ASCII upload | `Sub_0C5E`, `Sub_0FB8`, 1316-1605, 7605-7661 | chunk 223,U, its length 3209,U, flags | read a chunk, convert, show, capture, scan | all the others |
| paths: conference window, shell, external ZModem, transfer files | 2553-2760, 4198-4350, 7073-7083, 6307-6341 | path numbers 42, 43, 44, 63, 66 with flags 35, 37, 64, 70; path 0 | open, close, put path 0 aside for a child, wait, interrupt | OS-9's path table, a child |
| matchers for ZModem and autologon | `Sub_1062`, `Sub_254A` | place 108,U, flag 107,U; prompt 3202,U, place 5020,U | one character of a chunk | the terminal loop, external ZModem |
| dialer, directory, menus | `Sub_2EBF`, `Sub_314B`, `Sub_33E0`-`Sub_354B` | entry 3314-3354,U, try 5023,U, seconds 3236,U, mode 34,U, buffer 5033,U | choose an entry, hang up, dial, look for an answer, next try | the modem, the clock, autologon |
| ANSI and OS-9 emulation | 1316-1605, 2161-2337 | cursor, attributes, sequence so far | one character | the screen |
| configuration save | 5112-5157 | the program's own module on disk | patch the data, seal the CRC again | disk |
| XRoar: GDB target | `gdb.c`, `dragon_run`, `coco3_run` | run state, mutex, condition variable, socket, no-ack mode, breakpoints | run a frame or wait, stop and report, accept, read a packet, break, continue, step, close, replace the machine | a debugger over a socket; the emulator's frames |
| XRoar: event queues | `events.c`, `events.h`, `xroar_run`, `cpu_cycle` | `event_current_tick`, two lists of events in order of their 32-bit times | queue, move, dequeue, run a queue up to a time | every part that schedules something |
| XRoar: files and machines in the browser | `wasm/wasm.c`, `xroar_ui_set_machine`, `xroar_ui_set_cartridge`, the page | locked files and their count, machine, cartridge, the messages put off | fetch, set a machine or a cartridge now or later, load, select software, initialise, run a frame | the browser, the event list of the user interface |
| rest of XRoar | processors, video, sound, cartridges, tapes, disks | registers and memory of the hardware | cycle by cycle | - |
| `cocotools` (lwasm port), disassembler and markup tools, WASM wrappers, toolshed | `src/cocotools*`, `src/dis6x09.py`, `src/markup.py`, `src/emcc_workflow` ... | none that lives between two calls | file to file | - |

The hard parts, and the properties that make each part correct:

* **Transfers.** Unreliable delivery in both directions, a sender without a
  retransmission timer, one byte of block number on the wire, an EOT that any
  damage can forge, disks that fail in the middle. Correct: what arrives is an
  exact beginning of what was sent; nobody is told "ok" early; both ends come
  back to the terminal.
* **Batches.** State that has to be reset between files, and answers that are
  not looked at. Correct: files arrive whole, in order, under their own names.
* **Time.** A one-byte counter raised by a signal at any instant. Correct: no
  second lost or shown twice, no wait ended early or late, through the wrap.
* **Capture.** One buffer with two users and no owner. Correct: captured text
  is complete, in order, and nothing else gets into the file.
* **Paths.** Numbers kept after a close and given out again by OS-9. Correct:
  a flag's path is what it means, and the keyboard is on path 0; the line and the
  screen stay on theirs whatever fails.
* **Matchers.** A string cut into chunks anywhere. Correct: a transfer starts,
  and an answer is sent, exactly when it was asked for.
* **Dialer.** A modem whose answers come late, are echoed, or are found in what
  an earlier answer left. Correct: the connect string, which may hold a
  password, goes out only on a connection; connections are noticed; it ends.

* **Debugger.** A thread that reads the run state without the mutex and trusts
  it, two threads that may both stop the machine, waits without a loop. Correct:
  nobody looks at a machine that runs; one reply for each time it was let run;
  the mutex comes back; the machine runs on when the debugger has gone.
* **Events.** Times that wrap, a clock set back for each delegate, lists that
  change while they are worked off. Correct: the order and the times of a clock
  that never wraps.
* **Fetching.** Requests that are put off and tried again, in the order in
  which downloads happen to end. Correct: nothing is used before it is there,
  what was selected last is what runs, and it comes to rest.

`PROJECT.json` lists the hazards at their lines with the properties that
cover them; three have none and say why (block number 65536, sizes of seven
digits, 64 CRs in a chunk).

---

## 2. The modules

```
SerialLine <-- XmodemReceiver --+                   Capture <-- CaptureProofs
    ^                           +--> Xmodem         Dialer  <-- DialerProofs
    +--------- XmodemSender ----+     |  |          Ticks   <---+
    ^                                 |  +- FileCopy (INSTANCE) |
    |           MCXmodem, XmodemProofs              Paths   <---+- TerminalProofs
    |                                               Scanner <---+
    +-- YmodemBatch <-- YmodemReceiver --+                   ^
    |               <-- YmodemSender   --+--> Ymodem         +- MCScanner
    |                                           |
    |                        MCYmodem, YmodemProofs
    +-- LineProofs <-- XmodemProofs, YmodemProofs

    Gdb, Events <-- XRoarProofs      Wasm <-- MCWasm, WasmProofs
    (Events has an INSTANCE of Timers)
```

An arrow points from a module to the one that extends it. Every action is a
stretch of code between two places where the program waits or lets something
else act; each module's header lists its variables with those of the source.

**`SerialLine`** is the environment of the transfers: two queues, and what may
happen to a frame (lost, damaged, its first byte damaged, characters made up).
It is external: the source only writes to and reads from path 43. A frame
whose first byte is damaged is searched for a header by the receiver, so the
constant `Scan` says what each block's bytes would be taken for.

**`XmodemReceiver`, `XmodemSender`** model one side each. `rpc` and `tpc` are
the place in the code. `RxData`, `RxDuplicate`, `RxReject`, `RxSkip`,
`RxCancel` and `RxEot` are the outcomes of `Sub_39F1` with everything the
caller does about them: count the error, purge, store, flush when the buffer
is full, answer. A block is its position in the file; text conversion and
padding are left out. **`Xmodem`** puts them together; `Prompt` says whether
latency stays below the timeouts. **`FileCopy`** is what any transfer promises,
and `Xmodem` implements it under the mapping `Copy`.

**`YmodemBatch`, `YmodemReceiver`, `YmodemSender`, `Ymodem`** are the same with
the batch flag: they extend the XMODEM modules and have only what the flag
changes. A header is a frame with number 0 whose `pos` tells the file.

**`Capture`** is the buffer and the capture file. A character of text is the
number of its arrival, a byte of a download is 0; `logged` is what should have
been captured. `Receive` is a chunk on its way through the terminal loop,
`CopyChar` one turn of `Sub_4394` with the flush that may follow, `BeginDownload`
to `AbortDownload` what a download does to the shared pointer, `Dial` and
`LeaveDialer` what the dialer does.

**`Ticks`** has the counter, the clock and one wait. `Tick` may happen between
any two actions; `CatchUp` is one round of the loop 1655-1662, with register A
as a variable, because that is where a second could be lost. Without the
timer device the waits use the second of F$Time: the same module with
`Wrap = 60`.

**`Paths`** is OS-9's table (lowest free number first) and every variable that
names a path. `ZModemBegins` is the whole exchange of path 0 (2579-2600) with
its error exits; `Interrupted`, `PollKeyboard` and `Reaped` are the wait for
the child. A child of external ZModem's that ended with an error, as a killed one
does, leaves its message on the screen, and the program waits for a key
(`Sub_2AC5`): place `key`, left by `KeyRead`, or never when path 0 is lost
(`KeyAwaited`).

**`Scanner`** reads chunks of any content and length. `Match` is one character
in `Sub_1062`, `MatchPrompt` one in `Sub_254A`; the history variables keep as
much of the earlier stream as a property needs.

**`Dialer`** has the redial loop and the modem. What the modem wrote is a set
of words, since the program only asks whether CONNECT or BUSY is in it; `buf`
is the set of words that are still found in the buffer at 5033,U, which the
program searches beyond what it has just read. `byText` (34,U) is chosen from
the modem's answer to ATH.

**`Gdb`** has two program counters, `epc` for the thread of the emulator and `spc`
for the one of the socket, with the mutex's owner and the run state. What the
socket thread does under the mutex is one step, because it does not wait in
there; the emulator's thread keeps it for a whole frame, so `cpu`, `step`,
`report` and `stepped` are places. `SignalEmu` is `pthread_cond_signal` when the
other thread waits. `Connected` is every place with a debugger's socket in
`gip->sockfd`, from `accept` on (376), so also `attach`, where the mutex is still
to be taken. `owed` counts the stop replies the debugger has still to get, by its
own count: one for each continue, less those that came; `unasked` says that it
got one in `attach`, before the machine was stopped for it; `polite` says whether
it has waited for what it counts; `odd` is the history of two
things POSIX allows and the code does not expect: a wait that ends without a
signal, and a woken thread that gets the mutex too late. `Stuck` is what comes of
it: the emulator's thread waiting for ever for the mutex it holds.

**`Timers`** is what the event queues promise, in time that does not wrap.
**`Events`** is `events.c`: lists of events with times modulo `2 * Half`. `Queue`
is `event_queue_dt` and its like with the removal they begin with, `Place` the
loop that looks for the place in the list, `Dispatch` one turn of
`event_run_queue`'s loop, `RunEnds` its end. The delegates themselves are
`Scheduling`: they may queue, move or cancel anything. `due`, `older` and `lag` are
history variables, and the refinement maps them to the variables of `Timers`.

**`Wasm`** has one operator for each message (`SetMachine`, `SetCartridge`,
`LoadFile`, `SetMachineCart`, `Select`), each a function from the record `emu` to
the next one, since they call each other: `w.waiting # 0` after `Wget` is the test
on which a message is queued again. `place` is where in a callback the program
is. An event that is queued while the list is worked off is one tick late and
is carried out in the same frame as long as the frame's start is not behind the
clock: `TimeGoesOn` and `TimeIsUp`. The ROM a cartridge was loaded with is
`loaded`, the one it is configured with `rom`. **`MCWasm`** has the machines.

Every module has operators whose comment says *Variant for a mutant run*: the
same action with a plausible mistake, used to see that a property can fail.

---

## 3. The runs

| run | module, cfg | states | properties |
|---|---|---|---|
| `xmodem_noise` | MCXmodem, Xmodem_noise | 123,995 | AckedIsStored, CopySpec |
| `xmodem_slow` | MCXmodem, Xmodem_slow | 409,922 | HeldIsPrefix |
| `xmodem_disk` | MCXmodem, Xmodem_disk | 132,505 | Rising, ConfirmedByReceiver, RxEnds, TxEnds |
| `ymodem` | MCYmodem, Ymodem | 682,730 | FilesInOrder, NoMixing, FileIsDelivered, BatchEnds |
| `capture` | Capture, Capture | 268,033 | NoTextLost, NothingTwice, CaptureIsExact, ClosedIsComplete, BufferBounded |
| `ticks` | Ticks, Ticks | 411,693 | NeverLate, ClockIsRight, NeverEarly |
| `paths` | Paths, Paths | 1,427,931 | PathsInv, LineStays, BreakEndsZModem |
| `scanner` | MCScanner, Scanner | 6,365,889 | ScanInv, AnswersAreAsked |
| `dialer` | Dialer, Dialer | 591,264 | CallsAreReal, CallsAreNoticed, DialerEnds |
| `gdb` | Gdb, Gdb | 49,768 | Exclusive, RepliesMatch, WireIsClean, LockIsReturned, StepReturns, RunsAgain |
| `events` | Events, Events | 169,488 | TimeIsKept, LateBounded, TimersSpec, EventHappens |
| `wasm` | MCWasm, Wasm | 1,520,841 | FilesComeFirst, SelectionTakesEffect, AllSettles |

Type invariants and inductive invariants (`TypeOK`, `IInv`, `CaptureInv`, `TextInv`,
`TableInv`, `TicksInv`, `DialerInv`, ...) are proved, see section 4; where a property of a run
follows from them the run has the property only.

**xmodem_noise.** Three blocks, a number byte that counts modulo 3 (so that it
wraps inside the file), two errors in a row, a memory buffer of two blocks (so
that it is flushed in the middle and at the end), every kind of noise but a
false EOT. What the receiver holds is always an exact beginning of the file, an
ACK is never counted twice, "ok" means a whole file on both sides: all this is in
`FileCopy`, which the transfer implements. Nothing in the protocol relates blocks
further apart than one, which is why three blocks are enough to meet every case;
section 4 proves it for any number.

**xmodem_slow.** `Prompt` is FALSE: any timer may run out while the answer is
under way. Sender and receiver drift apart by more than one block then, and
the property that survives is `HeldIsPrefix`, as long as the drift stays below
what the number byte tells apart (`ByteMod = 8` here for three blocks; proved for any
file with fewer blocks than `ByteMod`).

**xmodem_disk.** The disk of either side fails, and a damaged block may read as
an EOT. A failed flush is not looked at (7351) and a read error counts as the
end of the file (4001), so blocks may be missing; what is left is that none is
doubled or out of order and that an upload ends well only if the download did.
The run also shows that both sides come back to the terminal. Its fairness is
`WF` of each program's own step: the program is a loop on a processor that keeps
running, and timers run out. Users and noise are under no fairness: nobody has
to type, and the line need not misbehave. The receiver counts every error path,
the sender ends 59 s after the last character. Deadlock is checked in every run.

**ymodem.** Two files of two and one blocks: enough for a name, a buffer and a
counter to be left over from one file to the next, and for a file that ends at
a flush. An upload may begin while old answers wait on the line, which a batch
upload does not purge (7116): blocks may be missing from a file then, and
`NoMixing` is what still holds. `FilesInOrder` and `FileIsDelivered` are about
batches that began on a quiet line (`fresh`); the second excuses a receiver that has
already ended, by its user or by its errors. Fairness as above.

**capture.** A buffer of four bytes, five characters, blocks of two bytes, one
aborted download, a disk that may be full. The buffer fills up inside a chunk,
at its end and during a download; five characters go once round it.

**ticks.** A counter that wraps after eight seconds, twelve seconds in all, a
limit of five: every wait that starts after the third second runs over the
wrap. `Base = 2` makes the clock carry into minutes, hours and back to zero.

**paths.** A table of eleven. Ten are needed by a session that leaks nothing,
so one leaked path is harmless and the second one is not: the run sees both
sides of the limit of `Sound`. It also goes on after a conference window that
could not be opened, with everything else the user may do then: `PathsInv` says
nothing of those histories, `LineStays` does. The damage never reaches the line,
the screen or the status window. Fairness: the program polls and waits
(`PollKeyboard`, `Interrupted`, `Reaped`), a key that was typed is read, and a child
that was sent a kill signal ends; a child that was not may run for ever, and
the user need not type: `BreakEndsZModem` promises the terminal, or the wait for
one more key if the child ended with an error (2636).

**scanner.** Chunks of up to three characters over an alphabet of five, a header
of three characters and a digit: it may be cut at every place. One of the
prompts comes back in itself (`11B`), one is not set.

**dialer.** Counters that wrap at 5, so that the "endless" value and the start
value 255 of the seconds are both met; no to three, or endless, tries. `DialerEnds`
needs `WF` of the program's loop and of time passing; modem, other end and user
are unfair.

**gdb.** One debugger after another, any command at any time, breaks, breakpoints,
connections that fail, machines that are replaced. The state is small, so there
is no bound at all. `WF` of both threads: they run, waits time out (20 ms) and
frames end. The debugger and the user are unfair; a debugger that has closed its
end properly leaves the thread in `gone`, which is why `RunsAgain` begins at
`closing`. A breakpoint of the debugger before may stop the machine between
`accept` and `attach`: the new one then gets a reply nobody asked for, which
`RepliesMatch` counts and `WireIsClean` excepts (section 6). The run has spurious wake-ups and overtaken threads as well; only
`Exclusive` is about those histories too. Section 5 says what fails after them.

**events.** One event of the user interface's and two of the machine's, up to
four ticks ahead, frames of two ticks, times that wrap every 18: an event may be
queued on one side of the wrap for the other, be late, be moved while it is late,
and tie with another one. Three is the least that has two in one list (their
order) and one in the other (whose delegates are called with the clock set back
as well). `EventHappens` needs `WF` of `xroar_run`'s loop, and is about events
nobody puts off for ever in a machine that is not stopped for ever.

**wasm.** A Dragon and a CoCo with a cartridge each and an MC-10 without a port,
software of every kind the page's list has: disk, cartridge with its own ROM,
the default cartridge with another ROM, none, and another machine. Two messages
of the user's may wait at a time. Downloads end in any order, well or not.
`WF` of the browser's callbacks, of downloads' ending and of the frame's clock;
users are unfair, and `AllSettles` is about a user who leaves it alone for a
while. `Early` is FALSE; section 6 says why.

---

## 4. The proofs

TLAPS proves these for every value of the constants allowed by the modules'
assumptions, so for the real 128-byte blocks, 256 values of a byte and files of
any length.

| theorem | property |
|---|---|
| `XmodemProofs!LineInvariance`, `Invariance`, `TypeCorrect` | LineInv, IInv, TypeOK |
| `XmodemProofs!NeverTwice`, `SenderHasAnswer` | Rising, ConfirmedByReceiver |
| `XmodemProofs!ReceivedInOrder`, `ShortFilesArriveInOrder`, `AcksAreCountedOnce` | HeldIsPrefix (twice), AckedIsStored |
| `XmodemProofs!NothingIsCutOff`, `SenderKnows` | NoSilentTruncation, SenderBelief |
| `XmodemProofs!TransferImplementsFileCopy` | CopySpec |
| `YmodemProofs!BatchTypes`, `BatchInvariance`, `WholeInvariance` | TypeOK, BatchInv, WholeInv |
| `YmodemProofs!FilesAreNotMixed`, `FilesAreInOrder`, `EachFileIsDelivered` | NoMixing, FilesInOrder, FileIsDelivered |
| `CaptureProofs!CaptureInvariant`, `CaptureExact`, `CaptureBounded` | CaptureInv, CaptureIsExact, BufferBounded |
| `CaptureProofs!CapturedText` | TextInv |
| `CaptureProofs!CaptureLosesNothing`, `CaptureNothingTwice`, `CaptureClosedComplete` | NoTextLost, NothingTwice, ClosedIsComplete |
| `TerminalProofs!TableInvariant`, `PathsHold`, `LineKept` | TableInv, PathsInv, LineStays |
| `TerminalProofs!StartsForHeaders`, `PromptsAreAnswered` | ScanInv, AnswersAreAsked |
| `TerminalProofs!TicksInvariant`, `ClockRight`, `WaitNeverEarly`, `WaitNeverLate` | TicksInv, ClockIsRight, NeverEarly, NeverLate |
| `DialerProofs!DialerInvariant`, `CallsReal`, `CallsNoticed` | DialerInv (with TriesCounted), CallsAreReal, CallsAreNoticed |
| `XRoarProofs!TypeCorrect`, `NeverBoth`, `OneStopReply`, `CleanWire`, `LockReturned` | GdbTypeOK, Exclusive, RepliesMatch, WireIsClean, LockIsReturned |
| `XRoarProofs!TimeKept`, `NeverLater`, `EventsImplementTimers` | TimeIsKept, LateBounded, TimersSpec |
| `WasmProofs!FilesFirst`, `SelectionIsMade` | FilesComeFirst, SelectionTakesEffect |

`LineInv`, `IInv`, `TypeOK`, `NoSilentTruncation`, `SenderBelief`, `CaptureInv`,
`TextInv`, `TableInv`, `TicksInv`, `DialerInv`, `BatchInv` and YMODEM's `WholeInv` are
in no run's list: the proof
covers more than a run would.

**XMODEM** has two layers. `LineInv` needs a prompt line only (`Prompt`): at most
one block or one answer is under way (`OneAtATime`), because both sides purge and
because timers run out only when nothing is; a block on its way is the one the
sender has in memory; and what the receiver has stored is in order and older than
the block it waits for. None of this looks at the disks or at what else the line
makes of a block, so `Rising` and `ConfirmedByReceiver` hold with failing disks and
false EOTs. `WholeInv` is the second layer and needs `SafeLine`: working disks as
well, and no torn block that reads as an EOT. `HeldIsPrefix` is not inductive: a
duplicate is recognised by its number byte only, which is right only if sender
and receiver are never more than one block apart (`Lockstep`), which holds only
because an ACK on the line always means that the receiver is one block ahead
(`AckMeans`). `IInv` is both layers; there is one lemma per action and layer.
The properties and the refinement follow from it.
On a slow line all of this fails but one thing: an intact block still carries its own
number, so in a file of fewer blocks than the byte can count (`ShortFile`) the block
that is stored can only be the one that is missing. `SlowInv` says so, for any number
of timers that run out too early, and gives `HeldIsPrefix` once more.

**YMODEM** (for any list of files without an empty one; a block is its position in
all that is sent, so positions ascend within a file) has two layers as well, but the
first is not the XMODEM argument. A batch may begin with old answers on the line; the
sender counts them as ACKs and runs ahead of the receiver, so that neither `OneAtATime`
nor `AckMeans` holds. What is left is a count of the C: the sender takes one for every
header, which no other answer replaces ($40EA), and one more before the first block
($415C);
the receiver sends a C only while it waits for a header and behind the ACK of one,
and none while a file is open. `TxPhase` says for each place of the sender how many
files the receiver has closed, whether it holds one open, and which C and ACK can
still be on the way; `FramesFit` what is on the way to the receiver: headers before
blocks, blocks in the order of the file and none behind the EOT (`InOrder`), all of
the one file that is open. So blocks may be missing, but no block gets into another
file: `NoMixing`, from `BatchInv`, on a prompt line (`SafeBatch`), with failing disks
too. `BatchInv` also shows that no block arrives where a header is expected except
a header, which is why `YmodemReceiver` needs no action for a block 255 there.
The second layer, `WholeInv`, is for batches that began on a quiet line (`fresh`) with
a disk that can be written (`SafeDisk`): then one answer, or an ACK with its C, or one
frame is under way (`OneUnderWay`), sender and receiver are at most one block apart
until the EOT, and an EOT means that the receiver has the whole file (`FileWhole`).
`FilesInOrder` follows from the state, `FileIsDelivered` from the step in which the
sender goes on to the next file whatever it was answered. A read error on the sending
side, which ends a file early, is modelled for single transfers only (`xmodem_disk`).

`LineProofs` has what both protocols need: lemmas about the two queues (what a step
leaves in them, adds, or takes away), about the number byte, and about the modules'
common operators.

**Capture.** The buffer is compared with its end *after* a character is
stored (7533), so the invariant is that outside a download there is room for
one more (`RoomLeft`), that without a file the buffer is empty (`NoFileNoText`),
and that text still to be copied implies an open file (`CopyPhase`).
`CaptureIsExact` is conditional on no aborted download and no failed write. The
weaker statements that hold in spite of those filter the text out of what a
download leaves in the buffer, and say the same without a filter: characters are
numbered in the order they come, so `TextInv` says that the numbers rise through
file, buffer and the chunk being copied (`TextInOrder`), that all that was captured
is there as long as no write failed (`TextIsThere`), and that whatever empties the
buffer unwritten finds no text in it (`NoTextAtRisk`).

**Paths** (for a table of 10 to 255 entries; every session needs ten). A path is the
lowest free number, so what an `I$Dup` or an `I$Open` returns depends on everything
that was ever opened and closed; and `PathsInv` is only about tables with room, while
a leak can fill one and a later close make room again. `TableInv` therefore follows
the table through that as well: each object is on the path its variable names
(`OwnPaths`), the transfer's variable names its file or a path nothing else was
given, so that a second close hits nothing (`TransferFile`), and the keyboard is gone
only if the leaks have filled the table (`KeyboardLost`). It holds until a conference
window fails, which closes a path that is not its own (section 5). What such a close
can hit is bounded all the same: no number up to the serial path's but 0 is ever free,
so nothing that is opened gets one, and every number in a variable, stale ones too, is
either 0 (63,U before the first window) or above (`LineInv`); once path 0 is closed
no key is read and nothing is opened any more. `LineStays` follows, for every history.

**Scanner** (any characters, any prompts, chunks of any length; the header's first
character does not come back in it). A matcher that starts over at a character
that does not fit is right only because of the latter: at most one beginning of
such a string can be at the end of a stream (`OneBeginning`), so a count of n means
that n characters have come and that no other number has. `MatcherInv` says that
for the stream up to the character read last, with the two places where it is not
so: the character after the header, which is looked at without being taken, and a
flag 107 that is left over, when the matcher may miss a header but never counts
what has not come. `LogonInv` says it for the prompts, which need not be so: for
the others one half of it remains. Between two chunks both matchers keep a count
only, and the invariants show that what the count stands for is still at the end
of the stream (`ReachesLast`).

**Ticks.** The counter is compared for equality, so everything rests on never
being a full turn behind: `ClockInv` bounds how far the clock is behind by the
seconds since the last call, `WaitInv` how long a wait has lasted by the gap
since the last look. `2 * Busy < Wrap` and `Limit + Gap <= Wrap` are what that
needs; with 256 and the limits of the source (at most 59 s) both are ample, and
with the second of F$Time (`Wrap = 60`) the 59 s limit leaves a gap of one
second.

**Dialer** (for modems whose replies are at least eight characters long).
`DialerInv` ties the number of the try to the numbers dialed at every place of
the loop (`TryInv`), says what a CONNECT on the line or a carrier means there
(`RealInv`) and why a connection not yet noticed still can be (`NoticeInv`).
`CallsAreReal` and `CallsAreNoticed` are carried along with it.

**GDB target.** The run state is read without the mutex at `gdb.c:423`, and yet
`exec` implies that it is "stopped": only the socket's own thread ever takes
"stopped" away, and the emulator's thread, which holds the mutex while it works,
works only by "running" or "single" (`StateFits`; this part holds after spurious
wake-ups and for overtaken threads as well). A step is under way only while its debugger
waits for it, and a reply is due exactly while the machine is let run for it
(`RepliesInv`, before any spurious wake-up). One that comes before the machine was
stopped for its debugger can only be a leftover breakpoint's, and stops the
machine: it is the only one (`unasked`). A debugger that got none of those and
sends packets only when it counts none due has its commands answered first. That a woken thread still finds the
machine running (`LockInv`) is what `gdb_run_lock`'s callers rely on.

**Events.** The lists are ordered by the true time and then by age
(`XRoarProofs!Ordered`); the wrapped times are the true ones taken round
(`TimeIsKept`); and since nothing is scheduled more than `MaxDt` ahead nor is more
than two frames late (`LateBounded`), the sign of a 32-bit difference is the sign
of the true one. From these the place `event_queue` finds, the head of a list and
the test for pending events are those of `Timers`, and every step implements
one of its steps.

**Browser.** `FilesComeFirst` rests on the count: `wasm_waiting_files` is the number
of locked files, and a file that was asked for is locked or settled, so a count of
zero after `Wget` means that all of them are there, whatever was asked for by
others in the meantime. Every message keeps this (`FilesInv`), and so does every
event on the lists. `SelectionTakesEffect` speaks of the end only and
has to be followed on the way there. `SetUp`: a machine, or a cartridge, that should be
there and is not has its message on a list. `SelectionInv`, while a selection is
`sure`: every message on the two lists is one of its own, the machine's before the
cartridge's (`OnItsWay`); what they need is locked or there, and a frame that works
them off begins only when all of it is there, so that none is put off again; and
what has no message any more is as selected (`Comes`).

Beyond the prover: liveness and `ENABLED` (`RxEnds`, `TxEnds`, `BatchEnds`,
`BreakEndsZModem`, `DialerEnds`, `StepReturns`, `RunsAgain`, `EventHappens` and
`AllSettles` are model-checked); induction over data (what a recursive definition
computes). Every safety property of a run is stated by a theorem. What no theorem and no run
covers: on a slow line a file of 256 blocks or more, for which `HeldIsPrefix` holds
only as long as sender and receiver stay less than 256 blocks apart; and a batch
whose headers' first bytes are damaged (`"header"` in `Faults`).

---

## 5. Assumptions, and what happens without them

* `SafeLine`. Without `Prompt` see `xmodem_slow` and `ShortFile` (fewer than `ByteMod`
  blocks, a receiver's disk that takes what is written); with failing disks or a false
  EOT see `xmodem_disk`.
* `SafeBatch` and `SafeDisk` (YMODEM): a prompt line on which the first byte of a block
  is not damaged, and for `FilesInOrder` and `FileIsDelivered` a receiver's disk that
  takes what is written: a failed flush leaves a hole, as in XMODEM (7351).
* `BatchAssumption`: positions ascend within a file, because a block is its position in
  all of what is sent.
* `fresh` (YMODEM), a history variable: an upload began on a line without old
  answers. Without it `FilesInOrder` and `FileIsDelivered` fail: a C or NAK that
  waits on the line answers the first header.
* `Sound` (Paths). After a conference window could not be opened the code
  closes path 0 or a number that has been given away (4275); each empty upload
  leaks a path (7083), and when the table is full the keyboard is lost (2591).
  What holds then is `LineStays`.
* `~Stale` and `Simple` (Scanner). Flag 107 survives a header that starts no
  transfer; a prompt whose first character comes back in it can be missed.
* `ShortReplies = FALSE` (Dialer). `Sub_2DDD` searches the rest of the buffer when
  what it has read is shorter than the word (5073): with TRUE a remnant of CONNECT
  counts as one, and `CallsAreReal` fails.
* `Audible` and `~wasOnline` in `CallsAreNoticed`: the modem tells by result codes,
  or by the carrier when no echo makes the program look for words; and it did hang
  up when told to. Replies to ATH are taken to come within its 90 ticks, and a
  result code is not cut in two by a look.
* `2 * Busy < Wrap`, `Limit + Gap <= Wrap` (Ticks), see section 4.
* `odd` (Gdb), a history variable. A debugger that breaks, or reconnects, in the
  instant between `pthread_cond_signal` and the woken thread's getting the mutex
  ("overtaken") makes `gdb_run_lock` return "stopped" with the mutex held; its
  callers return without unlocking (`coco3.c:864`), and the emulator hangs in its
  next frame: without the condition `LockIsReturned` and `RunsAgain` fail.
  "spurious": neither wait is in a loop (`gdb.c:291`, `gdb.c:327`); POSIX allows a
  wait to end without a signal, and then `RepliesMatch`, `WireIsClean` and
  `StepReturns` fail as well.
* `MaxDt + 2 * Frame < Half` (Events): the longest times in the source are seconds,
  half the range is two and a half minutes. `MinUi >= 2 * Frame`: only the printer
  schedules an event of the user interface from one of the machine's, and well
  ahead; were it near, the two lists could set each other back again and again.
  Every delay is at least one tick: with 0 an event that schedules itself would
  be carried out for ever, and no part of the program does that.
* `sure` (Wasm), the four conditions `UserSelect` sets it by: nothing was under way,
  the machine that ran takes cartridges, software without a cartridge is for the
  same machine or one with none enabled, and the cartridge is not the one its
  machine gets anyway with another ROM. Without any one of them
  `SelectionTakesEffect` fails; section 6 has what happens.
* `unasked` (Gdb), a history variable: `WireIsClean` is about a debugger that was
  sent no stop reply before the machine was stopped for it (section 6).
* `PathsAssumption`: a path table has 10 to 255 entries. With fewer the program does
  not come as far as its terminal loop; 255 stands for a path that is not open.
* Software without a cartridge names no ROM for one (`WasmAssumption`; every entry
  of `wasm/software.js` is like that).
* `Early = FALSE` (Wasm): the user selects software only after the initialisation.
* Bounds: `MaxStrays`, `MaxText`, `MaxAborts`, `MaxSeconds`, `MaxChunk`,
  `MaxTries`, `MaxWait`, `MaxQueue` cap what the environment does and appear in the
  guards; the theorems hold for any value of them.

---

## 6. What the code does at the edges

Met while modelling; each is modelled as the code has it, or listed as a hazard.

SuperComm (no document of the repository says anything else of the program):

* `RTR=N` with N of 2 or more dials N-1 times: the try is raised before it is
  compared (5877). `TriesCounted` says so.
* The dialer gives up without hanging up. A connection that comes in the
  instant a try ends is not noticed: ATH goes to the host, and CONNECT is read
  away by the purge of the next try (5829). BUSY is looked for even when nothing
  was read (5843), so an old one ends a try at once.
* An entry without `ADS=` dials the number of the entry before it.
* After the dialer the chunk read last is shown, captured and scanned again (5235).
* An aborted download leaves `RxBufPtr` where it was: the next flush writes its
  blocks into the capture file (6341).
* After ZFIN flag 107 stays set, and a chunk that begins with 0 or 1 starts
  external ZModem (1791). A prompt that is not set is matched by a zero; the
  autologon stays armed after a call that failed.
* During external ZModem the keyboard is looked at only when `F$Wait` returns,
  and BREAK counts only as the first key (2616).
* The 59 s of a sender are also how a batch ends on its side when the receiver
  cancels in answer to the last header (6247, 413D).
* A read error of an upload leaks its path.
* `f=` on the command line asks for the file of an ASCII upload and opens no
  capture file, since 3232,U, which the capture's menu raises, is still clear
  (7389, 7600); after `-f=` the next capture file is opened with capturing off.
* With automatic line feeds 64 CRs in one chunk wrap its length (1344); sizes of
  exactly seven digits fill 4777-5032 with zeros (4618); the CRC flag is raised
  by INC (6186); a list of 32 names has no end (4728).

XRoar's GDB target:

* A debugger that closes its end properly makes `recv` return 0, and the thread
  asks again at once, for ever (`gdb.c:548`); a machine it had stopped stays
  stopped, and no other debugger can connect until the machine is replaced.
* No-ack mode outlives its connection (nothing resets `no_ack_mode`), and so do
  breakpoints: they stop a machine nobody debugs.
* Such a breakpoint may be hit after the next debugger was accepted, which sets
  `gip->sockfd` (`gdb.c:376`), and before the machine is stopped for it (391): it
  gets a stop reply it has not asked for (`gdb.c:310`), may take it for the answer
  to its first continue, and is then one reply ahead of the machine. `RepliesMatch`
  counts it (`unasked`), and `WireIsClean` is about debuggers that got none.
* In no-ack mode a packet with a wrong checksum is carried out.
* A single step, and the wait of a stopped frame, trust the wake-up (section 5).

XRoar's events:

* `finish_init` works off the list without looking at the clock: an event put off
  by one tick is carried out in the same callback.
* An event that frees itself after its delegate (autofree) must not be queued again
  by the delegate: it would be freed while on the list. Nobody does it.

XRoar in the browser:

* Software with another ROM for its machine's default cartridge, selected during the
  initial download: `finish_init`'s loop then tries a message again and again, in
  a callback in which no download can end. The tab hangs (`Early = TRUE`: `AllSettles`
  fails).
* The same cartridge with another ROM keeps the old one: "cart isn't changing"
  (`xroar.c:2348`).
* A request for a cartridge is dropped while the machine that runs takes none or
  there is none yet, even when a machine that takes one has been put off.
* Software without a cartridge for another machine takes the cartridge out of the
  old one, and the new one comes with its default.
* An older request that was put off overrides a newer one that was not.
* The comment at `wasm.c:66` says that the emulator does not run while files are
  awaited; a frame in which a download starts runs to its end all the same.
* A snapshot that needs files is read again once, a tick later, before they can
  have come (`snapshot.c`); snapshots are not modelled.

---

## 7. What is not modelled

* In the transfers: files of 65535 blocks or more, text mode and padding, how
  names are made valid (`Sub_2860`) and sizes written as digits.
* In the capture: the XOFF and XON around a write.
* In the matchers: switching detection off, and the parity bit at the digit
  that is peeked at.
* In the paths: files one routine opens and closes (directory, configuration),
  and what is written to a path.
* In the dialer: keys of an entry that are settings, the directory's editor,
  windows and menus, which are layout.
* Terminal conversion, ANSI emulation, the conference line editor, hanging up
  from the terminal (2763-2819) and saving the configuration: planned, below.
* In the GDB target: digits, registers and memory of a packet, and two debuggers
  that wait for one connection.
* In the browser: a second ROM of a cartridge, snapshots, the search for a DOS that
  works, settings of video and joystick, and what a tape or disk does when it
  is there.
* The rest of XRoar is the emulation of hardware, in large tables and one cycle at
  a time: sequential, and checked best against the hardware; and several user
  interfaces for other hosts. `src/emcc_workflow/xroar-1.12.1` is a second version
  of the same program and is not modelled a second time.
* `cocotools` is a port of the third-party lwtools assembler; the disassembler and
  the markup tools are sequential, and their substance is opcode tables and text;
  the WASM wrappers are input and output; toolshed is a vendored set of file
  utilities that run from beginning to end.

---

## 8. The plan

Done, in this order: the XMODEM family and its proofs; YMODEM; Capture and
proofs; Ticks and proofs; Paths; Scanner; Dialer and proofs; Gdb and proofs;
Timers, Events and the refinement's proof; Wasm and the proof of `FilesComeFirst`;
then the proofs of the safety properties that had been model-checked only: the
captured text, the failing disks, the path table, the two matchers, the selection
in the browser, and the batch.

Next, most important first:

1. `Terminal`: the conversion of a chunk (1316-1605) with its one-byte length, and
   the ASCII upload with its pauses and keys (7605-7661); composed with `Capture`,
   so that the wrap of 3209 shows in the captured text.
2. `Cursor`: bounds of the ANSI cursor (2161-2337) for every sequence of
   operations, with an invariant to prove.
3. The conference line editor (4350-4468): what is typed and what is shown while
   text arrives.
4. The configuration's CRC seal (5112-5157): a crash between two writes.
5. XRoar: snapshots with the files they need; two lists of events joined with the
   frames of `Gdb`.

Theorems worth proving next: `HeldIsPrefix` on a slow line for files of any length,
with a bound on how far sender and receiver drift apart, which needs a measure of what
is under way; and a batch whose headers' first bytes are damaged, for which
`SerialLine` has to say what a header's bytes would be taken for.

New properties replace shallower ones rather than stand beside them:
`ConfirmedByReceiver` is implied by `SenderBelief` where disks work, and
`xmodem_disk` can take over more of the noise.
