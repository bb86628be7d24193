-------------------------------- MODULE Gdb ---------------------------------
(***************************************************************************)
(* XRoar's GDB target: the thread that serves one debugger at a time over  *)
(* a socket (gdb.c) beside the thread that emulates the machine, frame by  *)
(* frame (dragon_run, coco3_run).  They share the run state under a mutex  *)
(* and one condition variable, but the socket thread also reads it without *)
(* the mutex, and looks at registers, memory and breakpoints without any.  *)
(*                                                                         *)
(*   epc  the emulator's thread                                            *)
(*     ui        between two frames                                        *)
(*     lock      gdb_run_lock, waiting for the mutex                       *)
(*     wait      in pthread_cond_timedwait, for at most 20 ms              *)
(*     woken     woken by a signal, waiting for the mutex again            *)
(*     late      timed out, waiting for the mutex again                    *)
(*     cpu       the processor runs for a frame                            *)
(*     report    gdb_stop: stopped at a breakpoint, telling the debugger   *)
(*     step      the processor executes one instruction                    *)
(*     stepped   gdb_single_step: telling the debugger                     *)
(*     join      the machine is being replaced: gdb_interface_free         *)
(*                                                                         *)
(*   spc  the socket thread                                                *)
(*     listen    nobody is connected                                       *)
(*     attach    a connection was accepted, the machine not yet stopped    *)
(*     read      read_packet                                               *)
(*     check     a packet has come, the run state not yet looked at        *)
(*     exec      the command of the packet is carried out                  *)
(*     stepwait  gdb_machine_single_step, in pthread_cond_wait             *)
(*     stepwoken woken there, waiting for the mutex                        *)
(*     closing   the loop is left, gdb_continue still to come              *)
(*     gone      the debugger closed its end: recv returns 0 forever       *)
(***************************************************************************)
EXTENDS Integers

VARIABLES
  epc, spc,     \* where the two threads are
  owner,        \* who holds run_state_mt between two steps
  runState,     \* run_state
  armed,        \* a breakpoint is set
  cmd,          \* the command of the packet in in_packet
  noAck,        \* no_ack_mode
  owed,         \* stop replies this debugger has still to get; less than 0 if
                \* it has got more than it asked for
  unasked,      \* history: it got one before the machine was stopped for it
  polite,       \* it has only sent a packet when by its count none was due
  odd           \* history: what this machine's threads have met so far,
                \*   "spurious"   a wait ended without a signal, as POSIX allows
                \*   "overtaken"  the socket thread got the mutex before the
                \*                emulator's, which had been woken: a break at
                \*                once after a continue, or a new connection

emuVars == <<epc, owner>>
sockVars == <<spc, cmd, noAck, polite>>
replies == <<owed, unasked>>
gdbVars == <<epc, spc, owner, runState, armed, cmd, noAck, owed, unasked, polite, odd>>

EmuPc == {"ui", "lock", "wait", "woken", "late", "cpu", "report", "step", "stepped", "join"}
SockPc == {"listen", "attach", "read", "check", "exec", "stepwait", "stepwoken", "closing", "gone"}

\* What a packet may ask for, as far as it matters here: ? g m p q and what is
\* not known only look; G M P Q write to the stopped machine.
Commands == {"look", "write", "c", "D", "s", "z", "Z", "QStartNoAckMode"}

\* The debugger's socket is open: from accept on, before anything is asked of
\* the machine for it, until it is to be closed.
Connected == SockPc \ {"listen", "closing"}

\* The processor is at work.
Executing == {"cpu", "step"}

\* The emulator's thread is sending a stop reply.
Reporting == {"report", "stepped"}

GdbInit ==
  /\ epc = "ui" /\ spc = "listen" /\ owner = "none"
  /\ runState = "running" /\ armed = FALSE
  /\ cmd = "look" /\ noAck = FALSE
  /\ owed = 0 /\ unasked = FALSE /\ polite = TRUE /\ odd = {}

\* send_last_signal: a stop reply goes to whoever is connected, also to a
\* debugger that has just been accepted and has let nothing run.
StopReply ==
  /\ owed' = IF spc \in Connected THEN owed - 1 ELSE owed
  /\ unasked' = (unasked \/ spc = "attach")

-----------------------------------------------------------------------------
(***************************************************************************)
(* The emulator's thread.                                                  *)
(***************************************************************************)
EmuEnter ==
  /\ epc = "ui"
  /\ epc' = "lock"
  /\ UNCHANGED <<owner, runState, armed, replies, odd, sockVars>>

\* The mutex is free and gdb_run_lock returns the run state: the caller runs
\* the processor with the mutex locked, or, when the machine is stopped, goes
\* back to its frames without unlocking.
Resume ==
  /\ owner' = "emu"
  /\ epc' = CASE runState = "running" -> "cpu"
              [] runState = "single"  -> "step"
              [] OTHER                -> "ui"

\* gdb_run_lock up to the wait, which gives the mutex back.
EmuLock ==
  /\ epc = "lock" /\ owner = "none"
  /\ IF runState = "stopped"
       THEN epc' = "wait" /\ UNCHANGED owner
       ELSE Resume
  /\ UNCHANGED <<runState, armed, replies, odd, sockVars>>

\* 20 ms are over; or the wait just ends.
EmuTimeout ==
  /\ epc = "wait"
  /\ epc' = "late"
  /\ UNCHANGED <<owner, runState, armed, replies, odd, sockVars>>

EmuSpurious ==
  /\ epc = "wait"
  /\ epc' = "woken" /\ odd' = odd \cup {"spurious"}
  /\ UNCHANGED <<owner, runState, armed, replies, sockVars>>

\* Variant for a mutant run: the mutex is not unlocked after the timeout.
EmuLateKeeping ==
  /\ epc = "late" /\ owner = "none"
  /\ epc' = "ui" /\ owner' = "emu"
  /\ UNCHANGED <<runState, armed, replies, odd, sockVars>>

\* ETIMEDOUT: the mutex is locked and unlocked again.
EmuLate ==
  /\ epc = "late" /\ owner = "none"
  /\ epc' = "ui"
  /\ UNCHANGED <<owner, runState, armed, replies, odd, sockVars>>

\* The wait has ended otherwise.  The run state is not compared again.
EmuWoken ==
  /\ epc = "woken" /\ owner = "none"
  /\ Resume
  /\ UNCHANGED <<runState, armed, replies, odd, sockVars>>

\* The frame is over: gdb_run_unlock.
EmuFrameEnds ==
  /\ epc = "cpu"
  /\ epc' = "ui" /\ owner' = "none"
  /\ UNCHANGED <<runState, armed, replies, odd, sockVars>>

\* A breakpoint has set stop_signal; gdb_stop.
EmuStop ==
  /\ epc = "cpu" /\ armed
  /\ epc' = "report" /\ runState' = "stopped"
  /\ UNCHANGED <<owner, armed, replies, odd, sockVars>>

EmuReport ==
  /\ epc = "report"
  /\ StopReply
  /\ epc' = "ui" /\ owner' = "none"
  /\ UNCHANGED <<runState, armed, odd, sockVars>>

\* One instruction, and the first line of gdb_single_step.
EmuStep ==
  /\ epc = "step"
  /\ epc' = "stepped" /\ runState' = "stopped"
  /\ UNCHANGED <<owner, armed, replies, odd, sockVars>>

\* Variant for a mutant run: the socket thread is not woken.
EmuStepReportSilent ==
  /\ epc = "stepped"
  /\ StopReply
  /\ epc' = "ui" /\ owner' = "none"
  /\ UNCHANGED <<runState, armed, odd, sockVars>>

\* The rest of it: the reply, the signal, and gdb_run_unlock.
EmuStepReport ==
  /\ epc = "stepped"
  /\ StopReply
  /\ spc' = IF spc = "stepwait" THEN "stepwoken" ELSE spc
  /\ epc' = "ui" /\ owner' = "none"
  /\ UNCHANGED <<runState, armed, cmd, noAck, polite, odd>>

\* The user selects another machine: the interface is freed, which waits for
\* the socket thread ...
EmuReplace ==
  /\ epc = "ui"
  /\ epc' = "join"
  /\ UNCHANGED <<owner, runState, armed, replies, odd, sockVars>>

\* ... to reach a point where it can be cancelled; in pthread_cond_wait it must
\* get the mutex back first.  The new machine comes with a new interface.
EmuReplaced ==
  /\ epc = "join"
  /\ \/ spc \in {"listen", "read", "gone"}
     \/ spc = "stepwait" /\ owner = "none"
  /\ epc' = "ui" /\ spc' = "listen" /\ owner' = "none"
  /\ runState' = "running" /\ armed' = FALSE
  /\ cmd' = "look" /\ noAck' = FALSE
  /\ owed' = 0 /\ unasked' = FALSE /\ polite' = TRUE /\ odd' = {}

EmuNext ==
  \/ EmuEnter \/ EmuLock \/ EmuTimeout \/ EmuLate \/ EmuWoken
  \/ EmuFrameEnds \/ EmuStop \/ EmuReport \/ EmuStep \/ EmuStepReport
  \/ EmuReplaced

-----------------------------------------------------------------------------
(***************************************************************************)
(* The socket thread.  What it does under the mutex is one step.           *)
(***************************************************************************)
\* The mutex is there to be had, perhaps before a thread woken by this one.
TakeMutex ==
  /\ owner = "none"
  /\ odd' = IF epc = "woken" THEN odd \cup {"overtaken"} ELSE odd

\* pthread_cond_signal from this thread: the other waiter, if it waits.
SignalEmu == epc' = IF epc = "wait" THEN "woken" ELSE epc

\* accept
Accept ==
  /\ spc = "listen"
  /\ spc' = "attach"
  /\ owed' = 0 /\ unasked' = FALSE /\ polite' = TRUE
  /\ UNCHANGED <<emuVars, runState, armed, cmd, noAck, odd>>

\* gdb_machine_signal without an answer
Attach ==
  /\ spc = "attach" /\ TakeMutex
  /\ spc' = "read"
  /\ runState' = IF runState = "running" THEN "stopped" ELSE runState
  /\ UNCHANGED <<emuVars, armed, cmd, noAck, replies, polite>>

\* Variant for a mutant run: every break is answered, running or not.
BreakAlways ==
  /\ spc = "read" /\ TakeMutex
  /\ runState' = "stopped" /\ StopReply
  /\ UNCHANGED <<emuVars, armed, sockVars>>

\* Variant for a mutant run: the mutex is not taken for a break.
BreakUnlocked ==
  /\ spc = "read"
  /\ IF runState = "running"
       THEN runState' = "stopped" /\ StopReply
       ELSE UNCHANGED <<runState, replies>>
  /\ UNCHANGED <<emuVars, armed, sockVars, odd>>

\* Byte 3: gdb_machine_signal with an answer, if the machine runs.
Break ==
  /\ spc = "read" /\ TakeMutex
  /\ IF runState = "running"
       THEN runState' = "stopped" /\ StopReply
       ELSE UNCHANGED <<runState, replies>>
  /\ UNCHANGED <<emuVars, armed, sockVars>>

\* A packet comes in.  A polite debugger waits for the stop reply that, by
\* the replies it has counted, is still to come.
Packet ==
  /\ spc = "read"
  /\ spc' = "check" /\ cmd' \in Commands
  /\ polite' = (polite /\ owed <= 0)
  /\ UNCHANGED <<emuVars, runState, armed, noAck, replies, odd>>

\* Its checksum is wrong: '-', if that can be sent, and the next one.  In no-ack
\* mode it falls through and is carried out like any other: that is Packet.
BadChecksum ==
  /\ spc = "read" /\ ~noAck
  /\ spc' \in {"read", "closing"}
  /\ polite' = (polite /\ owed <= 0)
  /\ UNCHANGED <<emuVars, runState, armed, cmd, noAck, replies, odd>>

\* recv fails, or the debugger has closed the connection.
ReadError ==
  /\ spc = "read"
  /\ spc' \in {"closing", "gone"}
  /\ UNCHANGED <<emuVars, runState, armed, cmd, noAck, replies, polite, odd>>

\* Variant for a mutant run: the run state is not looked at.
CheckNot ==
  /\ spc = "check"
  /\ spc' = "exec"
  /\ UNCHANGED <<emuVars, runState, armed, cmd, noAck, replies, polite, odd>>

\* While the machine runs a packet is refused.  The run state is read without
\* the mutex.
Check ==
  /\ spc = "check"
  /\ spc' = IF runState = "stopped" THEN "exec" ELSE "read"
  /\ UNCHANGED <<emuVars, runState, armed, cmd, noAck, replies, polite, odd>>

\* '+' or '-' cannot be sent.
AckFails ==
  /\ spc = "check" /\ ~noAck
  /\ spc' = "closing"
  /\ UNCHANGED <<emuVars, runState, armed, cmd, noAck, replies, polite, odd>>

\* The commands that look at the stopped machine or change it.
Command ==
  /\ spc = "exec" /\ cmd \in Commands \ {"c", "s", "D"}
  /\ spc' = "read"
  /\ armed' = IF cmd = "Z" THEN TRUE ELSE IF cmd = "z" THEN FALSE ELSE armed
  /\ noAck' = (noAck \/ cmd = "QStartNoAckMode")
  /\ UNCHANGED <<emuVars, runState, cmd, replies, polite, odd>>

Detach ==
  /\ spc = "exec" /\ cmd = "D"
  /\ spc' = "closing"
  /\ UNCHANGED <<emuVars, runState, armed, cmd, noAck, replies, polite, odd>>

\* gdb_continue
Continue ==
  /\ spc = "exec" /\ cmd = "c" /\ TakeMutex
  /\ spc' = "read"
  /\ IF runState = "stopped"
       THEN runState' = "running" /\ owed' = owed + 1 /\ SignalEmu
       ELSE UNCHANGED <<runState, owed, epc>>
  /\ UNCHANGED <<owner, armed, cmd, noAck, unasked, polite>>

\* gdb_machine_single_step, up to the wait
Step ==
  /\ spc = "exec" /\ cmd = "s" /\ TakeMutex
  /\ IF runState = "stopped"
       THEN spc' = "stepwait" /\ runState' = "single" /\ owed' = owed + 1
       ELSE spc' = "read" /\ UNCHANGED <<runState, owed>>
  /\ UNCHANGED <<emuVars, armed, cmd, noAck, unasked, polite>>

StepSpurious ==
  /\ spc = "stepwait"
  /\ spc' = "stepwoken" /\ odd' = odd \cup {"spurious"}
  /\ UNCHANGED <<emuVars, runState, armed, cmd, noAck, replies, polite>>

\* ... and after it
StepWoken ==
  /\ spc = "stepwoken" /\ owner = "none"
  /\ spc' = "read"
  /\ UNCHANGED <<emuVars, runState, armed, cmd, noAck, replies, polite, odd>>

\* Variant for a mutant run: the machine is left as it is.
CloseStopped ==
  /\ spc = "closing" /\ TakeMutex
  /\ spc' = "listen"
  /\ UNCHANGED <<emuVars, runState, armed, cmd, noAck, replies, polite>>

\* close and gdb_continue
Close ==
  /\ spc = "closing" /\ TakeMutex
  /\ spc' = "listen"
  /\ IF runState = "stopped"
       THEN runState' = "running" /\ SignalEmu
       ELSE UNCHANGED <<runState, epc>>
  /\ UNCHANGED <<owner, armed, cmd, noAck, replies, polite>>

SockStep ==
  Attach \/ Check \/ Command \/ Detach \/ Continue \/ Step \/ StepWoken \/ Close

-----------------------------------------------------------------------------
\* The emulator's thread waits for the mutex it holds, or for the end of a socket
\* thread that does, for ever.
Stuck == epc \in {"lock", "join"} /\ owner = "emu" /\ UNCHANGED gdbVars

GdbNext ==
  \/ EmuNext \/ EmuSpurious \/ EmuReplace \/ Stuck
  \/ SockStep \/ StepSpurious \/ AckFails
  \/ Accept \/ Break \/ Packet \/ BadChecksum \/ ReadError

GdbSpec == GdbInit /\ [][GdbNext]_gdbVars

\* Both threads go on; a wait times out and a frame ends.  Debuggers and users
\* need never act.
GdbFairSpec ==
  /\ GdbSpec
  /\ WF_gdbVars(EmuNext)
  /\ WF_gdbVars(SockStep)

-----------------------------------------------------------------------------
PlacesOK ==
  /\ epc \in EmuPc /\ spc \in SockPc
  /\ owner \in {"none", "emu"}
  /\ runState \in {"running", "stopped", "single"}
  /\ cmd \in Commands
  /\ armed \in BOOLEAN /\ noAck \in BOOLEAN
  /\ unasked \in BOOLEAN /\ polite \in BOOLEAN
  /\ owed \in Int

GdbTypeOK == PlacesOK /\ odd \subseteq {"spurious", "overtaken"}

\* The socket thread looks at the registers, the memory and the breakpoints, or
\* changes them, only while the processor is not executing, although it takes
\* no lock for that and read the run state without one; and even if waits end by
\* themselves and the emulator is overtaken.
Exclusive == spc = "exec" => epc \notin Executing /\ runState = "stopped"

\* A debugger that has let the machine run or step gets exactly one stop reply
\* for it, whoever stops the machine and however a break, a breakpoint and the
\* end of a step fall together; and none while the machine is stopped.  Only a
\* debugger that comes while the machine runs may get one more, before the
\* machine is stopped for it: when a breakpoint is hit that the last one has left
\* behind.  gdb_machine_single_step's wait, which is not repeated, must not end
\* by itself.
RepliesMatch ==
  "spurious" \notin odd /\ spc \in Connected =>
    /\ owed = (IF spc # "attach" /\ (runState # "stopped" \/ epc \in Reporting) THEN 1 ELSE 0)
              - (IF unasked THEN 1 ELSE 0)
    /\ spc = "attach" /\ unasked => armed

\* As long as the debugger waits until it has counted as many stop replies as it
\* has let the machine run, what the two threads send does not mix on the wire:
\* the emulator's thread never sends a stop reply while a packet is being
\* answered.  A debugger that was sent one unasked would wait for one too few.
WireIsClean ==
  "spurious" \notin odd /\ ~unasked /\ polite /\ spc \in {"check", "exec"} =>
    epc \notin Reporting

\* The emulator's thread holds the mutex exactly while it runs the processor
\* or reports: whatever gdb_run_lock returned, its caller has not walked away
\* with the mutex, which it would wait for forever in the next frame.  That is so
\* unless its wait ended by itself or it was overtaken after a wake-up.
LockIsReturned == odd = {} => (owner = "emu" <=> epc \in Executing \cup Reporting)

-----------------------------------------------------------------------------
(***************************************************************************)
(* Why that is so.                                                         *)
(***************************************************************************)
\* The mutex keeps the run state as it is while the emulator's thread works by
\* it, and nobody but the socket thread itself takes it away from "stopped".
StateFits ==
  /\ epc = "cpu" => runState = "running"
  /\ epc = "step" => runState = "single"
  /\ epc \in Reporting => runState = "stopped"
  /\ epc \in Executing \cup Reporting => owner = "emu"
  /\ spc = "exec" => runState = "stopped"

\* A step is under way only while its debugger waits for it, a machine that
\* stops while nobody is served has met a breakpoint that was left, and nothing
\* is due to a debugger that sends a packet politely.
RepliesInv ==
  /\ "spurious" \notin odd =>
       /\ runState = "single" \/ epc = "stepped" => spc = "stepwait"
       /\ spc \in {"listen", "attach"} /\ epc = "report" => armed
       /\ spc = "attach" /\ unasked => runState = "stopped" /\ epc \notin Reporting
       /\ spc \in {"check", "exec"} /\ polite /\ ~unasked => owed = 0
  /\ RepliesMatch

\* A thread woken by a continue still finds the machine running.
LockInv == LockIsReturned /\ (odd = {} /\ epc = "woken" => runState # "stopped")

-----------------------------------------------------------------------------
\* A step comes back to the debugger, though others may be overtaken.
StepReturns == spc = "stepwait" ~> (spc \in {"read", "listen"} \/ "spurious" \in odd)

\* When the debugger has left, by detaching or because the connection broke,
\* and has taken its breakpoints along, the machine runs again, unless the next
\* debugger is there first or the machine is replaced (or the emulator's thread
\* has walked away with the mutex, see LockIsReturned).
RunsAgain ==
  spc = "closing" /\ ~armed ~>
    (epc \in {"cpu", "join"} \/ spc = "attach" \/ odd # {})
=============================================================================
