------------------------------- MODULE Xmodem -------------------------------
(***************************************************************************)
(* An XMODEM transfer between two copies of SuperComm: one downloads       *)
(* (XmodemReceiver), one uploads (XmodemSender), over a serial line that   *)
(* loses, damages and invents characters (SerialLine).                     *)
(***************************************************************************)
EXTENDS XmodemReceiver, XmodemSender

vars == <<rxVars, txVars, lineVars>>

Init == RxInit /\ TxInit /\ LineInit

-----------------------------------------------------------------------------
\* On a prompt line a timer runs out only when nothing is under way: no
\* character in either direction, and no answer being prepared.
NothingForRx == toRx = <<>> /\ (toTx = <<>> \/ tpc = "idle")

NothingForTx ==
  toRx = <<>> /\ toTx = <<>> /\ rpc \notin {"poll", "purge"}

RxTimer ==
  /\ Prompt => NothingForRx
  /\ RxNoAnswerToC \/ RxNoAnswerToNak \/ RxSilence

RxQuiet ==
  /\ Prompt => (toTx = <<>> \/ tpc = "idle")
  /\ RxPurged

TxTimer ==
  /\ Prompt => NothingForTx
  /\ TxSilence

RxStep ==
  \/ RxCharReady \/ RxPoll \/ RxData \/ RxDuplicate \/ RxReject \/ RxSkip
  \/ RxCancel \/ RxEot \/ RxTerminal \/ RxTimer \/ RxQuiet

TxStep ==
  \/ TxC \/ TxNak \/ TxAck \/ TxCan \/ TxOther \/ TxEotAck \/ TxEotAgain
  \/ TxTerminal \/ TxTimer

Noise == StrayToRx \/ StrayToTx

\* Both programs are back in their terminal loops.
Ended ==
  /\ rpc \in RxEnded /\ tpc \in TxEnded
  /\ toRx = <<>> /\ toTx = <<>>

Next ==
  \/ (RxStart \/ RxBreak \/ RxStep) /\ UNCHANGED txVars
  \/ (TxStart \/ TxBreak \/ TxStep) /\ UNCHANGED rxVars
  \/ Noise /\ UNCHANGED <<rxVars, txVars>>
  \/ Ended /\ UNCHANGED vars

Spec == Init /\ [][Next]_vars

\* Each program goes on with its loop as long as it can; users and noise
\* need never act.
FairSpec ==
  /\ Spec
  /\ WF_vars(RxStep /\ UNCHANGED txVars)
  /\ WF_vars(TxStep /\ UNCHANGED rxVars)

-----------------------------------------------------------------------------
TypeOK == RxTypeOK /\ TxTypeOK /\ LineTypeOK

\* The first n blocks of the file, in order.
FirstBlocks(n) == [i \in 1..n |-> i]

\* What the receiver holds during a transfer is an exact beginning of the
\* sender's file: no block is missing, doubled or out of place, whatever the
\* line does to blocks and to answers.
HeldIsPrefix == rpc # "aborted" => Held = FirstBlocks(Len(Held))

\* When SuperComm's download ends without complaint the file on disk is the
\* sender's whole file.
NoSilentTruncation == rpc = "ok" => rfile = FirstBlocks(NBlocks)

\* With failing disks blocks may be missing, but those that are there are in
\* order and none is there twice.
Rising == \A i, j \in 1..Len(Held) : i < j => Held[i] < Held[j]

\* Even then, and on a line that makes up an EOT, an upload ends well only
\* when the download did.
ConfirmedByReceiver == tpc = "ok" => rpc = "ok"

\* The uploading user is told that all went well only if the downloading
\* side has the whole file on disk and was told so too.
SenderBelief == tpc = "ok" => rpc = "ok" /\ rfile = FirstBlocks(NBlocks)

\* The two block numbers never drift apart: the receiver expects the block
\* the sender has in memory or the one after it, so that the single byte of
\* the number on the wire is enough.
Lockstep == rblk \in {tblk, tblk + 1}

\* The sender moves on to the next block only when the receiver has stored
\* the one before: an ACK is never counted twice.
AckedIsStored == [][tblk' = tblk + 1 => rblk > tblk]_vars

-----------------------------------------------------------------------------
(***************************************************************************)
(* Why that is so.  The line carries at most one thing that matters: a     *)
(* block on its way to the receiver or an answer on its way back, never    *)
(* both, and nothing while the receiver is about to ask again.  LineInv is *)
(* inductive when the line is prompt, whatever the disks and the line do   *)
(* otherwise; IInv when both disks work, too, and no torn block reads as   *)
(* an EOT.                                                                 *)
(***************************************************************************)
SafeLine ==
  /\ Prompt
  /\ Faults \cap {"diskread", "diskwrite"} = {}
  /\ "header" \in Faults => \A p \in 1..NBlocks : Scan[p] # "EOT"

\* Every block on its way is the one in the sender's memory.
BlocksAreCurrent ==
  \A f \in Range(toRx) \cap Blocks :
     /\ tblk <= NBlocks
     /\ f.pos = tblk
     /\ f.num = Low(tblk)
     /\ f.kind = "torn" => "header" \in Faults

\* Before the sender starts, while it sends blocks, and when it has sent EOT.
SenderPhase ==
  /\ tblk \in 1..(NBlocks + 1)
  /\ tpc = "idle" => NoneOf(toRx, Blocks \cup Eots) /\ tblk = 1
  /\ tpc \in Running => tblk <= NBlocks /\ NoneOf(toRx, Eots)
  /\ tpc = "eot" => NoneOf(toRx, Blocks)
  /\ tpc = "ok" => rpc = "ok"

\* What an ACK on its way means: the block was stored, or the receiver took
\* something for an EOT.
AckMeans ==
  "ACK" \in Range(toTx) =>
     /\ tpc \in Running => rpc = "ok" \/ rblk = tblk + 1
     /\ tpc = "eot" => rpc = "ok"

OneAtATime ==
  tpc \in Running =>
     /\ AtMostOne(toRx, Blocks)
     /\ AtMostOne(toTx, Asks)
     /\ NoneOf(toRx, Blocks) \/ NoneOf(toTx, Asks)
     /\ rpc \in {"idle", "nofile", "purge"} =>
           NoneOf(toRx, Blocks) /\ NoneOf(toTx, Asks)

\* What the receiver has comes before what it waits for.
Older == \A i \in 1..Len(Held) : Held[i] < rblk

ReceiverPhase ==
  /\ rpc = "idle" => rblk = 1
  /\ rpc # "ok" => Lockstep
  /\ Older /\ Rising

LineInv ==
  /\ TypeOK /\ BlocksAreCurrent /\ SenderPhase
  /\ AckMeans /\ OneAtATime /\ ReceiverPhase

\* An EOT is only sent behind the last block.
EotIsLast ==
  /\ tpc = "eot" => rblk = NBlocks + 1 /\ tblk = NBlocks + 1
  /\ NoneOf(toRx, Eots) \/ rblk = NBlocks + 1

\* The receiver has every block before the one it waits for.
NothingMissing ==
  /\ rpc # "aborted" => Held = FirstBlocks(rblk - 1)
  /\ rpc = "aborted" => rfile = <<>>
  /\ rpc = "ok" => rblk = NBlocks + 1 /\ rbuf = <<>>

WholeInv == Lockstep /\ EotIsLast /\ NothingMissing

IInv == LineInv /\ WholeInv

-----------------------------------------------------------------------------
\* What the two users see of a transfer: the file that is arriving (what is
\* left on the disk once the transfer was aborted: nothing), and what each of
\* them was told.
CopyHeld == IF rpc = "aborted" THEN rfile ELSE Held

RxTold ==
  IF rpc = "ok" THEN "ok" ELSE IF rpc \in RxEnded THEN "failed" ELSE "busy"

TxTold ==
  IF tpc = "ok" THEN "ok" ELSE IF tpc \in TxEnded THEN "failed" ELSE "busy"

Copy == INSTANCE FileCopy WITH copy <- CopyHeld, rxSays <- RxTold, txSays <- TxTold

\* The transfer implements FileCopy: the file arrives block by block in order,
\* and nobody is told "ok" early.
CopySpec == Copy!Spec

\* A download that was started ends, even if no sender ever answers; and so
\* does an upload.
RxEnds == rpc = "negC" ~> rpc \in RxEnded

TxEnds == tpc = "first" ~> tpc \in TxEnded
=============================================================================
