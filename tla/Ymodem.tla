------------------------------- MODULE Ymodem -------------------------------
(***************************************************************************)
(* A YMODEM batch between two copies of SuperComm over one serial line.    *)
(***************************************************************************)
EXTENDS YmodemReceiver, YmodemSender

\* History: nothing was waiting to be read when the upload started.  A batch
\* upload does not purge the line, as a single one does: what came in while the
\* user typed the names is taken for the receiver's answers.
VARIABLE fresh

vars == <<rbVars, tbVars, lineVars, fresh>>

Init == RbInit /\ TbInit /\ LineInit /\ fresh = TRUE

-----------------------------------------------------------------------------
\* On a prompt line a timer runs out only when nothing is under way.
NothingForRx == toRx = <<>> /\ (toTx = <<>> \/ tpc = "idle")

NothingForTx == toRx = <<>> /\ toTx = <<>> /\ rpc \notin {"poll", "purge"}

RbTimer ==
  /\ Prompt => NothingForRx
  /\ \/ RxNoAnswerToC /\ UNCHANGED batchVars
     \/ RbNoAnswerToNak
     \/ InFile(RxSilence)
     \/ RbNoHeader
     \/ RbNoSecondEot

RbQuiet ==
  /\ Prompt => (toTx = <<>> \/ tpc = "idle")
  /\ InFile(RxPurged)

TbTimer ==
  /\ Prompt => NothingForTx
  /\ TbSilence

RbStep ==
  \/ (RxCharReady \/ RxPoll \/ RxSkip \/ RxTerminal) /\ UNCHANGED batchVars
  \/ InFile(RxData) \/ InFile(RxDuplicate) \/ InFile(RxReject) \/ InFile(RxCancel)
  \/ RbHeader \/ RbLastHeader \/ RbBadHeader \/ RbOtherHeader
  \/ RbEot \/ RbSecondEot \/ RbSecondEotSkip
  \/ RbTimer \/ RbQuiet

TbBegin ==
  /\ TbStart
  /\ fresh' = (toTx = <<>>)

TbStep ==
  \/ TbC \/ TbDiscard \/ TbHeaderNak \/ TbHeaderAck \/ TbFirstBlock
  \/ TbAgain \/ TbAck \/ TbEotAnswer \/ TbTimer
  \/ (TxCan \/ TxOther \/ TxTerminal) /\ UNCHANGED <<tfile, tlast>>

Ended ==
  /\ rpc \in RxEnded /\ tpc \in TxEnded
  /\ toRx = <<>> /\ toTx = <<>>

Next ==
  \/ (RbStart \/ RbBreak \/ InFile(RxBreak) \/ RbStep) /\ UNCHANGED <<tbVars, fresh>>
  \/ TbBegin /\ UNCHANGED rbVars
  \/ (TbBreak \/ TbStep) /\ UNCHANGED <<rbVars, fresh>>
  \/ (StrayToRx \/ StrayToTx) /\ UNCHANGED <<rbVars, tbVars, fresh>>
  \/ Ended /\ UNCHANGED vars

Spec == Init /\ [][Next]_vars

\* Both programs go on with their loops; users and noise need never act.
FairSpec ==
  /\ Spec
  /\ WF_vars(RbStep /\ UNCHANGED <<tbVars, fresh>>)
  /\ WF_vars(TbStep /\ UNCHANGED <<rbVars, fresh>>)

-----------------------------------------------------------------------------
TypeOK == RbTypeOK /\ TbTypeOK /\ LineTypeOK /\ fresh \in BOOLEAN

\* The files that were received and closed are the first ones of the list,
\* in its order, each whole and under its own name; the one being received is
\* the next, and what is there of it is an exact beginning: nothing of the file
\* before it is left in memory.
FilesInOrder ==
  fresh =>
    /\ \A i \in 1..Len(rfiles) : rfiles[i] = [name |-> i, blocks |-> Batch[i]]
    /\ rname = "file" /\ rpc \notin RxEnded =>
         /\ rhead = Len(rfiles) + 1
         /\ Held = SubSeq(Batch[rhead], 1, Len(Held))
    /\ rpc = "negC" => Held = <<>>

\* The sender goes on to another file only when the receiver has all of the
\* one before, although the answer to the EOT is not looked at.  A receiver that has
\* already ended, because its user broke off or it gave up, is excused.
FileIsDelivered ==
  [][fresh /\ tfile' = tfile + 1 /\ tfile # 0 =>
        \/ rpc \in RxEnded
        \/ Len(rfiles) >= tfile
        \/ rhead = tfile /\ Held = Batch[tfile]]_vars

\* Even when old answers mislead the sender, what lands in a file comes from
\* that file alone, in order and once, and no file is received twice.
NoMixing ==
  LET Received(k) ==
        IF k <= Len(rfiles) THEN rfiles[k]
                            ELSE [name |-> rhead, blocks |-> Held]
      Last == Len(rfiles) + (IF rname = "file" /\ rpc \notin RxEnded THEN 1 ELSE 0)
  IN /\ \A k \in 1..Last :
          LET b == Received(k).blocks
          IN /\ Range(b) \subseteq Range(Batch[Received(k).name])
             /\ \A i, j \in 1..Len(b) : i < j => b[i] < b[j]
     /\ \A k, l \in 1..Last : k < l => Received(k).name < Received(l).name

\* A batch comes to an end on both sides, whatever was lost, and also where the
\* receiver cancels and the sender does not look for that.
BatchEnds ==
  /\ rpc = "negC" ~> rpc \in RxEnded
  /\ tpc = "hdrC" ~> tpc \in TxEnded
=============================================================================
