--------------------------- MODULE YmodemReceiver ---------------------------
(***************************************************************************)
(* SuperComm's YMODEM download: the same loop as XmodemReceiver with the   *)
(* batch flag (70) set.  Block number 0 is a header with a file's name and *)
(* size; every file starts over with C.  What is the same is taken from    *)
(* XmodemReceiver; this module has what the flag changes.                  *)
(*                                                                         *)
(*   rblk     83,U  0 until the header of the next file was accepted       *)
(*   rpc      "eot" is Sub_39F1 called once more after the EOT of a file   *)
(*   rname    159,U what stands where the name of the open file belongs:   *)
(*              none   what was in the keyboard buffer, no file name       *)
(*              file   the name of the file on path 66                     *)
(*              CR     nothing: the last file is closed, or the header     *)
(*                     was bad                                             *)
(*   rhead    which file the header named                                  *)
(*   rfiles   the files received and closed                                *)
(*                                                                         *)
(* The size in a header is given to the file when it is closed (SS.Size)   *)
(* and takes off the padding of its last block, which blocks do not show.  *)
(***************************************************************************)
EXTENDS XmodemReceiver, YmodemBatch

VARIABLES rname, rhead, rfiles

batchVars == <<rname, rhead, rfiles>>

rbVars == <<rxVars, batchVars>>

RbInit == RxInit /\ rname = "none" /\ rhead = 0 /\ rfiles = <<>>

\* A reply of two characters.
Reply2(c, d) ==
  \E s \in ReplyArrives(c), t \in ReplyArrives(d) : toTx' = toTx \o s \o t

\* Sub_3992 when no file is open: there is nothing to delete, and after a CR
\* in 159 nothing is purged either.
RbGiveUp(q, name) ==
  /\ rpc' = "aborted"
  /\ rname' = name
  /\ toRx' \in IF name = "CR" THEN {q} ELSE Purged(q)
  /\ Reply1(toTx, "CAN")
  /\ UNCHANGED <<rblk, rcrc, rtries, rbuf, rfile, strays, rhead, rfiles>>

-----------------------------------------------------------------------------
\* The user starts a batch download: no name is asked for, no file created.
RbStart ==
  /\ rpc = "idle"
  /\ rpc' = "negC"
  /\ rblk' = 0 /\ rcrc' = TRUE /\ rtries' = CTries - 1 /\ rerrs' = 0
  /\ rbuf' = <<>> /\ rfile' = <<>>
  /\ Reply1(toTx, "C")
  /\ UNCHANGED <<toRx, strays, batchVars>>

\* Ten seconds without a character after a NAK.
RbNoAnswerToNak ==
  /\ rpc = "negN"
  /\ rerrs' = rerrs + 1
  /\ IF rerrs' <= MaxErrors
       THEN /\ Reply1(toTx, "NAK")
            /\ UNCHANGED <<rpc, rblk, rcrc, rtries, rbuf, rfile, toRx, strays, batchVars>>
       ELSE RbGiveUp(toRx, rname)

RbBreak ==
  /\ rblk = 0
  /\ rpc \in {"negC", "negN", "poll"}
  /\ RbGiveUp(toRx, rname)
  /\ UNCHANGED rerrs
-----------------------------------------------------------------------------
ReceivingHeader == Receiving /\ rblk = 0

\* A good header: the file is created, the header acknowledged and its first
\* block asked for.  A file that cannot be created ends the batch.
RbHeader ==
  /\ ReceivingHeader
  /\ LET f == Head(toRx)
     IN /\ f.kind = "blk" /\ IsExpected(f) /\ CheckMayPass(f)
        /\ IsHeader(f) /\ HeaderOf(f) <= Len(Batch)
        /\ \/ /\ rname' = "file" /\ rhead' = HeaderOf(f)
              /\ rblk' = 1 /\ rerrs' = 0
              /\ rpc' = "poll"
              /\ toRx' = Tail(toRx)
              /\ Reply2("ACK", "C")
              /\ UNCHANGED <<rcrc, rtries, rbuf, rfile, strays, rfiles>>
           \/ /\ rerrs' = MaxErrors + 2
              /\ RbGiveUp(Tail(toRx), "CR")

\* The header without a name: the way out is the one of an aborted transfer,
\* so the sender gets CAN instead of ACK.
RbLastHeader ==
  /\ ReceivingHeader
  /\ LET f == Head(toRx)
     IN /\ f.kind = "blk" /\ IsExpected(f) /\ CheckMayPass(f)
        /\ IsHeader(f) /\ HeaderOf(f) > Len(Batch)
  /\ rerrs' = MaxErrors + 1
  /\ RbGiveUp(Tail(toRx), "none")

\* Anything that is wrong with a header ends the batch at once; 159 is set to
\* CR first if a byte of data had come.
RbBadHeader ==
  /\ ReceivingHeader
  /\ IsRejected(Head(toRx))
  /\ rerrs' = rerrs + 1
  /\ \E name \in {rname, "CR"} : RbGiveUp(Tail(toRx), name)

RbNoHeader ==
  /\ rpc = "recv" /\ rblk = 0
  /\ rerrs' = rerrs + 1
  /\ RbGiveUp(toRx, rname)

\* CAN, ETX or EOT where a header is expected.
RbOtherHeader ==
  /\ ReceivingHeader
  /\ ReadsAsCancel(Head(toRx)) \/ ReadsAsEot(Head(toRx))
  /\ rerrs' = IF ReadsAsEot(Head(toRx)) THEN rerrs ELSE MaxErrors + 2
  /\ RbGiveUp(Tail(toRx), rname)
-----------------------------------------------------------------------------
\* The blocks of a file are received as in a single transfer.
InFile(A) == rblk # 0 /\ A /\ UNCHANGED batchVars

\* Variant for a mutant run: what is left in the buffer is not written.
RbEotUnflushed ==
  /\ Receiving /\ rblk # 0
  /\ ReadsAsEot(Head(toRx))
  /\ toRx' = Tail(toRx)
  /\ rpc' = "eot"
  /\ Reply1(toTx, "NAK")
  /\ UNCHANGED <<rblk, rcrc, rtries, rerrs, rbuf, rfile, strays, batchVars>>

\* The EOT of a file: flush, and ask for the EOT once more; when the flush
\* fails, go on as after a bad block.
RbEot ==
  /\ Receiving /\ rblk # 0
  /\ ReadsAsEot(Head(toRx))
  /\ toRx' = Tail(toRx)
  /\ \/ /\ Flush(TRUE)
        /\ rpc' = "eot"
        /\ Reply1(toTx, "NAK")
     \/ /\ Flush(FALSE)
        /\ rpc' = "purge"
        /\ UNCHANGED toTx
  /\ UNCHANGED <<rblk, rcrc, rtries, rerrs, strays, batchVars>>

\* Close the file, acknowledge, and start over with C for the next one.
RbClose ==
  /\ rfiles' = Append(rfiles, [name |-> rhead, blocks |-> rfile])
  /\ rname' = "CR"
  /\ rfile' = <<>>
  /\ rblk' = 0 /\ rcrc' = TRUE /\ rtries' = CTries - 1
  /\ rpc' = "negC"
  /\ Reply2("ACK", "C")
  /\ UNCHANGED <<rhead, strays>>

\* The second answer is waited for, but whatever it is, or if none comes, the
\* file is closed.  A block of data would be stored: into memory only.
RbSecondEot ==
  /\ rpc = "eot" /\ toRx # <<>>
  /\ ~ReadsAsNothing(Head(toRx))
  /\ toRx' = Tail(toRx)
  /\ LET f == Head(toRx)
     IN /\ \/ ReadsAsEot(f) /\ UNCHANGED rerrs
           \/ ReadsAsCancel(f) /\ rerrs' = MaxErrors + 2
           \/ IsRejected(f) /\ rerrs' = rerrs + 1
           \/ /\ f.kind = "blk" /\ CheckMayPass(f)
              /\ IsExpected(f) \/ IsPrevious(f)
              /\ UNCHANGED rerrs
        /\ IF f.kind = "blk" /\ CheckMayPass(f) /\ IsExpected(f)
             THEN rbuf' = Append(rbuf, f.pos)
             ELSE UNCHANGED rbuf
  /\ RbClose

RbSecondEotSkip ==
  /\ rpc = "eot" /\ toRx # <<>>
  /\ ReadsAsNothing(Head(toRx))
  /\ toRx' = Tail(toRx)
  /\ UNCHANGED <<rbVars, toTx, strays>>

RbNoSecondEot ==
  /\ rpc = "eot"
  /\ rerrs' = rerrs + 1
  /\ RbClose
  /\ UNCHANGED <<rbuf, toRx>>

RbTypeOK ==
  /\ rpc \in RxPc \cup {"eot"}
  /\ rblk \in Nat /\ rcrc \in BOOLEAN
  /\ rtries \in 0..CTries
  /\ rerrs \in 0..(MaxErrors + 3)
  /\ rpc \notin RxEnded => rerrs <= MaxErrors + (IF rblk = 0 THEN 2 ELSE 0)
  /\ rpc = "eot" => rblk # 0
  /\ rbuf \in Seq(Nat) /\ rfile \in Seq(Nat)
  /\ rname \in {"none", "file", "CR"}
  /\ rhead \in 0..Len(Batch)
  /\ rfiles \in Seq([name : Nat, blocks : Seq(Nat)])
=============================================================================
