--------------------------- MODULE XmodemReceiver ---------------------------
(***************************************************************************)
(* SuperComm's XMODEM download: Sub_36F4 to Sub_3992 (the transfer loop),  *)
(* Sub_39F1 (receive one packet) and Sub_4191 / Sub_41EC (the memory       *)
(* buffer in front of the disk), with the batch flag (70) clear.  One      *)
(* action per stretch of code between two points where the program waits.  *)
(*                                                                         *)
(*   rpc      where the program is:                                        *)
(*              idle   in the terminal loop, no transfer yet               *)
(*              negC   $382C, asking for CRC blocks with C                 *)
(*              negN   $3852, asking for checksum blocks with NAK          *)
(*              poll   $38A3, about to poll the keyboard                   *)
(*              recv   Sub_39F1, waiting for a packet                      *)
(*              purge  Sub_36CD, discarding input until 2 s of silence     *)
(*              ok, aborted, nofile   back in the terminal loop            *)
(*   rblk     83,U  the block number expected next                         *)
(*   rcrc     90,U  CRC (TRUE) or checksum blocks                          *)
(*   rtries   89,U  how many more times C is sent                          *)
(*   rerrs    82,U  errors since the last good block                       *)
(*   rbuf     the blocks in memory, from base (5817) to RxBufPtr           *)
(*   rfile    the blocks written to the file on path 66                    *)
(*                                                                         *)
(* A block of data is its position in the sender's file; text conversion   *)
(* and the padding of the last block are left out.                         *)
(***************************************************************************)
EXTENDS SerialLine

CONSTANTS
  MaxErrors,   \* 9: one error more aborts the transfer
  CTries,      \* 4: how often C is sent before NAK is tried
  BufCap       \* how many blocks the memory buffer holds

ASSUME ReceiverAssumption ==
  /\ MaxErrors \in Nat
  /\ CTries \in Nat \ {0}
  /\ BufCap \in Nat \ {0}

VARIABLES rpc, rblk, rcrc, rtries, rerrs, rbuf, rfile

rxVars == <<rpc, rblk, rcrc, rtries, rerrs, rbuf, rfile>>

RxEnded == {"ok", "aborted", "nofile"}

RxPc == {"idle", "negC", "negN", "poll", "recv", "purge"} \cup RxEnded

\* What has arrived: on the disk and in memory.
Held == rfile \o rbuf

RxInit ==
  /\ rpc = "idle"
  /\ rblk = 1 /\ rcrc = FALSE /\ rtries = 0 /\ rerrs = 0
  /\ rbuf = <<>> /\ rfile = <<>>

\* Write reply c to the sender; the queue of replies was q.
Reply1(q, c) == \E s \in ReplyArrives(c) : toTx' = q \o s

\* Variant for a mutant run: the file is closed but not deleted.
RxAbortKeepsFile(q) ==
  /\ rpc' = "aborted"
  /\ toRx' \in Purged(q)
  /\ Reply1(toTx, "CAN")
  /\ UNCHANGED <<rblk, rcrc, rtries, rbuf, rfile, strays>>

\* Sub_3992: close and delete the file, purge what is left to read (q), send
\* four CAN and four ETX.  RxBufPtr is left where it is.
RxAbort(q) ==
  /\ rpc' = "aborted"
  /\ rfile' = <<>>
  /\ toRx' \in Purged(q)
  /\ Reply1(toTx, "CAN")
  /\ UNCHANGED <<rblk, rcrc, rtries, rbuf, strays>>

-----------------------------------------------------------------------------
\* The user starts a download: the file is created, the buffer emptied, the
\* first C sent.  A name that cannot be created ends it.
RxStart ==
  /\ rpc = "idle"
  /\ \/ /\ rpc' = "nofile"
        /\ UNCHANGED <<rblk, rcrc, rtries, rerrs, rbuf, rfile, lineVars>>
     \/ /\ rpc' = "negC"
        /\ rblk' = 1 /\ rcrc' = TRUE /\ rtries' = CTries - 1 /\ rerrs' = 0
        /\ rbuf' = <<>> /\ rfile' = <<>>
        /\ Reply1(toTx, "C")
        /\ UNCHANGED <<toRx, strays>>

\* Three seconds without a character after a C: another C, or the change to
\* checksum blocks and the first NAK.
RxNoAnswerToC ==
  /\ rpc = "negC"
  /\ IF rtries # 0
       THEN /\ rtries' = rtries - 1
            /\ Reply1(toTx, "C")
            /\ UNCHANGED <<rpc, rcrc>>
       ELSE /\ rpc' = "negN" /\ rcrc' = FALSE
            /\ Reply1(toTx, "NAK")
            /\ UNCHANGED rtries
  /\ UNCHANGED <<rblk, rerrs, rbuf, rfile, toRx, strays>>

\* Ten seconds without a character after a NAK.
RxNoAnswerToNak ==
  /\ rpc = "negN"
  /\ rerrs' = rerrs + 1
  /\ IF rerrs' <= MaxErrors
       THEN /\ Reply1(toTx, "NAK")
            /\ UNCHANGED <<rpc, rblk, rcrc, rtries, rbuf, rfile, toRx, strays>>
       ELSE RxAbort(toRx)

\* A character is ready: from now on packets are expected.
RxCharReady ==
  /\ rpc \in {"negC", "negN"}
  /\ toRx # <<>>
  /\ rpc' = "poll"
  /\ UNCHANGED <<rblk, rcrc, rtries, rerrs, rbuf, rfile, lineVars>>

\* The user presses BREAK where Sub_29EB polls the keyboard.
RxBreak ==
  /\ rpc \in {"negC", "negN", "poll"}
  /\ RxAbort(toRx)
  /\ UNCHANGED rerrs

RxPoll ==
  /\ rpc = "poll"
  /\ rpc' = "recv"
  /\ UNCHANGED <<rblk, rcrc, rtries, rerrs, rbuf, rfile, lineVars>>
-----------------------------------------------------------------------------
\* What Sub_39F1 makes of frame f.
\*
\* Its number: the one expected, the one before it (compared as bytes), or
\* neither.
IsExpected(f) == f.num = Low(rblk)

IsPrevious(f) == ~IsExpected(f) /\ f.num = Low(rblk + ByteMod - 1)

\* Its check: one byte is missing when a CRC block was expected and a checksum
\* block came; the other way round the checksum is compared with half a CRC,
\* which may match by chance.
CheckMayPass(f) == rcrc => f.crc

CheckMayFail(f) == rcrc # f.crc

ReadsAsEot(f) ==
  f.kind = "EOT" \/ (f.kind = "torn" /\ Scan[f.pos] = "EOT")

ReadsAsCancel(f) ==
  f.kind = "CAN" \/ (f.kind = "torn" /\ Scan[f.pos] = "CAN")

ReadsAsNothing(f) ==
  f.kind = "junk" \/ (f.kind = "torn" /\ Scan[f.pos] = "none")

\* What is found to be wrong with it: number, complement, check or length.
IsRejected(f) ==
  \/ f.kind = "bad"
  \/ f.kind = "torn" /\ Scan[f.pos] = "SOH"
  \/ f.kind = "blk" /\ (CheckMayFail(f) \/ ~(IsExpected(f) \/ IsPrevious(f)))

\* Variant for a mutant run: the error is not counted.
RxErrorUncounted(q) ==
  /\ rpc' = "purge"
  /\ toRx' = q
  /\ UNCHANGED <<rblk, rcrc, rtries, rerrs, rbuf, rfile, toTx, strays>>

\* Sub_3B83 with Sub_38EC: count the error, and give up or ask again; q is
\* what is left to read.
RxError(q) ==
  /\ rerrs' = rerrs + 1
  /\ IF rerrs' <= MaxErrors
       THEN /\ rpc' = "purge"
            /\ toRx' = q
            /\ UNCHANGED <<rblk, rcrc, rtries, rbuf, rfile, toTx, strays>>
       ELSE RxAbort(q)

\* Sub_41EC: write the buffer to the file and empty it.  A failing write
\* (disk full) leaves less than the whole, and only the end of the transfer
\* looks at it.
Flush(ok) ==
  /\ rbuf' = <<>>
  /\ \/ ok /\ rfile' = rfile \o rbuf
     \/ /\ ~ok /\ "diskwrite" \in Faults /\ rbuf # <<>>
        /\ \E k \in 0..(Len(rbuf) - 1) : rfile' = rfile \o SubSeq(rbuf, 1, k)

\* Sub_4191: flush when there is no room, then add the block.
Store(pos) ==
  IF Len(rbuf) < BufCap
    THEN rbuf' = Append(rbuf, pos) /\ UNCHANGED rfile
    ELSE /\ rbuf' = <<pos>>
         /\ \/ rfile' = rfile \o rbuf
            \/ /\ "diskwrite" \in Faults
               /\ \E k \in 0..(Len(rbuf) - 1) :
                     rfile' = rfile \o SubSeq(rbuf, 1, k)
-----------------------------------------------------------------------------
Receiving == rpc = "recv" /\ toRx # <<>>

\* The expected block, intact: store it, acknowledge it, expect the next.
RxData ==
  /\ Receiving
  /\ LET f == Head(toRx)
     IN /\ f.kind = "blk" /\ IsExpected(f) /\ CheckMayPass(f)
        /\ Store(f.pos)
  /\ rblk' = rblk + 1
  /\ rerrs' = 0
  /\ rpc' = "poll"
  /\ toRx' = Tail(toRx)
  /\ Reply1(toTx, "ACK")
  /\ UNCHANGED <<rcrc, rtries, strays>>

\* Variant for a mutant run: flag 98 is not tested before storing.
RxDuplicateStored ==
  /\ Receiving
  /\ LET f == Head(toRx)
     IN f.kind = "blk" /\ IsPrevious(f) /\ CheckMayPass(f) /\ Store(f.pos)
  /\ rpc' = "poll"
  /\ toRx' = Tail(toRx)
  /\ Reply1(toTx, "ACK")
  /\ UNCHANGED <<rblk, rcrc, rtries, rerrs, strays>>

\* The block before it again (flag 98): acknowledge it, do not store it.  The
\* error count stays.
RxDuplicate ==
  /\ Receiving
  /\ LET f == Head(toRx)
     IN f.kind = "blk" /\ IsPrevious(f) /\ CheckMayPass(f)
  /\ rpc' = "poll"
  /\ toRx' = Tail(toRx)
  /\ Reply1(toTx, "ACK")
  /\ UNCHANGED <<rblk, rcrc, rtries, rerrs, rbuf, rfile, strays>>

RxReject ==
  /\ Receiving
  /\ IsRejected(Head(toRx))
  /\ RxError(Tail(toRx))

\* A byte that is no header is skipped.
RxSkip ==
  /\ Receiving
  /\ ReadsAsNothing(Head(toRx))
  /\ toRx' = Tail(toRx)
  /\ UNCHANGED <<rxVars, toTx, strays>>

\* Ten seconds without a header (or two within a packet).
RxSilence ==
  /\ rpc = "recv"
  /\ RxError(toRx)

\* CAN or ETX: the error count is set past its limit.
RxCancel ==
  /\ Receiving
  /\ ReadsAsCancel(Head(toRx))
  /\ rerrs' = MaxErrors + 2
  /\ RxAbort(Tail(toRx))

\* Variant for a mutant run: what is left in the buffer is not written.
RxEotUnflushed ==
  /\ Receiving
  /\ ReadsAsEot(Head(toRx))
  /\ toRx' = Tail(toRx)
  /\ rpc' = "ok"
  /\ Reply1(toTx, "ACK")
  /\ UNCHANGED <<rblk, rcrc, rtries, rerrs, rbuf, rfile, strays>>

\* EOT: flush; if that worked acknowledge and end, if not ask again without
\* counting an error.
RxEot ==
  /\ Receiving
  /\ ReadsAsEot(Head(toRx))
  /\ toRx' = Tail(toRx)
  /\ \/ /\ Flush(TRUE)
        /\ rpc' = "ok"
        /\ Reply1(toTx, "ACK")
     \/ /\ Flush(FALSE)
        /\ rpc' = "purge"
        /\ UNCHANGED toTx
  /\ UNCHANGED <<rblk, rcrc, rtries, rerrs, strays>>

\* The line has been silent for two seconds: ask for the block again.
RxPurged ==
  /\ rpc = "purge"
  /\ toRx' \in Purged(toRx)
  /\ Reply1(toTx, "NAK")
  /\ rpc' = "poll"
  /\ UNCHANGED <<rblk, rcrc, rtries, rerrs, rbuf, rfile, strays>>

\* Outside a transfer the terminal loop reads and displays what comes in.
RxTerminal ==
  /\ rpc \in {"idle"} \cup RxEnded
  /\ toRx # <<>>
  /\ toRx' = Tail(toRx)
  /\ UNCHANGED <<rxVars, toTx, strays>>

RxTypeOK ==
  /\ rpc \in RxPc
  /\ rblk \in Nat
  /\ rcrc \in BOOLEAN
  /\ rtries \in 0..CTries
  /\ rerrs \in 0..(MaxErrors + 2)
  /\ rpc \notin RxEnded => rerrs <= MaxErrors
  /\ rbuf \in Seq(Nat)
  /\ rfile \in Seq(Nat)
=============================================================================
