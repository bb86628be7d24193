---------------------------- MODULE XmodemSender ----------------------------
(***************************************************************************)
(* SuperComm's XMODEM upload: Sub_3F08 to Sub_40E7, with Sub_2408 (read    *)
(* the next block), Sub_249F (compute its check) and Sub_2A15 (wait for a  *)
(* character), with the batch flag (70) clear.                             *)
(*                                                                         *)
(*   tpc      where the program is:                                        *)
(*              idle   in the terminal loop, no transfer yet               *)
(*              first  $4007, where a C is understood                      *)
(*              wait   $402A, waiting for the answer to a block            *)
(*              eot    $40D8, waiting for the answer to EOT                *)
(*              ok, aborted, nofile   back in the terminal loop            *)
(*   tblk     83,U  the block number of the block in memory                *)
(*   tcrc     90,U  CRC (TRUE) or checksum blocks                          *)
(*   terrs    82,U  how often this block was asked for                     *)
(*                                                                         *)
(* The sender has no retransmission timer: it answers characters, and gives*)
(* up after 59 seconds without one.  The first block is read twice (7082,  *)
(* 4000): if that worked once it works again.                              *)
(***************************************************************************)
EXTENDS SerialLine

CONSTANT MaxResends    \* 9: a block is not asked for more often than this

ASSUME SenderAssumption == MaxResends \in Nat \ {0}

VARIABLES tpc, tblk, tcrc, terrs

txVars == <<tpc, tblk, tcrc, terrs>>

TxEnded == {"ok", "aborted", "nofile"}

\* Blocks are being sent.
Running == {"first", "wait"}

TxPc == {"idle", "first", "wait", "eot"} \cup TxEnded

TxInit ==
  /\ tpc = "idle"
  /\ tblk = 1 /\ tcrc = FALSE /\ terrs = 0

\* Write frame f to the receiver.
Write(f) == \E s \in FrameArrives(f) : toRx' = toRx \o s

\* Sub_40E7 and Sub_39AA: four CAN, four ETX and back to the terminal loop.
TxAbort ==
  /\ tpc' = "aborted"
  /\ Write(Control("CAN"))

\* $4041: one more try for the block in memory, or give up.
TxSendAgain(crc) ==
  /\ terrs' = terrs + 1
  /\ IF terrs' <= MaxResends
       THEN tpc' = "wait" /\ Write(BlockFrame(tblk, crc))
       ELSE TxAbort

-----------------------------------------------------------------------------
\* The user starts an upload: the file is opened, the first block read, the
\* line purged.  A file that cannot be opened or read ends it.
TxStart ==
  /\ tpc = "idle"
  /\ \/ /\ tpc' = "nofile"
        /\ UNCHANGED <<tblk, tcrc, terrs, lineVars>>
     \/ /\ tpc' = "first"
        /\ tblk' = 1 /\ tcrc' = FALSE /\ terrs' = 0
        /\ toTx' \in Purged(toTx)
        /\ UNCHANGED <<toRx, strays>>

\* Sub_2A15 returns a character.
Got(c) ==
  /\ toTx # <<>>
  /\ Head(toTx) = c
  /\ toTx' = Tail(toTx)
  /\ UNCHANGED strays

TxC ==
  /\ tpc = "first"
  /\ Got("C")
  /\ tcrc' = TRUE
  /\ TxSendAgain(TRUE)
  /\ UNCHANGED tblk

TxNak ==
  /\ tpc \in Running
  /\ Got("NAK")
  /\ TxSendAgain(tcrc)
  /\ UNCHANGED <<tblk, tcrc>>

\* Variant for a mutant run: any character counts as the answer to a block.
TxAckAny ==
  /\ tpc \in Running
  /\ \E c \in {"ACK", "junk"} : Got(c)
  /\ terrs' = 0
  /\ tblk' = tblk + 1
  /\ IF tblk < NBlocks
       THEN tpc' = "wait" /\ Write(BlockFrame(tblk + 1, tcrc))
       ELSE tpc' = "eot" /\ Write(Control("EOT"))
  /\ UNCHANGED tcrc

\* $4070: read the next block and send it; at the end of the file, or when
\* reading fails, send EOT instead.
TxAck ==
  /\ tpc \in Running
  /\ Got("ACK")
  /\ terrs' = 0
  /\ tblk' = tblk + 1
  /\ \/ /\ tblk < NBlocks
        /\ tpc' = "wait"
        /\ Write(BlockFrame(tblk + 1, tcrc))
     \/ /\ tblk >= NBlocks \/ "diskread" \in Faults
        /\ tpc' = "eot"
        /\ Write(Control("EOT"))
  /\ UNCHANGED tcrc

TxCan ==
  /\ tpc \in Running
  /\ Got("CAN")
  /\ TxAbort
  /\ UNCHANGED <<tblk, tcrc, terrs>>

\* Anything else, a C too where none is expected: wait for one more
\* character, in which a C counts.
TxOther ==
  /\ \/ tpc \in Running /\ Got("junk")
     \/ tpc = "wait" /\ Got("C")
  /\ tpc' = "first"
  /\ UNCHANGED <<tblk, tcrc, terrs, toRx>>

\* Variant for a mutant run: any character counts as the answer to EOT.
TxEotAckAny ==
  /\ tpc = "eot"
  /\ \E c \in Reply : Got(c)
  /\ tpc' = "ok"
  /\ UNCHANGED <<tblk, tcrc, terrs, toRx>>

\* The answer to EOT.
TxEotAck ==
  /\ tpc = "eot"
  /\ Got("ACK")
  /\ tpc' = "ok"
  /\ UNCHANGED <<tblk, tcrc, terrs, toRx>>

\* $40D8: every other character gets another EOT, however many come.
TxEotAgain ==
  /\ tpc = "eot"
  /\ \E c \in Reply \ {"ACK"} : Got(c)
  /\ Write(Control("EOT"))
  /\ UNCHANGED txVars

\* The user presses BREAK.
TxBreak ==
  /\ tpc \in {"first", "wait", "eot"}
  /\ TxAbort
  /\ UNCHANGED <<tblk, tcrc, terrs, toTx, strays>>

\* Variant for a mutant run: silence makes the sender send the block again.
TxSilenceResends ==
  /\ tpc \in {"first", "wait", "eot"}
  /\ Write(IF tpc = "eot" THEN Control("EOT") ELSE BlockFrame(tblk, tcrc))
  /\ UNCHANGED <<txVars, toTx, strays>>

\* Fifty-nine seconds without a character.
TxSilence ==
  /\ tpc \in {"first", "wait", "eot"}
  /\ TxAbort
  /\ UNCHANGED <<tblk, tcrc, terrs, toTx, strays>>

TxTerminal ==
  /\ tpc \in {"idle"} \cup TxEnded
  /\ toTx # <<>>
  /\ toTx' = Tail(toTx)
  /\ UNCHANGED <<txVars, toRx, strays>>

TxTypeOK ==
  /\ tpc \in TxPc
  /\ tblk \in Nat
  /\ tcrc \in BOOLEAN
  /\ terrs \in 0..(MaxResends + 1)
  /\ tpc \notin TxEnded => terrs <= MaxResends
=============================================================================
