---------------------------- MODULE YmodemSender ----------------------------
(***************************************************************************)
(* SuperComm's YMODEM upload: XmodemSender with the batch flag (70) set.   *)
(* Every file of the user's list begins with a header, sent when a C comes *)
(* in, and ends with an EOT whose answer is not looked at.                 *)
(*                                                                         *)
(*   tpc      as in XmodemSender, and                                      *)
(*              hdrC   $40EA, waiting for the C that asks for a header     *)
(*              hdr    $413D, waiting for the answer to a header           *)
(*              dataC  $415C, waiting for the C that asks for block 1      *)
(*              beot   $7220, waiting for any character after EOT          *)
(*   tfile    106,U  the number of the file being sent                     *)
(*   tlast    105,U  the list is exhausted: the header without a name      *)
(***************************************************************************)
EXTENDS XmodemSender, YmodemBatch

VARIABLES tfile, tlast

tbVars == <<txVars, tfile, tlast>>

TbWaits == {"hdrC", "hdr", "dataC", "first", "wait", "beot"}

TbInit == TxInit /\ tfile = 0 /\ tlast = FALSE

\* The header to send: that of the file, or the one without a name.
ThisHeader == Header(IF tlast THEN Len(Batch) + 1 ELSE tfile)

\* Block n of the file being sent.
DataBlock(n) ==
  [kind |-> "blk", num |-> Low(n), crc |-> tcrc', pos |-> Batch[tfile][n]]

\* $3F17: the next name of the list.  A file that cannot be opened, and the
\* empty name after the last one, end the list.
NextFile ==
  /\ tfile' = tfile + 1
  /\ \/ tfile < Len(Batch) /\ tlast' = FALSE
     \/ tlast' = TRUE
  /\ tpc' = "hdrC"
  /\ tcrc' = FALSE

-----------------------------------------------------------------------------
\* The user types the names, or breaks off while typing.
TbStart ==
  /\ tpc = "idle"
  /\ terrs' = 0 /\ tblk' = 1
  /\ \/ NextFile
     \/ tpc' = "nofile" /\ UNCHANGED <<tfile, tlast, tcrc>>
  /\ UNCHANGED lineVars

\* C: send the header.
TbC ==
  /\ tpc = "hdrC"
  /\ Got("C")
  /\ tcrc' = TRUE
  /\ tpc' = "hdr"
  /\ Write(ThisHeader)
  /\ UNCHANGED <<tblk, terrs, tfile, tlast>>

\* A character that is not the one waited for is discarded.
TbDiscard ==
  /\ \/ tpc \in {"hdrC", "dataC"} /\ \E c \in Reply \ {"C"} : Got(c)
     \/ tpc = "hdr" /\ \E c \in Reply \ {"ACK", "NAK"} : Got(c)
  /\ UNCHANGED <<tbVars, toRx>>

\* NAK: the header again, unless it was asked for too often.
TbHeaderNak ==
  /\ tpc = "hdr"
  /\ Got("NAK")
  /\ terrs' = terrs + 1
  /\ IF terrs' <= MaxResends
       THEN /\ Write(ThisHeader)
            /\ UNCHANGED tpc
       ELSE TxAbort
  /\ UNCHANGED <<tblk, tcrc, tfile, tlast>>

\* ACK: on to the data, or done.
TbHeaderAck ==
  /\ tpc = "hdr"
  /\ Got("ACK")
  /\ tpc' = IF tlast THEN "ok" ELSE "dataC"
  /\ tblk' = 1
  /\ UNCHANGED <<tcrc, terrs, tfile, tlast, toRx>>

\* C: the first block.
TbFirstBlock ==
  /\ tpc = "dataC"
  /\ Got("C")
  /\ tcrc' = tcrc
  /\ tpc' = "wait"
  /\ Write(DataBlock(1))
  /\ UNCHANGED <<tblk, terrs, tfile, tlast>>

\* $4041 for a NAK, or for a C after some other character.
TbAgain ==
  /\ \/ tpc \in Running /\ Got("NAK") /\ tcrc' = tcrc
     \/ tpc = "first" /\ Got("C") /\ tcrc' = TRUE
  /\ terrs' = terrs + 1
  /\ IF terrs' <= MaxResends
       THEN tpc' = "wait" /\ Write(DataBlock(tblk))
       ELSE TxAbort
  /\ UNCHANGED <<tblk, tfile, tlast>>

\* Variant for a mutant run: any character counts as the answer to a block.
TbAckAny ==
  /\ tpc \in Running
  /\ \E c \in {"ACK", "junk"} : Got(c)
  /\ terrs' = 0 /\ tblk' = tblk + 1 /\ tcrc' = tcrc
  /\ IF tblk < Len(Batch[tfile])
       THEN tpc' = "wait" /\ Write(DataBlock(tblk + 1))
       ELSE tpc' = "beot" /\ Write(Control("EOT"))
  /\ UNCHANGED <<tfile, tlast>>

\* ACK: the next block, or EOT after the last.
TbAck ==
  /\ tpc \in Running
  /\ Got("ACK")
  /\ terrs' = 0 /\ tblk' = tblk + 1 /\ tcrc' = tcrc
  /\ IF tblk < Len(Batch[tfile])
       THEN tpc' = "wait" /\ Write(DataBlock(tblk + 1))
       ELSE tpc' = "beot" /\ Write(Control("EOT"))
  /\ UNCHANGED <<tfile, tlast>>

\* Any character after the EOT: on to the next file.
TbEotAnswer ==
  /\ tpc = "beot"
  /\ \E c \in Reply : Got(c)
  /\ NextFile
  /\ UNCHANGED <<tblk, terrs, toRx>>

TbBreak ==
  /\ tpc \in TbWaits
  /\ TxAbort
  /\ UNCHANGED <<tblk, tcrc, terrs, tfile, tlast, toTx, strays>>

\* Variant for a mutant run: silence makes the sender send again.
TbSilenceResends ==
  /\ tpc \in TbWaits
  /\ Write(IF tpc = "wait" THEN Control("EOT") ELSE ThisHeader)
  /\ UNCHANGED <<tbVars, toTx, strays>>

\* Fifty-nine seconds without a character.
TbSilence ==
  /\ tpc \in TbWaits
  /\ TxAbort
  /\ UNCHANGED <<tblk, tcrc, terrs, tfile, tlast, toTx, strays>>

TbTypeOK ==
  /\ tpc \in TxPc \cup TbWaits
  /\ tblk \in Nat \ {0} /\ tcrc \in BOOLEAN
  /\ terrs \in 0..(MaxResends + 1)
  /\ tpc \notin TxEnded => terrs <= MaxResends
  /\ tfile \in 0..(Len(Batch) + 1) /\ tlast \in BOOLEAN
  /\ tlast => tpc \in {"hdrC", "hdr"} \cup TxEnded
  /\ ~tlast => tfile <= Len(Batch)
  /\ tpc \in TbWaits => tfile # 0
  /\ tpc \in Running \cup {"dataC"} => tblk <= Len(Batch[tfile])
=============================================================================
