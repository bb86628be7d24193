---------------------------- MODULE YmodemBatch ----------------------------
(***************************************************************************)
(* What the two sides of a YMODEM batch share: the list of files, and the  *)
(* headers, blocks with number 0.  The pos of a header is NBlocks plus the *)
(* number of its file; the header without a name, which ends the batch,    *)
(* comes after that of the last file.                                      *)
(***************************************************************************)
EXTENDS SerialLine

CONSTANT Batch   \* the files the sending user lists, each a sequence of blocks

\* A block is its position in all of what is sent, so positions ascend.
ASSUME BatchAssumption ==
  /\ Batch \in Seq(Seq(1..NBlocks) \ {<<>>})
  /\ \A k \in 1..Len(Batch) : \A m, n \in 1..Len(Batch[k]) :
        m < n => Batch[k][m] < Batch[k][n]

\* The header of file k.
Header(k) == [kind |-> "blk", num |-> 0, crc |-> TRUE, pos |-> NBlocks + k]

IsHeader(f) == f.pos > NBlocks

\* The number of the file whose header frame f is.
HeaderOf(f) == f.pos - NBlocks
=============================================================================
