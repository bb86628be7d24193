------------------------------ MODULE MCYmodem ------------------------------
(* Small instances of Ymodem for TLC.                                      *)
EXTENDS Ymodem

\* Two files, of two blocks and of one.
MCBatch == <<<<1, 2>>, <<3>>>>

\* Damaged header bytes are left out here: see MCXmodem.
MCNoScan == <<"none", "none", "none">>
=============================================================================
