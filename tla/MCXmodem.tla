------------------------------ MODULE MCXmodem ------------------------------
(* Small instances of Xmodem for TLC.                                      *)
EXTENDS Xmodem

\* Scan for three blocks, as the code reads a frame whose first byte is
\* damaged: the number bytes 1 and 2 are SOH and STX, 3 is ETX.
MCScan3 == <<"SOH", "SOH", "CAN">>

\* Two blocks, the second with an EOT where its number or its data stand: block
\* number 4 is one.
MCScanEot == <<"SOH", "EOT">>
=============================================================================
