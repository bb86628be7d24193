------------------------------ MODULE FileCopy ------------------------------
(***************************************************************************)
(* What a file transfer promises, whatever protocol carries it: the copy   *)
(* grows by the next block of the file, or by nothing; the receiving user  *)
(* is told "ok" only when the copy is whole; the sending user is told "ok" *)
(* only after that; a transfer that fails leaves no file.                  *)
(***************************************************************************)
EXTENDS Integers, Sequences

CONSTANT NBlocks

VARIABLES
  copy,       \* the blocks of the file the receiving side holds
  rxSays,     \* what the receiving user was told
  txSays      \* what the sending user was told

copyVars == <<copy, rxSays, txSays>>

Told == {"busy", "ok", "failed"}

Init == copy = <<>> /\ rxSays = "busy" /\ txSays = "busy"

Deliver ==
  /\ rxSays = "busy"
  /\ Len(copy) < NBlocks
  /\ copy' = Append(copy, Len(copy) + 1)
  /\ UNCHANGED <<rxSays, txSays>>

Complete ==
  /\ rxSays = "busy"
  /\ Len(copy) = NBlocks
  /\ rxSays' = "ok"
  /\ UNCHANGED <<copy, txSays>>

Fail ==
  /\ rxSays = "busy"
  /\ rxSays' = "failed"
  /\ copy' = <<>>
  /\ UNCHANGED txSays

Confirm ==
  /\ txSays = "busy"
  /\ rxSays = "ok"
  /\ txSays' = "ok"
  /\ UNCHANGED <<copy, rxSays>>

GiveUp ==
  /\ txSays = "busy"
  /\ txSays' = "failed"
  /\ UNCHANGED <<copy, rxSays>>

Next == Deliver \/ Complete \/ Fail \/ Confirm \/ GiveUp

Spec == Init /\ [][Next]_copyVars
=============================================================================
