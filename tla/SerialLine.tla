----------------------------- MODULE SerialLine -----------------------------
(***************************************************************************)
(* The RS-232 line between two copies of SuperComm and what the OS-9       *)
(* serial driver and its acia do to what is written on it.  None of this   *)
(* code is under src/: it is modelled from how the transfer code of        *)
(* supercomm22_proj_restored.asm uses it (I$Write and SS.Ready / I$Read on *)
(* path 43), and is the environment of both transfer programs.             *)
(*                                                                         *)
(* A block travels as one frame, a control character as one symbol.  A     *)
(* frame that is damaged anywhere but in its first byte makes the receiver *)
(* fail in one of three ways (wrong number, wrong check, silence), which   *)
(* differ only in the message shown: kind "bad".  A frame whose first byte *)
(* is damaged is not recognised as a block at all, and the receiver looks  *)
(* for a header in the bytes that follow: kind "torn".                     *)
(***************************************************************************)
EXTENDS Integers, Sequences, Functions

CONSTANTS
  NBlocks,     \* number of blocks in the file that is sent
  ByteMod,     \* what a block-number byte counts modulo (256)
  Faults,      \* what may go wrong, a subset of FaultKinds
  MaxStrays,   \* bound: characters the line makes up by itself
  Prompt,      \* TRUE: latency stays below every timeout of the programs
  Scan         \* for each block, the first header a receiver that missed
               \* the real one finds in the rest of the frame

FaultKinds == {"lose", "damage", "header", "stray", "diskread", "diskwrite"}

ScanKinds == {"none", "SOH", "EOT", "CAN"}

ASSUME LineAssumption ==
  /\ NBlocks \in Nat \ {0}
  /\ ByteMod \in Nat \ {0, 1}
  /\ Faults \subseteq FaultKinds
  /\ MaxStrays \in Nat
  /\ Prompt \in BOOLEAN
  /\ Scan \in [1..NBlocks -> ScanKinds]

VARIABLES
  toRx,        \* what the sender wrote and the receiver has not read yet
  toTx,        \* the same, the other way
  strays       \* how many characters the line has made up so far

lineVars == <<toRx, toTx, strays>>

-----------------------------------------------------------------------------
FrameKinds == {"blk", "bad", "torn", "EOT", "CAN", "junk"}

Frame == [kind : FrameKinds, num : Nat, crc : BOOLEAN, pos : Nat]

\* The characters a receiver sends back.
Reply == {"C", "NAK", "ACK", "CAN", "junk"}

\* The low byte of a block number.
Low(n) == n % ByteMod

BlockFrame(n, crc) == [kind |-> "blk", num |-> Low(n), crc |-> crc, pos |-> n]

Control(k) == [kind |-> k, num |-> 0, crc |-> FALSE, pos |-> 0]

-----------------------------------------------------------------------------
\* What may arrive when frame f, or reply c, is written.
FrameArrives(f) ==
  {<<f>>}
    \cup (IF "lose" \in Faults THEN {<<>>} ELSE {})
    \cup (IF "damage" \in Faults
            THEN {<<IF f.kind = "blk" THEN [f EXCEPT !.kind = "bad"]
                                      ELSE Control("junk")>>}
            ELSE {})
    \cup (IF "header" \in Faults /\ f.kind = "blk"
            THEN {<<[f EXCEPT !.kind = "torn"]>>}
            ELSE {})

ReplyArrives(c) ==
  {<<c>>}
    \cup (IF "lose" \in Faults THEN {<<>>} ELSE {})
    \cup (IF "damage" \in Faults THEN {<<"junk">>} ELSE {})

\* What a purge of queue q may leave: nothing, or, on a slow line, what had
\* not arrived yet.
Purged(q) ==
  IF Prompt THEN {<<>>} ELSE {SubSeq(q, k, Len(q)) : k \in 1..(Len(q) + 1)}

-----------------------------------------------------------------------------
LineInit == toRx = <<>> /\ toTx = <<>> /\ strays = 0

\* Noise while nothing is being sent: a character nobody wrote.
StrayToRx ==
  /\ "stray" \in Faults /\ strays < MaxStrays
  /\ toRx' = Append(toRx, Control("junk"))
  /\ strays' = strays + 1
  /\ UNCHANGED toTx

StrayToTx ==
  /\ "stray" \in Faults /\ strays < MaxStrays
  /\ toTx' = Append(toTx, "junk")
  /\ strays' = strays + 1
  /\ UNCHANGED toRx

LineTypeOK ==
  /\ toRx \in Seq(Frame)
  /\ toTx \in Seq(Reply)
  /\ strays \in 0..MaxStrays
-----------------------------------------------------------------------------
\* What facts about the line speak of: blocks whole or damaged, EOTs, and the
\* replies that ask the sender for something.
BlkKinds == {"blk", "bad", "torn"}

Blocks == {f \in Frame : f.kind \in BlkKinds}

Eots == {f \in Frame : f.kind = "EOT"}

Asks == {"C", "NAK", "ACK"}

\* Queue q holds at most one element of S; none of them.
AtMostOne(q, S) ==
  \A i, j \in 1..Len(q) : q[i] \in S /\ q[j] \in S => i = j

NoneOf(q, S) == Range(q) \cap S = {}
=============================================================================
