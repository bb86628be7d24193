------------------------------- MODULE MCWasm -------------------------------
(* A small instance of Wasm for TLC: a Dragon and a CoCo, which come with  *)
(* a cartridge each, and an MC-10, which takes none.                       *)
EXTENDS Wasm, TLC

CONSTANTS dragon, coco, mc10, dos, gmc, romD, romC, romM, romDos, romGame, tape, disk

MCRoms == dragon :> {romD} @@ coco :> {romC} @@ mc10 :> {romM}

MCStockRom == dos :> romDos @@ gmc :> romDos

MCStockCart == dragon :> dos @@ coco :> gmc @@ mc10 :> None

\* A game on disk, one on a cartridge, one on disk with another DOS, one for a
\* CoCo without cartridge, and one for the MC-10.
MCSoftware ==
  { [machine |-> dragon, cart |-> None, rom |-> None, media |-> disk],
    [machine |-> dragon, cart |-> gmc, rom |-> romGame, media |-> None],
    [machine |-> dragon, cart |-> dos, rom |-> romGame, media |-> disk],
    [machine |-> coco, cart |-> None, rom |-> None, media |-> None],
    [machine |-> mc10, cart |-> None, rom |-> None, media |-> None] }
=============================================================================
