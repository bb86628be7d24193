---------------------------- MODULE XmodemProofs ----------------------------
(***************************************************************************)
(* Proofs about Xmodem, for files of any length, any error limits, any     *)
(* buffer size and any number of stray characters: first what holds on a   *)
(* prompt line whatever fails, then what holds under SafeLine, and last    *)
(* what a slow line leaves of it for short files.                          *)
(***************************************************************************)
EXTENDS Xmodem, LineProofs

\* The beginning of a file, one block longer.
LEMMA FirstBlocksGrow ==
  /\ FirstBlocks(0) = <<>>
  /\ \A n \in Nat : /\ FirstBlocks(n) \in Seq(Nat)
                     /\ Len(FirstBlocks(n)) = n
                     /\ Append(FirstBlocks(n), n + 1) = FirstBlocks(n + 1)
  BY DEF FirstBlocks

-----------------------------------------------------------------------------
\* Nothing is in order.
LEMMA EmptyIsOrdered ==
  ASSUME rfile = <<>>, rbuf = <<>>
  PROVE  Held = <<>> /\ Older /\ Rising
  <1>1. Held = <<>> /\ Len(Held) = 0
    BY EmptySeq, ConcatEmptySeq DEF Held
  <1> QED
    BY <1>1 DEF Older, Rising

LEMMA StartsInOrder == Init => LineInv
  <1> SUFFICES ASSUME Init PROVE LineInv
    OBVIOUS
  <1>1. /\ toRx = <<>> /\ toTx = <<>> /\ Range(<<>>) = {}
        /\ <<>> \in Seq(Frame) /\ <<>> \in Seq(Reply) /\ <<>> \in Seq(Nat)
        /\ <<>> \o <<>> = <<>>
    BY EmptyHasNone, EmptySeq, ConcatEmptySeq DEF Init, LineInit
  <1>2. TypeOK
    <2>1. RxTypeOK
      <3>1. rbuf \in Seq(Nat) /\ rfile \in Seq(Nat)
        BY <1>1, Zenon DEF Init, RxInit
      <3>2. rcrc \in BOOLEAN
        BY Zenon DEF Init, RxInit
      <3> QED
        BY <3>1, <3>2, ReceiverAssumption DEF Init, RxInit, RxTypeOK, RxPc, RxEnded
    <2>2. TxTypeOK
      <3>1. tcrc \in BOOLEAN
        BY Zenon DEF Init, TxInit
      <3> QED
        BY <3>1, SenderAssumption DEF Init, TxInit, TxTypeOK, TxPc, TxEnded
    <2>3. LineTypeOK
      <3>1. toRx \in Seq(Frame) /\ toTx \in Seq(Reply)
        BY <1>1, Zenon
      <3> QED
        BY <3>1, LineAssumption DEF Init, LineInit, LineTypeOK
    <2> QED
      BY <2>1, <2>2, <2>3 DEF TypeOK
  <1>3. BlocksAreCurrent /\ SenderPhase /\ AckMeans /\ OneAtATime
    BY <1>1, LineAssumption
    DEF Init, RxInit, TxInit, BlocksAreCurrent, SenderPhase, AckMeans,
        OneAtATime, NoneOf, Running
  <1>4. ReceiverPhase
    BY EmptyIsOrdered DEF Init, RxInit, TxInit, ReceiverPhase, Lockstep
  <1> QED
    BY <1>2, <1>3, <1>4 DEF LineInv

-----------------------------------------------------------------------------
(* The order of what is held.                                              *)

\* A stretch of what was held is in order, too.
LEMMA StretchIsOrdered ==
  ASSUME LineInv, NEW d \in Nat, Held' \in Seq(Nat), Len(Held') + d <= Len(Held),
         \A i \in 1..Len(Held') : Held'[i] = Held[i + d],
         rblk' = rblk
  PROVE  Older' /\ Rising'
  <1>1. /\ Held \in Seq(Nat) /\ Len(Held) \in Nat /\ Len(Held') \in Nat
        /\ rblk \in Nat
    BY DEF LineInv, TypeOK, RxTypeOK, Held
  <1>2. \A i \in 1..Len(Held') : i + d \in 1..Len(Held)
    BY <1>1
  <1>3. Older /\ Rising
    BY DEF LineInv, ReceiverPhase
  <1>4. Older'
    BY <1>1, <1>2, <1>3 DEF Older
  <1>5. Rising'
    <2> SUFFICES ASSUME NEW i \in 1..Len(Held'), NEW j \in 1..Len(Held'), i < j
                 PROVE  Held'[i] < Held'[j]
      BY DEF Rising
    <2>1. i + d \in 1..Len(Held) /\ j + d \in 1..Len(Held) /\ i + d < j + d
      BY <1>1, <1>2
    <2>2. Held[i + d] < Held[j + d]
      BY <1>3, <2>1 DEF Rising
    <2> QED
      BY <2>2
  <1> QED
    BY <1>4, <1>5

\* Without the file: what is in memory.
LEMMA MemoryIsOrdered ==
  ASSUME LineInv, rbuf' = rbuf, rfile' = <<>>, rblk' = rblk
  PROVE  Older' /\ Rising'
  <1>1. rbuf \in Seq(Nat) /\ rfile \in Seq(Nat) /\ Len(rfile) \in Nat /\ Len(rbuf) \in Nat
    BY DEF LineInv, TypeOK, RxTypeOK
  <1>2. Held' = rbuf
    BY <1>1 DEF Held
  <1>3. /\ Len(rbuf) + Len(rfile) = Len(Held)
        /\ \A i \in 1..Len(rbuf) : rbuf[i] = Held[i + Len(rfile)]
    BY <1>1 DEF Held
  <1> QED
    BY <1>1, <1>2, <1>3, StretchIsOrdered

\* Sub_41EC, whether all of it was written or not.
LEMMA FlushOrders ==
  ASSUME LineInv, NEW ok \in BOOLEAN, Flush(ok), rblk' = rblk
  PROVE  /\ rbuf' \in Seq(Nat) /\ rfile' \in Seq(Nat)
         /\ Older' /\ Rising'
  <1>1. rbuf \in Seq(Nat) /\ rfile \in Seq(Nat)
    BY DEF LineInv, TypeOK, RxTypeOK
  <1>2. /\ rbuf' = <<>> /\ rfile' \in Seq(Nat) /\ Held' = rfile'
        /\ Len(Held') <= Len(Held) /\ \A i \in 1..Len(Held') : Held'[i] = Held[i]
    BY <1>1, FlushHolds
  <1>3. Len(Held') + 0 <= Len(Held) /\ \A i \in 1..Len(Held') : Held'[i] = Held[i + 0]
    BY <1>2
  <1> QED
    BY <1>2, <1>3, StretchIsOrdered, EmptySeq

\* Sub_4191: the block that is waited for, behind all or some of the others.
LEMMA StoreOrders ==
  ASSUME LineInv, Store(rblk), rblk' = rblk + 1
  PROVE  /\ rbuf' \in Seq(Nat) /\ rfile' \in Seq(Nat)
         /\ Older' /\ Rising'
  <1>1. /\ rbuf \in Seq(Nat) /\ rfile \in Seq(Nat) /\ rblk \in Nat
        /\ Len(rbuf) \in Nat /\ Len(rfile) \in Nat
        /\ Held \in Seq(Nat) /\ Len(Held) \in Nat
    BY DEF LineInv, TypeOK, RxTypeOK, Held
  <1>2. /\ rbuf' \in Seq(Nat) /\ rfile' \in Seq(Nat)
        /\ \E h \in Seq(Nat) : /\ Held' = Append(h, rblk) /\ Len(h) <= Len(Held)
                               /\ \A i \in 1..Len(h) : h[i] = Held[i]
    BY <1>1, StoreHolds
  <1>3. PICK h \in Seq(Nat) : /\ Held' = Append(h, rblk) /\ Len(h) <= Len(Held)
                              /\ \A i \in 1..Len(h) : h[i] = Held[i]
    BY <1>2
  <1>4. /\ Len(Held') = Len(h) + 1 /\ Len(h) \in Nat
        /\ \A i \in 1..Len(h) : Held'[i] = Held[i] /\ i \in 1..Len(Held)
        /\ Held'[Len(h) + 1] = rblk
        /\ \A i \in 1..Len(Held) : Held[i] \in Nat
    BY <1>1, <1>3
  <1>5. \A i \in 1..Len(Held') : i \in 1..Len(h) \/ i = Len(h) + 1
    BY <1>4
  <1>6. Older'
    <2>1. Older
      BY DEF LineInv, ReceiverPhase
    <2>2. \A i \in 1..Len(h) : Held'[i] \in Nat /\ Held'[i] < rblk
      BY <1>4, <2>1 DEF Older
    <2>3. SUFFICES ASSUME NEW i \in 1..Len(Held')
                   PROVE  Held'[i] < rblk'
      BY DEF Older
    <2>4. CASE i \in 1..Len(h)
      BY <1>1, <2>2, <2>4
    <2>5. CASE i = Len(h) + 1
      BY <1>1, <1>4, <2>5
    <2> QED
      BY <1>5, <2>4, <2>5
  <1>7. Rising'
    <2> SUFFICES ASSUME NEW i \in 1..Len(Held'), NEW j \in 1..Len(Held'), i < j
                 PROVE  Held'[i] < Held'[j]
      BY DEF Rising
    <2>1. i \in 1..Len(h)
      BY <1>4, <1>5
    <2> QED
      BY <1>1, <1>4, <1>5, <2>1 DEF LineInv, ReceiverPhase, Older, Rising
  <1> QED
    BY <1>2, <1>6, <1>7

-----------------------------------------------------------------------------
(* The receiver's steps.                                                   *)

\* Leaving the transfer with an abort.
LEMMA RxAbortKeeps ==
  ASSUME Prompt, LineInv, NEW q, RxAbort(q), UNCHANGED txVars,
         rpc \notin RxEnded, rerrs' \in 0..(MaxErrors + 2)
  PROVE  LineInv'
  <1>1. /\ toRx' = <<>> /\ Range(<<>>) = {} /\ <<>> \in Seq(Frame)
        /\ \A S : AtMostOne(<<>>, S)
    BY EmptyHasNone, EmptySeq DEF RxAbort, Purged, AtMostOne
  <1>2. toTx \in Seq(Reply) /\ "CAN" \in Reply /\ "CAN" \notin Asks
    BY DEF LineInv, TypeOK, LineTypeOK, Reply, Asks
  <1>3. /\ toTx' \in Seq(Reply)
        /\ "ACK" \in Range(toTx') => "ACK" \in Range(toTx)
        /\ NoneOf(toTx, Asks) => NoneOf(toTx', Asks)
        /\ AtMostOne(toTx, Asks) => AtMostOne(toTx', Asks)
    BY <1>2, ReplySent DEF RxAbort
  <1>4. TypeOK'
    BY <1>1, <1>3, EmptySeq
    DEF LineInv, TypeOK, RxTypeOK, TxTypeOK, LineTypeOK, RxAbort, txVars, RxPc, RxEnded
  <1>5. BlocksAreCurrent'
    BY <1>1 DEF BlocksAreCurrent
  <1>6. ReceiverPhase'
    <2>1. /\ rpc' = "aborted" /\ rpc # "ok"
          /\ rbuf' = rbuf /\ rfile' = <<>> /\ rblk' = rblk /\ tblk' = tblk
      BY DEF LineInv, ReceiverPhase, RxAbort, RxEnded, txVars
    <2>2. Older' /\ Rising'
      BY <2>1, MemoryIsOrdered
    <2>3. Lockstep'
      BY <2>1 DEF LineInv, ReceiverPhase, Lockstep
    <2> QED
      BY <2>1, <2>2, <2>3 DEF ReceiverPhase
  <1>7. SenderPhase' /\ AckMeans' /\ OneAtATime'
    BY <1>1, <1>3
    DEF LineInv, SenderPhase, AckMeans, OneAtATime, NoneOf, RxAbort, txVars, RxEnded
  <1> QED
    BY <1>4, <1>5, <1>6, <1>7 DEF LineInv

LEMMA RxStartKeeps ==
  ASSUME Prompt, LineInv, RxStart, UNCHANGED txVars
  PROVE  LineInv'
  <1>1. toTx \in Seq(Reply) /\ "C" \in Reply /\ rpc = "idle" /\ rblk = 1
    BY DEF LineInv, TypeOK, LineTypeOK, ReceiverPhase, RxStart, Reply
  <1>2. CASE rpc' = "nofile"
    <2>1. UNCHANGED <<rblk, rcrc, rtries, rerrs, rbuf, rfile, lineVars>>
      BY <1>2 DEF RxStart
    <2> QED
      BY <1>1, <1>2, <2>1
      DEF LineInv, TypeOK, RxTypeOK, TxTypeOK, LineTypeOK, BlocksAreCurrent,
          SenderPhase, AckMeans, OneAtATime, ReceiverPhase, Lockstep, Older, Rising, Held,
          RxPc, RxEnded, lineVars, txVars
  <1>3. CASE rpc' = "negC"
    <2>1. /\ rblk' = 1 /\ rcrc' = TRUE /\ rtries' = CTries - 1 /\ rerrs' = 0
          /\ rbuf' = <<>> /\ rfile' = <<>>
          /\ Reply1(toTx, "C") /\ UNCHANGED <<toRx, strays>>
      BY <1>3 DEF RxStart
    <2>2. /\ toTx' \in Seq(Reply)
          /\ "ACK" \in Range(toTx') => "ACK" \in Range(toTx)
          /\ NoneOf(toTx, Asks) => AtMostOne(toTx', Asks)
      BY <1>1, <2>1, ReplySent
    <2>3. TypeOK'
      BY <1>3, <2>1, <2>2, ReceiverAssumption, EmptySeq
      DEF LineInv, TypeOK, RxTypeOK, TxTypeOK, LineTypeOK, RxPc, RxEnded, txVars
    <2>4. BlocksAreCurrent' /\ SenderPhase' /\ AckMeans' /\ OneAtATime'
      BY <1>1, <1>3, <2>1, <2>2
      DEF LineInv, BlocksAreCurrent, SenderPhase, AckMeans, OneAtATime, txVars
    <2>5. ReceiverPhase'
      <3>1. Older' /\ Rising'
        <4>1. Held' = <<>> /\ Len(Held') = 0
          BY <2>1, EmptySeq, ConcatEmptySeq DEF Held
        <4> QED
          BY <4>1 DEF Older, Rising
      <3> QED
        BY <1>1, <1>3, <2>1, <3>1 DEF LineInv, ReceiverPhase, Lockstep, txVars
    <2> QED
      BY <2>3, <2>4, <2>5 DEF LineInv
  <1> QED
    BY <1>2, <1>3 DEF RxStart

\* Asking the sender with c once the line is empty.
LEMMA RxAskKeeps ==
  ASSUME Prompt, LineInv, NEW c \in {"C", "NAK"}, Reply1(toTx, c),
         toTx = <<>> \/ tpc = "idle",
         toRx' = <<>> \/ toRx' = toRx,
         rpc \notin RxEnded \cup {"idle"}, rpc' \in {"negC", "negN", "poll"},
         rcrc' \in BOOLEAN, rtries' \in 0..CTries, rerrs' \in 0..MaxErrors,
         toRx' = <<>> \/ NoneOf(toRx, Blocks),
         UNCHANGED <<rblk, rbuf, rfile, strays>>, UNCHANGED txVars
  PROVE  LineInv'
  <1>1. toTx \in Seq(Reply) /\ c \in Reply /\ toRx \in Seq(Frame)
    BY DEF LineInv, TypeOK, LineTypeOK, Reply
  <1>2. /\ toTx' \in Seq(Reply)
        /\ "ACK" \in Range(toTx') => "ACK" \in Range(toTx)
        /\ NoneOf(toTx, Asks) => AtMostOne(toTx', Asks)
    BY <1>1, ReplySent
  <1>3. /\ toRx' \in Seq(Frame) /\ Range(toRx') \subseteq Range(toRx)
        /\ NoneOf(toRx', Blocks) /\ AtMostOne(toRx', Blocks)
    <2>1. toRx' \in Seq(Frame) /\ Range(toRx') \subseteq Range(toRx) /\ NoneOf(toRx', Blocks)
      BY <1>1, EmptyHasNone, EmptySeq DEF NoneOf
    <2> QED
      BY <2>1, NoneIsAtMostOne
  <1>4. tpc # "idle" => NoneOf(toTx, Asks)
    BY EmptyHasNone DEF NoneOf
  <1>5. TypeOK'
    BY <1>2, <1>3, ReceiverAssumption
    DEF LineInv, TypeOK, RxTypeOK, TxTypeOK, LineTypeOK, RxPc, txVars
  <1>6. BlocksAreCurrent'
    BY <1>3 DEF LineInv, BlocksAreCurrent, txVars
  <1>7. SenderPhase' /\ AckMeans'
    BY <1>2, <1>3 DEF LineInv, SenderPhase, AckMeans, NoneOf, RxEnded, txVars
  <1>8. OneAtATime'
    BY <1>2, <1>3, <1>4 DEF OneAtATime, Running, txVars
  <1>9. ReceiverPhase'
    BY DEF LineInv, ReceiverPhase, Lockstep, Older, Rising, Held, RxEnded, txVars
  <1> QED
    BY <1>5, <1>6, <1>7, <1>8, <1>9 DEF LineInv

\* Steps that only move the program counter.
LEMMA RxMoveKeeps ==
  ASSUME LineInv, UNCHANGED txVars, RxCharReady \/ RxPoll
  PROVE  LineInv'
  <1>1. /\ rpc \in {"negC", "negN", "poll"} /\ rpc' \in {"poll", "recv"}
        /\ UNCHANGED <<rblk, rcrc, rtries, rerrs, rbuf, rfile, lineVars>>
    BY DEF RxCharReady, RxPoll
  <1>2. TypeOK' /\ BlocksAreCurrent'
    BY <1>1 DEF LineInv, TypeOK, RxTypeOK, TxTypeOK, LineTypeOK, RxPc, RxEnded, txVars,
                lineVars, BlocksAreCurrent
  <1>3. SenderPhase' /\ AckMeans' /\ OneAtATime' /\ ReceiverPhase'
    BY <1>1 DEF LineInv, SenderPhase, AckMeans, OneAtATime, ReceiverPhase, Lockstep, Older, Rising, Held, txVars,
                lineVars
  <1> QED
    BY <1>2, <1>3 DEF LineInv

\* A frame is read and nothing comes of it.
LEMMA RxSkipKeeps ==
  ASSUME LineInv, UNCHANGED txVars, RxSkip \/ RxTerminal
  PROVE  LineInv'
  <1>1. /\ toRx # <<>> /\ toRx' = Tail(toRx) /\ toRx \in Seq(Frame)
        /\ UNCHANGED <<rpc, rblk, rcrc, rtries, rerrs, rbuf, rfile, toTx, strays>>
    BY DEF RxSkip, RxTerminal, Receiving, rxVars, LineInv, TypeOK, LineTypeOK
  <1>2. /\ toRx' \in Seq(Frame) /\ Range(toRx') \subseteq Range(toRx)
        /\ \A S : NoneOf(toRx, S) => NoneOf(toRx', S)
        /\ AtMostOne(toRx, Blocks) => AtMostOne(toRx', Blocks)
    BY <1>1, FrameRead
  <1>3. TypeOK' /\ BlocksAreCurrent'
    BY <1>1, <1>2 DEF LineInv, TypeOK, RxTypeOK, TxTypeOK, LineTypeOK, txVars,
        BlocksAreCurrent
  <1>4. SenderPhase' /\ AckMeans' /\ ReceiverPhase'
    BY <1>1, <1>2 DEF LineInv, SenderPhase, AckMeans, ReceiverPhase, Lockstep, Older, Rising, Held, txVars
  <1>5. OneAtATime'
    BY <1>1, <1>2 DEF LineInv, OneAtATime, txVars
  <1> QED
    BY <1>3, <1>4, <1>5 DEF LineInv

\* The block number of an intact block tells whether it was stored before.
LEMMA NumberTells ==
  ASSUME LineInv, rpc # "ok", NEW f \in Range(toRx) \cap Frame, f.kind = "blk"
  PROVE  /\ f.pos = tblk /\ tblk <= NBlocks
         /\ IsExpected(f) => rblk = tblk
         /\ IsPrevious(f) => rblk = tblk + 1
  <1>1. f \in Blocks
    BY DEF Blocks, BlkKinds
  <1>2. /\ f.pos = tblk /\ f.num = Low(tblk) /\ tblk <= NBlocks
        /\ rblk \in {tblk, tblk + 1} /\ tblk \in Nat
    BY <1>1 DEF LineInv, BlocksAreCurrent, ReceiverPhase, Lockstep, TypeOK, TxTypeOK
  <1>3. Low(tblk + 1) # Low(tblk)
    BY <1>2, NextByteDiffers
  <1> QED
    BY <1>2, <1>3 DEF IsExpected, IsPrevious

\* What reading a block leaves on the line while the sender sends blocks.
LEMMA BlockRead ==
  ASSUME LineInv, Receiving, Head(toRx) \in Blocks, toRx' = Tail(toRx)
  PROVE  /\ toRx' \in Seq(Frame) /\ Range(toRx') \subseteq Range(toRx)
         /\ \A S : NoneOf(toRx, S) => NoneOf(toRx', S)
         /\ tpc \in Running => NoneOf(toRx', Blocks) /\ NoneOf(toTx, Asks)
         /\ tpc \notin {"idle", "eot"}
  <1>1. /\ toRx' \in Seq(Frame) /\ Range(toRx') \subseteq Range(toRx)
        /\ Head(toRx) \in Range(toRx) \cap Frame
        /\ \A S : NoneOf(toRx, S) => NoneOf(toRx', S)
        /\ AtMostOne(toRx, Blocks) => NoneOf(toRx', Blocks)
    BY FrameRead DEF LineInv, TypeOK, LineTypeOK, Receiving
  <1>2. ~NoneOf(toRx, Blocks) /\ ~NoneOf(toRx, Blocks \cup Eots)
    BY <1>1 DEF NoneOf
  <1>3. tpc \in Running => NoneOf(toRx', Blocks) /\ NoneOf(toTx, Asks)
    BY <1>1, <1>2 DEF LineInv, OneAtATime
  <1>4. tpc \notin {"idle", "eot"}
    BY <1>2 DEF LineInv, SenderPhase
  <1> QED
    BY <1>1, <1>3, <1>4

LEMMA RxDataKeeps ==
  ASSUME Prompt, LineInv, RxData, UNCHANGED txVars
  PROVE  LineInv'
  <1> DEFINE f == Head(toRx)
  <1>1. /\ f \in Range(toRx) \cap Frame /\ f.kind = "blk" /\ IsExpected(f)
        /\ Receiving /\ rpc = "recv" /\ toRx' = Tail(toRx) /\ toTx \in Seq(Reply) /\ "ACK" \in Reply
        /\ Reply1(toTx, "ACK") /\ Store(f.pos)
    BY FrameRead DEF RxData, Receiving, LineInv, TypeOK, LineTypeOK, Reply
  <1> HIDE DEF f
  <1>2. f.pos = tblk /\ tblk = rblk /\ tblk <= NBlocks /\ tblk \in 1..(NBlocks + 1)
    BY <1>1, NumberTells DEF LineInv, SenderPhase
  <1>3. /\ toRx' \in Seq(Frame) /\ Range(toRx') \subseteq Range(toRx)
        /\ \A S : NoneOf(toRx, S) => NoneOf(toRx', S)
        /\ tpc \in Running => NoneOf(toRx', Blocks) /\ NoneOf(toTx, Asks)
        /\ tpc \notin {"idle", "eot"}
    BY <1>1, BlockRead DEF f, Blocks, BlkKinds
  <1>4. /\ toTx' \in Seq(Reply)
        /\ NoneOf(toTx, Asks) => AtMostOne(toTx', Asks)
    BY <1>1, ReplySent
  <1>5. rbuf' \in Seq(Nat) /\ rfile' \in Seq(Nat) /\ Older' /\ Rising'
    BY <1>1, <1>2, StoreOrders DEF RxData
  <1>6. TypeOK'
    BY <1>3, <1>4, <1>5, ReceiverAssumption
    DEF RxData, LineInv, TypeOK, RxTypeOK, TxTypeOK, LineTypeOK, RxPc, txVars
  <1>7. BlocksAreCurrent'
    BY <1>2, <1>3 DEF RxData, LineInv, BlocksAreCurrent, txVars
  <1>8. SenderPhase' /\ AckMeans'
    BY <1>2, <1>3, LineAssumption
    DEF RxData, Receiving, LineInv, SenderPhase, AckMeans, txVars
  <1>9. OneAtATime'
    <2>1. tpc \in Running => AtMostOne(toRx', Blocks)
      BY <1>3, NoneIsAtMostOne
    <2> QED
      BY <1>3, <1>4, <2>1 DEF RxData, OneAtATime, txVars
  <1>10. ReceiverPhase'
    BY <1>2, <1>5 DEF RxData, ReceiverPhase, Lockstep, txVars
  <1> QED
    BY <1>6, <1>7, <1>8, <1>9, <1>10 DEF LineInv

LEMMA RxDuplicateKeeps ==
  ASSUME LineInv, RxDuplicate, UNCHANGED txVars
  PROVE  LineInv'
  <1> DEFINE f == Head(toRx)
  <1>1. /\ f \in Range(toRx) \cap Frame /\ f.kind = "blk" /\ IsPrevious(f)
        /\ Receiving /\ rpc = "recv" /\ toRx' = Tail(toRx) /\ toTx \in Seq(Reply) /\ "ACK" \in Reply
        /\ Reply1(toTx, "ACK")
    BY FrameRead DEF RxDuplicate, Receiving, LineInv, TypeOK, LineTypeOK, Reply
  <1> HIDE DEF f
  <1>2. tblk <= NBlocks /\ rblk = tblk + 1
    BY <1>1, NumberTells
  <1>3. /\ toRx' \in Seq(Frame) /\ Range(toRx') \subseteq Range(toRx)
        /\ \A S : NoneOf(toRx, S) => NoneOf(toRx', S)
        /\ tpc \in Running => NoneOf(toRx', Blocks) /\ NoneOf(toTx, Asks)
        /\ tpc \notin {"idle", "eot"}
    BY <1>1, BlockRead DEF f, Blocks, BlkKinds
  <1>4. /\ toTx' \in Seq(Reply)
        /\ NoneOf(toTx, Asks) => AtMostOne(toTx', Asks)
    BY <1>1, ReplySent
  <1>5. TypeOK'
    BY <1>3, <1>4
    DEF RxDuplicate, Receiving, LineInv, TypeOK, RxTypeOK, TxTypeOK, LineTypeOK, RxPc,
        RxEnded, txVars
  <1>6. BlocksAreCurrent' /\ ReceiverPhase'
    BY <1>3 DEF RxDuplicate, Receiving, LineInv, BlocksAreCurrent, ReceiverPhase,
                Lockstep, Older, Rising, Held, txVars
  <1>7. SenderPhase' /\ AckMeans'
    BY <1>2, <1>3 DEF RxDuplicate, Receiving, LineInv, SenderPhase, AckMeans, txVars
  <1>8. OneAtATime'
    <2>1. tpc \in Running => AtMostOne(toRx', Blocks)
      BY <1>3, NoneIsAtMostOne
    <2> QED
      BY <1>3, <1>4, <2>1 DEF RxDuplicate, OneAtATime, txVars
  <1> QED
    BY <1>5, <1>6, <1>7, <1>8 DEF LineInv

\* The common end of everything that is wrong with a packet.
LEMMA RxErrorKeeps ==
  ASSUME Prompt, LineInv, NEW q \in Seq(Frame), RxError(q), UNCHANGED txVars, rpc = "recv",
         Range(q) \subseteq Range(toRx),
         tpc \in Running => NoneOf(q, Blocks) /\ NoneOf(toTx, Asks)
  PROVE  LineInv'
  <1>1. rerrs \in 0..MaxErrors /\ rerrs' = rerrs + 1 /\ rpc \notin RxEnded
    BY DEF LineInv, TypeOK, RxTypeOK, RxEnded, RxError
  <1>2. CASE rerrs' > MaxErrors
    <2>1. RxAbort(q) /\ rerrs' \in 0..(MaxErrors + 2)
      BY <1>1, <1>2, ReceiverAssumption DEF RxError
    <2> QED
      BY <1>1, <2>1, RxAbortKeeps
  <1>3. CASE rerrs' <= MaxErrors
    <2>1. /\ rpc' = "purge" /\ toRx' = q /\ rerrs' \in 0..(MaxErrors + 2)
          /\ UNCHANGED <<rblk, rcrc, rtries, rbuf, rfile, toTx, strays>>
      BY <1>1, <1>3, ReceiverAssumption DEF RxError
    <2>2. \A S : NoneOf(toRx, S) => NoneOf(toRx', S)
      BY <2>1 DEF NoneOf
    <2>3. TypeOK'
      BY <1>3, <2>1
      DEF LineInv, TypeOK, RxTypeOK, TxTypeOK, LineTypeOK, RxPc, txVars
    <2>4. BlocksAreCurrent' /\ ReceiverPhase'
      BY <2>1 DEF LineInv, BlocksAreCurrent, ReceiverPhase, Lockstep, Older, Rising, Held, txVars
    <2>5. SenderPhase' /\ AckMeans'
      BY <2>1, <2>2 DEF LineInv, SenderPhase, AckMeans, txVars
    <2>6. OneAtATime'
      <3>1. tpc \in Running => AtMostOne(toRx', Blocks)
        BY <2>1, NoneIsAtMostOne
      <3>2. tpc \in Running => AtMostOne(toTx, Asks)
        BY DEF LineInv, OneAtATime
      <3> QED
        BY <2>1, <3>1, <3>2 DEF OneAtATime, txVars
    <2> QED
      BY <2>3, <2>4, <2>5, <2>6 DEF LineInv
  <1> QED
    BY <1>1, <1>2, <1>3, ReceiverAssumption

LEMMA RxRejectKeeps ==
  ASSUME Prompt, LineInv, RxReject, UNCHANGED txVars
  PROVE  LineInv'
  <1> DEFINE q == Tail(toRx)
  <1>1. /\ Receiving /\ toRx # <<>> /\ toRx \in Seq(Frame) /\ rpc = "recv"
        /\ IsRejected(Head(toRx)) /\ RxError(q)
    BY DEF RxReject, Receiving, LineInv, TypeOK, LineTypeOK
  <1>2. /\ q \in Seq(Frame) /\ Range(q) \subseteq Range(toRx)
        /\ Head(toRx) \in Range(toRx) \cap Frame
        /\ AtMostOne(toRx, Blocks) /\ Head(toRx) \in Blocks => NoneOf(q, Blocks)
    BY <1>1, TailOf
  <1> HIDE DEF q
  <1>3. Head(toRx) \in Blocks
    BY <1>1, <1>2 DEF IsRejected, Blocks, BlkKinds
  <1>4. tpc \in Running => NoneOf(q, Blocks) /\ NoneOf(toTx, Asks)
    <2>1. ~NoneOf(toRx, Blocks)
      BY <1>2, <1>3 DEF NoneOf
    <2> QED
      BY <1>2, <1>3, <2>1 DEF LineInv, OneAtATime
  <1> QED
    BY <1>1, <1>2, <1>4, RxErrorKeeps

LEMMA RxCancelKeeps ==
  ASSUME Prompt, LineInv, RxCancel, UNCHANGED txVars
  PROVE  LineInv'
  <1>1. RxAbort(Tail(toRx)) /\ rpc \notin RxEnded /\ rerrs' \in 0..(MaxErrors + 2)
    BY ReceiverAssumption DEF RxCancel, Receiving, RxEnded
  <1> QED
    BY <1>1, RxAbortKeeps

\* A real EOT, or a torn block that reads as one.
LEMMA RxEotKeeps ==
  ASSUME Prompt, LineInv, RxEot, UNCHANGED txVars
  PROVE  LineInv'
  <1>1. /\ Receiving /\ toRx # <<>> /\ toRx \in Seq(Frame) /\ toRx' = Tail(toRx)
        /\ rpc = "recv" /\ ReadsAsEot(Head(toRx)) /\ toTx \in Seq(Reply) /\ "ACK" \in Reply
        /\ UNCHANGED <<rblk, rcrc, rtries, rerrs, strays>>
    BY DEF RxEot, Receiving, LineInv, TypeOK, LineTypeOK, Reply
  <1>2. /\ toRx' \in Seq(Frame) /\ Range(toRx') \subseteq Range(toRx)
        /\ Head(toRx) \in Range(toRx) \cap Frame
        /\ \A S : NoneOf(toRx, S) => NoneOf(toRx', S)
    BY <1>1, FrameRead
  <1>3. tpc \in Running => NoneOf(toRx', Blocks) /\ NoneOf(toTx, Asks)
    <2>1. CASE Head(toRx).kind = "EOT"
      <3>1. ~NoneOf(toRx, Eots)
        BY <1>2, <2>1 DEF NoneOf, Eots
      <3> QED
        BY <3>1 DEF LineInv, SenderPhase
    <2>2. CASE Head(toRx).kind = "torn"
      <3>1. Head(toRx) \in Blocks
        BY <1>2, <2>2 DEF Blocks, BlkKinds
      <3> QED
        BY <1>1, <3>1, BlockRead
    <2> QED
      BY <1>1, <2>1, <2>2 DEF ReadsAsEot
  <1>4. rbuf' \in Seq(Nat) /\ rfile' \in Seq(Nat) /\ Older' /\ Rising'
    BY <1>1, FlushOrders DEF RxEot
  <1>5. /\ rpc' \in {"ok", "purge"}
        /\ \/ Reply1(toTx, "ACK") /\ rpc' = "ok"
           \/ UNCHANGED toTx
    BY DEF RxEot
  <1>6. /\ toTx' \in Seq(Reply)
        /\ NoneOf(toTx, Asks) => AtMostOne(toTx', Asks)
        /\ rpc' = "purge" => toTx' = toTx
    <2>1. CASE Reply1(toTx, "ACK") /\ rpc' = "ok"
      BY <1>1, <2>1, ReplySent
    <2>2. CASE UNCHANGED toTx
      BY <1>1, <2>2, NoneIsAtMostOne
    <2> QED
      BY <1>5, <2>1, <2>2
  <1>7. TypeOK'
    BY <1>1, <1>2, <1>4, <1>5, <1>6
    DEF LineInv, TypeOK, RxTypeOK, TxTypeOK, LineTypeOK, RxPc, RxEnded, txVars
  <1>8. BlocksAreCurrent' /\ ReceiverPhase'
    BY <1>1, <1>2, <1>4, <1>5
    DEF LineInv, BlocksAreCurrent, ReceiverPhase, Lockstep, txVars
  <1>9. SenderPhase' /\ AckMeans'
    BY <1>1, <1>2, <1>5, <1>6 DEF LineInv, SenderPhase, AckMeans, txVars
  <1>10. OneAtATime'
    <2>1. tpc \in Running => AtMostOne(toRx', Blocks)
      BY <1>2, <1>3, NoneIsAtMostOne
    <2> QED
      BY <1>3, <1>5, <1>6, <2>1 DEF OneAtATime, txVars
  <1> QED
    BY <1>7, <1>8, <1>9, <1>10 DEF LineInv

\* The receiver's timers run out, and its purge ends.
LEMMA RxTimerKeeps ==
  ASSUME Prompt, LineInv, RxTimer, UNCHANGED txVars
  PROVE  LineInv'
  <1>1. /\ toRx = <<>> /\ toRx \in Seq(Frame) /\ (toTx = <<>> \/ tpc = "idle")
        /\ \A S : NoneOf(toRx, S)
        /\ toTx = <<>> => NoneOf(toTx, Asks)
    BY EmptyHasNone DEF RxTimer, NothingForRx, NoneOf, LineInv, TypeOK, LineTypeOK
  <1>2. CASE RxNoAnswerToC
    <2>1. \E c \in {"C", "NAK"} : Reply1(toTx, c)
      BY <1>2 DEF RxNoAnswerToC
    <2>2. /\ rpc \notin RxEnded \cup {"idle"} /\ rpc' \in {"negC", "negN", "poll"}
          /\ rtries' \in 0..CTries /\ rerrs' \in 0..MaxErrors
          /\ UNCHANGED <<rblk, rbuf, rfile, strays, toRx>>
      BY <1>2, ReceiverAssumption DEF RxNoAnswerToC, RxEnded, LineInv, TypeOK, RxTypeOK
    <2>3. rcrc' \in BOOLEAN
      BY <1>2, Zenon DEF RxNoAnswerToC, LineInv, TypeOK, RxTypeOK
    <2> QED
      BY <1>1, <2>1, <2>2, <2>3, RxAskKeeps
  <1>3. CASE RxNoAnswerToNak
    <2>1. rpc = "negN" /\ rerrs' = rerrs + 1 /\ rerrs \in 0..MaxErrors
      BY <1>3 DEF RxNoAnswerToNak, LineInv, TypeOK, RxTypeOK, RxEnded
    <2>2. CASE rerrs' <= MaxErrors
      <3>1. /\ Reply1(toTx, "NAK")
            /\ UNCHANGED <<rpc, rblk, rcrc, rtries, rbuf, rfile, toRx, strays>>
        BY <1>3, <2>2 DEF RxNoAnswerToNak
      <3>2. rcrc' \in BOOLEAN /\ rtries' \in 0..CTries /\ rerrs' \in 0..MaxErrors
        BY <2>1, <2>2, <3>1, ReceiverAssumption DEF LineInv, TypeOK, RxTypeOK
      <3> QED
        BY <1>1, <2>1, <3>1, <3>2, RxAskKeeps DEF RxEnded
    <2>3. CASE rerrs' > MaxErrors
      <3>1. RxAbort(toRx) /\ rerrs' \in 0..(MaxErrors + 2)
        BY <1>3, <2>1, <2>3, ReceiverAssumption DEF RxNoAnswerToNak
      <3> QED
        BY <2>1, <3>1, RxAbortKeeps DEF RxEnded
    <2> QED
      BY <2>1, <2>2, <2>3, ReceiverAssumption
  <1>4. CASE RxSilence
    <2>1. rpc = "recv" /\ RxError(toRx)
      BY <1>4 DEF RxSilence
    <2>2. tpc \in Running => NoneOf(toTx, Asks)
      BY <1>1 DEF Running
    <2> QED
      BY <1>1, <2>1, <2>2, RxErrorKeeps
  <1> QED
    BY <1>2, <1>3, <1>4 DEF RxTimer

LEMMA RxQuietKeeps ==
  ASSUME Prompt, LineInv, RxQuiet, UNCHANGED txVars
  PROVE  LineInv'
  <1>1. /\ rpc = "purge" /\ rpc' = "poll" /\ Reply1(toTx, "NAK") /\ toRx' = <<>>
        /\ toTx = <<>> \/ tpc = "idle"
        /\ UNCHANGED <<rblk, rcrc, rtries, rerrs, rbuf, rfile, strays>>
    BY DEF RxQuiet, RxPurged, Purged
  <1>2. rcrc' \in BOOLEAN /\ rtries' \in 0..CTries /\ rerrs' \in 0..MaxErrors
    BY <1>1 DEF LineInv, TypeOK, RxTypeOK, RxEnded
  <1> QED
    BY <1>1, <1>2, RxAskKeeps DEF RxEnded

-----------------------------------------------------------------------------
(* The sender's steps.                                                     *)

\* Leaving the transfer with an abort, whether a character was read or not.
LEMMA TxAbortKeeps ==
  ASSUME LineInv, TxAbort, UNCHANGED rxVars, tpc \in {"first", "wait", "eot"},
         terrs' \in 0..(MaxResends + 1), UNCHANGED <<tblk, strays>>,
         tcrc' \in BOOLEAN, toTx' \in Seq(Reply)
  PROVE  LineInv'
  <1>1. toRx \in Seq(Frame) /\ Control("CAN") \in Frame /\ Control("CAN").kind = "CAN"
    BY DEF LineInv, TypeOK, LineTypeOK, Frame, FrameKinds, Control
  <1>2. /\ toRx' \in Seq(Frame)
        /\ Range(toRx') \cap Blocks = Range(toRx) \cap Blocks
        /\ NoneOf(toRx, Eots) => NoneOf(toRx', Eots)
    <2>1. Write(Control("CAN"))
      BY DEF TxAbort
    <2> HIDE DEF Write
    <2> QED
      BY <1>1, <2>1, FrameSent DEF BlkKinds
  <1>3. TypeOK'
    BY <1>2 DEF TxAbort, LineInv, TypeOK, RxTypeOK, TxTypeOK, LineTypeOK, TxPc, TxEnded, rxVars
  <1>4. BlocksAreCurrent' /\ ReceiverPhase'
    BY <1>2 DEF LineInv, BlocksAreCurrent, ReceiverPhase, Lockstep, Older, Rising, Held, rxVars
  <1>5. SenderPhase' /\ AckMeans' /\ OneAtATime'
    BY <1>2 DEF TxAbort, LineInv, SenderPhase, AckMeans, OneAtATime, Running, rxVars
  <1> QED
    BY <1>3, <1>4, <1>5 DEF LineInv

LEMMA TxStartKeeps ==
  ASSUME Prompt, LineInv, TxStart, UNCHANGED rxVars
  PROVE  LineInv'
  <1>1. tpc = "idle" /\ tblk = 1 /\ NoneOf(toRx, Blocks) /\ NoneOf(toRx, Eots)
    BY DEF TxStart, LineInv, SenderPhase, NoneOf
  <1>2. CASE tpc' = "nofile"
    <2>1. UNCHANGED <<tblk, tcrc, terrs, lineVars>>
      BY <1>2 DEF TxStart
    <2>2. TypeOK' /\ BlocksAreCurrent'
      BY <1>1, <1>2, <2>1
      DEF LineInv, TypeOK, RxTypeOK, TxTypeOK, LineTypeOK, TxPc, TxEnded,
        BlocksAreCurrent, lineVars, rxVars
    <2>3. SenderPhase' /\ AckMeans' /\ OneAtATime' /\ ReceiverPhase'
      BY <1>1, <1>2, <2>1
      DEF LineInv, SenderPhase, AckMeans, OneAtATime, ReceiverPhase, Lockstep, Older, Rising, Held, Running,
          lineVars, rxVars
    <2> QED
      BY <2>2, <2>3 DEF LineInv
  <1>3. CASE tpc' = "first"
    <2>1. /\ tblk' = 1 /\ tcrc' = FALSE /\ terrs' = 0 /\ toTx' = <<>>
          /\ UNCHANGED <<toRx, strays>>
      BY <1>3 DEF TxStart, Purged
    <2>2. /\ toTx' \in Seq(Reply) /\ Range(toTx') = {}
          /\ NoneOf(toTx', Asks) /\ AtMostOne(toTx', Asks)
      <3>1. toTx' \in Seq(Reply) /\ Range(toTx') = {}
        BY <2>1, EmptyHasNone, EmptySeq
      <3> QED
        BY <3>1, NoneIsAtMostOne DEF NoneOf
    <2>3. tcrc' \in BOOLEAN
      BY <2>1, Zenon
    <2>4. TypeOK'
      BY <1>3, <2>1, <2>2, <2>3, SenderAssumption
      DEF LineInv, TypeOK, RxTypeOK, TxTypeOK, LineTypeOK, TxPc, TxEnded, rxVars
    <2>5. BlocksAreCurrent' /\ ReceiverPhase'
      BY <1>1, <2>1 DEF LineInv, BlocksAreCurrent, ReceiverPhase, Lockstep, Older, Rising, Held, rxVars
    <2>6. SenderPhase' /\ AckMeans'
      BY <1>1, <1>3, <2>1, <2>2, LineAssumption
      DEF LineInv, SenderPhase, AckMeans, Running, rxVars
    <2>7. OneAtATime'
      <3>1. toRx \in Seq(Frame)
        BY DEF LineInv, TypeOK, LineTypeOK
      <3>2. AtMostOne(toRx', Blocks) /\ NoneOf(toRx', Blocks)
        BY <1>1, <2>1, <3>1, NoneIsAtMostOne
      <3> QED
        BY <2>2, <3>2 DEF OneAtATime
    <2> QED
      BY <2>4, <2>5, <2>6, <2>7 DEF LineInv
  <1> QED
    BY <1>2, <1>3 DEF TxStart

\* What the sender knows when it reads an answer while it sends blocks.
LEMMA AnswerRead ==
  ASSUME LineInv, NEW c \in Reply, Got(c), tpc \in Running
  PROVE  /\ toTx' \in Seq(Reply) /\ Range(toTx') \subseteq Range(toTx)
         /\ AtMostOne(toTx', Asks) /\ AtMostOne(toRx, Blocks)
         /\ NoneOf(toTx, Asks) => NoneOf(toTx', Asks)
         /\ c \in Asks => /\ NoneOf(toRx, Blocks)
                          /\ NoneOf(toTx', Asks)
                          /\ rpc \notin {"idle", "nofile", "purge"}
         /\ c = "ACK" => rpc = "ok" \/ rblk = tblk + 1
  <1>1. toTx # <<>> /\ toTx' = Tail(toTx) /\ toTx \in Seq(Reply) /\ Head(toTx) = c
    BY DEF Got, LineInv, TypeOK, LineTypeOK
  <1>2. /\ toTx' \in Seq(Reply) /\ Range(toTx') \subseteq Range(toTx)
        /\ c \in Range(toTx)
        /\ NoneOf(toTx, Asks) => NoneOf(toTx', Asks)
        /\ AtMostOne(toTx, Asks) => AtMostOne(toTx', Asks)
        /\ AtMostOne(toTx, Asks) /\ c \in Asks => NoneOf(toTx', Asks)
    BY <1>1, ReplyRead
  <1>3. c \in Asks => ~NoneOf(toTx, Asks)
    BY <1>2 DEF NoneOf
  <1>4. AtMostOne(toTx, Asks) /\ AtMostOne(toRx, Blocks)
    BY DEF LineInv, OneAtATime
  <1>5. c \in Asks => /\ NoneOf(toRx, Blocks)
                      /\ rpc \notin {"idle", "nofile", "purge"}
    BY <1>3 DEF LineInv, OneAtATime
  <1>6. c = "ACK" => rpc = "ok" \/ rblk = tblk + 1
    BY <1>2 DEF LineInv, AckMeans
  <1> QED
    BY <1>2, <1>4, <1>5, <1>6

\* Sending the block in memory, for the first time or again.
LEMMA TxSendAgainKeeps ==
  ASSUME Prompt, LineInv, NEW crc \in BOOLEAN, NEW c \in {"C", "NAK"}, Got(c),
         tpc \in Running, TxSendAgain(crc), tcrc' \in BOOLEAN,
         UNCHANGED tblk, UNCHANGED rxVars
  PROVE  LineInv'
  <1>1. c \in Reply /\ c \in Asks /\ UNCHANGED strays
    BY DEF Reply, Asks, Got
  <1>2. /\ toTx' \in Seq(Reply) /\ Range(toTx') \subseteq Range(toTx)
        /\ AtMostOne(toTx', Asks) /\ NoneOf(toRx, Blocks) /\ NoneOf(toTx', Asks)
        /\ rpc \notin {"idle", "nofile", "purge"}
    BY <1>1, AnswerRead
  <1>3. terrs' = terrs + 1 /\ terrs \in 0..MaxResends
    BY DEF TxSendAgain, LineInv, TypeOK, TxTypeOK, Running, TxEnded
  <1>4. CASE terrs' > MaxResends
    <2>1. TxAbort /\ terrs' \in 0..(MaxResends + 1) /\ tpc \in {"first", "wait", "eot"}
      BY <1>3, <1>4, SenderAssumption DEF TxSendAgain, Running
    <2> QED
      BY <1>1, <1>2, <2>1, TxAbortKeeps
  <1>5. CASE terrs' <= MaxResends
    <2> DEFINE f == BlockFrame(tblk, crc)
    <2>1. tpc' = "wait" /\ Write(f) /\ terrs' \in 0..MaxResends
      BY <1>3, <1>5 DEF TxSendAgain
    <2>2. tblk \in 1..NBlocks /\ NoneOf(toRx, Eots)
      BY LineAssumption DEF LineInv, SenderPhase
    <2>3. /\ f \in Frame /\ f.kind = "blk" /\ f.pos = tblk /\ f.num = Low(tblk)
          /\ toRx \in Seq(Frame)
      BY <2>2, LowIsNat, LineAssumption
      DEF BlockFrame, Frame, FrameKinds, LineInv, TypeOK, LineTypeOK
    <2> HIDE DEF f
    <2>4. /\ toRx' \in Seq(Frame) /\ AtMostOne(toRx', Blocks) /\ NoneOf(toRx', Eots)
          /\ \A g \in Range(toRx') \cap Blocks :
                /\ g.pos = tblk /\ g.num = Low(tblk)
                /\ g.kind = "torn" => "header" \in Faults
      <3>1. \A g \in Range(toRx') \cap Blocks : g \notin Range(toRx)
        BY <1>2 DEF NoneOf
      <3> QED
        BY <1>2, <2>1, <2>2, <2>3, <3>1, FrameSent
    <2>5. TypeOK'
      BY <1>1, <1>2, <2>1, <2>4, SenderAssumption
      DEF LineInv, TypeOK, RxTypeOK, TxTypeOK, LineTypeOK, TxPc, TxEnded, rxVars
    <2>6. BlocksAreCurrent' /\ ReceiverPhase'
      BY <2>2, <2>4
      DEF LineInv, BlocksAreCurrent, ReceiverPhase, Lockstep, Older, Rising, Held, rxVars, Low
    <2>7. SenderPhase' /\ AckMeans'
      <3>1. "ACK" \notin Range(toTx')
        BY <1>2 DEF NoneOf, Asks
      <3> QED
        BY <2>1, <2>2, <2>4, <3>1, LineAssumption
        DEF SenderPhase, AckMeans, Running
    <2>8. OneAtATime'
      BY <1>2, <2>1, <2>4 DEF OneAtATime, rxVars
    <2> QED
      BY <2>5, <2>6, <2>7, <2>8 DEF LineInv
  <1> QED
    BY <1>3, <1>4, <1>5, SenderAssumption

\* The next block, or EOT after the last.
LEMMA TxAckKeeps ==
  ASSUME Prompt, LineInv, TxAck, UNCHANGED rxVars
  PROVE  LineInv'
  <1>1. /\ Got("ACK") /\ "ACK" \in Reply /\ "ACK" \in Asks /\ UNCHANGED <<strays, tcrc>>
        /\ tpc \in Running /\ terrs' = 0 /\ tblk' = tblk + 1
    BY DEF TxAck, Got, Reply, Asks, Running
  <1>2. /\ toTx' \in Seq(Reply) /\ Range(toTx') \subseteq Range(toTx)
        /\ AtMostOne(toTx', Asks) /\ NoneOf(toRx, Blocks) /\ NoneOf(toTx', Asks)
        /\ rpc \notin {"idle", "nofile", "purge"} /\ (rpc = "ok" \/ rblk = tblk + 1)
    BY <1>1, AnswerRead
  <1>3. tblk \in 1..NBlocks /\ NoneOf(toRx, Eots) /\ toRx \in Seq(Frame) /\ tcrc \in BOOLEAN
    BY <1>1, LineAssumption DEF LineInv, SenderPhase, TypeOK, TxTypeOK, LineTypeOK
  <1>4. "ACK" \notin Range(toTx')
    BY <1>2 DEF NoneOf, Asks
  <1>5. \A g \in Range(toRx') \cap Blocks : g \notin Range(toRx)
    BY <1>2 DEF NoneOf
  <1>6. rblk' = rblk /\ rpc' = rpc /\ Held' = Held
    BY DEF Held, rxVars
  <1>7. ReceiverPhase'
    BY <1>1, <1>2, <1>6 DEF LineInv, ReceiverPhase, Lockstep, Older, Rising
  <1>8. CASE tblk < NBlocks /\ tpc' = "wait" /\ Write(BlockFrame(tblk + 1, tcrc))
    <2> DEFINE f == BlockFrame(tblk + 1, tcrc)
    <2>1. /\ f \in Frame /\ f.kind = "blk" /\ f.pos = tblk' /\ f.num = Low(tblk')
          /\ tblk' \in 1..NBlocks
      BY <1>1, <1>3, <1>8, LowIsNat, LineAssumption DEF BlockFrame, Frame, FrameKinds
    <2>2. Write(f)
      BY <1>8
    <2> HIDE DEF f
    <2>3. /\ toRx' \in Seq(Frame) /\ AtMostOne(toRx', Blocks) /\ NoneOf(toRx', Eots)
          /\ \A g \in Range(toRx') \cap Blocks :
                /\ g.pos = f.pos /\ g.num = f.num
                /\ g.kind = "torn" => "header" \in Faults
      BY <1>2, <1>3, <1>5, <2>1, <2>2, FrameSent
    <2>4. TypeOK'
      BY <1>1, <1>2, <1>3, <1>8, <2>1, <2>3, SenderAssumption
      DEF LineInv, TypeOK, RxTypeOK, TxTypeOK, LineTypeOK, TxPc, TxEnded, rxVars
    <2>5. BlocksAreCurrent'
      <3>1. Low(tblk)' = Low(tblk')
        BY DEF Low
      <3> QED
        BY <2>1, <2>3, <3>1 DEF BlocksAreCurrent
    <2>6. SenderPhase' /\ AckMeans' /\ OneAtATime'
      BY <1>2, <1>4, <1>8, <2>1, <2>3, LineAssumption
      DEF SenderPhase, AckMeans, OneAtATime, Running, rxVars
    <2> QED
      BY <1>7, <2>4, <2>5, <2>6 DEF LineInv
  <1>9. CASE tpc' = "eot" /\ Write(Control("EOT"))
    <2> DEFINE f == Control("EOT")
    <2>1. f \in Frame /\ f.kind = "EOT" /\ f.kind \notin BlkKinds
      BY DEF Control, Frame, FrameKinds, BlkKinds
    <2>2. Write(f)
      BY <1>9
    <2> HIDE DEF f
    <2>3. toRx' \in Seq(Frame) /\ NoneOf(toRx', Blocks)
      BY <1>2, <1>3, <2>1, <2>2, FrameSent
    <2>4. tblk' \in 1..(NBlocks + 1)
      BY <1>1, <1>3, LineAssumption
    <2>5. TypeOK'
      BY <1>1, <1>2, <1>3, <1>9, <2>3, SenderAssumption
      DEF LineInv, TypeOK, RxTypeOK, TxTypeOK, LineTypeOK, TxPc, TxEnded, rxVars
    <2>6. BlocksAreCurrent'
      BY <2>3 DEF BlocksAreCurrent, NoneOf
    <2>7. SenderPhase' /\ AckMeans' /\ OneAtATime'
      BY <1>4, <1>9, <2>3, <2>4, LineAssumption
      DEF SenderPhase, AckMeans, OneAtATime, Running
    <2> QED
      BY <1>7, <2>5, <2>6, <2>7 DEF LineInv
  <1> QED
    BY <1>8, <1>9 DEF TxAck

\* An answer that changes nothing but where the sender waits.
LEMMA TxOtherKeeps ==
  ASSUME LineInv, TxOther, UNCHANGED rxVars
  PROVE  LineInv'
  <1>1. PICK c \in {"C", "junk"} : Got(c)
    BY DEF TxOther
  <1>2. /\ c \in Reply /\ tpc \in Running /\ tpc' = "first"
        /\ UNCHANGED <<tblk, tcrc, terrs, toRx, strays>>
    BY <1>1 DEF TxOther, Reply, Running, Got
  <1>3. /\ toTx' \in Seq(Reply) /\ Range(toTx') \subseteq Range(toTx)
        /\ AtMostOne(toTx', Asks) /\ AtMostOne(toRx, Blocks)
        /\ NoneOf(toTx, Asks) => NoneOf(toTx', Asks)
    BY <1>1, <1>2, AnswerRead
  <1>4. TypeOK' /\ BlocksAreCurrent' /\ ReceiverPhase'
    BY <1>2, <1>3
    DEF LineInv, TypeOK, RxTypeOK, TxTypeOK, LineTypeOK, TxPc, TxEnded, Running,
        BlocksAreCurrent, ReceiverPhase, Lockstep, Older, Rising, Held, rxVars
  <1>5. SenderPhase' /\ AckMeans'
    BY <1>2, <1>3 DEF LineInv, SenderPhase, AckMeans, Running, rxVars
  <1>6. OneAtATime'
    BY <1>2, <1>3 DEF LineInv, OneAtATime, rxVars
  <1> QED
    BY <1>4, <1>5, <1>6 DEF LineInv

LEMMA TxCanKeeps ==
  ASSUME LineInv, TxCan, UNCHANGED rxVars
  PROVE  LineInv'
  <1>1. /\ TxAbort /\ UNCHANGED <<tblk, tcrc, terrs, strays>>
        /\ tpc \in {"first", "wait", "eot"}
        /\ toTx # <<>> /\ toTx' = Tail(toTx) /\ toTx \in Seq(Reply)
    BY DEF Running, TxCan, Got, LineInv, TypeOK, LineTypeOK
  <1>2. toTx' \in Seq(Reply) /\ tcrc' \in BOOLEAN /\ terrs' \in 0..(MaxResends + 1)
    BY <1>1, ReplyRead DEF LineInv, TypeOK, TxTypeOK
  <1> QED
    BY <1>1, <1>2, TxAbortKeeps

\* BREAK, or 59 seconds of silence.
LEMMA TxGiveUpKeeps ==
  ASSUME LineInv, TxBreak \/ TxSilence, UNCHANGED rxVars
  PROVE  LineInv'
  <1>1. /\ TxAbort /\ UNCHANGED <<tblk, tcrc, terrs, toTx, strays>>
        /\ tpc \in {"first", "wait", "eot"}
    BY DEF TxBreak, TxSilence
  <1>2. toTx' \in Seq(Reply) /\ tcrc' \in BOOLEAN /\ terrs' \in 0..(MaxResends + 1)
    BY <1>1 DEF LineInv, TypeOK, TxTypeOK, LineTypeOK
  <1> QED
    BY <1>1, <1>2, TxAbortKeeps

\* The answers to EOT: the end, or EOT once more.
LEMMA TxEotKeeps ==
  ASSUME LineInv, TxEotAck \/ TxEotAgain, UNCHANGED rxVars
  PROVE  LineInv'
  <1>1. /\ tpc = "eot" /\ UNCHANGED <<tblk, tcrc, terrs, strays>>
        /\ toTx # <<>> /\ toTx' = Tail(toTx) /\ toTx \in Seq(Reply) /\ toRx \in Seq(Frame)
    BY DEF TxEotAck, TxEotAgain, Got, txVars, LineInv, TypeOK, LineTypeOK
  <1>2. /\ toTx' \in Seq(Reply) /\ Range(toTx') \subseteq Range(toTx)
        /\ Head(toTx) \in Range(toTx)
    BY <1>1, ReplyRead
  <1>3. /\ NoneOf(toRx, Blocks)
        /\ "ACK" \in Range(toTx) => rpc = "ok"
    BY <1>1 DEF LineInv, SenderPhase, AckMeans
  <1>4. ReceiverPhase'
    BY <1>1 DEF LineInv, ReceiverPhase, Lockstep, Older, Rising, Held, rxVars
  <1>5. CASE TxEotAck
    <2>1. tpc' = "ok" /\ UNCHANGED toRx /\ rpc = "ok"
      BY <1>2, <1>3, <1>5 DEF TxEotAck, Got
    <2>2. TypeOK'
      BY <1>1, <1>2, <2>1
      DEF LineInv, TypeOK, RxTypeOK, TxTypeOK, LineTypeOK, TxPc, TxEnded, rxVars
    <2>3. BlocksAreCurrent' /\ SenderPhase' /\ AckMeans' /\ OneAtATime'
      BY <1>1, <2>1
      DEF LineInv, BlocksAreCurrent, SenderPhase, AckMeans, OneAtATime, Running, rxVars
    <2> QED
      BY <1>4, <2>2, <2>3 DEF LineInv
  <1>6. CASE TxEotAgain
    <2> DEFINE f == Control("EOT")
    <2>1. f \in Frame /\ f.kind = "EOT" /\ f.kind \notin BlkKinds
      BY DEF Control, Frame, FrameKinds, BlkKinds
    <2>2. Write(f) /\ UNCHANGED tpc
      BY <1>6 DEF TxEotAgain, txVars
    <2> HIDE DEF f
    <2>3. toRx' \in Seq(Frame) /\ NoneOf(toRx', Blocks)
      BY <1>1, <1>3, <2>1, <2>2, FrameSent
    <2>4. TypeOK'
      BY <1>1, <1>2, <2>2, <2>3
      DEF LineInv, TypeOK, RxTypeOK, TxTypeOK, LineTypeOK, TxPc, TxEnded, rxVars
    <2>5. BlocksAreCurrent'
      BY <2>3 DEF BlocksAreCurrent, NoneOf
    <2>6. SenderPhase' /\ AckMeans' /\ OneAtATime'
      BY <1>1, <1>2, <1>3, <2>2, <2>3
      DEF LineInv, SenderPhase, AckMeans, OneAtATime, Running, rxVars
    <2> QED
      BY <1>4, <2>4, <2>5, <2>6 DEF LineInv
  <1> QED
    BY <1>5, <1>6

LEMMA TxTerminalKeeps ==
  ASSUME LineInv, TxTerminal, UNCHANGED rxVars
  PROVE  LineInv'
  <1>1. /\ tpc \in {"idle"} \cup TxEnded /\ UNCHANGED <<tpc, tblk, tcrc, terrs, toRx, strays>>
        /\ toTx # <<>> /\ toTx' = Tail(toTx) /\ toTx \in Seq(Reply)
    BY DEF TxTerminal, txVars, LineInv, TypeOK, LineTypeOK
  <1>2. toTx' \in Seq(Reply)
    BY <1>1, ReplyRead
  <1>3. TypeOK' /\ BlocksAreCurrent' /\ ReceiverPhase'
    BY <1>1, <1>2
    DEF LineInv, TypeOK, RxTypeOK, TxTypeOK, LineTypeOK, BlocksAreCurrent,
        ReceiverPhase, Lockstep, Older, Rising, Held, rxVars
  <1>4. SenderPhase' /\ AckMeans' /\ OneAtATime'
    BY <1>1 DEF LineInv, SenderPhase, AckMeans, OneAtATime, Running, TxEnded, rxVars
  <1> QED
    BY <1>3, <1>4 DEF LineInv

-----------------------------------------------------------------------------
\* A character nobody wrote is no block, no EOT and no answer.
LEMMA NoiseKeeps ==
  ASSUME LineInv, Noise, UNCHANGED <<rxVars, txVars>>
  PROVE  LineInv'
  <1> DEFINE j == Control("junk")
  <1>1. /\ j \in Frame /\ j \notin Blocks /\ j \notin Eots
        /\ "junk" \in Reply /\ "junk" \notin Asks /\ "junk" # "ACK"
        /\ toRx \in Seq(Frame) /\ toTx \in Seq(Reply) /\ <<j>> \in Seq(Frame)
        /\ <<"junk">> \in Seq(Reply)
    BY DEF Control, Frame, FrameKinds, Blocks, BlkKinds, Eots, Reply, Asks, LineInv,
           TypeOK, LineTypeOK
  <1>2. strays' \in 0..MaxStrays /\ strays' = strays + 1
    BY LineAssumption DEF Noise, StrayToRx, StrayToTx, LineInv, TypeOK, LineTypeOK
  <1>3. \/ toRx' = toRx \o <<j>> /\ UNCHANGED toTx
        \/ toTx' = toTx \o <<"junk">> /\ UNCHANGED toRx
    <2>1. Append(toRx, j) = toRx \o <<j>> /\ Append(toTx, "junk") = toTx \o <<"junk">>
      BY <1>1, AppendIsConcat
    <2> QED
      BY <2>1 DEF Noise, StrayToRx, StrayToTx
  <1> HIDE DEF j
  <1>4. /\ Range(<<j>>) = {j} /\ NoneOf(<<j>>, Blocks) /\ NoneOf(<<j>>, Eots)
        /\ Range(<<"junk">>) = {"junk"} /\ NoneOf(<<"junk">>, Asks)
    BY <1>1, RangeOfSingle DEF NoneOf
  <1>5. /\ toRx' \in Seq(Frame)
        /\ Range(toRx') \cap Blocks = Range(toRx) \cap Blocks
        /\ NoneOf(toRx, Blocks) => NoneOf(toRx', Blocks)
        /\ NoneOf(toRx, Eots) => NoneOf(toRx', Eots)
        /\ NoneOf(toRx, Blocks \cup Eots) => NoneOf(toRx', Blocks \cup Eots)
        /\ AtMostOne(toRx, Blocks) => AtMostOne(toRx', Blocks)
    <2>1. CASE toRx' = toRx
      BY <1>1, <2>1
    <2>2. CASE toRx' = toRx \o <<j>>
      <3> DEFINE r == <<j>>
      <3>1. r \in Seq(Frame) /\ Range(r) = {j} /\ NoneOf(r, Blocks) /\ toRx' = toRx \o r
        BY <1>1, <1>4, <2>2
      <3> HIDE DEF r
      <3>2. toRx' \in Seq(Frame) /\ Range(toRx') = Range(toRx) \cup {j}
        BY <1>1, <3>1, Behind
      <3>3. AtMostOne(toRx, Blocks) => AtMostOne(toRx', Blocks)
        BY <1>1, <3>1, Behind
      <3> QED
        BY <1>1, <3>2, <3>3 DEF NoneOf
    <2> QED
      BY <1>3, <2>1, <2>2
  <1>6. /\ toTx' \in Seq(Reply)
        /\ "ACK" \in Range(toTx') => "ACK" \in Range(toTx)
        /\ NoneOf(toTx, Asks) => NoneOf(toTx', Asks)
        /\ AtMostOne(toTx, Asks) => AtMostOne(toTx', Asks)
    <2>1. CASE toTx' = toTx
      BY <1>1, <2>1
    <2>2. CASE toTx' = toTx \o <<"junk">>
      <3> DEFINE r == <<"junk">>
      <3>1. r \in Seq(Reply) /\ Range(r) = {"junk"} /\ NoneOf(r, Asks) /\ toTx' = toTx \o r
        BY <1>1, <1>4, <2>2
      <3> HIDE DEF r
      <3>2. toTx' \in Seq(Reply) /\ Range(toTx') = Range(toTx) \cup {"junk"}
        BY <1>1, <3>1, Behind
      <3>3. AtMostOne(toTx, Asks) => AtMostOne(toTx', Asks)
        BY <1>1, <3>1, Behind
      <3> QED
        BY <1>1, <3>2, <3>3 DEF NoneOf
    <2> QED
      BY <1>3, <2>1, <2>2
  <1>7. TypeOK' /\ BlocksAreCurrent' /\ ReceiverPhase'
    BY <1>2, <1>5, <1>6
    DEF LineInv, TypeOK, RxTypeOK, TxTypeOK, LineTypeOK, BlocksAreCurrent,
        ReceiverPhase, Lockstep, Older, Rising, Held, rxVars, txVars
  <1>8. SenderPhase' /\ AckMeans' /\ OneAtATime'
    BY <1>5, <1>6 DEF LineInv, SenderPhase, AckMeans, OneAtATime, rxVars, txVars
  <1> QED
    BY <1>7, <1>8 DEF LineInv

LEMMA StutterKeeps ==
  ASSUME LineInv, UNCHANGED vars
  PROVE  LineInv'
  <1>1. TypeOK' /\ BlocksAreCurrent' /\ ReceiverPhase'
    BY DEF vars, rxVars, txVars, lineVars, LineInv, TypeOK, RxTypeOK, TxTypeOK, LineTypeOK,
        BlocksAreCurrent, ReceiverPhase, Lockstep, Older, Rising, Held
  <1>2. SenderPhase' /\ AckMeans' /\ OneAtATime'
    BY DEF vars, rxVars, txVars, lineVars, LineInv, SenderPhase, AckMeans, OneAtATime
  <1> QED
    BY <1>1, <1>2 DEF LineInv

LEMMA LineNext ==
  ASSUME Prompt, LineInv, [Next]_vars
  PROVE  LineInv'
  <1>1. CASE (RxStart \/ RxBreak \/ RxStep) /\ UNCHANGED txVars
    <2>1. CASE RxBreak
      <3>1. RxAbort(toRx) /\ rpc \notin RxEnded /\ rerrs' \in 0..(MaxErrors + 2)
        BY <2>1 DEF RxBreak, RxEnded, LineInv, TypeOK, RxTypeOK
      <3> QED
        BY <1>1, <3>1, RxAbortKeeps
    <2> QED
      BY <1>1, <2>1, RxStartKeeps, RxMoveKeeps, RxDataKeeps, RxDuplicateKeeps,
         RxRejectKeeps, RxSkipKeeps, RxCancelKeeps, RxEotKeeps, RxTimerKeeps, RxQuietKeeps
      DEF RxStep
  <1>2. CASE (TxStart \/ TxBreak \/ TxStep) /\ UNCHANGED rxVars
    <2>1. CASE TxC
      <3>1. /\ Got("C") /\ TxSendAgain(TRUE) /\ tpc \in Running /\ UNCHANGED tblk
            /\ tcrc' \in BOOLEAN
        BY <2>1 DEF TxC, Running
      <3> QED
        BY <1>2, <3>1, TxSendAgainKeeps
    <2>2. CASE TxNak
      <3>1. /\ Got("NAK") /\ TxSendAgain(tcrc) /\ tpc \in Running /\ UNCHANGED tblk
            /\ tcrc \in BOOLEAN /\ tcrc' \in BOOLEAN
        BY <2>2 DEF TxNak, Running, LineInv, TypeOK, TxTypeOK
      <3> QED
        BY <1>2, <3>1, TxSendAgainKeeps
    <2> QED
      BY <1>2, <2>1, <2>2, TxStartKeeps, TxAckKeeps, TxCanKeeps, TxOtherKeeps,
         TxEotKeeps, TxGiveUpKeeps, TxTerminalKeeps
      DEF TxStep, TxTimer
  <1>3. CASE Noise /\ UNCHANGED <<rxVars, txVars>>
    BY <1>3, NoiseKeeps
  <1>4. CASE UNCHANGED vars
    BY <1>4, StutterKeeps
  <1> QED
    BY <1>1, <1>2, <1>3, <1>4 DEF Next

-----------------------------------------------------------------------------
\* On a prompt line LineInv holds in every reachable state, whatever the disks
\* do and whatever else the line makes up: a block on its way, or an answer to
\* one, is the only thing on it that matters.
THEOREM LineInvariance ==
  ASSUME Prompt
  PROVE  Spec => []LineInv
  <1>1. LineInv /\ [Next]_vars => LineInv'
    BY LineNext
  <1> QED
    BY StartsInOrder, <1>1, PTL DEF Spec

\* A disk that fails may lose blocks, and a torn block that reads as an EOT may
\* end the download early, but no block is ever stored twice or in front of an
\* earlier one.
THEOREM NeverTwice ==
  ASSUME Prompt
  PROVE  Spec => []Rising
  <1>1. LineInv => Rising
    BY DEF LineInv, ReceiverPhase
  <1> QED
    BY LineInvariance, <1>1, PTL

\* Whatever the disks and the line do, the uploading user reads that all went
\* well only when the downloading user does.
THEOREM SenderHasAnswer ==
  ASSUME Prompt
  PROVE  Spec => []ConfirmedByReceiver
  <1>1. LineInv => ConfirmedByReceiver
    BY DEF LineInv, SenderPhase, ConfirmedByReceiver
  <1> QED
    BY LineInvariance, <1>1, PTL

-----------------------------------------------------------------------------
(* With working disks and no torn block that reads as an EOT nothing is    *)
(* missing, either.                                                        *)

LEMMA WholeInit == Init => WholeInv
  <1> SUFFICES ASSUME Init PROVE WholeInv
    OBVIOUS
  <1>1. Held = FirstBlocks(0) /\ NoneOf(toRx, Eots)
    BY EmptyHasNone, EmptySeq, ConcatEmptySeq, FirstBlocksGrow
    DEF Init, RxInit, LineInit, Held, NoneOf
  <1> QED
    BY <1>1 DEF Init, RxInit, TxInit, WholeInv, Lockstep, EotIsLast, NothingMissing

\* The receiver reads, waits or asks, and keeps what it has.
LEMMA IdlingKeepsWhole ==
  ASSUME IInv, LineInv', UNCHANGED <<rblk, rbuf, rfile>>, UNCHANGED txVars,
         NoneOf(toRx, Eots) => NoneOf(toRx', Eots),
         \/ rpc' = rpc
         \/ rpc \notin RxEnded /\ rpc' \notin {"ok", "aborted"}
  PROVE  WholeInv'
  <1>1. Lockstep' /\ EotIsLast'
    BY DEF IInv, WholeInv, Lockstep, EotIsLast, txVars
  <1>2. NothingMissing'
    BY DEF IInv, WholeInv, NothingMissing, Held, RxEnded
  <1> QED
    BY <1>1, <1>2 DEF WholeInv

LEMMA AbortKeepsWhole ==
  ASSUME SafeLine, IInv, LineInv', NEW q, RxAbort(q), UNCHANGED txVars
  PROVE  WholeInv'
  <1>1. toRx' = <<>> /\ rpc' = "aborted" /\ rfile' = <<>> /\ rblk' = rblk
    BY DEF RxAbort, SafeLine, Purged
  <1>2. NoneOf(toRx', Eots)
    BY <1>1, EmptyHasNone DEF NoneOf
  <1> QED
    BY <1>1, <1>2
    DEF IInv, WholeInv, Lockstep, EotIsLast, NothingMissing, txVars

\* Adding the expected block.
LEMMA StoreAppends ==
  ASSUME SafeLine, IInv, NEW pos \in Nat, Store(pos)
  PROVE  Held' = Append(Held, pos)
  <1>1. rbuf \in Seq(Nat) /\ rfile \in Seq(Nat)
    BY DEF IInv, LineInv, TypeOK, RxTypeOK
  <1>2. CASE rbuf' = Append(rbuf, pos) /\ rfile' = rfile
    BY <1>1, <1>2 DEF Held
  <1>3. CASE rbuf' = <<pos>> /\ rfile' = rfile \o rbuf
    BY <1>1, <1>3 DEF Held
  <1> QED
    BY <1>2, <1>3 DEF Store, SafeLine

\* The block that was waited for is the first one that was missing.
LEMMA DataIsNext ==
  ASSUME IInv, RxData
  PROVE  /\ rblk = tblk /\ tblk \in 1..NBlocks
         /\ Store(rblk)
         /\ NoneOf(toRx, Eots) => NoneOf(toRx', Eots)
  <1> DEFINE f == Head(toRx)
  <1>1. /\ f \in Range(toRx) \cap Frame /\ f.kind = "blk" /\ IsExpected(f)
        /\ rpc = "recv" /\ Store(f.pos)
        /\ NoneOf(toRx, Eots) => NoneOf(toRx', Eots)
    BY FrameRead DEF RxData, Receiving, IInv, LineInv, TypeOK, LineTypeOK
  <1> HIDE DEF f
  <1>2. f.pos = tblk /\ tblk = rblk /\ tblk <= NBlocks
    BY <1>1, NumberTells DEF IInv
  <1> QED
    BY <1>1, <1>2, LineAssumption DEF IInv, LineInv, SenderPhase

LEMMA DataKeepsWhole ==
  ASSUME SafeLine, IInv, LineInv', RxData, UNCHANGED txVars
  PROVE  WholeInv'
  <1>1. rpc = "recv" /\ rpc' = "poll" /\ rblk' = rblk + 1
    BY DEF RxData, Receiving
  <1>2. /\ rblk = tblk /\ tblk \in 1..NBlocks /\ Store(rblk)
        /\ NoneOf(toRx, Eots) => NoneOf(toRx', Eots)
    BY DataIsNext
  <1>3. PICK n \in Nat : rblk = n + 1 /\ rblk - 1 = n /\ rblk' - 1 = n + 1
    BY <1>1, <1>2, LineAssumption
  <1>4. Held = FirstBlocks(n)
    BY <1>1, <1>3 DEF IInv, WholeInv, NothingMissing
  <1>5. Held' = Append(Held, n + 1)
    BY <1>2, <1>3, StoreAppends
  <1>6. Held' = FirstBlocks(rblk' - 1)
    BY <1>3, <1>4, <1>5, FirstBlocksGrow
  <1>7. Lockstep' /\ NothingMissing'
    BY <1>1, <1>2, <1>6 DEF Lockstep, NothingMissing, txVars
  <1>8. EotIsLast'
    BY <1>1, <1>2, LineAssumption DEF IInv, WholeInv, EotIsLast, txVars
  <1> QED
    BY <1>7, <1>8 DEF WholeInv

\* An EOT is a real one, so everything was stored.
LEMMA EotIsReal ==
  ASSUME SafeLine, IInv, Receiving, ReadsAsEot(Head(toRx))
  PROVE  rblk = NBlocks + 1
  <1>1. Head(toRx) \in Range(toRx) \cap Frame
    BY TailOf DEF Receiving, IInv, LineInv, TypeOK, LineTypeOK
  <1>2. CASE Head(toRx).kind = "EOT"
    <2>1. ~NoneOf(toRx, Eots)
      BY <1>1, <1>2 DEF NoneOf, Eots
    <2> QED
      BY <2>1 DEF IInv, WholeInv, EotIsLast
  <1>3. CASE Head(toRx).kind = "torn"
    <2>1. Head(toRx) \in Range(toRx) \cap Blocks
      BY <1>1, <1>3 DEF Blocks, BlkKinds
    <2>2. Head(toRx).pos \in 1..NBlocks /\ "header" \in Faults
      BY <1>3, <2>1, LineAssumption DEF IInv, LineInv, BlocksAreCurrent, SenderPhase
    <2>3. Scan[Head(toRx).pos] # "EOT"
      BY <2>2 DEF SafeLine
    <2> QED
      BY <1>3, <2>3 DEF ReadsAsEot
  <1> QED
    BY <1>2, <1>3 DEF ReadsAsEot

LEMMA EotKeepsWhole ==
  ASSUME SafeLine, IInv, LineInv', RxEot, UNCHANGED txVars
  PROVE  WholeInv'
  <1>1. /\ rpc = "recv" /\ rpc' = "ok" /\ rbuf' = <<>> /\ rfile' = rfile \o rbuf
        /\ rblk' = rblk
    BY DEF RxEot, Receiving, Flush, SafeLine
  <1>2. rblk = NBlocks + 1
    BY EotIsReal DEF RxEot
  <1>3. rfile \in Seq(Nat) /\ rbuf \in Seq(Nat)
    BY DEF IInv, LineInv, TypeOK, RxTypeOK
  <1>4. Held' = Held
    BY <1>1, <1>3 DEF Held
  <1> QED
    BY <1>1, <1>2, <1>4
    DEF IInv, WholeInv, Lockstep, EotIsLast, NothingMissing, txVars

\* A download begins with nothing.
LEMMA StartKeepsWhole ==
  ASSUME IInv, LineInv', RxStart, UNCHANGED txVars
  PROVE  WholeInv'
  <1>1. CASE rpc' = "nofile" /\ UNCHANGED <<rblk, rbuf, rfile, toRx>>
    BY <1>1, IdlingKeepsWhole DEF RxStart, RxEnded
  <1>2. CASE /\ rpc' = "negC" /\ rblk' = 1 /\ rbuf' = <<>> /\ rfile' = <<>>
             /\ UNCHANGED toRx
    <2>1. rblk = 1
      BY DEF RxStart, IInv, LineInv, ReceiverPhase
    <2>2. Held' = FirstBlocks(0)
      BY <1>2, FirstBlocksGrow, ConcatEmptySeq, EmptySeq DEF Held
    <2> QED
      BY <1>2, <2>1, <2>2
      DEF IInv, WholeInv, Lockstep, EotIsLast, NothingMissing, txVars
  <1> QED
    BY <1>1, <1>2 DEF RxStart, lineVars

LEMMA RxKeepsWhole ==
  ASSUME SafeLine, IInv, LineInv', RxStart \/ RxBreak \/ RxStep, UNCHANGED txVars
  PROVE  WholeInv'
  <1>1. CASE \E q : RxAbort(q)
    BY <1>1, AbortKeepsWhole
  <1>2. CASE RxCharReady \/ RxPoll
    BY <1>2, IdlingKeepsWhole DEF RxCharReady, RxPoll, RxEnded, lineVars
  <1>3. CASE RxDuplicate \/ RxSkip \/ RxTerminal
    <2>1. /\ UNCHANGED <<rblk, rbuf, rfile>>
          /\ rpc' = rpc \/ (rpc = "recv" /\ rpc' = "poll")
          /\ toRx # <<>> /\ toRx' = Tail(toRx)
      BY <1>3 DEF RxDuplicate, RxSkip, RxTerminal, Receiving, rxVars
    <2>2. NoneOf(toRx, Eots) => NoneOf(toRx', Eots)
      BY <2>1, FrameRead DEF IInv, LineInv, TypeOK, LineTypeOK
    <2> QED
      BY <2>1, <2>2, IdlingKeepsWhole DEF RxEnded
  <1>4. CASE RxReject /\ ~\E q : RxAbort(q)
    <2>1. /\ UNCHANGED <<rblk, rbuf, rfile>> /\ rpc = "recv" /\ rpc' = "purge"
          /\ toRx # <<>> /\ toRx' = Tail(toRx)
      BY <1>4 DEF RxReject, RxError, Receiving
    <2>2. NoneOf(toRx, Eots) => NoneOf(toRx', Eots)
      BY <2>1, FrameRead DEF IInv, LineInv, TypeOK, LineTypeOK
    <2> QED
      BY <2>1, <2>2, IdlingKeepsWhole DEF RxEnded
  <1>5. CASE RxTimer /\ ~\E q : RxAbort(q)
    <2>1. /\ UNCHANGED <<rblk, rbuf, rfile, toRx>>
          /\ rpc \in {"negC", "negN", "recv"} /\ rpc' \in {"negC", "negN", "purge"}
      BY <1>5 DEF RxTimer, RxNoAnswerToC, RxNoAnswerToNak, RxSilence, RxError
    <2> QED
      BY <2>1, IdlingKeepsWhole DEF RxEnded
  <1>6. CASE RxQuiet
    <2>1. /\ UNCHANGED <<rblk, rbuf, rfile>> /\ rpc = "purge" /\ rpc' = "poll"
          /\ toRx' = <<>>
      BY <1>6 DEF RxQuiet, RxPurged, SafeLine, Purged
    <2>2. NoneOf(toRx', Eots)
      BY <2>1, EmptyHasNone DEF NoneOf
    <2> QED
      BY <2>1, <2>2, IdlingKeepsWhole DEF RxEnded
  <1>7. RxBreak \/ RxCancel => \E q : RxAbort(q)
    BY DEF RxBreak, RxCancel
  <1> QED
    BY <1>1, <1>2, <1>3, <1>4, <1>5, <1>6, <1>7, StartKeepsWhole, DataKeepsWhole,
       EotKeepsWhole
    DEF RxStep

\* The sender reads, or gives up, and sends no first EOT.
LEMMA SendingKeepsWhole ==
  ASSUME IInv, LineInv', UNCHANGED rxVars, tblk' = tblk,
         tpc' = "eot" => tpc = "eot",
         NoneOf(toRx, Eots) => NoneOf(toRx', Eots)
  PROVE  WholeInv'
  <1>1. Lockstep' /\ EotIsLast'
    BY DEF IInv, WholeInv, Lockstep, EotIsLast, rxVars
  <1>2. NothingMissing'
    BY DEF IInv, WholeInv, NothingMissing, Held, rxVars
  <1> QED
    BY <1>1, <1>2 DEF WholeInv

\* A frame that is no EOT brings none.
LEMMA OtherFrames ==
  ASSUME IInv, NEW f \in Frame, f.kind # "EOT", Write(f)
  PROVE  NoneOf(toRx, Eots) => NoneOf(toRx', Eots)
  BY FrameSent DEF IInv, LineInv, TypeOK, LineTypeOK

LEMMA BlockIsFrame ==
  ASSUME NEW n \in Nat, NEW crc \in BOOLEAN
  PROVE  BlockFrame(n, crc) \in Frame /\ BlockFrame(n, crc).kind = "blk"
  BY LowIsNat DEF BlockFrame, Frame, FrameKinds

LEMMA SendAgainKeepsWhole ==
  ASSUME IInv, LineInv', UNCHANGED rxVars, tblk' = tblk,
         NEW crc \in BOOLEAN, TxSendAgain(crc)
  PROVE  WholeInv'
  <1>1. tpc' \in {"wait", "aborted"}
    BY DEF TxSendAgain, TxAbort
  <1>2. PICK f \in Frame : f.kind # "EOT" /\ Write(f)
    <2>1. /\ BlockFrame(tblk, crc) \in Frame /\ BlockFrame(tblk, crc).kind # "EOT"
          /\ Control("CAN") \in Frame /\ Control("CAN").kind # "EOT"
      BY BlockIsFrame DEF IInv, LineInv, TypeOK, TxTypeOK, Control, Frame, FrameKinds
    <2>2. Write(BlockFrame(tblk, crc)) \/ Write(Control("CAN"))
      BY DEF TxSendAgain, TxAbort
    <2> HIDE DEF Write
    <2> QED
      BY <2>1, <2>2
  <1>3. NoneOf(toRx, Eots) => NoneOf(toRx', Eots)
    BY <1>2, OtherFrames
  <1> QED
    BY <1>1, <1>3, SendingKeepsWhole

LEMMA TxAbortKeepsWhole ==
  ASSUME IInv, LineInv', UNCHANGED rxVars, tblk' = tblk, TxAbort
  PROVE  WholeInv'
  <1>1. Control("CAN") \in Frame /\ Control("CAN").kind # "EOT"
    BY DEF Control, Frame, FrameKinds
  <1>2. Write(Control("CAN")) /\ tpc' = "aborted"
    BY DEF TxAbort
  <1> HIDE DEF Write
  <1>3. NoneOf(toRx, Eots) => NoneOf(toRx', Eots)
    BY <1>1, <1>2, OtherFrames
  <1> QED
    BY <1>2, <1>3, SendingKeepsWhole

\* The block that was acknowledged was stored, and the last one is followed by
\* EOT.
LEMMA AckKeepsWhole ==
  ASSUME SafeLine, IInv, LineInv', TxAck, UNCHANGED rxVars
  PROVE  WholeInv'
  <1>1. /\ Got("ACK") /\ "ACK" \in Reply /\ tpc \in Running /\ tblk' = tblk + 1
    BY DEF TxAck, Got, Reply, Running
  <1>2. rblk = tblk + 1 /\ tblk \in 1..NBlocks /\ NoneOf(toRx, Eots)
    <2>1. rpc = "ok" \/ rblk = tblk + 1
      BY <1>1, AnswerRead DEF IInv
    <2>2. /\ tblk \in 1..NBlocks /\ NoneOf(toRx, Eots) /\ rblk \in {tblk, tblk + 1}
          /\ rpc = "ok" => rblk = NBlocks + 1
      BY <1>1, LineAssumption
      DEF IInv, LineInv, SenderPhase, WholeInv, Lockstep, NothingMissing
    <2> QED
      BY <2>1, <2>2, LineAssumption
  <1>3. Lockstep' /\ NothingMissing'
    <2>1. Lockstep'
      BY <1>1, <1>2 DEF Lockstep, rxVars
    <2>2. NothingMissing'
      BY DEF IInv, WholeInv, NothingMissing, Held, rxVars
    <2> QED
      BY <2>1, <2>2
  <1>4. EotIsLast'
    <2>1. CASE tpc' = "wait" /\ Write(BlockFrame(tblk + 1, tcrc))
      <3>1. BlockFrame(tblk + 1, tcrc) \in Frame /\ BlockFrame(tblk + 1, tcrc).kind # "EOT"
        BY <1>2, BlockIsFrame, LineAssumption DEF IInv, LineInv, TypeOK, TxTypeOK
      <3> HIDE DEF Write
      <3>2. NoneOf(toRx', Eots)
        BY <1>2, <2>1, <3>1, OtherFrames
      <3> QED
        BY <2>1, <3>2 DEF EotIsLast
    <2>2. CASE tblk >= NBlocks
      <3>1. tblk = NBlocks /\ rblk' = NBlocks + 1 /\ tblk' = NBlocks + 1
        BY <1>1, <1>2, <2>2, LineAssumption DEF rxVars
      <3> QED
        BY <3>1 DEF EotIsLast
    <2> QED
      BY <2>1, <2>2 DEF TxAck, SafeLine
  <1> QED
    BY <1>3, <1>4 DEF WholeInv

\* One more EOT.
LEMMA EotAgainKeepsWhole ==
  ASSUME IInv, LineInv', TxEotAgain, UNCHANGED rxVars
  PROVE  WholeInv'
  <1>1. rblk' = NBlocks + 1 /\ tblk' = NBlocks + 1 /\ rblk = rblk' /\ tblk = tblk'
    BY DEF TxEotAgain, IInv, WholeInv, EotIsLast, rxVars, txVars
  <1>2. NothingMissing'
    BY DEF IInv, WholeInv, NothingMissing, Held, rxVars
  <1> QED
    BY <1>1, <1>2 DEF IInv, WholeInv, Lockstep, EotIsLast

LEMMA TxKeepsWhole ==
  ASSUME SafeLine, IInv, LineInv', TxStart \/ TxBreak \/ TxStep, UNCHANGED rxVars
  PROVE  WholeInv'
  <1>1. CASE TxStart \/ TxOther \/ TxEotAck \/ TxTerminal
    <2>1. UNCHANGED toRx /\ (tpc' = "eot" => tpc = "eot")
      BY <1>1 DEF TxStart, TxOther, TxEotAck, TxTerminal, lineVars, txVars
    <2>2. tblk' = tblk
      BY <1>1
      DEF TxStart, TxOther, TxEotAck, TxTerminal, txVars, IInv, LineInv, SenderPhase
    <2> QED
      BY <2>1, <2>2, SendingKeepsWhole
  <1>2. CASE TxC \/ TxNak
    <2>1. tblk' = tblk /\ \E crc \in {TRUE, tcrc} : TxSendAgain(crc)
      BY <1>2 DEF TxC, TxNak
    <2>2. TRUE \in BOOLEAN /\ tcrc \in BOOLEAN
      BY DEF IInv, LineInv, TypeOK, TxTypeOK
    <2> QED
      BY <2>1, <2>2, SendAgainKeepsWhole
  <1>3. CASE TxCan \/ TxBreak \/ TxTimer
    <2>1. TxAbort /\ tblk' = tblk
      BY <1>3 DEF TxCan, TxBreak, TxTimer, TxSilence
    <2> QED
      BY <2>1, TxAbortKeepsWhole
  <1> QED
    BY <1>1, <1>2, <1>3, AckKeepsWhole, EotAgainKeepsWhole DEF TxStep

LEMMA NoiseKeepsWhole ==
  ASSUME IInv, LineInv', Noise, UNCHANGED <<rxVars, txVars>>
  PROVE  WholeInv'
  <1>1. toRx' = toRx \/ toRx' = toRx \o <<Control("junk")>>
    <2>1. toRx \in Seq(Frame) /\ Control("junk") \in Frame
      BY DEF IInv, LineInv, TypeOK, LineTypeOK, Control, Frame, FrameKinds
    <2>2. Append(toRx, Control("junk")) = toRx \o <<Control("junk")>>
      BY <2>1, AppendIsConcat
    <2> QED
      BY <2>2 DEF Noise, StrayToRx, StrayToTx
  <1> DEFINE r == <<Control("junk")>>
  <1>2. r \in Seq(Frame) /\ NoneOf(r, Eots)
    BY RangeOfSingle DEF Control, Frame, FrameKinds, NoneOf, Eots
  <1> HIDE DEF r
  <1>3. NoneOf(toRx, Eots) => NoneOf(toRx \o r, Eots)
    BY <1>2, Behind DEF NoneOf, IInv, LineInv, TypeOK, LineTypeOK
  <1>4. NoneOf(toRx, Eots) => NoneOf(toRx', Eots)
    BY <1>1, <1>3 DEF r
  <1> QED
    BY <1>4, IdlingKeepsWhole DEF rxVars

LEMMA InvNext ==
  ASSUME SafeLine, IInv, [Next]_vars
  PROVE  IInv'
  <1>1. LineInv'
    BY LineNext DEF SafeLine, IInv
  <1>2. CASE UNCHANGED vars
    BY <1>1, <1>2, IdlingKeepsWhole DEF vars, rxVars, txVars, lineVars, IInv
  <1> QED
    BY <1>1, <1>2, RxKeepsWhole, TxKeepsWhole, NoiseKeepsWhole DEF Next, IInv

\* IInv holds in every reachable state: on a prompt line with working disks no
\* block is missing, and EOT follows the last one.
THEOREM Invariance ==
  ASSUME SafeLine
  PROVE  Spec => []IInv
  <1>1. Init => IInv
    BY StartsInOrder, WholeInit DEF IInv
  <1>2. IInv /\ [Next]_vars => IInv'
    BY InvNext
  <1> QED
    BY <1>1, <1>2, PTL DEF Spec

\* Every variable keeps its type, and no error count passes its limit while the
\* transfer goes on.
THEOREM TypeCorrect ==
  ASSUME Prompt
  PROVE  Spec => []TypeOK
  <1>1. LineInv => TypeOK
    BY DEF LineInv
  <1> QED
    BY LineInvariance, <1>1, PTL

\* However the line mangles blocks and answers, what the receiver has stored is
\* an exact beginning of the file: Sub_39F1's test of one byte of the block
\* number is enough for files of every length.
THEOREM ReceivedInOrder ==
  ASSUME SafeLine
  PROVE  Spec => []HeldIsPrefix
  <1>1. IInv => HeldIsPrefix
    <2> SUFFICES ASSUME IInv, rpc # "aborted"
                 PROVE  Held = FirstBlocks(Len(Held))
      BY DEF HeldIsPrefix
    <2>1. PICK n \in Nat : n = rblk - 1
      BY LineAssumption DEF IInv, LineInv, WholeInv, Lockstep, SenderPhase
    <2>2. Held = FirstBlocks(n)
      BY <2>1 DEF IInv, WholeInv, NothingMissing
    <2> QED
      BY <2>2, FirstBlocksGrow
  <1> QED
    BY Invariance, <1>1, PTL

\* A download that ends without an error has the whole file on disk.
THEOREM NothingIsCutOff ==
  ASSUME SafeLine
  PROVE  Spec => []NoSilentTruncation
  <1>1. IInv => NoSilentTruncation
    <2> SUFFICES ASSUME IInv, rpc = "ok"
                 PROVE  rfile = FirstBlocks(NBlocks)
      BY DEF NoSilentTruncation
    <2>1. /\ rfile \o rbuf = FirstBlocks(rblk - 1) /\ rbuf = <<>>
          /\ rblk - 1 = NBlocks /\ rfile \in Seq(Nat)
      BY LineAssumption DEF IInv, LineInv, WholeInv, NothingMissing, Held, TypeOK, RxTypeOK
    <2>2. rfile \o <<>> = rfile
      BY <2>1, ConcatEmptySeq
    <2> QED
      BY <2>1, <2>2
  <1> QED
    BY Invariance, <1>1, PTL

\* A user whose upload ended well can be sure of the other side.
THEOREM SenderKnows ==
  ASSUME SafeLine
  PROVE  Spec => []SenderBelief
  <1>1. IInv /\ NoSilentTruncation => SenderBelief
    BY DEF IInv, LineInv, SenderPhase, SenderBelief, NoSilentTruncation
  <1> QED
    BY Invariance, NothingIsCutOff, <1>1, PTL

\* No ACK is counted for two blocks.
THEOREM AcksAreCountedOnce ==
  ASSUME SafeLine
  PROVE  Spec => AckedIsStored
  <1>1. IInv /\ [Next]_vars => [tblk' = tblk + 1 => rblk > tblk]_vars
    <2> SUFFICES ASSUME IInv, Next, tblk' = tblk + 1
                 PROVE  rblk > tblk \/ UNCHANGED vars
      OBVIOUS
    <2>1. tblk \in Nat
      BY DEF IInv, LineInv, TypeOK, TxTypeOK
    <2>2. tblk' # tblk
      BY <2>1
    <2>3. CASE TxAck
      <3>1. Got("ACK") /\ "ACK" \in Reply /\ tpc \in Running
        BY <2>3 DEF TxAck, Reply, Running
      <3>2. rpc = "ok" \/ rblk = tblk + 1
        BY <3>1, AnswerRead DEF IInv
      <3>3. tblk <= NBlocks /\ (rpc = "ok" => rblk = NBlocks + 1)
        BY <3>1 DEF IInv, LineInv, SenderPhase, WholeInv, NothingMissing
      <3> QED
        BY <2>1, <3>2, <3>3, LineAssumption
    <2>4. CASE TxStart
      <3>1. tblk = 1 /\ tblk' \in {1, tblk}
        BY <2>4 DEF TxStart, IInv, LineInv, SenderPhase
      <3> QED
        BY <2>2, <3>1
    <2>5. CASE TxBreak \/ (TxStep /\ ~TxAck)
      BY <2>2, <2>5
      DEF TxBreak, TxStep, TxC, TxNak, TxCan, TxOther, TxEotAck, TxEotAgain, TxTerminal,
          TxTimer, TxSilence, txVars
    <2> QED
      BY <2>2, <2>3, <2>4, <2>5 DEF Next, txVars, vars
  <1> QED
    BY Invariance, <1>1, PTL DEF Spec, AckedIsStored

-----------------------------------------------------------------------------
(* The transfer implements FileCopy.                                       *)

\* The file in the receiver's hands.
LEMMA WhatIsHeld ==
  ASSUME IInv, rpc # "aborted"
  PROVE  /\ rbuf \in Seq(Nat) /\ rfile \in Seq(Nat)
         /\ Held = FirstBlocks(rblk - 1) /\ Len(Held) = rblk - 1 /\ rblk \in Nat \ {0}
  <1>1. rbuf \in Seq(Nat) /\ rfile \in Seq(Nat) /\ rblk \in Nat \ {0}
    BY LineAssumption DEF IInv, LineInv, WholeInv, TypeOK, RxTypeOK, SenderPhase, Lockstep
  <1>2. PICK n \in Nat : n = rblk - 1
    BY <1>1
  <1>3. Held = FirstBlocks(n)
    BY <1>2 DEF IInv, WholeInv, NothingMissing
  <1> QED
    BY <1>1, <1>2, <1>3, FirstBlocksGrow

\* Deleting the file is the abstract Fail.
LEMMA AbortFails ==
  ASSUME NEW q, RxAbort(q), rpc \notin RxEnded, UNCHANGED txVars
  PROVE  Copy!Fail
  BY DEF Copy!Fail, RxAbort, CopyHeld, RxTold, TxTold, RxEnded, txVars

\* The receiver's steps.
LEMMA RxCopies ==
  ASSUME SafeLine, IInv, RxStart \/ RxBreak \/ RxStep, UNCHANGED txVars
  PROVE  Copy!Next \/ UNCHANGED Copy!copyVars
  <1>1. UNCHANGED TxTold
    BY DEF TxTold, txVars
  <1>2. CASE RxStart
    <2>1. rpc = "idle" /\ Held = <<>>
      <3>1. rpc = "idle" /\ rblk = 1
        BY <1>2 DEF RxStart, IInv, LineInv, ReceiverPhase
      <3>2. Held = FirstBlocks(0)
        BY <3>1 DEF IInv, WholeInv, NothingMissing
      <3> QED
        BY <3>1, <3>2, FirstBlocksGrow
    <2>2. CASE rpc' = "nofile" /\ UNCHANGED <<rbuf, rfile>>
      BY <1>1, <2>1, <2>2 DEF Copy!Next, Copy!Fail, CopyHeld, RxTold, RxEnded, Held
    <2>3. CASE rpc' = "negC" /\ rbuf' = <<>> /\ rfile' = <<>>
      <3>1. Held' = <<>>
        BY <2>3, ConcatEmptySeq, EmptySeq DEF Held
      <3> QED
        BY <1>1, <2>1, <2>3, <3>1 DEF Copy!copyVars, CopyHeld, RxTold, RxEnded
    <2> QED
      BY <1>2, <2>2, <2>3 DEF RxStart
  <1>3. CASE RxBreak \/ RxCancel
    <2>1. PICK q : RxAbort(q)
      BY <1>3 DEF RxBreak, RxCancel
    <2>2. rpc \notin RxEnded
      BY <1>3 DEF RxBreak, RxCancel, Receiving, RxEnded
    <2> QED
      BY <2>1, <2>2, AbortFails DEF Copy!Next
  <1>4. CASE RxReject \/ RxTimer
    <2>1. rpc \notin RxEnded
      BY <1>4
      DEF RxReject, Receiving, RxTimer, RxNoAnswerToC, RxNoAnswerToNak, RxSilence, RxEnded
    <2>2. CASE \E q : RxAbort(q)
      BY <2>1, <2>2, AbortFails DEF Copy!Next
    <2>3. CASE rpc' \in {"purge", "negC", "negN"} /\ UNCHANGED <<rbuf, rfile>>
      BY <1>1, <2>1, <2>3 DEF Copy!copyVars, CopyHeld, RxTold, RxEnded, Held
    <2> QED
      BY <1>4, <2>2, <2>3
      DEF RxReject, RxTimer, RxNoAnswerToC, RxNoAnswerToNak, RxSilence, RxError
  <1>5. CASE RxData
    <2>1. rpc = "recv" /\ rpc' = "poll"
      BY <1>5 DEF RxData, Receiving
    <2>2. rblk = tblk /\ tblk \in 1..NBlocks /\ Store(rblk)
      BY <1>5, DataIsNext
    <2>3. Len(Held) = rblk - 1 /\ rblk \in Nat \ {0}
      BY <2>1, WhatIsHeld
    <2>4. Held' = Append(Held, rblk)
      BY <2>2, <2>3, StoreAppends
    <2>5. Len(Held) < NBlocks /\ Len(Held) + 1 = rblk
      BY <2>2, <2>3, LineAssumption
    <2> QED
      BY <1>1, <2>1, <2>4, <2>5 DEF Copy!Next, Copy!Deliver, CopyHeld, RxTold, RxEnded
  <1>6. CASE RxEot
    <2>2. rpc = "recv" /\ rpc' = "ok" /\ rbuf' = <<>> /\ rfile' = rfile \o rbuf
          /\ rblk' = rblk
      BY <1>6 DEF RxEot, Receiving, Flush, SafeLine
    <2>3. Held' = Held
      BY <2>2, WhatIsHeld DEF Held
    <2>4. rblk = NBlocks + 1
      BY <1>6, EotIsReal DEF RxEot
    <2>5. Len(Held) = NBlocks
      BY <2>2, <2>4, WhatIsHeld, LineAssumption
    <2> QED
      BY <1>1, <2>2, <2>3, <2>5 DEF Copy!Next, Copy!Complete, CopyHeld, RxTold, RxEnded
  <1>7. CASE RxCharReady \/ RxPoll \/ RxDuplicate \/ RxSkip \/ RxTerminal \/ RxQuiet
    <2>1. UNCHANGED <<rbuf, rfile>>
      BY <1>7
      DEF RxCharReady, RxPoll, RxDuplicate, RxSkip, RxTerminal, RxQuiet, RxPurged, rxVars
    <2>2. \/ UNCHANGED rpc
          \/ {rpc, rpc'} \subseteq {"negC", "negN", "poll", "recv", "purge"}
      BY <1>7
      DEF RxCharReady, RxPoll, RxDuplicate, Receiving, RxSkip, RxTerminal, RxQuiet,
          RxPurged, rxVars
    <2> QED
      BY <1>1, <2>1, <2>2 DEF Copy!copyVars, CopyHeld, RxTold, RxEnded, Held
  <1> QED
    BY <1>2, <1>3, <1>4, <1>5, <1>6, <1>7 DEF RxStep

\* The sender's steps.
LEMMA TxCopies ==
  ASSUME IInv, TxStart \/ TxBreak \/ TxStep, UNCHANGED rxVars
  PROVE  Copy!Next \/ UNCHANGED Copy!copyVars
  <1>1. UNCHANGED <<CopyHeld, RxTold>>
    BY DEF CopyHeld, Held, RxTold, rxVars
  <1>2. CASE TxEotAck
    <2>1. tpc = "eot" /\ tpc' = "ok" /\ "ACK" \in Range(toTx)
      BY <1>2, ReplyRead DEF TxEotAck, Got, IInv, LineInv, TypeOK, LineTypeOK
    <2>2. rpc = "ok"
      BY <2>1 DEF IInv, LineInv, AckMeans
    <2> QED
      BY <1>1, <2>1, <2>2 DEF Copy!Next, Copy!Confirm, RxTold, TxTold, TxEnded
  <1>3. CASE tpc \notin TxEnded /\ tpc' \in {"aborted", "nofile"}
    BY <1>1, <1>3 DEF Copy!Next, Copy!GiveUp, TxTold, TxEnded
  <1>4. CASE \/ UNCHANGED tpc
             \/ {tpc, tpc'} \subseteq {"idle", "first", "wait", "eot"}
    BY <1>1, <1>4 DEF Copy!copyVars, TxTold, TxEnded
  <1>5. TxEotAck \/ (tpc \notin TxEnded /\ tpc' \in {"aborted", "nofile"})
          \/ UNCHANGED tpc \/ {tpc, tpc'} \subseteq {"idle", "first", "wait", "eot"}
    BY DEF TxStart, TxBreak, TxStep, TxC, TxNak, TxAck, TxCan, TxOther, TxEotAgain,
           TxTerminal, TxTimer, TxSilence, TxSendAgain, TxAbort, TxEnded, Running, txVars
  <1> QED
    BY <1>2, <1>3, <1>4, <1>5

\* Two copies of SuperComm and the line between them do what FileCopy promises:
\* the file arrives block by block in order, nobody is told "ok" before the
\* whole of it is on disk, and a transfer that fails leaves no file.
THEOREM TransferImplementsFileCopy ==
  ASSUME SafeLine
  PROVE  Spec => CopySpec
  <1>1. Init => Copy!Init
    <2> SUFFICES ASSUME Init PROVE Copy!Init
      OBVIOUS
    <2>1. Held = <<>>
      BY ConcatEmptySeq, EmptySeq DEF Init, RxInit, Held
    <2> QED
      BY <2>1 DEF Init, RxInit, TxInit, Copy!Init, CopyHeld, RxTold, TxTold, RxEnded, TxEnded
  <1>2. IInv /\ [Next]_vars => [Copy!Next]_(Copy!copyVars)
    <2> SUFFICES ASSUME IInv, [Next]_vars
                 PROVE  Copy!Next \/ UNCHANGED Copy!copyVars
      OBVIOUS
    <2>1. CASE UNCHANGED <<rxVars, txVars>>
      BY <2>1 DEF Copy!copyVars, CopyHeld, Held, RxTold, TxTold, rxVars, txVars
    <2> QED
      BY <2>1, RxCopies, TxCopies DEF Next, vars
  <1> QED
    BY Invariance, <1>1, <1>2, PTL DEF Spec, CopySpec, Copy!Spec

-----------------------------------------------------------------------------
(***************************************************************************)
(* The slow line.  Where timers may run out while an answer is under way,  *)
(* nothing bounds how far sender and receiver drift apart, and the number  *)
(* byte is all that tells blocks apart.  For files of fewer blocks than it *)
(* can count that is enough: a block's number is that of no other block.   *)
(***************************************************************************)
ShortFile == NBlocks < ByteMod /\ "diskwrite" \notin Faults

\* Frames of which an intact block is one of the file under its own number.
Numbered ==
  {f \in Frame : f.kind = "blk" => f.pos \in 1..NBlocks /\ f.num = Low(f.pos)}

SlowInv ==
  /\ rbuf \in Seq(Nat) /\ rfile \in Seq(Nat)
  /\ toRx \in Seq(Numbered)
  /\ tcrc \in BOOLEAN
  /\ tpc \in Running => tblk \in 1..NBlocks
  /\ rblk \in 1..(NBlocks + 1)
  /\ rpc # "aborted" => Held = FirstBlocks(rblk - 1)

LEMMA ShortFilesAreNumbered ==
  ASSUME ShortFile, NEW m \in 1..NBlocks, NEW n \in 1..(NBlocks + 1), Low(m) = Low(n)
  PROVE  m = n
  <1>1. /\ ByteMod \in Nat /\ NBlocks \in Nat /\ NBlocks < ByteMod
        /\ m \in Nat /\ n \in Nat /\ n <= ByteMod /\ m < ByteMod
    BY LineAssumption DEF ShortFile
  <1>2. m % ByteMod = m
    BY <1>1
  <1>3. CASE n < ByteMod
    <2>1. n % ByteMod = n
      BY <1>1, <1>3
    <2> QED
      BY <1>2, <2>1 DEF Low
  <1>4. CASE n = ByteMod
    <2>1. n % ByteMod = 0
      BY <1>1, <1>4
    <2> QED
      BY <1>1, <1>2, <2>1 DEF Low
  <1> QED
    BY <1>1, <1>3, <1>4

LEMMA SlowInit == Init => SlowInv
  <1> SUFFICES ASSUME Init PROVE SlowInv
    OBVIOUS
  <1>1. rbuf = <<>> /\ rfile = <<>> /\ toRx = <<>> /\ rblk = 1 /\ tpc = "idle"
    BY DEF Init, RxInit, LineInit, TxInit
  <1>2. tcrc \in BOOLEAN
    BY Zenon DEF Init, TxInit
  <1>3. Held = FirstBlocks(0)
    BY <1>1, FirstBlocksGrow, EmptySeq, ConcatEmptySeq DEF Held
  <1>4. rbuf \in Seq(Nat) /\ rfile \in Seq(Nat) /\ toRx \in Seq(Numbered)
    BY <1>1, EmptySeq
  <1>5. rblk \in 1..(NBlocks + 1) /\ rblk - 1 = 0 /\ tpc \notin Running
    BY <1>1, LineAssumption DEF Running
  <1> QED
    BY <1>2, <1>3, <1>4, <1>5 DEF SlowInv

\* What may be written, and what becomes of it.
LEMMA WritesNumbered ==
  ASSUME toRx \in Seq(Numbered), NEW f \in Numbered, Write(f)
  PROVE  toRx' \in Seq(Numbered)
  <1> DEFINE bad  == [f EXCEPT !.kind = "bad"]
             torn == [f EXCEPT !.kind = "torn"]
             junk == Control("junk")
  <1>1. bad \in Numbered /\ torn \in Numbered /\ junk \in Numbered
    BY DEF Numbered, Frame, FrameKinds, Control
  <1>2. PICK s \in FrameArrives(f) : toRx' = toRx \o s
    BY DEF Write
  <1>3. s = <<>> \/ \E g \in {f, bad, torn, junk} : s = <<g>>
    BY <1>2 DEF FrameArrives
  <1> HIDE DEF bad, torn, junk
  <1>4. s \in Seq(Numbered)
    <2>1. CASE s = <<>>
      BY <2>1, EmptySeq
    <2>2. CASE \E g \in {f, bad, torn, junk} : s = <<g>>
      <3>1. PICK g \in {f, bad, torn, junk} : s = <<g>>
        BY <2>2
      <3>2. g \in Numbered
        BY <1>1, <3>1
      <3> QED
        BY <3>1, <3>2
    <2> QED
      BY <1>3, <2>1, <2>2
  <1> QED
    BY <1>2, <1>4, ConcatProperties

LEMMA BlocksAreNumbered ==
  ASSUME NEW n \in 1..NBlocks, NEW crc \in BOOLEAN
  PROVE  BlockFrame(n, crc) \in Numbered
  <1>1. n \in Nat /\ Low(n) \in Nat
    BY LineAssumption, LowIsNat
  <1> QED
    BY <1>1 DEF BlockFrame, Numbered, Frame, FrameKinds

LEMMA ControlsAreNumbered ==
  ASSUME NEW k \in {"EOT", "CAN", "junk"}
  PROVE  Control(k) \in Numbered
  BY DEF Control, Numbered, Frame, FrameKinds

\* What is left after a purge.
LEMMA PurgesNumbered ==
  ASSUME NEW q \in Seq(Numbered), NEW r \in Purged(q)
  PROVE  r \in Seq(Numbered)
  <1>1. CASE r = <<>>
    BY <1>1
  <1>2. CASE \E k \in 1..(Len(q) + 1) : r = SubSeq(q, k, Len(q))
    <2>1. PICK k \in 1..(Len(q) + 1) : r = SubSeq(q, k, Len(q))
      BY <1>2
    <2>2. Len(q) \in Nat /\ \A i \in k..Len(q) : i \in 1..Len(q) /\ q[i] \in Numbered
      BY <2>1, LenProperties, ElementOfSeq
    <2> QED
      BY <2>1, <2>2, SubSeqProperties
  <1> QED
    BY <1>1, <1>2 DEF Purged

\* A step of the receiver after which it holds and expects what it did.
LEMMA SlowAbort ==
  ASSUME SlowInv, NEW q \in Seq(Numbered), RxAbort(q), UNCHANGED txVars
  PROVE  SlowInv'
  <1>1. toRx' \in Seq(Numbered)
    BY PurgesNumbered DEF RxAbort
  <1>2. rfile' \in Seq(Nat) /\ rpc' = "aborted"
    BY EmptySeq DEF RxAbort
  <1> QED
    BY <1>1, <1>2 DEF SlowInv, RxAbort, txVars

LEMMA SlowIdling ==
  ASSUME SlowInv, UNCHANGED <<rblk, rbuf, rfile>>, UNCHANGED txVars,
         toRx' \in Seq(Numbered), rpc # "aborted" \/ rpc' = rpc
  PROVE  SlowInv'
  <1>1. Held' = Held
    BY DEF Held
  <1> QED
    BY <1>1 DEF SlowInv, txVars

LEMMA SlowRead ==
  ASSUME SlowInv, toRx # <<>>
  PROVE  Head(toRx) \in Numbered /\ Tail(toRx) \in Seq(Numbered)
  BY HeadTailProperties DEF SlowInv

LEMMA SlowError ==
  ASSUME SlowInv, NEW q \in Seq(Numbered), RxError(q), rpc = "recv", UNCHANGED txVars
  PROVE  SlowInv'
  <1>1. CASE RxAbort(q)
    BY <1>1, SlowAbort
  <1>2. CASE toRx' = q /\ UNCHANGED <<rblk, rbuf, rfile>>
    BY <1>2, SlowIdling
  <1> QED
    BY <1>1, <1>2 DEF RxError

\* The block that is stored is the one that was missing.
LEMMA SlowData ==
  ASSUME ShortFile, SlowInv, RxData, UNCHANGED txVars
  PROVE  SlowInv'
  <1> DEFINE f == Head(toRx)
  <1>1. /\ f \in Numbered /\ f.kind = "blk" /\ f.num = Low(rblk) /\ Store(f.pos)
        /\ toRx' \in Seq(Numbered) /\ rpc = "recv" /\ rblk' = rblk + 1
    BY SlowRead DEF RxData, Receiving, IsExpected
  <1> HIDE DEF f
  <1>2. f.pos = rblk
    BY <1>1, ShortFilesAreNumbered DEF SlowInv, Numbered
  <1>3. rblk \in 1..NBlocks
    BY <1>1, <1>2 DEF Numbered
  <1>4. PICK n \in Nat : rblk = n + 1 /\ rblk - 1 = n /\ rblk' - 1 = n + 1
    BY <1>1, <1>3, LineAssumption
  <1>5. rbuf' \in Seq(Nat) /\ rfile' \in Seq(Nat) /\ Held' = Append(Held, n + 1)
    BY <1>1, <1>2, <1>4, StoreHolds DEF SlowInv, ShortFile
  <1>6. Held' = FirstBlocks(rblk' - 1)
    BY <1>1, <1>4, <1>5, FirstBlocksGrow DEF SlowInv
  <1>7. rblk' \in 1..(NBlocks + 1)
    BY <1>1, <1>3, LineAssumption
  <1> QED
    BY <1>1, <1>5, <1>6, <1>7 DEF SlowInv, txVars

LEMMA SlowEot ==
  ASSUME ShortFile, SlowInv, RxEot, UNCHANGED txVars
  PROVE  SlowInv'
  <1>1. /\ Flush(TRUE) /\ rpc = "recv" /\ rblk' = rblk /\ toRx' \in Seq(Numbered)
    BY SlowRead DEF RxEot, Receiving, Flush, ShortFile
  <1>2. rbuf' \in Seq(Nat) /\ rfile' \in Seq(Nat) /\ Held' = Held
    BY <1>1, FlushHolds, EmptySeq DEF SlowInv
  <1> QED
    BY <1>1, <1>2 DEF SlowInv, txVars

LEMMA SlowStart ==
  ASSUME SlowInv, RxStart, UNCHANGED txVars
  PROVE  SlowInv'
  <1>1. CASE UNCHANGED <<rblk, rbuf, rfile, toRx>>
    BY <1>1, SlowIdling DEF RxStart, SlowInv
  <1>2. CASE rblk' = 1 /\ rbuf' = <<>> /\ rfile' = <<>> /\ toRx' = toRx
    <2>1. rbuf' \in Seq(Nat) /\ rfile' \in Seq(Nat)
      BY <1>2, EmptySeq
    <2>2. Held' = FirstBlocks(0) /\ rblk' - 1 = 0 /\ rblk' \in 1..(NBlocks + 1)
      BY <1>2, FirstBlocksGrow, ConcatEmptySeq, EmptySeq, LineAssumption DEF Held
    <2> QED
      BY <1>2, <2>1, <2>2 DEF SlowInv, txVars
  <1> QED
    BY <1>1, <1>2 DEF RxStart, lineVars

LEMMA SlowReceiver ==
  ASSUME ShortFile, SlowInv, RxStart \/ RxBreak \/ RxStep, UNCHANGED txVars
  PROVE  SlowInv'
  <1>1. toRx \in Seq(Numbered)
    BY DEF SlowInv
  <1>2. CASE RxBreak
    BY <1>1, <1>2, SlowAbort DEF RxBreak
  <1>3. CASE RxNoAnswerToC \/ RxCharReady \/ RxPoll
    BY <1>1, <1>3, SlowIdling DEF RxNoAnswerToC, RxCharReady, RxPoll, lineVars
  <1>4. CASE RxNoAnswerToNak
    <2>1. CASE RxAbort(toRx)
      BY <1>1, <2>1, SlowAbort
    <2>2. CASE UNCHANGED <<rpc, rblk, rcrc, rtries, rbuf, rfile, toRx, strays>>
      BY <1>1, <2>2, SlowIdling
    <2> QED
      BY <1>4, <2>1, <2>2 DEF RxNoAnswerToNak
  <1>5. CASE RxDuplicate \/ RxSkip \/ RxTerminal
    BY <1>5, SlowRead, SlowIdling DEF RxDuplicate, RxSkip, RxTerminal, Receiving, rxVars
  <1>6. CASE RxReject
    BY <1>6, SlowRead, SlowError DEF RxReject, Receiving
  <1>7. CASE RxSilence
    BY <1>1, <1>7, SlowError DEF RxSilence
  <1>8. CASE RxCancel
    BY <1>8, SlowRead, SlowAbort DEF RxCancel, Receiving
  <1>9. CASE RxPurged
    BY <1>1, <1>9, PurgesNumbered, SlowIdling DEF RxPurged
  <1> QED
    BY <1>2, <1>3, <1>4, <1>5, <1>6, <1>7, <1>8, <1>9, SlowStart, SlowData, SlowEot
    DEF RxStep, RxTimer, RxQuiet

\* A step of the sender, which writes blocks of the file under their numbers.
LEMMA SlowWrites ==
  ASSUME SlowInv, NEW f \in Numbered, Write(f), UNCHANGED rxVars,
         tcrc' \in BOOLEAN, tpc' \in Running => tblk' \in 1..NBlocks
  PROVE  SlowInv'
  <1>1. toRx' \in Seq(Numbered)
    BY WritesNumbered DEF SlowInv
  <1>2. Held' = Held
    BY DEF Held, rxVars
  <1> QED
    BY <1>1, <1>2 DEF SlowInv, rxVars

LEMMA SlowReads ==
  ASSUME SlowInv, UNCHANGED rxVars, toRx' = toRx,
         tcrc' \in BOOLEAN, tpc' \in Running => tblk' \in 1..NBlocks
  PROVE  SlowInv'
  <1>1. Held' = Held
    BY DEF Held, rxVars
  <1> QED
    BY <1>1 DEF SlowInv, rxVars

LEMMA SlowGivesUp ==
  ASSUME SlowInv, TxAbort, UNCHANGED rxVars, tcrc' \in BOOLEAN
  PROVE  SlowInv'
  BY ControlsAreNumbered, SlowWrites DEF TxAbort, Running

LEMMA SlowSendAgain ==
  ASSUME SlowInv, NEW crc \in BOOLEAN, TxSendAgain(crc), tpc \in Running,
         UNCHANGED rxVars, tblk' = tblk, tcrc' \in BOOLEAN
  PROVE  SlowInv'
  <1>1. tblk \in 1..NBlocks
    BY DEF SlowInv
  <1>2. CASE Write(BlockFrame(tblk, crc))
    BY <1>1, <1>2, BlocksAreNumbered, SlowWrites
  <1> QED
    BY <1>2, SlowGivesUp DEF TxSendAgain

LEMMA SlowSender ==
  ASSUME SlowInv, TxStart \/ TxBreak \/ TxStep, UNCHANGED rxVars
  PROVE  SlowInv'
  <1>1. tcrc \in BOOLEAN /\ (tpc \in Running => tblk \in 1..NBlocks)
    BY DEF SlowInv
  <1>2. CASE TxStart
    <2>1. toRx' = toRx
      BY <1>2 DEF TxStart, lineVars
    <2>2. tcrc' \in BOOLEAN
      <3>1. CASE tcrc' = tcrc
        BY <1>1, <3>1, Zenon
      <3>2. CASE tcrc' = FALSE
        BY <3>2, Zenon
      <3> QED
        BY <1>2, <3>1, <3>2, Zenon DEF TxStart
    <2>3. tpc' \in Running => tblk' \in 1..NBlocks
      BY <1>2, LineAssumption DEF TxStart, Running
    <2> QED
      BY <2>1, <2>2, <2>3, SlowReads
  <1>3. CASE TxC
    <2>1. tpc \in Running /\ TxSendAgain(TRUE) /\ tblk' = tblk
      BY <1>3 DEF TxC, Running
    <2>2. tcrc' \in BOOLEAN
      BY <1>3, Zenon DEF TxC
    <2> QED
      BY <2>1, <2>2, SlowSendAgain
  <1>4. CASE TxNak
    <2>1. tpc \in Running /\ TxSendAgain(tcrc) /\ tblk' = tblk
      BY <1>4 DEF TxNak
    <2>2. tcrc' \in BOOLEAN
      BY <1>1, <1>4, Zenon DEF TxNak
    <2> QED
      BY <1>1, <2>1, <2>2, SlowSendAgain
  <1>5. CASE TxAck
    <2>1. tpc \in Running /\ tblk \in 1..NBlocks /\ tblk' = tblk + 1
      BY <1>1, <1>5 DEF TxAck
    <2>2. tcrc' \in BOOLEAN
      BY <1>1, <1>5, Zenon DEF TxAck
    <2>3. CASE tblk < NBlocks /\ Write(BlockFrame(tblk + 1, tcrc))
      <3>1. tblk + 1 \in 1..NBlocks
        BY <2>1, <2>3, LineAssumption
      <3>2. BlockFrame(tblk + 1, tcrc) \in Numbered
        BY <1>1, <3>1, BlocksAreNumbered
      <3> QED
        BY <2>1, <2>2, <2>3, <3>1, <3>2, SlowWrites
    <2>4. CASE tpc' = "eot" /\ Write(Control("EOT"))
      BY <2>2, <2>4, ControlsAreNumbered, SlowWrites DEF Running
    <2> QED
      BY <1>5, <2>3, <2>4 DEF TxAck
  <1>6. CASE TxCan \/ TxBreak \/ TxTimer
    <2>1. TxAbort
      BY <1>6 DEF TxCan, TxBreak, TxTimer, TxSilence
    <2>2. tcrc' \in BOOLEAN
      BY <1>1, <1>6, Zenon DEF TxCan, TxBreak, TxTimer, TxSilence
    <2> QED
      BY <2>1, <2>2, SlowGivesUp
  <1>7. CASE TxOther
    <2>1. tcrc' \in BOOLEAN
      BY <1>1, <1>7, Zenon DEF TxOther
    <2> QED
      BY <1>1, <1>7, <2>1, SlowReads DEF TxOther, Running
  <1>8. CASE TxEotAck \/ TxTerminal
    <2>1. tcrc' \in BOOLEAN
      BY <1>1, <1>8, Zenon DEF TxEotAck, TxTerminal, txVars
    <2> QED
      BY <1>1, <1>8, <2>1, SlowReads DEF TxEotAck, TxTerminal, txVars, Running
  <1>9. CASE TxEotAgain
    <2>1. tcrc' \in BOOLEAN
      BY <1>1, <1>9, Zenon DEF TxEotAgain, txVars
    <2> QED
      BY <1>1, <1>9, <2>1, ControlsAreNumbered, SlowWrites DEF TxEotAgain, txVars
  <1> QED
    BY <1>2, <1>3, <1>4, <1>5, <1>6, <1>7, <1>8, <1>9 DEF TxStep

LEMMA SlowNext ==
  ASSUME ShortFile, SlowInv, [Next]_vars
  PROVE  SlowInv'
  <1>1. CASE Noise /\ UNCHANGED <<rxVars, txVars>>
    <2>1. toRx' \in Seq(Numbered)
      <3>1. CASE StrayToRx
        <4>1. Control("junk") \in Numbered /\ toRx \in Seq(Numbered)
          BY ControlsAreNumbered DEF SlowInv
        <4> QED
          BY <3>1, <4>1, AppendProperties DEF StrayToRx
      <3>2. CASE StrayToTx
        BY <3>2 DEF StrayToTx, SlowInv
      <3> QED
        BY <1>1, <3>1, <3>2 DEF Noise
    <2> QED
      BY <1>1, <2>1, SlowIdling DEF rxVars
  <1>2. CASE UNCHANGED vars
    <2>1. toRx' \in Seq(Numbered)
      BY <1>2 DEF SlowInv, vars, lineVars
    <2> QED
      BY <1>2, <2>1, SlowIdling DEF vars, rxVars
  <1> QED
    BY <1>1, <1>2, SlowReceiver, SlowSender DEF Next

\* However slow the line is, and however many timers run out too early on
\* either side, a file of fewer blocks than the number byte counts (256) is
\* received block by block: none is missing, doubled or out of place.
THEOREM ShortFilesArriveInOrder ==
  ASSUME ShortFile
  PROVE  Spec => []HeldIsPrefix
  <1>1. SlowInv => HeldIsPrefix
    <2> SUFFICES ASSUME SlowInv, rpc # "aborted"
                 PROVE  Held = FirstBlocks(Len(Held))
      BY DEF HeldIsPrefix
    <2>1. PICK n \in Nat : n = rblk - 1
      BY LineAssumption DEF SlowInv
    <2> QED
      BY <2>1, FirstBlocksGrow DEF SlowInv
  <1>2. SlowInv /\ [Next]_vars => SlowInv'
    BY SlowNext
  <1> QED
    BY SlowInit, <1>1, <1>2, PTL DEF Spec
=============================================================================
