---------------------------- MODULE YmodemProofs ----------------------------
(***************************************************************************)
(* Proofs about Ymodem, for any batch of files, any error limits and any   *)
(* buffer size, on a prompt line: NoMixing whatever waited on the line     *)
(* when the upload started, FilesInOrder and FileIsDelivered when nothing  *)
(* did.                                                                    *)
(***************************************************************************)
EXTENDS Ymodem, LineProofs

\* What the proofs assume of the line; the first byte of a block arrives.
SafeBatch == Prompt /\ "header" \notin Faults

\* The disks work, too.
SafeDisk == "diskwrite" \notin Faults

Headers == {f \in Blocks : IsHeader(f)}

Datas == {f \in Blocks : ~IsHeader(f)}

Marks == Blocks \cup Eots

Torn == {f \in Frame : f.kind = "torn"}

Cans == {f \in Frame : f.kind = "CAN"}

Alive == rpc \notin RxEnded

HasFile == rname = "file"

-----------------------------------------------------------------------------
(***************************************************************************)
(* Why files are not mixed.  The sender needs a C for every header and one *)
(* more for the first block.  The answer to a header is ACK and C, and no  *)
(* C comes while a file is open; so the sender sends no header until the   *)
(* file before it was closed, and no block until the file is open, even if *)
(* it counts old answers as ACKs and runs ahead within a file.             *)
(***************************************************************************)
\* No element of T comes behind one of S in queue q.
NoneAfter(q, S, T) ==
  \A i, j \in 1..Len(q) : i < j /\ q[i] \in S => q[j] \notin T

\* Headers come before data, data in the order of the file, EOT last.
InOrder ==
  /\ NoneAfter(toRx, Eots, Marks)
  /\ NoneAfter(toRx, Datas, Headers)
  /\ \A n \in 1..NBlocks :
        NoneAfter(toRx, {f \in Datas : f.pos > n}, {f \in Datas : f.pos <= n})

NoAckAfterC == NoneAfter(toTx, {"C"}, {"ACK"})

OneC == NoneAfter(toTx, {"C"}, {"C"})

\* At most one C after an ACK.
OneCAfterAck(q) ==
  \A i, j, k \in 1..Len(q) :
     i < j /\ j < k /\ q[i] = "ACK" /\ q[j] = "C" => q[k] # "C"

\* Blocks b are blocks of file k, in order and none twice.
PartOf(b, k) ==
  /\ Range(b) \subseteq Range(Batch[k])
  /\ \A i, j \in 1..Len(b) : i < j => b[i] < b[j]

ClosedFit ==
  \A k \in 1..Len(rfiles) :
     k <= Len(Batch) /\ rfiles[k].name = k /\ PartOf(rfiles[k].blocks, k)

RxPhase ==
  /\ HasFile =>
       /\ rpc \in {"poll", "recv", "purge", "eot"} /\ rblk # 0
       /\ rhead = Len(rfiles) + 1 /\ rhead <= Len(Batch)
       /\ PartOf(Held, rhead)
       /\ rblk = 1 => Held = <<>>
  /\ ~HasFile =>
       /\ rpc \in {"idle", "negC", "negN", "poll", "recv"}
       /\ rpc # "idle" => rblk = 0
       /\ rbuf = <<>> /\ rfile = <<>>
  /\ rpc = "eot" => HasFile /\ rbuf = <<>> /\ NoneOf(toRx, Marks)

\* A block numbered num at pos may be stored next, or repeats what was stored.
DataFits(num, pos) ==
  /\ \E n \in 1..Len(Batch[rhead]) : pos = Batch[rhead][n] /\ num = Low(n)
  /\ \A i \in 1..Len(Held) :
        Held[i] <= pos /\ (num = Low(rblk) => Held[i] < pos)

FramesFit ==
  /\ InOrder
  /\ NoneOf(toRx, Torn)
  /\ \A f \in Range(toRx) \cap Headers :
        /\ f.num = 0
        /\ HasFile => rblk = 1
        /\ ~HasFile => f = ThisHeader \/ f.kind = "bad"
        /\ ~HasFile => tfile = Len(rfiles) + 1
  /\ \A f \in Range(toRx) \cap Datas : HasFile /\ DataFits(f.num, f.pos)
  /\ HasFile \/ NoneOf(toRx, Eots)

\* Before the sender sends the first block of a file.
Asking == tfile = Len(rfiles) + 1 /\ NoneOf(toRx, Datas \cup Eots) /\ rpc # "eot"

TxPhase ==
  /\ tpc = "idle" =>
       /\ tfile = 0 /\ rfiles = <<>> /\ ~HasFile
       /\ NoneOf(toRx, Marks) /\ NoneOf(toTx, {"ACK"})
  /\ tpc = "hdrC" =>
       \/ /\ tfile = Len(rfiles) + 1 /\ ~HasFile
          /\ NoneOf(toRx, Blocks) /\ NoAckAfterC
       \/ tfile = Len(rfiles) + 2 /\ HasFile /\ NoneOf(toTx, {"C"})
  /\ tpc = "hdr" =>
       /\ Asking
       /\ HasFile => rblk = 1 /\ ~tlast /\ OneCAfterAck(toTx)
       /\ ~HasFile => NoneOf(toTx, {"ACK"})
  /\ tpc = "dataC" => Asking /\ HasFile /\ rblk = 1 /\ tblk = 1 /\ OneC
  /\ tpc \in Running =>
       /\ tfile = Len(rfiles) + 1 /\ HasFile
       /\ NoneOf(toRx, Eots) /\ rpc # "eot" /\ NoneOf(toTx, {"C"})
       /\ DataFits(Low(tblk), Batch[tfile][tblk])
       /\ \A f \in Range(toRx) \cap Datas : f.pos <= Batch[tfile][tblk]
  /\ tpc = "beot" =>
       \/ HasFile /\ tfile = Len(rfiles) + 1 /\ NoneOf(toTx, {"C"})
       \/ ~HasFile /\ tfile = Len(rfiles) /\ NoAckAfterC

InPhase == ClosedFit /\ (Alive => RxPhase /\ FramesFit /\ TxPhase)

BatchInv == TypeOK /\ InPhase

-----------------------------------------------------------------------------
(***************************************************************************)
(* Why every file is whole when nothing waited on the line: as in XMODEM,  *)
(* at most one thing that matters is under way.                            *)
(***************************************************************************)
\* At most one answer is on its way back, or an ACK with a C behind it.
AnswersInPairs ==
  /\ NoneAfter(toTx, Asks, {"NAK", "ACK"})
  /\ NoneAfter(toTx, {"C", "NAK"}, {"C"})

NothingAsked == NoneOf(toTx, Asks) /\ NoneOf(toRx, Marks)

AllHere == rblk = Len(Batch[rhead]) + 1

Current(f) ==
  /\ tblk <= Len(Batch[rhead]) /\ rblk \in {tblk, tblk + 1}
  /\ f.num = Low(tblk) /\ f.pos = Batch[rhead][tblk]

ClosedWhole == \A k \in 1..Len(rfiles) : rfiles[k].blocks = Batch[k]

FileWhole ==
  HasFile =>
    /\ rblk <= Len(Batch[rhead]) + 1
    /\ Held = SubSeq(Batch[rhead], 1, rblk - 1)
    /\ rpc = "eot" \/ tpc \in {"hdrC", "beot"} \/ ~NoneOf(toRx, Eots) => AllHere

\* One answer is waited for, and it comes from a receiver that listens.
OneAnswer ==
  /\ AnswersInPairs
  /\ NoneOf(toTx, Asks) \/ NoneOf(toRx, Marks)
  /\ rpc \in {"idle", "purge"} => NothingAsked

OneUnderWay ==
  /\ AtMostOne(toRx, Marks)
  /\ \A f \in Range(toRx) \cap Datas : Current(f)
  /\ tpc \notin TxEnded => NoneOf(toRx, Cans)
  /\ tpc \in TbWaits => OneAnswer
  /\ tpc \in Running =>
       /\ NoneOf(toRx, Headers)
       /\ rblk \in {tblk, tblk + 1}
       /\ "ACK" \in Range(toTx) => rblk = tblk + 1

Undisturbed == ClosedWhole /\ (Alive => FileWhole /\ OneUnderWay)

WholeInv ==
  /\ tpc = "idle" => fresh
  /\ fresh => Undisturbed

-----------------------------------------------------------------------------
(* Queues in which some elements keep an order.                            *)

LEMMA NoneIsOrdered ==
  ASSUME NEW T, NEW q \in Seq(T), NEW A, NEW B, NoneOf(q, A) \/ NoneOf(q, B)
  PROVE  NoneAfter(q, A, B)
  BY DEF NoneOf, NoneAfter, Range

LEMMA TailIsOrdered ==
  ASSUME NEW T, NEW q \in Seq(T), q # <<>>, NEW A, NEW B, NoneAfter(q, A, B)
  PROVE  /\ NoneAfter(Tail(q), A, B)
         /\ Head(q) \in A => NoneOf(Tail(q), B)
  <1>1. /\ Len(Tail(q)) = Len(q) - 1 /\ Len(q) \in Nat /\ Len(q) > 0
        /\ \A i \in 1..Len(Tail(q)) : Tail(q)[i] = q[i + 1]
        /\ Head(q) = q[1]
        /\ DOMAIN Tail(q) = 1..Len(Tail(q))
    BY HeadTailProperties, EmptySeq, LenProperties
  <1>2. NoneAfter(Tail(q), A, B)
    <2> SUFFICES ASSUME NEW i \in 1..Len(Tail(q)), NEW j \in 1..Len(Tail(q)),
                        i < j, Tail(q)[i] \in A
                 PROVE  Tail(q)[j] \notin B
      BY DEF NoneAfter
    <2>1. i + 1 \in 1..Len(q) /\ j + 1 \in 1..Len(q) /\ i + 1 < j + 1
      BY <1>1
    <2> QED
      BY <1>1, <2>1 DEF NoneAfter
  <1>3. Head(q) \in A => NoneOf(Tail(q), B)
    <2> SUFFICES ASSUME q[1] \in A, NEW i \in 1..Len(Tail(q)), Tail(q)[i] \in B
                 PROVE  FALSE
      BY <1>1 DEF NoneOf, Range
    <2>1. q[i + 1] \in B /\ i + 1 \in 1..Len(q) /\ 1 \in 1..Len(q) /\ 1 < i + 1
      BY <1>1
    <2> QED
      BY <2>1 DEF NoneAfter
  <1> QED
    BY <1>2, <1>3

\* One element, or nothing, is written behind the queue.
LEMMA BehindIsOrdered ==
  ASSUME NEW T, NEW q \in Seq(T), NEW r \in Seq(T), Len(r) <= 1, NEW A, NEW B,
         NoneAfter(q, A, B), NoneOf(q, A) \/ NoneOf(r, B)
  PROVE  NoneAfter(q \o r, A, B)
  <1>1. /\ Len(q) \in Nat /\ Len(r) \in Nat
        /\ Len(q \o r) = Len(q) + Len(r)
        /\ \A i \in 1..Len(q \o r) :
              (q \o r)[i] = IF i <= Len(q) THEN q[i] ELSE r[i - Len(q)]
        /\ DOMAIN q = 1..Len(q) /\ DOMAIN r = 1..Len(r)
    BY ConcatProperties, LenProperties
  <1> SUFFICES ASSUME NEW i \in 1..Len(q \o r), NEW j \in 1..Len(q \o r),
                      i < j, (q \o r)[i] \in A, (q \o r)[j] \in B
               PROVE  FALSE
    BY DEF NoneAfter
  <1>2. i \in 1..Len(q) /\ q[i] \in A
    BY <1>1
  <1>3. CASE j <= Len(q)
    BY <1>1, <1>2, <1>3 DEF NoneAfter
  <1>4. CASE j > Len(q)
    <2>1. j - Len(q) \in 1..Len(r) /\ r[j - Len(q)] \in B
      BY <1>1, <1>4
    <2> QED
      BY <1>1, <1>2, <2>1 DEF NoneOf, Range
  <1> QED
    BY <1>1, <1>3, <1>4

LEMMA TailHasOneC ==
  ASSUME NEW q \in Seq(Reply), q # <<>>, OneCAfterAck(q)
  PROVE  /\ OneCAfterAck(Tail(q))
         /\ Head(q) = "ACK" => NoneAfter(Tail(q), {"C"}, {"C"})
  <1>1. /\ Len(Tail(q)) = Len(q) - 1 /\ Len(q) \in Nat /\ Len(q) > 0
        /\ \A i \in 1..Len(Tail(q)) : Tail(q)[i] = q[i + 1]
        /\ Head(q) = q[1]
    BY HeadTailProperties, EmptySeq, LenProperties
  <1>2. \A i \in 1..Len(Tail(q)) : i + 1 \in 1..Len(q) /\ 1 < i + 1 /\ 1 \in 1..Len(q)
    BY <1>1
  <1>3. OneCAfterAck(Tail(q))
    <2> SUFFICES ASSUME NEW i \in 1..Len(Tail(q)), NEW j \in 1..Len(Tail(q)),
                        NEW k \in 1..Len(Tail(q)), i < j, j < k,
                        Tail(q)[i] = "ACK", Tail(q)[j] = "C"
                 PROVE  Tail(q)[k] # "C"
      BY DEF OneCAfterAck
    <2>1. i + 1 < j + 1 /\ j + 1 < k + 1
      OBVIOUS
    <2> QED
      BY <1>1, <1>2, <2>1 DEF OneCAfterAck
  <1>4. Head(q) = "ACK" => NoneAfter(Tail(q), {"C"}, {"C"})
    <2> SUFFICES ASSUME q[1] = "ACK", NEW i \in 1..Len(Tail(q)), NEW j \in 1..Len(Tail(q)),
                        i < j, Tail(q)[i] = "C"
                 PROVE  Tail(q)[j] # "C"
      BY <1>1 DEF NoneAfter
    <2>1. i + 1 < j + 1
      OBVIOUS
    <2> QED
      BY <1>1, <1>2, <2>1 DEF OneCAfterAck
  <1> QED
    BY <1>3, <1>4

\* What may be written behind such a queue.
LEMMA BehindHasOneC ==
  ASSUME NEW q \in Seq(Reply), NEW r \in Seq(Reply), Len(r) <= 1,
         \/ OneCAfterAck(q) /\ NoneOf(r, {"C"})
         \/ NoneAfter(q, {"ACK"}, {"C"})
  PROVE  OneCAfterAck(q \o r)
  <1>1. /\ Len(q) \in Nat /\ Len(r) \in Nat
        /\ Len(q \o r) = Len(q) + Len(r)
        /\ \A i \in 1..Len(q \o r) :
              (q \o r)[i] = IF i <= Len(q) THEN q[i] ELSE r[i - Len(q)]
        /\ DOMAIN r = 1..Len(r)
    BY ConcatProperties, LenProperties
  <1> SUFFICES ASSUME NEW i \in 1..Len(q \o r), NEW j \in 1..Len(q \o r),
                      NEW k \in 1..Len(q \o r), i < j, j < k,
                      (q \o r)[i] = "ACK", (q \o r)[j] = "C", (q \o r)[k] = "C"
               PROVE  FALSE
    BY DEF OneCAfterAck
  <1>2. i \in 1..Len(q) /\ q[i] = "ACK" /\ j \in 1..Len(q) /\ q[j] = "C"
    BY <1>1
  <1>3. ~NoneAfter(q, {"ACK"}, {"C"})
    BY <1>2 DEF NoneAfter
  <1>4. CASE k <= Len(q)
    BY <1>1, <1>2, <1>3, <1>4 DEF OneCAfterAck
  <1>5. CASE k > Len(q)
    <2>1. k - Len(q) \in 1..Len(r) /\ r[k - Len(q)] = "C"
      BY <1>1, <1>5
    <2> QED
      BY <1>1, <1>3, <2>1 DEF NoneOf, Range
  <1> QED
    BY <1>1, <1>4, <1>5

-----------------------------------------------------------------------------
(* Types, on any line.                                                     *)

LEMMA PurgedIsSeq ==
  ASSUME NEW q \in Seq(Frame), NEW p \in Purged(q)
  PROVE  p \in Seq(Frame)
  <1>1. CASE Prompt
    BY <1>1, EmptySeq DEF Purged
  <1>2. CASE ~Prompt
    <2>1. PICK k \in 1..(Len(q) + 1) : p = SubSeq(q, k, Len(q))
      BY <1>2 DEF Purged
    <2> QED
      BY <2>1, SubSeqProperties, LenProperties
  <1> QED
    BY <1>1, <1>2

LEMMA TwoReplies ==
  ASSUME toTx \in Seq(Reply), NEW c \in Reply, NEW d \in Reply, Reply2(c, d)
  PROVE  /\ toTx' \in Seq(Reply)
         /\ \E s \in ReplyArrives(c), t \in ReplyArrives(d) : toTx' = (toTx \o s) \o t
  <1>1. PICK s \in ReplyArrives(c), t \in ReplyArrives(d) : toTx' = (toTx \o s) \o t
    BY DEF Reply2
  <1>2. s \in Seq(Reply) /\ t \in Seq(Reply)
    BY ReplyArrival
  <1>3. toTx \o s \in Seq(Reply)
    BY <1>2, ConcatProperties
  <1>4. (toTx \o s) \o t \in Seq(Reply)
    BY <1>2, <1>3, ConcatProperties
  <1> QED
    BY <1>1, <1>4

LEMMA ReplyKinds == {"C", "NAK", "ACK", "CAN", "junk"} = Reply
  BY DEF Reply

\* Sub_3992, with a file open or without.
LEMMA RbGiveUpTypes ==
  ASSUME TypeOK, NEW q \in Seq(Frame), NEW name \in {"none", "file", "CR"},
         RbGiveUp(q, name), rerrs' \in 0..(MaxErrors + 3)
  PROVE  RbTypeOK' /\ LineTypeOK'
  <1>1. toTx' \in Seq(Reply)
    BY ReplyKinds, ReplySent DEF TypeOK, LineTypeOK, RbGiveUp
  <1>2. toRx' \in Seq(Frame)
    BY PurgedIsSeq DEF RbGiveUp
  <1> QED
    BY <1>1, <1>2
    DEF TypeOK, RbTypeOK, LineTypeOK, RbGiveUp, RxPc, RxEnded

LEMMA RxAbortTypes ==
  ASSUME TypeOK, NEW q \in Seq(Frame), RxAbort(q), UNCHANGED batchVars,
         rerrs' \in 0..(MaxErrors + 3)
  PROVE  RbTypeOK' /\ LineTypeOK'
  <1>1. toTx' \in Seq(Reply)
    BY ReplyKinds, ReplySent DEF TypeOK, LineTypeOK, RxAbort
  <1>2. toRx' \in Seq(Frame)
    BY PurgedIsSeq DEF RxAbort
  <1> QED
    BY <1>1, <1>2, EmptySeq
    DEF TypeOK, RbTypeOK, LineTypeOK, RxAbort, RxPc, RxEnded, batchVars

LEMMA RxErrorTypes ==
  ASSUME TypeOK, NEW q \in Seq(Frame), RxError(q), UNCHANGED batchVars,
         rpc \notin RxEnded, rblk # 0
  PROVE  RbTypeOK' /\ LineTypeOK'
  <1>1. rerrs' = rerrs + 1 /\ rerrs \in 0..MaxErrors /\ MaxErrors \in Nat
    BY ReceiverAssumption DEF RxError, TypeOK, RbTypeOK
  <1>2. CASE rerrs' <= MaxErrors
    BY <1>1, <1>2
    DEF RxError, TypeOK, RbTypeOK, LineTypeOK, RxPc, RxEnded, batchVars
  <1>3. CASE rerrs' > MaxErrors
    <2>1. RxAbort(q) /\ rerrs' \in 0..(MaxErrors + 3)
      BY <1>1, <1>3 DEF RxError
    <2> QED
      BY <2>1, RxAbortTypes
  <1> QED
    BY <1>1, <1>2, <1>3

\* The receiver asks, or only moves on.
LEMMA RxAskTypes ==
  ASSUME TypeOK, NEW c \in {"C", "NAK"}, Reply1(toTx, c), toRx' \in Purged(toRx) \cup {toRx},
         rpc \notin RxEnded, rpc' \in {"negC", "negN", "poll"},
         rcrc' \in BOOLEAN, rtries' \in 0..CTries, rerrs' \in 0..MaxErrors \/ rerrs' = rerrs,
         UNCHANGED <<rblk, rbuf, rfile, strays>>, UNCHANGED batchVars
  PROVE  RbTypeOK' /\ LineTypeOK'
  <1>1. toTx' \in Seq(Reply)
    BY ReplyKinds, ReplySent DEF TypeOK, LineTypeOK
  <1>2. toRx' \in Seq(Frame)
    BY PurgedIsSeq DEF TypeOK, LineTypeOK
  <1>3. rerrs' \in 0..(MaxErrors + 3) /\ rerrs' <= MaxErrors + (IF rblk' = 0 THEN 2 ELSE 0)
    BY ReceiverAssumption DEF TypeOK, RbTypeOK
  <1> QED
    BY <1>1, <1>2, <1>3
    DEF TypeOK, RbTypeOK, LineTypeOK, RxPc, RxEnded, batchVars

LEMMA RbStartTypes ==
  ASSUME TypeOK, RbStart
  PROVE  RbTypeOK' /\ LineTypeOK'
  <1>1. toTx' \in Seq(Reply)
    BY ReplyKinds, ReplySent DEF TypeOK, LineTypeOK, RbStart
  <1>2. rtries' \in 0..CTries
    BY ReceiverAssumption DEF RbStart
  <1> QED
    BY <1>1, <1>2, EmptySeq, ReceiverAssumption
    DEF TypeOK, RbTypeOK, LineTypeOK, RbStart, RxPc, RxEnded, batchVars

LEMMA RbBreakTypes ==
  ASSUME TypeOK, RbBreak \/ InFile(RxBreak)
  PROVE  RbTypeOK' /\ LineTypeOK'
  <1>1. rerrs \in 0..(MaxErrors + 3) /\ toRx \in Seq(Frame) /\ rname \in {"none", "file", "CR"}
    BY DEF TypeOK, RbTypeOK, LineTypeOK
  <1>2. CASE RbBreak
    BY <1>1, <1>2, RbGiveUpTypes DEF RbBreak
  <1>3. CASE InFile(RxBreak)
    BY <1>1, <1>3, RxAbortTypes DEF InFile, RxBreak
  <1> QED
    BY <1>2, <1>3

\* The two actions that only move on, and the two that skip what is read.
LEMMA RxPlainTypes ==
  ASSUME TypeOK, UNCHANGED batchVars,
         RxCharReady \/ RxPoll \/ RxSkip \/ RxTerminal \/ RbSecondEotSkip
  PROVE  RbTypeOK' /\ LineTypeOK'
  <1>1. /\ UNCHANGED <<rblk, rcrc, rtries, rerrs, rbuf, rfile, toTx, strays>>
        /\ toRx' = toRx \/ (toRx # <<>> /\ toRx' = Tail(toRx))
        /\ rpc' = rpc \/ (rpc \in {"negC", "negN", "poll"} /\ rpc' \in {"poll", "recv"})
    BY DEF RxCharReady, RxPoll, RxSkip, RxTerminal, RbSecondEotSkip, Receiving,
           rxVars, rbVars, lineVars
  <1>2. toRx' \in Seq(Frame)
    BY <1>1, FrameRead DEF TypeOK, LineTypeOK
  <1> QED
    BY <1>1, <1>2 DEF TypeOK, RbTypeOK, LineTypeOK, RxPc, RxEnded, batchVars

LEMMA RxFrameTypes ==
  ASSUME TypeOK,
         InFile(RxData) \/ InFile(RxDuplicate) \/ InFile(RxReject) \/ InFile(RxCancel)
  PROVE  RbTypeOK' /\ LineTypeOK'
  <1>1. /\ toRx \in Seq(Frame) /\ toRx # <<>> /\ rpc = "recv" /\ rpc \notin RxEnded
        /\ rblk # 0 /\ UNCHANGED batchVars
    BY DEF InFile, RxData, RxDuplicate, RxReject, RxCancel, Receiving, TypeOK, LineTypeOK,
           RxEnded
  <1>2. Tail(toRx) \in Seq(Frame) /\ Head(toRx) \in Frame
    BY <1>1, TailOf
  <1>3. CASE RxData
    <2>1. Head(toRx).pos \in Nat /\ Store(Head(toRx).pos) /\ Reply1(toTx, "ACK")
      BY <1>2, <1>3 DEF RxData, Frame
    <2>2. rbuf' \in Seq(Nat) /\ rfile' \in Seq(Nat)
      BY <2>1, StoreHolds DEF TypeOK, RbTypeOK
    <2>3. toTx' \in Seq(Reply)
      BY <2>1, ReplyKinds, ReplySent DEF TypeOK, LineTypeOK
    <2> QED
      BY <1>1, <1>2, <1>3, <2>2, <2>3, ReceiverAssumption
      DEF RxData, TypeOK, RbTypeOK, LineTypeOK, RxPc, RxEnded, batchVars
  <1>4. CASE RxDuplicate
    <2>1. toTx' \in Seq(Reply)
      BY <1>4, ReplyKinds, ReplySent DEF TypeOK, LineTypeOK, RxDuplicate
    <2> QED
      BY <1>1, <1>2, <1>4, <2>1
      DEF RxDuplicate, TypeOK, RbTypeOK, LineTypeOK, RxPc, RxEnded, batchVars
  <1>5. CASE RxReject
    BY <1>1, <1>2, <1>5, RxErrorTypes DEF RxReject
  <1>6. CASE RxCancel
    <2>1. rerrs' \in 0..(MaxErrors + 3)
      BY <1>6, ReceiverAssumption DEF RxCancel
    <2> QED
      BY <1>1, <1>2, <1>6, <2>1, RxAbortTypes DEF RxCancel
  <1> QED
    BY <1>3, <1>4, <1>5, <1>6 DEF InFile

LEMMA RbHeaderTypes ==
  ASSUME TypeOK, RbHeader \/ RbLastHeader \/ RbBadHeader \/ RbOtherHeader
  PROVE  RbTypeOK' /\ LineTypeOK'
  <1>1. /\ toRx \in Seq(Frame) /\ toRx # <<>> /\ rpc = "recv" /\ rblk = 0
        /\ rerrs \in 0..(MaxErrors + 2) /\ rname \in {"none", "file", "CR"}
    BY ReceiverAssumption
    DEF RbHeader, RbLastHeader, RbBadHeader, RbOtherHeader, ReceivingHeader, Receiving,
        TypeOK, RbTypeOK, LineTypeOK, RxEnded
  <1>2. Tail(toRx) \in Seq(Frame) /\ Head(toRx) \in Frame
    BY <1>1, TailOf
  <1>3. CASE RbHeader
    <2>1. CASE rerrs' = MaxErrors + 2 /\ RbGiveUp(Tail(toRx), "CR")
      <3>1. rerrs' \in 0..(MaxErrors + 3)
        BY <2>1, ReceiverAssumption
      <3> QED
        BY <1>2, <2>1, <3>1, RbGiveUpTypes
    <2>2. CASE /\ rname' = "file" /\ rhead' = HeaderOf(Head(toRx))
               /\ rblk' = 1 /\ rerrs' = 0 /\ rpc' = "poll"
               /\ toRx' = Tail(toRx) /\ Reply2("ACK", "C")
               /\ UNCHANGED <<rcrc, rtries, rbuf, rfile, strays, rfiles>>
      <3>1. toTx' \in Seq(Reply)
        BY <2>2, ReplyKinds, TwoReplies DEF TypeOK, LineTypeOK
      <3>2. rhead' \in 0..Len(Batch)
        BY <1>2, <1>3, <2>2, LineAssumption DEF RbHeader, IsHeader, HeaderOf, Frame
      <3> QED
        BY <1>2, <2>2, <3>1, <3>2, ReceiverAssumption
        DEF TypeOK, RbTypeOK, LineTypeOK, RxPc, RxEnded
    <2> QED
      BY <1>3, <2>1, <2>2 DEF RbHeader
  <1>4. CASE RbLastHeader
    <2>1. rerrs' \in 0..(MaxErrors + 3)
      BY <1>4, ReceiverAssumption DEF RbLastHeader
    <2> QED
      BY <1>2, <1>4, <2>1, RbGiveUpTypes DEF RbLastHeader
  <1>5. CASE RbBadHeader
    <2>1. rerrs' \in 0..(MaxErrors + 3)
      BY <1>1, <1>5, ReceiverAssumption DEF RbBadHeader
    <2> QED
      BY <1>1, <1>2, <1>5, <2>1, RbGiveUpTypes DEF RbBadHeader
  <1>6. CASE RbOtherHeader
    <2>1. rerrs' \in 0..(MaxErrors + 3)
      BY <1>1, <1>6, ReceiverAssumption DEF RbOtherHeader
    <2> QED
      BY <1>1, <1>2, <1>6, <2>1, RbGiveUpTypes DEF RbOtherHeader
  <1> QED
    BY <1>3, <1>4, <1>5, <1>6

LEMMA RbEotTypes ==
  ASSUME TypeOK, RbEot
  PROVE  RbTypeOK' /\ LineTypeOK'
  <1>1. toRx \in Seq(Frame) /\ toRx # <<>> /\ rpc = "recv" /\ rblk # 0
    BY DEF RbEot, Receiving, TypeOK, LineTypeOK
  <1>2. toRx' \in Seq(Frame)
    BY <1>1, FrameRead DEF RbEot
  <1>3. PICK ok \in BOOLEAN : Flush(ok)
    BY DEF RbEot
  <1>4. rbuf' \in Seq(Nat) /\ rfile' \in Seq(Nat)
    BY <1>3, FlushHolds, EmptySeq DEF TypeOK, RbTypeOK
  <1>5. toTx' \in Seq(Reply) /\ rpc' \in {"eot", "purge"}
    BY ReplyKinds, ReplySent DEF RbEot, TypeOK, LineTypeOK
  <1> QED
    BY <1>1, <1>2, <1>4, <1>5
    DEF RbEot, TypeOK, RbTypeOK, LineTypeOK, RxPc, RxEnded, batchVars

LEMMA RbCloseTypes ==
  ASSUME TypeOK, RbSecondEot \/ RbNoSecondEot
  PROVE  RbTypeOK' /\ LineTypeOK'
  <1>1. /\ RbClose /\ rpc = "eot" /\ rblk # 0 /\ rerrs \in 0..MaxErrors
        /\ toRx \in Seq(Frame) /\ rbuf \in Seq(Nat) /\ rhead \in Nat /\ rfile \in Seq(Nat)
    BY ReceiverAssumption
    DEF RbSecondEot, RbNoSecondEot, TypeOK, RbTypeOK, LineTypeOK, RxEnded
  <1>2. toTx' \in Seq(Reply)
    BY <1>1, ReplyKinds, TwoReplies DEF RbClose, TypeOK, LineTypeOK
  <1>3. toRx' \in Seq(Frame) /\ rbuf' \in Seq(Nat)
    <2>1. CASE RbNoSecondEot
      BY <1>1, <2>1 DEF RbNoSecondEot
    <2>2. CASE RbSecondEot
      <3>1. toRx' \in Seq(Frame) /\ Head(toRx).pos \in Nat
        BY <1>1, <2>2, FrameRead DEF RbSecondEot, Frame
      <3>2. rbuf' = rbuf \/ rbuf' = Append(rbuf, Head(toRx).pos)
        BY <2>2, Zenon DEF RbSecondEot
      <3>3. Append(rbuf, Head(toRx).pos) \in Seq(Nat)
        BY <1>1, <3>1, AppendProperties
      <3> QED
        BY <1>1, <3>1, <3>2, <3>3
    <2> QED
      BY <2>1, <2>2
  <1>4. rerrs' \in 0..(MaxErrors + 2)
    BY <1>1, ReceiverAssumption DEF RbSecondEot, RbNoSecondEot
  <1>5. rfiles' \in Seq([name : Nat, blocks : Seq(Nat)])
    BY <1>1 DEF RbClose, TypeOK, RbTypeOK
  <1>6. rtries' \in 0..CTries
    BY <1>1, ReceiverAssumption DEF RbClose
  <1> QED
    BY <1>1, <1>2, <1>3, <1>4, <1>5, <1>6, EmptySeq, ReceiverAssumption
    DEF RbClose, TypeOK, RbTypeOK, LineTypeOK, RxPc, RxEnded

LEMMA RbTimerTypes ==
  ASSUME TypeOK, RbTimer \/ RbQuiet
  PROVE  RbTypeOK' /\ LineTypeOK'
  <1>1. toRx \in Seq(Frame) /\ rname \in {"none", "file", "CR"}
    BY DEF TypeOK, RbTypeOK, LineTypeOK
  <1>2. CASE RxNoAnswerToC /\ UNCHANGED batchVars
    <2>1. \E c \in {"C", "NAK"} : Reply1(toTx, c)
      BY <1>2 DEF RxNoAnswerToC
    <2>2. rcrc' \in BOOLEAN
      BY <1>2, Zenon DEF RxNoAnswerToC, TypeOK, RbTypeOK
    <2>3. /\ rpc \notin RxEnded /\ rpc' \in {"negC", "negN", "poll"}
          /\ rtries' \in 0..CTries
          /\ UNCHANGED <<rblk, rerrs, rbuf, rfile, toRx, strays>>
      BY <1>2, ReceiverAssumption DEF RxNoAnswerToC, TypeOK, RbTypeOK, RxEnded
    <2> QED
      BY <1>2, <2>1, <2>2, <2>3, RxAskTypes
  <1>3. CASE RbNoAnswerToNak
    <2>1. rerrs' = rerrs + 1 /\ rerrs \in 0..(MaxErrors + 2) /\ rpc = "negN"
      BY <1>3, ReceiverAssumption DEF RbNoAnswerToNak, TypeOK, RbTypeOK, RxEnded
    <2>2. CASE rerrs' <= MaxErrors
      <3>1. rerrs' \in 0..MaxErrors
        BY <2>1, <2>2
      <3> QED
        BY <1>3, <2>1, <2>2, <3>1, RxAskTypes
        DEF RbNoAnswerToNak, TypeOK, RbTypeOK, RxEnded
    <2>3. CASE rerrs' > MaxErrors
      <3>1. RbGiveUp(toRx, rname)
        BY <1>3, <2>1, <2>3, ReceiverAssumption DEF RbNoAnswerToNak
      <3>2. rerrs' \in 0..(MaxErrors + 3)
        BY <2>1, ReceiverAssumption
      <3> QED
        BY <1>1, <3>1, <3>2, RbGiveUpTypes
    <2> QED
      BY <2>1, <2>2, <2>3, ReceiverAssumption
  <1>4. CASE InFile(RxSilence)
    BY <1>1, <1>4, RxErrorTypes DEF InFile, RxSilence, RxEnded
  <1>5. CASE RbNoHeader
    <2>1. rerrs' \in 0..(MaxErrors + 3)
      BY <1>5, ReceiverAssumption DEF RbNoHeader, TypeOK, RbTypeOK, RxEnded
    <2> QED
      BY <1>1, <1>5, <2>1, RbGiveUpTypes DEF RbNoHeader
  <1>6. CASE RbNoSecondEot
    BY <1>6, RbCloseTypes
  <1>7. CASE RbQuiet
    <2>1. RxPurged /\ UNCHANGED batchVars /\ rcrc \in BOOLEAN /\ rtries \in 0..CTries
      BY <1>7 DEF RbQuiet, InFile, TypeOK, RbTypeOK
    <2> QED
      BY <2>1, RxAskTypes DEF RxPurged, RxEnded
  <1> QED
    BY <1>2, <1>3, <1>4, <1>5, <1>6, <1>7 DEF RbTimer

\* The files of the list.
LEMMA FileFacts ==
  ASSUME NEW k \in 1..Len(Batch)
  PROVE  /\ Batch[k] \in Seq(1..NBlocks) /\ Len(Batch[k]) \in Nat \ {0}
         /\ \A n \in 1..Len(Batch[k]) : Batch[k][n] \in 1..NBlocks
         /\ \A m, n \in 1..Len(Batch[k]) : m < n => Batch[k][m] < Batch[k][n]
  <1>1. Batch[k] \in Seq(1..NBlocks) \ {<<>>}
    BY BatchAssumption
  <1>2. Len(Batch[k]) \in Nat \ {0} /\ \A n \in 1..Len(Batch[k]) : Batch[k][n] \in 1..NBlocks
    BY <1>1, EmptySeq, LenProperties
  <1> QED
    BY <1>1, <1>2, BatchAssumption

LEMMA ControlIsFrame ==
  /\ Control("EOT") \in Frame /\ Control("CAN") \in Frame /\ Control("junk") \in Frame
  /\ Control("EOT").kind = "EOT" /\ Control("CAN").kind = "CAN"
  /\ Control("junk").kind = "junk"
  BY DEF Control, Frame, FrameKinds

\* A header is a frame; so is a block of the file being sent.
LEMMA HeaderIsFrame ==
  ASSUME TypeOK, tfile # 0
  PROVE  /\ ThisHeader \in Headers /\ ThisHeader.num = 0 /\ ThisHeader.kind = "blk"
         /\ tlast => HeaderOf(ThisHeader) = Len(Batch) + 1
         /\ ~tlast => HeaderOf(ThisHeader) = tfile /\ tfile \in 1..Len(Batch)
  <1>1. Len(Batch) \in Nat /\ NBlocks \in Nat
    BY BatchAssumption, LineAssumption
  <1>2. tfile \in 0..(Len(Batch) + 1) /\ tfile # 0 /\ (~tlast => tfile <= Len(Batch))
    BY DEF TypeOK, TbTypeOK
  <1>3. PICK k \in 1..(Len(Batch) + 1) : /\ k = IF tlast THEN Len(Batch) + 1 ELSE tfile
                                         /\ ThisHeader = Header(k)
    BY <1>1, <1>2 DEF ThisHeader
  <1>4. /\ Header(k) \in Frame /\ Header(k).kind = "blk" /\ Header(k).num = 0
        /\ Header(k).pos = NBlocks + k
    BY <1>1 DEF Header, Frame, FrameKinds
  <1>5. IsHeader(Header(k)) /\ HeaderOf(Header(k)) = k
    BY <1>1, <1>4 DEF IsHeader, HeaderOf
  <1> QED
    BY <1>1, <1>2, <1>3, <1>4, <1>5 DEF Headers, Blocks, BlkKinds

LEMMA DataIsFrame ==
  ASSUME NEW k \in 1..Len(Batch), tfile = k, NEW n \in 1..Len(Batch[k]), tcrc' \in BOOLEAN
  PROVE  /\ DataBlock(n) \in Frame /\ DataBlock(n).kind = "blk"
         /\ DataBlock(n).num = Low(n) /\ DataBlock(n).pos = Batch[k][n]
  <1>1. Low(n) \in Nat /\ Batch[k][n] \in Nat
    <2>1. n \in Nat /\ Batch[k][n] \in 1..NBlocks
      BY FileFacts
    <2>2. Low(n) \in Nat
      BY <2>1, LowIsNat
    <2>3. Batch[k][n] \in Nat
      BY <2>1, LineAssumption
    <2> QED
      BY <2>2, <2>3
  <1> QED
    BY <1>1 DEF DataBlock, Frame, FrameKinds

\* What the sender may read and what becomes of its queue.
LEMMA GotTypes ==
  ASSUME TypeOK, NEW c, Got(c)
  PROVE  /\ toTx' \in Seq(Reply) /\ toTx # <<>> /\ Head(toTx) = c /\ c \in Range(toTx)
         /\ toTx' = Tail(toTx) /\ strays' = strays
  BY ReplyRead DEF Got, TypeOK, LineTypeOK

LEMMA TxAbortTypes ==
  ASSUME TypeOK, TxAbort
  PROVE  toRx' \in Seq(Frame) /\ tpc' = "aborted"
  BY ControlIsFrame, FrameSent DEF TxAbort, TypeOK, LineTypeOK

LEMMA TbStartTypes ==
  ASSUME TypeOK, TbStart
  PROVE  TbTypeOK' /\ LineTypeOK'
  <1>1. /\ tpc = "idle" /\ ~tlast /\ tfile \in Nat /\ tfile <= Len(Batch) /\ Len(Batch) \in Nat
        /\ MaxResends \in Nat /\ tcrc \in BOOLEAN
    BY BatchAssumption, SenderAssumption DEF TbStart, TypeOK, TbTypeOK, TxEnded
  <1>2. LineTypeOK'
    BY DEF TypeOK, LineTypeOK, TbStart, lineVars
  <1>3. tcrc' \in BOOLEAN /\ tlast' \in BOOLEAN
    BY <1>1, Zenon DEF TbStart, NextFile, TypeOK, TbTypeOK
  <1>4. CASE tpc' = "nofile" /\ UNCHANGED <<tfile, tlast, tcrc>>
    BY <1>1, <1>2, <1>3, <1>4
    DEF TbStart, TypeOK, TbTypeOK, TxPc, TxEnded, TbWaits, Running
  <1>5. CASE NextFile
    BY <1>1, <1>2, <1>3, <1>5
    DEF TbStart, NextFile, TypeOK, TbTypeOK, TxPc, TxEnded, TbWaits, Running
  <1> QED
    BY <1>4, <1>5 DEF TbStart

\* Actions that write nothing and stay with the file.
LEMMA TbReadTypes ==
  ASSUME TypeOK,
         TbDiscard \/ TbHeaderAck \/ ((TxOther \/ TxTerminal) /\ UNCHANGED <<tfile, tlast>>)
  PROVE  TbTypeOK' /\ LineTypeOK'
  <1>1. /\ toTx' = Tail(toTx) /\ toTx # <<>> /\ strays' = strays
        /\ UNCHANGED <<tcrc, terrs, tfile, tlast, toRx>>
    BY DEF TbDiscard, TbHeaderAck, TxOther, TxTerminal, Got, tbVars, txVars
  <1>2. LineTypeOK'
    BY <1>1, ReplyRead DEF TypeOK, LineTypeOK
  <1>3. \/ tpc' = tpc /\ tblk' = tblk
        \/ tpc \in Running /\ tpc' \in Running /\ tblk' = tblk
        \/ tpc = "hdr" /\ tpc' = "ok" /\ tblk' = 1
        \/ tpc = "hdr" /\ tpc' = "dataC" /\ tblk' = 1 /\ ~tlast
    BY DEF TbDiscard, TbHeaderAck, TxOther, TxTerminal, Running, tbVars, txVars
  <1>4. tfile \in 0..(Len(Batch) + 1) /\ Len(Batch) \in Nat
    BY BatchAssumption DEF TypeOK, TbTypeOK
  <1>5. CASE tpc' = tpc /\ tblk' = tblk
    BY <1>1, <1>2, <1>5 DEF TypeOK, TbTypeOK
  <1>6. CASE tpc \in Running /\ tpc' \in Running /\ tblk' = tblk
    BY <1>1, <1>2, <1>6 DEF TypeOK, TbTypeOK, TxPc, TxEnded, TbWaits, Running
  <1>7. CASE tpc = "hdr" /\ tpc' = "ok" /\ tblk' = 1
    BY <1>1, <1>2, <1>4, <1>7 DEF TypeOK, TbTypeOK, TxPc, TxEnded, TbWaits, Running
  <1>8. CASE tpc = "hdr" /\ tpc' = "dataC" /\ tblk' = 1 /\ ~tlast
    <2>1. tfile \in 1..Len(Batch)
      BY <1>4, <1>8 DEF TypeOK, TbTypeOK, TbWaits
    <2>2. 1 <= Len(Batch[tfile])
      BY <2>1, FileFacts
    <2> QED
      BY <1>1, <1>2, <1>4, <1>8, <2>2 DEF TypeOK, TbTypeOK, TxPc, TxEnded, TbWaits, Running
  <1> QED
    BY <1>3, <1>5, <1>6, <1>7, <1>8

\* Leaving the upload.
LEMMA TbLeaveTypes ==
  ASSUME TypeOK, TxAbort, UNCHANGED <<tfile, tlast, strays>>, toTx' \in Seq(Reply),
         tblk' \in Nat \ {0}, tcrc' \in BOOLEAN, terrs' \in 0..(MaxResends + 1)
  PROVE  TbTypeOK' /\ LineTypeOK'
  <1>1. toRx' \in Seq(Frame) /\ tpc' = "aborted"
    BY TxAbortTypes
  <1>2. LineTypeOK'
    BY <1>1 DEF TypeOK, LineTypeOK
  <1> QED
    BY <1>1, <1>2 DEF TypeOK, TbTypeOK, TxPc, TxEnded, TbWaits, Running

\* Sending a header or a block.
LEMMA TbSendTypes ==
  ASSUME TypeOK, NEW f \in Frame, Write(f), toTx' \in Seq(Reply), UNCHANGED <<tfile, tlast, strays>>,
         tpc \in TbWaits, tpc' \in {"hdr", "wait", "beot"},
         tpc' # "hdr" => ~tlast,
         tblk' \in Nat \ {0}, tpc' = "wait" => tblk' <= Len(Batch[tfile]),
         tcrc' \in BOOLEAN, terrs' \in 0..MaxResends
  PROVE  TbTypeOK' /\ LineTypeOK'
  <1>1. toRx' \in Seq(Frame)
    BY FrameSent DEF TypeOK, LineTypeOK
  <1>2. LineTypeOK'
    BY <1>1 DEF TypeOK, LineTypeOK
  <1>3. terrs' \in 0..(MaxResends + 1) /\ terrs' <= MaxResends
    BY SenderAssumption
  <1> QED
    BY <1>2, <1>3 DEF TypeOK, TbTypeOK, TxPc, TxEnded, TbWaits, Running

LEMMA TbHeaderTypes ==
  ASSUME TypeOK, TbC \/ TbHeaderNak
  PROVE  TbTypeOK' /\ LineTypeOK'
  <1>1. /\ toTx' \in Seq(Reply) /\ UNCHANGED <<tfile, tlast, strays>>
        /\ tblk' = tblk /\ tblk \in Nat \ {0} /\ tpc \in {"hdrC", "hdr"}
        /\ terrs \in 0..MaxResends /\ MaxResends \in Nat
    BY GotTypes, SenderAssumption
    DEF TbC, TbHeaderNak, TypeOK, TbTypeOK, TxEnded
  <1>2. tcrc' \in BOOLEAN
    BY Zenon DEF TbC, TbHeaderNak, TypeOK, TbTypeOK
  <1>3. ThisHeader \in Frame
    <2>1. tfile # 0
      BY <1>1 DEF TypeOK, TbTypeOK, TbWaits
    <2> QED
      BY <2>1, HeaderIsFrame DEF Headers, Blocks
  <1>4. CASE TbC
    BY <1>1, <1>2, <1>3, <1>4, TbSendTypes DEF TbC, TbWaits
  <1>5. CASE TbHeaderNak /\ terrs' <= MaxResends
    <2>1. terrs' \in 0..MaxResends
      BY <1>1, <1>5 DEF TbHeaderNak
    <2>2. Write(ThisHeader) /\ tpc = "hdr" /\ tpc' = "hdr"
      BY <1>5 DEF TbHeaderNak
    <2> QED
      BY <1>1, <1>2, <1>3, <2>1, <2>2, TbSendTypes DEF TbWaits
  <1>6. CASE TbHeaderNak /\ ~(terrs' <= MaxResends)
    <2>1. terrs' \in 0..(MaxResends + 1) /\ TxAbort
      BY <1>1, <1>6 DEF TbHeaderNak
    <2> QED
      BY <1>1, <1>2, <2>1, TbLeaveTypes
  <1> QED
    BY <1>4, <1>5, <1>6

\* While a file is sent: which one, and which block of it.
LEMMA SendingFacts ==
  ASSUME TypeOK, tpc \in {"dataC", "beot"} \cup Running
  PROVE  /\ ~tlast /\ tfile \in 1..Len(Batch) /\ tblk \in Nat \ {0}
         /\ tpc # "beot" => tblk \in 1..Len(Batch[tfile])
         /\ terrs \in 0..MaxResends /\ MaxResends \in Nat
  <1>1. /\ tpc \in TbWaits /\ tpc \notin TxEnded /\ ~tlast /\ tfile # 0 /\ tfile <= Len(Batch)
        /\ tfile \in Nat /\ tblk \in Nat \ {0} /\ Len(Batch) \in Nat
    BY BatchAssumption DEF TypeOK, TbTypeOK, Running, TxEnded, TbWaits
  <1>2. tfile \in 1..Len(Batch)
    BY <1>1
  <1>3. Len(Batch[tfile]) \in Nat
    BY <1>2, FileFacts
  <1> QED
    BY <1>1, <1>2, <1>3, SenderAssumption DEF TypeOK, TbTypeOK

LEMMA TbDataTypes ==
  ASSUME TypeOK, TbFirstBlock \/ TbAgain \/ TbAck
  PROVE  TbTypeOK' /\ LineTypeOK'
  <1>1. /\ toTx' \in Seq(Reply) /\ UNCHANGED <<tfile, tlast, strays>>
        /\ tpc \in {"dataC"} \cup Running
    BY GotTypes DEF TbFirstBlock, TbAgain, TbAck, Got, Running
  <1>2. /\ ~tlast /\ tblk \in Nat \ {0} /\ terrs \in 0..MaxResends /\ MaxResends \in Nat
        /\ tblk \in 1..Len(Batch[tfile]) /\ tpc \in TbWaits
    BY <1>1, SendingFacts DEF TbWaits, Running
  <1>3. PICK k \in 1..Len(Batch) : k = tfile
    BY <1>1, SendingFacts
  <1>4. Len(Batch[k]) \in Nat \ {0}
    BY FileFacts
  <1>5. tcrc' \in BOOLEAN
    BY Zenon DEF TbFirstBlock, TbAgain, TbAck, TypeOK, TbTypeOK
  <1>6. \A n \in 1..Len(Batch[k]) : DataBlock(n) \in Frame
    BY <1>3, <1>5, DataIsFrame
  <1>7. CASE TbFirstBlock
    <2>1. /\ 1 \in 1..Len(Batch[k]) /\ tpc' = "wait" /\ tblk' = tblk /\ terrs' = terrs
          /\ Write(DataBlock(1)) /\ tblk \in 1..Len(Batch[tfile])
      BY <1>2, <1>4, <1>7 DEF TbFirstBlock
    <2> QED
      BY <1>1, <1>2, <1>3, <1>4, <1>5, <1>6, <2>1, TbSendTypes
  <1>8. CASE TbAgain
    <2>1. terrs' = terrs + 1 /\ tblk' = tblk
      BY <1>8 DEF TbAgain
    <2>2. CASE terrs' <= MaxResends
      <3>1. terrs' \in 0..MaxResends /\ Write(DataBlock(tblk)) /\ tpc' = "wait"
        BY <1>2, <1>8, <2>1, <2>2 DEF TbAgain
      <3> QED
        BY <1>1, <1>2, <1>3, <1>5, <1>6, <2>1, <3>1, TbSendTypes
    <2>3. CASE ~(terrs' <= MaxResends)
      <3>1. terrs' \in 0..(MaxResends + 1) /\ TxAbort
        BY <1>2, <1>8, <2>1, <2>3 DEF TbAgain
      <3> QED
        BY <1>1, <1>2, <1>5, <2>1, <3>1, TbLeaveTypes
    <2> QED
      BY <2>2, <2>3
  <1>9. CASE TbAck
    <2>1. terrs' \in 0..MaxResends /\ tblk' = tblk + 1 /\ tblk' \in Nat \ {0}
      BY <1>2, <1>9 DEF TbAck
    <2>2. CASE tblk < Len(Batch[k])
      <3>1. tblk + 1 \in 1..Len(Batch[k]) /\ tpc' = "wait" /\ Write(DataBlock(tblk + 1))
        BY <1>2, <1>3, <1>4, <1>9, <2>2 DEF TbAck
      <3> QED
        BY <1>1, <1>2, <1>3, <1>5, <1>6, <2>1, <3>1, TbSendTypes
    <2>3. CASE ~(tblk < Len(Batch[k]))
      <3>1. tpc' = "beot" /\ Write(Control("EOT"))
        BY <1>3, <1>9, <2>3 DEF TbAck
      <3> QED
        BY <1>1, <1>2, <1>5, <2>1, <3>1, ControlIsFrame, TbSendTypes
    <2> QED
      BY <2>2, <2>3
  <1> QED
    BY <1>7, <1>8, <1>9

LEMMA TbEotAnswerTypes ==
  ASSUME TypeOK, TbEotAnswer
  PROVE  TbTypeOK' /\ LineTypeOK'
  <1>1. tpc = "beot" /\ tfile \in 1..Len(Batch) /\ Len(Batch) \in Nat
    BY SendingFacts, BatchAssumption DEF TbEotAnswer
  <1>2. toTx' \in Seq(Reply) /\ strays' = strays
    BY GotTypes DEF TbEotAnswer
  <1>3. LineTypeOK'
    BY <1>2 DEF TbEotAnswer, TypeOK, LineTypeOK
  <1>4. tlast' \in BOOLEAN /\ tcrc' \in BOOLEAN
    BY Zenon DEF TbEotAnswer, NextFile
  <1> QED
    BY <1>1, <1>3, <1>4
    DEF TbEotAnswer, NextFile, TypeOK, TbTypeOK, TxPc, TxEnded, TbWaits, Running

LEMMA TbGiveUpTypes ==
  ASSUME TypeOK, TbBreak \/ TbSilence \/ (TxCan /\ UNCHANGED <<tfile, tlast>>)
  PROVE  TbTypeOK' /\ LineTypeOK'
  <1>1. /\ TxAbort /\ UNCHANGED <<tblk, tcrc, terrs, tfile, tlast, strays>>
        /\ toTx' \in Seq(Reply)
    BY GotTypes DEF TbBreak, TbSilence, TxCan, TypeOK, LineTypeOK, Got
  <1>2. tblk' \in Nat \ {0} /\ tcrc' \in BOOLEAN /\ terrs' \in 0..(MaxResends + 1)
    BY <1>1, Zenon DEF TypeOK, TbTypeOK
  <1> QED
    BY <1>1, <1>2, TbLeaveTypes

LEMMA StrayTypes ==
  ASSUME TypeOK, StrayToRx \/ StrayToTx
  PROVE  LineTypeOK'
  <1>1. "junk" \in Reply /\ strays' \in 0..MaxStrays
    BY LineAssumption DEF Reply, StrayToRx, StrayToTx, TypeOK, LineTypeOK
  <1>2. /\ toRx \in Seq(Frame) /\ toTx \in Seq(Reply)
        /\ Control("junk") \in Frame
    BY ControlIsFrame DEF TypeOK, LineTypeOK
  <1>3. CASE toRx' = Append(toRx, Control("junk")) /\ toTx' = toTx
    <2>1. toRx' \in Seq(Frame)
      BY <1>2, <1>3, AppendProperties
    <2> QED
      BY <1>1, <1>2, <1>3, <2>1 DEF LineTypeOK
  <1>4. CASE toTx' = Append(toTx, "junk") /\ toRx' = toRx
    <2>1. toTx' \in Seq(Reply)
      BY <1>1, <1>2, <1>4, AppendProperties
    <2> QED
      BY <1>1, <1>2, <1>4, <2>1 DEF LineTypeOK
  <1> QED
    BY <1>3, <1>4 DEF StrayToRx, StrayToTx

\* Every variable keeps its type: the error counts stay within the limits, the
\* receiver names a file of the list, the sender sends a block it has.
THEOREM BatchTypes == Spec => []TypeOK
  <1>1. Init => TypeOK
    <2> SUFFICES ASSUME Init PROVE TypeOK
      OBVIOUS
    <2>1. Len(Batch) \in Nat
      BY BatchAssumption
    <2>2. rcrc \in BOOLEAN /\ tcrc \in BOOLEAN /\ tlast \in BOOLEAN /\ fresh \in BOOLEAN
      BY Zenon DEF Init, RbInit, RxInit, TbInit, TxInit
    <2>3. RbTypeOK
      BY <2>1, <2>2, EmptySeq, ReceiverAssumption
      DEF Init, RbInit, RxInit, RbTypeOK, RxPc, RxEnded
    <2>4. TbTypeOK
      BY <2>1, <2>2, SenderAssumption
      DEF Init, TbInit, TxInit, TbTypeOK, TxPc, TxEnded, TbWaits, Running
    <2>5. LineTypeOK
      BY EmptySeq, LineAssumption DEF Init, LineInit, LineTypeOK
    <2> QED
      BY <2>2, <2>3, <2>4, <2>5 DEF TypeOK
  <1>2. TypeOK /\ [Next]_vars => TypeOK'
    <2> SUFFICES ASSUME TypeOK, [Next]_vars PROVE TypeOK'
      OBVIOUS
    <2>1. CASE (RbStart \/ RbBreak \/ InFile(RxBreak) \/ RbStep) /\ UNCHANGED <<tbVars, fresh>>
      <3>0. RbSecondEotSkip => UNCHANGED batchVars
        BY DEF RbSecondEotSkip, rbVars
      <3>1. RbTypeOK' /\ LineTypeOK'
        BY <2>1, <3>0, RbStartTypes, RbBreakTypes, RxPlainTypes, RxFrameTypes, RbHeaderTypes,
           RbEotTypes, RbCloseTypes, RbTimerTypes
        DEF RbStep
      <3>2. UNCHANGED <<tpc, tblk, tcrc, terrs, tfile, tlast, fresh>>
        BY <2>1 DEF tbVars, txVars
      <3> QED
        BY <3>1, <3>2 DEF TypeOK, TbTypeOK
    <2>2. CASE TbBegin /\ UNCHANGED rbVars
      <3>1. TbTypeOK' /\ LineTypeOK' /\ fresh' \in BOOLEAN
        BY <2>2, TbStartTypes DEF TbBegin
      <3>2. RbTypeOK'
        BY <2>2 DEF TypeOK, RbTypeOK, rbVars, rxVars, batchVars
      <3> QED
        BY <3>1, <3>2 DEF TypeOK
    <2>3. CASE (TbBreak \/ TbStep) /\ UNCHANGED <<rbVars, fresh>>
      <3>1. TbTypeOK' /\ LineTypeOK'
        BY <2>3, TbGiveUpTypes, TbReadTypes, TbHeaderTypes, TbDataTypes, TbEotAnswerTypes
        DEF TbStep, TbTimer
      <3>2. RbTypeOK' /\ fresh' \in BOOLEAN
        BY <2>3 DEF TypeOK, RbTypeOK, rbVars, rxVars, batchVars
      <3> QED
        BY <3>1, <3>2 DEF TypeOK
    <2>4. CASE (StrayToRx \/ StrayToTx) /\ UNCHANGED <<rbVars, tbVars, fresh>>
      <3>1. LineTypeOK'
        BY <2>4, StrayTypes
      <3> QED
        BY <2>4, <3>1
        DEF TypeOK, RbTypeOK, TbTypeOK, rbVars, rxVars, batchVars, tbVars, txVars
    <2>5. CASE UNCHANGED vars
      BY <2>5 DEF TypeOK, RbTypeOK, TbTypeOK, LineTypeOK, vars, rbVars, rxVars, batchVars,
                  tbVars, txVars, lineVars
    <2> QED
      BY <2>1, <2>2, <2>3, <2>4, <2>5 DEF Next
  <1> QED
    BY <1>1, <1>2, PTL DEF Spec

-----------------------------------------------------------------------------
(* The receiver's steps keep both sides in phase.                          *)

LEMMA TypeFacts ==
  ASSUME TypeOK
  PROVE  /\ toRx \in Seq(Frame) /\ toTx \in Seq(Reply)
         /\ rbuf \in Seq(Nat) /\ rfile \in Seq(Nat) /\ Held \in Seq(Nat)
         /\ rblk \in Nat /\ rhead \in 0..Len(Batch) /\ Len(Batch) \in Nat
         /\ rfiles \in Seq([name : Nat, blocks : Seq(Nat)]) /\ Len(rfiles) \in Nat
         /\ tfile \in Nat /\ tblk \in Nat \ {0}
  BY BatchAssumption DEF TypeOK, RbTypeOK, TbTypeOK, LineTypeOK, Held

\* Less is left to read.
LEMMA LessToRead ==
  ASSUME toRx \in Seq(Frame),
         toRx' \in {toRx, <<>>} \/ (toRx # <<>> /\ toRx' = Tail(toRx))
  PROVE  /\ toRx' \in Seq(Frame) /\ Range(toRx') \subseteq Range(toRx)
         /\ \A S : NoneOf(toRx, S) => NoneOf(toRx', S)
         /\ InOrder => InOrder'
  <1>1. CASE toRx' = toRx
    BY <1>1 DEF InOrder
  <1>2. CASE toRx' = <<>>
    <2>1. toRx' \in Seq(Frame) /\ \A S : NoneOf(toRx', S)
      BY <1>2, EmptySeq, EmptyHasNone DEF NoneOf
    <2>2. \A A, B : NoneAfter(toRx', A, B)
      BY <2>1, NoneIsOrdered
    <2> QED
      BY <1>2, <2>1, <2>2, EmptyHasNone DEF InOrder
  <1>3. CASE toRx # <<>> /\ toRx' = Tail(toRx)
    <2>1. \A A, B : NoneAfter(toRx, A, B) => NoneAfter(toRx', A, B)
      BY <1>3, TailIsOrdered
    <2> QED
      BY <1>3, <2>1, FrameRead DEF InOrder
  <1> QED
    BY <1>1, <1>2, <1>3

\* An answer is written: never a C while a file is open, an ACK only then.
LEMMA AnswerFits ==
  ASSUME toTx \in Seq(Reply), NEW r \in Seq(Reply), Len(r) <= 1, toTx' = toTx \o r
  PROVE  /\ NoneOf(r, {"ACK"}) =>
              /\ NoneOf(toTx, {"ACK"}) => NoneOf(toTx', {"ACK"})
              /\ NoAckAfterC => NoAckAfterC'
         /\ NoneOf(r, {"C"}) =>
              /\ NoneOf(toTx, {"C"}) => NoneOf(toTx', {"C"})
              /\ OneC => OneC'
              /\ OneCAfterAck(toTx) => OneCAfterAck(toTx')
  <1>1. \A c : NoneOf(r, {c}) /\ NoneOf(toTx, {c}) => NoneOf(toTx', {c})
    BY Behind DEF NoneOf
  <1>2. NoneOf(r, {"ACK"}) /\ NoAckAfterC => NoAckAfterC'
    BY BehindIsOrdered DEF NoAckAfterC
  <1>3. NoneOf(r, {"C"}) /\ OneC => OneC'
    BY BehindIsOrdered DEF OneC
  <1>4. NoneOf(r, {"C"}) /\ OneCAfterAck(toTx) => OneCAfterAck(toTx')
    BY BehindHasOneC
  <1> QED
    BY <1>1, <1>2, <1>3, <1>4

LEMMA RxAnswersFit ==
  ASSUME TypeOK, InPhase, Alive, UNCHANGED tbVars, UNCHANGED <<rbuf, rfile, batchVars>>,
         toRx' \in {toRx, <<>>} \/ (toRx # <<>> /\ toRx' = Tail(toRx)),
         NEW r \in Seq(Reply), Len(r) <= 1, toTx' = toTx \o r,
         HasFile => NoneOf(r, {"C"}), ~HasFile => NoneOf(r, {"ACK"}),
         \/ rpc' = rpc /\ rblk' = rblk
         \/ HasFile /\ rblk' = rblk /\ rpc' \in {"poll", "recv", "purge"}
         \/ ~HasFile /\ rblk' = 0 /\ rpc' \in {"negC", "negN", "poll", "recv"}
  PROVE  InPhase'
  <1>1. toRx \in Seq(Frame) /\ toTx \in Seq(Reply)
    BY TypeFacts
  <1>2. /\ Range(toRx') \subseteq Range(toRx)
        /\ InOrder => InOrder'
        /\ \A S : NoneOf(toRx, S) => NoneOf(toRx', S)
    BY <1>1, LessToRead
  <1>3. UNCHANGED <<rbuf, rfile, rname, rhead, rfiles, tpc, tblk, tcrc, terrs, tfile, tlast>>
    BY DEF batchVars, tbVars, txVars
  <1>4. Held' = Held /\ ThisHeader' = ThisHeader /\ HasFile' = HasFile
    BY <1>3 DEF Held, ThisHeader, HasFile
  <1>5. ClosedFit'
    BY <1>3 DEF InPhase, ClosedFit, PartOf
  <1>6. RxPhase /\ FramesFit /\ TxPhase
    BY DEF InPhase
  <1>7. RxPhase'
    BY <1>2, <1>3, <1>4, <1>6 DEF RxPhase, PartOf, HasFile
  <1>8. FramesFit'
    <2>1. \A f : /\ IsHeader(f)' <=> IsHeader(f)
                 /\ HasFile => (DataFits(f.num, f.pos) => DataFits(f.num, f.pos)')
      BY <1>3, <1>4 DEF DataFits, IsHeader
    <2>2. InOrder' /\ NoneOf(toRx', Torn) /\ (HasFile' \/ NoneOf(toRx', Eots))
      BY <1>2, <1>4, <1>6 DEF FramesFit
    <2>3. \A f \in Range(toRx') \cap Headers :
             /\ f.num = 0
             /\ HasFile' => rblk' = 1
             /\ ~HasFile' => f = ThisHeader' \/ f.kind = "bad"
             /\ ~HasFile' => tfile' = Len(rfiles') + 1
      BY <1>2, <1>3, <1>4, <1>6 DEF FramesFit
    <2>4. \A f \in Range(toRx') \cap Datas : HasFile' /\ DataFits(f.num, f.pos)'
      BY <1>2, <1>4, <1>6, <2>1 DEF FramesFit
    <2> QED
      BY <2>2, <2>3, <2>4 DEF FramesFit
  <1>9. TxPhase'
    <2>1. /\ ~HasFile =>
               /\ NoneOf(toTx, {"ACK"}) => NoneOf(toTx', {"ACK"})
               /\ NoAckAfterC => NoAckAfterC'
          /\ HasFile =>
               /\ NoneOf(toTx, {"C"}) => NoneOf(toTx', {"C"})
               /\ OneC => OneC'
               /\ OneCAfterAck(toTx) => OneCAfterAck(toTx')
      BY <1>1, AnswerFits
    <2>2. Asking => Asking'
      BY <1>2, <1>3, <1>6 DEF Asking
    <2>3. rpc # "eot" => rpc' # "eot"
      OBVIOUS
    <2>4. tpc \in Running =>
            /\ DataFits(Low(tblk), Batch[tfile][tblk])
                 => DataFits(Low(tblk), Batch[tfile][tblk])'
      BY <1>3, <1>4, <1>6 DEF DataFits, TxPhase
    <2>5. HasFile => rblk' = rblk
      OBVIOUS
    <2> QED
      BY <1>2, <1>3, <1>4, <1>6, <2>1, <2>2, <2>3, <2>4, <2>5 DEF TxPhase
  <1> QED
    BY <1>5, <1>7, <1>8, <1>9 DEF InPhase

\* What the first frame may be, while blocks keep their first byte.
LEMMA HeadKinds ==
  ASSUME TypeOK, InPhase, Alive, toRx # <<>>
  PROVE  /\ Head(toRx) \in Frame \cap Range(toRx)
         /\ Head(toRx).kind = "blk" => Head(toRx) \in Blocks
         /\ ReadsAsEot(Head(toRx)) => Head(toRx) \in Eots
         /\ ReadsAsCancel(Head(toRx)) => Head(toRx) \in Cans
         /\ ReadsAsNothing(Head(toRx)) => Head(toRx).kind = "junk"
         /\ IsRejected(Head(toRx)) => Head(toRx) \in Blocks
  <1>1. Head(toRx) \in Frame \cap Range(toRx)
    BY TypeFacts, TailOf
  <1>2. Head(toRx).kind # "torn"
    BY <1>1 DEF InPhase, FramesFit, NoneOf, Torn
  <1> QED
    BY <1>1, <1>2
    DEF Blocks, BlkKinds, Eots, Cans, ReadsAsEot, ReadsAsCancel, ReadsAsNothing, IsRejected

\* A block of the file that is open, of a number that stands for it.
LEMMA FitsFile ==
  ASSUME NEW num, NEW pos, DataFits(num, pos), rhead \in 1..Len(Batch)
  PROVE  pos \in Range(Batch[rhead]) /\ pos \in 1..NBlocks /\ pos \in Nat
  <1>1. PICK n \in 1..Len(Batch[rhead]) : pos = Batch[rhead][n]
    BY DEF DataFits
  <1>2. pos \in 1..NBlocks /\ DOMAIN Batch[rhead] = 1..Len(Batch[rhead])
    BY <1>1, FileFacts, LenProperties
  <1> QED
    BY <1>1, <1>2, LineAssumption DEF Range

\* Two blocks of a file whose numbers differ are different blocks.
LEMMA OtherNumberOtherBlock ==
  ASSUME NEW k \in 1..Len(Batch), NEW m \in 1..Len(Batch[k]), NEW n \in 1..Len(Batch[k]),
         Low(m) # Low(n)
  PROVE  Batch[k][m] # Batch[k][n]
  <1>1. m \in Nat /\ n \in Nat /\ Len(Batch[k]) \in Nat
    BY FileFacts
  <1>2. m < n \/ n < m
    BY <1>1
  <1>3. Batch[k][m] \in Int /\ Batch[k][n] \in Int
    BY FileFacts, LineAssumption
  <1> QED
    BY <1>2, <1>3, FileFacts

\* Sub_4191 in a batch: what may come after the stored block, may still come.
LEMMA StoredFits ==
  ASSUME TypeOK, RxPhase, HasFile, NEW num, NEW pos, DataFits(num, pos), num = Low(rblk),
         Store(pos), rblk' = rblk + 1, rhead' = rhead
  PROVE  /\ PartOf(Held', rhead)
         /\ \A b, p : DataFits(b, p) /\ pos <= p => DataFits(b, p)'
  <1>1. /\ rbuf \in Seq(Nat) /\ rfile \in Seq(Nat) /\ Held \in Seq(Nat) /\ Len(Held) \in Nat
        /\ rblk \in Nat /\ rhead \in 1..Len(Batch) /\ PartOf(Held, rhead)
    <2>1. Held \in Seq(Nat) /\ rhead \in 0..Len(Batch) /\ Len(rfiles) \in Nat
          /\ Len(Batch) \in Nat
      BY TypeFacts
    <2>2. rhead = Len(rfiles) + 1 /\ rhead <= Len(Batch) /\ PartOf(Held, rhead)
      BY DEF RxPhase
    <2> QED
      BY <2>1, <2>2, TypeFacts, LenProperties
  <1>2. pos \in Range(Batch[rhead]) /\ pos \in Nat
    BY <1>1, FitsFile
  <1>3. PICK h \in Seq(Nat) : /\ Held' = Append(h, pos) /\ Len(h) <= Len(Held)
                              /\ \A i \in 1..Len(h) : h[i] = Held[i]
    BY <1>1, <1>2, StoreHolds
  <1>4. /\ Len(Held') = Len(h) + 1 /\ Len(h) \in Nat /\ Held' \in Seq(Nat)
        /\ \A i \in 1..Len(h) : Held'[i] = Held[i] /\ i \in 1..Len(Held)
        /\ Held'[Len(h) + 1] = pos
        /\ \A i \in 1..Len(Held) : Held[i] \in Nat
    BY <1>1, <1>2, <1>3
  <1>5. \A i \in 1..Len(Held') : i \in 1..Len(h) \/ i = Len(h) + 1
    BY <1>4
  <1>6. \A i \in 1..Len(Held) : Held[i] < pos
    BY DEF DataFits
  <1>7. PartOf(Held', rhead)
    <2>1. Range(Held') \subseteq Range(Batch[rhead])
      <3>1. DOMAIN Held = 1..Len(Held) /\ DOMAIN Held' = 1..Len(Held')
        BY <1>1, <1>4, LenProperties
      <3>2. \A i \in 1..Len(Held) : Held[i] \in Range(Batch[rhead])
        BY <1>1, <3>1 DEF PartOf, Range
      <3>3. \A i \in 1..Len(Held') : Held'[i] \in Range(Batch[rhead])
        BY <1>2, <1>4, <1>5, <3>2
      <3> QED
        BY <3>1, <3>3 DEF Range
    <2>2. ASSUME NEW i \in 1..Len(Held'), NEW j \in 1..Len(Held'), i < j
          PROVE  Held'[i] < Held'[j]
      <3>1. i \in 1..Len(h)
        BY <1>4, <1>5, <2>2
      <3>2. CASE j \in 1..Len(h)
        BY <1>1, <1>4, <2>2, <3>1, <3>2 DEF PartOf
      <3>3. CASE j = Len(h) + 1
        BY <1>4, <1>6, <3>1, <3>3
      <3> QED
        BY <1>5, <3>2, <3>3
    <2> QED
      BY <2>1, <2>2 DEF PartOf
  <1>8. ASSUME NEW b, NEW p, DataFits(b, p), pos <= p
        PROVE  DataFits(b, p)'
    <2>1. PICK n \in 1..Len(Batch[rhead]) : p = Batch[rhead][n] /\ b = Low(n)
      BY <1>8 DEF DataFits
    <2>2. PICK m \in 1..Len(Batch[rhead]) : pos = Batch[rhead][m] /\ num = Low(m)
      BY DEF DataFits
    <2>3. p \in Nat
      BY <1>1, <1>8, FitsFile
    <2>4. b = Low(rblk') => pos < p
      <3> SUFFICES ASSUME b = Low(rblk + 1) PROVE pos < p
        OBVIOUS
      <3>1. Low(m) # Low(n)
        BY <1>1, <2>1, <2>2, NextByteDiffers
      <3>2. pos # p
        BY <1>1, <2>1, <2>2, <3>1, OtherNumberOtherBlock
      <3> QED
        BY <1>2, <1>8, <2>3, <3>2
    <2>5. \A i \in 1..Len(Held') : Held'[i] <= p /\ (b = Low(rblk') => Held'[i] < p)
      <3> SUFFICES ASSUME NEW i \in 1..Len(Held')
                   PROVE  Held'[i] <= p /\ (b = Low(rblk') => Held'[i] < p)
        OBVIOUS
      <3>1. CASE i \in 1..Len(h)
        <4>1. Held'[i] = Held[i] /\ Held[i] \in Nat /\ Held[i] < pos
          BY <1>4, <1>6, <3>1
        <4>2. Held[i] < p
          BY <1>2, <1>8, <2>3, <4>1
        <4> QED
          BY <2>3, <4>1, <4>2
      <3>2. CASE i = Len(h) + 1
        BY <1>4, <1>8, <2>4, <3>2
      <3> QED
        BY <1>5, <3>1, <3>2
    <2> QED
      BY <2>1, <2>5 DEF DataFits
  <1> QED
    BY <1>7, <1>8

\* Why nothing but a block of data is stored: while a file is open a header
\* does not have the number that is expected.
LEMMA HeaderIsNotExpected ==
  ASSUME TypeOK, InPhase, Alive, toRx # <<>>, HasFile, Head(toRx).kind = "blk",
         IsExpected(Head(toRx))
  PROVE  Head(toRx) \in Datas /\ DataFits(Head(toRx).num, Head(toRx).pos)
  <1>1. Head(toRx) \in Range(toRx) \cap Blocks
    BY HeadKinds
  <1>2. Head(toRx) \notin Headers
    <2>1. Low(0) = 0
      BY LineAssumption DEF Low
    <2>2. Low(1) # 0
      <3>1. Low(0 + 1) # Low(0) /\ 0 + 1 = 1
        BY NextByteDiffers
      <3> QED
        BY <2>1, <3>1
    <2>3. Head(toRx) \in Headers => Head(toRx).num = 0 /\ rblk = 1
      BY <1>1 DEF InPhase, FramesFit
    <2> QED
      BY <2>2, <2>3 DEF IsExpected
  <1> QED
    BY <1>1, <1>2 DEF InPhase, FramesFit, Headers, Datas

\* One reply more.
LEMMA OneReply ==
  ASSUME toTx \in Seq(Reply), NEW c \in Reply, Reply1(toTx, c)
  PROVE  \E r \in Seq(Reply) : Len(r) <= 1 /\ toTx' = toTx \o r /\ Range(r) \subseteq {c, "junk"}
  <1>1. PICK r \in ReplyArrives(c) : toTx' = toTx \o r
    BY DEF Reply1
  <1>2. r \in Seq(Reply) /\ Range(r) \subseteq {c, "junk"}
    BY ReplyArrival
  <1>3. Len(r) <= 1
    <2>1. r = <<>> \/ r = <<c>> \/ r = <<"junk">>
      BY DEF ReplyArrives
    <2>2. CASE r = <<>>
      BY <2>2
    <2>3. CASE \E d : r = <<d>>
      BY <2>3
    <2> QED
      BY <2>1, <2>2, <2>3
  <1> QED
    BY <1>1, <1>2, <1>3

LEMMA RxDataFits ==
  ASSUME TypeOK, InPhase, Alive, HasFile, RxData, UNCHANGED batchVars, UNCHANGED tbVars
  PROVE  InPhase'
  <1> DEFINE f == Head(toRx)
  <1>1. /\ toRx \in Seq(Frame) /\ toTx \in Seq(Reply) /\ toRx # <<>> /\ rblk \in Nat
        /\ toRx' = Tail(toRx) /\ rpc' = "poll" /\ rblk' = rblk + 1
        /\ f.kind = "blk" /\ IsExpected(f) /\ Store(f.pos) /\ Reply1(toTx, "ACK")
    BY TypeFacts DEF RxData, Receiving
  <1>2. f \in Datas /\ DataFits(f.num, f.pos) /\ f.num = Low(rblk)
    BY <1>1, HeaderIsNotExpected DEF IsExpected
  <1>3. UNCHANGED <<rname, rhead, rfiles, tpc, tblk, tcrc, terrs, tfile, tlast>>
    BY DEF batchVars, tbVars, txVars
  <1>4. RxPhase /\ FramesFit /\ TxPhase
    BY DEF InPhase
  <1>5. /\ PartOf(Held', rhead)
        /\ \A b, p : DataFits(b, p) /\ f.pos <= p => DataFits(b, p)'
    BY <1>1, <1>2, <1>3, <1>4, StoredFits
  <1>6. /\ Range(toRx') \subseteq Range(toRx) /\ Head(toRx) \in Range(toRx)
        /\ \A S : NoneOf(toRx, S) => NoneOf(toRx', S)
        /\ InOrder'
    BY <1>1, <1>4, LessToRead, HeadKinds DEF FramesFit
  <1>7. /\ NoneOf(toRx', Headers)
        /\ \A g \in Range(toRx') \cap Datas : f.pos <= g.pos
    <2>1. /\ NoneAfter(toRx, Datas, Headers)
          /\ \A n \in 1..NBlocks :
                NoneAfter(toRx, {g \in Datas : g.pos > n}, {g \in Datas : g.pos <= n})
      BY <1>4 DEF FramesFit, InOrder
    <2>2. NoneOf(toRx', Headers)
      BY <1>1, <1>2, <2>1, TailIsOrdered
    <2>3. ASSUME NEW g \in Range(toRx') \cap Datas, ~(f.pos <= g.pos)
          PROVE  FALSE
      <3>1. g.pos \in 1..NBlocks /\ f.pos \in 1..NBlocks
        <4>1. DataFits(g.num, g.pos) /\ rhead \in 1..Len(Batch)
          BY <1>4, <1>6, <2>3, TypeFacts DEF FramesFit, RxPhase
        <4> QED
          BY <1>2, <4>1, FitsFile
      <3>2. f \in {x \in Datas : x.pos > g.pos} /\ g \in {x \in Datas : x.pos <= g.pos}
        BY <1>2, <2>3, <3>1
      <3>3. NoneOf(toRx', {x \in Datas : x.pos <= g.pos})
        BY <1>1, <2>1, <3>1, <3>2, TailIsOrdered
      <3> QED
        BY <2>3, <3>2, <3>3 DEF NoneOf
    <2> QED
      BY <2>2, <2>3
  <1>8. PICK r \in Seq(Reply) : Len(r) <= 1 /\ toTx' = toTx \o r /\ NoneOf(r, {"C"})
    <2>1. "ACK" \in Reply
      BY ReplyKinds
    <2>2. PICK r \in Seq(Reply) :
             Len(r) <= 1 /\ toTx' = toTx \o r /\ Range(r) \subseteq {"ACK", "junk"}
      BY <1>1, <2>1, OneReply
    <2> QED
      BY <2>2 DEF NoneOf
  <1>9. /\ NoneOf(toTx, {"C"}) => NoneOf(toTx', {"C"})
        /\ OneCAfterAck(toTx) => OneCAfterAck(toTx')
    BY <1>1, <1>8, AnswerFits
  <1>10. HasFile' /\ RxPhase'
    <2>1. rblk' # 0 /\ rblk' # 1
      BY <1>1, <1>4 DEF RxPhase
    <2> QED
      BY <1>1, <1>3, <1>4, <1>5, <2>1 DEF RxPhase, HasFile
  <1>11. FramesFit'
    <2>1. \A g \in Range(toRx') \cap Datas : DataFits(g.num, g.pos)'
      BY <1>4, <1>5, <1>6, <1>7 DEF FramesFit
    <2> QED
      BY <1>4, <1>6, <1>7, <1>10, <2>1 DEF FramesFit, NoneOf
  <1>12. TxPhase'
    <2>1. tpc \notin {"idle", "hdr", "dataC"}
      BY <1>2, <1>4, <1>6 DEF TxPhase, Asking, NoneOf, Marks, Datas
    <2>2. tpc \in Running => DataFits(Low(tblk), Batch[tfile][tblk])'
      BY <1>2, <1>3, <1>4, <1>5, <1>6 DEF TxPhase
    <2> QED
      BY <1>1, <1>3, <1>4, <1>6, <1>9, <1>10, <2>1, <2>2 DEF TxPhase, HasFile
  <1>13. ClosedFit'
    BY <1>3 DEF InPhase, ClosedFit, PartOf
  <1> QED
    BY <1>10, <1>11, <1>12, <1>13 DEF InPhase

\* ACK and C, of which the line may lose or damage each.
LEMMA AckAndC ==
  ASSUME toTx \in Seq(Reply), Reply2("ACK", "C")
  PROVE  \E r, s \in Seq(Reply) :
           /\ Len(r) <= 1 /\ Range(r) \subseteq {"ACK", "junk"}
           /\ Len(s) <= 1 /\ Range(s) \subseteq {"C", "junk"}
           /\ toTx' = (toTx \o r) \o s
  <1>1. PICK r \in ReplyArrives("ACK"), s \in ReplyArrives("C") : toTx' = (toTx \o r) \o s
    BY DEF Reply2
  <1>2. /\ r \in Seq(Reply) /\ Range(r) \subseteq {"ACK", "junk"}
        /\ s \in Seq(Reply) /\ Range(s) \subseteq {"C", "junk"}
    BY ReplyKinds, ReplyArrival
  <1>3. /\ r = <<>> \/ \E d : r = <<d>>
        /\ s = <<>> \/ \E d : s = <<d>>
    BY DEF ReplyArrives
  <1>4. Len(r) <= 1
    <2>1. CASE r = <<>>
      BY <2>1
    <2>2. CASE \E d : r = <<d>>
      BY <2>2
    <2> QED
      BY <1>3, <2>1, <2>2
  <1>5. Len(s) <= 1
    <2>1. CASE s = <<>>
      BY <2>1
    <2>2. CASE \E d : s = <<d>>
      BY <2>2
    <2> QED
      BY <1>3, <2>1, <2>2
  <1> QED
    BY <1>1, <1>2, <1>4, <1>5

LEMMA AckAndCFit ==
  ASSUME toTx \in Seq(Reply), Reply2("ACK", "C")
  PROVE  /\ NoneOf(toTx, {"ACK"}) => OneCAfterAck(toTx')
         /\ NoneOf(toTx, {"C"}) => NoAckAfterC'
  <1>1. PICK r \in Seq(Reply), s \in Seq(Reply) :
           /\ Len(r) <= 1 /\ Range(r) \subseteq {"ACK", "junk"}
           /\ Len(s) <= 1 /\ Range(s) \subseteq {"C", "junk"}
           /\ toTx' = (toTx \o r) \o s
    BY AckAndC
  <1>2. /\ toTx \o r \in Seq(Reply) /\ NoneOf(r, {"C"}) /\ NoneOf(s, {"ACK"})
        /\ Range(toTx \o r) = Range(toTx) \cup Range(r)
    BY <1>1, Behind DEF NoneOf
  <1>3. ASSUME NoneOf(toTx, {"ACK"})
        PROVE  OneCAfterAck(toTx')
    <2>1. NoneAfter(toTx \o r, {"ACK"}, {"C"})
      <3>1. NoneAfter(toTx, {"ACK"}, {"C"})
        BY <1>3, NoneIsOrdered
      <3> QED
        BY <1>1, <1>3, <3>1, BehindIsOrdered
    <2> QED
      BY <1>1, <1>2, <2>1, BehindHasOneC
  <1>4. ASSUME NoneOf(toTx, {"C"})
        PROVE  NoAckAfterC'
    <2>1. NoneOf(toTx \o r, {"C"})
      BY <1>2, <1>4 DEF NoneOf
    <2>2. NoneAfter(toTx \o r, {"C"}, {"ACK"})
      BY <1>2, <2>1, NoneIsOrdered
    <2> QED
      BY <1>1, <1>2, <2>2, BehindIsOrdered DEF NoAckAfterC
  <1> QED
    BY <1>3, <1>4

LEMMA EmptyIsPart ==
  ASSUME NEW b, b = <<>>, NEW k
  PROVE  PartOf(b, k)
  <1>1. Range(b) = {} /\ 1..Len(b) = {}
    BY EmptyHasNone, EmptySeq
  <1> QED
    BY <1>1 DEF PartOf

\* A header names the file behind the ones that were closed.
LEMMA HeaderIsNext ==
  ASSUME TypeOK, InPhase, Alive, toRx # <<>>, rblk = 0, Head(toRx).kind = "blk",
         IsHeader(Head(toRx))
  PROVE  /\ ~HasFile /\ tfile = Len(rfiles) + 1 /\ Head(toRx) = ThisHeader
         /\ Head(toRx) \in Headers \cap Range(toRx)
         /\ HeaderOf(Head(toRx)) <= Len(Batch) =>
              HeaderOf(Head(toRx)) = tfile /\ ~tlast
  <1>1. Head(toRx) \in Headers \cap Range(toRx)
    BY HeadKinds DEF Headers
  <1>2. ~HasFile
    BY DEF InPhase, RxPhase
  <1>3. tfile = Len(rfiles) + 1 /\ Head(toRx) = ThisHeader
    BY <1>1, <1>2 DEF InPhase, FramesFit
  <1>4. tfile # 0 /\ Len(Batch) \in Nat
    BY <1>3, TypeFacts
  <1> QED
    BY <1>1, <1>2, <1>3, <1>4, HeaderIsFrame

LEMMA RbHeaderFits ==
  ASSUME TypeOK, InPhase, Alive, RbHeader, Alive', UNCHANGED tbVars
  PROVE  InPhase'
  <1> DEFINE f == Head(toRx)
  <1>1. /\ toRx \in Seq(Frame) /\ toTx \in Seq(Reply) /\ toRx # <<>> /\ rblk = 0
        /\ f.kind = "blk" /\ IsHeader(f) /\ HeaderOf(f) <= Len(Batch)
    BY TypeFacts DEF RbHeader, ReceivingHeader, Receiving
  <1>2. /\ rname' = "file" /\ rhead' = HeaderOf(f) /\ rblk' = 1 /\ rpc' = "poll"
        /\ toRx' = Tail(toRx) /\ Reply2("ACK", "C") /\ UNCHANGED <<rbuf, rfile, rfiles>>
    BY DEF RbHeader, RbGiveUp, Alive, RxEnded
  <1>3. /\ ~HasFile /\ f = ThisHeader /\ f \in Headers \cap Range(toRx)
        /\ tfile = Len(rfiles) + 1 /\ HeaderOf(f) = tfile /\ ~tlast
    BY <1>1, HeaderIsNext
  <1>4. UNCHANGED <<tpc, tblk, tfile, tlast>>
    BY DEF tbVars, txVars
  <1>5. RxPhase /\ FramesFit /\ TxPhase
    BY DEF InPhase
  <1>6. /\ Range(toRx') \subseteq Range(toRx)
        /\ \A S : NoneOf(toRx, S) => NoneOf(toRx', S)
        /\ InOrder'
    BY <1>1, <1>2, <1>5, LessToRead DEF FramesFit
  <1>7. NoneOf(toRx, Datas \cup Eots)
    BY <1>3, <1>5 DEF FramesFit, NoneOf
  <1>8. HasFile' /\ RxPhase' /\ Held' = <<>>
    <2>1. rbuf' = <<>> /\ rfile' = <<>> /\ Held' = <<>>
      BY <1>2, <1>3, <1>5, EmptySeq, ConcatEmptySeq DEF RxPhase, Held
    <2> QED
      BY <1>1, <1>2, <1>3, <2>1, EmptyIsPart DEF RxPhase, HasFile
  <1>9. FramesFit'
    BY <1>2, <1>5, <1>6, <1>7, <1>8 DEF FramesFit, NoneOf
  <1>10. TxPhase'
    <2>1. f \in Marks /\ f \in Blocks
      BY <1>3 DEF Headers, Marks
    <2>2. tpc \notin {"idle", "hdrC", "dataC", "beot"} \cup Running
      BY <1>3, <1>5, <2>1, TypeFacts DEF TxPhase, NoneOf, Running
    <2>3. tpc = "hdr" => OneCAfterAck(toTx') /\ Asking'
      BY <1>1, <1>2, <1>3, <1>4, <1>5, <1>6, AckAndCFit DEF TxPhase, Asking
    <2> QED
      BY <1>2, <1>3, <1>4, <1>8, <2>2, <2>3 DEF TxPhase
  <1>11. ClosedFit'
    BY <1>2 DEF InPhase, ClosedFit, PartOf
  <1> QED
    BY <1>8, <1>9, <1>10, <1>11 DEF InPhase

\* A beginning of a part is a part.
LEMMA BeginningIsPart ==
  ASSUME NEW h \in Seq(Nat), NEW b \in Seq(Nat), NEW k, PartOf(b, k), Len(h) <= Len(b),
         \A i \in 1..Len(h) : h[i] = b[i]
  PROVE  PartOf(h, k)
  <1>1. /\ Len(h) \in Nat /\ Len(b) \in Nat
        /\ DOMAIN h = 1..Len(h) /\ DOMAIN b = 1..Len(b)
    BY LenProperties
  <1>2. \A i \in 1..Len(h) : i \in 1..Len(b)
    BY <1>1
  <1>3. Range(h) \subseteq Range(b)
    BY <1>1, <1>2 DEF Range
  <1>4. \A i, j \in 1..Len(h) : i < j => h[i] < h[j]
    BY <1>2 DEF PartOf
  <1> QED
    BY <1>3, <1>4 DEF PartOf

LEMMA RbEotFits ==
  ASSUME TypeOK, InPhase, Alive, RbEot, UNCHANGED tbVars
  PROVE  InPhase'
  <1>1. /\ toRx \in Seq(Frame) /\ toTx \in Seq(Reply) /\ toRx # <<>> /\ rblk # 0
        /\ toRx' = Tail(toRx) /\ rpc = "recv" /\ rpc' \in {"eot", "purge"}
        /\ Held \in Seq(Nat) /\ rbuf \in Seq(Nat) /\ rfile \in Seq(Nat)
    BY TypeFacts DEF RbEot, Receiving
  <1>2. UNCHANGED <<rblk, rname, rhead, rfiles, tpc, tblk, tfile, tlast>>
    BY DEF RbEot, batchVars, tbVars, txVars
  <1>3. RxPhase /\ FramesFit /\ TxPhase /\ HasFile
    BY <1>1 DEF InPhase, RxPhase
  <1>4. Head(toRx) \in Eots \cap Range(toRx) /\ Head(toRx) \in Marks
    BY <1>1, HeadKinds DEF RbEot, Marks
  <1>5. /\ Range(toRx') \subseteq Range(toRx)
        /\ \A S : NoneOf(toRx, S) => NoneOf(toRx', S)
        /\ InOrder'
    BY <1>1, <1>3, LessToRead DEF FramesFit
  <1>6. NoneOf(toRx', Marks)
    BY <1>1, <1>3, <1>4, TailIsOrdered DEF FramesFit, InOrder
  <1>7. PICK ok \in BOOLEAN : Flush(ok)
    BY DEF RbEot
  <1>8. /\ rbuf' = <<>> /\ Held' \in Seq(Nat) /\ Len(Held') <= Len(Held)
        /\ \A i \in 1..Len(Held') : Held'[i] = Held[i]
    BY <1>1, <1>7, FlushHolds
  <1>9. PartOf(Held', rhead) /\ (Held = <<>> => Held' = <<>>)
    <2>1. PartOf(Held', rhead)
      BY <1>1, <1>3, <1>8, BeginningIsPart DEF RxPhase
    <2>2. ASSUME Held = <<>> PROVE Held' = <<>>
      <3>1. Len(Held') = 0
        BY <1>8, <2>2, EmptySeq, LenProperties
      <3> QED
        BY <1>8, <3>1, EmptySeq
    <2> QED
      BY <2>1, <2>2
  <1>10. PICK r \in Seq(Reply) : Len(r) <= 1 /\ toTx' = toTx \o r /\ NoneOf(r, {"C"})
    <2>1. CASE rpc' = "eot" /\ Reply1(toTx, "NAK")
      <3>1. PICK r \in Seq(Reply) :
               Len(r) <= 1 /\ toTx' = toTx \o r /\ Range(r) \subseteq {"NAK", "junk"}
        BY <1>1, <2>1, OneReply, ReplyKinds
      <3> QED
        BY <3>1 DEF NoneOf
    <2>2. CASE toTx' = toTx
      <3>1. <<>> \in Seq(Reply) /\ toTx \o <<>> = toTx /\ Len(<<>>) <= 1 /\ NoneOf(<<>>, {"C"})
        BY <1>1, EmptySeq, ConcatEmptySeq, EmptyHasNone DEF NoneOf
      <3> QED
        BY <2>2, <3>1, Zenon
    <2> QED
      BY <2>1, <2>2 DEF RbEot
  <1>11. NoneOf(toTx, {"C"}) => NoneOf(toTx', {"C"})
    BY <1>1, <1>10, AnswerFits
  <1>12. HasFile' /\ RxPhase'
    <2>1. rpc' = "eot" \/ rpc' = "purge"
      BY <1>1
    <2> QED
      BY <1>2, <1>3, <1>6, <1>8, <1>9, <2>1 DEF RxPhase, HasFile
  <1>13. FramesFit'
    <2>1. NoneOf(toRx', Torn) /\ NoneOf(toRx', Headers) /\ NoneOf(toRx', Datas)
      BY <1>3, <1>5, <1>6 DEF FramesFit, NoneOf, Marks, Headers, Datas
    <2> QED
      BY <1>5, <1>12, <2>1 DEF FramesFit, NoneOf
  <1>14. TxPhase'
    <2>1. tpc \notin {"idle", "hdr", "dataC"} \cup Running
      BY <1>3, <1>4 DEF TxPhase, Asking, NoneOf, Marks
    <2> QED
      BY <1>2, <1>3, <1>11, <1>12, <2>1 DEF TxPhase, HasFile
  <1>15. ClosedFit'
    BY <1>2 DEF InPhase, ClosedFit, PartOf
  <1> QED
    BY <1>12, <1>13, <1>14, <1>15 DEF InPhase

LEMMA RbCloseFits ==
  ASSUME TypeOK, InPhase, Alive, RbSecondEot \/ RbNoSecondEot, UNCHANGED tbVars
  PROVE  InPhase'
  <1>1. RxPhase /\ FramesFit /\ TxPhase /\ rpc = "eot"
    BY DEF InPhase, RbSecondEot, RbNoSecondEot
  <1>2. /\ toRx \in Seq(Frame) /\ toTx \in Seq(Reply) /\ rfile \in Seq(Nat) /\ rhead \in Nat
        /\ rfiles \in Seq([name : Nat, blocks : Seq(Nat)]) /\ Len(rfiles) \in Nat
        /\ Len(Batch) \in Nat
    BY TypeFacts
  <1>3. /\ HasFile /\ rbuf = <<>> /\ NoneOf(toRx, Marks) /\ Held = rfile
        /\ rhead = Len(rfiles) + 1 /\ rhead <= Len(Batch) /\ PartOf(rfile, rhead)
    BY <1>1, <1>2, ConcatEmptySeq DEF RxPhase, Held
  <1>4. /\ rfiles' = Append(rfiles, [name |-> rhead, blocks |-> rfile])
        /\ rname' = "CR" /\ rfile' = <<>> /\ rblk' = 0 /\ rpc' = "negC"
        /\ Reply2("ACK", "C")
    BY DEF RbSecondEot, RbNoSecondEot, RbClose
  <1>5. UNCHANGED <<tpc, tblk, tfile, tlast>>
    BY DEF tbVars, txVars
  <1>6. rbuf' = <<>> /\ (toRx' \in {toRx, <<>>} \/ (toRx # <<>> /\ toRx' = Tail(toRx)))
    <2>1. CASE RbNoSecondEot
      BY <1>3, <2>1 DEF RbNoSecondEot
    <2>2. CASE RbSecondEot
      <3>1. Head(toRx).kind # "blk"
        BY <1>3, <2>2, HeadKinds DEF NoneOf, Marks, RbSecondEot
      <3> QED
        BY <1>3, <2>2, <3>1 DEF RbSecondEot
    <2> QED
      BY <2>1, <2>2
  <1>7. /\ Range(toRx') \subseteq Range(toRx)
        /\ \A S : NoneOf(toRx, S) => NoneOf(toRx', S)
        /\ InOrder'
    BY <1>1, <1>2, <1>6, LessToRead DEF FramesFit
  <1>8. ~HasFile' /\ RxPhase'
    BY <1>4, <1>6 DEF RxPhase, HasFile
  <1>9. FramesFit'
    <2>1. /\ NoneOf(toRx', Torn) /\ NoneOf(toRx', Headers) /\ NoneOf(toRx', Datas)
          /\ NoneOf(toRx', Eots)
      BY <1>1, <1>3, <1>7 DEF FramesFit, NoneOf, Marks, Headers, Datas
    <2> QED
      BY <1>7, <2>1 DEF FramesFit, NoneOf
  <1>10. Len(rfiles') = Len(rfiles) + 1
    BY <1>2, <1>4
  <1>11. TxPhase'
    <2>1. tpc \notin {"idle", "hdr", "dataC"} \cup Running
      BY <1>1, <1>3 DEF TxPhase, Asking
    <2>2. NoneOf(toTx, {"C"}) => NoAckAfterC'
      BY <1>2, <1>4, AckAndCFit
    <2>3. NoneOf(toRx', Blocks)
      BY <1>3, <1>7 DEF NoneOf, Marks
    <2> QED
      BY <1>1, <1>2, <1>3, <1>5, <1>8, <1>10, <2>1, <2>2, <2>3 DEF TxPhase
  <1>12. ClosedFit'
    <2> SUFFICES ASSUME NEW k \in 1..Len(rfiles')
                 PROVE  k <= Len(Batch) /\ rfiles'[k].name = k /\ PartOf(rfiles'[k].blocks, k)
      BY DEF ClosedFit, PartOf
    <2>1. CASE k \in 1..Len(rfiles)
      <3>1. rfiles'[k] = rfiles[k]
        BY <1>2, <1>4, <2>1
      <3> QED
        BY <2>1, <3>1 DEF InPhase, ClosedFit
    <2>2. CASE k = Len(rfiles) + 1
      <3>1. rfiles'[k] = [name |-> rhead, blocks |-> rfile]
        BY <1>2, <1>4, <2>2
      <3> QED
        BY <1>3, <2>2, <3>1
    <2> QED
      BY <1>2, <1>10, <2>1, <2>2
  <1> QED
    BY <1>8, <1>9, <1>11, <1>12 DEF InPhase

\* A side that has ended, and closed no file on the way, is no matter.
LEMMA EndingFits ==
  ASSUME InPhase, rpc' \in RxEnded, rfiles' = rfiles
  PROVE  InPhase'
  BY DEF InPhase, Alive, ClosedFit, PartOf

\* Asking, or acknowledging a block, in one character.
LEMMA RxWritesFits ==
  ASSUME TypeOK, InPhase, Alive, UNCHANGED tbVars, UNCHANGED <<rbuf, rfile, batchVars>>,
         toRx' \in {toRx, <<>>} \/ (toRx # <<>> /\ toRx' = Tail(toRx)),
         NEW c \in Reply, Reply1(toTx, c), IF HasFile THEN c # "C" ELSE c # "ACK",
         \/ HasFile /\ rblk' = rblk /\ rpc' = "poll"
         \/ ~HasFile /\ rblk' = 0 /\ rpc' \in {"negC", "negN"}
  PROVE  InPhase'
  <1>1. PICK r \in Seq(Reply) : Len(r) <= 1 /\ toTx' = toTx \o r /\ Range(r) \subseteq {c, "junk"}
    BY TypeFacts, OneReply
  <1>2. (HasFile => NoneOf(r, {"C"})) /\ (~HasFile => NoneOf(r, {"ACK"}))
    BY <1>1 DEF NoneOf
  <1> QED
    BY <1>1, <1>2, RxAnswersFit

\* Writing nothing.
LEMMA RxMovesFits ==
  ASSUME TypeOK, InPhase, Alive, UNCHANGED tbVars, UNCHANGED <<rbuf, rfile, batchVars>>,
         toRx' \in {toRx, <<>>} \/ (toRx # <<>> /\ toRx' = Tail(toRx)), toTx' = toTx,
         rblk' = rblk,
         \/ rpc' = rpc
         \/ HasFile /\ rpc' \in {"poll", "recv", "purge"}
         \/ ~HasFile /\ rblk = 0 /\ rpc' \in {"poll", "recv"}
  PROVE  InPhase'
  <1>1. /\ <<>> \in Seq(Reply) /\ toTx \o <<>> = toTx /\ Len(<<>>) <= 1
        /\ NoneOf(<<>>, {"C"}) /\ NoneOf(<<>>, {"ACK"})
    BY TypeFacts, EmptySeq, ConcatEmptySeq, EmptyHasNone DEF NoneOf
  <1> QED
    BY <1>1, RxAnswersFit

LEMMA RxErrorFits ==
  ASSUME TypeOK, InPhase, Alive, HasFile, UNCHANGED tbVars, UNCHANGED batchVars,
         NEW q, RxError(q), q = toRx \/ (toRx # <<>> /\ q = Tail(toRx))
  PROVE  InPhase'
  <1>1. CASE rpc' = "aborted"
    BY <1>1, EndingFits DEF RxEnded, batchVars
  <1>2. CASE rpc' = "purge" /\ toRx' = q /\ UNCHANGED <<rblk, rbuf, rfile, toTx>>
    BY <1>2, RxMovesFits
  <1> QED
    BY <1>1, <1>2 DEF RxError, RxAbort

LEMMA ReceiverFits ==
  ASSUME Prompt, TypeOK, InPhase, UNCHANGED tbVars,
         RbStart \/ RbBreak \/ InFile(RxBreak) \/ RbStep
  PROVE  InPhase'
  <1>1. CASE ~Alive
    <2>1. rpc \in RxEnded /\ rfiles' = rfiles /\ rpc' = rpc
      BY <1>1
      DEF Alive, RxEnded, RbStart, RbBreak, InFile, RxBreak, RbStep, RxCharReady, RxPoll, RxSkip,
          RxTerminal, RxData, RxDuplicate, RxReject, RxCancel, RbHeader, RbLastHeader,
          RbBadHeader, RbOtherHeader, RbEot, RbSecondEot, RbSecondEotSkip, RbTimer, RbQuiet,
          RxNoAnswerToC, RbNoAnswerToNak, RxSilence, RbNoHeader, RbNoSecondEot, RxPurged,
          Receiving, ReceivingHeader, rxVars, batchVars
    <2> QED
      BY <2>1, EndingFits
  <1>2. CASE Alive
    <2>1. RxPhase
      BY <1>2 DEF InPhase
    <2>2. CASE RbStart
      <3>1. ~HasFile /\ rbuf = <<>> /\ rfile = <<>>
        BY <2>1, <2>2 DEF RbStart, RxPhase
      <3>2. UNCHANGED <<rbuf, rfile, batchVars>> /\ Reply1(toTx, "C") /\ "C" \in Reply
        BY <2>2, <3>1, ReplyKinds DEF RbStart
      <3>3. rblk' = 0 /\ rpc' \in {"negC", "negN"} /\ toRx' \in {toRx, <<>>}
        BY <2>2 DEF RbStart
      <3> QED
        BY <1>2, <3>1, <3>2, <3>3, RxWritesFits
    <2>3. CASE RbBreak \/ InFile(RxBreak) \/ RbLastHeader \/ RbBadHeader \/ RbOtherHeader
               \/ RbNoHeader \/ InFile(RxCancel)
      BY <2>3, EndingFits
      DEF RbBreak, InFile, RxBreak, RbLastHeader, RbBadHeader, RbOtherHeader, RbNoHeader,
          RxCancel, RbGiveUp, RxAbort, RxEnded, batchVars
    <2>4. CASE (RxCharReady \/ RxPoll \/ RxSkip \/ RxTerminal) /\ UNCHANGED batchVars
      <3>1. /\ UNCHANGED <<rblk, rbuf, rfile, toTx>>
            /\ toRx' = toRx \/ (toRx # <<>> /\ toRx' = Tail(toRx))
            /\ rpc' = rpc \/ (rpc \in {"negC", "negN", "poll"} /\ rpc' \in {"poll", "recv"})
        BY <2>4 DEF RxCharReady, RxPoll, RxSkip, RxTerminal, Receiving, rxVars, lineVars
      <3>2. \/ rpc' = rpc
            \/ HasFile /\ rpc' \in {"poll", "recv", "purge"}
            \/ ~HasFile /\ rblk = 0 /\ rpc' \in {"poll", "recv"}
        BY <2>1, <3>1 DEF RxPhase
      <3> QED
        BY <1>2, <2>4, <3>1, <3>2, RxMovesFits
    <2>5. CASE InFile(RxData) \/ InFile(RxDuplicate) \/ InFile(RxReject) \/ InFile(RxSilence)
      <3>1. HasFile /\ UNCHANGED batchVars
        BY <2>1, <2>5
        DEF InFile, RxData, RxDuplicate, RxReject, RxSilence, Receiving, RxPhase
      <3>2. CASE RxData
        BY <1>2, <3>1, <3>2, RxDataFits
      <3>3. CASE RxDuplicate
        BY <1>2, <3>1, <3>3, RxWritesFits, ReplyKinds DEF RxDuplicate, Receiving
      <3>4. CASE RxReject
        BY <1>2, <3>1, <3>4, RxErrorFits DEF RxReject, Receiving
      <3>5. CASE RxSilence
        BY <1>2, <3>1, <3>5, RxErrorFits DEF RxSilence
      <3> QED
        BY <2>5, <3>2, <3>3, <3>4, <3>5 DEF InFile
    <2>6. CASE RbHeader
      <3>1. CASE Alive'
        BY <1>2, <2>6, <3>1, RbHeaderFits
      <3>2. CASE ~Alive'
        <4>1. rfiles' = rfiles
          BY <2>6 DEF RbHeader, RbGiveUp
        <4> QED
          BY <3>2, <4>1, EndingFits DEF Alive
      <3> QED
        BY <3>1, <3>2
    <2>7. CASE RbEot
      BY <1>2, <2>7, RbEotFits
    <2>8. CASE RbSecondEot \/ RbNoSecondEot
      BY <1>2, <2>8, RbCloseFits
    <2>9. CASE RbSecondEotSkip
      BY <1>2, <2>9, RxMovesFits DEF RbSecondEotSkip, rbVars, rxVars
    <2>10. CASE RxNoAnswerToC /\ UNCHANGED batchVars
      <3>1. ~HasFile /\ rblk = 0
        BY <2>1, <2>10 DEF RxNoAnswerToC, RxPhase
      <3>2. CASE rpc' = rpc /\ Reply1(toTx, "C")
        BY <1>2, <2>10, <3>1, <3>2, RxWritesFits, ReplyKinds DEF RxNoAnswerToC
      <3>3. CASE rpc' = "negN" /\ Reply1(toTx, "NAK")
        BY <1>2, <2>10, <3>1, <3>3, RxWritesFits, ReplyKinds DEF RxNoAnswerToC
      <3> QED
        BY <2>10, <3>2, <3>3 DEF RxNoAnswerToC
    <2>11. CASE RbNoAnswerToNak
      <3>1. ~HasFile /\ rblk = 0
        BY <2>1, <2>11 DEF RbNoAnswerToNak, RxPhase
      <3>2. CASE rpc' = "aborted"
        BY <2>11, <3>2, EndingFits DEF RbNoAnswerToNak, RbGiveUp, RxEnded, batchVars
      <3>3. CASE /\ rpc' = rpc /\ Reply1(toTx, "NAK")
                 /\ UNCHANGED <<rblk, rbuf, rfile, toRx, batchVars>>
        BY <1>2, <2>11, <3>1, <3>3, RxWritesFits, ReplyKinds DEF RbNoAnswerToNak
      <3> QED
        BY <2>11, <3>2, <3>3 DEF RbNoAnswerToNak, RbGiveUp
    <2>12. CASE RbQuiet
      <3>1. /\ RxPurged /\ UNCHANGED batchVars /\ HasFile
            /\ toRx' = <<>>
        BY <2>1, <2>12 DEF RbQuiet, InFile, RxPurged, RxPhase, Purged
      <3> QED
        BY <1>2, <3>1, RxWritesFits, ReplyKinds DEF RxPurged
    <2> QED
      BY <2>2, <2>3, <2>4, <2>5, <2>6, <2>7, <2>8, <2>9, <2>10, <2>11, <2>12
      DEF RbStep, RbTimer
  <1> QED
    BY <1>1, <1>2

-----------------------------------------------------------------------------
(* So do the sender's steps, and the noise.                                *)

\* What arrives of a frame: it, something damaged, or nothing.
LEMMA FrameWritten ==
  ASSUME "header" \notin Faults, NEW f \in Frame, Write(f)
  PROVE  \E s \in Seq(Frame) :
           /\ Len(s) <= 1 /\ toRx' = toRx \o s
           /\ \A g \in Range(s) :
                \/ g = f
                \/ f.kind = "blk" /\ g = [f EXCEPT !.kind = "bad"]
                \/ f.kind # "blk" /\ g = Control("junk")
  <1> DEFINE bad == [f EXCEPT !.kind = "bad"]
  <1>1. PICK s \in FrameArrives(f) : toRx' = toRx \o s
    BY DEF Write
  <1>2. s \in Seq(Frame)
    BY FrameArrival
  <1>3. \/ s = <<>>
        \/ s = <<f>>
        \/ s = <<bad>> /\ f.kind = "blk"
        \/ s = <<Control("junk")>> /\ f.kind # "blk"
    BY DEF FrameArrives
  <1> HIDE DEF bad
  <1>4. CASE s = <<>>
    <2>1. Range(s) = {} /\ Len(s) <= 1
      BY <1>4, EmptyHasNone, EmptySeq
    <2> QED
      BY <1>1, <1>2, <2>1, Zenon
  <1>5. ASSUME NEW g, s = <<g>>, \/ g = f
                                 \/ f.kind = "blk" /\ g = bad
                                 \/ f.kind # "blk" /\ g = Control("junk")
        PROVE  /\ Len(s) <= 1
               /\ \A h \in Range(s) : \/ h = f
                                      \/ f.kind = "blk" /\ h = bad
                                      \/ f.kind # "blk" /\ h = Control("junk")
    <2>1. Range(s) = {g} /\ Len(s) <= 1
      BY <1>5, RangeOfSingle
    <2> QED
      BY <1>5, <2>1, Zenon
  <1> QED
    BY <1>1, <1>2, <1>3, <1>4, <1>5, Zenon DEF bad

\* The order on the line when something is written behind it.
LEMMA FramesBehind ==
  ASSUME toRx \in Seq(Frame), NEW s \in Seq(Frame), Len(s) <= 1, toRx' = toRx \o s, InOrder,
         NoneOf(toRx, Eots) \/ NoneOf(s, Marks),
         NoneOf(toRx, Datas) \/ NoneOf(s, Headers),
         \A f \in Range(toRx) \cap Datas, g \in Range(s) \cap Datas : f.pos <= g.pos
  PROVE  InOrder' /\ Range(toRx') = Range(toRx) \cup Range(s)
  <1>1. Range(toRx') = Range(toRx) \cup Range(s)
    BY Behind
  <1>2. NoneAfter(toRx', Eots, Marks) /\ NoneAfter(toRx', Datas, Headers)
    BY BehindIsOrdered DEF InOrder
  <1>3. ASSUME NEW n \in 1..NBlocks
        PROVE  NoneAfter(toRx', {f \in Datas : f.pos > n}, {f \in Datas : f.pos <= n})
    <2> DEFINE A == {f \in Datas : f.pos > n}
               B == {f \in Datas : f.pos <= n}
    <2>1. NoneAfter(toRx, A, B)
      BY DEF InOrder
    <2>2. NoneOf(toRx, A) \/ NoneOf(s, B)
      <3> SUFFICES ASSUME NEW f \in Range(toRx) \cap A, NEW g \in Range(s) \cap B
                   PROVE  FALSE
        BY DEF NoneOf
      <3>1. f.pos \in Nat /\ g.pos \in Nat /\ f.pos > n /\ g.pos <= n /\ f.pos <= g.pos
        BY DEF Datas, Blocks, Frame
      <3> QED
        BY <3>1
    <2> HIDE DEF A, B
    <2>3. NoneAfter(toRx', A, B)
      BY <2>1, <2>2, BehindIsOrdered
    <2> QED
      BY <2>3 DEF A, B
  <1> QED
    BY <1>1, <1>2, <1>3 DEF InOrder

\* Nothing that matters is written to the receiver, or nothing at all.
LEMMA NoiseBehind ==
  ASSUME TypeOK, FramesFit, NEW s \in Seq(Frame), Len(s) <= 1, toRx' = toRx \o s,
         \A g \in Range(s) : g.kind \in {"CAN", "junk"},
         UNCHANGED rbVars, UNCHANGED <<tfile, tlast>>
  PROVE  FramesFit' /\ \A S : S \subseteq Marks /\ NoneOf(toRx, S) => NoneOf(toRx', S)
  <1>1. NoneOf(s, Marks) /\ NoneOf(s, Headers) /\ NoneOf(s, Datas) /\ NoneOf(s, Torn)
        /\ NoneOf(s, Eots)
    BY DEF NoneOf, Marks, Blocks, BlkKinds, Eots, Headers, Datas, Torn
  <1>2. InOrder' /\ Range(toRx') = Range(toRx) \cup Range(s)
    BY <1>1, TypeFacts, FramesBehind DEF FramesFit, NoneOf
  <1>3. /\ Held' = Held /\ ThisHeader' = ThisHeader /\ HasFile' = HasFile
        /\ UNCHANGED <<rblk, rhead, rfiles>>
    BY DEF Held, ThisHeader, HasFile, rbVars, rxVars, batchVars
  <1>4. \A f : DataFits(f.num, f.pos) => DataFits(f.num, f.pos)'
    BY <1>3 DEF DataFits
  <1>5. \A S : S \subseteq Marks /\ NoneOf(toRx, S) => NoneOf(toRx', S)
    BY <1>1, <1>2 DEF NoneOf
  <1>6. FramesFit'
    <2>1. NoneOf(toRx', Torn) /\ (HasFile' \/ NoneOf(toRx', Eots))
      BY <1>1, <1>2, <1>3 DEF FramesFit, NoneOf
    <2>2. \A f \in Range(toRx') \cap Headers :
             /\ f.num = 0
             /\ HasFile' => rblk' = 1
             /\ ~HasFile' => f = ThisHeader' \/ f.kind = "bad"
             /\ ~HasFile' => tfile' = Len(rfiles') + 1
      BY <1>1, <1>2, <1>3 DEF FramesFit, NoneOf
    <2>3. \A f \in Range(toRx') \cap Datas : HasFile' /\ DataFits(f.num, f.pos)'
      BY <1>1, <1>2, <1>3, <1>4 DEF FramesFit, NoneOf
    <2> QED
      BY <1>2, <2>1, <2>2, <2>3 DEF FramesFit
  <1> QED
    BY <1>5, <1>6

\* The receiver's part is not touched.
LEMMA ReceiverStays ==
  ASSUME UNCHANGED rbVars, InPhase
  PROVE  /\ Held' = Held /\ HasFile' = HasFile /\ Alive' = Alive /\ ClosedFit'
         /\ UNCHANGED <<rpc, rblk, rbuf, rfile, rname, rhead, rfiles>>
         /\ Alive /\ (rpc = "eot" => NoneOf(toRx', Marks)) => RxPhase'
  <1>1. UNCHANGED <<rpc, rblk, rbuf, rfile, rname, rhead, rfiles>>
    BY DEF rbVars, rxVars, batchVars
  <1>2. Held' = Held /\ HasFile' = HasFile /\ Alive' = Alive
    BY <1>1 DEF Held, HasFile, Alive
  <1>3. ClosedFit'
    BY <1>1 DEF InPhase, ClosedFit, PartOf
  <1>4. Alive /\ (rpc = "eot" => NoneOf(toRx', Marks)) => RxPhase'
    BY <1>1, <1>2 DEF InPhase, RxPhase, PartOf, HasFile
  <1> QED
    BY <1>1, <1>2, <1>3, <1>4

\* The upload ends.
LEMMA TxEndsFit ==
  ASSUME "header" \notin Faults, TypeOK, InPhase, UNCHANGED rbVars, UNCHANGED <<tfile, tlast>>,
         tpc' \in TxEnded, toRx' = toRx \/ Write(Control("CAN"))
  PROVE  InPhase'
  <1>1. PICK s \in Seq(Frame) : /\ Len(s) <= 1 /\ toRx' = toRx \o s
                                /\ \A g \in Range(s) : g.kind \in {"CAN", "junk"}
    <2>1. CASE toRx' = toRx
      <3>1. <<>> \in Seq(Frame) /\ toRx \o <<>> = toRx /\ Len(<<>>) <= 1 /\ Range(<<>>) = {}
        BY TypeFacts, EmptySeq, ConcatEmptySeq, EmptyHasNone
      <3> QED
        BY <2>1, <3>1, Zenon
    <2>2. CASE Write(Control("CAN"))
      <3>1. PICK s \in Seq(Frame) :
               /\ Len(s) <= 1 /\ toRx' = toRx \o s
               /\ \A g \in Range(s) : g = Control("CAN") \/ g = Control("junk")
        BY <2>2, ControlIsFrame, FrameWritten
      <3> QED
        BY <3>1, ControlIsFrame
    <2> QED
      BY <2>1, <2>2
  <1>2. CASE Alive
    <2>1. RxPhase /\ FramesFit
      BY <1>2 DEF InPhase
    <2>2. FramesFit' /\ (NoneOf(toRx, Marks) => NoneOf(toRx', Marks))
      BY <1>1, <2>1, NoiseBehind
    <2>3. RxPhase' /\ ClosedFit'
      BY <1>2, <2>1, <2>2, ReceiverStays DEF RxPhase
    <2>4. TxPhase'
      BY DEF TxPhase, TxEnded, Running
    <2> QED
      BY <2>2, <2>3, <2>4 DEF InPhase
  <1>3. CASE ~Alive
    BY <1>3, ReceiverStays DEF InPhase
  <1> QED
    BY <1>2, <1>3

\* A character is read and does not matter, or arrives and does not.
LEMMA TxStaysFit ==
  ASSUME TypeOK, InPhase, UNCHANGED rbVars, UNCHANGED <<tfile, tlast, tblk>>,
         tpc' = tpc \/ (tpc \in Running /\ tpc' \in Running),
         \/ toTx' = toTx
         \/ toTx # <<>> /\ toTx' = Tail(toTx)
         \/ toTx' = toTx \o <<"junk">>,
         toRx' = toRx \/ toRx' = toRx \o <<Control("junk")>>
  PROVE  InPhase'
  <1>1. toTx \in Seq(Reply) /\ toRx \in Seq(Frame)
    BY TypeFacts
  <1>2. CASE ~Alive
    BY <1>2, ReceiverStays DEF InPhase
  <1>3. CASE Alive
    <2>1. RxPhase /\ FramesFit /\ TxPhase
      BY <1>3 DEF InPhase
    <2>2. /\ UNCHANGED <<rpc, rblk, rname, rhead, rfiles>>
          /\ Held' = Held /\ HasFile' = HasFile /\ ClosedFit'
      BY ReceiverStays
    <2>3. FramesFit' /\ \A S : S \subseteq Marks /\ NoneOf(toRx, S) => NoneOf(toRx', S)
      <3>1. CASE toRx' = toRx
        <4>1. <<>> \in Seq(Frame) /\ toRx \o <<>> = toRx /\ Len(<<>>) <= 1 /\ Range(<<>>) = {}
          BY <1>1, EmptySeq, ConcatEmptySeq, EmptyHasNone
        <4> QED
          BY <2>1, <3>1, <4>1, NoiseBehind
      <3>2. CASE toRx' = toRx \o <<Control("junk")>>
        <4>1. /\ <<Control("junk")>> \in Seq(Frame) /\ Len(<<Control("junk")>>) <= 1
              /\ Range(<<Control("junk")>>) = {Control("junk")}
          BY ControlIsFrame, RangeOfSingle
        <4> QED
          BY <2>1, <3>2, <4>1, ControlIsFrame, NoiseBehind
      <3> QED
        BY <3>1, <3>2
    <2>4. RxPhase'
      BY <1>3, <2>1, <2>3, ReceiverStays DEF RxPhase
    <2>5. /\ NoneOf(toTx, {"ACK"}) => NoneOf(toTx', {"ACK"})
          /\ NoAckAfterC => NoAckAfterC'
          /\ NoneOf(toTx, {"C"}) => NoneOf(toTx', {"C"})
          /\ OneC => OneC'
          /\ OneCAfterAck(toTx) => OneCAfterAck(toTx')
      <3>1. CASE toTx' = toTx
        BY <3>1 DEF NoAckAfterC, OneC
      <3>2. CASE toTx # <<>> /\ toTx' = Tail(toTx)
        BY <1>1, <3>2, TailOf, TailIsOrdered, TailHasOneC DEF NoAckAfterC, OneC, NoneOf
      <3>3. CASE toTx' = toTx \o <<"junk">>
        <4>1. /\ <<"junk">> \in Seq(Reply) /\ Len(<<"junk">>) <= 1
              /\ NoneOf(<<"junk">>, {"ACK"}) /\ NoneOf(<<"junk">>, {"C"})
          BY ReplyKinds, RangeOfSingle DEF NoneOf
        <4> QED
          BY <1>1, <3>3, <4>1, AnswerFits
      <3> QED
        BY <3>1, <3>2, <3>3
    <2>6. Blocks \subseteq Marks /\ Datas \cup Eots \subseteq Marks /\ Eots \subseteq Marks
      BY DEF Marks, Datas
    <2>7. Asking => Asking'
      BY <2>2, <2>3, <2>6 DEF Asking
    <2>8. tpc \in Running =>
            /\ DataFits(Low(tblk), Batch[tfile][tblk])'
            /\ \A f \in Range(toRx') \cap Datas : f.pos <= Batch[tfile][tblk]
      <3>1. tpc \in Running => DataFits(Low(tblk), Batch[tfile][tblk])'
        BY <2>1, <2>2 DEF TxPhase, DataFits
      <3>2. Range(toRx') \cap Datas \subseteq Range(toRx)
        <4>1. CASE toRx' = toRx
          BY <4>1
        <4>2. CASE toRx' = toRx \o <<Control("junk")>>
          <5>1. /\ <<Control("junk")>> \in Seq(Frame)
                /\ Range(<<Control("junk")>>) = {Control("junk")}
                /\ Control("junk") \notin Datas
            BY ControlIsFrame, RangeOfSingle DEF Datas, Blocks, BlkKinds
          <5>2. PICK r \in Seq(Frame) : r = <<Control("junk")>>
            BY <5>1
          <5>3. Range(toRx \o r) = Range(toRx) \cup Range(r)
            BY <1>1, RangeConcatenation
          <5> QED
            BY <4>2, <5>1, <5>2, <5>3
        <4> QED
          BY <4>1, <4>2
      <3> QED
        BY <2>1, <3>1, <3>2 DEF TxPhase
    <2>9. TxPhase'
      <3>1. CASE tpc' = tpc
        BY <2>1, <2>2, <2>3, <2>5, <2>6, <2>7, <2>8, <3>1 DEF TxPhase
      <3>2. CASE tpc \in Running /\ tpc' \in Running
        BY <2>1, <2>2, <2>3, <2>5, <2>6, <2>7, <2>8, <3>2 DEF TxPhase, Running
      <3> QED
        BY <3>1, <3>2
    <2> QED
      BY <2>2, <2>3, <2>4, <2>9 DEF InPhase
  <1> QED
    BY <1>2, <1>3

\* A batch upload starts, on a line where nobody has acknowledged anything.
LEMMA TbStartFits ==
  ASSUME "header" \notin Faults, TypeOK, InPhase, TbStart, UNCHANGED rbVars
  PROVE  InPhase'
  <1>1. UNCHANGED <<toRx, toTx>> /\ tpc = "idle"
    BY DEF TbStart, lineVars
  <1>2. CASE tpc' = "nofile" /\ UNCHANGED <<tfile, tlast>>
    BY <1>1, <1>2, TxEndsFit DEF TxEnded
  <1>3. CASE NextFile /\ ~Alive
    BY <1>3, ReceiverStays DEF InPhase
  <1>4. CASE NextFile /\ Alive
    <2>1. RxPhase /\ FramesFit /\ TxPhase
      BY <1>4 DEF InPhase
    <2>2. /\ UNCHANGED <<rpc, rblk, rname, rhead, rfiles>>
          /\ Held' = Held /\ HasFile' = HasFile /\ ClosedFit'
      BY ReceiverStays
    <2>3. /\ tfile = 0 /\ rfiles = <<>> /\ ~HasFile /\ tfile' = 1 /\ tpc' = "hdrC"
          /\ NoneOf(toRx, Marks) /\ NoneOf(toTx, {"ACK"})
      BY <1>1, <1>4, <2>1 DEF TxPhase, NextFile
    <2>4. NoneOf(toRx, Blocks) /\ NoneOf(toRx, Headers) /\ NoneOf(toRx, Datas)
          /\ NoneOf(toRx, Eots)
      BY <2>3 DEF NoneOf, Marks, Headers, Datas
    <2>5. RxPhase'
      BY <1>1, <1>4, <2>1, <2>3, ReceiverStays
    <2>6. FramesFit'
      BY <1>1, <2>1, <2>2, <2>3, <2>4 DEF FramesFit, NoneOf, InOrder
    <2>7. TxPhase'
      <3>1. NoAckAfterC'
        BY <1>1, <2>3, TypeFacts, NoneIsOrdered DEF NoAckAfterC
      <3>2. tfile' = Len(rfiles') + 1
        BY <2>2, <2>3, EmptySeq
      <3> QED
        BY <1>1, <2>2, <2>3, <2>4, <3>1, <3>2 DEF TxPhase, Running
    <2> QED
      BY <2>2, <2>5, <2>6, <2>7 DEF InPhase
  <1> QED
    BY <1>2, <1>3, <1>4 DEF TbStart

\* A header is written, for the first time or again.
LEMMA SentHeaderFits ==
  ASSUME "header" \notin Faults, TypeOK, InPhase, Alive, UNCHANGED rbVars,
         UNCHANGED <<tfile, tlast>>, Write(ThisHeader), tpc' = "hdr", Asking,
         HasFile => rblk = 1 /\ ~tlast /\ OneCAfterAck(toTx'),
         ~HasFile => NoneOf(toTx', {"ACK"})
  PROVE  InPhase'
  <1>1. RxPhase /\ FramesFit /\ tfile = Len(rfiles) + 1 /\ NoneOf(toRx, Datas \cup Eots)
    BY DEF InPhase, Asking
  <1>2. /\ UNCHANGED <<rpc, rblk, rname, rhead, rfiles>>
        /\ Held' = Held /\ HasFile' = HasFile /\ ClosedFit'
    BY ReceiverStays
  <1>3. /\ ThisHeader \in Headers /\ ThisHeader \in Frame
        /\ ThisHeader.num = 0 /\ ThisHeader.kind = "blk" /\ IsHeader(ThisHeader)
    <2>1. tfile # 0
      BY <1>1, TypeFacts
    <2> QED
      BY <2>1, HeaderIsFrame DEF Headers, Blocks
  <1>4. PICK s \in Seq(Frame) :
           /\ Len(s) <= 1 /\ toRx' = toRx \o s
           /\ \A g \in Range(s) : g = ThisHeader \/ g = [ThisHeader EXCEPT !.kind = "bad"]
    BY <1>3, FrameWritten
  <1>5. \A g \in Range(s) :
           /\ g \in Headers /\ g.num = 0 /\ g.kind # "torn" /\ g.kind # "EOT"
           /\ g = ThisHeader \/ g.kind = "bad"
    <2>1. LET b == [ThisHeader EXCEPT !.kind = "bad"]
          IN  b \in Frame /\ b.kind = "bad" /\ b.num = 0 /\ b.pos = ThisHeader.pos
      BY <1>3 DEF Frame, FrameKinds
    <2> QED
      BY <1>3, <1>4, <2>1 DEF Headers, Blocks, BlkKinds, IsHeader
  <1>6. NoneOf(s, Datas) /\ NoneOf(s, Torn) /\ NoneOf(s, Eots)
    BY <1>5 DEF NoneOf, Headers, Datas, Torn, Eots
  <1>7. InOrder' /\ Range(toRx') = Range(toRx) \cup Range(s)
    BY <1>1, <1>4, <1>6, TypeFacts, FramesBehind DEF FramesFit, NoneOf
  <1>8. ThisHeader' = ThisHeader
    BY DEF ThisHeader
  <1>9. NoneOf(toRx', Datas \cup Eots)
    BY <1>1, <1>6, <1>7 DEF NoneOf
  <1>10. FramesFit'
    <2>1. NoneOf(toRx', Torn)
      BY <1>1, <1>6, <1>7 DEF FramesFit, NoneOf
    <2>2. \A f \in Range(toRx') \cap Headers :
             /\ f.num = 0
             /\ HasFile' => rblk' = 1
             /\ ~HasFile' => f = ThisHeader' \/ f.kind = "bad"
             /\ ~HasFile' => tfile' = Len(rfiles') + 1
      BY <1>1, <1>2, <1>5, <1>7, <1>8 DEF FramesFit
    <2> QED
      BY <1>7, <1>9, <2>1, <2>2 DEF FramesFit, NoneOf
  <1>11. RxPhase'
    BY <1>1, <1>2, ReceiverStays DEF Asking
  <1>12. TxPhase'
    BY <1>1, <1>2, <1>9 DEF TxPhase, Asking, Running
  <1> QED
    BY <1>2, <1>10, <1>11, <1>12 DEF InPhase

\* A block of the file is written, for the first time or again.
LEMMA SentDataFits ==
  ASSUME "header" \notin Faults, TypeOK, InPhase, Alive, HasFile, UNCHANGED rbVars,
         UNCHANGED <<tfile, tlast>>, tcrc' \in BOOLEAN,
         NEW n \in 1..Len(Batch[tfile]), Write(DataBlock(n)), tblk' = n, tpc' = "wait",
         tfile = Len(rfiles) + 1, NoneOf(toRx, Eots), rpc # "eot", NoneOf(toTx', {"C"}),
         DataFits(Low(n), Batch[tfile][n]),
         \A f \in Range(toRx) \cap Datas : f.pos <= Batch[tfile][n]
  PROVE  InPhase'
  <1>1. RxPhase /\ FramesFit
    BY DEF InPhase
  <1>2. /\ UNCHANGED <<rpc, rblk, rname, rhead, rfiles>>
        /\ Held' = Held /\ HasFile' = HasFile /\ ClosedFit'
    BY ReceiverStays
  <1>3. PICK k \in 1..Len(Batch) : k = tfile
    <2>1. tfile <= Len(Batch) /\ tfile \in Nat /\ tfile # 0
      BY <1>1, TypeFacts DEF RxPhase
    <2> QED
      BY <2>1, TypeFacts
  <1>4. PICK f \in Frame : f = DataBlock(n)
    BY <1>3, DataIsFrame
  <1>5. /\ f.kind = "blk" /\ f.num = Low(n) /\ f.pos = Batch[k][n]
        /\ f.pos \in 1..NBlocks
    BY <1>3, <1>4, DataIsFrame, FileFacts
  <1>6. PICK s \in Seq(Frame) :
           /\ Len(s) <= 1 /\ toRx' = toRx \o s
           /\ \A g \in Range(s) : g = f \/ g = [f EXCEPT !.kind = "bad"]
    BY <1>4, <1>5, FrameWritten
  <1>7. \A g \in Range(s) :
           g \in Datas /\ g.num = Low(n) /\ g.pos = Batch[k][n] /\ g.kind # "torn"
    <2>1. LET b == [f EXCEPT !.kind = "bad"]
          IN  b \in Frame /\ b.kind = "bad" /\ b.num = f.num /\ b.pos = f.pos
      BY DEF Frame, FrameKinds
    <2>2. ~(f.pos > NBlocks)
      BY <1>5, LineAssumption
    <2> QED
      BY <1>5, <1>6, <2>1, <2>2 DEF Datas, Blocks, BlkKinds, IsHeader
  <1>8. NoneOf(s, Headers) /\ NoneOf(s, Torn) /\ NoneOf(s, Eots)
    BY <1>7 DEF NoneOf, Headers, Datas, Torn, Eots, Blocks, BlkKinds
  <1>9. InOrder' /\ Range(toRx') = Range(toRx) \cup Range(s)
    BY <1>1, <1>3, <1>6, <1>7, <1>8, TypeFacts, FramesBehind DEF FramesFit
  <1>10. \A b, p : DataFits(b, p) => DataFits(b, p)'
    BY <1>2 DEF DataFits
  <1>11. NoneOf(toRx', Eots)
    BY <1>8, <1>9 DEF NoneOf
  <1>12. FramesFit'
    <2>1. NoneOf(toRx', Torn)
      BY <1>1, <1>8, <1>9 DEF FramesFit, NoneOf
    <2>2. \A g \in Range(toRx') \cap Headers : g.num = 0 /\ rblk' = 1
      BY <1>1, <1>2, <1>8, <1>9 DEF FramesFit, NoneOf
    <2>3. \A g \in Range(toRx') \cap Datas : DataFits(g.num, g.pos)'
      BY <1>1, <1>3, <1>7, <1>9, <1>10 DEF FramesFit
    <2> QED
      BY <1>2, <1>9, <1>11, <2>1, <2>2, <2>3 DEF FramesFit
  <1>13. RxPhase'
    BY ReceiverStays
  <1>14. TxPhase'
    <2>1. \A g \in Range(toRx') \cap Datas : g.pos <= Batch[tfile'][tblk']
      <3>1. Batch[k][n] <= Batch[k][n]
        BY <1>5
      <3> QED
        BY <1>3, <1>7, <1>9, <3>1
    <2>2. DataFits(Low(tblk), Batch[tfile][tblk])'
      BY <1>10 DEF DataFits
    <2> QED
      BY <1>2, <1>11, <2>1, <2>2 DEF TxPhase, Running
  <1> QED
    BY <1>2, <1>12, <1>13, <1>14 DEF InPhase

\* What the sender reads and does not count, and what makes it give up.
LEMMA TxReadsFit ==
  ASSUME "header" \notin Faults, TypeOK, InPhase, UNCHANGED rbVars,
         \/ TbDiscard
         \/ (TxCan \/ TxOther \/ TxTerminal) /\ UNCHANGED <<tfile, tlast>>
         \/ TbBreak \/ TbSilence
  PROVE  InPhase'
  <1>1. CASE TbDiscard
    <2>1. toTx # <<>> /\ toTx' = Tail(toTx) /\ UNCHANGED <<tpc, tblk, tfile, tlast, toRx>>
      BY <1>1 DEF TbDiscard, Got, tbVars, txVars
    <2> QED
      BY <2>1, TxStaysFit
  <1>2. CASE TxOther /\ UNCHANGED <<tfile, tlast>>
    <2>1. /\ toTx # <<>> /\ toTx' = Tail(toTx) /\ UNCHANGED <<tblk, toRx>>
          /\ tpc \in Running /\ tpc' \in Running
      BY <1>2 DEF TxOther, Got, Running
    <2> QED
      BY <1>2, <2>1, TxStaysFit
  <1>3. CASE TxTerminal /\ UNCHANGED <<tfile, tlast>>
    BY <1>3, TxStaysFit DEF TxTerminal, txVars
  <1>4. CASE (TxCan \/ TbBreak \/ TbSilence) /\ UNCHANGED <<tfile, tlast>>
    BY <1>4, TxEndsFit DEF TxCan, TbBreak, TbSilence, TxAbort, TxEnded
  <1> QED
    BY <1>1, <1>2, <1>3, <1>4 DEF TbBreak, TbSilence

\* The header is asked for: nobody has acknowledged anything since the last C.
LEMMA TbHeaderFits ==
  ASSUME "header" \notin Faults, TypeOK, InPhase, UNCHANGED rbVars, TbC \/ TbHeaderNak
  PROVE  InPhase'
  <1>1. CASE ~Alive
    BY <1>1, ReceiverStays DEF InPhase
  <1>2. CASE Alive
    <2>1. RxPhase /\ FramesFit /\ TxPhase
      BY <1>2 DEF InPhase
    <2>2. UNCHANGED <<tfile, tlast>>
      BY DEF TbC, TbHeaderNak
    <2>3. CASE TbC
      <3>1. toTx \in Seq(Reply) /\ toTx # <<>> /\ Head(toTx) = "C" /\ toTx' = Tail(toTx)
            /\ "C" \in Range(toTx)
        BY <2>3, GotTypes, TypeFacts DEF TbC
      <3>2. /\ tfile = Len(rfiles) + 1 /\ ~HasFile
            /\ NoneOf(toRx, Blocks) /\ NoAckAfterC
        BY <2>1, <2>3, <3>1 DEF TbC, TxPhase, NoneOf
      <3>3. Asking
        BY <2>1, <3>2 DEF Asking, RxPhase, FramesFit, NoneOf, Datas
      <3>4. NoneOf(toTx', {"ACK"})
        BY <3>1, <3>2, TailIsOrdered DEF NoAckAfterC
      <3>5. Write(ThisHeader) /\ tpc' = "hdr"
        BY <2>3 DEF TbC
      <3> QED
        BY <1>2, <2>2, <3>2, <3>3, <3>4, <3>5, SentHeaderFits
    <2>4. CASE TbHeaderNak
      <3>1. toTx \in Seq(Reply) /\ toTx # <<>> /\ toTx' = Tail(toTx)
        BY <2>4, GotTypes, TypeFacts DEF TbHeaderNak
      <3>2. /\ Asking
            /\ HasFile => rblk = 1 /\ ~tlast /\ OneCAfterAck(toTx)
            /\ ~HasFile => NoneOf(toTx, {"ACK"})
        BY <2>1, <2>4 DEF TbHeaderNak, TxPhase
      <3>3. /\ HasFile => OneCAfterAck(toTx')
            /\ ~HasFile => NoneOf(toTx', {"ACK"})
        BY <3>1, <3>2, TailHasOneC, TailOf DEF NoneOf
      <3>4. CASE Write(ThisHeader) /\ tpc' = tpc
        <4>1. tpc' = "hdr"
          BY <2>4, <3>4 DEF TbHeaderNak
        <4> QED
          BY <1>2, <2>2, <3>2, <3>3, <3>4, <4>1, SentHeaderFits
      <3>5. CASE TxAbort
        BY <2>2, <3>5, TxEndsFit DEF TxAbort, TxEnded
      <3> QED
        BY <2>4, <3>4, <3>5 DEF TbHeaderNak
    <2> QED
      BY <2>3, <2>4
  <1> QED
    BY <1>1, <1>2

\* Nothing is written to the receiver.
LEMMA FramesStay ==
  ASSUME TypeOK, FramesFit, toRx' = toRx, UNCHANGED rbVars, UNCHANGED <<tfile, tlast>>
  PROVE  FramesFit'
  <1>1. <<>> \in Seq(Frame) /\ toRx \o <<>> = toRx /\ Len(<<>>) <= 1 /\ Range(<<>>) = {}
    BY TypeFacts, EmptySeq, ConcatEmptySeq, EmptyHasNone
  <1> QED
    BY <1>1, NoiseBehind

\* The header is acknowledged, which only a receiver with the file open does.
LEMMA TbHeaderAckFits ==
  ASSUME "header" \notin Faults, TypeOK, InPhase, UNCHANGED rbVars, TbHeaderAck
  PROVE  InPhase'
  <1>1. CASE ~Alive
    BY <1>1, ReceiverStays DEF InPhase
  <1>2. CASE tlast
    BY <1>2, TxEndsFit DEF TbHeaderAck, TxEnded
  <1>3. CASE Alive /\ ~tlast
    <2>1. RxPhase /\ FramesFit /\ TxPhase
      BY <1>3 DEF InPhase
    <2>2. toTx \in Seq(Reply) /\ toTx # <<>> /\ Head(toTx) = "ACK" /\ toTx' = Tail(toTx)
          /\ "ACK" \in Range(toTx)
      BY GotTypes, TypeFacts DEF TbHeaderAck
    <2>3. Asking /\ HasFile /\ rblk = 1 /\ OneCAfterAck(toTx)
      BY <2>1, <2>2 DEF TbHeaderAck, TxPhase, NoneOf
    <2>4. OneC'
      BY <2>2, <2>3, TailHasOneC DEF OneC
    <2>5. /\ UNCHANGED <<rpc, rblk, rname, rhead, rfiles>>
          /\ HasFile' = HasFile /\ ClosedFit'
      BY ReceiverStays
    <2>6. UNCHANGED <<toRx, tfile, tlast>> /\ tpc' = "dataC" /\ tblk' = 1
      BY <1>3 DEF TbHeaderAck
    <2>7. RxPhase'
      BY <1>3, <2>1, <2>3, ReceiverStays DEF Asking
    <2>8. FramesFit'
      BY <2>1, <2>6, FramesStay
    <2>9. TxPhase'
      BY <2>3, <2>4, <2>5, <2>6 DEF TxPhase, Asking, Running
    <2> QED
      BY <2>5, <2>7, <2>8, <2>9 DEF InPhase
  <1> QED
    BY <1>1, <1>2, <1>3

\* The receiver's C: the file is open and nothing of it was stored.
LEMMA TbFirstBlockFits ==
  ASSUME "header" \notin Faults, TypeOK, InPhase, UNCHANGED rbVars, TbFirstBlock
  PROVE  InPhase'
  <1>1. CASE ~Alive
    BY <1>1, ReceiverStays DEF InPhase
  <1>2. CASE Alive
    <2>1. RxPhase /\ TxPhase
      BY <1>2 DEF InPhase
    <2>2. Asking /\ HasFile /\ rblk = 1 /\ tblk = 1 /\ OneC
      BY <2>1 DEF TbFirstBlock, TxPhase
    <2>3. toTx \in Seq(Reply) /\ toTx # <<>> /\ Head(toTx) = "C" /\ toTx' = Tail(toTx)
      BY GotTypes, TypeFacts DEF TbFirstBlock
    <2>4. NoneOf(toTx', {"C"})
      BY <2>2, <2>3, TailIsOrdered DEF OneC
    <2>5. PICK n \in 1..Len(Batch[tfile]) : n = 1
      BY <2>2, SendingFacts DEF TbFirstBlock
    <2>6. DataFits(Low(n), Batch[tfile][n])
      <3>1. Held = <<>> /\ rhead = tfile
        BY <2>1, <2>2 DEF RxPhase, Asking
      <3>2. 1..Len(Held) = {}
        BY <3>1, EmptySeq
      <3> QED
        BY <3>1, <3>2 DEF DataFits
    <2>7. /\ UNCHANGED <<tfile, tlast>> /\ tcrc' = tcrc /\ tblk' = n /\ tpc' = "wait"
          /\ Write(DataBlock(n))
      BY <2>2, <2>5 DEF TbFirstBlock
    <2>8. tcrc' \in BOOLEAN
      BY <2>7, Zenon DEF TypeOK, TbTypeOK
    <2>9. /\ tfile = Len(rfiles) + 1 /\ NoneOf(toRx, Eots) /\ rpc # "eot"
          /\ \A f \in Range(toRx) \cap Datas : f.pos <= Batch[tfile][n]
      BY <2>2 DEF Asking, NoneOf
    <2> QED
      BY <1>2, <2>2, <2>4, <2>6, <2>7, <2>8, <2>9, SentDataFits
  <1> QED
    BY <1>1, <1>2

\* The block in memory again.
LEMMA TbAgainFits ==
  ASSUME "header" \notin Faults, TypeOK, InPhase, UNCHANGED rbVars, TbAgain
  PROVE  InPhase'
  <1>1. CASE ~Alive
    BY <1>1, ReceiverStays DEF InPhase
  <1>2. CASE TxAbort
    BY <1>2, TxEndsFit DEF TbAgain, TxAbort, TxEnded
  <1>3. CASE Alive /\ tpc' = "wait" /\ Write(DataBlock(tblk))
    <2>1. TxPhase
      BY <1>3 DEF InPhase
    <2>2. tpc \in Running /\ UNCHANGED <<tblk, tfile, tlast>>
      BY DEF TbAgain, Running
    <2>3. /\ tfile = Len(rfiles) + 1 /\ HasFile
          /\ NoneOf(toRx, Eots) /\ rpc # "eot" /\ NoneOf(toTx, {"C"})
          /\ DataFits(Low(tblk), Batch[tfile][tblk])
          /\ \A f \in Range(toRx) \cap Datas : f.pos <= Batch[tfile][tblk]
      BY <2>1, <2>2 DEF TxPhase
    <2>4. toTx \in Seq(Reply) /\ toTx # <<>> /\ toTx' = Tail(toTx) /\ Head(toTx) \in Range(toTx)
          /\ Got(Head(toTx))
      BY GotTypes, TypeFacts DEF TbAgain
    <2>5. NoneOf(toTx', {"C"})
      BY <2>3, <2>4, TailOf DEF NoneOf
    <2>6. tcrc' \in BOOLEAN
      <3>1. tcrc' = tcrc
        BY <2>3, <2>4, GotTypes DEF TbAgain, NoneOf
      <3> QED
        BY <3>1, Zenon DEF TypeOK, TbTypeOK
    <2>7. PICK n \in 1..Len(Batch[tfile]) : n = tblk
      BY <2>2, SendingFacts DEF Running
    <2>8. /\ Write(DataBlock(n)) /\ tblk' = n /\ tpc' = "wait"
          /\ DataFits(Low(n), Batch[tfile][n])
          /\ \A f \in Range(toRx) \cap Datas : f.pos <= Batch[tfile][n]
      BY <1>3, <2>2, <2>3, <2>7
    <2> QED
      BY <1>3, <2>2, <2>3, <2>5, <2>6, <2>8, SentDataFits
  <1> QED
    BY <1>1, <1>2, <1>3 DEF TbAgain

\* The next block, which lies behind everything the receiver has and may yet get.
LEMMA TbNextFits ==
  ASSUME "header" \notin Faults, TypeOK, InPhase, Alive, UNCHANGED rbVars, TbAck,
         tblk < Len(Batch[tfile])
  PROVE  InPhase'
  <1>1. TxPhase /\ RxPhase /\ FramesFit
    BY DEF InPhase
  <1>2. /\ tpc \in Running /\ tblk \in Nat \ {0} /\ tfile \in 1..Len(Batch)
        /\ tblk \in 1..Len(Batch[tfile])
    BY SendingFacts DEF TbAck, Running
  <1>3. /\ tfile = Len(rfiles) + 1 /\ HasFile /\ rhead = tfile
        /\ NoneOf(toRx, Eots) /\ rpc # "eot" /\ NoneOf(toTx, {"C"})
        /\ DataFits(Low(tblk), Batch[tfile][tblk])
        /\ \A f \in Range(toRx) \cap Datas : f.pos <= Batch[tfile][tblk]
    BY <1>1, <1>2 DEF TxPhase, RxPhase
  <1>4. PICK n \in 1..Len(Batch[tfile]) : n = tblk + 1
    <2>1. Len(Batch[tfile]) \in Nat
      BY <1>2, FileFacts
    <2> QED
      BY <1>2, <2>1
  <1>5. /\ Batch[tfile][tblk] < Batch[tfile][n]
        /\ Batch[tfile][tblk] \in Nat /\ Batch[tfile][n] \in Nat
    <2>1. tblk < n
      BY <1>2, <1>4
    <2>2. Batch[tfile][tblk] < Batch[tfile][n]
      BY <1>2, <2>1, FileFacts
    <2>3. Batch[tfile][tblk] \in 1..NBlocks /\ Batch[tfile][n] \in 1..NBlocks
      BY <1>2, FileFacts
    <2> QED
      BY <2>2, <2>3, LineAssumption
  <1>6. toTx \in Seq(Reply) /\ toTx # <<>> /\ toTx' = Tail(toTx)
    BY GotTypes, TypeFacts DEF TbAck
  <1>7. NoneOf(toTx', {"C"})
    BY <1>3, <1>6, TailOf DEF NoneOf
  <1>8. DataFits(Low(n), Batch[tfile][n])
    <2>1. ASSUME NEW i \in 1..Len(Held)
          PROVE  Held[i] < Batch[tfile][n] /\ Held[i] <= Batch[tfile][n]
      <3>1. Held[i] <= Batch[tfile][tblk]
        BY <1>3 DEF DataFits
      <3>2. Held \in Seq(Nat)
        BY TypeFacts
      <3>3. Held[i] \in Nat
        BY <3>2, ElementOfSeq
      <3> QED
        BY <1>5, <3>1, <3>3
    <2> QED
      BY <1>3, <2>1 DEF DataFits
  <1>9. ASSUME NEW f \in Range(toRx) \cap Datas
        PROVE  f.pos <= Batch[tfile][n]
    <2>1. f.pos \in Nat /\ f.pos <= Batch[tfile][tblk]
      BY <1>3 DEF Datas, Blocks, Frame
    <2> QED
      BY <1>5, <2>1
  <1>10. tcrc' \in BOOLEAN
    <2>1. tcrc' = tcrc
      BY DEF TbAck
    <2> QED
      BY <2>1, Zenon DEF TypeOK, TbTypeOK
  <1>11. Write(DataBlock(n)) /\ tblk' = n /\ tpc' = "wait" /\ UNCHANGED <<tfile, tlast>>
    BY <1>4 DEF TbAck
  <1> QED
    BY <1>3, <1>7, <1>8, <1>9, <1>10, <1>11, SentDataFits

\* The last block was acknowledged: EOT behind whatever is left of the file.
LEMMA TbEotFits ==
  ASSUME "header" \notin Faults, TypeOK, InPhase, Alive, UNCHANGED rbVars, TbAck,
         ~(tblk < Len(Batch[tfile]))
  PROVE  InPhase'
  <1>1. TxPhase /\ RxPhase /\ FramesFit
    BY DEF InPhase
  <1>2. /\ tfile = Len(rfiles) + 1 /\ HasFile
        /\ NoneOf(toRx, Eots) /\ rpc # "eot" /\ NoneOf(toTx, {"C"})
    BY <1>1 DEF TxPhase, TbAck, Running
  <1>3. Write(Control("EOT")) /\ tpc' = "beot" /\ UNCHANGED <<tfile, tlast>>
    BY DEF TbAck
  <1>4. PICK s \in Seq(Frame) :
           /\ Len(s) <= 1 /\ toRx' = toRx \o s
           /\ \A g \in Range(s) : g = Control("EOT") \/ g = Control("junk")
    BY <1>3, ControlIsFrame, FrameWritten
  <1>5. NoneOf(s, Headers) /\ NoneOf(s, Datas) /\ NoneOf(s, Torn)
    BY <1>4, ControlIsFrame DEF NoneOf, Headers, Datas, Torn, Blocks, BlkKinds
  <1>6. InOrder' /\ Range(toRx') = Range(toRx) \cup Range(s)
    BY <1>1, <1>2, <1>4, <1>5, TypeFacts, FramesBehind DEF FramesFit, NoneOf
  <1>7. /\ UNCHANGED <<rpc, rblk, rname, rhead, rfiles>>
        /\ Held' = Held /\ HasFile' = HasFile /\ ClosedFit'
    BY ReceiverStays
  <1>8. RxPhase'
    BY <1>2, ReceiverStays
  <1>9. \A b, p : DataFits(b, p) => DataFits(b, p)'
    BY <1>7 DEF DataFits
  <1>10. FramesFit'
    <2>1. NoneOf(toRx', Torn)
      BY <1>1, <1>5, <1>6 DEF FramesFit, NoneOf
    <2>2. \A g \in Range(toRx') \cap Headers : g.num = 0 /\ rblk' = 1
      BY <1>1, <1>2, <1>5, <1>6, <1>7 DEF FramesFit, NoneOf
    <2>3. \A g \in Range(toRx') \cap Datas : DataFits(g.num, g.pos)'
      BY <1>1, <1>5, <1>6, <1>9 DEF FramesFit, NoneOf
    <2> QED
      BY <1>2, <1>6, <1>7, <2>1, <2>2, <2>3 DEF FramesFit
  <1>11. TxPhase'
    <2>1. toTx \in Seq(Reply) /\ toTx # <<>> /\ toTx' = Tail(toTx)
      BY GotTypes, TypeFacts DEF TbAck
    <2>2. NoneOf(toTx', {"C"})
      BY <1>2, <2>1, TailOf DEF NoneOf
    <2> QED
      BY <1>2, <1>3, <1>7, <2>2 DEF TxPhase, Running
  <1> QED
    BY <1>7, <1>8, <1>10, <1>11 DEF InPhase

\* Any answer to the EOT: on to the next file, with the receiver's file open
\* and no C on its way, or the file closed and no ACK behind the C.
LEMMA TbEotAnswerFits ==
  ASSUME TypeOK, InPhase, UNCHANGED rbVars, TbEotAnswer
  PROVE  InPhase'
  <1>1. CASE ~Alive
    BY <1>1, ReceiverStays DEF InPhase
  <1>2. CASE Alive
    <2>1. RxPhase /\ FramesFit /\ TxPhase
      BY <1>2 DEF InPhase
    <2>2. /\ toRx' = toRx /\ tpc' = "hdrC" /\ tfile' = tfile + 1 /\ tfile \in Nat
          /\ Len(rfiles) \in Nat
      BY TypeFacts DEF TbEotAnswer, NextFile
    <2>3. toTx \in Seq(Reply) /\ toTx # <<>> /\ toTx' = Tail(toTx)
      BY GotTypes, TypeFacts DEF TbEotAnswer
    <2>4. /\ UNCHANGED <<rpc, rblk, rname, rhead, rfiles>>
          /\ Held' = Held /\ HasFile' = HasFile /\ ClosedFit'
      BY ReceiverStays
    <2>5. RxPhase'
      BY <1>2, <2>1, <2>2, ReceiverStays DEF RxPhase
    <2>6. InOrder'
      BY <2>1, <2>2 DEF FramesFit, InOrder
    <2>7. \A b, p : DataFits(b, p) => DataFits(b, p)'
      BY <2>4 DEF DataFits
    <2>8. CASE HasFile
      <3>1. tfile = Len(rfiles) + 1 /\ NoneOf(toTx, {"C"})
        BY <2>1, <2>8 DEF TxPhase, TbEotAnswer
      <3>2. NoneOf(toTx', {"C"})
        BY <2>3, <3>1, TailOf DEF NoneOf
      <3>3. tfile' = Len(rfiles') + 2
        BY <2>2, <2>4, <3>1
      <3>4. TxPhase'
        BY <2>2, <2>4, <2>8, <3>2, <3>3 DEF TxPhase, Running
      <3>5. FramesFit'
        BY <2>1, <2>2, <2>4, <2>6, <2>7, <2>8 DEF FramesFit
      <3> QED
        BY <2>4, <2>5, <3>4, <3>5 DEF InPhase
    <2>9. CASE ~HasFile
      <3>1. tfile = Len(rfiles) /\ NoAckAfterC
        BY <2>1, <2>9 DEF TxPhase, TbEotAnswer
      <3>2. NoneOf(toRx, Headers) /\ NoneOf(toRx, Datas) /\ NoneOf(toRx, Eots)
        <4>1. tfile # Len(rfiles) + 1
          BY <2>2, <3>1
        <4> QED
          BY <2>1, <2>9, <4>1 DEF FramesFit, NoneOf
      <3>3. NoneOf(toRx', Blocks)
        BY <2>2, <3>2 DEF NoneOf, Headers, Datas
      <3>4. NoAckAfterC'
        BY <2>3, <3>1, TailIsOrdered DEF NoAckAfterC
      <3>5. tfile' = Len(rfiles') + 1
        BY <2>2, <2>4, <3>1
      <3>6. TxPhase'
        BY <2>2, <2>4, <2>9, <3>3, <3>4, <3>5 DEF TxPhase, Running
      <3>7. FramesFit'
        BY <2>1, <2>2, <2>4, <2>6, <3>2, <2>9 DEF FramesFit, NoneOf
      <3> QED
        BY <2>4, <2>5, <3>6, <3>7 DEF InPhase
    <2> QED
      BY <2>8, <2>9
  <1> QED
    BY <1>1, <1>2

LEMMA SenderFits ==
  ASSUME "header" \notin Faults, TypeOK, InPhase, UNCHANGED rbVars,
         TbBegin \/ TbBreak \/ TbStep
  PROVE  InPhase'
  <1>1. CASE TbBegin
    BY <1>1, TbStartFits DEF TbBegin
  <1>2. CASE TbAck
    <2>1. CASE Alive
      BY <1>2, <2>1, TbNextFits, TbEotFits
    <2>2. CASE ~Alive
      BY <2>2, ReceiverStays DEF InPhase
    <2> QED
      BY <2>1, <2>2
  <1>3. CASE TbC \/ TbHeaderNak \/ TbHeaderAck \/ TbFirstBlock \/ TbAgain \/ TbEotAnswer
    BY <1>3, TbHeaderFits, TbHeaderAckFits, TbFirstBlockFits, TbAgainFits, TbEotAnswerFits
  <1>4. CASE \/ TbDiscard \/ TbBreak \/ TbTimer
             \/ (TxCan \/ TxOther \/ TxTerminal) /\ UNCHANGED <<tfile, tlast>>
    BY <1>4, TxReadsFit DEF TbTimer
  <1> QED
    BY <1>1, <1>2, <1>3, <1>4 DEF TbStep

\* Noise is a character behind all that was written.
LEMMA NoiseIsBehind ==
  ASSUME TypeOK, StrayToRx \/ StrayToTx \/ UNCHANGED lineVars
  PROVE  /\ toTx' = toTx \/ toTx' = toTx \o <<"junk">>
         /\ toRx' = toRx \/ toRx' = toRx \o <<Control("junk")>>
  <1>1. toRx \in Seq(Frame) /\ toTx \in Seq(Reply)
    BY DEF TypeOK, LineTypeOK
  <1>2. Append(toTx, "junk") = toTx \o <<"junk">>
    BY <1>1, ReplyKinds, AppendIsConcat
  <1>3. Append(toRx, Control("junk")) = toRx \o <<Control("junk")>>
    BY <1>1, ControlIsFrame, AppendIsConcat
  <1> QED
    BY <1>2, <1>3 DEF StrayToRx, StrayToTx, lineVars

\* Noise changes nothing, and nothing changes nothing.
LEMMA NoiseFits ==
  ASSUME TypeOK, InPhase, UNCHANGED rbVars, UNCHANGED tbVars,
         StrayToRx \/ StrayToTx \/ UNCHANGED lineVars
  PROVE  InPhase'
  <1>1. UNCHANGED <<tpc, tblk, tfile, tlast>>
    BY DEF tbVars, txVars
  <1>2. /\ toTx' = toTx \/ toTx' = toTx \o <<"junk">>
        /\ toRx' = toRx \/ toRx' = toRx \o <<Control("junk")>>
    BY NoiseIsBehind
  <1> QED
    BY <1>1, <1>2, TxStaysFit

-----------------------------------------------------------------------------
LEMMA StartsInPhase == Init => InPhase
  <1> SUFFICES ASSUME Init PROVE InPhase
    OBVIOUS
  <1>1. /\ rpc = "idle" /\ rbuf = <<>> /\ rfile = <<>> /\ rname = "none" /\ rfiles = <<>>
        /\ tpc = "idle" /\ tfile = 0 /\ toRx = <<>> /\ toTx = <<>>
    BY DEF Init, RbInit, RxInit, TbInit, TxInit, LineInit
  <1>2. toRx \in Seq(Frame) /\ \A S : NoneOf(toRx, S) /\ NoneOf(toTx, S)
    BY <1>1, EmptySeq, EmptyHasNone DEF NoneOf
  <1>3. \A A, B : NoneAfter(toRx, A, B)
    BY <1>2, NoneIsOrdered
  <1>4. ClosedFit
    <2>1. Len(rfiles) = 0
      BY <1>1, EmptySeq
    <2> QED
      BY <2>1 DEF ClosedFit
  <1>5. RxPhase
    BY <1>1 DEF RxPhase, HasFile
  <1>6. FramesFit
    BY <1>1, <1>2, <1>3 DEF FramesFit, InOrder, NoneOf
  <1>7. TxPhase
    BY <1>1, <1>2 DEF TxPhase, Running, HasFile
  <1> QED
    BY <1>4, <1>5, <1>6, <1>7 DEF InPhase

LEMMA PhaseNext ==
  ASSUME SafeBatch, TypeOK, InPhase, [Next]_vars
  PROVE  InPhase'
  <1>1. Prompt /\ "header" \notin Faults
    BY DEF SafeBatch
  <1>2. CASE (RbStart \/ RbBreak \/ InFile(RxBreak) \/ RbStep) /\ UNCHANGED <<tbVars, fresh>>
    BY <1>1, <1>2, ReceiverFits
  <1>3. CASE \/ TbBegin /\ UNCHANGED rbVars
             \/ (TbBreak \/ TbStep) /\ UNCHANGED <<rbVars, fresh>>
    BY <1>1, <1>3, SenderFits
  <1>4. CASE (StrayToRx \/ StrayToTx) /\ UNCHANGED <<rbVars, tbVars, fresh>>
    BY <1>4, NoiseFits
  <1>5. CASE UNCHANGED vars
    BY <1>5, NoiseFits DEF vars
  <1> QED
    BY <1>2, <1>3, <1>4, <1>5 DEF Next

\* The inductive invariant of a batch on a prompt line: the closed files are
\* parts of the first ones of the list, and what is under way belongs to the
\* file both sides are at.
THEOREM BatchInvariance == ASSUME SafeBatch PROVE Spec => []BatchInv
  <1>1. Init => InPhase
    BY StartsInPhase
  <1>2. SafeBatch /\ TypeOK /\ InPhase /\ [Next]_vars => InPhase'
    BY PhaseNext
  <1> QED
    BY <1>1, <1>2, BatchTypes, PTL DEF Spec, BatchInv

\* Even when old answers mislead the sender, what lands in a file comes from
\* that file alone, in order and once, and no file is received twice.
THEOREM FilesAreNotMixed == ASSUME SafeBatch PROVE Spec => []NoMixing
  <1> DEFINE Open == rname = "file" /\ rpc \notin RxEnded
             Received(k) == IF k <= Len(rfiles) THEN rfiles[k]
                                                ELSE [name |-> rhead, blocks |-> Held]
             Last == Len(rfiles) + (IF Open THEN 1 ELSE 0)
  <1>1. ASSUME TypeOK, InPhase
        PROVE  NoMixing
    <2>1. Len(rfiles) \in Nat /\ ClosedFit
      BY <1>1, TypeFacts DEF InPhase
    <2>2. Open => rhead = Len(rfiles) + 1 /\ PartOf(Held, rhead)
      BY <1>1 DEF InPhase, Alive, RxPhase, HasFile
    <2>3. ASSUME NEW k \in 1..Last
          PROVE  Received(k).name = k /\ PartOf(Received(k).blocks, k)
      <3>1. CASE k <= Len(rfiles)
        BY <2>1, <3>1 DEF ClosedFit
      <3>2. CASE k > Len(rfiles)
        <4>1. Open /\ k = Len(rfiles) + 1
          BY <2>1, <3>2
        <4> QED
          BY <2>1, <2>2, <3>2, <4>1
      <3> QED
        BY <2>1, <3>1, <3>2
    <2> HIDE DEF Received, Last
    <2>4. \A k \in 1..Last :
             LET b == Received(k).blocks
             IN  /\ Range(b) \subseteq Range(Batch[Received(k).name])
                 /\ \A i, j \in 1..Len(b) : i < j => b[i] < b[j]
      BY <2>3 DEF PartOf
    <2>5. \A k, l \in 1..Last : k < l => Received(k).name < Received(l).name
      BY <2>3
    <2> QED
      BY <2>4, <2>5 DEF NoMixing, Received, Last
  <1>2. BatchInv => NoMixing
    BY <1>1 DEF BatchInv
  <1> QED
    BY <1>2, BatchInvariance, PTL

-----------------------------------------------------------------------------
(* Nothing waited on the line: the receiver's steps.                       *)

\* No answer is made up, and none comes before the one that is waited for.
LEMMA AnswersStay ==
  ASSUME toTx \in Seq(Reply),
         \/ toTx' = toTx
         \/ toTx # <<>> /\ toTx' = Tail(toTx)
         \/ toTx' = toTx \o <<"junk">>
  PROVE  /\ AnswersInPairs => AnswersInPairs'
         /\ Range(toTx') \cap Asks \subseteq Range(toTx)
  <1>1. CASE toTx' = toTx
    BY <1>1 DEF AnswersInPairs
  <1>2. CASE toTx # <<>> /\ toTx' = Tail(toTx)
    <2>1. \A A, B : NoneAfter(toTx, A, B) => NoneAfter(toTx', A, B)
      BY <1>2, TailIsOrdered
    <2>2. Range(toTx') \subseteq Range(toTx)
      BY <1>2, TailOf
    <2> QED
      BY <2>1, <2>2 DEF AnswersInPairs
  <1>3. CASE toTx' = toTx \o <<"junk">>
    <2>a. <<"junk">> \in Seq(Reply)
      BY ReplyKinds
    <2>0. PICK r \in Seq(Reply) : r = <<"junk">>
      BY <2>a
    <2>1. Len(r) <= 1 /\ Range(r) = {"junk"}
      BY <2>0, RangeOfSingle
    <2>2. toTx' = toTx \o r /\ NoneOf(r, {"NAK", "ACK"}) /\ NoneOf(r, {"C"})
      BY <1>3, <2>0, <2>1 DEF NoneOf
    <2>3. AnswersInPairs => AnswersInPairs'
      BY <2>1, <2>2, BehindIsOrdered DEF AnswersInPairs
    <2>4. Range(toTx') = Range(toTx) \cup Range(r)
      BY <2>2, RangeConcatenation
    <2> QED
      BY <2>1, <2>3, <2>4 DEF Asks
  <1> QED
    BY <1>1, <1>2, <1>3

\* What is written when no answer is on its way is a pair, or part of one.
LEMMA PairBegins ==
  ASSUME toTx \in Seq(Reply), NoneOf(toTx, Asks),
         (\E c \in Reply : Reply1(toTx, c)) \/ Reply2("ACK", "C")
  PROVE  AnswersInPairs'
  <1>1. NoneOf(toTx, {"C", "NAK"})
    BY DEF NoneOf, Asks
  <1>2. CASE \E c \in Reply : Reply1(toTx, c)
    <2>1. PICK c \in Reply : Reply1(toTx, c)
      BY <1>2
    <2>2. PICK r \in Seq(Reply) : Len(r) <= 1 /\ toTx' = toTx \o r
      BY <2>1, OneReply
    <2>3. NoneAfter(toTx, Asks, {"NAK", "ACK"}) /\ NoneAfter(toTx, {"C", "NAK"}, {"C"})
      BY <1>1, NoneIsOrdered
    <2> QED
      BY <1>1, <2>2, <2>3, BehindIsOrdered DEF AnswersInPairs
  <1>3. CASE Reply2("ACK", "C")
    <2>1. PICK r \in Seq(Reply), s \in Seq(Reply) :
             /\ Len(r) <= 1 /\ Range(r) \subseteq {"ACK", "junk"}
             /\ Len(s) <= 1 /\ Range(s) \subseteq {"C", "junk"}
             /\ toTx' = (toTx \o r) \o s
      BY <1>3, AckAndC
    <2> DEFINE q == toTx \o r
    <2>2. q \in Seq(Reply) /\ Range(q) = Range(toTx) \cup Range(r)
      BY <2>1, ConcatProperties, RangeConcatenation
    <2>3. NoneOf(q, {"C", "NAK"}) /\ NoneOf(s, {"NAK", "ACK"})
      BY <1>1, <2>1, <2>2 DEF NoneOf
    <2>4. NoneAfter(q, Asks, {"NAK", "ACK"})
      <3>1. NoneAfter(toTx, Asks, {"NAK", "ACK"})
        BY NoneIsOrdered
      <3> QED
        BY <2>1, <3>1, BehindIsOrdered
    <2>5. toTx' = q \o s
      BY <2>1
    <2> HIDE DEF q
    <2>6. NoneAfter(q, {"C", "NAK"}, {"C"})
      BY <2>2, <2>3, NoneIsOrdered
    <2> QED
      BY <2>1, <2>2, <2>3, <2>4, <2>5, <2>6, BehindIsOrdered DEF AnswersInPairs
  <1> QED
    BY <1>2, <1>3

\* A purge, or a frame that is read.
LEMMA MarksRead ==
  ASSUME toRx \in Seq(Frame), AtMostOne(toRx, Marks),
         toRx' \in {toRx, <<>>} \/ (toRx # <<>> /\ toRx' = Tail(toRx))
  PROVE  /\ Range(toRx') \subseteq Range(toRx)
         /\ \A S : NoneOf(toRx, S) => NoneOf(toRx', S)
         /\ AtMostOne(toRx', Marks)
         /\ toRx # <<>> /\ toRx' = Tail(toRx) /\ Head(toRx) \in Marks =>
              NoneOf(toRx', Marks) /\ ~NoneOf(toRx, Marks)
  <1>1. /\ Range(toRx') \subseteq Range(toRx)
        /\ \A S : NoneOf(toRx, S) => NoneOf(toRx', S)
    BY LessToRead
  <1>2. CASE toRx' = toRx
    <2>1. toRx # <<>> => toRx' # Tail(toRx)
      <3>1. toRx # <<>> => Len(Tail(toRx)) = Len(toRx) - 1 /\ Len(toRx) \in Nat
        BY HeadTailProperties, LenProperties
      <3> QED
        BY <1>2, <3>1
    <2> QED
      BY <1>1, <1>2, <2>1
  <1>3. CASE toRx' = <<>>
    <2>1. NoneOf(toRx', Marks) /\ toRx' \in Seq(Frame)
      BY <1>3, EmptySeq, EmptyHasNone DEF NoneOf
    <2>2. toRx # <<>> => Head(toRx) \in Range(toRx)
      BY TailOf
    <2> QED
      BY <1>1, <2>1, <2>2, NoneIsAtMostOne DEF NoneOf
  <1>4. CASE toRx # <<>> /\ toRx' = Tail(toRx)
    BY <1>1, <1>4, TailOf DEF NoneOf
  <1> QED
    BY <1>2, <1>3, <1>4

\* What is to be shown of a step of the receiver.
LEMMA RxKeepsWhole ==
  ASSUME TypeOK, OneUnderWay, UNCHANGED tbVars,
         toRx' \in {toRx, <<>>} \/ (toRx # <<>> /\ toRx' = Tail(toRx)),
         ClosedWhole', FileWhole',
         NoneOf(toRx', Datas) \/ UNCHANGED <<rblk, rhead>>,
         tpc \in TbWaits => OneAnswer',
         tpc \in Running =>
           rblk' \in {tblk, tblk + 1} /\ ("ACK" \in Range(toTx') => rblk' = tblk + 1)
  PROVE  Undisturbed'
  <1>1. UNCHANGED <<tpc, tblk, tfile>>
    BY DEF tbVars, txVars
  <1>2. /\ Range(toRx') \subseteq Range(toRx)
        /\ \A S : NoneOf(toRx, S) => NoneOf(toRx', S)
        /\ AtMostOne(toRx', Marks)
    BY TypeFacts, MarksRead DEF OneUnderWay
  <1>3. \A f \in Range(toRx') \cap Datas : Current(f)'
    <2>1. CASE NoneOf(toRx', Datas)
      BY <2>1 DEF NoneOf
    <2>2. CASE UNCHANGED <<rblk, rhead>>
      BY <1>1, <1>2, <2>2 DEF OneUnderWay, Current
    <2> QED
      BY <2>1, <2>2
  <1>4. OneUnderWay'
    BY <1>1, <1>2, <1>3 DEF OneUnderWay
  <1> QED
    BY <1>4 DEF Undisturbed

\* The file, when nothing is stored.
LEMMA FileStays ==
  ASSUME TypeOK, FileWhole, UNCHANGED tbVars, UNCHANGED <<rbuf, rfile, batchVars>>,
         HasFile => rblk' = rblk,
         toRx' \in {toRx, <<>>} \/ (toRx # <<>> /\ toRx' = Tail(toRx)),
         rpc' = "eot" => rpc = "eot"
  PROVE  FileWhole' /\ (ClosedWhole => ClosedWhole')
  <1>1. Held' = Held /\ HasFile' = HasFile /\ UNCHANGED <<rhead, rfiles, tpc>>
    BY DEF Held, HasFile, batchVars, tbVars, txVars
  <1>2. NoneOf(toRx, Eots) => NoneOf(toRx', Eots)
    BY TypeFacts, LessToRead
  <1>3. FileWhole'
    BY <1>1, <1>2 DEF FileWhole, AllHere
  <1> QED
    BY <1>1, <1>3 DEF ClosedWhole

\* The receiver goes on without a word.
LEMMA RxMovesWhole ==
  ASSUME TypeOK, Undisturbed, Alive, UNCHANGED tbVars,
         UNCHANGED <<rbuf, rfile, rblk, toTx, batchVars>>,
         toRx' \in {toRx, <<>>} \/ (toRx # <<>> /\ toRx' = Tail(toRx)),
         rpc' = "eot" => rpc = "eot",
         \/ rpc' = rpc
         \/ rpc' \notin {"idle", "purge"}
         \/ toTx = <<>> /\ toRx = <<>> /\ toRx' = toRx
         \/ toRx # <<>> /\ toRx' = Tail(toRx) /\ Head(toRx) \in Marks
  PROVE  Undisturbed'
  <1>1. FileWhole /\ OneUnderWay /\ ClosedWhole
    BY DEF Undisturbed
  <1>2. FileWhole' /\ ClosedWhole'
    BY <1>1, FileStays
  <1>3. /\ \A S : NoneOf(toRx, S) => NoneOf(toRx', S)
        /\ toRx # <<>> /\ toRx' = Tail(toRx) /\ Head(toRx) \in Marks =>
             NoneOf(toRx', Marks) /\ ~NoneOf(toRx, Marks)
    BY <1>1, TypeFacts, MarksRead DEF OneUnderWay
  <1>4. tpc \in TbWaits => OneAnswer'
    <2> SUFFICES ASSUME tpc \in TbWaits PROVE OneAnswer'
      OBVIOUS
    <2>1. OneAnswer
      BY <1>1 DEF OneUnderWay
    <2>2. AnswersInPairs' /\ (NoneOf(toTx', Asks) \/ NoneOf(toRx', Marks))
      BY <1>3, <2>1 DEF OneAnswer, AnswersInPairs
    <2>3. rpc' \in {"idle", "purge"} => NothingAsked'
      <3>1. CASE rpc' = rpc
        BY <1>3, <2>1, <3>1 DEF OneAnswer, NothingAsked
      <3>2. CASE toTx = <<>> /\ toRx = <<>> /\ toRx' = toRx
        BY <3>2, EmptyHasNone DEF NothingAsked, NoneOf
      <3>3. CASE toRx # <<>> /\ toRx' = Tail(toRx) /\ Head(toRx) \in Marks
        BY <1>3, <2>1, <3>3 DEF OneAnswer, NothingAsked
      <3> QED
        BY <3>1, <3>2, <3>3
    <2> QED
      BY <2>2, <2>3 DEF OneAnswer
  <1>5. tpc \in Running =>
          rblk' \in {tblk, tblk + 1} /\ ("ACK" \in Range(toTx') => rblk' = tblk + 1)
    BY <1>1 DEF OneUnderWay
  <1>6. UNCHANGED <<rblk, rhead>>
    BY DEF batchVars
  <1> QED
    BY <1>1, <1>2, <1>4, <1>5, <1>6, RxKeepsWhole

\* It asks for something, when there is nothing to wait for.
LEMMA RxAsksWhole ==
  ASSUME TypeOK, InPhase, Undisturbed, Alive, UNCHANGED tbVars,
         UNCHANGED <<rbuf, rfile, batchVars>>, HasFile => rblk' = rblk,
         toRx' \in {toRx, <<>>} \/ (toRx # <<>> /\ toRx' = Tail(toRx)),
         NEW c \in {"C", "NAK"}, Reply1(toTx, c), rpc' \in {"negC", "negN", "poll"},
         tpc \in TbWaits => NothingAsked
  PROVE  Undisturbed'
  <1>1. FileWhole /\ OneUnderWay /\ ClosedWhole
    BY DEF Undisturbed
  <1>2. FileWhole' /\ ClosedWhole'
    BY <1>1, FileStays
  <1>3. \A S : NoneOf(toRx, S) => NoneOf(toRx', S)
    BY <1>1, TypeFacts, MarksRead DEF OneUnderWay
  <1>4. c \in Reply
    BY ReplyKinds
  <1>5. tpc \in TbWaits => OneAnswer'
    BY <1>3, <1>4, TypeFacts, PairBegins DEF OneAnswer, NothingAsked
  <1>6. tpc \in Running =>
          rblk' \in {tblk, tblk + 1} /\ ("ACK" \in Range(toTx') => rblk' = tblk + 1)
    <2>1. Range(toTx') \subseteq Range(toTx) \cup {c, "junk"}
      BY <1>4, TypeFacts, ReplySent
    <2>2. tpc \in Running => HasFile
      BY DEF InPhase, TxPhase
    <2> QED
      BY <1>1, <2>1, <2>2 DEF OneUnderWay
  <1>7. NoneOf(toRx', Datas) \/ UNCHANGED <<rblk, rhead>>
    <2>1. CASE HasFile
      BY <2>1 DEF batchVars
    <2>2. CASE ~HasFile
      BY <1>3, <2>2 DEF InPhase, FramesFit, NoneOf
    <2> QED
      BY <2>1, <2>2
  <1> QED
    BY <1>1, <1>2, <1>5, <1>6, <1>7, RxKeepsWhole

\* Nothing is on its way to the sender: nothing was asked of it.
LEMMA NothingIsAsked ==
  ASSUME toRx = <<>>, toTx = <<>> \/ tpc = "idle"
  PROVE  tpc \in TbWaits => NothingAsked
  BY EmptyHasNone DEF NothingAsked, NoneOf, TbWaits

\* A block that the receiver acknowledges.
LEMMA BlockIsRead ==
  ASSUME TypeOK, InPhase, Undisturbed, Alive, Receiving, toRx' = Tail(toRx),
         Head(toRx).kind = "blk", rblk # 0
  PROVE  /\ HasFile /\ Head(toRx) \in Range(toRx) \cap Blocks
         /\ NoneOf(toRx', Marks)
         /\ tpc \in TbWaits => NoneOf(toTx, Asks)
         /\ Head(toRx) \in Datas => Current(Head(toRx))
         /\ tpc \in Running => Head(toRx) \in Datas
  <1>1. toRx # <<>> /\ rpc = "recv"
    BY DEF Receiving
  <1>2. HasFile
    BY <1>1 DEF InPhase, RxPhase
  <1>3. Head(toRx) \in Range(toRx) \cap Blocks /\ Head(toRx) \in Marks
    BY <1>1, HeadKinds DEF Marks
  <1>4. NoneOf(toRx', Marks) /\ ~NoneOf(toRx, Marks)
    BY <1>1, <1>3, TypeFacts, MarksRead DEF Undisturbed, OneUnderWay
  <1>5. tpc \in TbWaits => NoneOf(toTx, Asks)
    BY <1>4 DEF Undisturbed, OneUnderWay, OneAnswer
  <1>6. /\ Head(toRx) \in Datas => Current(Head(toRx))
        /\ tpc \in Running => Head(toRx) \in Datas
    BY <1>3 DEF Undisturbed, OneUnderWay, NoneOf, Headers, Datas
  <1> QED
    BY <1>2, <1>3, <1>4, <1>5, <1>6

\* The block before: the sender is at it, so its answer was lost or comes now.
LEMMA DuplicateKeepsWhole ==
  ASSUME TypeOK, InPhase, Undisturbed, Alive, UNCHANGED tbVars, RxDuplicate,
         UNCHANGED batchVars, rblk # 0
  PROVE  Undisturbed'
  <1>1. /\ Receiving /\ Head(toRx).kind = "blk" /\ ~IsExpected(Head(toRx))
        /\ toRx # <<>> /\ toRx' = Tail(toRx) /\ Reply1(toTx, "ACK") /\ rpc' = "poll"
        /\ UNCHANGED <<rblk, rbuf, rfile>>
    BY DEF RxDuplicate, Receiving, IsPrevious
  <1>2. /\ HasFile /\ NoneOf(toRx', Marks)
        /\ tpc \in TbWaits => NoneOf(toTx, Asks)
        /\ tpc \in Running => Current(Head(toRx))
    BY <1>1, BlockIsRead
  <1>3. FileWhole' /\ ClosedWhole'
    BY <1>1, FileStays DEF Undisturbed
  <1>4. tpc \in TbWaits => OneAnswer'
    <2>1. tpc \in TbWaits => AnswersInPairs'
      BY <1>1, <1>2, TypeFacts, PairBegins, ReplyKinds
    <2> QED
      BY <1>1, <1>2, <2>1 DEF OneAnswer
  <1>5. tpc \in Running => rblk = tblk + 1
    BY <1>1, <1>2 DEF Current, IsExpected
  <1>6. NoneOf(toRx', Datas)
    BY <1>2 DEF NoneOf, Marks, Datas
  <1> QED
    BY <1>1, <1>3, <1>4, <1>5, <1>6, RxKeepsWhole DEF Undisturbed

\* One block more of a file.
LEMMA FirstBlocksNext ==
  ASSUME NEW T, NEW q \in Seq(T), NEW n \in 1..Len(q)
  PROVE  Append(SubSeq(q, 1, n - 1), q[n]) = SubSeq(q, 1, n)
  <1>1. /\ Len(q) \in Nat /\ n \in Nat /\ n - 1 \in Nat /\ DOMAIN q = 1..Len(q)
        /\ \A i \in 1..Len(q) : q[i] \in T
    BY LenProperties
  <1>2. /\ SubSeq(q, 1, n) \in Seq(T) /\ Len(SubSeq(q, 1, n)) = n
        /\ \A i \in 1..n : SubSeq(q, 1, n)[i] = q[i]
    BY <1>1, SubSeqProperties
  <1>3. /\ SubSeq(q, 1, n - 1) \in Seq(T) /\ Len(SubSeq(q, 1, n - 1)) = n - 1
        /\ \A i \in 1..(n - 1) : SubSeq(q, 1, n - 1)[i] = q[i]
    BY <1>1, SubSeqProperties
  <1> DEFINE a == Append(SubSeq(q, 1, n - 1), q[n])
  <1>4. /\ a \in Seq(T) /\ Len(a) = n
        /\ \A i \in 1..n : a[i] = q[i]
    BY <1>1, <1>3, AppendProperties
  <1> QED
    BY <1>2, <1>4, SeqEqual

\* The block that is expected: the sender is at it, and it is the next.
LEMMA NextBlockIsStored ==
  ASSUME SafeDisk, TypeOK, InPhase, Undisturbed, Alive, UNCHANGED tbVars, RxData,
         UNCHANGED batchVars, rblk # 0
  PROVE  Undisturbed'
  <1> DEFINE f == Head(toRx)
             B == Batch[rhead]
  <1>1. /\ Receiving /\ f.kind = "blk" /\ IsExpected(f) /\ Store(f.pos)
        /\ toRx # <<>> /\ toRx' = Tail(toRx) /\ Reply1(toTx, "ACK") /\ rpc' = "poll"
        /\ rblk' = rblk + 1
    BY DEF RxData, Receiving
  <1>2. /\ HasFile /\ NoneOf(toRx', Marks) /\ f \in Range(toRx) \cap Blocks
        /\ tpc \in TbWaits => NoneOf(toTx, Asks)
        /\ f \in Datas => Current(f)
    BY <1>1, BlockIsRead
  <1>3. f \in Datas /\ Current(f)
    BY <1>1, <1>2, HeaderIsNotExpected
  <1>4. /\ rhead \in 1..Len(Batch) /\ B \in Seq(1..NBlocks) /\ Len(B) \in Nat
        /\ tblk \in Nat \ {0} /\ rblk \in Nat
    <2>1. rhead = Len(rfiles) + 1 /\ rhead <= Len(Batch)
      BY <1>2 DEF InPhase, RxPhase
    <2>2. rhead \in 1..Len(Batch) /\ tblk \in Nat \ {0} /\ rblk \in Nat
      BY <2>1, TypeFacts
    <2> QED
      BY <2>2, FileFacts
  <1>5. rblk = tblk /\ tblk \in 1..Len(B) /\ f.pos = B[rblk]
    <2>1. Low(tblk) = Low(rblk) /\ tblk <= Len(B) /\ rblk \in {tblk, tblk + 1}
          /\ f.pos = B[tblk]
      BY <1>1, <1>3 DEF Current, IsExpected
    <2>2. Low(tblk + 1) # Low(tblk)
      BY <1>4, NextByteDiffers
    <2> QED
      BY <1>4, <2>1, <2>2
  <1>6. Held' = Append(Held, f.pos)
    <2>1. f.pos \in Nat
      BY <1>2 DEF Blocks, Frame
    <2> QED
      BY <1>1, <2>1, TypeFacts, StoreHolds DEF SafeDisk
  <1> HIDE DEF f, B
  <1>7. Held' = SubSeq(B, 1, rblk)
    <2>1. Held = SubSeq(B, 1, rblk - 1)
      BY <1>2 DEF Undisturbed, FileWhole, B
    <2> QED
      BY <1>4, <1>5, <1>6, <2>1, FirstBlocksNext
  <1>8. /\ HasFile' /\ rhead' = rhead /\ UNCHANGED <<tpc, tblk, rfiles>>
    BY <1>2 DEF batchVars, HasFile, tbVars, txVars
  <1>9. tpc \notin {"hdrC", "beot"} /\ NoneOf(toRx', Eots) /\ NoneOf(toRx', Datas)
    <2>1. ~AllHere
      BY <1>4, <1>5 DEF AllHere, B
    <2>2. tpc \notin {"hdrC", "beot"}
      BY <1>2, <2>1 DEF Undisturbed, FileWhole
    <2> QED
      BY <1>2, <2>2 DEF NoneOf, Marks, Datas
  <1>10. FileWhole'
    <2>1. rblk' <= Len(B) + 1 /\ rblk' - 1 = rblk
      BY <1>1, <1>4, <1>5
    <2>2. rpc' # "eot"
      BY <1>1
    <2> QED
      BY <1>7, <1>8, <1>9, <2>1, <2>2 DEF FileWhole, B
  <1>11. ClosedWhole'
    BY <1>8 DEF Undisturbed, ClosedWhole
  <1>12. tpc \in TbWaits => OneAnswer'
    <2>1. tpc \in TbWaits => AnswersInPairs'
      BY <1>1, <1>2, TypeFacts, PairBegins, ReplyKinds
    <2> QED
      BY <1>1, <1>2, <2>1 DEF OneAnswer
  <1> QED
    BY <1>1, <1>5, <1>9, <1>10, <1>11, <1>12, RxKeepsWhole DEF Undisturbed

\* The header of the next file: nothing of it is there, and no EOT comes.
LEMMA HeaderKeepsWhole ==
  ASSUME TypeOK, InPhase, Undisturbed, Alive, Alive', UNCHANGED tbVars, RbHeader
  PROVE  Undisturbed'
  <1> DEFINE f == Head(toRx)
  <1>1. /\ toRx # <<>> /\ rblk = 0 /\ f.kind = "blk" /\ IsHeader(f)
        /\ HeaderOf(f) <= Len(Batch)
    BY DEF RbHeader, ReceivingHeader, Receiving
  <1>2. /\ rname' = "file" /\ rhead' = HeaderOf(f) /\ rblk' = 1 /\ rpc' = "poll"
        /\ toRx' = Tail(toRx) /\ Reply2("ACK", "C") /\ UNCHANGED <<rbuf, rfile, rfiles>>
    BY DEF RbHeader, RbGiveUp, Alive, RxEnded
  <1>3. /\ ~HasFile /\ tfile = Len(rfiles) + 1 /\ f \in Headers \cap Range(toRx)
        /\ HeaderOf(f) = tfile /\ ~tlast
    BY <1>1, HeaderIsNext
  <1>4. UNCHANGED <<tpc, tblk>>
    BY DEF tbVars, txVars
  <1>5. NoneOf(toRx', Marks) /\ ~NoneOf(toRx, Marks)
    <2>1. f \in Marks
      BY <1>3 DEF Headers, Marks
    <2> QED
      BY <1>1, <1>2, <2>1, TypeFacts, MarksRead DEF Undisturbed, OneUnderWay
  <1>6. NoneOf(toRx', Datas) /\ NoneOf(toRx', Eots)
    BY <1>5 DEF NoneOf, Marks, Datas
  <1>7. tpc \notin {"hdrC", "beot"} \cup Running
    <2>1. tpc # "hdrC"
      BY <1>3 DEF InPhase, TxPhase, NoneOf, Headers
    <2>2. tpc # "beot"
      <3>1. tfile # Len(rfiles)
        BY <1>3, TypeFacts
      <3> QED
        BY <1>3, <3>1 DEF InPhase, TxPhase
    <2>3. tpc \notin Running
      BY <1>3 DEF InPhase, TxPhase
    <2> QED
      BY <2>1, <2>2, <2>3
  <1>8. FileWhole'
    <2>1. rhead' \in 1..Len(Batch) /\ Len(Batch[rhead']) \in Nat
      <3>1. tfile \in 1..Len(Batch)
        BY <1>1, <1>3, TypeFacts
      <3> QED
        BY <1>2, <1>3, <3>1, FileFacts
    <2>2. Held' = <<>>
      BY <1>2, <1>3, EmptySeq, ConcatEmptySeq DEF InPhase, RxPhase, Held
    <2>3. SubSeq(Batch[rhead'], 1, 0) = <<>>
      <3>1. Batch[rhead'] \in Seq(1..NBlocks)
        BY <2>1, FileFacts
      <3> QED
        BY <3>1, SubSeqProperties, EmptySeq
    <2>4. rblk' <= Len(Batch[rhead']) + 1 /\ rblk' - 1 = 0
      BY <1>2, <2>1
    <2> QED
      BY <1>2, <1>4, <1>6, <1>7, <2>2, <2>3, <2>4 DEF FileWhole
  <1>9. ClosedWhole'
    BY <1>2 DEF Undisturbed, ClosedWhole
  <1>10. tpc \in TbWaits => OneAnswer'
    <2>1. tpc \in TbWaits => NoneOf(toTx, Asks)
      BY <1>5 DEF Undisturbed, OneUnderWay, OneAnswer
    <2>2. tpc \in TbWaits => AnswersInPairs'
      BY <1>2, <2>1, TypeFacts, PairBegins
    <2> QED
      BY <1>2, <1>5, <2>2 DEF OneAnswer
  <1> QED
    BY <1>2, <1>6, <1>7, <1>8, <1>9, <1>10, RxKeepsWhole DEF Undisturbed

\* The EOT, which the sender writes when the receiver has all.
LEMMA EotKeepsWhole ==
  ASSUME SafeDisk, TypeOK, InPhase, Undisturbed, Alive, UNCHANGED tbVars, RbEot
  PROVE  Undisturbed'
  <1>1. /\ toRx # <<>> /\ toRx' = Tail(toRx) /\ rblk # 0 /\ Flush(TRUE) /\ rpc' = "eot"
        /\ rpc = "recv" /\ Reply1(toTx, "NAK") /\ UNCHANGED <<rblk, rname, rhead, rfiles>>
    BY DEF RbEot, Receiving, Flush, SafeDisk, batchVars
  <1>2. HasFile /\ HasFile'
    BY <1>1 DEF InPhase, RxPhase, HasFile
  <1>3. Head(toRx) \in Eots \cap Range(toRx) /\ Head(toRx) \in Marks
    BY <1>1, HeadKinds DEF RbEot, Marks
  <1>4. NoneOf(toRx', Marks) /\ ~NoneOf(toRx, Marks)
    BY <1>1, <1>3, TypeFacts, MarksRead DEF Undisturbed, OneUnderWay
  <1>5. AllHere /\ tpc \notin Running
    BY <1>2, <1>3 DEF Undisturbed, FileWhole, InPhase, TxPhase, NoneOf
  <1>6. Held' = Held
    BY <1>1, TypeFacts, FlushHolds
  <1>7. FileWhole'
    BY <1>1, <1>2, <1>5, <1>6 DEF Undisturbed, FileWhole, AllHere
  <1>8. ClosedWhole'
    BY <1>1 DEF Undisturbed, ClosedWhole
  <1>9. tpc \in TbWaits => OneAnswer'
    <2>1. tpc \in TbWaits => NoneOf(toTx, Asks)
      BY <1>4 DEF Undisturbed, OneUnderWay, OneAnswer
    <2>2. tpc \in TbWaits => AnswersInPairs'
      BY <1>1, <2>1, TypeFacts, PairBegins, ReplyKinds
    <2> QED
      BY <1>1, <1>4, <2>2 DEF OneAnswer
  <1> QED
    BY <1>1, <1>5, <1>7, <1>8, <1>9, RxKeepsWhole DEF Undisturbed

\* The file is closed: all of it was there when its EOT came.
LEMMA CloseKeepsWhole ==
  ASSUME Prompt, TypeOK, InPhase, Undisturbed, Alive, UNCHANGED tbVars,
         RbSecondEot \/ (RbNoSecondEot /\ NothingForRx)
  PROVE  Undisturbed'
  <1>1. /\ rpc = "eot" /\ RbClose
        /\ toRx' \in {toRx, <<>>} \/ (toRx # <<>> /\ toRx' = Tail(toRx))
    BY DEF RbSecondEot, RbNoSecondEot
  <1>2. /\ HasFile /\ rbuf = <<>> /\ NoneOf(toRx, Marks) /\ rhead = Len(rfiles) + 1
        /\ rhead <= Len(Batch) /\ AllHere /\ tpc \notin {"idle"} \cup Running
    BY <1>1 DEF InPhase, RxPhase, TxPhase, Undisturbed, FileWhole, HasFile
  <1>3. rhead \in 1..Len(Batch) /\ Batch[rhead] \in Seq(1..NBlocks)
    <2>1. rhead \in 1..Len(Batch)
      BY <1>2, TypeFacts
    <2> QED
      BY <2>1, FileFacts
  <1>4. rfile = Batch[rhead]
    <2>1. Held = rfile
      BY <1>2, TypeFacts, ConcatEmptySeq DEF Held
    <2>2. rblk - 1 = Len(Batch[rhead])
      BY <1>2, <1>3, LenProperties DEF AllHere
    <2> QED
      BY <1>2, <1>3, <2>1, <2>2, WholeSeq DEF Undisturbed, FileWhole
  <1>5. ClosedWhole'
    <2>1. /\ rfiles \in Seq([name : Nat, blocks : Seq(Nat)])
          /\ [name |-> rhead, blocks |-> rfile] \in [name : Nat, blocks : Seq(Nat)]
      BY <1>3, TypeFacts
    <2>2. /\ Len(rfiles') = Len(rfiles) + 1 /\ Len(rfiles) \in Nat
          /\ \A k \in 1..Len(rfiles) : rfiles'[k] = rfiles[k]
          /\ rfiles'[Len(rfiles) + 1] = [name |-> rhead, blocks |-> rfile]
      BY <1>1, <2>1, AppendProperties DEF RbClose
    <2> SUFFICES ASSUME NEW k \in 1..Len(rfiles') PROVE rfiles'[k].blocks = Batch[k]
      BY DEF ClosedWhole
    <2>3. CASE k \in 1..Len(rfiles)
      BY <2>2, <2>3 DEF Undisturbed, ClosedWhole
    <2>4. CASE k = Len(rfiles) + 1
      BY <1>2, <1>4, <2>2, <2>4
    <2> QED
      BY <2>2, <2>3, <2>4
  <1>6. FileWhole' /\ rpc' = "negC" /\ Reply2("ACK", "C")
    BY <1>1 DEF RbClose, FileWhole, HasFile
  <1>7. NoneOf(toRx', Marks) /\ NoneOf(toRx', Datas)
    <2>1. NoneOf(toRx', Marks)
      BY <1>1, <1>2, TypeFacts, LessToRead
    <2> QED
      BY <2>1 DEF NoneOf, Marks, Datas
  <1>8. tpc \in TbWaits => NoneOf(toTx, Asks)
    <2>1. CASE RbNoSecondEot /\ NothingForRx
      BY <1>2, <2>1, EmptyHasNone DEF NothingForRx, NoneOf
    <2>2. CASE RbSecondEot
      <3>1. toRx # <<>> /\ ~ReadsAsNothing(Head(toRx))
        BY <2>2 DEF RbSecondEot
      <3>2. Head(toRx) \in Frame \cap Range(toRx)
        BY <3>1, HeadKinds
      <3>3. /\ ~ReadsAsEot(Head(toRx)) /\ ~IsRejected(Head(toRx)) /\ Head(toRx).kind # "blk"
        BY <1>2, <3>1, <3>2, HeadKinds DEF NoneOf, Marks
      <3>4. Head(toRx) \in Cans
        BY <2>2, <3>1, <3>3, HeadKinds DEF RbSecondEot
      <3>5. tpc \in TxEnded
        BY <3>2, <3>4 DEF Undisturbed, OneUnderWay, NoneOf
      <3> QED
        BY <3>5 DEF TxEnded, TbWaits
    <2> QED
      BY <2>1, <2>2
  <1>9. tpc \in TbWaits => OneAnswer'
    BY <1>6, <1>7, <1>8, TypeFacts, PairBegins DEF OneAnswer
  <1> QED
    BY <1>1, <1>2, <1>5, <1>6, <1>7, <1>9, RxKeepsWhole DEF Undisturbed

\* The receiver has ended, or ends.
LEMMA EndingKeepsWhole ==
  ASSUME Undisturbed, rpc' \in RxEnded, rfiles' = rfiles
  PROVE  Undisturbed'
  BY DEF Undisturbed, Alive, ClosedWhole

LEMMA ErrorKeepsWhole ==
  ASSUME TypeOK, Undisturbed, Alive, UNCHANGED tbVars, UNCHANGED batchVars,
         NEW q, RxError(q), rpc = "recv",
         \/ q = toRx /\ toRx = <<>> /\ (toTx = <<>> \/ tpc = "idle")
         \/ toRx # <<>> /\ q = Tail(toRx) /\ Head(toRx) \in Marks,
         tpc # "idle"
  PROVE  Undisturbed'
  <1>1. CASE rpc' = "aborted"
    BY <1>1, EndingKeepsWhole DEF RxEnded, batchVars
  <1>2. CASE rpc' = "purge" /\ toRx' = q /\ UNCHANGED <<rblk, rbuf, rfile, toTx>>
    BY <1>2, RxMovesWhole
  <1> QED
    BY <1>1, <1>2 DEF RxError, RxAbort

LEMMA ReceiverKeepsWhole ==
  ASSUME Prompt, SafeDisk, TypeOK, InPhase, Undisturbed, UNCHANGED tbVars,
         RbStart \/ RbBreak \/ InFile(RxBreak) \/ RbStep
  PROVE  Undisturbed'
  <1>1. CASE ~Alive
    <2>1. rpc \in RxEnded /\ rfiles' = rfiles /\ rpc' = rpc
      BY <1>1
      DEF Alive, RxEnded, RbStart, RbBreak, InFile, RxBreak, RbStep, RxCharReady, RxPoll, RxSkip,
          RxTerminal, RxData, RxDuplicate, RxReject, RxCancel, RbHeader, RbLastHeader,
          RbBadHeader, RbOtherHeader, RbEot, RbSecondEot, RbSecondEotSkip, RbTimer, RbQuiet,
          RxNoAnswerToC, RbNoAnswerToNak, RxSilence, RbNoHeader, RbNoSecondEot, RxPurged,
          Receiving, ReceivingHeader, rxVars, batchVars
    <2> QED
      BY <2>1, EndingKeepsWhole
  <1>2. CASE Alive
    <2>1. RxPhase /\ TxPhase /\ OneUnderWay
      BY <1>2 DEF InPhase, Undisturbed
    <2>2. CASE RbStart
      <3>1. ~HasFile /\ rbuf = <<>> /\ rfile = <<>>
        BY <2>1, <2>2 DEF RbStart, RxPhase
      <3>2. UNCHANGED <<rbuf, rfile, batchVars>> /\ Reply1(toTx, "C")
        BY <2>2, <3>1 DEF RbStart
      <3>3. rpc' = "negC" /\ toRx' \in {toRx, <<>>} /\ rpc = "idle"
        BY <2>2 DEF RbStart
      <3>4. tpc \in TbWaits => NothingAsked
        BY <2>1, <3>3 DEF OneUnderWay, OneAnswer
      <3> QED
        BY <1>2, <3>1, <3>2, <3>3, <3>4, RxAsksWhole
    <2>3. CASE RbBreak \/ InFile(RxBreak) \/ RbLastHeader \/ RbBadHeader \/ RbOtherHeader
               \/ RbNoHeader \/ InFile(RxCancel)
      BY <2>3, EndingKeepsWhole
      DEF RbBreak, InFile, RxBreak, RbLastHeader, RbBadHeader, RbOtherHeader, RbNoHeader,
          RxCancel, RbGiveUp, RxAbort, RxEnded, batchVars
    <2>4. CASE (RxCharReady \/ RxPoll \/ RxSkip \/ RxTerminal) /\ UNCHANGED batchVars
      <3>1. /\ UNCHANGED <<rblk, rbuf, rfile, toTx>>
            /\ toRx' = toRx \/ (toRx # <<>> /\ toRx' = Tail(toRx))
            /\ rpc' = rpc \/ rpc' \in {"poll", "recv"}
        BY <2>4 DEF RxCharReady, RxPoll, RxSkip, RxTerminal, Receiving, rxVars, lineVars
      <3>2. (rpc' = "eot" => rpc = "eot") /\ (rpc' = rpc \/ rpc' \notin {"idle", "purge"})
        BY <3>1
      <3> QED
        BY <1>2, <2>4, <3>1, <3>2, RxMovesWhole
    <2>5. CASE InFile(RxData) \/ InFile(RxDuplicate)
      BY <1>2, <2>5, NextBlockIsStored, DuplicateKeepsWhole DEF InFile
    <2>6. CASE InFile(RxReject)
      <3>1. /\ UNCHANGED batchVars /\ RxError(Tail(toRx)) /\ toRx # <<>> /\ rpc = "recv"
            /\ Head(toRx) \in Marks /\ rblk # 0
        BY <1>2, <2>6, HeadKinds DEF InFile, RxReject, Receiving, Marks
      <3>2. tpc # "idle"
        BY <2>1, <3>1 DEF RxPhase, TxPhase
      <3> QED
        BY <1>2, <3>1, <3>2, ErrorKeepsWhole
    <2>7. CASE InFile(RxSilence) /\ NothingForRx
      <3>1. UNCHANGED batchVars /\ RxError(toRx) /\ rpc = "recv" /\ rblk # 0
        BY <2>7 DEF InFile, RxSilence
      <3>2. tpc # "idle"
        BY <2>1, <3>1 DEF RxPhase, TxPhase
      <3> QED
        BY <1>2, <2>7, <3>1, <3>2, ErrorKeepsWhole DEF NothingForRx
    <2>8. CASE RbHeader
      <3>1. CASE Alive'
        BY <1>2, <2>8, <3>1, HeaderKeepsWhole
      <3>2. CASE ~Alive'
        <4>1. rfiles' = rfiles
          BY <2>8 DEF RbHeader, RbGiveUp
        <4> QED
          BY <3>2, <4>1, EndingKeepsWhole DEF Alive
      <3> QED
        BY <3>1, <3>2
    <2>9. CASE RbEot
      BY <1>2, <2>9, EotKeepsWhole
    <2>10. CASE RbSecondEot \/ (RbNoSecondEot /\ NothingForRx)
      BY <1>2, <2>10, CloseKeepsWhole
    <2>11. CASE RbSecondEotSkip
      BY <1>2, <2>11, RxMovesWhole DEF RbSecondEotSkip, rbVars, rxVars
    <2>12. CASE RxNoAnswerToC /\ UNCHANGED batchVars /\ NothingForRx
      <3>1. tpc \in TbWaits => NothingAsked
        BY <2>12, NothingIsAsked DEF NothingForRx
      <3>2. /\ UNCHANGED <<rblk, rbuf, rfile, toRx>> /\ rpc' \in {"negC", "negN"}
            /\ \E c \in {"C", "NAK"} : Reply1(toTx, c)
        BY <2>12 DEF RxNoAnswerToC
      <3> QED
        BY <1>2, <2>12, <3>1, <3>2, RxAsksWhole
    <2>13. CASE RbNoAnswerToNak /\ NothingForRx
      <3>1. tpc \in TbWaits => NothingAsked
        BY <2>13, NothingIsAsked DEF NothingForRx
      <3>2. CASE rpc' = "aborted"
        BY <2>13, <3>2, EndingKeepsWhole DEF RbNoAnswerToNak, RbGiveUp, RxEnded, batchVars
      <3>3. CASE /\ rpc' = rpc /\ rpc = "negN" /\ Reply1(toTx, "NAK")
                 /\ UNCHANGED <<rblk, rbuf, rfile, toRx, batchVars>>
        BY <1>2, <3>1, <3>3, RxAsksWhole
      <3> QED
        BY <2>13, <3>2, <3>3 DEF RbNoAnswerToNak, RbGiveUp
    <2>14. CASE RbQuiet
      <3>1. /\ UNCHANGED <<rblk, rbuf, rfile, batchVars>> /\ rpc = "purge" /\ rpc' = "poll"
            /\ toRx' = <<>> /\ Reply1(toTx, "NAK")
        BY <2>14 DEF RbQuiet, InFile, RxPurged, Purged
      <3>2. tpc \in TbWaits => NothingAsked
        BY <2>1, <3>1 DEF OneUnderWay, OneAnswer
      <3> QED
        BY <1>2, <3>1, <3>2, RxAsksWhole
    <2>15. RbTimer => NothingForRx
      BY DEF RbTimer
    <2> QED
      BY <2>2, <2>3, <2>4, <2>5, <2>6, <2>7, <2>8, <2>9, <2>10, <2>11, <2>12, <2>13, <2>14,
         <2>15
      DEF RbStep, RbTimer
  <1> QED
    BY <1>1, <1>2

-----------------------------------------------------------------------------
(* The sender's steps, and the noise.                                      *)

LEMMA HeldStays ==
  ASSUME UNCHANGED rbVars
  PROVE  /\ UNCHANGED <<rpc, rblk, rhead, rfiles>> /\ Held' = Held
         /\ HasFile' = HasFile /\ Alive' = Alive /\ (ClosedWhole => ClosedWhole')
  BY DEF rbVars, rxVars, batchVars, Held, HasFile, Alive, ClosedWhole

\* Nothing that matters is written; a CAN only when the sender has ended.
LEMMA TxQuietWhole ==
  ASSUME "header" \notin Faults, TypeOK, Undisturbed, UNCHANGED rbVars,
         \/ toTx' = toTx
         \/ toTx # <<>> /\ toTx' = Tail(toTx)
         \/ toTx' = toTx \o <<"junk">>,
         \/ toRx' = toRx
         \/ toRx' = toRx \o <<Control("junk")>>
         \/ tpc' \in TxEnded /\ Write(Control("CAN")),
         tblk' = tblk \/ (NoneOf(toRx, Datas) /\ tpc' \notin Running),
         tpc' \in TbWaits => tpc \in TbWaits,
         tpc' \in Running => tpc \in Running,
         tpc' \in {"hdrC", "beot"} => tpc \in {"hdrC", "beot"},
         tpc \in TxEnded => tpc' \in TxEnded
  PROVE  Undisturbed'
  <1>1. PICK s \in Seq(Frame) :
           /\ Len(s) <= 1 /\ toRx' = toRx \o s
           /\ \A g \in Range(s) : g.kind = "junk" \/ (g.kind = "CAN" /\ tpc' \in TxEnded)
    <2>1. CASE toRx' = toRx
      <3>1. <<>> \in Seq(Frame) /\ toRx \o <<>> = toRx /\ Len(<<>>) <= 1 /\ Range(<<>>) = {}
        BY TypeFacts, EmptySeq, ConcatEmptySeq, EmptyHasNone
      <3> QED
        BY <2>1, <3>1, Zenon
    <2>2. CASE toRx' = toRx \o <<Control("junk")>>
      <3>1. <<Control("junk")>> \in Seq(Frame)
        BY ControlIsFrame
      <3>2. PICK s \in Seq(Frame) : s = <<Control("junk")>>
        BY <3>1
      <3>3. Len(s) <= 1 /\ Range(s) = {Control("junk")}
        BY <3>2, RangeOfSingle
      <3> QED
        BY <2>2, <3>2, <3>3, ControlIsFrame
    <2>3. CASE tpc' \in TxEnded /\ Write(Control("CAN"))
      <3>1. PICK s \in Seq(Frame) :
               /\ Len(s) <= 1 /\ toRx' = toRx \o s
               /\ \A g \in Range(s) : g = Control("CAN") \/ g = Control("junk")
        BY <2>3, ControlIsFrame, FrameWritten
      <3> QED
        BY <2>3, <3>1, ControlIsFrame
    <2> QED
      BY <2>1, <2>2, <2>3
  <1>2. NoneOf(s, Marks)
    BY <1>1 DEF NoneOf, Marks, Blocks, BlkKinds, Eots
  <1>3. /\ Range(toRx') = Range(toRx) \cup Range(s)
        /\ AtMostOne(toRx, Marks) => AtMostOne(toRx', Marks)
    BY <1>1, <1>2, TypeFacts, Behind
  <1>4. /\ NoneOf(toRx, Marks) => NoneOf(toRx', Marks)
        /\ NoneOf(toRx, Eots) => NoneOf(toRx', Eots)
        /\ NoneOf(toRx, Headers) => NoneOf(toRx', Headers)
        /\ Range(toRx') \cap Datas \subseteq Range(toRx)
        /\ tpc' \notin TxEnded /\ NoneOf(toRx, Cans) => NoneOf(toRx', Cans)
    BY <1>1, <1>2, <1>3 DEF NoneOf, Marks, Headers, Datas, Cans
  <1>5. /\ AnswersInPairs => AnswersInPairs'
        /\ Range(toTx') \cap Asks \subseteq Range(toTx)
    BY TypeFacts, AnswersStay
  <1>6. NoneOf(toTx, Asks) => NoneOf(toTx', Asks)
    BY <1>5 DEF NoneOf
  <1>7. /\ UNCHANGED <<rpc, rblk, rhead, rfiles>> /\ Held' = Held
        /\ HasFile' = HasFile /\ Alive' = Alive /\ ClosedWhole'
    BY HeldStays DEF Undisturbed
  <1>8. CASE Alive
    <2>1. FileWhole /\ OneUnderWay
      BY <1>8 DEF Undisturbed
    <2>2. FileWhole'
      BY <1>4, <1>7, <2>1 DEF FileWhole, AllHere
    <2>3. \A f \in Range(toRx') \cap Datas : Current(f)'
      BY <1>4, <1>7, <2>1 DEF OneUnderWay, Current, NoneOf
    <2>4. tpc' \in TbWaits => OneAnswer'
      BY <1>4, <1>5, <1>6, <1>7, <2>1 DEF OneUnderWay, OneAnswer, NothingAsked
    <2>5. tpc' \in Running =>
            /\ NoneOf(toRx', Headers)
            /\ rblk' \in {tblk', tblk' + 1}
            /\ "ACK" \in Range(toTx') => rblk' = tblk' + 1
      <3>1. "ACK" \in Range(toTx') => "ACK" \in Range(toTx)
        BY <1>5 DEF Asks
      <3> QED
        BY <1>4, <1>7, <2>1, <3>1 DEF OneUnderWay
    <2>6. OneUnderWay'
      BY <1>3, <1>4, <2>1, <2>3, <2>4, <2>5 DEF OneUnderWay
    <2> QED
      BY <1>7, <2>2, <2>6 DEF Undisturbed
  <1>9. CASE ~Alive
    BY <1>7, <1>9 DEF Undisturbed
  <1> QED
    BY <1>8, <1>9

\* What the sender reads and does not count, what makes it give up, and the
\* noise.
LEMMA ReadingKeepsWhole ==
  ASSUME "header" \notin Faults, TypeOK, Undisturbed, UNCHANGED rbVars,
         \/ TbDiscard \/ TbBreak \/ TbSilence
         \/ (TxCan \/ TxOther \/ TxTerminal) /\ UNCHANGED <<tfile, tlast>>
         \/ (StrayToRx \/ StrayToTx \/ UNCHANGED lineVars) /\ UNCHANGED tbVars
  PROVE  Undisturbed'
  <1>1. CASE TbDiscard
    BY <1>1, TxQuietWhole DEF TbDiscard, Got, tbVars, txVars
  <1>2. CASE TbBreak \/ TbSilence \/ TxCan
    <2>1. tpc' \in TxEnded /\ Write(Control("CAN")) /\ tblk' = tblk
          /\ (toTx' = toTx \/ (toTx # <<>> /\ toTx' = Tail(toTx)))
          /\ tpc' \notin TbWaits \cup Running \cup {"hdrC", "beot"}
      BY <1>2 DEF TbBreak, TbSilence, TxCan, TxAbort, Got, TxEnded, TbWaits, Running
    <2> QED
      BY <2>1, TxQuietWhole
  <1>3. CASE TxOther
    <2>1. /\ tpc \in Running /\ tpc \in TbWaits /\ tpc' = "first" /\ UNCHANGED <<toRx, tblk>>
          /\ toTx # <<>> /\ toTx' = Tail(toTx) /\ tpc \notin TxEnded
      BY <1>3 DEF TxOther, Got, Running, TbWaits, TxEnded
    <2> QED
      BY <2>1, TxQuietWhole
  <1>4. CASE TxTerminal
    BY <1>4, TxQuietWhole DEF TxTerminal, txVars
  <1>5. CASE (StrayToRx \/ StrayToTx \/ UNCHANGED lineVars) /\ UNCHANGED tbVars
    <2>1. UNCHANGED <<tpc, tblk>>
      BY <1>5 DEF tbVars, txVars
    <2>2. /\ toTx' = toTx \/ toTx' = toTx \o <<"junk">>
          /\ toRx' = toRx \/ toRx' = toRx \o <<Control("junk")>>
      BY <1>5, NoiseIsBehind
    <2> QED
      BY <2>1, <2>2, TxQuietWhole
  <1> QED
    BY <1>1, <1>2, <1>3, <1>4, <1>5

\* What is to be shown when a frame is written: it is the only one.
LEMMA SendingKeepsWhole ==
  ASSUME "header" \notin Faults, TypeOK, Undisturbed, Alive, UNCHANGED rbVars,
         tpc \in TbWaits, Got(Head(toTx)), Head(toTx) \in Asks, NoneOf(toTx', Asks),
         NEW f \in Frame, Write(f), f.kind # "CAN", tpc' \in TbWaits,
         f \in Datas /\ f.kind = "blk" => Current(f)',
         tpc' \in Running => f \notin Headers /\ f.kind # "EOT" /\ rblk \in {tblk', tblk' + 1},
         f.kind = "EOT" \/ tpc' \in {"hdrC", "beot"} => AllHere,
         f.kind \in {"blk", "EOT"}
  PROVE  Undisturbed'
  <1>1. FileWhole /\ OneUnderWay /\ OneAnswer
    BY DEF Undisturbed, OneUnderWay
  <1>2. toTx \in Seq(Reply) /\ Head(toTx) \in Range(toTx) /\ ~NoneOf(toTx, Asks)
    BY GotTypes, TypeFacts DEF NoneOf
  <1>3. NoneOf(toRx, Marks) /\ rpc \notin {"idle", "purge"} /\ NoneOf(toRx, Cans)
    <2>1. tpc \notin TxEnded
      BY DEF TbWaits, TxEnded
    <2> QED
      BY <1>1, <1>2, <2>1 DEF OneAnswer, NothingAsked, OneUnderWay
  <1>4. PICK s \in Seq(Frame) :
           /\ Len(s) <= 1 /\ toRx' = toRx \o s
           /\ \A g \in Range(s) :
                \/ g = f
                \/ f.kind = "blk" /\ g = [f EXCEPT !.kind = "bad"]
                \/ f.kind # "blk" /\ g = Control("junk")
    BY FrameWritten
  <1>5. \A g \in Range(s) :
           /\ g.kind # "CAN"
           /\ g.kind = "EOT" => f.kind = "EOT"
           /\ g \in Datas => f \in Datas /\ f.kind = "blk" /\ g.num = f.num /\ g.pos = f.pos
           /\ g \in Headers => f \in Headers
    <2>1. LET b == [f EXCEPT !.kind = "bad"]
          IN  b \in Frame /\ b.kind = "bad" /\ b.num = f.num /\ b.pos = f.pos
      BY DEF Frame, FrameKinds
    <2> QED
      BY <1>4, <2>1, ControlIsFrame DEF Datas, Headers, Blocks, BlkKinds, IsHeader
  <1>6. /\ Range(toRx') = Range(toRx) \cup Range(s) /\ AtMostOne(toRx', Marks)
    <2>1. AtMostOne(s, Marks)
      <3>1. Len(s) \in Nat
        BY LenProperties
      <3> QED
        BY <1>4, <3>1 DEF AtMostOne
    <2> QED
      BY <1>3, <1>4, <2>1, TypeFacts, Behind
  <1>7. /\ UNCHANGED <<rpc, rblk, rhead, rfiles>> /\ Held' = Held
        /\ HasFile' = HasFile /\ Alive' = Alive /\ ClosedWhole'
    BY HeldStays DEF Undisturbed
  <1>8. NoneOf(toRx', Cans)
    BY <1>3, <1>5, <1>6 DEF NoneOf, Cans
  <1>9. \A g \in Range(toRx') \cap Datas : Current(g)'
    BY <1>3, <1>5, <1>6 DEF NoneOf, Marks, Datas, Current
  <1>10. OneAnswer'
    <2>1. AnswersInPairs'
      BY <1>1, <1>2, GotTypes, AnswersStay DEF OneAnswer
    <2> QED
      BY <1>3, <1>7, <2>1 DEF OneAnswer
  <1>11. tpc' \in Running => NoneOf(toRx', Headers)
    BY <1>3, <1>5, <1>6 DEF NoneOf, Marks, Headers
  <1>12. "ACK" \notin Range(toTx')
    BY DEF NoneOf, Asks
  <1>13. OneUnderWay'
    BY <1>6, <1>7, <1>8, <1>9, <1>10, <1>11, <1>12 DEF OneUnderWay
  <1>14. FileWhole'
    <2>1. ~NoneOf(toRx', Eots) => f.kind = "EOT"
      BY <1>3, <1>5, <1>6 DEF NoneOf, Marks, Eots
    <2>2. rpc = "eot" => rpc' = "eot"
      BY <1>7
    <2> QED
      BY <1>1, <1>7, <2>1, <2>2 DEF FileWhole, AllHere
  <1> QED
    BY <1>7, <1>13, <1>14 DEF Undisturbed

\* An answer is read: no other is on its way, save a C behind an ACK.
LEMMA AnswerIsRead ==
  ASSUME TypeOK, Undisturbed, Alive, tpc \in TbWaits, NEW c \in Asks, Got(c),
         c = "ACK" => NoneOf(toTx, {"C"})
  PROVE  NoneOf(toTx', Asks)
  <1>1. /\ toTx \in Seq(Reply) /\ toTx # <<>> /\ Head(toTx) = c /\ toTx' = Tail(toTx)
        /\ AnswersInPairs
    BY GotTypes, TypeFacts DEF Undisturbed, OneUnderWay, OneAnswer
  <1>2. NoneOf(toTx', {"NAK", "ACK"})
    BY <1>1, TailIsOrdered DEF AnswersInPairs
  <1>3. NoneOf(toTx', {"C"})
    <2>1. CASE c \in {"C", "NAK"}
      BY <1>1, <2>1, TailIsOrdered DEF AnswersInPairs
    <2>2. CASE c = "ACK"
      BY <1>1, <2>2, TailOf DEF NoneOf
    <2> QED
      BY <2>1, <2>2 DEF Asks
  <1> QED
    BY <1>2, <1>3 DEF NoneOf, Asks

LEMMA HeaderSentWhole ==
  ASSUME "header" \notin Faults, TypeOK, InPhase, Undisturbed, UNCHANGED rbVars,
         TbC \/ TbHeaderNak
  PROVE  Undisturbed'
  <1>1. CASE ~Alive
    BY <1>1, HeldStays DEF Undisturbed
  <1>2. CASE TxAbort
    <2>1. /\ tpc' \in TxEnded /\ Write(Control("CAN")) /\ tblk' = tblk
          /\ toTx # <<>> /\ toTx' = Tail(toTx)
          /\ tpc' \notin TbWaits \cup Running \cup {"hdrC", "beot"}
      BY <1>2 DEF TbC, TbHeaderNak, TxAbort, Got, TxEnded, TbWaits, Running
    <2> QED
      BY <2>1, TxQuietWhole
  <1>3. CASE Alive /\ Write(ThisHeader) /\ tpc' = "hdr"
    <2>1. PICK c \in {"C", "NAK"} : Got(c)
      BY DEF TbC, TbHeaderNak
    <2>2. tpc \in TbWaits /\ tpc \in {"hdrC", "hdr"} /\ c \in Asks /\ Head(toTx) = c
      BY <2>1, GotTypes DEF TbC, TbHeaderNak, TbWaits, Asks
    <2>3. NoneOf(toTx', Asks)
      BY <1>3, <2>1, <2>2, AnswerIsRead
    <2>4. tfile # 0
      BY <2>2 DEF TypeOK, TbTypeOK
    <2>5. ThisHeader \in Headers /\ ThisHeader \in Frame /\ ThisHeader.kind = "blk"
      BY <2>4, HeaderIsFrame DEF Headers, Blocks
    <2>6. PICK f \in Frame : f = ThisHeader
      BY <2>5
    <2>7. /\ f \notin Datas /\ tpc' \in TbWaits
          /\ tpc' \notin Running \cup {"hdrC", "beot"} /\ Write(f) /\ f.kind = "blk"
      BY <1>3, <2>5, <2>6 DEF Headers, Datas, TbWaits, Running
    <2> QED
      BY <1>3, <2>1, <2>2, <2>3, <2>7, SendingKeepsWhole
  <1> QED
    BY <1>1, <1>2, <1>3 DEF TbC, TbHeaderNak

\* Nothing is written for the answer to a header, nor for that to an EOT.
LEMMA AnsweredKeepsWhole ==
  ASSUME "header" \notin Faults, TypeOK, InPhase, Undisturbed, UNCHANGED rbVars,
         TbHeaderAck \/ TbEotAnswer
  PROVE  Undisturbed'
  <1>1. CASE TbHeaderAck
    <2>1. /\ tpc = "hdr" /\ tpc' \in {"ok", "dataC"} /\ toRx' = toRx
          /\ toTx # <<>> /\ toTx' = Tail(toTx)
          /\ tpc' \notin Running \cup {"hdrC", "beot"} /\ tpc \in TbWaits /\ tpc \notin TxEnded
      BY <1>1 DEF TbHeaderAck, Got, Running, TbWaits, TxEnded
    <2>2. Alive => NoneOf(toRx, Datas)
      BY <2>1 DEF InPhase, TxPhase, Asking, NoneOf
    <2>3. CASE Alive
      BY <2>1, <2>2, <2>3, TxQuietWhole
    <2>4. CASE ~Alive
      BY <2>4, HeldStays DEF Undisturbed
    <2> QED
      BY <2>3, <2>4
  <1>2. CASE TbEotAnswer
    <2>1. /\ tpc = "beot" /\ tpc' = "hdrC" /\ tblk' = tblk /\ toRx' = toRx
          /\ toTx # <<>> /\ toTx' = Tail(toTx)
          /\ tpc' \notin Running /\ tpc \in TbWaits /\ tpc \notin TxEnded
      BY <1>2 DEF TbEotAnswer, NextFile, Got, Running, TbWaits, TxEnded
    <2> QED
      BY <2>1, TxQuietWhole
  <1> QED
    BY <1>1, <1>2

\* A block is written that is the next the receiver expects, or the last it has.
LEMMA BlockSentWhole ==
  ASSUME "header" \notin Faults, TypeOK, InPhase, Undisturbed, Alive, UNCHANGED rbVars,
         UNCHANGED <<tfile, tlast>>,
         tpc \in {"dataC"} \cup Running, HasFile, tfile = Len(rfiles) + 1, tcrc' \in BOOLEAN,
         NEW c \in Asks, Got(c), NoneOf(toTx', Asks),
         NEW n \in 1..Len(Batch[tfile]), Write(DataBlock(n)), tblk' = n, tpc' = "wait",
         rblk \in {n, n + 1}
  PROVE  Undisturbed'
  <1>1. rhead = tfile /\ tfile \in 1..Len(Batch)
    BY SendingFacts DEF InPhase, RxPhase
  <1>2. PICK k \in 1..Len(Batch) : k = tfile
    BY <1>1
  <1>3. PICK f \in Frame : f = DataBlock(n)
    BY <1>2, DataIsFrame
  <1>4. /\ f.kind = "blk" /\ f.num = Low(n) /\ f.pos = Batch[k][n] /\ f.pos \in 1..NBlocks
    BY <1>2, <1>3, DataIsFrame, FileFacts
  <1>5. f \notin Headers
    <2>1. ~(f.pos > NBlocks)
      BY <1>4, LineAssumption
    <2> QED
      BY <2>1 DEF Headers, IsHeader
  <1>6. UNCHANGED <<rblk, rhead>>
    BY HeldStays
  <1>7. Current(f)'
    <2>1. n <= Len(Batch[k])
      BY <1>2, FileFacts
    <2> QED
      BY <1>1, <1>2, <1>4, <1>6, <2>1 DEF Current
  <1>8. /\ tpc \in TbWaits /\ tpc' \in TbWaits /\ tpc' \notin {"hdrC", "beot"}
        /\ Head(toTx) = c /\ Write(f)
    BY <1>3, GotTypes DEF TbWaits, Running
  <1> QED
    BY <1>4, <1>5, <1>7, <1>8, SendingKeepsWhole

LEMMA DataSentWhole ==
  ASSUME "header" \notin Faults, TypeOK, InPhase, Undisturbed, Alive, UNCHANGED rbVars,
         \/ TbFirstBlock
         \/ TbAgain /\ ~TxAbort
         \/ TbAck /\ tblk < Len(Batch[tfile])
  PROVE  Undisturbed'
  <1>1. TxPhase /\ RxPhase /\ OneUnderWay
    BY DEF InPhase, Undisturbed
  <1>2. /\ tfile \in 1..Len(Batch) /\ tblk \in 1..Len(Batch[tfile]) /\ Len(Batch[tfile]) \in Nat
        /\ tblk \in Nat \ {0}
    <2>1. tpc \in {"dataC"} \cup Running
      BY DEF TbFirstBlock, TbAgain, TbAck, Running
    <2>2. tfile \in 1..Len(Batch) /\ tblk \in 1..Len(Batch[tfile]) /\ tblk \in Nat \ {0}
      BY <2>1, SendingFacts DEF Running
    <2> QED
      BY <2>2, FileFacts
  <1>3. tpc \in TbWaits /\ tpc \in {"dataC"} \cup Running /\ UNCHANGED <<tfile, tlast>>
    BY DEF TbFirstBlock, TbAgain, TbAck, Running, TbWaits
  <1>4. HasFile /\ tfile = Len(rfiles) + 1 /\ (tpc \in Running => NoneOf(toTx, {"C"}))
    BY <1>1, <1>3 DEF TxPhase, Asking
  <1>5. CASE TbFirstBlock
    <2>1. /\ Got("C") /\ tcrc' = tcrc /\ Write(DataBlock(1)) /\ tpc' = "wait" /\ tblk' = tblk
          /\ tblk = 1 /\ rblk = 1
      BY <1>1, <1>5 DEF TbFirstBlock, TxPhase
    <2>2. PICK n \in 1..Len(Batch[tfile]) : n = 1
      BY <1>2, <2>1
    <2>3. "C" \in Asks /\ NoneOf(toTx', Asks)
      BY <1>3, <2>1, AnswerIsRead DEF Asks
    <2>4. tcrc' \in BOOLEAN
      BY <2>1, Zenon DEF TypeOK, TbTypeOK
    <2>5. Write(DataBlock(n)) /\ tblk' = n /\ rblk \in {n, n + 1}
      BY <2>1, <2>2
    <2> QED
      BY <1>3, <1>4, <2>1, <2>3, <2>4, <2>5, BlockSentWhole
  <1>6. CASE TbAgain /\ ~TxAbort
    <2>1. tpc \in Running /\ tblk' = tblk /\ tpc' = "wait" /\ Write(DataBlock(tblk))
      BY <1>6 DEF TbAgain, Running
    <2>2. Got("NAK") /\ tcrc' = tcrc
      <3>1. "C" \notin Range(toTx)
        BY <1>4, <2>1 DEF NoneOf
      <3>2. ~Got("C")
        BY <3>1, GotTypes
      <3> QED
        BY <1>6, <3>2 DEF TbAgain
    <2>3. PICK n \in 1..Len(Batch[tfile]) : n = tblk
      BY <1>2
    <2>4. "NAK" \in Asks /\ NoneOf(toTx', Asks)
      BY <1>3, <2>2, AnswerIsRead DEF Asks
    <2>5. tcrc' \in BOOLEAN
      BY <2>2, Zenon DEF TypeOK, TbTypeOK
    <2>6. Write(DataBlock(n)) /\ tblk' = n /\ rblk \in {n, n + 1}
      BY <1>1, <2>1, <2>3 DEF OneUnderWay
    <2> QED
      BY <1>3, <1>4, <2>1, <2>2, <2>4, <2>5, <2>6, BlockSentWhole
  <1>7. CASE TbAck /\ tblk < Len(Batch[tfile])
    <2>1. /\ tpc \in Running /\ tblk' = tblk + 1 /\ tpc' = "wait" /\ Write(DataBlock(tblk + 1))
          /\ Got("ACK") /\ tcrc' = tcrc
      BY <1>7 DEF TbAck
    <2>2. rblk = tblk + 1
      BY <1>1, <2>1, GotTypes DEF OneUnderWay
    <2>3. PICK n \in 1..Len(Batch[tfile]) : n = tblk + 1
      BY <1>2, <1>7
    <2>4. "ACK" \in Asks /\ NoneOf(toTx', Asks)
      BY <1>3, <1>4, <2>1, AnswerIsRead DEF Asks
    <2>5. tcrc' \in BOOLEAN
      BY <2>1, Zenon DEF TypeOK, TbTypeOK
    <2>6. Write(DataBlock(n)) /\ tblk' = n /\ rblk \in {n, n + 1}
      BY <2>1, <2>2, <2>3
    <2> QED
      BY <1>3, <1>4, <2>1, <2>4, <2>5, <2>6, BlockSentWhole
  <1> QED
    BY <1>5, <1>6, <1>7

\* The last block was acknowledged: the receiver has all.
LEMMA EotSentWhole ==
  ASSUME "header" \notin Faults, TypeOK, InPhase, Undisturbed, Alive, UNCHANGED rbVars,
         TbAck, ~(tblk < Len(Batch[tfile]))
  PROVE  Undisturbed'
  <1>1. TxPhase /\ RxPhase /\ OneUnderWay /\ FileWhole
    BY DEF InPhase, Undisturbed
  <1>2. /\ tpc \in Running /\ tpc \in TbWaits /\ Got("ACK") /\ tpc' = "beot"
        /\ Write(Control("EOT"))
    BY DEF TbAck, Running, TbWaits
  <1>3. /\ HasFile /\ tfile = Len(rfiles) + 1 /\ rhead = tfile /\ NoneOf(toTx, {"C"})
    BY <1>1, <1>2 DEF TxPhase, RxPhase
  <1>4. rblk = tblk + 1
    BY <1>1, <1>2, GotTypes DEF OneUnderWay
  <1>5. AllHere
    <2>1. tfile \in 1..Len(Batch) /\ tblk \in 1..Len(Batch[tfile])
      BY <1>2, SendingFacts DEF Running
    <2>2. Len(Batch[tfile]) \in Nat
      BY <2>1, FileFacts
    <2> QED
      BY <1>3, <1>4, <2>1, <2>2 DEF AllHere
  <1>6. "ACK" \in Asks /\ NoneOf(toTx', Asks) /\ Head(toTx) = "ACK"
    BY <1>2, <1>3, AnswerIsRead, GotTypes DEF Asks
  <1>7. PICK f \in Frame : f = Control("EOT") /\ f.kind = "EOT"
    BY ControlIsFrame
  <1>8. Write(f) /\ tpc' \in TbWaits /\ tpc' \notin Running
    BY <1>2, <1>7 DEF TbWaits, Running
  <1>9. f \notin Datas
    BY <1>7 DEF Datas, Blocks, BlkKinds
  <1> QED
    BY <1>2, <1>5, <1>6, <1>7, <1>8, <1>9, SendingKeepsWhole

\* The upload starts on a line on which nothing waits.
LEMMA BeginsWhole ==
  ASSUME TypeOK, InPhase, Undisturbed, UNCHANGED rbVars, TbStart, toTx = <<>>
  PROVE  Undisturbed'
  <1>1. tpc = "idle" /\ tpc' \in {"hdrC", "nofile"} /\ UNCHANGED <<toRx, toTx>>
    BY DEF TbStart, NextFile, lineVars
  <1>2. /\ UNCHANGED <<rpc, rblk, rhead, rfiles>> /\ Held' = Held
        /\ HasFile' = HasFile /\ Alive' = Alive /\ ClosedWhole'
    BY HeldStays DEF Undisturbed
  <1>3. CASE ~Alive
    BY <1>2, <1>3 DEF Undisturbed
  <1>4. CASE Alive
    <2>1. OneUnderWay /\ ~HasFile /\ NoneOf(toRx, Marks)
      BY <1>1, <1>4 DEF Undisturbed, InPhase, TxPhase
    <2>2. FileWhole'
      BY <1>2, <2>1 DEF FileWhole
    <2>3. NoneOf(toTx, Asks) /\ toTx \in Seq(Reply)
      BY TypeFacts, EmptyHasNone DEF NoneOf
    <2>4. NoneOf(toTx, {"C", "NAK"})
      BY <2>3 DEF NoneOf, Asks
    <2>5. AnswersInPairs
      BY <2>3, <2>4, NoneIsOrdered DEF AnswersInPairs
    <2>6. OneAnswer'
      BY <1>1, <2>1, <2>3, <2>5 DEF OneAnswer, NothingAsked, AnswersInPairs
    <2>7. tpc' \notin Running /\ tpc \notin TxEnded
      BY <1>1 DEF Running, TxEnded
    <2>8. Range(toRx') \cap Datas = {}
      BY <1>1, <2>1 DEF NoneOf, Marks, Datas
    <2>9. OneUnderWay'
      BY <1>1, <2>1, <2>6, <2>7, <2>8 DEF OneUnderWay
    <2> QED
      BY <1>2, <2>2, <2>9 DEF Undisturbed
  <1> QED
    BY <1>3, <1>4

LEMMA SenderKeepsWhole ==
  ASSUME "header" \notin Faults, TypeOK, InPhase, Undisturbed, UNCHANGED rbVars,
         TbBreak \/ TbStep
  PROVE  Undisturbed'
  <1>1. CASE ~Alive
    BY <1>1, HeldStays DEF Undisturbed
  <1>2. CASE TbAgain /\ TxAbort
    <2>1. /\ tpc' \in TxEnded /\ Write(Control("CAN")) /\ tblk' = tblk
          /\ toTx # <<>> /\ toTx' = Tail(toTx)
          /\ tpc' \notin TbWaits \cup Running \cup {"hdrC", "beot"}
      BY <1>2 DEF TbAgain, TxAbort, Got, TxEnded, TbWaits, Running
    <2> QED
      BY <2>1, TxQuietWhole
  <1>3. CASE Alive /\ (TbFirstBlock \/ (TbAgain /\ ~TxAbort) \/ TbAck)
    BY <1>3, DataSentWhole, EotSentWhole
  <1>4. CASE TbC \/ TbHeaderNak \/ TbHeaderAck \/ TbEotAnswer
    BY <1>4, HeaderSentWhole, AnsweredKeepsWhole
  <1>5. CASE \/ TbDiscard \/ TbBreak \/ TbTimer
             \/ (TxCan \/ TxOther \/ TxTerminal) /\ UNCHANGED <<tfile, tlast>>
    BY <1>5, ReadingKeepsWhole DEF TbTimer
  <1> QED
    BY <1>1, <1>2, <1>3, <1>4, <1>5 DEF TbStep

-----------------------------------------------------------------------------
LEMMA StartsWhole == Init => WholeInv
  <1> SUFFICES ASSUME Init PROVE WholeInv
    OBVIOUS
  <1>1. /\ rpc = "idle" /\ rname = "none" /\ rfiles = <<>>
        /\ tpc = "idle" /\ toRx = <<>> /\ toTx = <<>> /\ fresh = TRUE
    BY DEF Init, RbInit, RxInit, TbInit, TxInit, LineInit
  <1>2. toRx \in Seq(Frame) /\ \A S : NoneOf(toRx, S)
    BY <1>1, EmptySeq, EmptyHasNone DEF NoneOf
  <1>3. ClosedWhole
    <2>1. Len(rfiles) = 0
      BY <1>1, EmptySeq
    <2> QED
      BY <2>1 DEF ClosedWhole
  <1>4. FileWhole
    BY <1>1 DEF FileWhole, HasFile
  <1>5. OneUnderWay
    <2>1. AtMostOne(toRx, Marks)
      BY <1>2, NoneIsAtMostOne
    <2> QED
      BY <1>1, <1>2, <2>1 DEF OneUnderWay, NoneOf, TbWaits, Running
  <1> QED
    BY <1>1, <1>3, <1>4, <1>5 DEF WholeInv, Undisturbed

LEMMA WholeNext ==
  ASSUME SafeBatch, SafeDisk, TypeOK, InPhase, WholeInv, [Next]_vars
  PROVE  WholeInv'
  <1>1. Prompt /\ "header" \notin Faults
    BY DEF SafeBatch
  <1>2. CASE (RbStart \/ RbBreak \/ InFile(RxBreak) \/ RbStep) /\ UNCHANGED <<tbVars, fresh>>
    <2>1. fresh => Undisturbed'
      BY <1>1, <1>2, ReceiverKeepsWhole DEF WholeInv
    <2>2. UNCHANGED <<tpc, fresh>>
      BY <1>2 DEF tbVars, txVars
    <2> QED
      BY <2>1, <2>2 DEF WholeInv
  <1>3. CASE TbBegin /\ UNCHANGED rbVars
    <2>1. tpc = "idle" /\ tpc' # "idle" /\ fresh' = (toTx = <<>>) /\ TbStart
      BY <1>3 DEF TbBegin, TbStart, NextFile
    <2>2. fresh' => Undisturbed'
      BY <1>3, <2>1, BeginsWhole DEF WholeInv
    <2> QED
      BY <2>1, <2>2 DEF WholeInv
  <1>4. CASE (TbBreak \/ TbStep) /\ UNCHANGED <<rbVars, fresh>>
    <2>1. fresh => Undisturbed'
      BY <1>1, <1>4, SenderKeepsWhole DEF WholeInv
    <2>2. tpc' = "idle" => tpc = "idle"
      BY <1>4
      DEF TbBreak, TbStep, TbC, TbDiscard, TbHeaderNak, TbHeaderAck, TbFirstBlock, TbAgain, TbAck,
          TbEotAnswer, TbTimer, TbSilence, TxCan, TxOther, TxTerminal, TxAbort, NextFile,
          tbVars, txVars
    <2> QED
      BY <1>4, <2>1, <2>2 DEF WholeInv
  <1>5. CASE (StrayToRx \/ StrayToTx) /\ UNCHANGED <<rbVars, tbVars, fresh>>
    <2>1. fresh => Undisturbed'
      BY <1>1, <1>5, ReadingKeepsWhole DEF WholeInv
    <2>2. UNCHANGED <<tpc, fresh>>
      BY <1>5 DEF tbVars, txVars
    <2> QED
      BY <2>1, <2>2 DEF WholeInv
  <1>6. CASE UNCHANGED vars
    <2>1. UNCHANGED rbVars /\ UNCHANGED tbVars /\ UNCHANGED lineVars /\ UNCHANGED <<tpc, fresh>>
      BY <1>6 DEF vars, tbVars, txVars
    <2>2. fresh => Undisturbed'
      BY <1>1, <2>1, ReadingKeepsWhole DEF WholeInv
    <2> QED
      BY <2>1, <2>2 DEF WholeInv
  <1> QED
    BY <1>2, <1>3, <1>4, <1>5, <1>6 DEF Next

\* The inductive invariant of a batch that starts on a line where nothing
\* waits: one thing at a time is under way, and every file is whole so far.
THEOREM WholeInvariance == ASSUME SafeBatch, SafeDisk PROVE Spec => [](BatchInv /\ WholeInv)
  <1>1. Init => WholeInv
    BY StartsWhole
  <1>2. SafeBatch /\ SafeDisk /\ BatchInv /\ WholeInv /\ [Next]_vars => WholeInv'
    BY WholeNext DEF BatchInv
  <1> QED
    BY <1>1, <1>2, BatchInvariance, PTL DEF Spec

\* The files that were received and closed are the first ones of the list, in
\* its order, each whole and under its own name; the one being received is the
\* next, and what is there of it is an exact beginning.
THEOREM FilesAreInOrder == ASSUME SafeBatch, SafeDisk PROVE Spec => []FilesInOrder
  <1>1. ASSUME TypeOK, InPhase, WholeInv, fresh
        PROVE  FilesInOrder
    <2>1. ClosedWhole /\ ClosedFit /\ (Alive => FileWhole /\ RxPhase)
      BY <1>1 DEF WholeInv, Undisturbed, InPhase
    <2>2. ASSUME NEW i \in 1..Len(rfiles)
          PROVE  rfiles[i] = [name |-> i, blocks |-> Batch[i]]
      <3>0. rfiles \in Seq([name : Nat, blocks : Seq(Nat)])
        BY <1>1, TypeFacts
      <3>1. rfiles[i] \in [name : Nat, blocks : Seq(Nat)]
        BY <2>2, <3>0, ElementOfSeq
      <3>2. rfiles[i].name = i /\ rfiles[i].blocks = Batch[i]
        BY <2>1 DEF ClosedWhole, ClosedFit
      <3> QED
        BY <3>1, <3>2
    <2>3. ASSUME rname = "file", rpc \notin RxEnded
          PROVE  rhead = Len(rfiles) + 1 /\ Held = SubSeq(Batch[rhead], 1, Len(Held))
      <3>1. /\ rhead = Len(rfiles) + 1 /\ rhead <= Len(Batch) /\ rblk # 0
            /\ rblk <= Len(Batch[rhead]) + 1 /\ Held = SubSeq(Batch[rhead], 1, rblk - 1)
        BY <2>1, <2>3 DEF Alive, HasFile, RxPhase, FileWhole
      <3>2. rhead \in 1..Len(Batch) /\ rblk \in Nat
        BY <1>1, <3>1, TypeFacts
      <3>3. Batch[rhead] \in Seq(1..NBlocks) /\ rblk - 1 \in 0..Len(Batch[rhead])
        BY <3>1, <3>2, FileFacts
      <3>4. Len(Held) = rblk - 1
        BY <3>1, <3>3, SubSeqProperties
      <3> QED
        BY <3>1, <3>4
    <2>4. ASSUME rpc = "negC"
          PROVE  Held = <<>>
      <3>1. rbuf = <<>> /\ rfile = <<>>
        BY <2>1, <2>4 DEF Alive, RxEnded, RxPhase
      <3> QED
        BY <3>1, EmptySeq, ConcatEmptySeq DEF Held
    <2> QED
      BY <2>2, <2>3, <2>4 DEF FilesInOrder
  <1>2. BatchInv /\ WholeInv => FilesInOrder
    BY <1>1 DEF BatchInv, FilesInOrder
  <1> QED
    BY <1>2, WholeInvariance, PTL

\* The sender goes on to another file only when the receiver has all of the one
\* before, or has already ended, although the answer to the EOT is not looked at.
THEOREM EachFileIsDelivered == ASSUME SafeBatch, SafeDisk PROVE Spec => FileIsDelivered
  <1> DEFINE Delivered ==
        fresh /\ tfile' = tfile + 1 /\ tfile # 0 =>
          \/ rpc \in RxEnded
          \/ Len(rfiles) >= tfile
          \/ rhead = tfile /\ Held = Batch[tfile]
  <1>1. ASSUME TypeOK, InPhase, WholeInv, [Next]_vars,
               fresh, tfile' = tfile + 1, tfile # 0, rpc \notin RxEnded
        PROVE  Len(rfiles) >= tfile \/ (rhead = tfile /\ Held = Batch[tfile])
    <2>1. RxPhase /\ TxPhase /\ FileWhole /\ tfile \in Nat /\ Len(rfiles) \in Nat
      BY <1>1, TypeFacts DEF InPhase, WholeInv, Undisturbed, Alive
    <2>2. tfile' # tfile
      BY <1>1, <2>1
    <2>3. tpc = "idle" \/ TbEotAnswer
      BY <1>1, <2>2
      DEF Next, TbBegin, TbStart, TbBreak, TbStep, TbC, TbDiscard, TbHeaderNak, TbHeaderAck,
          TbFirstBlock, TbAgain, TbAck, TbTimer, TbSilence, vars, tbVars
    <2>4. tpc = "beot"
      BY <1>1, <2>1, <2>3 DEF TxPhase, TbEotAnswer
    <2>5. CASE ~HasFile
      <3>1. tfile = Len(rfiles)
        BY <2>1, <2>4, <2>5 DEF TxPhase
      <3> QED
        BY <2>1, <3>1
    <2>6. CASE HasFile
      <3>1. /\ rhead = tfile /\ rhead <= Len(Batch) /\ AllHere
            /\ Held = SubSeq(Batch[rhead], 1, rblk - 1)
        BY <2>1, <2>4, <2>6 DEF TxPhase, RxPhase, FileWhole
      <3>2. rhead \in 1..Len(Batch)
        BY <1>1, <2>1, <3>1, TypeFacts
      <3>3. Batch[rhead] \in Seq(1..NBlocks) /\ rblk - 1 = Len(Batch[rhead])
        BY <3>1, <3>2, FileFacts DEF AllHere
      <3> QED
        BY <3>1, <3>3, WholeSeq
    <2> QED
      BY <2>5, <2>6
  <1>2. BatchInv /\ WholeInv /\ [Next]_vars => [Delivered]_vars
    BY <1>1 DEF BatchInv
  <1> QED
    BY <1>2, WholeInvariance, PTL DEF Spec, FileIsDelivered
=============================================================================
