----------------------------- MODULE LineProofs -----------------------------
(***************************************************************************)
(* What the proofs about XMODEM and about YMODEM share: block numbers as   *)
(* bytes, queues, what arrives when something is written, and what the     *)
(* receiver holds after its buffer was written to the file.                *)
(***************************************************************************)
EXTENDS XmodemReceiver, XmodemSender, SequenceTheorems, TLAPS

-----------------------------------------------------------------------------
(* Block numbers as bytes.                                                 *)

\* The quotient and the remainder of a block number.
LEMMA DivMod ==
  ASSUME NEW n \in Nat
  PROVE  /\ n % ByteMod \in 0..(ByteMod - 1)
         /\ n \div ByteMod \in Int
         /\ n = (ByteMod * (n \div ByteMod)) + (n % ByteMod)
  BY LineAssumption, SMT

\* Two successive block numbers differ in their low bytes.
LEMMA NextByteDiffers ==
  ASSUME NEW n \in Nat
  PROVE  Low(n + 1) # Low(n)
  <1> SUFFICES ASSUME (n + 1) % ByteMod = n % ByteMod
               PROVE  FALSE
    BY DEF Low
  <1> DEFINE a == n \div ByteMod
             b == (n + 1) \div ByteMod
             c == n % ByteMod
  <1>1. ByteMod \in Nat /\ ByteMod > 1
    BY LineAssumption
  <1>2. n = (ByteMod * a) + c /\ a \in Int /\ c \in Int
    BY DivMod, <1>1
  <1>3. n + 1 = (ByteMod * b) + c /\ b \in Int
    BY DivMod
  <1> HIDE DEF a, b, c
  <1>4. (ByteMod * b) - (ByteMod * a) = 1
    BY <1>1, <1>2, <1>3
  <1>5. ByteMod * (b - a) = 1 /\ b - a \in Int
    BY <1>1, <1>2, <1>3, <1>4
  <1> DEFINE d == b - a
  <1>6. ByteMod * d = 1 /\ d \in Int
    BY <1>5
  <1> HIDE DEF d
  <1>7. CASE d <= 0
    BY <1>1, <1>6, <1>7
  <1>8. CASE d >= 1
    BY <1>1, <1>6, <1>8
  <1> QED
    BY <1>6, <1>7, <1>8

LEMMA LowIsNat == ASSUME NEW n \in Nat PROVE Low(n) \in Nat
  BY DivMod, LineAssumption DEF Low

-----------------------------------------------------------------------------
(* Queues that hold at most one, or none, of the elements that matter.     *)

LEMMA EmptyHasNone ==
  Range(<<>>) = {}
  BY DEF Range

LEMMA RangeOfSingle ==
  ASSUME NEW x
  PROVE  Range(<<x>>) = {x}
  BY DEF Range

LEMMA NoneIsAtMostOne ==
  ASSUME NEW T, NEW q \in Seq(T), NEW S, NoneOf(q, S)
  PROVE  AtMostOne(q, S)
  BY DEF NoneOf, AtMostOne, Range

\* Reading the head of a queue.
LEMMA TailOf ==
  ASSUME NEW T, NEW q \in Seq(T), q # <<>>, NEW S
  PROVE  /\ Tail(q) \in Seq(T)
         /\ Range(Tail(q)) \subseteq Range(q)
         /\ Head(q) \in Range(q) \cap T
         /\ AtMostOne(q, S) => AtMostOne(Tail(q), S)
         /\ AtMostOne(q, S) /\ Head(q) \in S => NoneOf(Tail(q), S)
  <1>1. /\ Len(Tail(q)) = Len(q) - 1 /\ Len(q) \in Nat /\ Len(q) > 0
        /\ \A i \in 1..Len(Tail(q)) : Tail(q)[i] = q[i + 1]
        /\ Head(q) = q[1]
        /\ DOMAIN q = 1..Len(q) /\ DOMAIN Tail(q) = 1..Len(Tail(q))
        /\ Tail(q) \in Seq(T) /\ Head(q) \in T
    BY HeadTailProperties, EmptySeq, LenProperties
  <1>2. Range(Tail(q)) \subseteq Range(q)
    <2> SUFFICES ASSUME NEW i \in 1..Len(Tail(q))
                 PROVE  Tail(q)[i] \in Range(q)
      BY <1>1 DEF Range
    <2>1. Tail(q)[i] = q[i + 1] /\ i + 1 \in DOMAIN q
      BY <1>1
    <2> QED
      BY <2>1 DEF Range
  <1>3. AtMostOne(q, S) => AtMostOne(Tail(q), S)
    <2> SUFFICES ASSUME AtMostOne(q, S),
                        NEW i \in 1..Len(Tail(q)), NEW j \in 1..Len(Tail(q)),
                        Tail(q)[i] \in S, Tail(q)[j] \in S
                 PROVE  i = j
      BY DEF AtMostOne
    <2>1. q[i + 1] \in S /\ q[j + 1] \in S /\ i + 1 \in 1..Len(q) /\ j + 1 \in 1..Len(q)
      BY <1>1
    <2> QED
      BY <2>1 DEF AtMostOne
  <1>4. AtMostOne(q, S) /\ Head(q) \in S => NoneOf(Tail(q), S)
    <2> SUFFICES ASSUME AtMostOne(q, S), q[1] \in S,
                        NEW i \in 1..Len(Tail(q)), Tail(q)[i] \in S
                 PROVE  FALSE
      BY <1>1 DEF NoneOf, Range
    <2>1. q[i + 1] \in S /\ i + 1 \in 1..Len(q) /\ 1 \in 1..Len(q)
      BY <1>1
    <2> QED
      BY <2>1 DEF AtMostOne
  <1>5. Head(q) \in Range(q)
    BY <1>1 DEF Range
  <1> QED
    BY <1>1, <1>2, <1>3, <1>4, <1>5

\* Writing r behind a queue.
LEMMA Behind ==
  ASSUME NEW T, NEW q \in Seq(T), NEW r \in Seq(T), NEW S
  PROVE  /\ q \o r \in Seq(T)
         /\ Range(q \o r) = Range(q) \cup Range(r)
         /\ NoneOf(q, S) /\ AtMostOne(r, S) => AtMostOne(q \o r, S)
         /\ AtMostOne(q, S) /\ NoneOf(r, S) => AtMostOne(q \o r, S)
  <1>1. /\ Len(q) \in Nat /\ Len(r) \in Nat
        /\ Len(q \o r) = Len(q) + Len(r)
        /\ \A i \in 1..Len(q \o r) :
              (q \o r)[i] = IF i <= Len(q) THEN q[i] ELSE r[i - Len(q)]
        /\ DOMAIN q = 1..Len(q) /\ DOMAIN r = 1..Len(r)
    BY ConcatProperties, LenProperties
  <1>2. \A i \in 1..Len(q \o r) : i > Len(q) => i - Len(q) \in 1..Len(r)
    BY <1>1
  <1>3. NoneOf(q, S) => \A i \in 1..Len(q) : q[i] \notin S
    BY <1>1 DEF NoneOf, Range
  <1>4. NoneOf(r, S) => \A i \in 1..Len(r) : r[i] \notin S
    BY <1>1 DEF NoneOf, Range
  <1>5. /\ NoneOf(q, S) /\ AtMostOne(r, S) => AtMostOne(q \o r, S)
        /\ AtMostOne(q, S) /\ NoneOf(r, S) => AtMostOne(q \o r, S)
    BY <1>1, <1>2, <1>3, <1>4 DEF AtMostOne
  <1> QED
    BY <1>5, ConcatProperties, RangeConcatenation

-----------------------------------------------------------------------------
(* What arrives when something is written.                                 *)

LEMMA FrameArrival ==
  ASSUME NEW f \in Frame, NEW s \in FrameArrives(f)
  PROVE  /\ s \in Seq(Frame)
         /\ AtMostOne(s, Blocks)
         /\ f.kind \notin BlkKinds => NoneOf(s, Blocks)
         /\ f.kind # "EOT" => NoneOf(s, Eots)
         /\ \A g \in Range(s) \cap Blocks :
              f.kind \in BlkKinds =>
                /\ g.pos = f.pos /\ g.num = f.num
                /\ g.kind = "torn" => g = f \/ "header" \in Faults
  <1> DEFINE bad  == [f EXCEPT !.kind = "bad"]
             torn == [f EXCEPT !.kind = "torn"]
             junk == Control("junk")
  <1>1. /\ bad \in Frame /\ torn \in Frame /\ junk \in Frame
        /\ bad.kind = "bad" /\ bad.pos = f.pos /\ bad.num = f.num
        /\ torn.kind = "torn" /\ torn.pos = f.pos /\ torn.num = f.num
        /\ junk.kind = "junk"
    BY DEF Frame, FrameKinds, Control
  <1>2. \/ s = <<>>
        \/ s = <<f>>
        \/ s = <<bad>> /\ f.kind = "blk"
        \/ s = <<junk>> /\ f.kind # "blk"
        \/ s = <<torn>> /\ f.kind = "blk" /\ "header" \in Faults
    BY DEF FrameArrives
  <1> HIDE DEF bad, torn, junk
  <1>3. CASE s = <<>>
    BY <1>3, EmptyHasNone, EmptySeq, NoneIsAtMostOne DEF NoneOf
  <1>4. CASE \E g \in {f, bad, junk, torn} : s = <<g>>
    <2>1. PICK g \in {f, bad, junk, torn} : s = <<g>>
      BY <1>4
    <2>2. g \in Frame /\ s \in Seq(Frame) /\ Range(s) = {g} /\ AtMostOne(s, Blocks)
      BY <1>1, <2>1, RangeOfSingle DEF AtMostOne
    <2>3. \/ g = f
          \/ g = bad /\ f.kind = "blk"
          \/ g = junk /\ f.kind # "blk"
          \/ g = torn /\ f.kind = "blk" /\ "header" \in Faults
      BY <1>2, <2>1
    <2> QED
      BY <1>1, <2>2, <2>3 DEF NoneOf, Blocks, Eots, BlkKinds
  <1> QED
    BY <1>2, <1>3, <1>4

LEMMA ReplyArrival ==
  ASSUME NEW c \in Reply, NEW s \in ReplyArrives(c)
  PROVE  /\ s \in Seq(Reply)
         /\ AtMostOne(s, Asks)
         /\ Range(s) \subseteq {c, "junk"}
         /\ c \notin Asks => NoneOf(s, Asks)
  <1>1. s = <<>> \/ s = <<c>> \/ s = <<"junk">>
    BY DEF ReplyArrives
  <1>2. CASE s = <<>>
    BY <1>2, EmptyHasNone, EmptySeq, NoneIsAtMostOne DEF NoneOf
  <1>3. CASE \E g \in {c, "junk"} : s = <<g>>
    <2>1. PICK g \in {c, "junk"} : s = <<g>>
      BY <1>3
    <2>2. g \in Reply /\ s \in Seq(Reply) /\ Range(s) = {g} /\ AtMostOne(s, Asks)
      BY <2>1, RangeOfSingle DEF AtMostOne, Reply
    <2> QED
      BY <2>1, <2>2 DEF NoneOf, Asks
  <1> QED
    BY <1>1, <1>2, <1>3

\* The receiver's queue of replies after c was written.
LEMMA ReplySent ==
  ASSUME toTx \in Seq(Reply), NEW c \in Reply, Reply1(toTx, c)
  PROVE  /\ toTx' \in Seq(Reply)
         /\ Range(toTx') \subseteq Range(toTx) \cup {c, "junk"}
         /\ NoneOf(toTx, Asks) => AtMostOne(toTx', Asks)
         /\ c \notin Asks /\ NoneOf(toTx, Asks) => NoneOf(toTx', Asks)
         /\ c \notin Asks /\ AtMostOne(toTx, Asks) => AtMostOne(toTx', Asks)
  <1>1. PICK s \in ReplyArrives(c) : toTx' = toTx \o s
    BY DEF Reply1
  <1>2. /\ s \in Seq(Reply) /\ AtMostOne(s, Asks) /\ Range(s) \subseteq {c, "junk"}
        /\ c \notin Asks => NoneOf(s, Asks)
    BY ReplyArrival
  <1>3. /\ toTx' \in Seq(Reply)
        /\ Range(toTx') = Range(toTx) \cup Range(s)
        /\ NoneOf(toTx, Asks) => AtMostOne(toTx', Asks)
        /\ AtMostOne(toTx, Asks) /\ NoneOf(s, Asks) => AtMostOne(toTx', Asks)
    BY <1>1, <1>2, Behind
  <1> QED
    BY <1>2, <1>3 DEF NoneOf

\* The sender's queue of frames after f was written.
LEMMA FrameSent ==
  ASSUME toRx \in Seq(Frame), NEW f \in Frame, Write(f)
  PROVE  /\ toRx' \in Seq(Frame)
         /\ NoneOf(toRx, Blocks) => AtMostOne(toRx', Blocks)
         /\ f.kind \notin BlkKinds /\ NoneOf(toRx, Blocks) => NoneOf(toRx', Blocks)
         /\ f.kind \notin BlkKinds => Range(toRx') \cap Blocks = Range(toRx) \cap Blocks
         /\ f.kind # "EOT" /\ NoneOf(toRx, Eots) => NoneOf(toRx', Eots)
         /\ \A g \in Range(toRx') \cap Blocks :
              \/ g \in Range(toRx)
              \/ /\ g.pos = f.pos /\ g.num = f.num
                 /\ g.kind = "torn" => f.kind = "torn" \/ "header" \in Faults
  <1>1. PICK s \in FrameArrives(f) : toRx' = toRx \o s
    BY DEF Write
  <1>2. /\ s \in Seq(Frame)
        /\ AtMostOne(s, Blocks)
        /\ f.kind \notin BlkKinds => NoneOf(s, Blocks)
        /\ f.kind # "EOT" => NoneOf(s, Eots)
        /\ \A g \in Range(s) \cap Blocks :
              f.kind \in BlkKinds =>
                /\ g.pos = f.pos /\ g.num = f.num
                /\ g.kind = "torn" => g = f \/ "header" \in Faults
    BY FrameArrival DEF BlkKinds
  <1>3. /\ toRx' \in Seq(Frame)
        /\ Range(toRx') = Range(toRx) \cup Range(s)
        /\ NoneOf(toRx, Blocks) => AtMostOne(toRx', Blocks)
    BY <1>1, <1>2, Behind
  <1> QED
    BY <1>2, <1>3 DEF NoneOf

\* Reading one reply, or one frame.
LEMMA ReplyRead ==
  ASSUME toTx \in Seq(Reply), toTx # <<>>, toTx' = Tail(toTx)
  PROVE  /\ toTx' \in Seq(Reply)
         /\ Range(toTx') \subseteq Range(toTx)
         /\ Head(toTx) \in Range(toTx)
         /\ NoneOf(toTx, Asks) => NoneOf(toTx', Asks)
         /\ AtMostOne(toTx, Asks) => AtMostOne(toTx', Asks)
         /\ AtMostOne(toTx, Asks) /\ Head(toTx) \in Asks => NoneOf(toTx', Asks)
  BY TailOf DEF NoneOf

LEMMA FrameRead ==
  ASSUME toRx \in Seq(Frame), toRx # <<>>, toRx' = Tail(toRx)
  PROVE  /\ toRx' \in Seq(Frame)
         /\ Range(toRx') \subseteq Range(toRx)
         /\ Head(toRx) \in Range(toRx) \cap Frame
         /\ \A S : NoneOf(toRx, S) => NoneOf(toRx', S)
         /\ AtMostOne(toRx, Blocks) => AtMostOne(toRx', Blocks)
         /\ AtMostOne(toRx, Blocks) /\ Head(toRx) \in Blocks => NoneOf(toRx', Blocks)
  BY TailOf DEF NoneOf

-----------------------------------------------------------------------------
(* What the receiver holds.                                                *)

\* The file with the first k blocks of the memory behind it.
LEMMA PartWritten ==
  ASSUME rbuf \in Seq(Nat), rfile \in Seq(Nat), NEW k \in 0..Len(rbuf)
  PROVE  LET h == rfile \o SubSeq(rbuf, 1, k)
         IN  /\ h \in Seq(Nat) /\ Len(h) <= Len(Held)
             /\ \A i \in 1..Len(h) : h[i] = Held[i]
  <1> DEFINE b == SubSeq(rbuf, 1, k)
  <1>1. b \in Seq(Nat) /\ Len(b) = k /\ \A i \in 1..k : b[i] = rbuf[i]
    BY SubSeqProperties, LenProperties
  <1> HIDE DEF b
  <1>2. /\ rfile \o b \in Seq(Nat) /\ Len(rfile \o b) = Len(rfile) + k
        /\ Len(Held) = Len(rfile) + Len(rbuf) /\ Len(rfile) \in Nat /\ Len(rbuf) \in Nat
    BY <1>1, ConcatProperties, LenProperties DEF Held
  <1>3. ASSUME NEW i \in 1..Len(rfile \o b)
        PROVE  (rfile \o b)[i] = Held[i]
    <2>1. CASE i <= Len(rfile)
      BY <1>1, <1>2, <2>1 DEF Held
    <2>2. CASE i > Len(rfile)
      <3>1. i - Len(rfile) \in 1..k /\ i - Len(rfile) \in 1..Len(rbuf)
        BY <1>2, <2>2
      <3> QED
        BY <1>1, <1>2, <2>2, <3>1 DEF Held
    <2> QED
      BY <1>2, <2>1, <2>2
  <1> QED
    BY <1>1, <1>2, <1>3 DEF b

\* All of it.
LEMMA WholeSeq ==
  ASSUME NEW T, NEW q \in Seq(T)
  PROVE  SubSeq(q, 1, Len(q)) = q
  <1>1. Len(q) \in Nat /\ DOMAIN q = 1..Len(q) /\ q \in [1..Len(q) -> T]
    BY LenProperties
  <1>2. /\ SubSeq(q, 1, Len(q)) \in Seq(T) /\ Len(SubSeq(q, 1, Len(q))) = Len(q)
        /\ \A i \in 1..Len(q) : SubSeq(q, 1, Len(q))[i] = q[i]
    BY <1>1, SubSeqProperties
  <1> QED
    BY <1>1, <1>2, SeqEqual

\* Sub_41EC, whether all of it was written or not.
LEMMA FlushHolds ==
  ASSUME rbuf \in Seq(Nat), rfile \in Seq(Nat), NEW ok \in BOOLEAN, Flush(ok)
  PROVE  /\ rbuf' = <<>> /\ rfile' \in Seq(Nat) /\ Held' = rfile'
         /\ Len(Held') <= Len(Held)
         /\ \A i \in 1..Len(Held') : Held'[i] = Held[i]
         /\ ok => Held' = Held
  <1>1. Len(rbuf) \in Nat
    BY LenProperties
  <1>2. PICK k \in 0..Len(rbuf) : rbuf' = <<>> /\ rfile' = rfile \o SubSeq(rbuf, 1, k)
    <2>1. CASE rfile' = rfile \o rbuf
      <3>1. SubSeq(rbuf, 1, Len(rbuf)) = rbuf /\ Len(rbuf) \in 0..Len(rbuf)
        BY <1>1, WholeSeq
      <3>2. rfile' = rfile \o SubSeq(rbuf, 1, Len(rbuf))
        BY <2>1, <3>1
      <3> QED
        BY <3>1, <3>2 DEF Flush
    <2>2. CASE \E k \in 0..(Len(rbuf) - 1) : rfile' = rfile \o SubSeq(rbuf, 1, k)
      <3>1. PICK k \in 0..(Len(rbuf) - 1) : rfile' = rfile \o SubSeq(rbuf, 1, k)
        BY <2>2
      <3>2. k \in 0..Len(rbuf)
        BY <1>1
      <3> QED
        BY <3>1, <3>2 DEF Flush
    <2> QED
      BY <2>1, <2>2 DEF Flush
  <1> DEFINE h == rfile \o SubSeq(rbuf, 1, k)
  <1>3. h \in Seq(Nat) /\ Len(h) <= Len(Held) /\ \A i \in 1..Len(h) : h[i] = Held[i]
    BY PartWritten
  <1>4. rfile' = h /\ Held' = h \o <<>>
    BY <1>2 DEF Held
  <1> HIDE DEF h
  <1>5. Held' = h
    BY <1>3, <1>4
  <1>6. ok => Held' = Held
    BY <1>4, <1>5 DEF Flush, Held
  <1> QED
    BY <1>2, <1>3, <1>4, <1>5, <1>6

\* Sub_4191: one more block, behind all or, when the disk fails, some of the
\* others.
LEMMA StoreHolds ==
  ASSUME rbuf \in Seq(Nat), rfile \in Seq(Nat), NEW pos \in Nat, Store(pos)
  PROVE  /\ rbuf' \in Seq(Nat) /\ rfile' \in Seq(Nat)
         /\ \E h \in Seq(Nat) : /\ Held' = Append(h, pos) /\ Len(h) <= Len(Held)
                                /\ \A i \in 1..Len(h) : h[i] = Held[i]
                                /\ "diskwrite" \notin Faults => h = Held
  <1>1. /\ Held \in Seq(Nat) /\ Len(Held) \in Nat
        /\ Len(rbuf) \in Nat /\ Len(rfile) \in Nat
    BY DEF Held
  <1>2. SubSeq(rbuf, 1, Len(rbuf)) = rbuf
    BY WholeSeq
  <1>3. CASE rbuf' = Append(rbuf, pos) /\ rfile' = rfile
    <2>1. Held' = Append(Held, pos)
      BY <1>1, <1>3 DEF Held
    <2>2. rbuf' \in Seq(Nat) /\ rfile' \in Seq(Nat)
      BY <1>3
    <2>3. Len(Held) <= Len(Held)
      BY <1>1
    <2> QED
      BY <1>1, <2>1, <2>2, <2>3, Zenon
  <1>4. ASSUME NEW k \in 0..Len(rbuf), rbuf' = <<pos>>,
               rfile' = rfile \o SubSeq(rbuf, 1, k),
               "diskwrite" \in Faults \/ k = Len(rbuf)
        PROVE  /\ rbuf' \in Seq(Nat) /\ rfile' \in Seq(Nat)
               /\ \E h \in Seq(Nat) : /\ Held' = Append(h, pos) /\ Len(h) <= Len(Held)
                                      /\ \A i \in 1..Len(h) : h[i] = Held[i]
                                      /\ "diskwrite" \notin Faults => h = Held
    <2>1. /\ rfile' \in Seq(Nat) /\ Len(rfile') <= Len(Held)
          /\ \A i \in 1..Len(rfile') : rfile'[i] = Held[i]
      BY <1>4, PartWritten
    <2>2. Held' = Append(rfile', pos) /\ rbuf' \in Seq(Nat)
      <3>1. Held' = rfile' \o rbuf'
        BY DEF Held
      <3>2. Append(rfile', pos) = rfile' \o <<pos>>
        BY <2>1, AppendIsConcat
      <3> QED
        BY <1>4, <3>1, <3>2
    <2>3. "diskwrite" \notin Faults => rfile' = Held
      BY <1>2, <1>4 DEF Held
    <2> QED
      BY <2>1, <2>2, <2>3
  <1>5. \/ rbuf' = Append(rbuf, pos) /\ rfile' = rfile
        \/ \E k \in 0..Len(rbuf) : /\ rbuf' = <<pos>>
                                   /\ rfile' = rfile \o SubSeq(rbuf, 1, k)
                                   /\ "diskwrite" \in Faults \/ k = Len(rbuf)
    <2>1. Len(rbuf) \in 0..Len(rbuf) /\ \A k \in 0..(Len(rbuf) - 1) : k \in 0..Len(rbuf)
      BY <1>1
    <2>2. CASE rfile' = rfile \o rbuf /\ rbuf' = <<pos>>
      BY <1>2, <2>1, <2>2
    <2>3. CASE /\ rbuf' = <<pos>> /\ "diskwrite" \in Faults
               /\ \E k \in 0..(Len(rbuf) - 1) : rfile' = rfile \o SubSeq(rbuf, 1, k)
      BY <2>1, <2>3, Zenon
    <2> QED
      BY <2>2, <2>3, Zenon DEF Store
  <1> QED
    BY <1>3, <1>4, <1>5, Zenon
=============================================================================
