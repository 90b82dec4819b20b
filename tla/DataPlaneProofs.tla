--------------------------- MODULE DataPlaneProofs ---------------------------
(* Proofs about DataPlane. The inductive invariant looks at the data frames   *)
(* of a channel that the receiver has not seen yet, Unseen(c): those on the   *)
(* wire and the one in the sender's hand, in order. Every diff among them     *)
(* was made against the payload of the frame before it (Chain), and the       *)
(* receiver's base is the one the first of them was made against, or, after   *)
(* a lost frame, one that lags by fewer frames than there are sequence        *)
(* numbers (Follows). So a diff is applied to its own base or refused, never  *)
(* to another. The coder's numbers on the wire count on from the decoder's    *)
(* to that of the last fragment queued (CoderKept). All of it holds until     *)
(* the ends are spoilt, and only the faults of SpoiltOnlyByFaults spoil them. *)
EXTENDS DataPlane, SequenceTheorems, WellFoundedInduction, TLAPS

(* Sequence numbers: the next one, and the k-th after s.                     *)
Succ(s) == LET wrapped == (s + 1) % SeqWidth IN IF wrapped = 0 THEN 1 ELSE wrapped
Advance(s, k) == IF s + k < SeqWidth THEN s + k ELSE s + k - (SeqWidth - 1)

(* The values of bases, diffs and frames.  Garbage is none of them: that it   *)
(* never gets there is part of the proof.                                     *)
Bases == [seq : 0 .. SeqWidth - 1, data : Payloads \cup {<<>>}]
Diffs == {NoDiff} \cup {ComputeIncremental(b, p) : b \in Bases, p \in Payloads}
DataFrames ==
    [kind : {"plain", "diff"}, conn : Channels, seq : 0 .. SeqWidth - 1, diff : Diffs,
     data : Payloads \cup {<<>>}, squeezed : BOOLEAN, pos : 0 .. SeqWidth - 1, orig : Payloads]
Frames == DataFrames \cup {CloseFrame(c) : c \in Channels}

(* The base both ends keep once they have handled frame f.                    *)
Caches(f) == Base(f.seq, f.orig)

\* f was made against base b.
Made(f, b) ==
    f.diff = ComputeIncremental(b, f.orig) /\ f.diff # NoDiff /\ f.seq = Succ(b.seq)

(* Every diff under way was made against the frame before it; the sender's    *)
(* base is the last frame; and a diff that is refused leaves room below the   *)
(* bound (AtBound).                                                           *)
Linked(D) == \A i \in 2 .. Len(D) : D[i].kind = "diff" => Made(D[i], Caches(D[i - 1]))
TipKnown(D, sb) == D # <<>> /\ sb # NoBase => sb = Caches(D[Len(D)])
Bounded(D, r) == \A i \in 1 .. Len(D) : D[i].kind = "diff" => r + i <= MaxRefused

(* The receiver has the base the next frame needs.                            *)
InSync(D, sb, b, r) ==
    /\ r = 0
    /\ D # <<>> /\ D[1].kind = "diff" => Made(D[1], b)
    /\ D = <<>> /\ sb # NoBase => sb = b

(* The receiver missed a frame: its base is r + 1 numbers behind the one the  *)
(* next diff needs, r of them refused since.                                  *)
Lagging(D, sb, b, r) ==
    /\ D # <<>> /\ D[1].kind = "diff" => /\ D[1].diff.base = Advance(b.seq, r + 1)
                                         /\ D[1].seq = Advance(b.seq, r + 2)
    /\ D = <<>> /\ sb # NoBase => sb.seq = Advance(b.seq, r + 1)

(* No number is missing between the receiver's base and the last frame.       *)
Unbroken(D, b) ==
    /\ D # <<>> => D[1].seq = Succ(b.seq)
    /\ \A i \in 2 .. Len(D) : D[i].seq = Succ(D[i - 1].seq)

(* Without diffs.                                                             *)
AllPlain(D) == \A i \in 1 .. Len(D) : D[i].kind = "plain"

(* What holds of the frames D under way, sender base sb and r refusals,       *)
(* whatever the receiver has ...                                              *)
Chain(D, sb, r) ==
    /\ \A i \in 1 .. Len(D) : D[i].kind = "plain" => D[i].data = D[i].orig
    /\ Linked(D) /\ TipKnown(D, sb) /\ Bounded(D, r)

(* ... where the receiver expands them against base b: struck says that the   *)
(* channel lost a frame ...                                                   *)
Follows(D, sb, b, r, struck) ==
    \/ InSync(D, sb, b, r)
    \/ struck /\ Lagging(D, sb, b, r)

(* ... and while it has lost none: the numbers have no gap, so that the first *)
(* loss leaves a lag of one. mine is the base the sender keeps.       *)
Intact(D, sb, mine, b, r, live) ==
    /\ InSync(D, sb, b, r) /\ Unbroken(D, b)
    /\ live => mine = IF D = <<>> THEN b ELSE Caches(D[Len(D)])

(* The receiver expands the frames of c; the sender still builds them.        *)
Expands(c) == config.dir = "up" => owned[c]
Live(c) == config.dir = "down" => owned[c]

(* The invariant of one channel.                                              *)
ChannelKept(c) ==
    /\ Chain(Unseen(c), SendBase(c), refused[c])
    /\ Expands(c) => Follows(Unseen(c), SendBase(c), cache[c], refused[c], hurt[c])
    /\ MayDiff /\ Expands(c) /\ ~hurt[c] =>
          Intact(Unseen(c), SendBase(c), base[c], cache[c], refused[c], Live(c))
    /\ ~MayDiff => base[c] = NoBase /\ AllPlain(Unseen(c))
    /\ config.dir = "up" /\ ~owned[c] /\ ~hurt[c] => stopped[c] /\ Unseen(c) = <<>>
    /\ c \notin config.conns => stopped[c] /\ ~owned[c] /\ hand[c] = None

(* On a channel that has lost no frame nobody has asked for a resync, whose   *)
(* numbers start again at 1; where one was lost, one loss is spent.           *)
QuietKept ==
    /\ skips \in Nat /\ config.skips \in Nat /\ skips <= config.skips
    /\ \A c \in Channels : /\ ~hurt[c] => c \notin asks /\ ~reset[c]
                           /\ hurt[c] /\ Expands(c) => skips < config.skips

(* The relay task has one frame in hand at most.                              *)
HandsKept ==
    config.dir = "down" => \A c, d \in Channels : hand[c] # None /\ hand[d] # None => c = d

(* The coder's number after frame f.                                          *)
Squeezed(f) == f.kind # "close" /\ f.squeezed
Step(n, f) == IF Squeezed(f) THEN (n + 1) % SeqWidth ELSE n

(* A close frame is the last of its channel, whose base is gone.              *)
ClosingKept ==
    /\ \A i \in 1 .. Len(wire) :
         /\ wire[i].conn \in config.conns
         /\ wire[i].kind = "close" =>
            /\ config.dir = "down" /\ ~owned[wire[i].conn]
            /\ base[wire[i].conn] = NoBase /\ hand[wire[i].conn] = None
            /\ \A j \in i + 1 .. Len(wire) : wire[j].conn # wire[i].conn
    /\ \A c \in Channels : hand[c] # None /\ hand[c].kind = "close" =>
         config.dir = "down" /\ ~owned[c] /\ base[c] = NoBase

(* The stream decoder is in use.                                              *)
Coding == config.algo = "stream" /\ (config.dir = "up" => \E c \in config.conns : owned[c])

(* Fragments are on the wire in the order they were encoded, from the         *)
(* decoder's number to that of the last one queued.                           *)
CoderKept ==
    Coding =>
    \E run \in [0 .. Len(wire) -> 0 .. SeqWidth - 1] :
        /\ run[0] = dec
        /\ \A i \in 1 .. Len(wire) : /\ run[i] = Step(run[i - 1], wire[i])
                                     /\ Squeezed(wire[i]) => wire[i].pos = run[i - 1]
        /\ run[Len(wire)] = queued

(* A task that has the encoder for itself queues what it encoded before it    *)
(* encodes more.                                                              *)
SoleKept ==
    config.algo = "stream" /\ ~SharedStream =>
        /\ (\A c \in Channels : hand[c] = None) => enc = queued
        /\ \A c \in Channels : hand[c] # None =>
              /\ Squeezed(hand[c]) => hand[c].pos = queued
              /\ enc = Step(queued, hand[c])

(* Types, in the form the provers use.                                        *)
Typed ==
    /\ config \in Configs
    /\ base \in [Channels -> Bases] /\ cache \in [Channels -> Bases]
    /\ reset \in [Channels -> BOOLEAN] /\ owned \in [Channels -> BOOLEAN]
    /\ stopped \in [Channels -> BOOLEAN] /\ hurt \in [Channels -> BOOLEAN]
    /\ DOMAIN hand = Channels
    /\ \A c \in Channels : hand[c] # None => hand[c] \in Frames /\ hand[c].conn = c
    /\ wire \in Seq(Frames) /\ Len(wire) <= WireCapacity
    /\ enc \in 0 .. SeqWidth - 1 /\ dec \in 0 .. SeqWidth - 1 /\ queued \in 0 .. SeqWidth - 1
    /\ asks \in SUBSET Channels /\ lostAsks \in 0 .. MaxLostAsks
    /\ refused \in [Channels -> 0 .. MaxRefused]
    /\ out \in [Channels -> Payloads \cup {Nothing}]
    /\ broken = FALSE

(* What holds until the ends are spoilt.                                      *)
IInv == /\ Typed /\ (\A c \in Channels : ChannelKept(c)) /\ QuietKept /\ HandsKept /\ ClosingKept
        /\ CoderKept /\ SoleKept

(* The inductive invariant.                                                   *)
KInv == /\ config \in Configs /\ skips \in Nat /\ config.skips \in Nat
        /\ spoilt \in BOOLEAN /\ SpoiltOnlyByFaults
        /\ ~spoilt => IInv

-----------------------------------------------------------------------------
(* Induction and flattening                                                  *)

(* The least-number principle, for a set: every nonempty set of naturals has *)
(* a least element.                                                          *)
LEMMA LeastNumber ==
    ASSUME NEW T \in SUBSET Nat, T # {}
    PROVE  \E m \in T : \A k \in T : m <= k
<1>1. IsWellFoundedOn(OpToRel(<, Nat), Nat)
  BY NatLessThanWellFounded
<1>2. \A R : IsWellFoundedOn(R, Nat)
                => \E x \in T : \A y \in T : ~(<<y, x>> \in R)
  BY WFMin
<1>3. PICK x \in T : \A y \in T : ~(<<y, x>> \in OpToRel(<, Nat))
  BY <1>1, <1>2
<1>4. \A y \in T : ~(y < x)
  BY <1>3 DEF OpToRel
<1> QED BY <1>4

(* Induction up to n, for a set: what contains 0 and with every number its   *)
(* successor contains 0 .. n.                                                *)
LEMMA CountingUp ==
    ASSUME NEW T, NEW n \in Nat, 0 \in T,
           \A i \in 0 .. n - 1 : i \in T => i + 1 \in T
    PROVE  \A i \in 0 .. n : i \in T
<1> SUFFICES ASSUME (0 .. n) \ T # {} PROVE FALSE
  OBVIOUS
<1> DEFINE D == (0 .. n) \ T
<1>0. D \in SUBSET Nat /\ D # {}
  OBVIOUS
<1> HIDE DEF D
<1>a. PICK m \in D : \A k \in D : m <= k
  BY <1>0, LeastNumber
<1>1. m \in (0 .. n) \ T /\ \A k \in (0 .. n) \ T : m <= k
  BY <1>a DEF D
<1>2. m # 0 /\ m - 1 \in 0 .. n - 1 /\ m - 1 \in 0 .. n /\ ~(m <= m - 1)
  BY <1>1
<1>3. m - 1 \in T
  BY <1>1, <1>2
<1> QED BY <1>1, <1>2, <1>3

(* The recursive function inside FlattenSeq exists: it is the sequence of    *)
(* the partial concatenations.                                               *)
LEMMA FlattenUnfolds ==
    ASSUME NEW S, NEW ss \in Seq(Seq(S)), ss # <<>>
    PROVE  \E f \in [1 .. Len(ss) -> Seq(S)] :
              /\ f[1] = ss[1]
              /\ \A i \in 2 .. Len(ss) : f[i] = f[i - 1] \o ss[i]
              /\ FlattenSeq(ss) = f[Len(ss)]
<1> DEFINE N == Len(ss)
           W == Seq(S)
           Cat(a, b) == a \o b
           Unfolds(f, n) ==
               \A i \in 1 .. n : f[i] = IF i = 1 THEN ss[i] ELSE Cat(f[i - 1], ss[i])
<1>1. N \in Nat \ {0} /\ \A i \in 1 .. N : ss[i] \in W
  OBVIOUS
<1>2. \A a, b \in W : Cat(a, b) \in W
  OBVIOUS
<1>3. ASSUME NEW f, f = [i \in 1 .. N |-> IF i = 1 THEN ss[i] ELSE Cat(f[i - 1], ss[i])]
      PROVE  \E h : /\ h = [i \in 1 .. N |-> IF i = 1 THEN ss[i] ELSE Cat(h[i - 1], ss[i])]
                    /\ FlattenSeq(ss) = h[N]
  BY <1>1, <1>3 DEF FlattenSeq
<1> SUFFICES \E f \in [1 .. N -> W] :
                /\ f[1] = ss[1]
                /\ \A i \in 2 .. N : f[i] = Cat(f[i - 1], ss[i])
                /\ FlattenSeq(ss) = f[N]
  BY Zenon
<1> HIDE DEF N, W, Cat
<1> DEFINE T == {n \in 0 .. N : \E f \in [1 .. n -> W] : Unfolds(f, n)}
<1>4. 0 \in T
  <2> DEFINE e == [i \in 1 .. 0 |-> ss[1]]
  <2>1. e \in [1 .. 0 -> W] /\ Unfolds(e, 0)
    BY <1>1
  <2>2. 0 \in 0 .. N
    BY <1>1
  <2> HIDE DEF e, Unfolds
  <2> QED BY <2>1, <2>2
<1>5. ASSUME NEW n \in 0 .. N - 1, n \in T PROVE n + 1 \in T
  <2>0. n \in Nat /\ n + 1 \in 1 .. N /\ n + 1 \in 0 .. N
    BY <1>1
  <2>1. PICK f \in [1 .. n -> W] : Unfolds(f, n)
    BY <1>5
  <2> DEFINE v == IF n = 0 THEN ss[1] ELSE Cat(f[n], ss[n + 1])
             g == [i \in 1 .. n + 1 |-> IF i = n + 1 THEN v ELSE f[i]]
  <2>2. v \in W
    <3>1. ss[1] \in W /\ ss[n + 1] \in W
      BY <1>1, <2>0
    <3>2. n # 0 => f[n] \in W
      BY <2>0
    <3> QED BY <1>2, <3>1, <3>2
  <2>3. g \in [1 .. n + 1 -> W]
    BY <2>0, <2>2
  <2>4. \A i \in 1 .. n : g[i] = f[i]
    BY <2>0
  <2>5. g[n + 1] = v
    BY <2>0
  <2> HIDE DEF g
  <2>6. Unfolds(g, n + 1)
    <3> SUFFICES ASSUME NEW i \in 1 .. n + 1
                 PROVE g[i] = IF i = 1 THEN ss[i] ELSE Cat(g[i - 1], ss[i])
      OBVIOUS
    <3>1. CASE i = n + 1
      <4>1. n # 0 => g[n] = f[n]
        BY <2>0, <2>4
      <4> QED BY <2>0, <2>5, <3>1, <4>1
    <3>2. CASE i # n + 1
      <4>1. i \in 1 .. n /\ g[i] = f[i] /\ (i # 1 => i - 1 \in 1 .. n)
        BY <2>0, <2>4, <3>2
      <4>2. i # 1 => g[i - 1] = f[i - 1]
        BY <2>4, <4>1
      <4> QED BY <2>1, <4>1, <4>2
    <3> QED BY <3>1, <3>2
  <2> HIDE DEF Unfolds
  <2> QED BY <2>0, <2>3, <2>6
<1>6. N \in T
  <2> HIDE DEF T
  <2>1. \A i \in 0 .. N : i \in T
    BY <1>1, <1>4, <1>5, CountingUp
  <2> QED BY <1>1, <2>1
<1>7. PICK f \in [1 .. N -> W] : Unfolds(f, N)
  BY <1>6
<1>8. PICK h : /\ h = [i \in 1 .. N |-> IF i = 1 THEN ss[i] ELSE Cat(h[i - 1], ss[i])]
               /\ FlattenSeq(ss) = h[N]
  <2>1. f = [i \in 1 .. N |-> IF i = 1 THEN ss[i] ELSE Cat(f[i - 1], ss[i])]
    BY <1>7
  <2> QED BY <1>3, <2>1
<1> DEFINE H == {i \in 0 .. N : i = 0 \/ h[i] = f[i]}
<1>9. h[N] = f[N]
  <2>1. 0 \in H
    BY <1>1
  <2>2. ASSUME NEW i \in 0 .. N - 1, i \in H PROVE i + 1 \in H
    <3>1. i + 1 \in 1 .. N /\ i + 1 \in 0 .. N /\ (i + 1) - 1 = i /\ (i + 1 = 1 <=> i = 0)
      BY <1>1
    <3>2. h[i + 1] = IF i = 0 THEN ss[i + 1] ELSE Cat(h[i], ss[i + 1])
      BY <1>8, <3>1
    <3>3. f[i + 1] = IF i = 0 THEN ss[i + 1] ELSE Cat(f[i], ss[i + 1])
      BY <1>7, <3>1
    <3> QED BY <2>2, <3>1, <3>2, <3>3
  <2>3. N \in H
    <3> HIDE DEF H
    <3>1. \A i \in 0 .. N : i \in H
      BY <1>1, <2>1, <2>2, CountingUp
    <3> QED BY <1>1, <3>1
  <2> QED BY <1>1, <2>3
<1>10. f[1] = ss[1] /\ \A i \in 2 .. N : f[i] = Cat(f[i - 1], ss[i])
  BY <1>1, <1>7
<1> QED BY <1>8, <1>9, <1>10

(* Flattening no sequence gives the empty sequence.                          *)
LEMMA FlattenEmpty == FlattenSeq(<<>>) = <<>>
BY DEF FlattenSeq

(* Flattening one sequence gives that sequence.                              *)
LEMMA FlattenOne ==
    ASSUME NEW S, NEW s \in Seq(S)
    PROVE  FlattenSeq(<<s>>) = s
<1>1. <<s>> \in Seq(Seq(S)) /\ <<s>> # <<>> /\ Len(<<s>>) = 1 /\ <<s>>[1] = s
  OBVIOUS
<1>2. PICK f \in [1 .. Len(<<s>>) -> Seq(S)] :
          f[1] = <<s>>[1] /\ FlattenSeq(<<s>>) = f[Len(<<s>>)]
  BY <1>1, FlattenUnfolds, Zenon
<1> QED BY <1>1, <1>2, Zenon

(* Flattening sequences over S gives a sequence over S.                      *)
LEMMA FlattenType ==
    ASSUME NEW S, NEW ss \in Seq(Seq(S))
    PROVE  FlattenSeq(ss) \in Seq(S)
<1>1. CASE ss = <<>>
  BY <1>1, FlattenEmpty, EmptySeq, Zenon
<1>2. CASE ss # <<>>
  <2>1. PICK f \in [1 .. Len(ss) -> Seq(S)] : FlattenSeq(ss) = f[Len(ss)]
    BY <1>2, FlattenUnfolds, Zenon
  <2>2. Len(ss) \in 1 .. Len(ss)
    BY <1>2
  <2> QED BY <2>1, <2>2, Zenon
<1> QED BY <1>1, <1>2

(* Flattening distributes over concatenation: picking from one part of the  *)
(* wire and then from the rest picks from the whole.                         *)
LEMMA FlattenConcat ==
    ASSUME NEW S, NEW ss \in Seq(Seq(S)), NEW tt \in Seq(Seq(S))
    PROVE  FlattenSeq(ss \o tt) = FlattenSeq(ss) \o FlattenSeq(tt)
<1>0. FlattenSeq(ss) \in Seq(S) /\ FlattenSeq(tt) \in Seq(S)
  BY FlattenType
<1>1. CASE ss = <<>>
  <2>1. ss \o tt = tt
    BY <1>1, ConcatEmptySeq, Zenon
  <2>2. FlattenSeq(ss) \o FlattenSeq(tt) = FlattenSeq(tt)
    BY <1>0, <1>1, FlattenEmpty, ConcatEmptySeq, Zenon
  <2> QED BY <2>1, <2>2, Zenon
<1>2. CASE tt = <<>>
  <2>1. ss \o tt = ss
    BY <1>2, ConcatEmptySeq, Zenon
  <2>2. FlattenSeq(ss) \o FlattenSeq(tt) = FlattenSeq(ss)
    BY <1>0, <1>2, FlattenEmpty, ConcatEmptySeq, Zenon
  <2> QED BY <2>1, <2>2, Zenon
<1>3. CASE ss # <<>> /\ tt # <<>>
  <2> DEFINE n == Len(ss)
             m == Len(tt)
             u == ss \o tt
             W == Seq(S)
             Cat(a, b) == a \o b
  <2>1. /\ n \in Nat \ {0} /\ m \in Nat \ {0}
        /\ u \in Seq(W) /\ Len(u) = n + m /\ u # <<>>
        /\ \A i \in 1 .. n : u[i] = ss[i] /\ ss[i] \in W
        /\ \A i \in 1 .. m : u[n + i] = tt[i] /\ tt[i] \in W
    BY <1>3
  <2>2. /\ \A a, b \in W : Cat(a, b) \in W
        /\ \A a, b, c \in W : Cat(Cat(a, b), c) = Cat(a, Cat(b, c))
    OBVIOUS
  <2>3. PICK f \in [1 .. n -> W] :
              /\ f[1] = ss[1]
              /\ \A i \in 2 .. n : f[i] = Cat(f[i - 1], ss[i])
              /\ FlattenSeq(ss) = f[n]
    BY <1>3, FlattenUnfolds, Zenon
  <2>4. PICK g \in [1 .. m -> W] :
              /\ g[1] = tt[1]
              /\ \A i \in 2 .. m : g[i] = Cat(g[i - 1], tt[i])
              /\ FlattenSeq(tt) = g[m]
    BY <1>3, FlattenUnfolds, Zenon
  <2>5. \E h \in [1 .. Len(u) -> W] :
              /\ h[1] = u[1]
              /\ \A i \in 2 .. Len(u) : h[i] = Cat(h[i - 1], u[i])
              /\ FlattenSeq(u) = h[Len(u)]
    <3> HIDE DEF u
    <3> QED BY <2>1, FlattenUnfolds, Zenon
  <2>6. PICK h \in [1 .. n + m -> W] :
              /\ h[1] = u[1]
              /\ \A i \in 2 .. n + m : h[i] = Cat(h[i - 1], u[i])
              /\ FlattenSeq(u) = h[n + m]
    <3> HIDE DEF u, n, m, Cat, W
    <3> QED BY <2>1, <2>5, Zenon
  <2> SUFFICES FlattenSeq(u) = Cat(FlattenSeq(ss), FlattenSeq(tt))
    BY Zenon
  <2> HIDE DEF n, m, u, W, Cat
  <2> DEFINE H == {i \in 0 .. n : i = 0 \/ h[i] = f[i]}
             G == {i \in 0 .. m : i = 0 \/ h[n + i] = Cat(f[n], g[i])}
  <2>7. h[n] = f[n]
    <3>1. 0 \in H
      BY <2>1
    <3>2. ASSUME NEW i \in 0 .. n - 1, i \in H PROVE i + 1 \in H
      <4>0. i + 1 \in 1 .. n /\ i + 1 \in 0 .. n
        BY <2>1
      <4>1. CASE i = 0
        <5>1. i + 1 = 1 /\ 1 \in 1 .. n
          BY <2>1, <4>1
        <5>2. u[1] = ss[1]
          BY <2>1, <5>1
        <5> QED BY <2>3, <2>6, <4>0, <5>1, <5>2
      <4>2. CASE i # 0
        <5>1. i + 1 \in 2 .. n /\ i + 1 \in 2 .. n + m /\ (i + 1) - 1 = i
          BY <2>1, <4>2
        <5>2. h[i + 1] = Cat(h[i], u[i + 1]) /\ f[i + 1] = Cat(f[i], ss[i + 1])
          BY <2>3, <2>6, <5>1
        <5>3. u[i + 1] = ss[i + 1] /\ h[i] = f[i]
          BY <2>1, <3>2, <4>0, <4>2
        <5> QED BY <4>0, <5>2, <5>3
      <4> QED BY <4>1, <4>2
    <3>3. n \in H
      <4> HIDE DEF H
      <4>1. \A i \in 0 .. n : i \in H
        BY <2>1, <3>1, <3>2, CountingUp
      <4> QED BY <2>1, <4>1
    <3> QED BY <2>1, <3>3
  <2>8. h[n + m] = Cat(f[n], g[m])
    <3>0. f[n] \in W
      BY <2>1
    <3>1. 0 \in G
      BY <2>1
    <3>2. ASSUME NEW i \in 0 .. m - 1, i \in G PROVE i + 1 \in G
      <4>1. n + (i + 1) \in 2 .. n + m /\ (n + (i + 1)) - 1 = n + i /\ i + 1 \in 1 .. m
            /\ i + 1 \in 0 .. m
        BY <2>1
      <4>2. u[n + (i + 1)] = tt[i + 1] /\ tt[i + 1] \in W
        BY <2>1, <4>1
      <4>3. h[n + (i + 1)] = Cat(h[n + i], tt[i + 1])
        BY <2>6, <4>1, <4>2
      <4>4. CASE i = 0
        <5>1. n + i = n /\ i + 1 = 1
          BY <2>1, <4>4
        <5>2. g[i + 1] = tt[i + 1]
          BY <2>4, <5>1
        <5> QED BY <2>7, <4>1, <4>3, <5>1, <5>2
      <4>5. CASE i # 0
        <5>1. i + 1 \in 2 .. m /\ (i + 1) - 1 = i /\ i \in 1 .. m
          BY <2>1, <4>5
        <5>2. g[i + 1] = Cat(g[i], tt[i + 1]) /\ g[i] \in W
          BY <2>4, <5>1
        <5>3. h[n + i] = Cat(f[n], g[i])
          BY <3>2, <4>5
        <5>4. Cat(Cat(f[n], g[i]), tt[i + 1]) = Cat(f[n], Cat(g[i], tt[i + 1]))
          BY <2>2, <3>0, <4>2, <5>2
        <5> QED BY <4>1, <4>3, <5>2, <5>3, <5>4
      <4> QED BY <4>4, <4>5
    <3>3. m \in G
      <4> HIDE DEF G
      <4>1. \A i \in 0 .. m : i \in G
        BY <2>1, <3>1, <3>2, CountingUp
      <4> QED BY <2>1, <4>1
    <3> QED BY <2>1, <3>3
  <2> QED BY <2>3, <2>4, <2>6, <2>7, <2>8
<1> QED BY <1>1, <1>2, <1>3

-----------------------------------------------------------------------------
(* A channel's frames among all frames                                       *)

(* DataOf(frames, c) is the flattening of one piece per frame.                *)
Piece(f, c) == IF f.conn = c /\ f.kind # "close" THEN <<f>> ELSE <<>>
Pieces(frames, c) == [i \in 1 .. Len(frames) |-> Piece(frames[i], c)]

(* Data frames and close frames tell apart by their kind.                     *)
LEMMA DataFrameKinds ==
    /\ \A f \in Frames : f.conn \in Channels
    /\ \A f \in Frames : f.kind # "close" => f \in DataFrames
    /\ \A f \in DataFrames : f \in Frames /\ f.kind \in {"plain", "diff"} /\ f # None
    /\ \A c \in Channels : CloseFrame(c) \in Frames /\ CloseFrame(c).kind = "close"
                           /\ CloseFrame(c).conn = c /\ CloseFrame(c) # None
<1>1. \A c : CloseFrame(c).kind = "close" /\ CloseFrame(c).conn = c
  BY DEF CloseFrame
<1>2. None.kind = "none"
  BY DEF None
<1>3. \A f \in DataFrames : f.kind \in {"plain", "diff"} /\ f.conn \in Channels
  BY DEF DataFrames
<1>4. \A f \in DataFrames : f.kind # "close" /\ f # None
  BY <1>2, <1>3
<1>5. \A c : CloseFrame(c) # None
  BY <1>1, <1>2
<1> HIDE DEF DataFrames, CloseFrame, None
<1>6. \A f \in Frames : f \in DataFrames \/ \E c \in Channels : f = CloseFrame(c)
  BY DEF Frames
<1>7. (\A f \in DataFrames : f \in Frames) /\ \A c \in Channels : CloseFrame(c) \in Frames
  BY DEF Frames
<1> QED BY <1>1, <1>3, <1>4, <1>5, <1>6, <1>7

(* The pieces of a channel are data frames, one at most per frame.            *)
LEMMA PiecesTyped ==
    ASSUME NEW s \in Seq(Frames), NEW c
    PROVE  /\ Pieces(s, c) \in Seq(Seq(DataFrames)) /\ Len(Pieces(s, c)) = Len(s)
           /\ \A i \in 1 .. Len(s) : Pieces(s, c)[i] = Piece(s[i], c)
           /\ DataOf(s, c) = FlattenSeq(Pieces(s, c))
           /\ DataOf(s, c) \in Seq(DataFrames)
<1>1. \A f \in Frames : Piece(f, c) \in Seq(DataFrames)
  BY DataFrameKinds DEF Piece
<1>2. \A i \in 1 .. Len(s) : s[i] \in Frames
  OBVIOUS
<1>3. Pieces(s, c) \in [1 .. Len(s) -> Seq(DataFrames)]
  BY <1>1, <1>2 DEF Pieces
<1>4. Len(s) \in Nat
  OBVIOUS
<1>5. Pieces(s, c) \in Seq(Seq(DataFrames)) /\ Len(Pieces(s, c)) = Len(s)
  BY <1>3, <1>4
<1>6. DataOf(s, c) = FlattenSeq(Pieces(s, c))
  BY DEF DataOf, Pieces, Piece
<1>7. DataOf(s, c) \in Seq(DataFrames)
  BY <1>5, <1>6, FlattenType
<1> QED BY <1>5, <1>6, <1>7 DEF Pieces

(* Length and elements of a concatenation.                                    *)
LEMMA ConcatFacts ==
    ASSUME NEW S, NEW a \in Seq(S), NEW b \in Seq(S)
    PROVE  /\ a \o b \in Seq(S) /\ Len(a \o b) = Len(a) + Len(b)
           /\ \A i \in 1 .. Len(a) : (a \o b)[i] = a[i]
           /\ \A i \in Len(a) + 1 .. Len(a) + Len(b) : (a \o b)[i] = b[i - Len(a)]
  OBVIOUS

(* A channel's frames in two parts of the wire are its frames in the whole.   *)
LEMMA DataOfConcat ==
    ASSUME NEW s \in Seq(Frames), NEW t \in Seq(Frames), NEW c
    PROVE  DataOf(s \o t, c) = DataOf(s, c) \o DataOf(t, c)
<1> DEFINE u == s \o t
<1>1. u \in Seq(Frames) /\ Len(u) = Len(s) + Len(t) /\ Len(s) \in Nat /\ Len(t) \in Nat
  OBVIOUS
<1>2. /\ \A i \in 1 .. Len(s) : u[i] = s[i]
      /\ \A i \in Len(s) + 1 .. Len(s) + Len(t) : u[i] = t[i - Len(s)]
  OBVIOUS
<1> DEFINE ps == Pieces(s, c)
           pt == Pieces(t, c)
           pu == Pieces(u, c)
<1>3. /\ ps \in Seq(Seq(DataFrames)) /\ Len(ps) = Len(s) /\ DataOf(s, c) = FlattenSeq(ps)
      /\ \A i \in 1 .. Len(s) : ps[i] = Piece(s[i], c)
  BY PiecesTyped
<1>4. /\ pt \in Seq(Seq(DataFrames)) /\ Len(pt) = Len(t) /\ DataOf(t, c) = FlattenSeq(pt)
      /\ \A i \in 1 .. Len(t) : pt[i] = Piece(t[i], c)
  BY PiecesTyped
<1>5. /\ pu \in Seq(Seq(DataFrames)) /\ Len(pu) = Len(u) /\ DataOf(u, c) = FlattenSeq(pu)
      /\ \A i \in 1 .. Len(u) : pu[i] = Piece(u[i], c)
  BY <1>1, PiecesTyped
<1>6. pu = ps \o pt
  <2> HIDE DEF ps, pt, pu, u
  <2>1. /\ ps \o pt \in Seq(Seq(DataFrames)) /\ Len(ps \o pt) = Len(ps) + Len(pt)
        /\ \A i \in 1 .. Len(ps) : (ps \o pt)[i] = ps[i]
        /\ \A i \in Len(ps) + 1 .. Len(ps) + Len(pt) : (ps \o pt)[i] = pt[i - Len(ps)]
    BY <1>3, <1>4, ConcatFacts
  <2>2. Len(pu) = Len(ps \o pt)
    BY <1>1, <1>3, <1>4, <1>5, <2>1
  <2>3. \A i \in 1 .. Len(pu) : pu[i] = (ps \o pt)[i]
    <3> SUFFICES ASSUME NEW i \in 1 .. Len(pu) PROVE pu[i] = (ps \o pt)[i]
      OBVIOUS
    <3>1. i \in 1 .. Len(s) + Len(t) /\ pu[i] = Piece(u[i], c)
      BY <1>1, <1>5
    <3>2. CASE i \in 1 .. Len(s)
      BY <1>2, <1>3, <2>1, <3>1, <3>2
    <3>3. CASE i \in Len(s) + 1 .. Len(s) + Len(t)
      <4>1. i - Len(s) \in 1 .. Len(t)
        BY <1>1, <3>3
      <4>2. u[i] = t[i - Len(s)]
        BY <1>2, <3>3
      <4>3. (ps \o pt)[i] = pt[i - Len(s)]
        BY <1>3, <1>4, <2>1, <3>3
      <4>4. pt[i - Len(s)] = Piece(t[i - Len(s)], c)
        BY <1>4, <4>1
      <4> QED BY <3>1, <4>2, <4>3, <4>4, Zenon
    <3>4. i \in 1 .. Len(s) \/ i \in Len(s) + 1 .. Len(s) + Len(t)
      BY <1>1, <3>1
    <3> QED BY <3>2, <3>3, <3>4, Zenon
  <2> QED BY <1>5, <2>1, <2>2, <2>3, SeqEqual
<1>7. FlattenSeq(pu) = FlattenSeq(ps) \o FlattenSeq(pt)
  BY <1>3, <1>4, <1>6, FlattenConcat
<1> QED BY <1>3, <1>4, <1>5, <1>7

(* A single frame belongs to its channel, or it is a close frame.             *)
LEMMA DataOfOne ==
    ASSUME NEW f \in Frames, NEW c
    PROVE  DataOf(<<f>>, c) = Piece(f, c)
<1>1. <<f>> \in Seq(Frames) /\ Len(<<f>>) = 1
  OBVIOUS
<1>2. Piece(f, c) \in Seq(DataFrames)
  BY DataFrameKinds DEF Piece
<1>3. Pieces(<<f>>, c) = <<Piece(f, c)>>
  BY DEF Pieces
<1>4. DataOf(<<f>>, c) = FlattenSeq(<<Piece(f, c)>>)
  BY <1>1, <1>3, PiecesTyped
<1> QED BY <1>2, <1>4, FlattenOne

(* An empty wire has no frames.                                               *)
LEMMA DataOfEmpty == \A c : DataOf(<<>>, c) = <<>>
<1>1. ASSUME NEW c PROVE DataOf(<<>>, c) = <<>>
  <2>1. Pieces(<<>>, c) = <<>>
    BY DEF Pieces
  <2>2. <<>> \in Seq(Frames)
    OBVIOUS
  <2> QED BY <2>1, <2>2, PiecesTyped, FlattenEmpty
<1> QED BY <1>1

(* A frame queued is the last of its channel ...                             *)
LEMMA DataOfAppend ==
    ASSUME NEW s \in Seq(Frames), NEW f \in Frames, NEW c
    PROVE  DataOf(Append(s, f), c) = DataOf(s, c) \o Piece(f, c)
<1>1. Append(s, f) = s \o <<f>> /\ <<f>> \in Seq(Frames)
  OBVIOUS
<1>2. DataOf(s \o <<f>>, c) = DataOf(s, c) \o DataOf(<<f>>, c)
  BY <1>1, DataOfConcat, Zenon
<1>3. DataOf(<<f>>, c) = Piece(f, c)
  BY DataOfOne
<1> QED BY <1>1, <1>2, <1>3, Zenon

(* ... and the frame at the head is the first of its own.                    *)
LEMMA DataOfTail ==
    ASSUME NEW s \in Seq(Frames), s # <<>>, NEW c
    PROVE  /\ Tail(s) \in Seq(Frames) /\ Head(s) \in Frames
           /\ DataOf(s, c) = Piece(Head(s), c) \o DataOf(Tail(s), c)
<1>1. s = <<Head(s)>> \o Tail(s) /\ Tail(s) \in Seq(Frames) /\ Head(s) \in Frames
      /\ <<Head(s)>> \in Seq(Frames)
  OBVIOUS
<1>2. DataOf(<<Head(s)>> \o Tail(s), c) = DataOf(<<Head(s)>>, c) \o DataOf(Tail(s), c)
  BY <1>1, DataOfConcat
<1> QED BY <1>1, <1>2, DataOfOne

(* Where a channel has no data frame, none is found.                         *)
LEMMA DataOfNone ==
    ASSUME NEW s \in Seq(Frames), NEW c,
           \A i \in 1 .. Len(s) : s[i].conn # c \/ s[i].kind = "close"
    PROVE  DataOf(s, c) = <<>>
<1>1. CASE s = <<>>
  BY <1>1, DataOfEmpty
<1>2. CASE s # <<>>
  <2> DEFINE ps == Pieces(s, c)
             n == Len(s)
  <2>1. /\ n \in Nat \ {0} /\ ps \in Seq(Seq(DataFrames)) /\ Len(ps) = n
        /\ DataOf(s, c) = FlattenSeq(ps)
        /\ \A i \in 1 .. n : ps[i] = Piece(s[i], c)
    BY <1>2, PiecesTyped
  <2>2. \A i \in 1 .. n : ps[i] = <<>>
    BY <2>1 DEF Piece
  <2> HIDE DEF ps, n
  <2>3. ps # <<>>
    BY <2>1
  <2>4. PICK h \in [1 .. n -> Seq(DataFrames)] :
             /\ h[1] = ps[1]
             /\ \A i \in 2 .. n : h[i] = h[i - 1] \o ps[i]
             /\ FlattenSeq(ps) = h[n]
    BY <2>1, <2>3, FlattenUnfolds
  <2> DEFINE T == {i \in 0 .. n : i = 0 \/ h[i] = <<>>}
  <2>5. 0 \in T
    BY <2>1
  <2>6. ASSUME NEW i \in 0 .. n - 1, i \in T PROVE i + 1 \in T
    <3>1. i + 1 \in 1 .. n /\ i + 1 \in 0 .. n
      BY <2>1
    <3>2. CASE i = 0
      BY <2>2, <2>4, <3>1, <3>2
    <3>3. CASE i # 0
      <4>1. i + 1 \in 2 .. n /\ (i + 1) - 1 = i /\ h[i] = <<>>
        BY <2>1, <2>6, <3>3
      <4>2. h[i + 1] = <<>> \o <<>>
        BY <2>2, <2>4, <3>1, <4>1
      <4> QED BY <3>1, <4>2
    <3> QED BY <3>2, <3>3
  <2>7. \A i \in 0 .. n : i \in T
    <3> HIDE DEF T
    <3> QED BY <2>1, <2>5, <2>6, CountingUp
  <2>8. h[n] = <<>>
    BY <2>1, <2>7
  <2> QED BY <2>1, <2>4, <2>8
<1> QED BY <1>1, <1>2
-----------------------------------------------------------------------------
(* Sequence numbers                                                          *)

(* incremental.rs next_sequence_for: the number after a base.                 *)
LEMMA NextIsSucc ==
    ASSUME NEW b \in Bases
    PROVE  NextSequence(b) = Succ(b.seq)
<1>1. NoBase.seq = 0
  BY DEF NoBase
<1>2. Succ(0) = 1
  BY DiffAssumption DEF Succ
<1> QED BY <1>1, <1>2 DEF NextSequence, Succ

(* A number below the width counts up, and past it starts again at 1.        *)
LEMMA SuccCases ==
    ASSUME NEW s \in 0 .. SeqWidth - 1
    PROVE  /\ Succ(s) \in 1 .. SeqWidth - 1
           /\ Succ(s) = IF s = SeqWidth - 1 THEN 1 ELSE s + 1
<1>1. SeqWidth \in Nat /\ SeqWidth >= 2
  BY DiffAssumption
<1>2. CASE s = SeqWidth - 1
  <2>1. s + 1 = SeqWidth /\ SeqWidth % SeqWidth = 0
    BY <1>1, <1>2
  <2> QED BY <1>1, <1>2, <2>1 DEF Succ
<1>3. CASE s # SeqWidth - 1
  <2>1. s + 1 \in 0 .. SeqWidth - 1
    BY <1>1, <1>3
  <2>2. (s + 1) % SeqWidth = s + 1
    BY <1>1, <2>1
  <2> QED BY <1>1, <1>3, <2>1, <2>2 DEF Succ
<1> QED BY <1>2, <1>3

(* As long as fewer frames than the numbers there are were sent, no number   *)
(* comes back.                                                               *)
LEMMA AdvanceFacts ==
    ASSUME NEW s \in 0 .. SeqWidth - 1, NEW k \in 0 .. SeqWidth - 1
    PROVE  /\ Advance(s, k) \in 0 .. SeqWidth - 1
           /\ k = 0 => Advance(s, k) = s
           /\ k = 1 => Advance(s, k) = Succ(s)
           /\ k < SeqWidth - 1 => Succ(Advance(s, k)) = Advance(s, k + 1)
           /\ 0 < k /\ k < SeqWidth - 1 => Advance(s, k) # s
<1>1. SeqWidth \in Nat /\ SeqWidth >= 2
  BY DiffAssumption
<1>2. Advance(s, k) \in 0 .. SeqWidth - 1
  BY <1>1 DEF Advance
<1>3. Succ(Advance(s, k)) = IF Advance(s, k) = SeqWidth - 1 THEN 1 ELSE Advance(s, k) + 1
  BY <1>2, SuccCases
<1>4. Succ(s) = IF s = SeqWidth - 1 THEN 1 ELSE s + 1
  BY SuccCases
<1> QED BY <1>1, <1>2, <1>3, <1>4 DEF Advance

-----------------------------------------------------------------------------
(* Diffs                                                                     *)

(* The bytes payloads are made of.                                            *)
Cells == UNION {{p[i] : i \in DOMAIN p} : p \in Payloads}

(* Payloads are sequences of cells, as PayloadsAssumption says.               *)
LEMMA PayloadsAreSequences == Payloads \cup {<<>>} \subseteq Seq(Cells)
<1>1. ASSUME NEW p \in Payloads PROVE p \in Seq(Cells)
  <2>1. p \in Seq({p[i] : i \in DOMAIN p})
    BY PayloadsAssumption
  <2>2. {p[i] : i \in DOMAIN p} \subseteq Cells
    BY DEF Cells
  <2> DEFINE P == {p[i] : i \in DOMAIN p}
  <2> HIDE DEF P
  <2>3. p \in Seq(P) /\ P \subseteq Cells
    BY <2>1, <2>2 DEF P
  <2> QED BY <2>3
<1>2. <<>> \in Seq(Cells)
  OBVIOUS
<1> QED BY <1>1, <1>2

(* One block more.                                                            *)
LEMMA TimesNext ==
    ASSUME NEW k \in Nat, NEW m \in Nat
    PROVE  k * m \in Nat /\ (k + 1) * m = k * m + m
  OBVIOUS

(* Every position lies in a block.                                           *)
LEMMA BlockOfPosition ==
    ASSUME NEW n \in Nat
    PROVE  \E k \in 0 .. n : k * ChunkSize <= n /\ n < k * ChunkSize + ChunkSize
<1>0. ChunkSize \in Nat /\ ChunkSize >= 1
  BY DiffAssumption
<1> DEFINE T == {m \in 0 .. n : \E k \in 0 .. m :
                    k * ChunkSize <= m /\ m < k * ChunkSize + ChunkSize}
<1>1. 0 \in T
  BY <1>0
<1>2. ASSUME NEW m \in 0 .. n - 1, m \in T PROVE m + 1 \in T
  <2>1. PICK k \in 0 .. m : k * ChunkSize <= m /\ m < k * ChunkSize + ChunkSize
    BY <1>2
  <2>2. k \in Nat /\ k * ChunkSize \in Nat /\ (k + 1) * ChunkSize = k * ChunkSize + ChunkSize
    BY <1>0, <2>1, TimesNext
  <2>3. m + 1 \in 0 .. n /\ k \in 0 .. m + 1 /\ k + 1 \in 0 .. m + 1
    BY <2>1
  <2>4. CASE m + 1 < k * ChunkSize + ChunkSize
    <3>1. k * ChunkSize <= m + 1
      BY <2>1, <2>2
    <3> QED BY <2>3, <2>4, <3>1
  <2>5. CASE ~(m + 1 < k * ChunkSize + ChunkSize)
    <3> DEFINE j == k + 1
               o == j * ChunkSize
    <3>1. j \in 0 .. m + 1 /\ o = k * ChunkSize + ChunkSize
      BY <2>2, <2>3
    <3>2. o <= m + 1 /\ m + 1 < o + ChunkSize
      BY <1>0, <2>1, <2>2, <2>5, <3>1
    <3> QED BY <2>3, <3>1, <3>2
  <2> QED BY <2>4, <2>5
<1>3. \A m \in 0 .. n : m \in T
  <2> HIDE DEF T
  <2> QED BY <1>1, <1>2, CountingUp
<1> QED BY <1>3

(* The block at an offset holds the cells of its range.                      *)
LEMMA BlockFacts ==
    ASSUME NEW S, NEW d \in Seq(S), NEW o \in Nat
    PROVE  /\ Len(BlockAt(d, o)) \in Nat
           /\ \A i \in Nat : i > o => (i - o <= Len(BlockAt(d, o)) <=> i <= o + ChunkSize /\ i <= Len(d))
           /\ \A i \in Nat : i > o /\ i <= o + ChunkSize /\ i <= Len(d) => BlockAt(d, o)[i - o] = d[i]
           /\ o < Len(d) => o + Len(BlockAt(d, o)) <= Len(d)
<1>0. ChunkSize \in Nat /\ ChunkSize >= 1 /\ Len(d) \in Nat
  BY DiffAssumption
<1> DEFINE e == Smaller(o + ChunkSize, Len(d))
<1>1. e \in Nat /\ e <= Len(d) /\ e <= o + ChunkSize /\ (e = Len(d) \/ e = o + ChunkSize)
  BY <1>0 DEF Smaller
<1>2. BlockAt(d, o) = SubSeq(d, o + 1, e)
  BY DEF BlockAt
<1> HIDE DEF e
<1>3. CASE o + 1 <= e
  <2>1. /\ SubSeq(d, o + 1, e) \in Seq(S) /\ Len(SubSeq(d, o + 1, e)) = e - o
        /\ \A i \in 1 .. e - o : SubSeq(d, o + 1, e)[i] = d[o + i]
    BY <1>0, <1>1, <1>3
  <2>2. \A i \in Nat : i > o /\ i <= o + ChunkSize /\ i <= Len(d) => BlockAt(d, o)[i - o] = d[i]
    <3> SUFFICES ASSUME NEW i \in Nat, i > o, i <= o + ChunkSize, i <= Len(d)
                 PROVE  BlockAt(d, o)[i - o] = d[i]
      OBVIOUS
    <3>1. i - o \in 1 .. e - o /\ o + (i - o) = i
      BY <1>0, <1>1
    <3> QED BY <1>2, <2>1, <3>1
  <2>3. Len(BlockAt(d, o)) = e - o
    BY <1>2, <2>1
  <2>4. Len(BlockAt(d, o)) \in Nat /\ o + Len(BlockAt(d, o)) <= Len(d)
    BY <1>0, <1>1, <1>3, <2>3
  <2>5. \A i \in Nat : i > o => (i - o <= e - o <=> i <= o + ChunkSize /\ i <= Len(d))
    BY <1>0, <1>1, <1>3
  <2> QED BY <2>2, <2>3, <2>4, <2>5
<1>4. CASE ~(o + 1 <= e)
  <2>1. SubSeq(d, o + 1, e) = <<>>
    BY <1>0, <1>1, <1>4
  <2> QED BY <1>0, <1>1, <1>2, <1>4, <2>1
<1> QED BY <1>3, <1>4
(* Every cell lies in a block that starts before the end.                    *)
LEMMA OffsetOfPosition ==
    ASSUME NEW S, NEW d \in Seq(S)
    PROVE  /\ \A o \in Offsets(d) : o \in Nat /\ o < Len(d)
           /\ \A i \in 1 .. Len(d) : \E o \in Offsets(d) : o < i /\ i <= o + ChunkSize
<1>0. ChunkSize \in Nat /\ ChunkSize >= 1 /\ Len(d) \in Nat
  BY DiffAssumption
<1>1. \A k \in 0 .. Len(d) : k * ChunkSize \in Nat
  BY <1>0
<1>2. \A o \in Offsets(d) : o \in Nat /\ o < Len(d)
  BY <1>1 DEF Offsets
<1>3. ASSUME NEW i \in 1 .. Len(d)
      PROVE  \E o \in Offsets(d) : o < i /\ i <= o + ChunkSize
  <2> DEFINE n == i - 1
  <2>1. n \in Nat
    BY <1>0
  <2> HIDE DEF n
  <2>2. PICK k \in 0 .. n : k * ChunkSize <= n /\ n < k * ChunkSize + ChunkSize
    BY <2>1, BlockOfPosition
  <2>3. k \in 0 .. Len(d)
    BY <1>0, <2>1 DEF n
  <2> DEFINE o == k * ChunkSize
  <2>4. o \in Nat /\ o <= n /\ n < o + ChunkSize
    BY <1>1, <2>2, <2>3
  <2>5. o \in {j * ChunkSize : j \in 0 .. Len(d)}
    BY <2>3
  <2> HIDE DEF o
  <2>6. o < Len(d) /\ o < i /\ i <= o + ChunkSize
    BY <1>0, <2>4 DEF n
  <2> QED BY <2>5, <2>6 DEF Offsets
<1> QED BY <1>2, <1>3

(* Where the blocks of two payloads agree, their cells do.                   *)
LEMMA SameBlock ==
    ASSUME NEW S, NEW old \in Seq(S), NEW new \in Seq(S), NEW o \in Nat,
           NEW i \in 1 .. Len(new), o < i, i <= o + ChunkSize,
           BlockAt(new, o) = BlockAt(old, o)
    PROVE  i <= Len(old) /\ old[i] = new[i]
<1>1. i \in Nat /\ i > o /\ i <= Len(new)
  OBVIOUS
<1>2. i - o <= Len(BlockAt(new, o)) /\ BlockAt(new, o)[i - o] = new[i]
  BY <1>1, BlockFacts
<1>3. i - o <= Len(BlockAt(old, o))
  BY <1>2
<1>4. i <= Len(old)
  BY <1>1, <1>3, BlockFacts
<1>5. BlockAt(old, o)[i - o] = old[i]
  BY <1>1, <1>4, BlockFacts
<1> QED BY <1>2, <1>4, <1>5

(* The changed blocks, laid over the old payload, give the new one.          *)
LEMMA ChunksExact ==
    ASSUME NEW S, NEW old \in Seq(S), NEW new \in Seq(S)
    PROVE  LET chunks == ComputeDiffChunks(old, new)
           IN  /\ Overlay(old, Len(new), chunks) = new
               /\ \A c \in chunks : c.offset + Len(c.data) <= Len(new)
               /\ chunks = {} /\ Len(new) = Len(old) => old = new
<1> DEFINE chunks == ComputeDiffChunks(old, new)
<1>0. Len(new) \in Nat /\ Len(old) \in Nat /\ ChunkSize \in Nat
  BY DiffAssumption
<1>1. ASSUME NEW c \in chunks
      PROVE  /\ c.offset \in Nat /\ c.offset < Len(new) /\ c.data = BlockAt(new, c.offset)
             /\ Len(c.data) \in Nat
             /\ c.offset + Len(c.data) <= Len(new)
             /\ \A i \in 1 .. Len(new) :
                   i - 1 \in c.offset .. (c.offset + Len(c.data) - 1) => c.data[i - c.offset] = new[i]
  <2>1. PICK o \in Offsets(new) : c = [offset |-> o, data |-> BlockAt(new, o)]
    BY DEF ComputeDiffChunks
  <2>2. o \in Nat /\ o < Len(new) /\ c.offset = o /\ c.data = BlockAt(new, o)
    BY <2>1, OffsetOfPosition
  <2> DEFINE n == Len(BlockAt(new, o))
  <2>3. n \in Nat /\ o + n <= Len(new)
    BY <2>2, BlockFacts
  <2>4. ASSUME NEW i \in 1 .. Len(new), i - 1 \in o .. (o + n - 1)
        PROVE  BlockAt(new, o)[i - o] = new[i]
    <3>1. i \in Nat /\ i > o /\ i - o <= n
      BY <2>2, <2>3, <2>4
    <3>2. i <= o + ChunkSize /\ i <= Len(new)
      BY <2>2, <3>1, BlockFacts
    <3> QED BY <2>2, <3>1, <3>2, BlockFacts
  <2> QED BY <2>2, <2>3, <2>4
<1>2. ASSUME NEW i \in 1 .. Len(new),
             \A c \in chunks : i - 1 \notin c.offset .. (c.offset + Len(c.data) - 1)
      PROVE  i <= Len(old) /\ old[i] = new[i]
  <2>1. PICK o \in Offsets(new) : o < i /\ i <= o + ChunkSize
    BY OffsetOfPosition
  <2>2. o \in Nat
    BY OffsetOfPosition
  <2>3. i - o <= Len(BlockAt(new, o)) /\ Len(BlockAt(new, o)) \in Nat
    BY <1>0, <2>1, <2>2, BlockFacts
  <2>4. i - 1 \in o .. (o + Len(BlockAt(new, o)) - 1)
    BY <1>0, <2>1, <2>2, <2>3
  <2>5. BlockAt(new, o) = BlockAt(old, o)
    <3> SUFFICES ASSUME BlockAt(new, o) # BlockAt(old, o) PROVE FALSE
      OBVIOUS
    <3> DEFINE c == [offset |-> o, data |-> BlockAt(new, o)]
    <3>1. c \in chunks
      BY DEF ComputeDiffChunks
    <3>2. c.offset = o /\ c.data = BlockAt(new, o)
      OBVIOUS
    <3> HIDE DEF c, chunks
    <3> QED BY <1>2, <2>4, <3>1, <3>2
  <2> QED BY <2>1, <2>2, <2>5, SameBlock
<1>3. Overlay(old, Len(new), chunks) = new
  <2> DEFINE v == Overlay(old, Len(new), chunks)
  <2>1. \A i \in 1 .. Len(new) : v[i] = new[i]
    <3> SUFFICES ASSUME NEW i \in 1 .. Len(new) PROVE v[i] = new[i]
      OBVIOUS
    <3> DEFINE hit == {c \in chunks : i - 1 \in c.offset .. (c.offset + Len(c.data) - 1)}
    <3>1. v[i] = IF hit # {} THEN LET c == CHOOSE x \in hit : TRUE IN c.data[i - c.offset]
                 ELSE IF i <= Len(old) THEN old[i] ELSE ZeroCell
      BY DEF Overlay
    <3>2. \A c \in hit : c.data[i - c.offset] = new[i]
      BY <1>1
    <3>3. hit = {} => i <= Len(old) /\ old[i] = new[i]
      BY <1>2
    <3> HIDE DEF hit, v
    <3>4. CASE hit # {}
      <4>1. (CHOOSE x \in hit : TRUE) \in hit
        BY <3>4
      <4> QED BY <3>1, <3>2, <3>4, <4>1
    <3>5. CASE hit = {}
      BY <3>1, <3>3, <3>5
    <3> QED BY <3>4, <3>5
  <2>2. v = [i \in 1 .. Len(new) |-> v[i]]
    BY DEF Overlay
  <2>3. new = [i \in 1 .. Len(new) |-> new[i]]
    OBVIOUS
  <2>4. v = new
    <3> HIDE DEF v
    <3> QED BY <2>1, <2>2, <2>3
  <2> QED BY <2>4
<1>4. ASSUME chunks = {}, Len(new) = Len(old) PROVE old = new
  <2>1. \A i \in 1 .. Len(new) : old[i] = new[i]
    BY <1>2, <1>4
  <2> QED BY <1>4, <2>1, SeqEqual
<1> QED BY <1>1, <1>3, <1>4

(* dataplane.rs: a diff applies to the base it was made against, and there   *)
(* it expands to the payload it was made of.                                 *)
LEMMA DiffExact ==
    ASSUME NEW b \in Bases, NEW p \in Payloads, ComputeIncremental(b, p) # NoDiff
    PROVE  LET d == ComputeIncremental(b, p)
           IN  /\ b # NoBase /\ d.base = b.seq
               /\ Applies(b, d) /\ ApplyIncremental(b, d) = p
<1> DEFINE chunks == ComputeDiffChunks(b.data, p)
<1>1. b.data \in Seq(Cells) /\ p \in Seq(Cells) /\ b.seq \in Nat
  BY PayloadsAreSequences DEF Bases
<1>2. /\ Overlay(b.data, Len(p), chunks) = p
      /\ \A c \in chunks : c.offset + Len(c.data) <= Len(p)
      /\ chunks = {} /\ Len(p) = Len(b.data) => b.data = p
  BY <1>1, ChunksExact
<1>3. b # NoBase
  BY DEF ComputeIncremental
<1>4. \/ ComputeIncremental(b, p) = Diff(b, p, {}) /\ p = b.data
      \/ ComputeIncremental(b, p) = Diff(b, p, chunks) /\ chunks # {}
  BY <1>2, <1>3 DEF ComputeIncremental
<1> HIDE DEF chunks
<1>5. CASE ComputeIncremental(b, p) = Diff(b, p, {}) /\ p = b.data
  BY <1>3, <1>5 DEF Diff, Applies, ApplyIncremental
<1>6. CASE ComputeIncremental(b, p) = Diff(b, p, chunks) /\ chunks # {}
  BY <1>2, <1>3, <1>6 DEF Diff, Applies, ApplyIncremental
<1> QED BY <1>4, <1>5, <1>6
-----------------------------------------------------------------------------
(* The frames a channel has under way                                        *)

(* Length and elements of the tail of a sequence.                             *)
LEMMA TailFacts ==
    ASSUME NEW S, NEW s \in Seq(S), s # <<>>
    PROVE  /\ Tail(s) \in Seq(S) /\ Len(s) \in Nat /\ Len(s) >= 1 /\ Len(Tail(s)) = Len(s) - 1
           /\ \A i \in 1 .. Len(s) - 1 : Tail(s)[i] = s[i + 1]
           /\ Tail(s) = <<>> <=> Len(s) = 1
           /\ Head(s) = s[1] /\ s[1] \in S
<1>1. /\ Tail(s) \in Seq(S) /\ Len(s) \in Nat /\ Len(s) >= 1 /\ Len(Tail(s)) = Len(s) - 1
      /\ Head(s) = s[1] /\ s[1] \in S
  OBVIOUS
<1>2. \A i \in 1 .. Len(s) - 1 : Tail(s)[i] = s[i + 1]
  OBVIOUS
<1>3. Tail(s) = <<>> <=> Len(Tail(s)) = 0
  BY <1>1, EmptySeq
<1> QED BY <1>1, <1>2, <1>3

(* Length and elements of a sequence with one more element.                   *)
LEMMA AppendFacts ==
    ASSUME NEW S, NEW s \in Seq(S), NEW e \in S
    PROVE  /\ Append(s, e) \in Seq(S) /\ Len(s) \in Nat /\ Len(Append(s, e)) = Len(s) + 1
           /\ \A i \in 1 .. Len(s) : Append(s, e)[i] = s[i]
           /\ Append(s, e)[Len(s) + 1] = e /\ Append(s, e) # <<>>
           /\ s = <<>> <=> Len(s) = 0
  OBVIOUS

(* The fields of a data frame.                                                *)
LEMMA FrameTypes ==
    ASSUME NEW f \in DataFrames
    PROVE  /\ f.kind \in {"plain", "diff"} /\ f.seq \in 0 .. SeqWidth - 1
           /\ f.orig \in Payloads /\ f.conn \in Channels
           /\ Caches(f) \in Bases /\ Caches(f).seq = f.seq
  BY DEF DataFrames, Caches, Base, Bases

(* What a frame made against a base is good for.                             *)
LEMMA MadeFacts ==
    ASSUME NEW f \in DataFrames, NEW b \in Bases, Made(f, b)
    PROVE  /\ b # NoBase /\ f.diff.base = b.seq /\ f.seq = Succ(b.seq)
           /\ Applies(b, f.diff) /\ ApplyIncremental(b, f.diff) = f.orig
<1>1. f.orig \in Payloads
  BY FrameTypes
<1>2. f.diff = ComputeIncremental(b, f.orig) /\ f.diff # NoDiff /\ f.seq = Succ(b.seq)
  BY DEF Made
<1>3. ComputeIncremental(b, f.orig) # NoDiff
  BY <1>2
<1>4. LET d == ComputeIncremental(b, f.orig)
      IN  /\ b # NoBase /\ d.base = b.seq
          /\ Applies(b, d) /\ ApplyIncremental(b, d) = f.orig
  BY <1>1, <1>3, DiffExact
<1> QED BY <1>2, <1>4

(* The frames behind the first one are chained as before.                    *)
LEMMA ChainTail ==
    ASSUME NEW D \in Seq(DataFrames), D # <<>>, NEW sb, NEW r \in Nat, NEW q \in Nat,
           q <= r + 1, Chain(D, sb, r)
    PROVE  Chain(Tail(D), sb, q)
<1> DEFINE T == Tail(D)
           n == Len(D)
<1>1. /\ n \in Nat /\ n >= 1 /\ Len(T) = n - 1 /\ (T = <<>> <=> n = 1)
      /\ \A i \in 1 .. n - 1 : T[i] = D[i + 1]
  BY TailFacts
<1>2. /\ \A i \in 1 .. n : D[i].kind = "plain" => D[i].data = D[i].orig
      /\ Linked(D) /\ TipKnown(D, sb) /\ Bounded(D, r)
  BY DEF Chain
<1>m. MaxRefused \in Nat
  BY DataPlaneAssumption
<1> HIDE DEF T
<1>3. \A i \in 1 .. n - 1 : i + 1 \in 1 .. n
  BY <1>1
<1>4. \A i \in 1 .. Len(T) : T[i].kind = "plain" => T[i].data = T[i].orig
  BY <1>1, <1>2, <1>3
<1>5. Linked(T)
  <2> SUFFICES ASSUME NEW i \in 2 .. Len(T), T[i].kind = "diff" PROVE Made(T[i], Caches(T[i - 1]))
    BY DEF Linked
  <2>1. i \in 1 .. n - 1 /\ i - 1 \in 1 .. n - 1 /\ i + 1 \in 2 .. n /\ (i - 1) + 1 = (i + 1) - 1
    BY <1>1
  <2>2. T[i] = D[i + 1] /\ T[i - 1] = D[(i + 1) - 1]
    BY <1>1, <2>1
  <2> QED BY <1>2, <2>1, <2>2 DEF Linked
<1>6. TipKnown(T, sb)
  <2>1. T # <<>> => D # <<>> /\ T[Len(T)] = D[n]
    BY <1>1
  <2> QED BY <1>2, <2>1 DEF TipKnown
<1>7. Bounded(T, q)
  <2> SUFFICES ASSUME NEW i \in 1 .. Len(T), T[i].kind = "diff" PROVE q + i <= MaxRefused
    BY DEF Bounded
  <2>1. i \in 1 .. n - 1 /\ i + 1 \in 1 .. n /\ T[i] = D[i + 1]
    BY <1>1, <1>3
  <2>2. r + (i + 1) <= MaxRefused
    BY <1>2, <2>1 DEF Bounded
  <2> QED BY <1>m, <2>1, <2>2
<1> QED BY <1>4, <1>5, <1>6, <1>7 DEF Chain, T

(* A frame built against the sender's base goes on with the chain.           *)
Continues(f, old, D, r) ==
    /\ f.kind = "plain" => f.data = f.orig
    /\ f.kind = "diff" => Made(f, old) /\ r + Len(D) < MaxRefused

(* The frame built next keeps the frames under way chained ...                *)
LEMMA ChainAppend ==
    ASSUME NEW D \in Seq(DataFrames), NEW f \in DataFrames, NEW old \in Bases, NEW r \in Nat,
           NEW sb, sb = NoBase \/ sb = Caches(f), Chain(D, old, r), Continues(f, old, D, r)
    PROVE  Chain(Append(D, f), sb, r)
<1> DEFINE A == Append(D, f)
           n == Len(D)
<1>1. /\ n \in Nat /\ Len(A) = n + 1 /\ (D = <<>> <=> n = 0)
      /\ \A i \in 1 .. n : A[i] = D[i]
      /\ A[n + 1] = f /\ A # <<>>
  BY AppendFacts
<1>2. /\ \A i \in 1 .. n : D[i].kind = "plain" => D[i].data = D[i].orig
      /\ Linked(D) /\ TipKnown(D, old) /\ Bounded(D, r)
  BY DEF Chain
<1>m. MaxRefused \in Nat
  BY DataPlaneAssumption
<1> HIDE DEF A
<1>3. \A i \in 1 .. Len(A) : i \in 1 .. n \/ i = n + 1
  BY <1>1
<1>4. \A i \in 1 .. Len(A) : A[i].kind = "plain" => A[i].data = A[i].orig
  BY <1>1, <1>2, <1>3 DEF Continues
<1>5. Linked(A)
  <2> SUFFICES ASSUME NEW i \in 2 .. Len(A), A[i].kind = "diff" PROVE Made(A[i], Caches(A[i - 1]))
    BY DEF Linked
  <2>1. CASE i = n + 1
    <3>1. A[i] = f /\ A[i - 1] = D[n] /\ D # <<>>
      BY <1>1, <2>1
    <3>2. f.kind = "diff" /\ Made(f, old)
      BY <3>1 DEF Continues
    <3>3. old # NoBase
      BY <3>2, MadeFacts
    <3>4. old = Caches(D[n])
      BY <1>2, <3>1, <3>3 DEF TipKnown
    <3> QED BY <3>1, <3>2, <3>4
  <2>2. CASE i # n + 1
    <3>1. i \in 2 .. n /\ i \in 1 .. n /\ i - 1 \in 1 .. n
      BY <1>1, <2>2
    <3>2. A[i] = D[i] /\ A[i - 1] = D[i - 1]
      BY <1>1, <3>1
    <3> QED BY <1>2, <3>1, <3>2 DEF Linked
  <2> QED BY <2>1, <2>2
<1>6. TipKnown(A, sb)
  BY <1>1 DEF TipKnown
<1>7. Bounded(A, r)
  <2> SUFFICES ASSUME NEW i \in 1 .. Len(A), A[i].kind = "diff" PROVE r + i <= MaxRefused
    BY DEF Bounded
  <2>1. CASE i = n + 1
    BY <1>1, <1>m, <2>1 DEF Continues
  <2>2. CASE i \in 1 .. n
    BY <1>1, <1>2, <2>2 DEF Bounded
  <2> QED BY <1>3, <2>1, <2>2
<1> QED BY <1>4, <1>5, <1>6, <1>7 DEF Chain, A
(* ... leaves the receiver where it was in relation to them ...               *)
LEMMA FollowsAppend ==
    ASSUME NEW D \in Seq(DataFrames), NEW f \in DataFrames, NEW old \in Bases, NEW r \in Nat,
           NEW b \in Bases, NEW sb, NEW struck,
           Continues(f, old, D, r), Follows(D, old, b, r, struck)
    PROVE  Follows(Append(D, f), sb, b, r, struck)
<1> DEFINE A == Append(D, f)
           n == Len(D)
<1>1. /\ n \in Nat /\ (D = <<>> <=> n = 0) /\ A # <<>>
      /\ n # 0 => A[1] = D[1]
      /\ n = 0 => A[1] = f
  <2>1. n \in Nat /\ (D = <<>> <=> n = 0) /\ A # <<>> /\ A[n + 1] = f
        /\ \A i \in 1 .. n : A[i] = D[i]
    BY AppendFacts
  <2> HIDE DEF A
  <2> QED BY <2>1
<1>m. MaxRefused \in Nat /\ SeqWidth \in Nat /\ MaxRefused + 1 < SeqWidth
  BY DataPlaneAssumption, DiffAssumption
<1> HIDE DEF A
<1>2. ASSUME n = 0, f.kind = "diff" PROVE Made(f, old) /\ old # NoBase /\ r + 1 <= MaxRefused
  <2>1. Made(f, old) /\ r < MaxRefused
    BY <1>1, <1>2 DEF Continues
  <2> QED BY <1>m, <2>1, MadeFacts
<1>3. CASE InSync(D, old, b, r)
  <2>1. n = 0 /\ f.kind = "diff" => Made(f, b)
    BY <1>1, <1>2, <1>3 DEF InSync
  <2>2. A[1].kind = "diff" => Made(A[1], b)
    BY <1>1, <1>3, <2>1 DEF InSync
  <2> QED BY <1>1, <1>3, <2>2 DEF InSync, Follows, A
<1>4. CASE struck /\ Lagging(D, old, b, r)
  <2>1. ASSUME n = 0, f.kind = "diff"
        PROVE  f.diff.base = Advance(b.seq, r + 1) /\ f.seq = Advance(b.seq, r + 2)
    <3>1. old.seq = Advance(b.seq, r + 1)
      BY <1>1, <1>2, <1>4, <2>1 DEF Lagging
    <3>2. f.diff.base = old.seq /\ f.seq = Succ(old.seq)
      BY <1>2, <2>1, MadeFacts
    <3>3. b.seq \in 0 .. SeqWidth - 1
      BY DEF Bases
    <3> DEFINE k == r + 1
    <3>4. k \in 0 .. SeqWidth - 1 /\ k < SeqWidth - 1 /\ k + 1 = r + 2
      BY <1>2, <1>m, <2>1
    <3> HIDE DEF k
    <3>5. Succ(Advance(b.seq, k)) = Advance(b.seq, k + 1)
      BY <3>3, <3>4, AdvanceFacts
    <3> QED BY <3>1, <3>2, <3>4, <3>5 DEF k
  <2>2. A[1].kind = "diff" => A[1].diff.base = Advance(b.seq, r + 1) /\ A[1].seq = Advance(b.seq, r + 2)
    BY <1>1, <1>4, <2>1 DEF Lagging
  <2> QED BY <1>1, <1>4, <2>2 DEF Lagging, Follows, A
<1> QED BY <1>3, <1>4 DEF Follows

(* ... and leaves no gap in the numbers.                                      *)
LEMMA IntactAppend ==
    ASSUME NEW D \in Seq(DataFrames), NEW f \in DataFrames, NEW old \in Bases, NEW r \in Nat,
           NEW b \in Bases, Continues(f, old, D, r), f.seq = Succ(old.seq),
           Intact(D, old, old, b, r, TRUE)
    PROVE  Intact(Append(D, f), Caches(f), Caches(f), b, r, TRUE)
<1> DEFINE A == Append(D, f)
           n == Len(D)
<1>1. /\ n \in Nat /\ Len(A) = n + 1 /\ (D = <<>> <=> n = 0)
      /\ \A i \in 1 .. n : A[i] = D[i]
      /\ A[n + 1] = f /\ A # <<>>
  BY AppendFacts
<1> HIDE DEF A
<1>2. InSync(D, old, b, r) /\ Unbroken(D, b) /\ old = IF D = <<>> THEN b ELSE Caches(D[n])
  BY DEF Intact
<1>3. InSync(A, Caches(f), b, r)
  <2>1. n # 0 => A[1] = D[1]
    BY <1>1
  <2>2. n = 0 => A[1] = f
    BY <1>1
  <2>3. A[1].kind = "diff" => Made(A[1], b)
    BY <1>1, <1>2, <2>1, <2>2 DEF InSync, Continues
  <2> QED BY <1>1, <1>2, <2>3 DEF InSync
<1>4. Unbroken(A, b)
  <2>1. A[1].seq = Succ(b.seq)
    <3>1. CASE n = 0
      BY <1>1, <1>2, <3>1
    <3>2. CASE n # 0
      BY <1>1, <1>2, <3>2 DEF Unbroken
    <3> QED BY <3>1, <3>2
  <2>2. ASSUME NEW i \in 2 .. Len(A) PROVE A[i].seq = Succ(A[i - 1].seq)
    <3>1. CASE i = n + 1
      <4>1. A[i] = f /\ A[i - 1] = D[n] /\ D # <<>>
        BY <1>1, <3>1
      <4>2. old.seq = D[n].seq
        BY <1>2, <4>1 DEF Caches, Base
      <4> QED BY <4>1, <4>2
    <3>2. CASE i # n + 1
      <4>1. i \in 2 .. n /\ A[i] = D[i] /\ A[i - 1] = D[i - 1]
        BY <1>1, <3>2
      <4> QED BY <1>2, <4>1 DEF Unbroken
    <3> QED BY <3>1, <3>2
  <2> QED BY <2>1, <2>2 DEF Unbroken
<1>5. Caches(f) = IF A = <<>> THEN b ELSE Caches(A[Len(A)])
  BY <1>1
<1> QED BY <1>3, <1>4, <1>5 DEF Intact, A

(* A delivered frame leaves its payload as the base the next was made with.  *)
LEMMA DeliveredTail ==
    ASSUME NEW D \in Seq(DataFrames), D # <<>>, NEW sb, NEW r, Chain(D, sb, r)
    PROVE  InSync(Tail(D), sb, Caches(D[1]), 0)
<1> DEFINE T == Tail(D)
           n == Len(D)
<1>1. /\ n \in Nat /\ n >= 1 /\ Len(T) = n - 1 /\ (T = <<>> <=> n = 1)
      /\ \A i \in 1 .. n - 1 : T[i] = D[i + 1]
  BY TailFacts
<1> HIDE DEF T
<1>2. T # <<>> => T[1] = D[2] /\ 2 \in 2 .. n /\ 2 - 1 = 1
  BY <1>1
<1>3. T # <<>> /\ T[1].kind = "diff" => Made(T[1], Caches(D[1]))
  BY <1>2 DEF Chain, Linked
<1>4. T = <<>> /\ sb # NoBase => sb = Caches(D[1])
  BY <1>1 DEF Chain, TipKnown
<1> QED BY <1>3, <1>4 DEF InSync, T

(* Plain frames need no base.                                                 *)
LEMMA PlainFollows ==
    ASSUME NEW D, AllPlain(D), Len(D) \in Nat, D # <<>> => Len(D) >= 1, NEW b, NEW r
    PROVE  Lagging(D, NoBase, b, r) /\ InSync(D, NoBase, b, 0)
<1>1. D # <<>> => 1 \in 1 .. Len(D)
  OBVIOUS
<1>2. D # <<>> => D[1].kind = "plain"
  BY <1>1 DEF AllPlain
<1> QED BY <1>2 DEF Lagging, InSync

(* What is left of plain frames is plain.                                     *)
LEMMA PlainTail ==
    ASSUME NEW D \in Seq(DataFrames), D # <<>>, AllPlain(D)
    PROVE  AllPlain(Tail(D))
<1>1. /\ Len(D) \in Nat /\ Len(Tail(D)) = Len(D) - 1
      /\ \A i \in 1 .. Len(D) - 1 : Tail(D)[i] = D[i + 1]
  BY TailFacts
<1>2. \A i \in 1 .. Len(D) - 1 : i + 1 \in 1 .. Len(D)
  BY <1>1
<1> QED BY <1>1, <1>2 DEF AllPlain

(* A base that lags by fewer frames than there are numbers never passes for  *)
(* the right one, and it lags by one more after the refusal.                 *)
LEMMA RefusedTail ==
    ASSUME NEW D \in Seq(DataFrames), D # <<>>, NEW sb, NEW r \in Nat, NEW b \in Bases,
           Chain(D, sb, r), Lagging(D, sb, b, r), D[1].kind = "diff"
    PROVE  /\ ~Applies(b, D[1].diff) /\ r + 1 <= MaxRefused
           /\ Lagging(Tail(D), sb, b, r + 1)
<1> DEFINE T == Tail(D)
           n == Len(D)
           q == r + 1
<1>1. /\ n \in Nat /\ n >= 1 /\ Len(T) = n - 1 /\ (T = <<>> <=> n = 1)
      /\ \A i \in 1 .. n - 1 : T[i] = D[i + 1]
  BY TailFacts
<1>m. MaxRefused \in Nat /\ SeqWidth \in Nat /\ MaxRefused + 1 < SeqWidth
  BY DataPlaneAssumption, DiffAssumption
<1>b. b.seq \in 0 .. SeqWidth - 1
  BY DEF Bases
<1>2. D[1].diff.base = Advance(b.seq, r + 1) /\ D[1].seq = Advance(b.seq, r + 2)
  BY DEF Lagging
<1>3. r + 1 <= MaxRefused
  <2>1. 1 \in 1 .. n
    BY <1>1
  <2> QED BY <2>1 DEF Chain, Bounded
<1>4. ~Applies(b, D[1].diff)
  <2>1. q \in 0 .. SeqWidth - 1 /\ 0 < q /\ q < SeqWidth - 1
    BY <1>3, <1>m
  <2> HIDE DEF q
  <2>2. Advance(b.seq, q) # b.seq
    BY <1>b, <2>1, AdvanceFacts
  <2> QED BY <1>2, <2>2 DEF Applies, q
<1> HIDE DEF T
<1>5. ASSUME T # <<>>, T[1].kind = "diff"
      PROVE  T[1].diff.base = Advance(b.seq, q + 1) /\ T[1].seq = Advance(b.seq, q + 2)
  <2>1. T[1] = D[2] /\ 2 \in 2 .. n /\ 2 \in 1 .. n /\ 2 - 1 = 1
    BY <1>1, <1>5
  <2>2. Made(T[1], Caches(D[1])) /\ r + 2 <= MaxRefused
    BY <1>5, <2>1 DEF Chain, Linked, Bounded
  <2>3. D[1] \in DataFrames /\ T[1] \in DataFrames
    BY <1>1, <2>1
  <2>4. T[1].diff.base = D[1].seq /\ T[1].seq = Succ(D[1].seq)
    <3>1. Caches(D[1]) \in Bases /\ Caches(D[1]).seq = D[1].seq
      BY <2>3, FrameTypes
    <3> QED BY <2>2, <2>3, <3>1, MadeFacts
  <2> DEFINE k == r + 2
  <2>5. k \in 0 .. SeqWidth - 1 /\ k < SeqWidth - 1 /\ q + 1 = k /\ q + 2 = k + 1
    BY <1>m, <2>2
  <2>6. D[1].seq = Advance(b.seq, k)
    BY <1>2
  <2> HIDE DEF k, q
  <2>7. Succ(Advance(b.seq, k)) = Advance(b.seq, k + 1)
    BY <1>b, <2>5, AdvanceFacts
  <2> QED BY <2>4, <2>5, <2>6, <2>7
<1>6. ASSUME T = <<>>, sb # NoBase PROVE sb.seq = Advance(b.seq, q + 1)
  <2>1. sb = Caches(D[1])
    BY <1>1, <1>6 DEF Chain, TipKnown
  <2>2. sb.seq = D[1].seq
    BY <2>1 DEF Caches, Base
  <2>3. q + 1 = r + 2
    OBVIOUS
  <2> QED BY <1>2, <2>2, <2>3
<1>7. Lagging(T, sb, b, q)
  <2> HIDE DEF q
  <2> QED BY <1>5, <1>6 DEF Lagging
<1> QED BY <1>3, <1>4, <1>7 DEF T

(* A lost frame leaves the receiver one number behind.                       *)
LEMMA LostTail ==
    ASSUME NEW D \in Seq(DataFrames), D # <<>>, NEW sb, NEW r, NEW b \in Bases,
           Chain(D, sb, r), InSync(D, sb, b, r), Unbroken(D, b)
    PROVE  Lagging(Tail(D), sb, b, r)
<1> DEFINE T == Tail(D)
           n == Len(D)
<1>1. /\ n \in Nat /\ n >= 1 /\ Len(T) = n - 1 /\ (T = <<>> <=> n = 1)
      /\ \A i \in 1 .. n - 1 : T[i] = D[i + 1]
  BY TailFacts
<1>m. MaxRefused \in Nat /\ SeqWidth \in Nat /\ MaxRefused + 1 < SeqWidth /\ SeqWidth >= 2
  BY DataPlaneAssumption, DiffAssumption
<1>b. b.seq \in 0 .. SeqWidth - 1
  BY DEF Bases
<1>2. r = 0 /\ D[1].seq = Succ(b.seq)
  BY DEF InSync, Unbroken
<1>3. Advance(b.seq, 1) = D[1].seq
  <2>1. 1 \in 0 .. SeqWidth - 1
    BY <1>m
  <2> QED BY <1>2, <1>b, <2>1, AdvanceFacts
<1> HIDE DEF T
<1>4. ASSUME T # <<>>, T[1].kind = "diff"
      PROVE  T[1].diff.base = Advance(b.seq, 1) /\ T[1].seq = Advance(b.seq, 2)
  <2>1. T[1] = D[2] /\ 2 \in 2 .. n /\ 2 \in 1 .. n /\ 2 - 1 = 1
    BY <1>1, <1>4
  <2>2. Made(T[1], Caches(D[1])) /\ r + 2 <= MaxRefused
    BY <1>4, <2>1 DEF Chain, Linked, Bounded
  <2>3. D[1] \in DataFrames /\ T[1] \in DataFrames
    BY <1>1, <2>1
  <2>4. T[1].diff.base = D[1].seq /\ T[1].seq = Succ(D[1].seq)
    <3>1. Caches(D[1]) \in Bases /\ Caches(D[1]).seq = D[1].seq
      BY <2>3, FrameTypes
    <3> QED BY <2>2, <2>3, <3>1, MadeFacts
  <2>5. 1 \in 0 .. SeqWidth - 1 /\ 1 < SeqWidth - 1 /\ 1 + 1 = 2
    BY <1>2, <1>m, <2>2
  <2>6. Succ(Advance(b.seq, 1)) = Advance(b.seq, 1 + 1)
    BY <1>b, <2>5, AdvanceFacts
  <2> QED BY <1>3, <2>4, <2>5, <2>6
<1>5. ASSUME T = <<>>, sb # NoBase PROVE sb.seq = Advance(b.seq, 1)
  <2>1. sb = Caches(D[1])
    BY <1>1, <1>5 DEF Chain, TipKnown
  <2> QED BY <1>3, <2>1 DEF Caches, Base
<1>6. r + 1 = 1 /\ r + 2 = 2
  BY <1>2
<1> QED BY <1>4, <1>5, <1>6 DEF Lagging, T

(* A delivered frame leaves no gap in the numbers.                            *)
LEMMA IntactTail ==
    ASSUME NEW D \in Seq(DataFrames), D # <<>>, NEW sb, NEW r, NEW b, NEW mine, NEW live,
           Chain(D, sb, r), Intact(D, sb, mine, b, r, live)
    PROVE  Intact(Tail(D), sb, mine, Caches(D[1]), 0, live)
<1> DEFINE T == Tail(D)
           n == Len(D)
<1>1. /\ n \in Nat /\ n >= 1 /\ Len(T) = n - 1 /\ (T = <<>> <=> n = 1)
      /\ \A i \in 1 .. n - 1 : T[i] = D[i + 1]
  BY TailFacts
<1>2. InSync(T, sb, Caches(D[1]), 0)
  BY DeliveredTail
<1> HIDE DEF T
<1>3. \A i \in 2 .. n : D[i].seq = Succ(D[i - 1].seq)
  BY DEF Intact, Unbroken
<1>4. Unbroken(T, Caches(D[1]))
  <2>1. T # <<>> => T[1].seq = Succ(Caches(D[1]).seq)
    <3>1. T # <<>> => T[1] = D[2] /\ 2 \in 2 .. n /\ 2 - 1 = 1
      BY <1>1
    <3> QED BY <1>3, <3>1 DEF Caches, Base
  <2>2. ASSUME NEW i \in 2 .. Len(T) PROVE T[i].seq = Succ(T[i - 1].seq)
    <3>1. i \in 1 .. n - 1 /\ i - 1 \in 1 .. n - 1 /\ i + 1 \in 2 .. n /\ (i - 1) + 1 = (i + 1) - 1
      BY <1>1
    <3>2. T[i] = D[i + 1] /\ T[i - 1] = D[(i + 1) - 1]
      BY <1>1, <3>1
    <3> QED BY <1>3, <3>1, <3>2
  <2> QED BY <2>1, <2>2 DEF Unbroken
<1>5. live => mine = IF T = <<>> THEN Caches(D[1]) ELSE Caches(T[Len(T)])
  <2>1. T # <<>> => T[Len(T)] = D[n]
    BY <1>1
  <2> QED BY <1>1, <2>1 DEF Intact
<1> QED BY <1>2, <1>4, <1>5 DEF Intact, T
-----------------------------------------------------------------------------
(* What the steps do to the frames a channel has under way                   *)

(* Unseen(c) as a function of the wire and of what is in hand.                *)
Held(h) == IF h # None /\ h.kind # "close" THEN <<h>> ELSE <<>>
Pending(w, h, c) == DataOf(w, c) \o Held(h)

(* Unseen, before and after a step, in terms of wire and hand.                *)
LEMMA UnseenIs ==
    ASSUME NEW c
    PROVE  /\ Unseen(c) = Pending(wire, hand[c], c)
           /\ Unseen(c)' = Pending(wire', hand'[c], c)
  BY DEF Unseen, InTransit, Held, Pending

(* What is in hand is at most one data frame.                                 *)
LEMMA HeldTyped ==
    /\ Held(None) = <<>> /\ Held(None) \in Seq(DataFrames)
    /\ \A h \in Frames : Held(h) \in Seq(DataFrames)
    /\ \A h \in Frames : Held(h) = Piece(h, h.conn)
    /\ \A h \in DataFrames : Held(h) = <<h>>
<1>1. \A h \in Frames : h # None
  BY DataFrameKinds DEF Frames
<1>2. \A h \in Frames : h.kind # "close" => h \in DataFrames
  BY DataFrameKinds
<1>3. \A h \in DataFrames : h \in Frames /\ h.kind # "close"
  BY DataFrameKinds
<1> HIDE DEF Frames, DataFrames
<1> QED BY <1>1, <1>2, <1>3 DEF Held, Piece

(* What a channel has under way are data frames.                              *)
LEMMA PendingTyped ==
    ASSUME NEW w \in Seq(Frames), NEW h, h = None \/ h \in Frames, NEW c
    PROVE  Pending(w, h, c) \in Seq(DataFrames)
<1>1. DataOf(w, c) \in Seq(DataFrames)
  BY PiecesTyped
<1>2. Held(h) \in Seq(DataFrames)
  BY HeldTyped
<1> QED BY <1>1, <1>2, ConcatFacts DEF Pending

(* Taking the first element of a concatenation.                               *)
LEMMA ConsFacts ==
    ASSUME NEW S, NEW e \in S, NEW s \in Seq(S), NEW t \in Seq(S)
    PROVE  /\ (<<e>> \o s) \o t # <<>>
           /\ ((<<e>> \o s) \o t)[1] = e
           /\ Tail((<<e>> \o s) \o t) = s \o t
           /\ (<<>> \o s) \o t = s \o t
  OBVIOUS

(* The receiver takes the frame at the head of the wire.                     *)
LEMMA PendingTail ==
    ASSUME NEW w \in Seq(Frames), w # <<>>, NEW h, h = None \/ h \in Frames, NEW c
    PROVE  /\ Head(w) \in Frames /\ Tail(w) \in Seq(Frames)
           /\ Pending(w, h, c) \in Seq(DataFrames) /\ Pending(Tail(w), h, c) \in Seq(DataFrames)
           /\ Head(w).conn = c /\ Head(w).kind # "close" =>
                 /\ Pending(w, h, c) # <<>> /\ Pending(w, h, c)[1] = Head(w)
                 /\ Pending(Tail(w), h, c) = Tail(Pending(w, h, c))
           /\ ~(Head(w).conn = c /\ Head(w).kind # "close") =>
                 Pending(Tail(w), h, c) = Pending(w, h, c)
<1> DEFINE f == Head(w)
           T == DataOf(Tail(w), c)
           H == Held(h)
<1>1. f \in Frames /\ Tail(w) \in Seq(Frames) /\ DataOf(w, c) = Piece(f, c) \o T
  BY DataOfTail
<1>2. T \in Seq(DataFrames) /\ H \in Seq(DataFrames)
  BY <1>1, PiecesTyped, HeldTyped
<1>3. Pending(w, h, c) \in Seq(DataFrames) /\ Pending(Tail(w), h, c) \in Seq(DataFrames)
  BY <1>1, PendingTyped
<1>4. Pending(w, h, c) = (Piece(f, c) \o T) \o H /\ Pending(Tail(w), h, c) = T \o H
  BY <1>1 DEF Pending
<1> HIDE DEF T, H, f
<1>5. ASSUME f.conn = c, f.kind # "close"
      PROVE  /\ Pending(w, h, c) # <<>> /\ Pending(w, h, c)[1] = f
             /\ Pending(Tail(w), h, c) = Tail(Pending(w, h, c))
  <2>1. Piece(f, c) = <<f>>
    BY <1>5 DEF Piece
  <2>2. f \in DataFrames
    BY <1>1, <1>5, DataFrameKinds
  <2>3. /\ (<<f>> \o T) \o H # <<>> /\ ((<<f>> \o T) \o H)[1] = f
        /\ Tail((<<f>> \o T) \o H) = T \o H
    BY <1>2, <2>2, ConsFacts
  <2> QED BY <1>4, <2>1, <2>3
<1>6. ASSUME ~(f.conn = c /\ f.kind # "close")
      PROVE  Pending(Tail(w), h, c) = Pending(w, h, c)
  <2>1. Piece(f, c) = <<>>
    BY <1>6 DEF Piece
  <2>2. <<>> \o T = T
    BY <1>2
  <2> QED BY <1>4, <2>1, <2>2
<1> QED BY <1>1, <1>3, <1>5, <1>6 DEF f

(* The sender queues the frame in its hand.                                  *)
LEMMA PendingQueue ==
    ASSUME NEW w \in Seq(Frames), NEW h \in Frames
    PROVE  /\ Pending(Append(w, h), None, h.conn) = Pending(w, h, h.conn)
           /\ \A c : c # h.conn => DataOf(Append(w, h), c) = DataOf(w, c)
<1>1. ASSUME NEW c PROVE DataOf(Append(w, h), c) = DataOf(w, c) \o Piece(h, c)
                         /\ DataOf(w, c) \in Seq(DataFrames) /\ Piece(h, c) \in Seq(DataFrames)
  BY DataOfAppend, PiecesTyped, DataFrameKinds DEF Piece
<1>2. ASSUME NEW S, NEW a \in Seq(S), NEW b \in Seq(S) PROVE (a \o b) \o <<>> = a \o b /\ a \o <<>> = a
  OBVIOUS
<1>3. Pending(Append(w, h), None, h.conn) = Pending(w, h, h.conn)
  <2>1. Held(None) = <<>> /\ Held(h) = Piece(h, h.conn)
    BY HeldTyped
  <2> QED BY <1>1, <1>2, <2>1 DEF Pending
<1>4. ASSUME NEW c, c # h.conn PROVE DataOf(Append(w, h), c) = DataOf(w, c)
  <2>1. Piece(h, c) = <<>>
    BY <1>4 DEF Piece
  <2> QED BY <1>1, <1>2, <2>1
<1> QED BY <1>3, <1>4

(* The sender builds a frame.                                                *)
LEMMA PendingBuild ==
    ASSUME NEW w \in Seq(Frames), NEW f \in DataFrames, NEW c
    PROVE  /\ Pending(w, f, c) = Append(Pending(w, None, c), f)
           /\ Pending(w, None, c) = DataOf(w, c)
<1>1. DataOf(w, c) \in Seq(DataFrames)
  BY PiecesTyped
<1>2. Held(None) = <<>> /\ Held(f) = <<f>>
  BY HeldTyped
<1>3. ASSUME NEW S, NEW a \in Seq(S), NEW e \in S PROVE a \o <<>> = a /\ a \o <<e>> = Append(a, e)
  OBVIOUS
<1> QED BY <1>1, <1>2, <1>3 DEF Pending

(* A closed channel, its close frame at the head, has nothing under way.     *)
LEMMA PendingNone ==
    ASSUME NEW w \in Seq(Frames), NEW c,
           \A i \in 1 .. Len(w) : w[i].conn # c \/ w[i].kind = "close"
    PROVE  \A h : Held(h) = <<>> => Pending(w, h, c) = <<>>
<1>1. DataOf(w, c) = <<>>
  BY DataOfNone
<1>2. <<>> \o <<>> = <<>>
  OBVIOUS
<1> QED BY <1>1, <1>2 DEF Pending

-----------------------------------------------------------------------------
(* The state of a channel                                                    *)

(* The types of what belongs to a channel.                                    *)
LEMMA SendBaseTyped ==
    ASSUME Typed, NEW c \in Channels
    PROVE  /\ base[c] \in Bases /\ cache[c] \in Bases /\ SendBase(c) \in Bases
           /\ NoBase \in Bases /\ refused[c] \in Nat /\ refused[c] \in 0 .. MaxRefused
           /\ hand[c] = None \/ (hand[c] \in Frames /\ hand[c].conn = c)
           /\ Unseen(c) \in Seq(DataFrames)
<1>1. NoBase \in Bases
  BY DiffAssumption DEF NoBase, Bases
<1>2. base[c] \in Bases /\ cache[c] \in Bases /\ refused[c] \in 0 .. MaxRefused
  BY DEF Typed
<1>3. MaxRefused \in Nat
  BY DataPlaneAssumption
<1>4. hand[c] = None \/ (hand[c] \in Frames /\ hand[c].conn = c)
  BY DEF Typed
<1>5. wire \in Seq(Frames)
  BY DEF Typed
<1>6. Unseen(c) \in Seq(DataFrames)
  BY <1>4, <1>5, UnseenIs, PendingTyped
<1>7. SendBase(c) \in Bases
  BY <1>1, <1>2 DEF SendBase
<1>8. refused[c] \in Nat
  BY <1>2, <1>3
<1> QED BY <1>1, <1>2, <1>4, <1>6, <1>7, <1>8

(* What no step touches stays kept.                                          *)
LEMMA ChannelStays ==
    ASSUME NEW c \in Channels, ChannelKept(c), Unseen(c)' = Unseen(c), config' = config,
           base'[c] = base[c], reset'[c] = reset[c], cache'[c] = cache[c],
           refused'[c] = refused[c], owned'[c] = owned[c],
           stopped[c] => stopped'[c], hurt[c] => hurt'[c],
           c \notin config.conns => hand'[c] = hand[c]
    PROVE  ChannelKept(c)'
<1>1. SendBase(c)' = SendBase(c)
  BY DEF SendBase
<1>2. MayDiff' = MayDiff /\ Expands(c)' = Expands(c) /\ Live(c)' = Live(c)
  BY DEF MayDiff, Has, Expands, Live
<1>3. Chain(Unseen(c), SendBase(c), refused[c])'
  BY <1>1 DEF ChannelKept
<1>4. Expands(c)' => Follows(Unseen(c), SendBase(c), cache[c], refused[c], hurt[c])'
  BY <1>1, <1>2 DEF ChannelKept, Follows
<1>5. (MayDiff /\ Expands(c) /\ ~hurt[c])' =>
          Intact(Unseen(c), SendBase(c), base[c], cache[c], refused[c], Live(c))'
  BY <1>1, <1>2 DEF ChannelKept
<1> QED BY <1>2, <1>3, <1>4, <1>5 DEF ChannelKept
-----------------------------------------------------------------------------
(* The sender builds a frame                                                 *)

(* A payload is compressed or it is not.                                      *)
LEMMA CompressionsBoolean ==
    ASSUME NEW len, NEW q \in Compressions(len)
    PROVE  q \in BOOLEAN
  BY DEF Compressions, OneShot

(* What a configuration contains.                                             *)
LEMMA ConfigFacts ==
    ASSUME config \in Configs
    PROVE  /\ \A p \in config.payloads : p \in Payloads
           /\ \A c \in config.conns : c \in Channels
           /\ config.dir \in {"down", "up"}
  BY DataPlaneAssumption DEF Payloads, Channels

(* dataplane.rs build_frame: the frame Build makes is a plain one with its    *)
(* payload or a diff against the base the sender keeps, with the number       *)
(* after it.                                                                  *)
LEMMA FrameBuilt ==
    ASSUME Typed, NEW c \in Channels, NEW p \in Payloads, NEW q \in BOOLEAN, ~AtBound(c)
    PROVE  LET f == Frame(c, SendBase(c), p, q)
           IN  /\ f \in DataFrames /\ f.conn = c /\ f.kind # "close" /\ f # None
               /\ f.orig = p /\ f.seq = Succ(SendBase(c).seq)
               /\ f.squeezed = q /\ f.pos = (IF q THEN enc ELSE 0)
               /\ Caches(f) = Base(NextSequence(SendBase(c)), p)
               /\ Caches(f) \in Bases /\ Caches(f) # NoBase
               /\ ~MayDiff => f.kind = "plain"
               /\ Continues(f, SendBase(c), InTransit(c), refused[c])
<1> DEFINE old == SendBase(c)
           diff == IF MayDiff THEN ComputeIncremental(old, p) ELSE NoDiff
           f == Frame(c, old, p, q)
<1>1. old \in Bases /\ refused[c] \in Nat /\ enc \in 0 .. SeqWidth - 1
  BY SendBaseTyped DEF Typed
<1>2. diff \in Diffs
  <2> HIDE DEF old
  <2> QED BY <1>1 DEF Diffs
<1>3. NextSequence(old) = Succ(old.seq) /\ old.seq \in 0 .. SeqWidth - 1
  BY <1>1, NextIsSucc DEF Bases
<1>4. Succ(old.seq) \in 1 .. SeqWidth - 1 /\ SeqWidth \in Nat /\ SeqWidth >= 2
  BY <1>3, SuccCases, DiffAssumption
<1> HIDE DEF old
<1>5. f = [kind |-> IF diff = NoDiff THEN "plain" ELSE "diff", conn |-> c,
           seq |-> NextSequence(old), diff |-> diff,
           data |-> IF diff = NoDiff THEN p ELSE <<>>,
           squeezed |-> q, pos |-> IF q THEN enc ELSE 0, orig |-> p]
  BY DEF Frame
<1> HIDE DEF diff, f
<1>6. /\ f.kind = (IF diff = NoDiff THEN "plain" ELSE "diff") /\ f.conn = c
      /\ f.seq = Succ(old.seq) /\ f.diff = diff /\ f.squeezed = q /\ f.orig = p
      /\ f.pos = (IF q THEN enc ELSE 0) /\ f.data = (IF diff = NoDiff THEN p ELSE <<>>)
  BY <1>3, <1>5
<1>7. f \in DataFrames
  <2>1. /\ (IF diff = NoDiff THEN "plain" ELSE "diff") \in {"plain", "diff"}
        /\ NextSequence(old) \in 0 .. SeqWidth - 1
        /\ (IF diff = NoDiff THEN p ELSE <<>>) \in Payloads \cup {<<>>}
        /\ (IF q THEN enc ELSE 0) \in 0 .. SeqWidth - 1
    BY <1>1, <1>3, <1>4
  <2> QED BY <1>2, <1>5, <2>1 DEF DataFrames
<1>8. f.kind # "close" /\ f # None /\ Caches(f) \in Bases
  BY <1>7, DataFrameKinds, FrameTypes
<1>9. Caches(f) = Base(NextSequence(old), p) /\ Caches(f) # NoBase
  BY <1>3, <1>4, <1>6 DEF Caches, Base, NoBase
<1>10. ~MayDiff => f.kind = "plain"
  BY <1>6 DEF diff
<1>11. Continues(f, old, InTransit(c), refused[c])
  <2>1. f.kind = "plain" => f.data = f.orig
    BY <1>6
  <2>2. ASSUME f.kind = "diff"
        PROVE  Made(f, old) /\ refused[c] + Len(InTransit(c)) < MaxRefused
    <3>1. diff # NoDiff /\ diff = ComputeIncremental(old, p)
      BY <1>6, <2>2 DEF diff
    <3>2. Made(f, old)
      BY <1>6, <3>1 DEF Made
    <3>3. old # NoBase
      BY <1>1, <1>7, <3>2, MadeFacts
    <3>4. ~(refused[c] + Len(InTransit(c)) >= MaxRefused)
      BY <3>3 DEF AtBound, old
    <3>5. InTransit(c) \in Seq(DataFrames)
      BY PiecesTyped DEF InTransit, Typed
    <3>6. Len(InTransit(c)) \in Nat /\ MaxRefused \in Nat
      BY <3>5, DataPlaneAssumption
    <3> QED BY <1>1, <3>2, <3>4, <3>6
  <2> QED BY <2>1, <2>2 DEF Continues
<1> QED BY <1>6, <1>7, <1>8, <1>9, <1>10, <1>11 DEF f, old
(* A task that has the encoder for itself has one frame in hand at most.      *)
LEMMA OneHand ==
    ASSUME IInv, NEW c \in Channels, NEW d \in Channels, hand[d] # None,
           config.algo = "stream", ~SharedStream, c \in config.conns,
           config.dir = "down" => hand[c] # None
    PROVE  d = c
<1>1. config \in Configs /\ config.dir \in {"down", "up"}
  BY ConfigFacts DEF IInv, Typed
<1>2. CASE config.dir = "down"
  BY <1>2 DEF IInv, HandsKept
<1>3. CASE config.dir = "up"
  <2>1. d \in config.conns
    BY DEF IInv, ChannelKept
  <2> QED BY <1>3, <2>1 DEF SharedStream
<1> QED BY <1>1, <1>2, <1>3

(* Build keeps the invariant; it adds one frame at the end of its channel's.  *)
LEMMA BuildKeeps ==
    ASSUME IInv, NEW c \in Channels, Build(c)
    PROVE  /\ IInv' /\ out' = out /\ hurt' = hurt
           /\ \E f \in DataFrames : Unseen(c)' = Append(Unseen(c), f)
           /\ \A d \in Channels : d # c => Unseen(d)' = Unseen(d)
<1>1. /\ Typed /\ (\A d \in Channels : ChannelKept(d)) /\ QuietKept /\ HandsKept /\ ClosingKept
      /\ CoderKept /\ SoleKept
  BY DEF IInv
<1>2. /\ ~stopped[c] /\ (config.dir = "down" => owned[c]) /\ SenderFree(c) /\ ~AtBound(c)
      /\ reset' = [reset EXCEPT ![c] = FALSE]
      /\ config' = config /\ wire' = wire /\ dec' = dec /\ cache' = cache /\ refused' = refused
      /\ out' = out /\ broken' = broken /\ owned' = owned /\ stopped' = stopped /\ asks' = asks
      /\ lostAsks' = lostAsks /\ skips' = skips /\ hurt' = hurt /\ queued' = queued
  BY DEF Build, receiverVars, faultVars, historyVars
<1>3. PICK p \in config.payloads : BuildFrame(c, p)
  BY DEF Build
<1>4. PICK q \in BOOLEAN :
         /\ hand' = [hand EXCEPT ![c] = Frame(c, SendBase(c), p, q)]
         /\ base' = [base EXCEPT ![c] = IF MayDiff THEN Base(NextSequence(SendBase(c)), p) ELSE @]
         /\ enc' = AfterEncode(q)
  <2>1. \A len : \A q \in Compressions(len) : q \in BOOLEAN
    BY CompressionsBoolean
  <2>2. \E len : \E q \in Compressions(len) :
         /\ hand' = [hand EXCEPT ![c] = Frame(c, SendBase(c), p, q)]
         /\ base' = [base EXCEPT ![c] = IF MayDiff THEN Base(NextSequence(SendBase(c)), p) ELSE @]
         /\ enc' = AfterEncode(q)
    BY <1>3, Zenon DEF BuildFrame
  <2> QED BY <2>1, <2>2, Zenon
<1> DEFINE f == Frame(c, SendBase(c), p, q)
<1>5. config \in Configs /\ p \in Payloads /\ wire \in Seq(Frames) /\ c \in config.conns
  BY <1>1, <1>2, ConfigFacts DEF Typed, ChannelKept
<1>6. hand[c] = None /\ (config.dir = "down" => \A d \in Channels : hand[d] = None)
  BY <1>2, <1>5, ConfigFacts DEF SenderFree
<1>7. /\ f \in DataFrames /\ f.conn = c /\ f.kind # "close" /\ f # None
      /\ f.orig = p /\ f.seq = Succ(SendBase(c).seq)
      /\ f.squeezed = q /\ f.pos = (IF q THEN enc ELSE 0)
      /\ Caches(f) = Base(NextSequence(SendBase(c)), p)
      /\ Caches(f) \in Bases /\ Caches(f) # NoBase
      /\ ~MayDiff => f.kind = "plain"
      /\ Continues(f, SendBase(c), InTransit(c), refused[c])
  BY <1>1, <1>2, <1>5, FrameBuilt
<1> HIDE DEF f
<1>8. /\ hand' = [hand EXCEPT ![c] = f]
      /\ base' = [base EXCEPT ![c] = IF MayDiff THEN Caches(f) ELSE @]
  BY <1>4, <1>7 DEF f
<1>9. /\ DOMAIN hand = Channels /\ base \in [Channels -> Bases] /\ reset \in [Channels -> BOOLEAN]
      /\ SendBase(c) \in Bases /\ cache[c] \in Bases /\ refused[c] \in Nat
  BY <1>1, SendBaseTyped DEF Typed
<1>10. /\ hand'[c] = f /\ \A d \in Channels : d # c => hand'[d] = hand[d]
       /\ base'[c] = (IF MayDiff THEN Caches(f) ELSE base[c])
       /\ \A d \in Channels : d # c => base'[d] = base[d]
       /\ reset'[c] = FALSE /\ \A d \in Channels : d # c => reset'[d] = reset[d]
  BY <1>2, <1>8, <1>9
<1>11. /\ Unseen(c) = InTransit(c) /\ Unseen(c) \in Seq(DataFrames)
       /\ Unseen(c)' = Append(Unseen(c), f)
       /\ \A d \in Channels : d # c => Unseen(d)' = Unseen(d)
  <2>1. Pending(wire, f, c) = Append(Pending(wire, None, c), f) /\ Pending(wire, None, c) = DataOf(wire, c)
    BY <1>5, <1>7, PendingBuild
  <2>2. Unseen(c) = Pending(wire, None, c) /\ Unseen(c)' = Pending(wire, f, c)
    BY <1>2, <1>6, <1>10, UnseenIs
  <2>3. Unseen(c) \in Seq(DataFrames)
    BY <1>1, SendBaseTyped
  <2>4. \A d \in Channels : d # c => Unseen(d)' = Unseen(d)
    BY <1>2, <1>10, UnseenIs
  <2> QED BY <2>1, <2>2, <2>3, <2>4 DEF InTransit
<1>12. MayDiff' = MayDiff /\ Expands(c)' = Expands(c) /\ Live(c)' = Live(c) /\ Live(c)
  BY <1>2 DEF MayDiff, Has, Expands, Live
<1>13. ~MayDiff => base[c] = NoBase
  BY <1>1 DEF ChannelKept
<1>14. /\ SendBase(c)' = base'[c]
       /\ SendBase(c)' = NoBase \/ SendBase(c)' = Caches(f)
  BY <1>10, <1>13 DEF SendBase
<1>15. ChannelKept(c)'
  <2>0. ChannelKept(c) /\ Continues(f, SendBase(c), Unseen(c), refused[c])
    BY <1>1, <1>7, <1>11
  <2>1. Chain(Append(Unseen(c), f), SendBase(c)', refused[c])
    BY <1>7, <1>9, <1>11, <1>14, <2>0, ChainAppend DEF ChannelKept
  <2>2. Expands(c) => Follows(Append(Unseen(c), f), SendBase(c)', cache[c], refused[c], hurt[c])
    BY <1>7, <1>9, <1>11, <2>0, FollowsAppend DEF ChannelKept
  <2>3. ASSUME MayDiff, Expands(c), ~hurt[c]
        PROVE  Intact(Append(Unseen(c), f), Caches(f), Caches(f), cache[c], refused[c], TRUE)
    <3>1. ~reset[c]
      BY <1>1, <2>3 DEF QuietKept
    <3>2. SendBase(c) = base[c]
      BY <3>1 DEF SendBase
    <3>3. Intact(Unseen(c), SendBase(c), SendBase(c), cache[c], refused[c], TRUE)
      BY <1>12, <2>0, <2>3, <3>2 DEF ChannelKept, Intact
    <3> QED BY <1>7, <1>9, <1>11, <2>0, <3>3, IntactAppend
  <2>4. ~MayDiff => AllPlain(Append(Unseen(c), f))
    <3>1. ~MayDiff => f.kind = "plain" /\ AllPlain(Unseen(c))
      BY <1>7, <2>0 DEF ChannelKept
    <3>2. /\ Len(Unseen(c)) \in Nat /\ Len(Append(Unseen(c), f)) = Len(Unseen(c)) + 1
          /\ \A i \in 1 .. Len(Unseen(c)) : Append(Unseen(c), f)[i] = Unseen(c)[i]
          /\ Append(Unseen(c), f)[Len(Unseen(c)) + 1] = f
      BY <1>7, <1>11, AppendFacts
    <3> DEFINE A == Append(Unseen(c), f)
               n == Len(Unseen(c))
    <3> HIDE DEF A, n
    <3>3. \A i \in 1 .. n + 1 : i \in 1 .. n \/ i = n + 1
      BY <3>2 DEF n
    <3> QED BY <3>1, <3>2, <3>3 DEF AllPlain, A, n
  <2>5. ~(config.dir = "up" /\ ~owned[c] /\ ~hurt[c])
    BY <1>2, <2>0 DEF ChannelKept
  <2>6. Chain(Unseen(c), SendBase(c), refused[c])'
    BY <1>2, <1>11, <2>1
  <2>7. Expands(c)' => Follows(Unseen(c), SendBase(c), cache[c], refused[c], hurt[c])'
    BY <1>2, <1>11, <1>12, <2>2
  <2>8. (MayDiff /\ Expands(c) /\ ~hurt[c])' =>
          Intact(Unseen(c), SendBase(c), base[c], cache[c], refused[c], Live(c))'
    <3>1. MayDiff => SendBase(c)' = Caches(f) /\ base'[c] = Caches(f)
      BY <1>10, <1>14
    <3>2. (MayDiff /\ Expands(c) /\ ~hurt[c])' <=> MayDiff /\ Expands(c) /\ ~hurt[c]
      BY <1>2, <1>12
    <3>3. MayDiff /\ Expands(c) /\ ~hurt[c] =>
            Intact(Append(Unseen(c), f), SendBase(c)', base'[c], cache[c], refused[c], Live(c)')
      BY <1>12, <2>3, <3>1 DEF Intact
    <3> QED BY <1>2, <1>11, <3>2, <3>3
  <2>9. (~MayDiff => base[c] = NoBase /\ AllPlain(Unseen(c)))'
    BY <1>10, <1>11, <1>12, <1>13, <2>4
  <2> QED BY <1>2, <1>5, <2>5, <2>6, <2>7, <2>8, <2>9 DEF ChannelKept
<1>16. \A d \in Channels : ChannelKept(d)'
  <2> SUFFICES ASSUME NEW d \in Channels, d # c PROVE ChannelKept(d)'
    BY <1>15
  <2> QED BY <1>1, <1>2, <1>10, <1>11, ChannelStays
<1>17. Typed'
  <2>1. base' \in [Channels -> Bases] /\ reset' \in [Channels -> BOOLEAN] /\ DOMAIN hand' = Channels
    BY <1>2, <1>7, <1>8, <1>9
  <2>2. \A d \in Channels : hand'[d] # None => hand'[d] \in Frames /\ hand'[d].conn = d
    <3>1. f \in Frames
      BY <1>7, DataFrameKinds
    <3>2. \A d \in Channels : hand[d] # None => hand[d] \in Frames /\ hand[d].conn = d
      BY <1>1 DEF Typed
    <3> QED BY <1>7, <1>10, <3>1, <3>2
  <2>3. enc' \in 0 .. SeqWidth - 1
    <3>1. enc \in 0 .. SeqWidth - 1 /\ SeqWidth \in Nat \ {0, 1}
      BY <1>1, DiffAssumption DEF Typed
    <3>2. (enc + 1) % SeqWidth \in 0 .. SeqWidth - 1
      BY <3>1
    <3> QED BY <1>4, <3>1, <3>2 DEF AfterEncode
  <2> QED BY <1>1, <1>2, <2>1, <2>2, <2>3 DEF Typed
<1>18. QuietKept'
  <2>1. \A d \in Channels : ~reset[d] => ~reset'[d]
    BY <1>10
  <2> QED BY <1>1, <1>2, <2>1 DEF QuietKept, Expands
<1>19. HandsKept'
  BY <1>2, <1>6, <1>10 DEF HandsKept
<1>20. ClosingKept'
  <2>1. ASSUME NEW i \in 1 .. Len(wire), wire[i].kind = "close" PROVE wire[i].conn # c /\ wire[i].conn \in Channels
    BY <1>1, <1>2, <1>5, <2>1, ConfigFacts DEF ClosingKept
  <2> QED BY <1>1, <1>2, <1>7, <1>10, <2>1 DEF ClosingKept
<1>21. CoderKept'
  BY <1>1, <1>2 DEF CoderKept, Coding
<1>21a. SoleKept'
  <2> SUFFICES ASSUME config.algo = "stream", ~SharedStream
               PROVE  /\ (\A d \in Channels : hand'[d] = None) => enc' = queued
                      /\ \A d \in Channels : hand'[d] # None =>
                            /\ Squeezed(hand'[d]) => hand'[d].pos = queued
                            /\ enc' = Step(queued, hand'[d])
    BY <1>2 DEF SoleKept, SharedStream
  <2>2. \A d \in Channels : hand[d] = None
    <3> SUFFICES ASSUME NEW d \in Channels, hand[d] # None PROVE FALSE
      OBVIOUS
    <3>1. CASE config.dir = "down"
      BY <1>6, <3>1
    <3>2. CASE config.dir = "up"
      <4>1. d = c
        BY <1>5, <3>2, OneHand
      <4> QED BY <1>6, <4>1
    <3> QED BY <1>5, <3>1, <3>2, ConfigFacts
  <2>3. enc = queued
    BY <1>1, <2>2 DEF SoleKept
  <2>4. \A d \in Channels : hand'[d] # None => d = c /\ hand'[d] = f
    BY <1>10, <2>2
  <2>5. Squeezed(f) = q
    BY <1>7 DEF Squeezed
  <2>6. (Squeezed(f) => f.pos = enc) /\ enc' = Step(enc, f)
    BY <1>4, <1>7, <2>5 DEF AfterEncode, Step
  <2>7. ~\A d \in Channels : hand'[d] = None
    BY <1>7, <1>10
  <2> QED BY <2>3, <2>4, <2>6, <2>7
<1>22. IInv'
  BY <1>16, <1>17, <1>18, <1>19, <1>20, <1>21, <1>21a DEF IInv
<1> QED BY <1>2, <1>7, <1>11, <1>22
-----------------------------------------------------------------------------
(* The frame in hand enters the outbound queue                               *)

(* Queue keeps the invariant: the frame moves from the hand to the end of     *)
(* the wire and stays the last of its channel.                                *)
LEMMA QueueKeeps ==
    ASSUME IInv, NEW c \in Channels, Queue(c), ~spoilt'
    PROVE  IInv' /\ \A d \in Channels : Unseen(d)' = Unseen(d)
<1>1. /\ Typed /\ (\A d \in Channels : ChannelKept(d)) /\ QuietKept /\ HandsKept /\ ClosingKept
      /\ CoderKept /\ SoleKept
  BY DEF IInv
<1>2. /\ hand[c] # None /\ Len(wire) < WireCapacity
      /\ wire' = Append(wire, hand[c]) /\ hand' = [hand EXCEPT ![c] = None]
      /\ config' = config /\ base' = base /\ reset' = reset /\ enc' = enc
      /\ dec' = dec /\ cache' = cache /\ refused' = refused
      /\ out' = out /\ broken' = broken /\ owned' = owned /\ stopped' = stopped /\ asks' = asks
      /\ lostAsks' = lostAsks /\ skips' = skips /\ hurt' = hurt
      /\ NoteQueued(hand[c])
  BY DEF Queue, receiverVars, faultVars
<1> DEFINE h == hand[c]
           n == Len(wire)
<1>3. h \in Frames /\ h.conn = c /\ wire \in Seq(Frames) /\ DOMAIN hand = Channels
  BY <1>1, <1>2 DEF Typed
<1>4. hand'[c] = None /\ \A d \in Channels : d # c => hand'[d] = hand[d]
  BY <1>2, <1>3
<1> HIDE DEF h
<1>5. wire' = Append(wire, h) /\ hand[c] = h /\ h # None
  BY <1>2 DEF h
<1>6. /\ wire' \in Seq(Frames) /\ n \in Nat /\ Len(wire') = n + 1
      /\ \A i \in 1 .. n : wire'[i] = wire[i]
      /\ wire'[n + 1] = h
  BY <1>3, <1>5, AppendFacts
<1>7. \A d \in Channels : Unseen(d)' = Unseen(d)
  <2>1. /\ Pending(wire', None, c) = Pending(wire, h, c)
        /\ \A d : d # c => DataOf(wire', d) = DataOf(wire, d)
    BY <1>3, <1>5, PendingQueue
  <2>2. Unseen(c)' = Unseen(c)
    BY <1>4, <1>5, <2>1, UnseenIs
  <2>3. ASSUME NEW d \in Channels, d # c PROVE Unseen(d)' = Unseen(d)
    <3>1. Unseen(d) = Pending(wire, hand[d], d) /\ Unseen(d)' = Pending(wire', hand'[d], d)
      BY UnseenIs
    <3>2. DataOf(wire', d) = DataOf(wire, d) /\ hand'[d] = hand[d]
      BY <1>4, <2>1, <2>3
    <3>3. Pending(wire', hand[d], d) = Pending(wire, hand[d], d)
      BY <3>2, Zenon DEF Pending
    <3> QED BY <3>1, <3>2, <3>3
  <2> QED BY <2>2, <2>3
<1>8. c \in config.conns
  BY <1>1, <1>2 DEF ChannelKept
<1>9. \A d \in Channels : ChannelKept(d)'
  <2> SUFFICES ASSUME NEW d \in Channels PROVE ChannelKept(d)'
    OBVIOUS
  <2>1. d \notin config.conns => hand'[d] = hand[d]
    BY <1>4, <1>8
  <2> QED BY <1>1, <1>2, <1>7, <2>1, ChannelStays
<1>9a. /\ queued' \in 0 .. SeqWidth - 1
       /\ config.algo = "stream" => /\ queued' = Step(queued, h)
                                    /\ Squeezed(h) => h.pos = queued
  <2>1. queued' = (IF Streamed(h) THEN (h.pos + 1) % SeqWidth ELSE queued) /\ (Streamed(h) => h.pos = queued)
    BY <1>2, <1>5 DEF NoteQueued
  <2>2. queued \in 0 .. SeqWidth - 1 /\ SeqWidth \in Nat \ {0, 1}
    BY <1>1, DiffAssumption DEF Typed
  <2>3. (queued + 1) % SeqWidth \in 0 .. SeqWidth - 1
    BY <2>2
  <2>4. config.algo = "stream" => (Streamed(h) <=> Squeezed(h))
    BY DEF Streamed, Squeezed
  <2> QED BY <2>1, <2>2, <2>3, <2>4 DEF Step
<1>10. Typed'
  <2>1. DOMAIN hand' = Channels
    BY <1>2, <1>3
  <2>2. \A d \in Channels : hand'[d] # None => hand'[d] \in Frames /\ hand'[d].conn = d
    BY <1>1, <1>4 DEF Typed
  <2>3. Len(wire') <= WireCapacity
    <3>1. WireCapacity \in Nat
      BY DataPlaneAssumption
    <3> QED BY <1>2, <1>6, <3>1
  <2>4. queued' \in 0 .. SeqWidth - 1
    BY <1>9a
  <2> QED BY <1>1, <1>2, <1>6, <2>1, <2>2, <2>3, <2>4 DEF Typed
<1>11. QuietKept'
  BY <1>1, <1>2 DEF QuietKept, Expands
<1>12. HandsKept'
  BY <1>1, <1>2, <1>4 DEF HandsKept
<1>13. ClosingKept'
  <2>1. \A i \in 1 .. Len(wire') : i \in 1 .. n \/ i = n + 1
    BY <1>6
  <2>2. ASSUME NEW i \in 1 .. Len(wire') PROVE wire'[i].conn \in config.conns
    BY <1>1, <1>3, <1>6, <1>8, <2>1 DEF ClosingKept
  <2>3. ASSUME NEW i \in 1 .. Len(wire'), wire'[i].kind = "close"
        PROVE  /\ config.dir = "down" /\ ~owned[wire'[i].conn]
               /\ base[wire'[i].conn] = NoBase /\ hand'[wire'[i].conn] = None
               /\ \A j \in i + 1 .. Len(wire') : wire'[j].conn # wire'[i].conn
    <3>1. CASE i = n + 1
      <4>1. wire'[i] = h /\ h.conn = c /\ h.kind = "close" /\ hand[c].kind = "close"
        BY <1>3, <1>5, <1>6, <2>3, <3>1
      <4>2. config.dir = "down" /\ ~owned[c] /\ base[c] = NoBase
        BY <1>1, <1>2, <4>1 DEF ClosingKept
      <4>3. i + 1 .. Len(wire') = {}
        BY <1>6, <3>1
      <4> QED BY <1>4, <4>1, <4>2, <4>3
    <3>2. CASE i \in 1 .. n
      <4>1. wire'[i] = wire[i] /\ wire[i].kind = "close"
        BY <1>6, <2>3, <3>2
      <4>2. /\ config.dir = "down" /\ ~owned[wire[i].conn] /\ wire[i].conn \in config.conns
            /\ base[wire[i].conn] = NoBase /\ hand[wire[i].conn] = None
            /\ \A j \in i + 1 .. n : wire[j].conn # wire[i].conn
        BY <1>1, <3>2, <4>1 DEF ClosingKept
      <4>3. wire[i].conn # c /\ wire[i].conn \in Channels
        BY <1>1, <1>5, <4>2, ConfigFacts DEF Typed
      <4>4. hand'[wire[i].conn] = None
        BY <1>4, <4>2, <4>3
      <4>5. ASSUME NEW j \in i + 1 .. Len(wire') PROVE wire'[j].conn # wire[i].conn
        <5>1. CASE j = n + 1
          BY <1>3, <1>6, <4>3, <5>1
        <5>2. CASE j # n + 1
          <6>1. j \in 1 .. n /\ j \in i + 1 .. n
            BY <1>6, <3>2, <5>2
          <6> QED BY <1>6, <4>2, <6>1
        <5> QED BY <5>1, <5>2
      <4> QED BY <4>1, <4>2, <4>4, <4>5
    <3> QED BY <2>1, <3>1, <3>2
  <2>4. \A d \in Channels : hand'[d] # None /\ hand'[d].kind = "close" =>
           config.dir = "down" /\ ~owned[d] /\ base[d] = NoBase
    BY <1>1, <1>4 DEF ClosingKept
  <2> QED BY <1>2, <2>2, <2>3, <2>4 DEF ClosingKept
<1>15. CoderKept'
  <2> SUFFICES ASSUME Coding
               PROVE  \E run \in [0 .. Len(wire') -> 0 .. SeqWidth - 1] :
                        /\ run[0] = dec
                        /\ \A i \in 1 .. Len(wire') : /\ run[i] = Step(run[i - 1], wire'[i])
                                                      /\ Squeezed(wire'[i]) => wire'[i].pos = run[i - 1]
                        /\ run[Len(wire')] = queued'
    BY <1>2 DEF CoderKept, Coding
  <2>1. PICK run \in [0 .. n -> 0 .. SeqWidth - 1] :
                        /\ run[0] = dec
                        /\ \A i \in 1 .. n : /\ run[i] = Step(run[i - 1], wire[i])
                                             /\ Squeezed(wire[i]) => wire[i].pos = run[i - 1]
                        /\ run[n] = queued
    BY <1>1 DEF CoderKept
  <2>2. (Squeezed(h) => h.pos = run[n]) /\ queued' = Step(run[n], h)
    BY <1>9a, <2>1 DEF Coding
  <2> DEFINE run2 == [i \in 0 .. n + 1 |-> IF i = n + 1 THEN queued' ELSE run[i]]
  <2>3. /\ run2 \in [0 .. n + 1 -> 0 .. SeqWidth - 1] /\ run2[n + 1] = queued'
        /\ \A i \in 0 .. n : run2[i] = run[i]
    <3>2. \A i \in 0 .. n + 1 : i = n + 1 \/ i \in 0 .. n
      BY <1>6
    <3>3. n + 1 \in 0 .. n + 1 /\ \A i \in 0 .. n : i \in 0 .. n + 1 /\ i # n + 1
      BY <1>6
    <3> QED BY <1>9a, <3>2, <3>3
  <2> HIDE DEF run2
  <2>4. run2[0] = dec
    BY <1>6, <2>1, <2>3
  <2>5. ASSUME NEW i \in 1 .. n + 1
        PROVE  /\ run2[i] = Step(run2[i - 1], wire'[i])
               /\ Squeezed(wire'[i]) => wire'[i].pos = run2[i - 1]
    <3>1. CASE i = n + 1
      <4>1. i - 1 = n /\ n \in 0 .. n
        BY <1>6, <3>1
      <4>2. run2[i] = queued' /\ run2[i - 1] = run[n] /\ wire'[i] = h
        BY <1>6, <2>3, <3>1, <4>1
      <4> QED BY <2>2, <4>2
    <3>2. CASE i # n + 1
      <4>1. i \in 1 .. n /\ i \in 0 .. n /\ i - 1 \in 0 .. n
        BY <1>6, <3>2
      <4>2. run2[i] = run[i] /\ run2[i - 1] = run[i - 1] /\ wire'[i] = wire[i]
        BY <1>6, <2>3, <4>1
      <4> QED BY <2>1, <4>1, <4>2
    <3> QED BY <3>1, <3>2
  <2>7. Len(wire') = n + 1
    BY <1>6
  <2> HIDE DEF n
  <2> QED BY <2>3, <2>4, <2>5, <2>7
<1>16. SoleKept'
  <2> SUFFICES ASSUME config.algo = "stream", ~SharedStream
               PROVE  /\ enc = queued'
                      /\ \A d \in Channels : hand'[d] = None
    BY <1>2 DEF SoleKept, SharedStream
  <2>1. enc = Step(queued, h)
    BY <1>1, <1>5 DEF SoleKept
  <2>2. \A d \in Channels : hand'[d] = None
    <3> SUFFICES ASSUME NEW d \in Channels, d # c, hand[d] # None PROVE FALSE
      BY <1>4
    <3> QED BY <1>2, <1>8, OneHand
  <2> QED BY <1>9a, <2>1, <2>2
<1> QED BY <1>7, <1>9, <1>10, <1>11, <1>12, <1>13, <1>15, <1>16 DEF IInv
-----------------------------------------------------------------------------
(* The frame at the head leaves the wire                                     *)

(* The fragment at the head was encoded with the history the decoder has.     *)
LEMMA HeadInStep ==
    ASSUME IInv, Coding, wire # <<>>, Squeezed(Head(wire))
    PROVE  Head(wire).pos = dec
<1>1. wire \in Seq(Frames) /\ CoderKept
  BY DEF IInv, Typed
<1>2. 1 \in 1 .. Len(wire) /\ Head(wire) = wire[1] /\ 1 - 1 = 0
  BY <1>1
<1>3. PICK run \in [0 .. Len(wire) -> 0 .. SeqWidth - 1] :
         /\ run[0] = dec
         /\ \A i \in 1 .. Len(wire) : Squeezed(wire[i]) => wire[i].pos = run[i - 1]
  BY <1>1 DEF CoderKept
<1> QED BY <1>2, <1>3

(* What any step that takes the frame at the head leaves of wire, hands and   *)
(* coder.                                                                     *)
LEMMA WireTaken ==
    ASSUME IInv, wire # <<>>, wire' = Tail(wire), UNCHANGED <<config, senderVars, owned, queued>>,
           Coding => dec' = Step(dec, Head(wire))
    PROVE  /\ wire' \in Seq(Frames) /\ Len(wire') <= WireCapacity
           /\ Head(wire) \in Frames /\ Head(wire).conn \in config.conns
           /\ \A d \in Channels :
                 IF Head(wire).conn = d /\ Head(wire).kind # "close"
                 THEN /\ Unseen(d) # <<>> /\ Unseen(d)[1] = Head(wire)
                      /\ Unseen(d)' = Tail(Unseen(d))
                 ELSE Unseen(d)' = Unseen(d)
           /\ HandsKept' /\ ClosingKept' /\ CoderKept' /\ SoleKept'
<1>1. Typed /\ HandsKept /\ ClosingKept /\ CoderKept /\ SoleKept
  BY DEF IInv
<1>2. /\ config' = config /\ base' = base /\ reset' = reset /\ hand' = hand /\ enc' = enc
      /\ owned' = owned /\ queued' = queued
  BY DEF senderVars
<1> DEFINE n == Len(wire)
<1>3. /\ wire \in Seq(Frames) /\ wire' \in Seq(Frames) /\ n \in Nat /\ n >= 1 /\ Len(wire') = n - 1
      /\ \A i \in 1 .. n - 1 : wire'[i] = wire[i + 1]
      /\ Head(wire) = wire[1] /\ Head(wire) \in Frames
  BY <1>1, TailFacts DEF Typed
<1>4. Len(wire') <= WireCapacity
  <2>1. WireCapacity \in Nat /\ n <= WireCapacity
    BY <1>1, DataPlaneAssumption DEF Typed
  <2> QED BY <1>3, <2>1
<1>5. 1 \in 1 .. n /\ \A i \in 1 .. n - 1 : i + 1 \in 1 .. n
  BY <1>3
<1>6. Head(wire).conn \in config.conns
  BY <1>1, <1>3, <1>5 DEF ClosingKept
<1>7. ASSUME NEW d \in Channels
      PROVE  IF Head(wire).conn = d /\ Head(wire).kind # "close"
             THEN /\ Unseen(d) # <<>> /\ Unseen(d)[1] = Head(wire)
                  /\ Unseen(d)' = Tail(Unseen(d))
             ELSE Unseen(d)' = Unseen(d)
  <2> DEFINE h == hand[d]
  <2>1. h = None \/ h \in Frames
    BY <1>1, SendBaseTyped
  <2>2. Unseen(d) = Pending(wire, h, d) /\ Unseen(d)' = Pending(Tail(wire), h, d)
    BY <1>2, UnseenIs
  <2> HIDE DEF h
  <2>3. wire \in Seq(Frames)
    BY <1>3
  <2>4. /\ Head(wire).conn = d /\ Head(wire).kind # "close" =>
              /\ Pending(wire, h, d) # <<>> /\ Pending(wire, h, d)[1] = Head(wire)
              /\ Pending(Tail(wire), h, d) = Tail(Pending(wire, h, d))
        /\ ~(Head(wire).conn = d /\ Head(wire).kind # "close") =>
              Pending(Tail(wire), h, d) = Pending(wire, h, d)
    BY <2>1, <2>3, PendingTail
  <2> QED BY <2>2, <2>4
<1>8. HandsKept'
  BY <1>1, <1>2 DEF HandsKept
<1>9. ClosingKept'
  <2>1. ASSUME NEW i \in 1 .. Len(wire')
        PROVE  /\ wire'[i].conn \in config.conns
               /\ wire'[i].kind = "close" =>
                    /\ config.dir = "down" /\ ~owned[wire'[i].conn]
                    /\ base[wire'[i].conn] = NoBase /\ hand[wire'[i].conn] = None
                    /\ \A j \in i + 1 .. Len(wire') : wire'[j].conn # wire'[i].conn
    <3>1. i \in 1 .. n - 1 /\ i + 1 \in 1 .. n /\ wire'[i] = wire[i + 1]
      BY <1>3, <1>5
    <3>2. \A j \in i + 1 .. Len(wire') : wire'[j] = wire[j + 1] /\ j + 1 \in (i + 1) + 1 .. n
      BY <1>3, <3>1
    <3> DEFINE k == i + 1
    <3> HIDE DEF k
    <3>3. /\ wire[k].conn \in config.conns
          /\ wire[k].kind = "close" =>
              /\ config.dir = "down" /\ ~owned[wire[k].conn]
              /\ base[wire[k].conn] = NoBase /\ hand[wire[k].conn] = None
              /\ \A j \in k + 1 .. n : wire[j].conn # wire[k].conn
      BY <1>1, <3>1 DEF ClosingKept, k
    <3> QED BY <3>1, <3>2, <3>3 DEF k
  <2> QED BY <1>1, <1>2, <2>1 DEF ClosingKept
<1>10. CoderKept'
  <2> SUFFICES ASSUME Coding
               PROVE  \E run \in [0 .. Len(wire') -> 0 .. SeqWidth - 1] :
                        /\ run[0] = dec'
                        /\ \A i \in 1 .. Len(wire') : /\ run[i] = Step(run[i - 1], wire'[i])
                                                      /\ Squeezed(wire'[i]) => wire'[i].pos = run[i - 1]
                        /\ run[Len(wire')] = queued
    BY <1>2 DEF CoderKept, Coding
  <2>1. PICK run \in [0 .. n -> 0 .. SeqWidth - 1] :
                        /\ run[0] = dec
                        /\ \A i \in 1 .. n : /\ run[i] = Step(run[i - 1], wire[i])
                                             /\ Squeezed(wire[i]) => wire[i].pos = run[i - 1]
                        /\ run[n] = queued
    BY <1>1 DEF CoderKept
  <2> DEFINE run2 == [i \in 0 .. n - 1 |-> run[i + 1]]
  <2>2. /\ run2 \in [0 .. n - 1 -> 0 .. SeqWidth - 1]
        /\ \A i \in 0 .. n - 1 : run2[i] = run[i + 1]
    <3>1. \A i \in 0 .. n - 1 : i + 1 \in 0 .. n
      BY <1>3
    <3> QED BY <3>1
  <2> HIDE DEF run2
  <2>3. run2[0] = dec'
    <3>1. 0 \in 0 .. n - 1 /\ 0 + 1 = 1 /\ 1 - 1 = 0
      BY <1>3
    <3>2. run2[0] = run[1]
      BY <2>2, <3>1
    <3>3. run[1] = Step(run[0], wire[1])
      BY <1>5, <2>1, <3>1
    <3> QED BY <1>3, <2>1, <3>2, <3>3
  <2>4. ASSUME NEW i \in 1 .. n - 1
        PROVE  /\ run2[i] = Step(run2[i - 1], wire'[i])
               /\ Squeezed(wire'[i]) => wire'[i].pos = run2[i - 1]
    <3>1. i \in 0 .. n - 1 /\ i - 1 \in 0 .. n - 1 /\ i + 1 \in 1 .. n /\ (i - 1) + 1 = (i + 1) - 1
      BY <1>3
    <3>2. run2[i] = run[i + 1] /\ run2[i - 1] = run[(i + 1) - 1] /\ wire'[i] = wire[i + 1]
      BY <1>3, <2>2, <3>1
    <3> DEFINE k == i + 1
    <3> HIDE DEF k
    <3>3. /\ run[k] = Step(run[k - 1], wire[k])
          /\ Squeezed(wire[k]) => wire[k].pos = run[k - 1]
      BY <2>1, <3>1 DEF k
    <3> QED BY <3>2, <3>3 DEF k
  <2>5. run2[n - 1] = run[n] /\ Len(wire') = n - 1
    BY <1>3, <2>2
  <2> DEFINE m == Len(wire')
  <2>6. run2 \in [0 .. m -> 0 .. SeqWidth - 1] /\ run2[m] = run[n] /\ m = n - 1
    BY <2>2, <2>5
  <2> HIDE DEF n, m
  <2>7. /\ run2[0] = dec'
        /\ \A i \in 1 .. m : /\ run2[i] = Step(run2[i - 1], wire'[i])
                             /\ Squeezed(wire'[i]) => wire'[i].pos = run2[i - 1]
        /\ run2[m] = queued
    BY <2>1, <2>3, <2>4, <2>6
  <2> QED BY <2>6, <2>7, Zenon DEF m
<1>11. SoleKept'
  BY <1>1, <1>2 DEF SoleKept, SharedStream
<1> QED BY <1>3, <1>4, <1>6, <1>7, <1>8, <1>9, <1>10, <1>11
-----------------------------------------------------------------------------
(* The receiver expands a frame                                              *)

(* The data frame at the head is the first of its channel.                    *)
LEMMA HeadPending ==
    ASSUME NEW w \in Seq(Frames), w # <<>>, Head(w).kind # "close",
           NEW x, x = None \/ x \in Frames
    PROVE  /\ Pending(w, x, Head(w).conn) # <<>>
           /\ Pending(w, x, Head(w).conn)[1] = Head(w)
<1> DEFINE f == Head(w)
           T == DataOf(Tail(w), f.conn)
           H == Held(x)
<1>1. f \in Frames /\ Tail(w) \in Seq(Frames) /\ DataOf(w, f.conn) = Piece(f, f.conn) \o T
  BY DataOfTail
<1>2. T \in Seq(DataFrames) /\ H \in Seq(DataFrames)
  BY <1>1, PiecesTyped, HeldTyped
<1>3. Piece(f, f.conn) = <<f>>
  BY DEF Piece
<1>4. Pending(w, x, f.conn) = (<<f>> \o T) \o H
  BY <1>1, <1>3 DEF Pending
<1>5. f \in DataFrames
  BY <1>1, DataFrameKinds
<1> HIDE DEF T, H, f
<1>6. (<<f>> \o T) \o H # <<>> /\ ((<<f>> \o T) \o H)[1] = f
  BY <1>2, <1>5, ConsFacts
<1> QED BY <1>4, <1>6 DEF f

(* The same, in terms of the state.                                           *)
LEMMA HeadData ==
    ASSUME IInv, wire # <<>>, Head(wire).kind # "close"
    PROVE  /\ Head(wire) \in DataFrames /\ Head(wire).conn \in Channels
           /\ Head(wire).conn \in config.conns
           /\ Unseen(Head(wire).conn) \in Seq(DataFrames)
           /\ Unseen(Head(wire).conn) # <<>> /\ Unseen(Head(wire).conn)[1] = Head(wire)
<1> DEFINE f == Head(wire)
           k == f.conn
           h == hand[k]
<1>1. wire \in Seq(Frames) /\ Typed /\ ClosingKept
  BY DEF IInv, Typed
<1>2. f \in Frames /\ 1 \in 1 .. Len(wire) /\ f = wire[1]
  <2>1. Len(wire) \in Nat /\ Len(wire) >= 1 /\ f = wire[1] /\ wire[1] \in Frames
    BY <1>1, TailFacts
  <2> QED BY <2>1
<1>3. f \in DataFrames /\ k \in Channels
  BY <1>2, DataFrameKinds
<1>4. k \in config.conns
  BY <1>1, <1>2 DEF ClosingKept
<1>5. Unseen(k) \in Seq(DataFrames) /\ (h = None \/ h \in Frames)
  BY <1>1, <1>3, SendBaseTyped
<1>6. Unseen(k) = Pending(wire, h, k)
  BY UnseenIs
<1>7. Head(wire).conn = k /\ h = hand[k]
  OBVIOUS
<1> HIDE DEF h, k
<1>8. h = None \/ h \in Frames
  BY <1>5
<1>9. Pending(wire, h, k) # <<>> /\ Pending(wire, h, k)[1] = Head(wire)
  BY <1>1, <1>7, <1>8, HeadPending
<1>10. Unseen(k) # <<>> /\ Unseen(k)[1] = f
  BY <1>6, <1>7, <1>8, <1>9
<1> QED BY <1>3, <1>4, <1>5, <1>10 DEF k

(* The history a fragment was compressed with is the one it is decoded with. *)
LEMMA NeverOutOfStep ==
    ASSUME IInv, wire # <<>>, Head(wire).kind # "close", ~Skipped(Head(wire))
    PROVE  InStep(Head(wire)) /\ (Coding => AfterDecode(Head(wire)) = Step(dec, Head(wire)))
<1> DEFINE f == Head(wire)
<1>1. f.conn \in config.conns /\ config \in Configs /\ f.conn \in Channels
  BY HeadData DEF IInv, Typed
<1>2. config.dir \in {"down", "up"}
  BY <1>1, ConfigFacts
<1>3. config.algo = "stream" => Coding
  <2>1. config.dir = "up" => owned[f.conn]
    BY DEF Skipped
  <2> QED BY <1>1, <2>1 DEF Coding
<1>4. config.algo = "stream" /\ f.squeezed => f.pos = dec
  BY <1>3, HeadInStep DEF Squeezed
<1> QED BY <1>4 DEF InStep, AfterDecode, Step, Squeezed, Coding

(* A frame expands to its payload; only on a channel that lost one before is *)
(* it refused.                                                               *)
LEMMA ExpandOutcome ==
    ASSUME IInv, wire # <<>>, Head(wire).kind # "close", ~Skipped(Head(wire)), Expand(Head(wire))
    PROVE  LET f == Head(wire)
               k == f.conn
           IN  \/ Delivered(f, f.orig)
               \/ /\ Refused(f) /\ MayDiff /\ hurt[k]
                  /\ refused[k] + 1 <= MaxRefused
                  /\ Lagging(Tail(Unseen(k)), SendBase(k), cache[k], refused[k] + 1)
<1> DEFINE f == Head(wire)
           k == f.conn
           D == Unseen(k)
<1>1. f \in DataFrames /\ k \in Channels /\ D \in Seq(DataFrames) /\ D # <<>> /\ D[1] = f
  BY HeadData
<1>2. Typed /\ ChannelKept(k) /\ config \in Configs
  BY <1>1 DEF IInv, Typed
<1>3. Chain(D, SendBase(k), refused[k]) /\ f.kind \in {"plain", "diff"}
  BY <1>1, <1>2, FrameTypes DEF ChannelKept
<1>4. 1 \in 1 .. Len(D)
  <2> HIDE DEF D
  <2> QED BY <1>1
<1>5. cache[k] \in Bases /\ refused[k] \in Nat
  BY <1>1, <1>2, SendBaseTyped
<1>6. Expands(k)
  BY DEF Skipped, Expands
<1>7. CASE f.kind = "plain"
  <2>1. f.data = f.orig
    BY <1>1, <1>3, <1>4, <1>7 DEF Chain
  <2> QED BY <1>7, <2>1 DEF Expand
<1>8. CASE f.kind = "diff"
  <2>1. MayDiff
    BY <1>1, <1>2, <1>4, <1>8 DEF ChannelKept, AllPlain
  <2>2. Follows(D, SendBase(k), cache[k], refused[k], hurt[k])
    BY <1>2, <1>6 DEF ChannelKept
  <2>3. CASE InSync(D, SendBase(k), cache[k], refused[k])
    <3>1. Made(f, cache[k])
      BY <1>1, <1>8, <2>3 DEF InSync
    <3>2. Applies(cache[k], f.diff) /\ ApplyIncremental(cache[k], f.diff) = f.orig
      BY <1>1, <1>5, <3>1, MadeFacts
    <3> QED BY <1>8, <3>2 DEF Expand
  <2>4. CASE hurt[k] /\ Lagging(D, SendBase(k), cache[k], refused[k])
    <3> HIDE DEF D
    <3>1. /\ ~Applies(cache[k], D[1].diff) /\ refused[k] + 1 <= MaxRefused
          /\ Lagging(Tail(D), SendBase(k), cache[k], refused[k] + 1)
      BY <1>1, <1>3, <1>5, <1>8, <2>4, RefusedTail
    <3>2. ~Applies(cache[k], f.diff)
      BY <1>1, <3>1
    <3>3. Refused(f)
      BY <1>8, <3>2 DEF Expand
    <3> QED BY <2>1, <2>4, <3>1, <3>3 DEF D
  <2> QED BY <2>2, <2>3, <2>4 DEF Follows
<1> QED BY <1>3, <1>7, <1>8
(* ReceiveData skips the frame at the head, delivers its own payload, or      *)
(* refuses it where a frame was lost before.                                  *)
LEMMA ReceiveOutcome ==
    ASSUME IInv, ReceiveData, ~spoilt'
    PROVE  LET f == Head(wire)
               k == f.conn
           IN  /\ wire # <<>> /\ f.kind # "close" /\ wire' = Tail(wire)
               /\ UNCHANGED <<config, senderVars, owned, stopped, skips, hurt, broken, queued>>
               /\ Coding => dec' = Step(dec, f)
               /\ dec' \in 0 .. SeqWidth - 1
               /\ \/ Skipped(f) /\ UNCHANGED <<cache, refused, out, asks, lostAsks>>
                  \/ ~Skipped(f) /\ Delivered(f, f.orig)
                  \/ /\ ~Skipped(f) /\ Refused(f) /\ MayDiff /\ hurt[k]
                     /\ refused[k] + 1 <= MaxRefused
                     /\ Lagging(Tail(Unseen(k)), SendBase(k), cache[k], refused[k] + 1)
<1> DEFINE f == Head(wire)
<1>1. /\ wire # <<>> /\ f.kind # "close" /\ wire' = Tail(wire)
      /\ UNCHANGED <<config, senderVars, owned, stopped, skips, hurt, queued>>
      /\ Skipped(f) => NoteSkipped(f) /\ UNCHANGED <<dec, cache, refused, out, broken, asks, lostAsks>>
      /\ ~Skipped(f) => ApplyInbound(f)
  BY DEF ReceiveData, receiverVars, historyVars, NoteSkipped
<1>2. f.conn \in config.conns
  BY <1>1, HeadData
<1>3. dec \in 0 .. SeqWidth - 1 /\ (dec + 1) % SeqWidth \in 0 .. SeqWidth - 1
  <2>1. dec \in 0 .. SeqWidth - 1 /\ SeqWidth \in Nat \ {0, 1}
    BY DiffAssumption DEF IInv, Typed
  <2> QED BY <2>1
<1>4. CASE Skipped(f)
  <2>1. ~(Streamed(f) /\ \E d \in config.conns : owned[d])
    BY <1>1, <1>4 DEF NoteSkipped
  <2>2. Coding => ~Squeezed(f)
    BY <1>4, <2>1 DEF Skipped, Coding, Streamed, Squeezed
  <2>3. Coding => dec' = Step(dec, f)
    BY <1>1, <1>4, <2>2 DEF Step
  <2> QED BY <1>1, <1>3, <1>4, <2>3
<1>5. CASE ~Skipped(f)
  <2>1. InStep(f) /\ (Coding => AfterDecode(f) = Step(dec, f))
    BY <1>1, <1>5, NeverOutOfStep
  <2>2. dec' = AfterDecode(f) /\ Expand(f) /\ broken' = broken
    BY <1>1, <1>5, <2>1 DEF ApplyInbound
  <2>3. dec' \in 0 .. SeqWidth - 1
    BY <1>3, <2>2 DEF AfterDecode
  <2>4. \/ Delivered(f, f.orig)
        \/ /\ Refused(f) /\ MayDiff /\ hurt[f.conn]
           /\ refused[f.conn] + 1 <= MaxRefused
           /\ Lagging(Tail(Unseen(f.conn)), SendBase(f.conn), cache[f.conn], refused[f.conn] + 1)
    BY <1>1, <1>5, <2>2, ExpandOutcome
  <2> QED BY <1>1, <1>5, <2>1, <2>2, <2>3, <2>4
<1> QED BY <1>4, <1>5

(* What a taken frame leaves of its own channel.                             *)
LEMMA TakenKept ==
    ASSUME NEW k \in Channels, ChannelKept(k), Unseen(k) \in Seq(DataFrames), Unseen(k) # <<>>,
           Unseen(k)' = Tail(Unseen(k)), refused[k] \in Nat, refused'[k] \in Nat,
           refused'[k] <= refused[k] + 1,
           UNCHANGED <<config, senderVars, owned, stopped>>, hurt[k] => hurt'[k],
           Expands(k) => Follows(Tail(Unseen(k)), SendBase(k), cache'[k], refused'[k], hurt'[k]),
           MayDiff /\ Expands(k) /\ ~hurt'[k] =>
              Intact(Tail(Unseen(k)), SendBase(k), base[k], cache'[k], refused'[k], Live(k))
    PROVE  ChannelKept(k)'
<1>0. config' = config /\ base' = base /\ reset' = reset /\ hand' = hand /\ owned' = owned /\ stopped' = stopped
  BY DEF senderVars
<1>1. SendBase(k)' = SendBase(k) /\ MayDiff' = MayDiff /\ Expands(k)' = Expands(k) /\ Live(k)' = Live(k)
  BY <1>0 DEF SendBase, MayDiff, Has, Expands, Live
<1>2. Chain(Tail(Unseen(k)), SendBase(k), refused'[k])
  <2>1. Chain(Unseen(k), SendBase(k), refused[k])
    BY DEF ChannelKept
  <2> DEFINE D == Unseen(k)
             q == refused'[k]
             r == refused[k]
  <2>2. D \in Seq(DataFrames) /\ D # <<>> /\ q \in Nat /\ r \in Nat /\ q <= r + 1
    OBVIOUS
  <2> HIDE DEF D, q, r
  <2>3. Chain(D, SendBase(k), r)
    BY <2>1 DEF D, r
  <2>4. Chain(Tail(D), SendBase(k), q)
    BY <2>2, <2>3, ChainTail
  <2> QED BY <2>4 DEF D, q
<1>3. ~MayDiff => base[k] = NoBase /\ AllPlain(Tail(Unseen(k)))
  BY PlainTail DEF ChannelKept
<1>4. ~(config.dir = "up" /\ ~owned[k] /\ ~hurt[k])
  BY DEF ChannelKept
<1>5. Chain(Unseen(k), SendBase(k), refused[k])'
  BY <1>1, <1>2
<1>6. (Expands(k) => Follows(Unseen(k), SendBase(k), cache[k], refused[k], hurt[k]))'
  BY <1>1
<1>7. (MayDiff /\ Expands(k) /\ ~hurt[k] =>
          Intact(Unseen(k), SendBase(k), base[k], cache[k], refused[k], Live(k)))'
  BY <1>0, <1>1
<1>8. (~MayDiff => base[k] = NoBase /\ AllPlain(Unseen(k)))'
  BY <1>0, <1>1, <1>3
<1> QED BY <1>0, <1>4, <1>5, <1>6, <1>7, <1>8 DEF ChannelKept
(* A step takes the first frame of channel k, and what becomes of it.        *)
Takes(k) == /\ Unseen(k) # <<>> /\ Unseen(k)' = Tail(Unseen(k))
            /\ \A d \in Channels : d # k => Unseen(d)' = Unseen(d)
Yields(k) == \/ out' = [out EXCEPT ![k] = Unseen(k)[1].orig]
             \/ out' = out /\ hurt[k]
Hurts(k) == hurt' = [hurt EXCEPT ![k] = TRUE]

(* ReceiveData keeps the invariant; it takes the first frame of one channel   *)
(* and delivers its payload, or drops it on a channel that is hurt.           *)
LEMMA ReceiveKeeps ==
    ASSUME IInv, ReceiveData, ~spoilt'
    PROVE  /\ IInv' /\ hurt' = hurt
           /\ \E k \in Channels : Takes(k) /\ Yields(k)
<1> DEFINE f == Head(wire)
<1>0. PICK k : k = f.conn
  OBVIOUS
<1>1. Typed /\ (\A d \in Channels : ChannelKept(d)) /\ QuietKept
  BY DEF IInv
<1>2. /\ wire # <<>> /\ f.kind # "close" /\ wire' = Tail(wire)
      /\ UNCHANGED <<config, senderVars, owned, stopped, skips, hurt, broken, queued>>
      /\ Coding => dec' = Step(dec, f)
      /\ dec' \in 0 .. SeqWidth - 1
      /\ \/ Skipped(f) /\ UNCHANGED <<cache, refused, out, asks, lostAsks>>
         \/ ~Skipped(f) /\ Delivered(f, f.orig)
         \/ /\ ~Skipped(f) /\ Refused(f) /\ MayDiff /\ hurt[k]
            /\ refused[k] + 1 <= MaxRefused
            /\ Lagging(Tail(Unseen(k)), SendBase(k), cache[k], refused[k] + 1)
  BY <1>0, ReceiveOutcome
<1>3. /\ f \in DataFrames /\ k \in Channels /\ k \in config.conns
      /\ Unseen(k) \in Seq(DataFrames) /\ Unseen(k) # <<>> /\ Unseen(k)[1] = f
  BY <1>0, <1>2, HeadData
<1>4. /\ wire' \in Seq(Frames) /\ Len(wire') <= WireCapacity
      /\ \A d \in Channels : d # k => Unseen(d)' = Unseen(d)
      /\ Unseen(k)' = Tail(Unseen(k))
      /\ HandsKept' /\ ClosingKept' /\ CoderKept' /\ SoleKept'
  <2>1. UNCHANGED <<config, senderVars, owned, queued>>
    BY <1>2
  <2>2. /\ wire' \in Seq(Frames) /\ Len(wire') <= WireCapacity
        /\ \A d \in Channels :
                 IF Head(wire).conn = d /\ Head(wire).kind # "close"
                 THEN /\ Unseen(d) # <<>> /\ Unseen(d)[1] = Head(wire)
                      /\ Unseen(d)' = Tail(Unseen(d))
                 ELSE Unseen(d)' = Unseen(d)
        /\ HandsKept' /\ ClosingKept' /\ CoderKept' /\ SoleKept'
    BY <1>2, <2>1, WireTaken
  <2> QED BY <1>0, <1>2, <1>3, <2>2
<1>5. /\ config' = config /\ base' = base /\ reset' = reset /\ hand' = hand /\ enc' = enc
      /\ owned' = owned /\ stopped' = stopped /\ skips' = skips /\ hurt' = hurt /\ broken' = broken
      /\ queued' = queued
  BY <1>2 DEF senderVars
<1>6. /\ cache \in [Channels -> Bases] /\ refused \in [Channels -> 0 .. MaxRefused]
      /\ out \in [Channels -> Payloads \cup {Nothing}] /\ asks \in SUBSET Channels
      /\ lostAsks \in 0 .. MaxLostAsks /\ MaxRefused \in Nat /\ MaxLostAsks \in Nat
  BY <1>1, DataPlaneAssumption DEF Typed
<1>7. refused[k] \in Nat /\ refused[k] \in 0 .. MaxRefused /\ cache[k] \in Bases
  BY <1>3, <1>6
<1>8. Caches(f) \in Bases /\ f.orig \in Payloads
  BY <1>3, FrameTypes
<1>9. /\ \A d \in Channels : d # k => cache'[d] = cache[d] /\ refused'[d] = refused[d]
      /\ cache' \in [Channels -> Bases] /\ refused' \in [Channels -> 0 .. MaxRefused]
      /\ out' \in [Channels -> Payloads \cup {Nothing}]
      /\ asks' \in SUBSET Channels /\ lostAsks' \in 0 .. MaxLostAsks
      /\ asks' \subseteq asks \cup {k} /\ (~hurt[k] => asks' = asks)
      /\ ChannelKept(k)'
  <2>1. CASE Skipped(f) /\ UNCHANGED <<cache, refused, out, asks, lostAsks>>
    <3>1. ~Expands(k)
      BY <1>0, <2>1 DEF Skipped, Expands
    <3>2. ChannelKept(k)'
      <4>1. refused'[k] = refused[k]
        BY <2>1
      <4>2. refused'[k] \in Nat /\ refused'[k] <= refused[k] + 1
        BY <1>7, <4>1
      <4>3. UNCHANGED <<config, senderVars, owned, stopped>>
        BY <1>2
      <4> QED BY <1>1, <1>3, <1>4, <1>5, <1>7, <3>1, <4>2, <4>3, TakenKept
    <3> QED BY <1>6, <2>1, <3>2
  <2>2. CASE ~Skipped(f) /\ Delivered(f, f.orig)
    <3>1. /\ out' = [out EXCEPT ![k] = f.orig] /\ refused' = [refused EXCEPT ![k] = 0]
          /\ cache' = (IF MayDiff THEN [cache EXCEPT ![k] = Base(f.seq, f.orig)] ELSE cache)
          /\ asks' = asks /\ lostAsks' = lostAsks
      BY <1>0, <2>2 DEF Delivered
    <3>2. /\ refused'[k] = 0 /\ cache'[k] = (IF MayDiff THEN Caches(f) ELSE cache[k])
          /\ \A d \in Channels : d # k => cache'[d] = cache[d] /\ refused'[d] = refused[d]
      BY <1>3, <1>6, <3>1 DEF Caches
    <3>3. cache' \in [Channels -> Bases]
      BY <1>6, <1>8, <3>1 DEF Caches
    <3>4. refused' \in [Channels -> 0 .. MaxRefused] /\ out' \in [Channels -> Payloads \cup {Nothing}]
      <4>1. 0 \in 0 .. MaxRefused
        BY <1>6
      <4>2. f.orig \in Payloads \cup {Nothing}
        BY <1>8
      <4> QED BY <1>6, <3>1, <4>1, <4>2
    <3>5. ChannelKept(k)'
      <4>1. Chain(Unseen(k), SendBase(k), refused[k])
        BY <1>1, <1>3 DEF ChannelKept
      <4>2. InSync(Tail(Unseen(k)), SendBase(k), cache'[k], 0)
        <5>1. CASE MayDiff
          BY <1>3, <3>2, <4>1, <5>1, DeliveredTail
        <5>2. CASE ~MayDiff
          <6>1. base[k] = NoBase /\ AllPlain(Tail(Unseen(k)))
            BY <1>1, <1>3, <5>2, PlainTail DEF ChannelKept
          <6>2. SendBase(k) = NoBase
            BY <6>1 DEF SendBase
          <6> DEFINE T == Tail(Unseen(k))
          <6>3. T \in Seq(DataFrames)
            BY <1>3, TailFacts
          <6> HIDE DEF T
          <6>4. Len(T) \in Nat /\ (T # <<>> => Len(T) >= 1)
            BY <6>3
          <6>5. InSync(T, NoBase, cache'[k], 0)
            BY <6>1, <6>4, PlainFollows DEF T
          <6> QED BY <6>2, <6>5 DEF T
        <5> QED BY <5>1, <5>2
      <4>3. MayDiff /\ Expands(k) /\ ~hurt'[k] =>
              Intact(Tail(Unseen(k)), SendBase(k), base[k], cache'[k], 0, Live(k))
        <5> SUFFICES ASSUME MayDiff, Expands(k), ~hurt[k]
                     PROVE  Intact(Tail(Unseen(k)), SendBase(k), base[k], Caches(f), 0, Live(k))
          BY <1>5, <3>2
        <5>1. Intact(Unseen(k), SendBase(k), base[k], cache[k], refused[k], Live(k))
          BY <1>1, <1>3 DEF ChannelKept
        <5> QED BY <1>3, <4>1, <5>1, IntactTail
      <4>4. UNCHANGED <<config, senderVars, owned, stopped>>
        BY <1>2
      <4>5. refused'[k] \in Nat /\ refused'[k] <= refused[k] + 1
        BY <1>7, <3>2
      <4>6. Follows(Tail(Unseen(k)), SendBase(k), cache'[k], refused'[k], hurt'[k])
        BY <3>2, <4>2 DEF Follows
      <4> QED BY <1>1, <1>3, <1>4, <1>5, <1>7, <3>2, <4>3, <4>4, <4>5, <4>6, TakenKept
    <3> QED BY <1>6, <3>1, <3>2, <3>3, <3>4, <3>5
  <2>3. CASE /\ ~Skipped(f) /\ Refused(f) /\ MayDiff /\ hurt[k]
             /\ refused[k] + 1 <= MaxRefused
             /\ Lagging(Tail(Unseen(k)), SendBase(k), cache[k], refused[k] + 1)
    <3>1. /\ refused' = [refused EXCEPT ![k] = @ + 1] /\ out' = out /\ cache' = cache
          /\ asks' = asks \cup {k} \/ asks' = asks
          /\ lostAsks' = lostAsks \/ (lostAsks < MaxLostAsks /\ lostAsks' = lostAsks + 1)
      BY <1>0, <2>3 DEF Refused
    <3>2. refused'[k] = refused[k] + 1 /\ \A d \in Channels : d # k => refused'[d] = refused[d]
      BY <1>3, <1>6, <3>1
    <3>3. refused' \in [Channels -> 0 .. MaxRefused]
      <4>1. refused[k] + 1 \in 0 .. MaxRefused
        BY <1>6, <1>7, <2>3
      <4> QED BY <1>6, <3>1, <4>1
    <3>4. asks' \in SUBSET Channels /\ lostAsks' \in 0 .. MaxLostAsks
      BY <1>3, <1>6, <3>1
    <3>5. ChannelKept(k)'
      <4>1. UNCHANGED <<config, senderVars, owned, stopped>>
        BY <1>2
      <4>2. refused'[k] \in Nat /\ refused'[k] <= refused[k] + 1
        BY <1>7, <3>2
      <4>3. Follows(Tail(Unseen(k)), SendBase(k), cache'[k], refused'[k], hurt'[k])
        BY <1>5, <2>3, <3>1, <3>2 DEF Follows
      <4>4. hurt'[k]
        BY <1>5, <2>3
      <4> QED BY <1>1, <1>3, <1>4, <1>5, <1>7, <4>1, <4>2, <4>3, <4>4, TakenKept
    <3> QED BY <1>6, <2>3, <3>1, <3>2, <3>3, <3>4, <3>5
  <2> QED BY <1>2, <2>1, <2>2, <2>3
<1>10. \A d \in Channels : ChannelKept(d)'
  <2> SUFFICES ASSUME NEW d \in Channels, d # k PROVE ChannelKept(d)'
    BY <1>9
  <2> QED BY <1>1, <1>4, <1>5, <1>9, ChannelStays
<1>11. Typed'
  BY <1>1, <1>2, <1>4, <1>5, <1>9 DEF Typed
<1>12. QuietKept'
  <2>1. \A d \in Channels : ~hurt[d] /\ d \notin asks => d \notin asks'
    BY <1>3, <1>9
  <2> QED BY <1>1, <1>5, <2>1 DEF QuietKept, Expands
<1>13. IInv'
  BY <1>4, <1>10, <1>11, <1>12 DEF IInv
<1>14. \/ out' = [out EXCEPT ![k] = Unseen(k)[1].orig]
       \/ out' = out /\ hurt[k]
  <2>1. CASE Skipped(f) /\ out' = out
    <3>1. config.dir = "up" /\ ~owned[k]
      BY <1>0, <2>1 DEF Skipped
    <3> QED BY <1>1, <1>3, <2>1, <3>1 DEF ChannelKept
  <2>2. CASE Delivered(f, f.orig)
    <3>1. out' = [out EXCEPT ![k] = f.orig]
      BY <1>0, <2>2 DEF Delivered
    <3> QED BY <1>3, <3>1
  <2>3. CASE Refused(f) /\ hurt[k]
    BY <2>3 DEF Refused
  <2> QED BY <1>2, <2>1, <2>2, <2>3
<1>15. Takes(k) /\ Yields(k)
  BY <1>3, <1>4, <1>14 DEF Takes, Yields
<1> QED BY <1>3, <1>5, <1>13, <1>15
-----------------------------------------------------------------------------
(* The reader loses a frame                                                  *)

(* LoseFrame keeps the invariant: the receiver falls behind by one.           *)
LEMMA LoseKeeps ==
    ASSUME IInv, LoseFrame, ~spoilt'
    PROVE  /\ IInv' /\ out' = out
           /\ \E k \in Channels : Takes(k) /\ Hurts(k)
<1> DEFINE f == Head(wire)
<1>0. PICK k : k = f.conn
  OBVIOUS
<1>1. Typed /\ (\A d \in Channels : ChannelKept(d)) /\ QuietKept
  BY DEF IInv
<1>2. /\ wire # <<>> /\ f.kind # "close" /\ wire' = Tail(wire) /\ skips > 0 /\ skips' = skips - 1
      /\ hurt' = [hurt EXCEPT ![k] = TRUE]
      /\ UNCHANGED <<config, senderVars, owned, stopped>>
      /\ config' = config /\ base' = base /\ reset' = reset /\ hand' = hand /\ enc' = enc
      /\ dec' = dec /\ cache' = cache /\ refused' = refused /\ out' = out /\ broken' = broken
      /\ owned' = owned /\ stopped' = stopped /\ asks' = asks /\ lostAsks' = lostAsks
      /\ queued' = queued /\ NoteLost(f)
  BY <1>0 DEF LoseFrame, senderVars, receiverVars, NoteLost
<1>3. ~Streamed(f) /\ (Expands(k) => ~hurt[k])
  BY <1>0, <1>2 DEF NoteLost, Expands
<1>4. /\ f \in DataFrames /\ k \in Channels /\ k \in config.conns
      /\ Unseen(k) \in Seq(DataFrames) /\ Unseen(k) # <<>> /\ Unseen(k)[1] = f
  BY <1>0, <1>2, HeadData
<1>5. /\ wire' \in Seq(Frames) /\ Len(wire') <= WireCapacity
      /\ \A d \in Channels : d # k => Unseen(d)' = Unseen(d)
      /\ Unseen(k)' = Tail(Unseen(k))
      /\ HandsKept' /\ ClosingKept' /\ CoderKept' /\ SoleKept'
  <2>1. UNCHANGED <<config, senderVars, owned, queued>>
    BY <1>2
  <2>2. Coding => dec' = Step(dec, Head(wire))
    BY <1>2, <1>3 DEF Coding, Step, Streamed, Squeezed
  <2>3. /\ wire' \in Seq(Frames) /\ Len(wire') <= WireCapacity
        /\ \A d \in Channels :
                 IF Head(wire).conn = d /\ Head(wire).kind # "close"
                 THEN /\ Unseen(d) # <<>> /\ Unseen(d)[1] = Head(wire)
                      /\ Unseen(d)' = Tail(Unseen(d))
                 ELSE Unseen(d)' = Unseen(d)
        /\ HandsKept' /\ ClosingKept' /\ CoderKept' /\ SoleKept'
    BY <1>2, <2>1, <2>2, WireTaken
  <2> QED BY <1>0, <1>2, <1>4, <2>3
<1>6. /\ hurt \in [Channels -> BOOLEAN] /\ refused[k] \in Nat /\ cache[k] \in Bases
      /\ hurt'[k] = TRUE /\ \A d \in Channels : hurt[d] => hurt'[d]
  <2>1. hurt \in [Channels -> BOOLEAN]
    BY <1>1 DEF Typed
  <2> QED BY <1>1, <1>2, <1>4, <2>1, SendBaseTyped
<1>7. ChannelKept(k)'
  <2>1. Chain(Unseen(k), SendBase(k), refused[k])
    BY <1>1, <1>4 DEF ChannelKept
  <2>2. Expands(k) => Lagging(Tail(Unseen(k)), SendBase(k), cache[k], refused[k])
    <3>1. CASE MayDiff /\ Expands(k)
      <4>1. Intact(Unseen(k), SendBase(k), base[k], cache[k], refused[k], Live(k))
        BY <1>1, <1>3, <1>4, <3>1 DEF ChannelKept
      <4>2. InSync(Unseen(k), SendBase(k), cache[k], refused[k]) /\ Unbroken(Unseen(k), cache[k])
        BY <4>1 DEF Intact
      <4> QED BY <1>4, <1>6, <2>1, <4>2, LostTail
    <3>2. CASE ~MayDiff
      <4>1. base[k] = NoBase /\ AllPlain(Tail(Unseen(k)))
        BY <1>1, <1>4, <3>2, PlainTail DEF ChannelKept
      <4>2. SendBase(k) = NoBase
        BY <4>1 DEF SendBase
      <4> DEFINE T == Tail(Unseen(k))
      <4>3. T \in Seq(DataFrames)
        BY <1>4, TailFacts
      <4> HIDE DEF T
      <4>4. Len(T) \in Nat /\ (T # <<>> => Len(T) >= 1)
        BY <4>3
      <4>5. Lagging(T, NoBase, cache[k], refused[k])
        BY <4>1, <4>4, PlainFollows DEF T
      <4> QED BY <4>2, <4>5 DEF T
    <3> QED BY <3>1, <3>2
  <2>3. Expands(k) => Follows(Tail(Unseen(k)), SendBase(k), cache'[k], refused'[k], hurt'[k])
    BY <1>2, <1>6, <2>2 DEF Follows
  <2>4. hurt'[k] /\ refused'[k] \in Nat /\ refused'[k] <= refused[k] + 1
    BY <1>2, <1>6
  <2>5. UNCHANGED <<config, senderVars, owned, stopped>> /\ (hurt[k] => hurt'[k])
    BY <1>2, <1>6
  <2> QED BY <1>1, <1>4, <1>5, <1>6, <2>3, <2>4, <2>5, TakenKept
<1>8. \A d \in Channels : ChannelKept(d)'
  <2> SUFFICES ASSUME NEW d \in Channels, d # k PROVE ChannelKept(d)'
    BY <1>7
  <2>1. hurt'[d] = hurt[d]
    BY <1>2, <1>6
  <2> QED BY <1>1, <1>2, <1>5, <2>1, ChannelStays
<1>9. Typed'
  <2>1. hurt' \in [Channels -> BOOLEAN]
    BY <1>2, <1>6
  <2> QED BY <1>1, <1>2, <1>5, <2>1 DEF Typed
<1>10. QuietKept'
  <2>1. /\ skips \in Nat /\ config.skips \in Nat /\ skips <= config.skips
        /\ \A c \in Channels : ~hurt[c] => c \notin asks /\ ~reset[c]
    BY <1>1 DEF QuietKept
  <2>2. skips' \in Nat /\ skips' < config.skips /\ skips' <= config.skips
    BY <1>2, <2>1
  <2> QED BY <1>2, <1>6, <2>1, <2>2 DEF QuietKept
<1>11. IInv'
  BY <1>5, <1>8, <1>9, <1>10 DEF IInv
<1>12. Takes(k) /\ Hurts(k)
  BY <1>2, <1>4, <1>5 DEF Takes, Hurts
<1> QED BY <1>2, <1>4, <1>11, <1>12

-----------------------------------------------------------------------------
(* A channel closes                                                          *)

(* TakeClose keeps the invariant: nothing of the channel is under way behind  *)
(* its close frame.                                                           *)
LEMMA TakeCloseKeeps ==
    ASSUME IInv, TakeClose
    PROVE  IInv' /\ \A d \in Channels : Unseen(d)' = Unseen(d)
<1> DEFINE f == Head(wire)
<1>0. PICK k : k = f.conn
  OBVIOUS
<1>1. Typed /\ (\A d \in Channels : ChannelKept(d)) /\ QuietKept /\ ClosingKept
  BY DEF IInv
<1>2. /\ wire # <<>> /\ f.kind = "close" /\ wire' = Tail(wire)
      /\ cache' = [cache EXCEPT ![k] = NoBase] /\ stopped' = [stopped EXCEPT ![k] = TRUE]
      /\ UNCHANGED <<config, senderVars, owned>>
      /\ config' = config /\ base' = base /\ reset' = reset /\ hand' = hand /\ enc' = enc
      /\ dec' = dec /\ refused' = refused /\ out' = out /\ broken' = broken
      /\ owned' = owned /\ asks' = asks /\ lostAsks' = lostAsks /\ skips' = skips /\ hurt' = hurt
      /\ queued' = queued
  BY <1>0 DEF TakeClose, senderVars, faultVars, historyVars
<1>3. /\ wire' \in Seq(Frames) /\ Len(wire') <= WireCapacity
      /\ f \in Frames /\ k \in config.conns
      /\ \A d \in Channels : Unseen(d)' = Unseen(d)
      /\ HandsKept' /\ ClosingKept' /\ CoderKept' /\ SoleKept'
  <2>1. UNCHANGED <<config, senderVars, owned, queued>>
    BY <1>2
  <2>2. dec' = Step(dec, Head(wire))
    BY <1>2 DEF Step, Squeezed
  <2>3. /\ wire' \in Seq(Frames) /\ Len(wire') <= WireCapacity
        /\ Head(wire) \in Frames /\ Head(wire).conn \in config.conns
        /\ \A d \in Channels :
                 IF Head(wire).conn = d /\ Head(wire).kind # "close"
                 THEN /\ Unseen(d) # <<>> /\ Unseen(d)[1] = Head(wire)
                      /\ Unseen(d)' = Tail(Unseen(d))
                 ELSE Unseen(d)' = Unseen(d)
        /\ HandsKept' /\ ClosingKept' /\ CoderKept' /\ SoleKept'
    BY <1>2, <2>1, <2>2, WireTaken
  <2> QED BY <1>0, <1>2, <2>3
<1>4. k \in Channels /\ wire \in Seq(Frames)
  BY <1>1, <1>3, ConfigFacts DEF Typed
<1>5. /\ config.dir = "down" /\ ~owned[k] /\ base[k] = NoBase /\ hand[k] = None
      /\ \A j \in 1 .. Len(wire) : wire[j].conn # k \/ wire[j].kind = "close"
  <2>1. Len(wire) \in Nat /\ Len(wire) >= 1 /\ f = wire[1]
    BY <1>2, <1>4, TailFacts
  <2>2. 1 \in 1 .. Len(wire) /\ \A j \in 1 .. Len(wire) : j = 1 \/ j \in 1 + 1 .. Len(wire)
    BY <2>1
  <2>3. /\ config.dir = "down" /\ ~owned[wire[1].conn]
        /\ base[wire[1].conn] = NoBase /\ hand[wire[1].conn] = None
        /\ \A j \in 1 + 1 .. Len(wire) : wire[j].conn # wire[1].conn
    BY <1>1, <1>2, <2>1, <2>2 DEF ClosingKept
  <2> QED BY <1>0, <1>2, <2>1, <2>2, <2>3
<1>6. Unseen(k) = <<>> /\ SendBase(k) = NoBase
  <2>1. \A h : Held(h) = <<>> => Pending(wire, h, k) = <<>>
    BY <1>4, <1>5, PendingNone
  <2>2. Unseen(k) = Pending(wire, None, k)
    BY <1>5, UnseenIs
  <2> QED BY <1>5, <2>1, <2>2, HeldTyped DEF SendBase
<1>7. /\ cache'[k] = NoBase /\ stopped'[k] = TRUE /\ \A d \in Channels : d # k => cache'[d] = cache[d]
      /\ \A d \in Channels : stopped[d] => stopped'[d]
      /\ cache' \in [Channels -> Bases] /\ stopped' \in [Channels -> BOOLEAN]
  <2>1. cache \in [Channels -> Bases] /\ stopped \in [Channels -> BOOLEAN] /\ NoBase \in Bases
    BY <1>1, <1>4, SendBaseTyped DEF Typed
  <2> QED BY <1>2, <1>4, <2>1
<1>8. ChannelKept(k)'
  <2>1. SendBase(k)' = NoBase /\ Unseen(k)' = <<>> /\ MayDiff' = MayDiff /\ Expands(k)' = Expands(k)
        /\ ~Live(k)' /\ Expands(k)
    BY <1>2, <1>3, <1>4, <1>5, <1>6 DEF SendBase, MayDiff, Has, Expands, Live
  <2>2. Chain(<<>>, NoBase, refused[k])
    BY DEF Chain, Linked, TipKnown, Bounded
  <2>3. Follows(<<>>, NoBase, cache[k], refused[k], hurt[k])
    BY <1>1, <1>4, <1>6, <2>1 DEF ChannelKept
  <2>4. Follows(<<>>, NoBase, NoBase, refused[k], hurt[k])
    BY <2>3 DEF Follows, InSync, Lagging
  <2>5. MayDiff /\ ~hurt[k] => refused[k] = 0
    BY <1>1, <1>4, <2>1 DEF ChannelKept, Intact, InSync
  <2>6. MayDiff /\ ~hurt[k] => Intact(<<>>, NoBase, NoBase, NoBase, refused[k], FALSE)
    BY <2>5 DEF Intact, InSync, Unbroken
  <2>7. AllPlain(<<>>)
    BY DEF AllPlain
  <2>8. Chain(Unseen(k), SendBase(k), refused[k])'
    BY <1>2, <2>1, <2>2
  <2>9. Follows(Unseen(k), SendBase(k), cache[k], refused[k], hurt[k])'
    BY <1>2, <1>7, <2>1, <2>4
  <2>10. (MayDiff /\ Expands(k) /\ ~hurt[k] =>
            Intact(Unseen(k), SendBase(k), base[k], cache[k], refused[k], Live(k)))'
    BY <1>2, <1>5, <1>7, <2>1, <2>6 DEF Intact
  <2>11. (~MayDiff => base[k] = NoBase /\ AllPlain(Unseen(k)))'
    BY <1>2, <1>5, <2>1, <2>7
  <2> QED BY <1>2, <1>3, <1>5, <2>8, <2>9, <2>10, <2>11 DEF ChannelKept
<1>9. \A d \in Channels : ChannelKept(d)'
  <2> SUFFICES ASSUME NEW d \in Channels, d # k PROVE ChannelKept(d)'
    BY <1>8
  <2> QED BY <1>1, <1>2, <1>3, <1>7, ChannelStays
<1>10. Typed'
  BY <1>1, <1>2, <1>3, <1>7 DEF Typed
<1>11. QuietKept'
  BY <1>1, <1>2 DEF QuietKept, Expands
<1> QED BY <1>3, <1>9, <1>10, <1>11 DEF IInv
-----------------------------------------------------------------------------
(* The sender drops its base                                                 *)

(* A sender that drops its base builds a plain frame next, so nothing under   *)
(* way is disturbed.                                                          *)
LEMMA ChannelForgets ==
    ASSUME NEW c \in Channels, ChannelKept(c), Unseen(c)' = Unseen(c), config' = config,
           SendBase(c)' = NoBase \/ SendBase(c)' = SendBase(c),
           base'[c] = NoBase \/ base'[c] = base[c],
           cache'[c] = cache[c], refused'[c] = refused[c], stopped'[c] = stopped[c],
           hurt'[c] = hurt[c], ~hurt[c] => ~Live(c)',
           owned'[c] => owned[c],
           config.dir = "up" => owned'[c] = owned[c],
           c \notin config.conns => hand'[c] = hand[c]
    PROVE  ChannelKept(c)'
<1>1. MayDiff' = MayDiff /\ Expands(c)' = Expands(c)
  BY DEF MayDiff, Has, Expands
<1>2. Chain(Unseen(c), SendBase(c), refused[c])'
  BY DEF ChannelKept, Chain, TipKnown
<1>3. (Expands(c) => Follows(Unseen(c), SendBase(c), cache[c], refused[c], hurt[c]))'
  BY <1>1 DEF ChannelKept, Follows, InSync, Lagging
<1>4. (MayDiff /\ Expands(c) /\ ~hurt[c] =>
          Intact(Unseen(c), SendBase(c), base[c], cache[c], refused[c], Live(c)))'
  BY <1>1 DEF ChannelKept, Intact, InSync
<1>5. (~MayDiff => base[c] = NoBase /\ AllPlain(Unseen(c)))'
  BY <1>1 DEF ChannelKept
<1> QED BY <1>2, <1>3, <1>4, <1>5 DEF ChannelKept

(* TakeAsk keeps the invariant, in both directions.                           *)
LEMMA TakeAskKeeps ==
    ASSUME IInv, NEW c \in Channels, TakeAsk(c)
    PROVE  IInv' /\ \A d \in Channels : Unseen(d)' = Unseen(d)
<1>1. /\ Typed /\ (\A d \in Channels : ChannelKept(d)) /\ QuietKept /\ HandsKept /\ ClosingKept
      /\ CoderKept /\ SoleKept
  BY DEF IInv
<1>2. /\ c \in asks /\ asks' = asks \ {c} /\ DropsBase(c)
      /\ config' = config /\ hand' = hand /\ enc' = enc /\ wire' = wire
      /\ dec' = dec /\ cache' = cache /\ refused' = refused /\ out' = out /\ broken' = broken
      /\ owned' = owned /\ stopped' = stopped /\ lostAsks' = lostAsks /\ skips' = skips /\ hurt' = hurt
      /\ queued' = queued
  BY DEF TakeAsk, receiverVars, faultVars, historyVars
<1>3. hurt[c]
  BY <1>1, <1>2 DEF QuietKept
<1>4. /\ base \in [Channels -> Bases] /\ reset \in [Channels -> BOOLEAN]
      /\ stopped \in [Channels -> BOOLEAN] /\ NoBase \in Bases
  BY <1>1, SendBaseTyped DEF Typed
<1>5. /\ base' \in [Channels -> Bases] /\ reset' \in [Channels -> BOOLEAN]
      /\ \A d \in Channels : d # c => base'[d] = base[d] /\ reset'[d] = reset[d]
      /\ base'[c] = NoBase \/ base'[c] = base[c]
      /\ SendBase(c)' = NoBase \/ SendBase(c)' = SendBase(c)
  <2>1. CASE config.dir = "down"
    <3>1. base' = [base EXCEPT ![c] = IF owned[c] THEN NoBase ELSE @] /\ reset' = reset
      BY <1>2, <2>1 DEF DropsBase
    <3> QED BY <1>4, <3>1 DEF SendBase
  <2>2. CASE config.dir # "down"
    <3>1. reset' = [reset EXCEPT ![c] = @ \/ ~stopped[c]] /\ base' = base
      BY <1>2, <2>2 DEF DropsBase
    <3>2. reset' \in [Channels -> BOOLEAN] /\ \A d \in Channels : d # c => reset'[d] = reset[d]
      BY <1>4, <3>1
    <3>3. reset'[c] = (reset[c] \/ ~stopped[c])
      BY <1>4, <3>1
    <3> QED BY <1>4, <3>1, <3>2, <3>3 DEF SendBase
  <2> QED BY <2>1, <2>2
<1>6. \A d \in Channels : Unseen(d)' = Unseen(d)
  BY <1>2, UnseenIs
<1>7. ChannelKept(c)'
  BY <1>1, <1>2, <1>3, <1>5, <1>6, ChannelForgets
<1>8. \A d \in Channels : ChannelKept(d)'
  <2> SUFFICES ASSUME NEW d \in Channels, d # c PROVE ChannelKept(d)'
    BY <1>7
  <2> QED BY <1>1, <1>2, <1>5, <1>6, ChannelStays
<1>9. Typed'
  <2>1. asks' \in SUBSET Channels
    BY <1>1, <1>2 DEF Typed
  <2> QED BY <1>1, <1>2, <1>5, <2>1 DEF Typed
<1>10. QuietKept' /\ HandsKept'
  BY <1>1, <1>2, <1>3, <1>5 DEF QuietKept, HandsKept, Expands
<1>11. ClosingKept'
  <2>1. \A d \in Channels : base[d] = NoBase => base'[d] = NoBase
    BY <1>5
  <2>2. \A i \in 1 .. Len(wire) : wire[i].conn \in Channels
    BY <1>1, ConfigFacts DEF ClosingKept, Typed
  <2> QED BY <1>1, <1>2, <2>1, <2>2 DEF ClosingKept
<1>12. CoderKept' /\ SoleKept'
  BY <1>1, <1>2 DEF CoderKept, Coding, SoleKept, SharedStream
<1> QED BY <1>6, <1>8, <1>9, <1>10, <1>11, <1>12 DEF IInv

(* Disconnect keeps the invariant: downwards the sender forgets its base,     *)
(* upwards the relay no longer expands the channel.                           *)
LEMMA DisconnectKeeps ==
    ASSUME IInv, NEW c \in Channels, Disconnect(c)
    PROVE  IInv' /\ \A d \in Channels : Unseen(d)' = Unseen(d)
<1>1. /\ Typed /\ (\A d \in Channels : ChannelKept(d)) /\ QuietKept /\ HandsKept /\ ClosingKept
      /\ CoderKept /\ SoleKept
  BY DEF IInv
<1>2. /\ owned[c] /\ owned' = [owned EXCEPT ![c] = FALSE]
      /\ config' = config /\ reset' = reset /\ enc' = enc /\ wire' = wire /\ dec' = dec
      /\ refused' = refused /\ out' = out /\ broken' = broken /\ stopped' = stopped
      /\ asks' = asks /\ lostAsks' = lostAsks /\ skips' = skips /\ queued' = queued
  BY DEF Disconnect, historyVars
<1>3. /\ owned \in [Channels -> BOOLEAN] /\ base \in [Channels -> Bases] /\ NoBase \in Bases
      /\ cache \in [Channels -> Bases] /\ hurt \in [Channels -> BOOLEAN] /\ DOMAIN hand = Channels
      /\ config \in Configs /\ wire \in Seq(Frames)
  BY <1>1, SendBaseTyped DEF Typed
<1>4. /\ c \in config.conns /\ owned' \in [Channels -> BOOLEAN] /\ owned'[c] = FALSE
      /\ \A d \in Channels : d # c => owned'[d] = owned[d]
  BY <1>1, <1>2, <1>3 DEF ChannelKept
<1>5. ASSUME NEW i \in 1 .. Len(wire) PROVE wire[i].conn \in Channels
  BY <1>1, <1>3, ConfigFacts DEF ClosingKept
<1>6. CASE config.dir = "down"
  <2>1. /\ SenderFree(c) /\ base' = [base EXCEPT ![c] = NoBase]
        /\ hand' = [hand EXCEPT ![c] = CloseFrame(c)] /\ cache' = cache /\ hurt' = hurt
    BY <1>6 DEF Disconnect
  <2>2. \A d \in Channels : hand[d] = None
    BY <1>6, <2>1 DEF SenderFree
  <2>3. /\ CloseFrame(c) \in Frames /\ CloseFrame(c).kind = "close" /\ CloseFrame(c).conn = c
        /\ CloseFrame(c) # None
    BY DataFrameKinds
  <2>4. /\ hand'[c] = CloseFrame(c) /\ \A d \in Channels : d # c => hand'[d] = None
        /\ DOMAIN hand' = Channels
        /\ base'[c] = NoBase /\ \A d \in Channels : d # c => base'[d] = base[d]
        /\ base' \in [Channels -> Bases]
    BY <1>3, <2>1, <2>2
  <2>5. \A d \in Channels : Unseen(d)' = Unseen(d)
    <3>1. Held(CloseFrame(c)) = Held(None)
      BY <2>3 DEF Held
    <3>2. Unseen(c)' = Unseen(c)
      <4>1. Unseen(c) = Pending(wire, None, c) /\ Unseen(c)' = Pending(wire, CloseFrame(c), c)
        BY <1>2, <2>2, <2>4, UnseenIs
      <4>2. Pending(wire, CloseFrame(c), c) = Pending(wire, None, c)
        BY <3>1, Zenon DEF Pending
      <4> QED BY <4>1, <4>2
    <3>3. ASSUME NEW d \in Channels, d # c PROVE Unseen(d)' = Unseen(d)
      BY <1>2, <2>2, <2>4, <3>3, UnseenIs
    <3> QED BY <3>2, <3>3
  <2>6. ChannelKept(c)'
    <3>1. SendBase(c)' = NoBase
      BY <2>4 DEF SendBase
    <3>2. ~Live(c)'
      BY <1>2, <1>4, <1>6 DEF Live
    <3>3. owned'[c] => owned[c]
      BY <1>4
    <3>4. config.dir # "up"
      BY <1>6
    <3> QED BY <1>1, <1>2, <1>4, <2>1, <2>4, <2>5, <3>1, <3>2, <3>3, <3>4, ChannelForgets
  <2>7. \A d \in Channels : ChannelKept(d)'
    <3> SUFFICES ASSUME NEW d \in Channels, d # c PROVE ChannelKept(d)'
      BY <2>6
    <3>1. hand'[d] = hand[d]
      BY <2>2, <2>4
    <3> QED BY <1>1, <1>2, <1>4, <2>1, <2>4, <2>5, <3>1, ChannelStays
  <2>8. Typed'
    <3>1. \A d \in Channels : hand'[d] # None => hand'[d] \in Frames /\ hand'[d].conn = d
      BY <2>3, <2>4
    <3> QED BY <1>1, <1>2, <1>4, <2>1, <2>4, <3>1 DEF Typed
  <2>9. QuietKept'
    BY <1>1, <1>2, <1>6, <2>1 DEF QuietKept, Expands
  <2>10. HandsKept'
    BY <1>2, <2>4 DEF HandsKept
  <2>11. ClosingKept'
    <3>1. ASSUME NEW i \in 1 .. Len(wire), wire[i].kind = "close"
          PROVE  /\ ~owned'[wire[i].conn] /\ base'[wire[i].conn] = NoBase /\ hand'[wire[i].conn] = None
      <4>1. wire[i].conn # c /\ ~owned[wire[i].conn] /\ base[wire[i].conn] = NoBase
        BY <1>1, <1>2, <3>1 DEF ClosingKept
      <4> QED BY <1>4, <1>5, <2>4, <4>1
    <3>2. \A d \in Channels : hand'[d] # None => ~owned'[d] /\ base'[d] = NoBase
      BY <1>4, <2>4
    <3> QED BY <1>1, <1>2, <1>6, <3>1, <3>2 DEF ClosingKept
  <2>12. CoderKept'
    BY <1>1, <1>2, <1>6 DEF CoderKept, Coding
  <2>13. SoleKept'
    <3>1. \A d \in Channels : hand'[d] # None => hand'[d] = CloseFrame(c)
      BY <2>4
    <3>2. ~Squeezed(CloseFrame(c)) /\ Step(queued, CloseFrame(c)) = queued
      BY <2>3 DEF Squeezed, Step
    <3>3. config.algo = "stream" /\ ~SharedStream => enc = queued
      BY <1>1, <2>2 DEF SoleKept
    <3> QED BY <1>2, <3>1, <3>2, <3>3 DEF SoleKept, SharedStream
  <2> QED BY <2>5, <2>7, <2>8, <2>9, <2>10, <2>11, <2>12, <2>13 DEF IInv
<1>7. CASE config.dir = "up"
  <2>1. /\ cache' = [cache EXCEPT ![c] = NoBase] /\ hurt' = [hurt EXCEPT ![c] = TRUE]
        /\ base' = base /\ hand' = hand
    BY <1>7 DEF Disconnect
  <2>2. /\ cache' \in [Channels -> Bases] /\ hurt' \in [Channels -> BOOLEAN]
        /\ hurt'[c] = TRUE /\ \A d \in Channels : d # c => cache'[d] = cache[d] /\ hurt'[d] = hurt[d]
    BY <1>3, <2>1
  <2>3. \A d \in Channels : Unseen(d)' = Unseen(d)
    BY <1>2, <2>1, UnseenIs
  <2>4. ChannelKept(c)'
    <3>1. SendBase(c)' = SendBase(c) /\ MayDiff' = MayDiff /\ ~Expands(c)'
      BY <1>2, <1>4, <1>7, <2>1 DEF SendBase, MayDiff, Has, Expands
    <3>2. Chain(Unseen(c), SendBase(c), refused[c])'
      BY <1>1, <1>2, <2>3, <3>1 DEF ChannelKept
    <3>3. (~MayDiff => base[c] = NoBase /\ AllPlain(Unseen(c)))'
      BY <1>1, <2>1, <2>3, <3>1 DEF ChannelKept
    <3> QED BY <1>2, <1>4, <2>2, <3>1, <3>2, <3>3 DEF ChannelKept
  <2>5. \A d \in Channels : ChannelKept(d)'
    <3> SUFFICES ASSUME NEW d \in Channels, d # c PROVE ChannelKept(d)'
      BY <2>4
    <3> QED BY <1>1, <1>2, <1>4, <2>1, <2>2, <2>3, ChannelStays
  <2>6. Typed'
    BY <1>1, <1>2, <1>4, <2>1, <2>2 DEF Typed
  <2>7. QuietKept' /\ HandsKept'
    <3>1. \A d \in Channels : /\ ~hurt'[d] => ~hurt[d]
                              /\ hurt'[d] /\ owned'[d] => hurt[d] /\ owned[d]
      BY <1>4, <2>2
    <3> QED BY <1>1, <1>2, <1>7, <2>1, <3>1 DEF QuietKept, HandsKept, Expands
  <2>8. ClosingKept'
    <3>1. config.dir # "down"
      BY <1>7
    <3> QED BY <1>1, <1>2, <2>1, <3>1 DEF ClosingKept
  <2>9. CoderKept' /\ SoleKept'
    <3>1. Coding' => Coding
      <4>1. \A d \in config.conns : owned'[d] => owned[d]
        BY <1>3, <1>4, ConfigFacts
      <4> QED BY <1>2, <4>1 DEF Coding
    <3>2. CoderKept'
      BY <1>1, <1>2, <3>1 DEF CoderKept
    <3> QED BY <1>1, <1>2, <2>1, <3>2 DEF SoleKept, SharedStream
  <2> QED BY <2>3, <2>5, <2>6, <2>7, <2>8, <2>9 DEF IInv
<1> QED BY <1>3, <1>6, <1>7, ConfigFacts

(* StopPump keeps the invariant.                                              *)
LEMMA StopPumpKeeps ==
    ASSUME IInv, NEW c \in Channels, StopPump(c)
    PROVE  IInv' /\ \A d \in Channels : Unseen(d)' = Unseen(d)
<1>1. /\ Typed /\ (\A d \in Channels : ChannelKept(d)) /\ QuietKept /\ HandsKept /\ ClosingKept
      /\ CoderKept /\ SoleKept
  BY DEF IInv
<1>2. /\ stopped' = [stopped EXCEPT ![c] = TRUE]
      /\ config' = config /\ base' = base /\ reset' = reset /\ hand' = hand /\ enc' = enc
      /\ wire' = wire /\ dec' = dec /\ cache' = cache /\ refused' = refused /\ out' = out
      /\ broken' = broken /\ owned' = owned /\ asks' = asks /\ lostAsks' = lostAsks
      /\ skips' = skips /\ hurt' = hurt /\ queued' = queued
  BY DEF StopPump, senderVars, receiverVars, faultVars, historyVars
<1>3. stopped' \in [Channels -> BOOLEAN] /\ \A d \in Channels : stopped[d] => stopped'[d]
  <2>1. stopped \in [Channels -> BOOLEAN]
    BY <1>1 DEF Typed
  <2> QED BY <1>2, <2>1
<1>4. \A d \in Channels : Unseen(d)' = Unseen(d)
  BY <1>2, UnseenIs
<1>5. \A d \in Channels : ChannelKept(d)'
  BY <1>1, <1>2, <1>3, <1>4, ChannelStays
<1>6. Typed'
  BY <1>1, <1>2, <1>3 DEF Typed
<1>7. QuietKept' /\ HandsKept'
  BY <1>1, <1>2 DEF QuietKept, HandsKept, Expands
<1>8. ClosingKept'
  BY <1>1, <1>2 DEF ClosingKept
<1>9. CoderKept' /\ SoleKept'
  BY <1>1, <1>2 DEF CoderKept, Coding, SoleKept, SharedStream
<1> QED BY <1>4, <1>5, <1>6, <1>7, <1>8, <1>9 DEF IInv
-----------------------------------------------------------------------------
(* The invariant holds                                                       *)

(* The invariant holds initially, for fresh channels and for ones about to    *)
(* wrap.                                                                      *)
LEMMA InitKept == DataInit => IInv
<1> SUFFICES ASSUME DataInit PROVE IInv
  OBVIOUS
<1>1. /\ config \in Configs /\ reset = [c \in Channels |-> FALSE]
      /\ hand = [c \in Channels |-> None] /\ enc = 0 /\ dec = 0 /\ wire = <<>>
      /\ owned = [c \in Channels |-> c \in config.conns]
      /\ stopped = [c \in Channels |-> c \notin config.conns]
      /\ asks = {} /\ lostAsks = 0 /\ skips = config.skips
      /\ refused = [c \in Channels |-> 0] /\ out = [c \in Channels |-> Nothing]
      /\ hurt = [c \in Channels |-> FALSE] /\ broken = FALSE /\ queued = 0
  BY DEF DataInit
<1>2. PICK b \in Bases : /\ base = [c \in Channels |-> b] /\ cache = [c \in Channels |-> b]
                         /\ ~MayDiff => b = NoBase
  <2>1. PICK seq \in {0, SeqWidth - 2}, p \in config.payloads :
          LET x == IF seq = 0 \/ ~MayDiff THEN NoBase ELSE Base(seq, p)
          IN  base = [c \in Channels |-> x] /\ cache = [c \in Channels |-> x]
    BY DEF DataInit
  <2> DEFINE x == IF seq = 0 \/ ~MayDiff THEN NoBase ELSE Base(seq, p)
  <2>2. SeqWidth \in Nat /\ SeqWidth >= 2 /\ p \in Payloads
    BY <1>1, DiffAssumption, ConfigFacts
  <2>3. seq \in 0 .. SeqWidth - 1 /\ 0 \in 0 .. SeqWidth - 1
    BY <2>2
  <2>4. x \in Bases
    BY <2>2, <2>3 DEF Bases, NoBase, Base
  <2> HIDE DEF x
  <2>5. ~MayDiff => x = NoBase
    BY DEF x
  <2>6. base = [c \in Channels |-> x] /\ cache = [c \in Channels |-> x]
    BY <2>1 DEF x
  <2> QED BY <2>4, <2>5, <2>6
<1>3. skips \in Nat /\ config.skips \in Nat /\ skips <= config.skips
  <2>1. config.skips \in Nat
    BY <1>1, DataPlaneAssumption
  <2> QED BY <1>1, <2>1
<1>4. Typed
  <2>1. /\ 0 \in 0 .. SeqWidth - 1 /\ 0 \in 0 .. MaxLostAsks /\ 0 \in 0 .. MaxRefused /\ 0 <= WireCapacity
    <3>1. SeqWidth \in Nat \ {0, 1} /\ MaxLostAsks \in Nat /\ MaxRefused \in Nat /\ WireCapacity \in Nat
      BY DiffAssumption, DataPlaneAssumption
    <3> QED BY <3>1
  <2>2. wire \in Seq(Frames) /\ Len(wire) = 0
    BY <1>1
  <2> QED BY <1>1, <1>2, <2>1, <2>2 DEF Typed
<1>5. ASSUME NEW c \in Channels PROVE ChannelKept(c)
  <2>1. Unseen(c) = <<>>
    <3>1. Unseen(c) = Pending(<<>>, None, c)
      BY <1>1, UnseenIs
    <3>2. DataOf(<<>>, c) = <<>> /\ Held(None) = <<>>
      BY DataOfEmpty, HeldTyped
    <3> QED BY <3>1, <3>2 DEF Pending
  <2>2. SendBase(c) = b /\ base[c] = b /\ cache[c] = b /\ refused[c] = 0
    BY <1>1, <1>2 DEF SendBase
  <2>3. Chain(<<>>, b, 0)
    BY DEF Chain, Linked, TipKnown, Bounded
  <2>4. InSync(<<>>, b, b, 0) /\ Unbroken(<<>>, b) /\ AllPlain(<<>>)
    BY DEF InSync, Unbroken, AllPlain
  <2>5. Follows(<<>>, b, b, 0, hurt[c]) /\ Intact(<<>>, b, b, b, 0, Live(c))
    BY <2>4 DEF Follows, Intact
  <2>6. owned[c] = (c \in config.conns) /\ stopped[c] = (c \notin config.conns) /\ hand[c] = None
    BY <1>1
  <2> QED BY <1>2, <2>1, <2>2, <2>3, <2>4, <2>5, <2>6 DEF ChannelKept
<1>6. QuietKept /\ HandsKept
  BY <1>1, <1>3 DEF QuietKept, HandsKept
<1>7. ClosingKept
  BY <1>1 DEF ClosingKept
<1>8. CoderKept
  <2> DEFINE run == [i \in 0 .. 0 |-> 0]
  <2>1. Len(wire) = 0 /\ 0 \in 0 .. SeqWidth - 1 /\ 0 \in 0 .. 0
    BY <1>1, DiffAssumption
  <2>2. run \in [0 .. Len(wire) -> 0 .. SeqWidth - 1] /\ run[0] = 0
    BY <2>1
  <2> HIDE DEF run
  <2> QED BY <1>1, <2>1, <2>2 DEF CoderKept
<1>9. SoleKept
  BY <1>1 DEF SoleKept
<1> QED BY <1>4, <1>5, <1>6, <1>7, <1>8, <1>9 DEF IInv

(* A stuttering step keeps the invariant.                                     *)
LEMMA StutterKeeps == IInv /\ UNCHANGED vars => IInv' /\ \A d \in Channels : Unseen(d)' = Unseen(d)
<1> SUFFICES ASSUME IInv, UNCHANGED vars
             PROVE  IInv' /\ \A d \in Channels : Unseen(d)' = Unseen(d)
  OBVIOUS
<1>1. /\ Typed /\ (\A d \in Channels : ChannelKept(d)) /\ QuietKept /\ HandsKept /\ ClosingKept
      /\ CoderKept /\ SoleKept
  BY DEF IInv
<1>2. /\ config' = config /\ base' = base /\ reset' = reset /\ hand' = hand /\ enc' = enc
      /\ wire' = wire /\ dec' = dec /\ cache' = cache /\ refused' = refused /\ out' = out
      /\ broken' = broken /\ owned' = owned /\ asks' = asks /\ lostAsks' = lostAsks
      /\ skips' = skips /\ hurt' = hurt /\ stopped' = stopped /\ queued' = queued
  BY DEF vars, senderVars, receiverVars, faultVars, historyVars
<1>3. \A d \in Channels : Unseen(d)' = Unseen(d)
  BY <1>2, UnseenIs
<1>4. \A d \in Channels : ChannelKept(d)'
  BY <1>1, <1>2, <1>3, ChannelStays
<1>5. Typed'
  BY <1>1, <1>2 DEF Typed
<1>6. QuietKept' /\ HandsKept' /\ ClosingKept'
  BY <1>1, <1>2 DEF QuietKept, HandsKept, ClosingKept, Expands
<1>7. CoderKept' /\ SoleKept'
  BY <1>1, <1>2 DEF CoderKept, Coding, SoleKept, SharedStream
<1> QED BY <1>3, <1>4, <1>5, <1>6, <1>7 DEF IInv

(* Every step keeps the invariant as long as the ends are not spoilt.         *)
LEMMA IInvStep == IInv /\ [Next]_vars /\ ~spoilt' => IInv'
<1> SUFFICES ASSUME IInv, [Next]_vars, ~spoilt' PROVE IInv'
  OBVIOUS
<1>1. CASE ReceiveData
  BY <1>1, ReceiveKeeps
<1>2. CASE LoseFrame
  BY <1>2, LoseKeeps
<1>3. CASE TakeClose
  BY <1>3, TakeCloseKeeps
<1>4. ASSUME NEW c \in Channels, Build(c) PROVE IInv'
  BY <1>4, BuildKeeps
<1>5. ASSUME NEW c \in Channels, Queue(c) PROVE IInv'
  BY <1>5, QueueKeeps
<1>6. ASSUME NEW c \in Channels, TakeAsk(c) PROVE IInv'
  BY <1>6, TakeAskKeeps
<1>7. ASSUME NEW c \in Channels, Disconnect(c) PROVE IInv'
  BY <1>7, DisconnectKeeps
<1>8. ASSUME NEW c \in Channels, StopPump(c) PROVE IInv'
  BY <1>8, StopPumpKeeps
<1>9. CASE UNCHANGED vars
  BY <1>9, StutterKeeps
<1> QED BY <1>1, <1>2, <1>3, <1>4, <1>5, <1>6, <1>7, <1>8, <1>9 DEF Next

(* Losses only add up, and what is spoilt stays spoilt.  Only queueing, a     *)
(* frame thrown away and a lost frame spoil.                                  *)
LEMMA HistoryStep ==
    ASSUME [Next]_vars, spoilt \in BOOLEAN
    PROVE  /\ config' = config /\ spoilt' \in BOOLEAN /\ (spoilt => spoilt')
           /\ skips' = skips \/ (LoseFrame /\ skips > 0 /\ skips' = skips - 1)
           /\ \/ spoilt' = spoilt
              \/ \E c \in Channels : Queue(c)
              \/ ReceiveData \/ LoseFrame
<1>1. CASE ReceiveData
  <2>1. config' = config /\ skips' = skips
    BY <1>1 DEF ReceiveData
  <2>2. CASE Skipped(Head(wire))
    BY <1>1, <2>1, <2>2 DEF ReceiveData, NoteSkipped
  <2>3. CASE ~Skipped(Head(wire))
    BY <1>1, <2>1, <2>3 DEF ReceiveData, historyVars
  <2> QED BY <2>2, <2>3
<1>2. CASE LoseFrame
  BY <1>2 DEF LoseFrame, NoteLost
<1>3. CASE TakeClose
  BY <1>3 DEF TakeClose, faultVars, historyVars
<1>4. ASSUME NEW c \in Channels, Build(c) PROVE config' = config /\ skips' = skips /\ spoilt' = spoilt
  BY <1>4 DEF Build, faultVars, historyVars
<1>5. ASSUME NEW c \in Channels, Queue(c)
      PROVE  config' = config /\ skips' = skips /\ spoilt' \in BOOLEAN /\ (spoilt => spoilt')
  BY <1>5 DEF Queue, faultVars, NoteQueued
<1>6. ASSUME NEW c \in Channels, TakeAsk(c) PROVE config' = config /\ skips' = skips /\ spoilt' = spoilt
  BY <1>6 DEF TakeAsk, faultVars, historyVars
<1>7. ASSUME NEW c \in Channels, Disconnect(c) PROVE config' = config /\ skips' = skips /\ spoilt' = spoilt
  BY <1>7 DEF Disconnect, historyVars
<1>8. ASSUME NEW c \in Channels, StopPump(c) PROVE config' = config /\ skips' = skips /\ spoilt' = spoilt
  BY <1>8 DEF StopPump, faultVars, historyVars
<1>9. CASE UNCHANGED vars
  BY <1>9 DEF vars, faultVars, historyVars
<1> QED BY <1>1, <1>2, <1>3, <1>4, <1>5, <1>6, <1>7, <1>8, <1>9 DEF Next

(* What spoils the ends is one of the faults SpoiltOnlyByFaults names: a sole *)
(* task queues in order, a frame is thrown away beside an open channel only   *)
(* where there are two, and a second loss is the second.                      *)
LEMMA SpoilingStep ==
    ASSUME IInv, ~spoilt, spoilt',
           (\E c \in Channels : Queue(c)) \/ ReceiveData \/ LoseFrame
    PROVE  SharedStream \/ skips' + (IF config.algo = "stream" THEN 1 ELSE 2) <= config.skips
<1>0. skips \in Nat /\ config.skips \in Nat /\ skips <= config.skips
  BY DEF IInv, QuietKept
<1>1. ASSUME NEW c \in Channels, Queue(c) PROVE SharedStream
  <2>1. hand[c] # None /\ Streamed(hand[c]) /\ hand[c].pos # queued
    BY <1>1 DEF Queue, NoteQueued
  <2>2. config.algo = "stream" /\ Squeezed(hand[c])
    BY <2>1 DEF Streamed, Squeezed
  <2> QED BY <2>1, <2>2 DEF IInv, SoleKept
<1>2. CASE ReceiveData
  <2> DEFINE f == Head(wire)
  <2>1. wire # <<>> /\ f.kind # "close"
    BY <1>2 DEF ReceiveData
  <2>2. Skipped(f) /\ NoteSkipped(f)
    BY <1>2 DEF ReceiveData, historyVars
  <2>3. PICK d \in config.conns : Streamed(f) /\ owned[d]
    BY <2>2 DEF NoteSkipped
  <2>4. f.conn \in config.conns
    BY <2>1, HeadData
  <2> QED BY <2>2, <2>3, <2>4 DEF SharedStream, Streamed, Skipped
<1>3. CASE LoseFrame
  <2> DEFINE f == Head(wire)
  <2>1. wire # <<>> /\ f.kind # "close" /\ skips > 0 /\ skips' = skips - 1 /\ NoteLost(f)
    BY <1>3 DEF LoseFrame
  <2>2. f.conn \in Channels
    BY <2>1, HeadData
  <2>3. Streamed(f) \/ (hurt[f.conn] /\ Expands(f.conn))
    BY <2>1 DEF NoteLost, Expands
  <2>4. CASE Streamed(f)
    BY <1>0, <2>1, <2>4 DEF Streamed
  <2>5. CASE hurt[f.conn] /\ Expands(f.conn)
    <3>1. skips < config.skips
      BY <2>2, <2>5 DEF IInv, QuietKept
    <3> QED BY <1>0, <2>1, <3>1
  <2> QED BY <2>3, <2>4, <2>5
<1> QED BY <1>1, <1>2, <1>3

(* The invariant is inductive.                                                *)
LEMMA KInvStep == KInv /\ [Next]_vars => KInv'
<1> SUFFICES ASSUME KInv, [Next]_vars PROVE KInv'
  OBVIOUS
<1>1. /\ config \in Configs /\ skips \in Nat /\ config.skips \in Nat
      /\ spoilt \in BOOLEAN /\ SpoiltOnlyByFaults /\ (~spoilt => IInv)
  BY DEF KInv
<1>2. /\ config' = config /\ spoilt' \in BOOLEAN /\ (spoilt => spoilt')
      /\ skips' = skips \/ (LoseFrame /\ skips > 0 /\ skips' = skips - 1)
      /\ \/ spoilt' = spoilt
         \/ \E c \in Channels : Queue(c)
         \/ ReceiveData \/ LoseFrame
  BY <1>1, HistoryStep
<1>3. skips' \in Nat /\ skips' <= skips
  BY <1>1, <1>2
<1>4. ~spoilt' => IInv'
  BY <1>1, <1>2, IInvStep
<1>5. ASSUME spoilt' PROVE SharedStream \/ skips' + (IF config.algo = "stream" THEN 1 ELSE 2) <= config.skips
  <2>1. CASE spoilt
    <3>1. SharedStream \/ skips + (IF config.algo = "stream" THEN 1 ELSE 2) <= config.skips
      BY <1>1, <2>1 DEF SpoiltOnlyByFaults
    <3> QED BY <1>1, <1>3, <3>1
  <2>2. CASE ~spoilt
    BY <1>1, <1>2, <1>5, <2>2, SpoilingStep
  <2> QED BY <2>1, <2>2
<1>6. SpoiltOnlyByFaults'
  BY <1>2, <1>5 DEF SpoiltOnlyByFaults, SharedStream
<1> QED BY <1>1, <1>2, <1>3, <1>4, <1>6 DEF KInv

(* The invariant holds in every reachable state.                              *)
LEMMA KInvHolds == Spec => []KInv
<1>1. DataInit => KInv
  <2> SUFFICES ASSUME DataInit PROVE KInv
    OBVIOUS
  <2>1. IInv
    BY InitKept
  <2>2. config \in Configs /\ skips \in Nat /\ config.skips \in Nat
    BY <2>1 DEF IInv, Typed, QuietKept
  <2>3. spoilt = FALSE
    BY DEF DataInit
  <2> QED BY <2>1, <2>2, <2>3 DEF KInv, SpoiltOnlyByFaults
<1>2. KInv /\ [Next]_vars => KInv'
  BY KInvStep
<1> QED BY <1>1, <1>2, PTL DEF Spec

(* dataplane.rs: the bases, coders and counters of both ends stay within      *)
(* their types, and the compression histories never part: no session fails    *)
(* on a broken stream and no application is handed bytes nobody sent, until   *)
(* pumps that share a stream queue out of order or throw a fragment away, a   *)
(* fragment is lost, or a channel loses a second frame. Nothing else makes    *)
(* the ends part.                                                             *)
THEOREM EndsStayAgreed == Spec => []EndsAgree
<1>1. KInv => EndsAgree
  <2> SUFFICES ASSUME KInv PROVE EndsAgree
    OBVIOUS
  <2>0. SpoiltOnlyByFaults /\ skips \in Nat
    BY DEF KInv
  <2> SUFFICES ASSUME ~spoilt PROVE TypeOK /\ StaysInStep
    BY <2>0 DEF EndsAgree
  <2>1. Typed
    BY DEF KInv, IInv
  <2>2. \A c \in Channels : IsBase(base[c]) /\ IsBase(cache[c])
    BY <2>1 DEF Typed, IsBase, Bases
  <2>3. \A c \in Channels : /\ refused[c] \in 0 .. MaxRefused
                            /\ out[c] \in Payloads \cup {Nothing}
    BY <2>1 DEF Typed
  <2>4. \A c \in Channels : out[c] # Garbage
    BY <2>3, PayloadsAssumption DEF Nothing
  <2>5. StaysInStep
    BY <2>1, <2>4 DEF StaysInStep, Typed
  <2>6. {reset, owned, stopped, hurt} \subseteq [Channels -> BOOLEAN]
    BY <2>1 DEF Typed
  <2>7. broken \in BOOLEAN
    <3>1. broken = FALSE
      BY <2>1 DEF Typed
    <3> QED BY <3>1, Zenon
  <2>8. TypeOK
    BY <2>0, <2>1, <2>2, <2>3, <2>6, <2>7 DEF TypeOK, Typed
  <2> QED BY <2>5, <2>8
<1> QED BY <1>1, KInvHolds, PTL
-----------------------------------------------------------------------------
(* The data plane implements the payload stream                              *)

(* The payloads of frames, and the stream they make.                          *)
Origs(D) == [i \in 1 .. Len(D) |-> D[i].orig]
Pend == [c \in Channels |-> InFlight(c)]

(* The payloads of some frames.                                               *)
LEMMA OrigsTyped ==
    ASSUME NEW D \in Seq(DataFrames)
    PROVE  /\ Origs(D) \in Seq(Payloads) /\ Len(Origs(D)) = Len(D) /\ Len(D) \in Nat
           /\ \A i \in 1 .. Len(D) : Origs(D)[i] = D[i].orig
<1>1. \A i \in 1 .. Len(D) : D[i].orig \in Payloads
  BY FrameTypes
<1>2. Len(D) \in Nat
  OBVIOUS
<1> QED BY <1>1, <1>2 DEF Origs

(* One frame more is one payload more ...                                     *)
LEMMA OrigsAppend ==
    ASSUME NEW D \in Seq(DataFrames), NEW f \in DataFrames
    PROVE  Origs(Append(D, f)) = Append(Origs(D), f.orig)
<1> DEFINE A == Append(D, f)
           n == Len(D)
           S == Payloads
           u == Origs(A)
           v == Append(Origs(D), f.orig)
<1>1. /\ A \in Seq(DataFrames) /\ n \in Nat /\ Len(A) = n + 1
      /\ \A i \in 1 .. n : A[i] = D[i]
      /\ A[n + 1] = f
  BY AppendFacts
<1> HIDE DEF A
<1>2. u \in Seq(S) /\ Len(u) = n + 1 /\ \A i \in 1 .. n + 1 : u[i] = A[i].orig
  BY <1>1, OrigsTyped
<1>3. /\ Origs(D) \in Seq(S) /\ Len(Origs(D)) = n /\ \A i \in 1 .. n : Origs(D)[i] = D[i].orig
      /\ f.orig \in S
  BY OrigsTyped, FrameTypes
<1>4. /\ v \in Seq(S) /\ Len(v) = n + 1
      /\ \A i \in 1 .. n : v[i] = Origs(D)[i]
      /\ v[n + 1] = f.orig
  BY <1>3, AppendFacts
<1>5. \A i \in 1 .. n + 1 : u[i] = v[i]
  <2>1. \A i \in 1 .. n + 1 : i \in 1 .. n \/ i = n + 1
    BY <1>1
  <2> QED BY <1>1, <1>2, <1>3, <1>4, <2>1
<1> HIDE DEF u, v, S, n
<1>6. u = v
  BY <1>2, <1>4, <1>5, SeqEqual
<1> QED BY <1>6 DEF u, v, A

(* ... and one less is one less.                                              *)
LEMMA OrigsTail ==
    ASSUME NEW D \in Seq(DataFrames), D # <<>>
    PROVE  /\ Origs(D) # <<>> /\ Head(Origs(D)) = D[1].orig
           /\ Origs(Tail(D)) = Tail(Origs(D))
<1> DEFINE T == Tail(D)
           n == Len(D)
           S == Payloads
           o == Origs(D)
           u == Origs(T)
           v == Tail(o)
<1>1. /\ T \in Seq(DataFrames) /\ n \in Nat /\ n >= 1 /\ Len(T) = n - 1
      /\ \A i \in 1 .. n - 1 : T[i] = D[i + 1]
  BY TailFacts
<1> HIDE DEF T
<1>2. u \in Seq(S) /\ Len(u) = n - 1 /\ \A i \in 1 .. n - 1 : u[i] = T[i].orig
  BY <1>1, OrigsTyped
<1>3. o \in Seq(S) /\ Len(o) = n /\ \A i \in 1 .. n : o[i] = D[i].orig
  BY OrigsTyped
<1> HIDE DEF o, S
<1>4. o # <<>>
  BY <1>1, <1>3
<1>5. /\ v \in Seq(S) /\ Len(v) = n - 1
      /\ \A i \in 1 .. n - 1 : v[i] = o[i + 1]
      /\ Head(o) = o[1]
  BY <1>3, <1>4, TailFacts
<1>6. \A i \in 1 .. n - 1 : u[i] = v[i]
  <2>1. \A i \in 1 .. n - 1 : i + 1 \in 1 .. n
    BY <1>1
  <2> QED BY <1>1, <1>2, <1>3, <1>5, <2>1
<1>7. Head(o) = D[1].orig
  <2>1. 1 \in 1 .. n
    BY <1>1
  <2> QED BY <1>3, <1>5, <2>1
<1> HIDE DEF u, v, n
<1>8. u = v
  BY <1>2, <1>5, <1>6, SeqEqual
<1> QED BY <1>4, <1>7, <1>8 DEF u, v, T, o

(* The refinement mapping in terms of Unseen.                                 *)
LEMMA PendIs ==
    /\ Pend = [c \in Channels |-> Origs(Unseen(c))]
    /\ Pend' = [c \in Channels |-> Origs(Unseen(c)')]
    /\ \A c \in Channels : Pend[c] = Origs(Unseen(c))
  BY DEF Pend, InFlight, Origs

(* Every step is a step of PayloadStream or leaves it alone: Build sends,     *)
(* ReceiveData delivers or drops, LoseFrame drops and hurts, and closing      *)
(* upwards hurts.                                                             *)
LEMMA StreamStep ==
    IInv /\ [Next]_vars /\ ~spoilt' => [Stream!Moves]_<<Pend, out, hurt>>
<1> SUFFICES ASSUME IInv, [Next]_vars, ~spoilt' PROVE [Stream!Moves]_<<Pend, out, hurt>>
  OBVIOUS
<1>0. \A c \in Channels : Unseen(c) \in Seq(DataFrames)
  BY SendBaseTyped DEF IInv
<1>1. ASSUME \A d \in Channels : Unseen(d)' = Unseen(d) PROVE Pend' = Pend
  BY <1>1, PendIs
<1>2. ASSUME NEW k \in Channels, Takes(k)
      PROVE  /\ Pend[k] # <<>> /\ Head(Pend[k]) = Unseen(k)[1].orig
             /\ Pend' = [Pend EXCEPT ![k] = Tail(@)]
  <2>0. /\ Unseen(k) # <<>> /\ Unseen(k)' = Tail(Unseen(k))
        /\ \A d \in Channels : d # k => Unseen(d)' = Unseen(d)
    BY <1>2 DEF Takes
  <2>1. /\ Origs(Unseen(k)) # <<>> /\ Head(Origs(Unseen(k))) = Unseen(k)[1].orig
        /\ Origs(Tail(Unseen(k))) = Tail(Origs(Unseen(k)))
    BY <1>0, <2>0, OrigsTail
  <2>2. \A d \in Channels : d # k => Origs(Unseen(d)') = Origs(Unseen(d))
    BY <2>0
  <2>3. Origs(Unseen(k)') = Tail(Origs(Unseen(k)))
    BY <2>0, <2>1
  <2> QED BY <2>1, <2>2, <2>3, PendIs
<1>3. CASE ReceiveData
  <2>1. hurt' = hurt
    BY <1>3, ReceiveKeeps
  <2>2. PICK k \in Channels : Takes(k) /\ Yields(k)
    BY <1>3, ReceiveKeeps
  <2>3. /\ Pend[k] # <<>> /\ Head(Pend[k]) = Unseen(k)[1].orig
        /\ Pend' = [Pend EXCEPT ![k] = Tail(@)]
    BY <1>2, <2>2
  <2>4. Stream!Deliver(k) \/ Stream!Lose(k)
    BY <2>1, <2>2, <2>3 DEF Stream!Deliver, Stream!Lose, Pend, Yields
  <2> QED BY <2>4 DEF Stream!Moves
<1>4. CASE LoseFrame
  <2>1. out' = out
    BY <1>4, LoseKeeps
  <2>2. PICK k \in Channels : Takes(k) /\ Hurts(k)
    BY <1>4, LoseKeeps
  <2>3. Pend[k] # <<>> /\ Pend' = [Pend EXCEPT ![k] = Tail(@)]
    BY <1>2, <2>2
  <2>4. Stream!Fault(k)
    BY <2>1, <2>2, <2>3 DEF Stream!Fault, Pend, Hurts
  <2> QED BY <2>4 DEF Stream!Moves
<1>5. ASSUME NEW c \in Channels, Build(c) PROVE Stream!Moves
  <2>1. out' = out /\ hurt' = hurt
    BY <1>5, BuildKeeps
  <2>2. PICK f \in DataFrames : Unseen(c)' = Append(Unseen(c), f)
    BY <1>5, BuildKeeps
  <2>3. \A d \in Channels : d # c => Unseen(d)' = Unseen(d)
    BY <1>5, BuildKeeps
  <2>4. f.orig \in Payloads /\ Origs(Append(Unseen(c), f)) = Append(Origs(Unseen(c)), f.orig)
    BY <1>0, FrameTypes, OrigsAppend
  <2>5. Origs(Unseen(c)') = Append(Origs(Unseen(c)), f.orig)
    BY <2>2, <2>4
  <2>6. Pend' = [Pend EXCEPT ![c] = Append(@, f.orig)]
    BY <2>3, <2>5, PendIs
  <2>7. Stream!Send(c, f.orig)
    BY <2>1, <2>6 DEF Stream!Send, Pend
  <2> QED BY <2>4, <2>7 DEF Stream!Moves
<1>6. ASSUME NEW c \in Channels, Disconnect(c) PROVE [Stream!Moves]_<<Pend, out, hurt>>
  <2>1. Pend' = Pend
    BY <1>1, <1>6, DisconnectKeeps
  <2>2. out' = out /\ (hurt' = hurt \/ hurt' = [hurt EXCEPT ![c] = TRUE])
    BY <1>6 DEF Disconnect
  <2>3. CASE hurt' = hurt
    BY <2>1, <2>2, <2>3
  <2>4. CASE hurt' = [hurt EXCEPT ![c] = TRUE]
    <3>1. Stream!Fault(c)
      BY <2>1, <2>2, <2>4 DEF Stream!Fault, Pend
    <3> QED BY <3>1 DEF Stream!Moves
  <2> QED BY <2>2, <2>3, <2>4
<1>7. ASSUME NEW c \in Channels, Queue(c) \/ TakeAsk(c) \/ StopPump(c) PROVE UNCHANGED <<Pend, out, hurt>>
  <2>1. Pend' = Pend
    BY <1>1, <1>7, QueueKeeps, TakeAskKeeps, StopPumpKeeps
  <2>2. out' = out /\ hurt' = hurt
    BY <1>7 DEF Queue, TakeAsk, StopPump, receiverVars, faultVars
  <2> QED BY <2>1, <2>2
<1>8. CASE TakeClose
  <2>1. Pend' = Pend
    BY <1>1, <1>8, TakeCloseKeeps
  <2>2. out' = out /\ hurt' = hurt
    BY <1>8 DEF TakeClose, faultVars
  <2> QED BY <2>1, <2>2
<1>9. CASE UNCHANGED vars
  <2>1. Pend' = Pend
    BY <1>1, <1>9, StutterKeeps
  <2>2. out' = out /\ hurt' = hurt
    BY <1>9 DEF vars, receiverVars, faultVars
  <2> QED BY <2>1, <2>2
<1> QED BY <1>3, <1>4, <1>5, <1>6, <1>7, <1>8, <1>9 DEF Next

(* A step that spoils the ends hands nothing out yet, and before it every     *)
(* step is one of the stream's.                                               *)
LEMMA StreamOrVoid == KInv /\ [Next]_vars => [Stream!StreamNext]_<<Pend, out, hurt, spoilt>>
<1> SUFFICES ASSUME KInv, [Next]_vars PROVE [Stream!StreamNext]_<<Pend, out, hurt, spoilt>>
  OBVIOUS
<1>0. spoilt \in BOOLEAN
  BY DEF KInv
<1>1. /\ spoilt' \in BOOLEAN /\ (spoilt => spoilt')
      /\ \/ spoilt' = spoilt
         \/ \E c \in Channels : Queue(c)
         \/ ReceiveData \/ LoseFrame
  BY <1>0, HistoryStep
<1>2. CASE ~spoilt'
  <2>1. ~spoilt /\ IInv
    BY <1>1, <1>2 DEF KInv
  <2>2. [Stream!Moves]_<<Pend, out, hurt>>
    BY <1>2, <2>1, StreamStep
  <2>3. spoilt' = spoilt
    BY <1>0, <1>1, <1>2, <2>1
  <2> QED BY <2>1, <2>2, <2>3 DEF Stream!StreamNext, Stream!Kept
<1>3. CASE spoilt'
  <2>1. ~spoilt => out' = out
    <3> SUFFICES ASSUME ~spoilt PROVE out' = out
      OBVIOUS
    <3>1. ASSUME NEW c \in Channels, Queue(c) PROVE out' = out
      BY <3>1 DEF Queue, receiverVars
    <3>2. CASE ReceiveData
      <4>1. Skipped(Head(wire))
        BY <1>3, <3>2 DEF ReceiveData, historyVars
      <4> QED BY <3>2, <4>1 DEF ReceiveData, receiverVars
    <3>3. CASE LoseFrame
      BY <3>3 DEF LoseFrame, receiverVars
    <3>4. spoilt' # spoilt
      BY <1>3
    <3> QED BY <1>1, <3>1, <3>2, <3>3, <3>4
  <2>2. spoilt' = TRUE
    BY <1>1, <1>3
  <2>3. Stream!Spoil
    BY <2>1, <2>2 DEF Stream!Spoil
  <2> QED BY <2>3 DEF Stream!StreamNext
<1> QED BY <1>2, <1>3

(* dataplane.rs, incremental.rs: the data plane implements a first-in         *)
(* first-out stream of payloads per channel. Whatever was diffed, numbered    *)
(* and compressed by build_frame, apply_inbound hands out exactly the         *)
(* payload it was made of, in order, and drops one only on a channel that     *)
(* lost a frame or is closing. The promise lapses only where pumps share a    *)
(* stream, a stream loses a frame or a channel two.                           *)
THEOREM PayloadsAreStreamed == Spec => StreamsPayloads
<1>1. DataInit => Stream!StreamInit
  <2> SUFFICES ASSUME DataInit PROVE Stream!StreamInit
    OBVIOUS
  <2>1. \A c \in Channels : Unseen(c) = <<>>
    <3>1. wire = <<>> /\ hand = [c \in Channels |-> None]
      BY DEF DataInit
    <3>2. ASSUME NEW c \in Channels PROVE Unseen(c) = <<>>
      <4>1. Unseen(c) = Pending(<<>>, None, c)
        BY <3>1, UnseenIs
      <4>2. DataOf(<<>>, c) = <<>> /\ Held(None) = <<>>
        BY DataOfEmpty, HeldTyped
      <4> QED BY <4>1, <4>2 DEF Pending
    <3> QED BY <3>2
  <2>2. Origs(<<>>) = <<>>
    BY DEF Origs
  <2>3. Pend = [c \in Channels |-> <<>>]
    BY <2>1, <2>2, PendIs
  <2>4. out = [c \in Channels |-> Nothing] /\ hurt = [c \in Channels |-> FALSE] /\ spoilt = FALSE
    BY DEF DataInit
  <2> QED BY <2>3, <2>4 DEF Stream!StreamInit, Pend
<1>2. KInv /\ [Next]_vars => [Stream!StreamNext]_<<[c \in Channels |-> InFlight(c)], out, hurt, spoilt>>
  BY StreamOrVoid DEF Pend
<1>3. KInv => SpoiltOnlyByFaults
  BY DEF KInv
<1> QED BY <1>1, <1>2, <1>3, KInvHolds, PTL DEF Spec, StreamsPayloads, Stream!StreamSpec
=============================================================================
