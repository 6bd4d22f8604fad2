---------------------------- MODULE EthRxProofs ----------------------------
(***************************************************************************)
(* Theorems about the receive ring of EthRx, for every number of           *)
(* descriptors, every frame size and any number of frames: up to the first *)
(* frame that takes several descriptors both sides of the ring stay in     *)
(* step, that frame is recognised too, and the ring implements the bounded *)
(* queue of FrameFifo.                                                     *)
(***************************************************************************)
EXTENDS EthRx, TLAPS, SequenceTheorems, FiniteSetTheorems, WellFoundedInduction

Segment == (0 .. MaxFrames) \X Nat
SegmentsOf(f, n) == [s \in 1 .. n |-> <<f, s>>]
Frames == {SegmentsOf(f, n) : f \in 1 .. MaxFrames, n \in 1 .. MaxSegs}

Descriptor == [own : BOOLEAN, fs : BOOLEAN, ls : BOOLEAN, fl : Nat]

TypeOK ==
    /\ Status \in [Desc -> Descriptor]
    /\ Buf \in [Desc -> Segment]
    /\ dma \in Desc /\ DMARxDescToGet \in Desc /\ FS_Rx_Desc \in Desc
    /\ arrived \in 0 .. MaxFrames
    /\ Seg_Count \in Nat /\ i \in Nat
    /\ pc \in {"poll", "poll2", "get", "copy", "release", "resume"}
    /\ frame \in [descriptor : Desc, buffer : Desc, length : Nat]
    /\ stored \in Seq(Frames)
    /\ log \in Seq(Seq(Segment))

\* The frame in the MAC: m segments are stored, l are left, and the DMA only
\* goes on with a frame when it owns the next descriptor.
FifoInv ==
    /\ \/ fifo = NoFrame
       \/ \E f \in 1 .. MaxFrames, m \in 0 .. MaxSegs, l \in 1 .. MaxSegs :
             /\ m + l <= MaxSegs
             /\ fifo = [f |-> f, segs |-> SegmentsOf(f, m), left |-> l]
    /\ Len(fifo.segs) > 0 => Status[dma].own

\* A frame of several descriptors has been stored; from then on Singles stays.
Complete == Singles < Len(stored)

\* Frames given back: the one being released counts once its descriptor is.
Taken == IF pc = "release" /\ i = 0 THEN Len(log) - 1 ELSE Len(log)

\* Single frames in the ring, and the segments of the first longer one.
Waiting == Singles - Taken
Long == IF Complete THEN Len(stored[Singles + 1]) ELSE Len(fifo.segs)

Held == {d \in Desc : ~Status[d].own}

\* The n descriptors from b on are the CPU's.
RingInv(b, n) ==
    /\ Held = {Ahead(b, j) : j \in 0 .. n - 1}
    /\ dma = Ahead(b, n)

\* They hold the waiting single frames and then the first longer one.
ContentInv(b, n) ==
    /\ Taken >= 0 /\ Waiting >= 0 /\ Waiting + Long <= n
    /\ ~Complete => n = Waiting + Long
    /\ \A j \in 0 .. Waiting - 1 :
          LET d == Ahead(b, j)
          IN  /\ Status[d].ls /\ Status[d].fl = 1
              /\ stored[Taken + 1 + j] = <<Buf[d]>>
    /\ \A j \in 0 .. Long - 1 :
          LET d == Ahead(b, Waiting + j)
          IN  /\ Status[d].fs <=> j = 0
              /\ Status[d].ls <=> Complete /\ j + 1 = Long
              /\ Status[d].fl = j + 1

\* How far ETH_CheckFrameReceived and low_level_input have got.
PollInv(b) ==
    /\ DMARxDescToGet = Ahead(b, Seg_Count)
    /\ Seg_Count > 0 => /\ Waiting = 0 /\ FS_Rx_Desc = b /\ Seg_Count <= Long
                        /\ Complete => Seg_Count < Long
GetInv(b) ==
    /\ Seg_Count > 0 /\ DMARxDescToGet = Ahead(b, Seg_Count - 1)
    /\ Waiting > 0 => Seg_Count = 1
    /\ Waiting = 0 => Complete /\ Seg_Count = Long
    /\ Seg_Count > 1 => FS_Rx_Desc = b
CopyInv(b) ==
    /\ Waiting > 0 => /\ Seg_Count = 1 /\ DMARxDescToGet = Ahead(b, 1)
                      /\ frame = [descriptor |-> b, buffer |-> b, length |-> 1]
    /\ Waiting = 0 => Complete
ReleaseInv(b) ==
    /\ Seg_Count = 1
    /\ \/ /\ i = 0 /\ Waiting > 0
          /\ frame.descriptor = b /\ DMARxDescToGet = Ahead(b, 1)
       \/ i = 1 /\ DMARxDescToGet = b

CpuInv(b) ==
    /\ pc \in {"poll", "poll2"} => PollInv(b)
    /\ pc = "get" => GetInv(b)
    /\ pc = "copy" => CopyInv(b)
    /\ pc = "release" => ReleaseInv(b)
    /\ pc = "resume" => Seg_Count = 0 /\ DMARxDescToGet = b

\* Nothing is claimed of the ring once a longer frame has been mishandled.
Inv ==
    /\ TypeOK
    /\ FifoInv
    /\ ~Undisturbed => Complete
    /\ Undisturbed => \E b \in Desc, n \in 0 .. RxBufNb :
                         RingInv(b, n) /\ ContentInv(b, n) /\ CpuInv(b)

-----------------------------------------------------------------------------
(* Arithmetic of the ring.                                                 *)

\* Ahead wraps at most once.
LEMMA AheadIs ==
    ASSUME NEW d \in Desc, NEW n \in 0 .. RxBufNb
    PROVE  /\ Ahead(d, n) \in Desc
           /\ Ahead(d, n) = IF d + n < RxBufNb THEN d + n ELSE d + n - RxBufNb
<1> USE EthRxAssumption DEF Desc
<1>1. d + n \in Nat /\ d + n < 2 * RxBufNb
  OBVIOUS
<1>2. CASE d + n < RxBufNb
  <2>1. \A x \in Nat : x < RxBufNb => x % RxBufNb = x
    OBVIOUS
  <2> QED BY <1>1, <1>2, <2>1 DEF Ahead
<1>3. CASE ~(d + n < RxBufNb)
  <2>1. \A x \in Nat : RxBufNb <= x /\ x < 2 * RxBufNb => x % RxBufNb = x - RxBufNb
    OBVIOUS
  <2>2. RxBufNb <= d + n
    BY <1>1, <1>3
  <2>3. (d + n) % RxBufNb = d + n - RxBufNb
    BY <1>1, <2>1, <2>2
  <2> QED BY <1>1, <1>3, <2>2, <2>3 DEF Ahead
<1> QED BY <1>2, <1>3

\* The chain of descriptors steps through the ring as the index does.
LEMMA AheadNext ==
    ASSUME NEW d \in Desc, NEW n \in 0 .. RxBufNb - 1
    PROVE  /\ NextDesc(d) \in Desc
           /\ Ahead(d, 0) = d
           /\ NextDesc(Ahead(d, n)) = Ahead(d, n + 1)
           /\ Ahead(NextDesc(d), n) = Ahead(d, n + 1)
<1> USE EthRxAssumption DEF Desc
<1>1. n \in 0 .. RxBufNb /\ n + 1 \in 0 .. RxBufNb /\ 0 \in 0 .. RxBufNb
  OBVIOUS
<1>2. NextDesc(d) \in Desc
  BY DEF NextDesc
<1>3. Ahead(d, 0) = d
  BY <1>1, AheadIs
<1>4. NextDesc(Ahead(d, n)) = Ahead(d, n + 1)
  <2>1. Ahead(d, n) = IF d + n < RxBufNb THEN d + n ELSE d + n - RxBufNb
    BY <1>1, AheadIs
  <2>2. Ahead(d, n + 1)
          = IF d + (n + 1) < RxBufNb THEN d + (n + 1) ELSE d + (n + 1) - RxBufNb
    BY <1>1, AheadIs
  <2> QED BY <2>1, <2>2 DEF NextDesc
<1>5. Ahead(NextDesc(d), n) = Ahead(d, n + 1)
  <2>1. Ahead(NextDesc(d), n) = IF NextDesc(d) + n < RxBufNb THEN NextDesc(d) + n
                               ELSE NextDesc(d) + n - RxBufNb
    BY <1>1, <1>2, AheadIs
  <2>2. Ahead(d, n + 1)
          = IF d + (n + 1) < RxBufNb THEN d + (n + 1) ELSE d + (n + 1) - RxBufNb
    BY <1>1, AheadIs
  <2> QED BY <2>1, <2>2 DEF NextDesc
<1> QED BY <1>2, <1>3, <1>4, <1>5

\* Within one round of the ring no descriptor comes twice.
LEMMA AheadDistinct ==
    ASSUME NEW d \in Desc, NEW e \in 0 .. RxBufNb - 1, NEW j \in 0 .. RxBufNb - 1,
           Ahead(d, e) = Ahead(d, j)
    PROVE  e = j
<1> USE EthRxAssumption DEF Desc
<1>1. e \in 0 .. RxBufNb /\ j \in 0 .. RxBufNb
  OBVIOUS
<1>2. /\ Ahead(d, e) = IF d + e < RxBufNb THEN d + e ELSE d + e - RxBufNb
      /\ Ahead(d, j) = IF d + j < RxBufNb THEN d + j ELSE d + j - RxBufNb
  BY <1>1, AheadIs
<1>3. \/ d + e = d + j \/ d + e - RxBufNb = d + j - RxBufNb
      \/ d + e = d + j - RxBufNb \/ d + e - RxBufNb = d + j
  BY <1>2, Zenon
<1> QED BY <1>3

\* The n descriptors from d on.
From(d, n) == {Ahead(d, j) : j \in 0 .. n - 1}

\* The CPU gives the first of its n descriptors back.
LEMMA FromTail ==
    ASSUME NEW d \in Desc, NEW n \in 1 .. RxBufNb
    PROVE  /\ From(NextDesc(d), n - 1) = From(d, n) \ {d}
           /\ d \in From(d, n)
<1> USE EthRxAssumption
<1>1. \A j \in 0 .. n - 2 : Ahead(NextDesc(d), j) = Ahead(d, j + 1)
  BY AheadNext
<1>2. d = Ahead(d, 0) /\ 0 \in 0 .. n - 1
  BY AheadNext
<1>3. \A j \in 1 .. n - 1 : Ahead(d, j) # d
  <2> SUFFICES ASSUME NEW j \in 1 .. n - 1, Ahead(d, j) = d PROVE FALSE
    OBVIOUS
  <2>1. j \in 0 .. RxBufNb - 1 /\ 0 \in 0 .. RxBufNb - 1
    OBVIOUS
  <2>2. j = 0
    BY <1>2, <2>1, AheadDistinct
  <2> QED BY <2>2
<1>4. From(NextDesc(d), n - 1) \subseteq From(d, n) \ {d}
  <2> SUFFICES ASSUME NEW j \in 0 .. n - 2
               PROVE  Ahead(NextDesc(d), j) \in From(d, n) \ {d}
    BY DEF From
  <2>1. j + 1 \in 1 .. n - 1 /\ j + 1 \in 0 .. n - 1
    OBVIOUS
  <2>2. Ahead(NextDesc(d), j) = Ahead(d, j + 1)
    BY <1>1
  <2> QED BY <1>3, <2>1, <2>2 DEF From
<1>5. From(d, n) \ {d} \subseteq From(NextDesc(d), n - 1)
  <2> SUFFICES ASSUME NEW j \in 0 .. n - 1, Ahead(d, j) # d
               PROVE  Ahead(d, j) \in From(NextDesc(d), n - 1)
    BY DEF From
  <2>1. j - 1 \in 0 .. n - 2 /\ (j - 1) + 1 = j
    BY <1>2
  <2>2. Ahead(NextDesc(d), j - 1) = Ahead(d, j)
    BY <1>1, <2>1
  <2> QED BY <2>1, <2>2 DEF From
<1> QED BY <1>2, <1>4, <1>5 DEF From

\* The DMA fills one more descriptor.
LEMMA FromAppend ==
    ASSUME NEW d \in Desc, NEW n \in 0 .. RxBufNb - 1
    PROVE  From(d, n + 1) = From(d, n) \cup {Ahead(d, n)}
<1>1. 0 .. (n + 1) - 1 = (0 .. n - 1) \cup {n}
  BY EthRxAssumption
<1> QED BY <1>1 DEF From

-----------------------------------------------------------------------------
(* The frames before the first one that takes several descriptors.         *)

\* Singles as a function of the frames stored.
SinglesOf(a) ==
    LET multi == {n \in 1 .. Len(a) : Len(a[n]) > 1}
    IN  IF multi = {} THEN Len(a) ELSE Min(multi) - 1

\* s is the length of the longest prefix of a with single frames only.
SinglePrefix(a, s) ==
    /\ s \in 0 .. Len(a)
    /\ \A e \in 1 .. s : ~(Len(a[e]) > 1)
    /\ s < Len(a) => Len(a[s + 1]) > 1

\* A nonempty set of numbers has a least element.
LEMMA Least ==
    ASSUME NEW T \in SUBSET Nat, T # {}
    PROVE  \E x \in T : \A y \in T : x <= y
<1> DEFINE R == OpToRel(<, Nat)
<1>1. IsWellFoundedOn(R, Nat)
  BY NatLessThanWellFounded
<1>2. PICK x \in T : \A y \in T : ~ (<<y, x>> \in R)
  <2> HIDE DEF R
  <2> QED BY <1>1, WFMin
<1>3. \A y \in T : ~(y < x)
  BY <1>2 DEF OpToRel
<1> QED BY <1>3

\* What Singles computes.
LEMMA SinglesIsPrefix ==
    ASSUME NEW S, NEW a \in Seq(S)
    PROVE  SinglePrefix(a, SinglesOf(a))
<1> DEFINE multi == {n \in 1 .. Len(a) : Len(a[n]) > 1}
<1>1. SinglesOf(a) = IF multi = {} THEN Len(a) ELSE Min(multi) - 1
  BY DEF SinglesOf
<1>2. Len(a) \in Nat
  OBVIOUS
<1>3. CASE multi = {}
  BY <1>1, <1>2, <1>3 DEF SinglePrefix
<1>4. CASE multi # {}
  <2>1. multi \in SUBSET Nat
    OBVIOUS
  <2>2. Min(multi) \in multi /\ \A y \in multi : Min(multi) <= y
    <3> HIDE DEF multi
    <3> QED BY <1>4, <2>1, Least DEF Min
  <2> DEFINE m == Min(multi)
  <2>3. m \in 1 .. Len(a) /\ Len(a[m]) > 1
    BY <2>2
  <2>4. \A e \in 1 .. Len(a) : Len(a[e]) > 1 => m <= e
    BY <2>2
  <2>5. SinglesOf(a) = m - 1
    BY <1>1, <1>4
  <2> HIDE DEF m, multi
  <2>6. m - 1 \in 0 .. Len(a) /\ (m - 1) + 1 = m
    BY <1>2, <2>3
  <2>7. \A e \in 1 .. m - 1 : ~(Len(a[e]) > 1)
    BY <1>2, <2>3, <2>4
  <2> QED BY <2>3, <2>5, <2>6, <2>7 DEF SinglePrefix
<1> QED BY <1>3, <1>4

\* Such a prefix is unique.
LEMMA SinglePrefixUnique ==
    ASSUME NEW S, NEW a \in Seq(S), NEW s, NEW t,
           SinglePrefix(a, s), SinglePrefix(a, t)
    PROVE  s = t
<1>1. s \in Nat /\ t \in Nat /\ Len(a) \in Nat /\ s <= Len(a) /\ t <= Len(a)
  BY DEF SinglePrefix
<1>2. ~(s < t)
  <2> SUFFICES ASSUME s < t PROVE FALSE
    OBVIOUS
  <2>1. s + 1 \in 1 .. t /\ s < Len(a)
    BY <1>1
  <2> QED BY <2>1 DEF SinglePrefix
<1>3. ~(t < s)
  <2> SUFFICES ASSUME t < s PROVE FALSE
    OBVIOUS
  <2>1. t + 1 \in 1 .. s /\ t < Len(a)
    BY <1>1
  <2> QED BY <2>1 DEF SinglePrefix
<1> QED BY <1>1, <1>2, <1>3

\* How Singles moves when a frame is stored.
LEMMA SinglesAppend ==
    ASSUME NEW S, NEW a \in Seq(S), NEW f \in S
    PROVE  SinglesOf(Append(a, f)) =
             IF SinglesOf(a) = Len(a) /\ ~(Len(f) > 1) THEN Len(a) + 1 ELSE SinglesOf(a)
<1> DEFINE b == Append(a, f)
           s == IF SinglesOf(a) = Len(a) /\ ~(Len(f) > 1) THEN Len(a) + 1 ELSE SinglesOf(a)
<1>1. /\ b \in Seq(S) /\ Len(b) = Len(a) + 1 /\ b[Len(a) + 1] = f
      /\ \A e \in 1 .. Len(a) : b[e] = a[e]
      /\ Len(a) \in Nat
  OBVIOUS
<1>2. SinglePrefix(b, SinglesOf(b)) /\ SinglePrefix(a, SinglesOf(a))
  BY <1>1, SinglesIsPrefix
<1>3. SinglePrefix(b, s)
  <2> DEFINE t == SinglesOf(a)
  <2> HIDE DEF t, b
  <2>1. /\ t \in 0 .. Len(a)
        /\ \A e \in 1 .. t : ~(Len(a[e]) > 1)
        /\ t < Len(a) => Len(a[t + 1]) > 1
    BY <1>2 DEF SinglePrefix, t
  <2>2. CASE t = Len(a) /\ ~(Len(f) > 1)
    <3>1. s = Len(a) + 1
      BY <2>2 DEF t
    <3>2. \A e \in 1 .. Len(a) + 1 : ~(Len(b[e]) > 1)
      BY <1>1, <2>1, <2>2
    <3> HIDE DEF s
    <3> QED BY <1>1, <3>1, <3>2 DEF SinglePrefix
  <2>3. CASE ~(t = Len(a) /\ ~(Len(f) > 1))
    <3>1. s = t
      BY <2>3 DEF t
    <3>2. \A e \in 1 .. t : ~(Len(b[e]) > 1)
      BY <1>1, <2>1
    <3>3. Len(b[t + 1]) > 1
      <4>1. CASE t = Len(a)
        BY <1>1, <2>3, <4>1
      <4>2. CASE t # Len(a)
        BY <1>1, <2>1, <4>2
      <4> QED BY <4>1, <4>2
    <3> HIDE DEF s
    <3> QED BY <1>1, <2>1, <3>1, <3>2, <3>3 DEF SinglePrefix
  <2> QED BY <2>2, <2>3
<1> QED BY <1>1, <1>2, <1>3, SinglePrefixUnique

\* A part of a sequence is not touched by what is appended behind it.
LEMMA SubSeqAppend ==
    ASSUME NEW S, NEW s \in Seq(S), NEW x \in S, NEW m \in Nat \ {0}, NEW n \in Nat,
           n <= Len(s)
    PROVE  SubSeq(Append(s, x), m, n) = SubSeq(s, m, n)
<1> DEFINE b == Append(s, x)
<1>1. b \in Seq(S) /\ Len(b) = Len(s) + 1 /\ \A e \in 1 .. Len(s) : b[e] = s[e]
  OBVIOUS
<1> HIDE DEF b
<1>2. \A e \in m .. n : e \in 1 .. Len(s) /\ s[e] \in S /\ b[e] = s[e]
  BY <1>1
<1>3. /\ SubSeq(b, m, n) \in Seq(S) /\ SubSeq(s, m, n) \in Seq(S)
      /\ Len(SubSeq(b, m, n)) = Len(SubSeq(s, m, n))
      /\ Len(SubSeq(s, m, n)) = IF m <= n THEN n - m + 1 ELSE 0
      /\ \A e \in 1 .. n - m + 1 : SubSeq(b, m, n)[e] = b[m + e - 1]
      /\ \A e \in 1 .. n - m + 1 : SubSeq(s, m, n)[e] = s[m + e - 1]
  <2>1. \A e \in m .. n : s[e] \in S /\ b[e] \in S
    BY <1>2
  <2>2. m \in Int /\ n \in Int
    OBVIOUS
  <2> QED BY <2>1, <2>2, SubSeqProperties
<1>4. \A e \in 1 .. Len(SubSeq(s, m, n)) : SubSeq(b, m, n)[e] = SubSeq(s, m, n)[e]
  <2> SUFFICES ASSUME NEW e \in 1 .. Len(SubSeq(s, m, n))
               PROVE  SubSeq(b, m, n)[e] = SubSeq(s, m, n)[e]
    OBVIOUS
  <2>1. e \in 1 .. n - m + 1 /\ m + e - 1 \in m .. n
    BY <1>3
  <2> QED BY <1>2, <1>3, <2>1
<1>5. SubSeq(b, m, n) = SubSeq(s, m, n)
  BY <1>3, <1>4, SeqEqual
<1> QED BY <1>5 DEF b

\* Ahead is a descriptor however far it goes.
LEMMA AheadDesc ==
    ASSUME NEW d \in Desc, NEW n \in Nat
    PROVE  Ahead(d, n) \in Desc
<1>1. \A x \in Nat : x % RxBufNb \in 0 .. RxBufNb - 1
  BY EthRxAssumption
<1>2. d + n \in Nat
  BY EthRxAssumption DEF Desc
<1> QED BY <1>1, <1>2 DEF Ahead, Desc

\* The descriptor behind n < RxBufNb others is not one of them; behind a whole
\* round comes the first again.
LEMMA FromEnd ==
    ASSUME NEW d \in Desc, NEW n \in 0 .. RxBufNb
    PROVE  Ahead(d, n) \in From(d, n) <=> n = RxBufNb
<1> USE EthRxAssumption
<1>1. CASE n = RxBufNb
  <2>1. Ahead(d, n) = d
    BY <1>1, AheadIs DEF Desc
  <2>2. d \in From(d, n)
    BY <1>1, FromTail
  <2> QED BY <1>1, <2>1, <2>2
<1>2. CASE n # RxBufNb
  <2> SUFFICES ASSUME NEW j \in 0 .. n - 1, Ahead(d, n) = Ahead(d, j) PROVE FALSE
    BY <1>2 DEF From
  <2>1. j \in 0 .. RxBufNb - 1 /\ n \in 0 .. RxBufNb - 1
    BY <1>2
  <2>2. j = n
    BY <2>1, AheadDistinct
  <2> QED BY <2>2
<1> QED BY <1>1, <1>2

\* n descriptors of one round are n descriptors.
LEMMA FromCardinality ==
    ASSUME NEW d \in Desc, NEW n \in 0 .. RxBufNb
    PROVE  Cardinality(From(d, n)) = n
<1> USE EthRxAssumption
<1> DEFINE f == [e \in 1 .. n |-> Ahead(d, e - 1)]
<1>1. \A e \in 1 .. n : e - 1 \in 0 .. n - 1 /\ e - 1 \in 0 .. RxBufNb - 1
  OBVIOUS
<1>2. f \in Injection(1 .. n, From(d, n))
  <2>1. f \in [1 .. n -> From(d, n)]
    BY <1>1 DEF From
  <2>2. \A a, b \in 1 .. n : f[a] = f[b] => a = b
    <3> SUFFICES ASSUME NEW a \in 1 .. n, NEW b \in 1 .. n, f[a] = f[b] PROVE a = b
      OBVIOUS
    <3>1. a - 1 = b - 1
      BY <1>1, AheadDistinct
    <3> QED BY <3>1
  <2> HIDE DEF f
  <2> QED BY <2>1, <2>2 DEF Injection, IsInjective
<1>3. f \in Surjection(1 .. n, From(d, n))
  <2>1. \A j \in 0 .. n - 1 : j + 1 \in 1 .. n /\ f[j + 1] = Ahead(d, j)
    OBVIOUS
  <2>2. f \in [1 .. n -> From(d, n)]
    BY <1>1 DEF From
  <2> HIDE DEF f
  <2>3. \A t \in From(d, n) : \E e \in 1 .. n : f[e] = t
    BY <2>1 DEF From
  <2> QED BY <2>2, <2>3 DEF Surjection
<1> HIDE DEF f
<1>4. ExistsBijection(1 .. n, From(d, n))
  BY <1>2, <1>3 DEF ExistsBijection, Bijection
<1>5. n \in Nat
  OBVIOUS
<1> QED BY <1>4, <1>5, FS_CountingElements

-----------------------------------------------------------------------------
(* Types and the frame in the MAC.                                         *)

\* A frame is a sequence of segments; a single frame is its one segment.
LEMMA FrameFacts ==
    ASSUME NEW f \in 1 .. MaxFrames, NEW n \in 0 .. MaxSegs
    PROVE  /\ SegmentsOf(f, n) \in Seq(Segment)
           /\ Len(SegmentsOf(f, n)) = n
           /\ n > 0 => SegmentsOf(f, n) \in Frames
           /\ n = 0 => SegmentsOf(f, n) = <<>>
           /\ n = 1 => SegmentsOf(f, n) = <<<<f, 1>>>>
           /\ Append(SegmentsOf(f, n), <<f, n + 1>>) = SegmentsOf(f, n + 1)
<1> USE EthRxAssumption
<1>1. n \in Nat /\ f \in 0 .. MaxFrames
  OBVIOUS
<1>2. \A s \in 1 .. n : <<f, s>> \in Segment
  BY <1>1 DEF Segment
<1>3. SegmentsOf(f, n) \in [1 .. n -> Segment]
  BY <1>2 DEF SegmentsOf
<1>4. SegmentsOf(f, n) \in Seq(Segment) /\ Len(SegmentsOf(f, n)) = n
  BY <1>1, <1>3
<1>5. n > 0 => SegmentsOf(f, n) \in Frames
  BY <1>1 DEF Frames
<1>6. n = 0 => SegmentsOf(f, n) = <<>>
  BY <1>4
<1>7. n = 1 => SegmentsOf(f, n) = <<<<f, 1>>>>
  BY <1>4 DEF SegmentsOf
<1>8. Append(SegmentsOf(f, n), <<f, n + 1>>) = SegmentsOf(f, n + 1)
  <2> DEFINE a == Append(SegmentsOf(f, n), <<f, n + 1>>)
             b == SegmentsOf(f, n + 1)
  <2>1. <<f, n + 1>> \in Segment
    BY <1>1 DEF Segment
  <2>2. /\ a \in Seq(Segment) /\ Len(a) = n + 1 /\ a[n + 1] = <<f, n + 1>>
        /\ \A s \in 1 .. n : a[s] = SegmentsOf(f, n)[s]
    BY <1>4, <2>1, AppendProperties
  <2>3. \A s \in 1 .. n : SegmentsOf(f, n)[s] = <<f, s>>
    BY DEF SegmentsOf
  <2>4. b \in Seq(Segment) /\ Len(b) = n + 1 /\ \A s \in 1 .. n + 1 : b[s] = <<f, s>>
    <3>1. \A s \in 1 .. n + 1 : <<f, s>> \in Segment
      BY <1>1 DEF Segment
    <3>2. b \in [1 .. n + 1 -> Segment] /\ \A s \in 1 .. n + 1 : b[s] = <<f, s>>
      BY <3>1 DEF SegmentsOf
    <3> HIDE DEF b
    <3> QED BY <1>1, <3>2
  <2> HIDE DEF a, b
  <2>5. \A s \in 1 .. n + 1 : a[s] = b[s]
    <3> SUFFICES ASSUME NEW s \in 1 .. n + 1 PROVE a[s] = b[s]
      OBVIOUS
    <3>1. CASE s = n + 1
      BY <2>2, <2>4, <3>1
    <3>2. CASE s # n + 1
      <4>1. s \in 1 .. n
        BY <1>1, <3>2
      <4> QED BY <2>2, <2>3, <2>4, <4>1
    <3> QED BY <3>1, <3>2
  <2>6. a = b
    BY <2>2, <2>4, <2>5, SeqEqual
  <2> QED BY <2>6 DEF a, b
<1> QED BY <1>4, <1>5, <1>6, <1>7, <1>8

\* Segment m + 1 of frame f is stored, as the last one or not.
Stores(f, m, last) ==
    /\ Len(fifo.segs) = m
    /\ Status[dma].own
    /\ Buf' = [Buf EXCEPT ![dma] = <<f, m + 1>>]
    /\ Status' = [Status EXCEPT ![dma] =
          [own |-> FALSE, fs |-> m + 1 = 1, ls |-> last, fl |-> m + 1]]
    /\ dma' = NextDesc(dma)
    /\ last => /\ fifo' = NoFrame
               /\ stored' = Append(stored, SegmentsOf(f, m + 1))
    /\ ~last => /\ stored' = stored
                /\ Status[NextDesc(dma)].own
                /\ \E l \in 1 .. MaxSegs :
                      /\ (m + 1) + l <= MaxSegs
                      /\ fifo' = [f |-> f, segs |-> SegmentsOf(f, m + 1), left |-> l]

\* What DmaStore does, in terms of the segments stored so far.
LEMMA StoreFacts ==
    ASSUME FifoInv, DmaStore
    PROVE  \E f \in 1 .. MaxFrames, m \in 0 .. MaxSegs - 1, last \in BOOLEAN :
              Stores(f, m, last)
<1> USE EthRxAssumption
<1>1. PICK f \in 1 .. MaxFrames, m \in 0 .. MaxSegs, l \in 1 .. MaxSegs :
          /\ m + l <= MaxSegs
          /\ fifo = [f |-> f, segs |-> SegmentsOf(f, m), left |-> l]
  BY DEF FifoInv, DmaStore
<1>2. m \in 0 .. MaxSegs - 1
  BY <1>1
<1>3. /\ fifo.f = f /\ fifo.segs = SegmentsOf(f, m) /\ fifo.left = l
      /\ Len(fifo.segs) = m
      /\ Append(fifo.segs, <<fifo.f, Len(fifo.segs) + 1>>) = SegmentsOf(f, m + 1)
  <2>1. fifo.f = f /\ fifo.segs = SegmentsOf(f, m) /\ fifo.left = l
    BY <1>1
  <2> QED BY <2>1, FrameFacts
<1> DEFINE g == SegmentsOf(f, m + 1)
           last == fifo.left = 1 \/ ~Status[NextDesc(dma)].own
<1>4. Len(g) = m + 1 /\ Last(g) = <<f, m + 1>>
  <2>1. m + 1 \in 0 .. MaxSegs /\ m + 1 \in 1 .. m + 1
    BY <1>2
  <2>2. Len(g) = m + 1
    BY <2>1, FrameFacts
  <2>3. g[m + 1] = <<f, m + 1>>
    BY <2>1 DEF SegmentsOf
  <2> HIDE DEF g
  <2> QED BY <2>2, <2>3 DEF Last
<1>5. /\ Status[dma].own
      /\ Buf' = [Buf EXCEPT ![dma] = Last(g)]
      /\ Status' = [Status EXCEPT ![dma] =
            [own |-> FALSE, fs |-> Len(g) = 1, ls |-> last, fl |-> Len(g)]]
      /\ IF last THEN fifo' = NoFrame /\ stored' = Append(stored, g)
         ELSE fifo' = [fifo EXCEPT !.segs = g, !.left = @ - 1] /\ stored' = stored
      /\ dma' = NextDesc(dma)
  BY <1>3 DEF DmaStore
<1>6. ~last => /\ Status[NextDesc(dma)].own
               /\ l - 1 \in 1 .. MaxSegs /\ (m + 1) + (l - 1) <= MaxSegs
               /\ fifo' = [f |-> f, segs |-> g, left |-> l - 1]
  <2> SUFFICES ASSUME ~last
               PROVE  /\ Status[NextDesc(dma)].own
                      /\ l - 1 \in 1 .. MaxSegs /\ (m + 1) + (l - 1) <= MaxSegs
                      /\ fifo' = [f |-> f, segs |-> g, left |-> l - 1]
    OBVIOUS
  <2>1. l # 1 /\ Status[NextDesc(dma)].own
    BY <1>3
  <2>2. l - 1 \in 1 .. MaxSegs /\ (m + 1) + (l - 1) <= MaxSegs
    BY <1>1, <2>1
  <2>3. fifo' = [fifo EXCEPT !.segs = g, !.left = @ - 1]
    BY <1>5
  <2> HIDE DEF g, last
  <2>4. fifo' = [f |-> f, segs |-> g, left |-> l - 1]
    BY <1>1, <2>3
  <2> QED BY <2>1, <2>2, <2>4
<1>7. last \in BOOLEAN
  OBVIOUS
<1>8. Stores(f, m, last)
  <2> HIDE DEF last
  <2> QED BY <1>3, <1>4, <1>5, <1>6, <1>7 DEF Stores
<1> QED BY <1>2, <1>7, <1>8

\* The next descriptor is one of the ring, and another one when there are two.
LEMMA NextDescFacts ==
    ASSUME NEW d \in Desc
    PROVE  /\ NextDesc(d) \in Desc
           /\ MaxSegs > 1 => NextDesc(d) # d
BY EthRxAssumption DEF NextDesc, Desc

\* A function on 1..n is a sequence.
LEMMA FcnIsSeq ==
    ASSUME NEW S, NEW n \in Nat, NEW s \in [1 .. n -> S]
    PROVE  s \in Seq(S)
OBVIOUS

\* Types are kept by every step.
LEMMA TypeNext == TypeOK /\ FifoInv /\ [Next]_vars => TypeOK'
<1> SUFFICES ASSUME TypeOK, FifoInv, [Next]_vars PROVE TypeOK'
  OBVIOUS
<1> USE EthRxAssumption DEF TypeOK, hw, cpu
<1>1. CASE UNCHANGED vars
  BY <1>1 DEF vars
<1>2. CASE FrameArrives
  BY <1>2 DEF FrameArrives
<1>3. CASE DmaStore
  <2>1. PICK f \in 1 .. MaxFrames, m \in 0 .. MaxSegs - 1, last \in BOOLEAN :
          Stores(f, m, last)
    BY <1>3, StoreFacts
  <2>2. m + 1 \in 1 .. MaxSegs /\ m + 1 \in Nat /\ m + 1 \in 0 .. MaxSegs
    OBVIOUS
  <2>3. <<f, m + 1>> \in Segment
    BY <2>2 DEF Segment
  <2>4. Buf' \in [Desc -> Segment]
    BY <2>1, <2>3 DEF Stores
  <2>5. Status' \in [Desc -> Descriptor]
    <3>1. [own |-> FALSE, fs |-> m + 1 = 1, ls |-> last, fl |-> m + 1] \in Descriptor
      BY <2>2 DEF Descriptor
    <3> QED BY <2>1, <3>1 DEF Stores
  <2>6. dma' \in Desc
    BY <2>1, NextDescFacts DEF Stores
  <2>7. stored' \in Seq(Frames)
    <3>1. SegmentsOf(f, m + 1) \in Frames
      BY <2>2, FrameFacts
    <3>2. Append(stored, SegmentsOf(f, m + 1)) \in Seq(Frames)
      BY <3>1
    <3> QED BY <2>1, <3>2 DEF Stores
  <2> QED BY <1>3, <2>4, <2>5, <2>6, <2>7 DEF DmaStore
<1>4. CASE DmaUnavailable \/ DmaSuspend
  BY <1>4 DEF DmaUnavailable, DmaSuspend
<1>5. CASE ETH_CheckFrameReceived
  <2>1. DMARxDescToGet' \in Desc /\ FS_Rx_Desc' \in Desc
    BY <1>5, NextDescFacts DEF ETH_CheckFrameReceived, CheckLast, CheckFirst,
       CheckIntermediate, CheckNothing
  <2>2. Seg_Count' \in Nat
    BY <1>5 DEF ETH_CheckFrameReceived, CheckLast, CheckFirst,
       CheckIntermediate, CheckNothing
  <2>3. pc' \in {"poll", "poll2", "get"}
    BY <1>5 DEF ETH_CheckFrameReceived, CheckLast, CheckFirst,
       CheckIntermediate, CheckNothing
  <2> QED BY <1>5, <2>1, <2>2, <2>3 DEF ETH_CheckFrameReceived, CheckLast, CheckFirst,
       CheckIntermediate, CheckNothing
<1>6. CASE ETH_Get_Received_Frame
  <2>1. DMARxDescToGet' \in Desc
    BY <1>6, NextDescFacts DEF ETH_Get_Received_Frame
  <2>2. frame' \in [descriptor : Desc, buffer : Desc, length : Nat]
    <3>1. Status[DMARxDescToGet].fl \in Nat
      BY DEF Descriptor
    <3> QED BY <1>6, <3>1 DEF ETH_Get_Received_Frame
  <2> QED BY <1>6, <2>1, <2>2 DEF ETH_Get_Received_Frame
<1>7. CASE CopyToPbuf
  <2>1. Gathered \in Seq(Segment) /\ NoMem \in Seq(Segment)
    <3>1. frame.length \in Nat /\ frame.buffer \in Desc /\ frame.descriptor \in Desc
      OBVIOUS
    <3>2. \A e \in 1 .. frame.length : Ahead(frame.descriptor, e - 1) \in Desc
      <4>1. \A e \in 1 .. frame.length : e - 1 \in Nat
        BY <3>1
      <4> QED BY <3>1, <4>1, AheadDesc
    <3>3. Gathered \in [1 .. frame.length -> Segment]
      BY <3>1, <3>2 DEF Gathered
    <3> HIDE DEF TypeOK, hw, cpu
    <3>4. Gathered \in Seq(Segment)
      BY <3>1, <3>3, FcnIsSeq
    <3> QED BY <3>4 DEF NoMem
  <2>2. \A r \in Seq(Segment) : Append(log, r) \in Seq(Seq(Segment))
    OBVIOUS
  <2>3. log' \in Seq(Seq(Segment))
    BY <1>7, <2>1, <2>2 DEF CopyToPbuf
  <2> QED BY <1>7, <2>3 DEF CopyToPbuf
<1>8. CASE ReleaseDescriptor
  <2>1. Ahead(frame.descriptor, i) \in Desc
    BY AheadDesc
  <2>2. [own |-> TRUE, fs |-> FALSE, ls |-> FALSE, fl |-> 0] \in Descriptor
    BY DEF Descriptor
  <2>3. Status' \in [Desc -> Descriptor]
    BY <1>8, <2>1, <2>2 DEF ReleaseDescriptor
  <2>4. i' \in Nat /\ Seg_Count' \in Nat /\ pc' \in {"release", "resume"}
    BY <1>8 DEF ReleaseDescriptor
  <2> QED BY <1>8, <2>3, <2>4 DEF ReleaseDescriptor
<1>9. CASE ResumeReception
  BY <1>9 DEF ResumeReception
<1> QED BY <1>1, <1>2, <1>3, <1>4, <1>5, <1>6, <1>7, <1>8, <1>9
        DEF Next, Dma, MainLoop, low_level_input

\* The frame in the MAC: a frame that goes on finds its next descriptor free,
\* since the CPU only gives descriptors back.
LEMMA FifoNext == TypeOK /\ FifoInv /\ [Next]_vars => FifoInv'
<1> SUFFICES ASSUME TypeOK, FifoInv, [Next]_vars PROVE FifoInv'
  OBVIOUS
<1> USE EthRxAssumption
<1>0. NoFrame.segs = <<>> /\ Len(NoFrame.segs) = 0
  BY DEF NoFrame
<1>1. CASE FrameArrives
  <2>1. PICK l \in 1 .. MaxSegs : fifo' = [f |-> arrived + 1, segs |-> <<>>, left |-> l]
    BY <1>1 DEF FrameArrives
  <2>2. arrived + 1 \in 1 .. MaxFrames
    BY <1>1 DEF FrameArrives, TypeOK
  <2>3. SegmentsOf(arrived + 1, 0) = <<>>
    BY <2>2, FrameFacts
  <2>4. 0 \in 0 .. MaxSegs /\ 0 + l <= MaxSegs /\ Len(<<>>) = 0
    OBVIOUS
  <2>5. fifo'.segs = <<>>
    BY <2>1
  <2>6. \E f \in 1 .. MaxFrames, m \in 0 .. MaxSegs, e \in 1 .. MaxSegs :
             /\ m + e <= MaxSegs
             /\ fifo' = [f |-> f, segs |-> SegmentsOf(f, m), left |-> e]
    BY <2>1, <2>2, <2>3, <2>4
  <2> QED BY <2>4, <2>5, <2>6 DEF FifoInv
<1>2. CASE DmaStore
  <2>1. PICK f \in 1 .. MaxFrames, m \in 0 .. MaxSegs - 1, last \in BOOLEAN :
          Stores(f, m, last)
    BY <1>2, StoreFacts
  <2>2. CASE last
    BY <1>0, <2>1, <2>2 DEF Stores, FifoInv
  <2>3. CASE ~last
    <3>1. PICK l \in 1 .. MaxSegs :
            /\ (m + 1) + l <= MaxSegs
            /\ fifo' = [f |-> f, segs |-> SegmentsOf(f, m + 1), left |-> l]
      BY <2>1, <2>3 DEF Stores
    <3>2. m + 1 \in 0 .. MaxSegs /\ MaxSegs > 1
      BY <3>1
    <3>3. Status'[dma'].own
      <4>1. NextDesc(dma) \in Desc /\ NextDesc(dma) # dma
        BY <3>2, NextDescFacts DEF TypeOK
      <4> QED BY <2>1, <2>3, <4>1 DEF Stores, TypeOK
    <3> QED BY <3>1, <3>2, <3>3 DEF FifoInv
  <2> QED BY <2>2, <2>3
<1>3. CASE DmaUnavailable
  BY <1>0, <1>3 DEF DmaUnavailable, FifoInv
<1>4. CASE DmaSuspend \/ MainLoop \/ UNCHANGED vars
  <2>1. UNCHANGED <<fifo, dma>>
    BY <1>4 DEF DmaSuspend, MainLoop, ETH_CheckFrameReceived, CheckLast, CheckFirst,
       CheckIntermediate, CheckNothing, low_level_input, ETH_Get_Received_Frame,
       CopyToPbuf, ReleaseDescriptor, ResumeReception, vars, hw, cpu
  <2>2. \A d \in Desc : Status[d].own => Status'[d].own
    <3>1. CASE ReleaseDescriptor
      <4> DEFINE c == Ahead(frame.descriptor, i)
                 r == [own |-> TRUE, fs |-> FALSE, ls |-> FALSE, fl |-> 0]
      <4>1. Status' = Status \/ Status' = [Status EXCEPT ![c] = r]
        BY <3>1 DEF ReleaseDescriptor
      <4>2. r.own
        OBVIOUS
      <4> HIDE DEF c, r
      <4>3. \A d \in Desc : Status'[d] = Status[d] \/ Status'[d] = r
        BY <4>1 DEF TypeOK
      <4> QED BY <4>2, <4>3
    <3>2. CASE ~ReleaseDescriptor
      BY <1>4, <3>2 DEF DmaSuspend, MainLoop, ETH_CheckFrameReceived, CheckLast,
         CheckFirst, CheckIntermediate, CheckNothing, low_level_input,
         ETH_Get_Received_Frame, CopyToPbuf, ResumeReception, vars, hw, cpu
    <3> QED BY <3>1, <3>2
  <2> QED BY <2>1, <2>2 DEF FifoInv, TypeOK
<1> QED BY <1>1, <1>2, <1>3, <1>4 DEF Next, Dma

-----------------------------------------------------------------------------
(* The ring up to the first long frame.                                    *)

\* The counts are numbers.
LEMMA CountFacts ==
    ASSUME TypeOK, FifoInv
    PROVE  /\ Singles = SinglesOf(stored)
           /\ Singles \in Nat /\ Singles <= Len(stored)
           /\ Len(stored) \in Nat /\ Len(log) \in Nat
           /\ Long \in Nat /\ Taken \in Int /\ Waiting \in Int
           /\ Waiting = Singles - Taken
           /\ Complete <=> Singles # Len(stored)
           /\ Complete => Long = Len(stored[Singles + 1]) /\ Long > 1
           /\ ~Complete => Long = Len(fifo.segs)
<1> USE EthRxAssumption
<1>1. Singles = SinglesOf(stored)
  BY DEF Singles, SinglesOf
<1>2. stored \in Seq(Frames) /\ log \in Seq(Seq(Segment))
  BY DEF TypeOK
<1>3. SinglePrefix(stored, Singles)
  BY <1>1, <1>2, SinglesIsPrefix
<1>4. Len(stored) \in Nat /\ Len(log) \in Nat
  BY <1>2
<1>5. Singles \in Nat /\ Singles <= Len(stored)
  BY <1>3, <1>4 DEF SinglePrefix
<1>6. Complete => Len(stored[Singles + 1]) > 1 /\ Len(stored[Singles + 1]) \in Nat
  <2> SUFFICES ASSUME Complete
               PROVE  Len(stored[Singles + 1]) > 1 /\ Len(stored[Singles + 1]) \in Nat
    OBVIOUS
  <2>1. Len(stored[Singles + 1]) > 1
    BY <1>3 DEF Complete, SinglePrefix
  <2>2. Singles + 1 \in 1 .. Len(stored)
    BY <1>4, <1>5 DEF Complete
  <2>3. stored[Singles + 1] \in Frames
    BY <1>2, <2>2
  <2>4. PICK f \in 1 .. MaxFrames, n \in 1 .. MaxSegs : stored[Singles + 1] = SegmentsOf(f, n)
    BY <2>3 DEF Frames
  <2>5. n \in 0 .. MaxSegs /\ n \in Nat
    OBVIOUS
  <2>6. Len(SegmentsOf(f, n)) = n
    BY <2>5, FrameFacts
  <2> QED BY <2>1, <2>4, <2>5, <2>6
<1>7. Len(fifo.segs) \in Nat
  <2>1. CASE fifo = NoFrame
    BY <2>1 DEF NoFrame
  <2>2. CASE fifo # NoFrame
    <3>1. PICK f \in 1 .. MaxFrames, m \in 0 .. MaxSegs, l \in 1 .. MaxSegs :
            fifo = [f |-> f, segs |-> SegmentsOf(f, m), left |-> l]
      BY <2>2 DEF FifoInv
    <3>2. fifo.segs = SegmentsOf(f, m) /\ m \in Nat
      BY <3>1
    <3> QED BY <3>2, FrameFacts
  <2> QED BY <2>1, <2>2
<1>8. Taken \in Int
  BY <1>4 DEF Taken
<1>9. Waiting = Singles - Taken /\ Waiting \in Int
  BY <1>5, <1>8 DEF Waiting
<1>10. Complete <=> Singles # Len(stored)
  BY <1>4, <1>5 DEF Complete
<1>11. Long \in Nat /\ (Complete => Long = Len(stored[Singles + 1]) /\ Long > 1)
       /\ (~Complete => Long = Len(fifo.segs))
  BY <1>6, <1>7 DEF Long
<1> QED BY <1>1, <1>4, <1>5, <1>8, <1>9, <1>10, <1>11

\* A descriptor of the CPU that ETH_CheckFrameReceived looks at is the next
\* single frame, or the next segment of the longer one.
LEMMA HeldPosition ==
    ASSUME TypeOK, FifoInv, NEW b \in Desc, NEW n \in 0 .. RxBufNb,
           RingInv(b, n), ContentInv(b, n), PollInv(b), ~Status[DMARxDescToGet].own
    PROVE  LET s == Status[DMARxDescToGet]
           IN  \/ Waiting > 0 /\ Seg_Count = 0 /\ s.ls
               \/ /\ Waiting = 0 /\ Seg_Count < Long
                  /\ s.fs <=> Seg_Count = 0
                  /\ s.ls <=> Complete /\ Seg_Count + 1 = Long
<1> USE EthRxAssumption
<1>1. /\ Seg_Count \in Nat /\ DMARxDescToGet \in Desc /\ Waiting >= 0
      /\ DMARxDescToGet = Ahead(b, Seg_Count)
      /\ Seg_Count > 0 => /\ Waiting = 0 /\ Seg_Count <= Long
                          /\ Complete => Seg_Count < Long
  BY DEF TypeOK, ContentInv, PollInv
<1>2. CASE Waiting > 0
  <2>1. Seg_Count = 0 /\ 0 \in 0 .. Waiting - 1
    BY <1>1, <1>2, CountFacts
  <2> QED BY <1>1, <1>2, <2>1 DEF ContentInv
<1>3. CASE ~(Waiting > 0)
  <2>1. Waiting = 0
    BY <1>1, <1>3, CountFacts
  <2>2. Seg_Count < Long
    <3> SUFFICES ASSUME ~(Seg_Count < Long) PROVE FALSE
      OBVIOUS
    <3>1. Seg_Count = Long /\ ~Complete
      BY <1>1, CountFacts
    <3>2. n = Seg_Count
      BY <2>1, <3>1, CountFacts DEF ContentInv
    <3>3. DMARxDescToGet = dma /\ dma \in From(b, n) /\ Ahead(b, n) = dma
      BY <1>1, <3>2 DEF RingInv, Held, From
    <3>4. n = RxBufNb
      BY <3>3, FromEnd
    <3>5. Len(fifo.segs) > 0
      BY <3>1, <3>2, <3>4, CountFacts
    <3> QED BY <3>3, <3>5 DEF FifoInv
  <2>3. Seg_Count \in 0 .. Long - 1 /\ Waiting + Seg_Count = Seg_Count
    BY <1>1, <2>1, <2>2, CountFacts
  <2> QED BY <1>1, <2>1, <2>2, <2>3 DEF ContentInv
<1> QED BY <1>2, <1>3

\* Steps that leave descriptors, frames and log alone leave the ring alone.
LEMMA RingUntouched ==
    ASSUME NEW b \in Desc, NEW n \in 0 .. RxBufNb, RingInv(b, n), ContentInv(b, n),
           UNCHANGED <<Status, Buf, dma, stored, log>>, fifo'.segs = fifo.segs,
           Taken' = Taken
    PROVE  /\ RingInv(b, n)' /\ ContentInv(b, n)'
           /\ Singles' = Singles /\ Complete' = Complete
           /\ Waiting' = Waiting /\ Long' = Long
<1>1. Singles' = Singles /\ Complete' = Complete /\ Long' = Long /\ Held' = Held
  BY DEF Singles, Complete, Long, Held
<1>2. Waiting' = Waiting
  BY <1>1 DEF Waiting
<1>3. RingInv(b, n)'
  BY <1>1 DEF RingInv
<1>4. ContentInv(b, n)'
  BY <1>1, <1>2 DEF ContentInv
<1> QED BY <1>1, <1>2, <1>3, <1>4

\* ETH_CheckFrameReceived.
LEMMA CheckStep ==
    ASSUME TypeOK, FifoInv, NEW b \in Desc, NEW n \in 0 .. RxBufNb,
           RingInv(b, n), ContentInv(b, n), CpuInv(b), ETH_CheckFrameReceived
    PROVE  RingInv(b, n)' /\ ContentInv(b, n)' /\ CpuInv(b)'
<1> USE EthRxAssumption
<1> DEFINE s == Status[DMARxDescToGet]
<1>1. /\ pc \in {"poll", "poll2"} /\ pc' \in {"poll", "poll2", "get"}
      /\ UNCHANGED <<Status, Buf, dma, stored, log, fifo>>
  BY DEF ETH_CheckFrameReceived, CheckLast, CheckFirst, CheckIntermediate,
         CheckNothing, hw
<1>2. PollInv(b)
  BY <1>1 DEF CpuInv
<1>3. Taken' = Taken
  BY <1>1 DEF Taken
<1>4. /\ RingInv(b, n)' /\ ContentInv(b, n)' /\ Complete' = Complete
      /\ Waiting' = Waiting /\ Long' = Long
  BY <1>1, <1>3, RingUntouched
<1>5. /\ Seg_Count \in Nat /\ DMARxDescToGet = Ahead(b, Seg_Count) /\ Long \in Nat
      /\ Waiting \in Int /\ Waiting >= 0 /\ Waiting + Long <= n
      /\ Seg_Count > 0 => FS_Rx_Desc = b
  BY <1>2, CountFacts DEF TypeOK, PollInv, ContentInv
<1>6. CASE CheckLast
  <2>1. CASE ~s.own /\ s.ls
    <3>1. /\ pc' = "get" /\ Seg_Count' = Seg_Count + 1
          /\ UNCHANGED <<DMARxDescToGet, FS_Rx_Desc>>
      BY <1>6, <2>1 DEF CheckLast
    <3>2. \/ Waiting > 0 /\ Seg_Count = 0
          \/ Waiting = 0 /\ Complete /\ Seg_Count + 1 = Long
      BY <1>2, <2>1, HeldPosition
    <3>3. Seg_Count' > 0 /\ Seg_Count' - 1 = Seg_Count /\ (Seg_Count' > 1 => Seg_Count > 0)
      BY <1>5, <3>1
    <3>4. GetInv(b)'
      <4>1. Waiting' > 0 => Seg_Count' = 1
        BY <1>4, <3>1, <3>2
      <4>2. Waiting' = 0 => Complete' /\ Seg_Count' = Long'
        BY <1>4, <1>5, <3>1, <3>2
      <4>3. Seg_Count' > 0 /\ DMARxDescToGet' = Ahead(b, Seg_Count' - 1)
        BY <1>5, <3>1, <3>3
      <4>4. Seg_Count' > 1 => FS_Rx_Desc' = b
        BY <1>5, <3>1, <3>3
      <4> QED BY <4>1, <4>2, <4>3, <4>4 DEF GetInv
    <3> QED BY <1>4, <3>1, <3>4 DEF CpuInv
  <2>2. CASE ~(~s.own /\ s.ls)
    <3>1. pc' = "poll2" /\ UNCHANGED <<Seg_Count, DMARxDescToGet, FS_Rx_Desc>>
      BY <1>6, <2>2 DEF CheckLast
    <3>2. PollInv(b)'
      BY <1>2, <1>4, <3>1 DEF PollInv
    <3> QED BY <1>4, <3>1, <3>2 DEF CpuInv
  <2> QED BY <2>1, <2>2
<1>7. CASE CheckFirst
  <2>1. /\ ~s.own /\ s.fs /\ ~s.ls /\ pc' = "poll"
        /\ FS_Rx_Desc' = DMARxDescToGet /\ Seg_Count' = 1
        /\ DMARxDescToGet' = NextDesc(DMARxDescToGet)
    BY <1>7 DEF CheckFirst
  <2>2. /\ Waiting = 0 /\ Seg_Count = 0 /\ 0 < Long
        /\ ~(Complete /\ Seg_Count + 1 = Long)
    BY <1>2, <2>1, HeldPosition
  <2>3. Seg_Count' <= Long /\ (Complete => Seg_Count' < Long)
    BY <1>5, <2>1, <2>2
  <2>4. DMARxDescToGet = b /\ DMARxDescToGet' = Ahead(b, 1)
    <3>1. 0 \in 0 .. RxBufNb - 1 /\ 0 + 1 = 1
      OBVIOUS
    <3>2. Ahead(b, 0) = b /\ NextDesc(Ahead(b, 0)) = Ahead(b, 0 + 1)
      BY <3>1, AheadNext
    <3> QED BY <1>5, <2>1, <2>2, <3>1, <3>2
  <2>5. PollInv(b)'
    BY <1>4, <2>1, <2>2, <2>3, <2>4 DEF PollInv
  <2> QED BY <1>4, <2>1, <2>5 DEF CpuInv
<1>8. CASE CheckIntermediate
  <2>1. /\ ~s.own /\ ~s.fs /\ ~s.ls /\ pc' = "poll"
        /\ FS_Rx_Desc' = FS_Rx_Desc /\ Seg_Count' = Seg_Count + 1
        /\ DMARxDescToGet' = NextDesc(DMARxDescToGet)
    BY <1>8 DEF CheckIntermediate
  <2>2. /\ Waiting = 0 /\ Seg_Count # 0 /\ Seg_Count < Long
        /\ ~(Complete /\ Seg_Count + 1 = Long)
    BY <1>2, <2>1, HeldPosition
  <2>3. /\ Seg_Count' <= Long /\ (Complete => Seg_Count' < Long)
        /\ Seg_Count > 0 /\ Seg_Count \in 0 .. RxBufNb - 1
    BY <1>5, <2>1, <2>2
  <2>4. DMARxDescToGet' = Ahead(b, Seg_Count')
    BY <1>5, <2>1, <2>3, AheadNext
  <2>5. PollInv(b)'
    BY <1>4, <1>5, <2>1, <2>2, <2>3, <2>4 DEF PollInv
  <2> QED BY <1>4, <2>1, <2>5 DEF CpuInv
<1>9. CASE CheckNothing
  <2>1. pc' = "poll" /\ UNCHANGED <<Seg_Count, DMARxDescToGet, FS_Rx_Desc>>
    BY <1>9 DEF CheckNothing
  <2>2. PollInv(b)'
    BY <1>2, <1>4, <2>1 DEF PollInv
  <2> QED BY <1>4, <2>1, <2>2 DEF CpuInv
<1> QED BY <1>6, <1>7, <1>8, <1>9 DEF ETH_CheckFrameReceived

\* ETH_Get_Received_Frame: the first frame in the ring is taken.
LEMMA GetFrameStep ==
    ASSUME TypeOK, FifoInv, NEW b \in Desc, NEW n \in 0 .. RxBufNb,
           RingInv(b, n), ContentInv(b, n), CpuInv(b), ETH_Get_Received_Frame
    PROVE  RingInv(b, n)' /\ ContentInv(b, n)' /\ CpuInv(b)'
<1> USE EthRxAssumption
<1>1. /\ pc = "get" /\ pc' = "copy"
      /\ frame' = [descriptor |-> DMARxDescToGet,
                   buffer |-> IF Seg_Count > 1 THEN FS_Rx_Desc ELSE DMARxDescToGet,
                   length |-> Status[DMARxDescToGet].fl]
      /\ DMARxDescToGet' = NextDesc(DMARxDescToGet)
      /\ UNCHANGED <<Status, Buf, dma, stored, log, fifo, Seg_Count>>
  BY DEF ETH_Get_Received_Frame, hw
<1>2. GetInv(b)
  BY <1>1 DEF CpuInv
<1>3. Taken' = Taken
  BY <1>1 DEF Taken
<1>4. /\ RingInv(b, n)' /\ ContentInv(b, n)' /\ Complete' = Complete
      /\ Waiting' = Waiting
  BY <1>1, <1>3, RingUntouched
<1>5. Waiting = 0 => Complete
  BY <1>2 DEF GetInv
<1>6. Waiting > 0 => /\ Seg_Count = 1 /\ DMARxDescToGet' = Ahead(b, 1)
                     /\ frame' = [descriptor |-> b, buffer |-> b, length |-> 1]
  <2> SUFFICES ASSUME Waiting > 0
               PROVE  /\ Seg_Count = 1 /\ DMARxDescToGet' = Ahead(b, 1)
                      /\ frame' = [descriptor |-> b, buffer |-> b, length |-> 1]
    OBVIOUS
  <2>1. Seg_Count = 1 /\ DMARxDescToGet = Ahead(b, 0)
    BY <1>2 DEF GetInv
  <2>2. 0 \in 0 .. RxBufNb - 1 /\ 0 + 1 = 1 /\ 0 \in 0 .. Waiting - 1
    BY CountFacts
  <2>3. Ahead(b, 0) = b /\ NextDesc(Ahead(b, 0)) = Ahead(b, 1)
    BY <2>2, AheadNext
  <2>4. Status[b].fl = 1
    BY <2>2, <2>3 DEF ContentInv
  <2> QED BY <1>1, <2>1, <2>3, <2>4
<1>7. CopyInv(b)'
  BY <1>1, <1>4, <1>5, <1>6 DEF CopyInv
<1> QED BY <1>1, <1>4, <1>7 DEF CpuInv

\* low_level_input takes the oldest frame or drops it; a longer frame, of
\* which it copies the wrong descriptors, is the end of what is claimed.
TakesOldest ==
    /\ Len(log) < Singles
    /\ \E r \in {stored[Len(log) + 1], NoMem} : log' = Append(log, r)
TakesLater ==
    /\ Len(log) >= Singles /\ Complete
    /\ \E r \in Seq(Segment) : log' = Append(log, r)

\* Which of the two it is depends on whether a single frame is waiting.
LEMMA CopyStep ==
    ASSUME TypeOK, TypeOK', FifoInv, NEW b \in Desc, NEW n \in 0 .. RxBufNb,
           RingInv(b, n), ContentInv(b, n), CpuInv(b), CopyToPbuf
    PROVE  \/ /\ TakesOldest
              /\ RingInv(b, n)' /\ ContentInv(b, n)' /\ CpuInv(b)'
           \/ TakesLater
<1> USE EthRxAssumption
<1>1. /\ pc = "copy" /\ pc' = "release" /\ i' = 0
      /\ UNCHANGED <<Status, Buf, dma, stored, fifo, DMARxDescToGet, Seg_Count, frame>>
  BY DEF CopyToPbuf, hw
<1>2. PICK r \in {Gathered, NoMem} : log' = Append(log, r)
  BY DEF CopyToPbuf
<1>3. CopyInv(b) /\ Waiting >= 0
  BY <1>1 DEF CpuInv, ContentInv
<1>4. Taken = Len(log) /\ Waiting = Singles - Len(log)
  BY <1>1 DEF Taken, Waiting
<1>5. r \in Seq(Segment) /\ Len(log') = Len(log) + 1
  <2>1. log \in Seq(Seq(Segment)) /\ log' \in Seq(Seq(Segment)) /\ Len(log) \in Nat
    BY CountFacts DEF TypeOK
  <2>2. Len(log') = Len(log) + 1
    BY <1>2, <2>1
  <2>3. log'[Len(log) + 1] = r
    BY <1>2, <2>1
  <2>4. Len(log) + 1 \in 1 .. Len(log')
    BY <2>1, <2>2
  <2>5. log'[Len(log) + 1] \in Seq(Segment)
    BY <2>1, <2>4
  <2> QED BY <2>2, <2>3, <2>5
<1>6. CASE Waiting = 0
  <2>1. Len(log) >= Singles /\ Complete
    BY <1>3, <1>4, <1>6, CountFacts DEF CopyInv
  <2> QED BY <1>2, <1>5, <2>1 DEF TakesLater
<1>7. CASE Waiting # 0
  <2>1. Waiting > 0 /\ Len(log) < Singles
    BY <1>3, <1>4, <1>7, CountFacts
  <2>2. /\ Seg_Count = 1 /\ DMARxDescToGet = Ahead(b, 1)
        /\ frame = [descriptor |-> b, buffer |-> b, length |-> 1]
    BY <1>3, <2>1 DEF CopyInv
  <2>3. Gathered = stored[Len(log) + 1]
    <3>1. 0 \in 0 .. Waiting - 1 /\ Taken + 1 + 0 = Len(log) + 1 /\ 0 \in 0 .. RxBufNb - 1
      BY <1>4, <2>1, CountFacts
    <3>2. Ahead(b, 0) = b
      BY <3>1, AheadNext
    <3>3. stored[Len(log) + 1] = <<Buf[b]>>
      BY <3>1, <3>2 DEF ContentInv
    <3>4. frame.length = 1 /\ frame.buffer = b
      BY <2>2
    <3>5. Gathered = [e \in 1 .. 1 |-> Buf[b]]
      BY <3>4 DEF Gathered
    <3>6. Gathered = <<Buf[b]>>
      BY <3>5
    <3> QED BY <3>3, <3>6
  <2>4. TakesOldest
    BY <1>2, <2>1, <2>3 DEF TakesOldest
  <2>5. Taken' = Taken
    <3>1. Taken' = Len(log') - 1
      BY <1>1 DEF Taken
    <3> QED BY <1>4, <1>5, <3>1, CountFacts
  <2>6. Singles' = Singles /\ Complete' = Complete /\ Long' = Long /\ Held' = Held
    BY <1>1 DEF Singles, Complete, Long, Held
  <2>7. Waiting' = Waiting
    BY <2>5, <2>6 DEF Waiting
  <2>8. RingInv(b, n)'
    BY <1>1, <2>6 DEF RingInv
  <2>9. ContentInv(b, n)'
    BY <1>1, <2>5, <2>6, <2>7 DEF ContentInv
  <2>10. CpuInv(b)'
    BY <1>1, <2>1, <2>2, <2>7 DEF CpuInv, ReleaseInv
  <2> QED BY <2>4, <2>8, <2>9, <2>10
<1> QED BY <1>6, <1>7

\* The descriptor of the frame just copied goes back to the DMA.
LEMMA ReleaseStep ==
    ASSUME TypeOK, FifoInv, NEW b \in Desc, NEW n \in 0 .. RxBufNb,
           RingInv(b, n), ContentInv(b, n), CpuInv(b), ReleaseDescriptor
    PROVE  \E c \in Desc, m \in 0 .. RxBufNb :
              RingInv(c, m)' /\ ContentInv(c, m)' /\ CpuInv(c)'
<1> USE EthRxAssumption
<1>1. pc = "release" /\ ReleaseInv(b) /\ UNCHANGED <<Buf, dma, stored, log, fifo, DMARxDescToGet>>
  BY DEF ReleaseDescriptor, CpuInv, hw
<1>2. CASE i = 1
  <2>1. /\ Seg_Count = 1 /\ DMARxDescToGet = b
        /\ Seg_Count' = 0 /\ pc' = "resume" /\ UNCHANGED <<Status, i>>
    BY <1>1, <1>2 DEF ReleaseInv, ReleaseDescriptor
  <2>2. Taken' = Taken
    BY <1>1, <1>2, <2>1 DEF Taken
  <2>3. RingInv(b, n)' /\ ContentInv(b, n)'
    BY <1>1, <2>1, <2>2, RingUntouched
  <2>4. CpuInv(b)'
    BY <1>1, <2>1 DEF CpuInv
  <2> QED BY <2>3, <2>4
<1>3. CASE i = 0
  <2>1. /\ Seg_Count = 1 /\ Waiting > 0
        /\ frame.descriptor = b /\ DMARxDescToGet = Ahead(b, 1)
    BY <1>1, <1>3 DEF ReleaseInv
  <2>2. 0 \in 0 .. RxBufNb - 1 /\ 0 + 1 = 1
    OBVIOUS
  <2>3. Ahead(b, 0) = b /\ NextDesc(b) = Ahead(b, 1) /\ NextDesc(b) \in Desc
    BY <2>2, AheadNext
  <2>4. /\ Status' = [Status EXCEPT ![b] = [own |-> TRUE, fs |-> FALSE, ls |-> FALSE, fl |-> 0]]
        /\ i' = 1 /\ Seg_Count' = 1 /\ pc' = "release"
    BY <1>3, <2>1, <2>3 DEF ReleaseDescriptor
  <2>5. /\ Waiting \in Int /\ Long \in Nat /\ Waiting + Long <= n /\ n \in 1 .. RxBufNb
        /\ n - 1 \in 0 .. RxBufNb - 1 /\ n - 1 \in 0 .. RxBufNb /\ (n - 1) + 1 = n
    BY <2>1, CountFacts DEF ContentInv
  <2> DEFINE c == NextDesc(b)
  <2>6. RingInv(c, n - 1)'
    <3>1. Held' = Held \ {b}
      BY <2>4 DEF Held, TypeOK
    <3>2. Held' = From(c, n - 1)
      BY <2>5, <3>1, FromTail DEF RingInv, From
    <3>3. Ahead(c, n - 1) = Ahead(b, n)
      BY <2>5, AheadNext
    <3> QED BY <1>1, <3>2, <3>3 DEF RingInv, From
  <2>7. Taken' = Taken + 1 /\ Taken \in Int
    <3>1. Taken = Len(log) - 1 /\ Taken' = Len(log)
      BY <1>1, <1>3, <2>4 DEF Taken
    <3> QED BY <3>1, CountFacts
  <2>8. Singles' = Singles /\ Complete' = Complete /\ Long' = Long
    BY <1>1 DEF Singles, Complete, Long
  <2>9. Waiting' = Waiting - 1
    BY <2>7, <2>8, CountFacts DEF Waiting
  <2>10. \A j \in 0 .. n - 2 :
           /\ Ahead(c, j) = Ahead(b, j + 1)
           /\ Status'[Ahead(c, j)] = Status[Ahead(b, j + 1)]
    <3> SUFFICES ASSUME NEW j \in 0 .. n - 2
                 PROVE  /\ Ahead(c, j) = Ahead(b, j + 1)
                        /\ Status'[Ahead(c, j)] = Status[Ahead(b, j + 1)]
      OBVIOUS
    <3>1. j \in 0 .. RxBufNb - 1 /\ j + 1 \in 0 .. RxBufNb - 1 /\ j + 1 # 0 /\ j + 1 \in Nat
      BY <2>5
    <3>2. Ahead(c, j) = Ahead(b, j + 1)
      BY <3>1, AheadNext
    <3>3. Ahead(b, j + 1) # b /\ Ahead(b, j + 1) \in Desc
      BY <2>2, <2>3, <3>1, AheadDistinct, AheadDesc
    <3> QED BY <2>4, <3>2, <3>3 DEF TypeOK
  <2>11. ContentInv(c, n - 1)'
    <3> HIDE DEF c
    <3>1. /\ Taken' >= 0 /\ Waiting' >= 0 /\ Waiting' + Long' <= n - 1
          /\ ~Complete' => n - 1 = Waiting' + Long'
      <4>1. Taken >= 0 /\ (~Complete => n = Waiting + Long)
        BY DEF ContentInv
      <4>2. Taken' >= 0
        BY <2>7, <4>1
      <4> QED BY <2>1, <2>5, <2>8, <2>9, <4>1, <4>2
    <3>2. \A j \in 0 .. Waiting' - 1 :
            /\ Status'[Ahead(c, j)].ls /\ Status'[Ahead(c, j)].fl = 1
            /\ stored'[Taken' + 1 + j] = <<Buf'[Ahead(c, j)]>>
      <4> SUFFICES ASSUME NEW j \in 0 .. Waiting' - 1
                   PROVE  /\ Status'[Ahead(c, j)].ls /\ Status'[Ahead(c, j)].fl = 1
                          /\ stored'[Taken' + 1 + j] = <<Buf'[Ahead(c, j)]>>
        OBVIOUS
      <4>1. /\ j \in 0 .. n - 2 /\ j + 1 \in 0 .. Waiting - 1
            /\ Taken' + 1 + j = Taken + 1 + (j + 1)
        BY <2>5, <2>7, <2>9
      <4>2. /\ Status[Ahead(b, j + 1)].ls /\ Status[Ahead(b, j + 1)].fl = 1
            /\ stored[Taken + 1 + (j + 1)] = <<Buf[Ahead(b, j + 1)]>>
        BY <4>1 DEF ContentInv
      <4> QED BY <1>1, <2>10, <4>1, <4>2
    <3>3. \A j \in 0 .. Long' - 1 :
            LET d == Ahead(c, Waiting' + j)
            IN  /\ Status'[d].fs <=> j = 0
                /\ Status'[d].ls <=> Complete' /\ j + 1 = Long'
                /\ Status'[d].fl = j + 1
      <4> SUFFICES ASSUME NEW j \in 0 .. Long - 1
                   PROVE  LET d == Ahead(c, Waiting' + j)
                          IN  /\ Status'[d].fs <=> j = 0
                              /\ Status'[d].ls <=> Complete /\ j + 1 = Long
                              /\ Status'[d].fl = j + 1
        BY <2>8
      <4>1. Waiting' + j \in 0 .. n - 2 /\ (Waiting' + j) + 1 = Waiting + j
        BY <2>1, <2>5, <2>9
      <4>2. Status'[Ahead(c, Waiting' + j)] = Status[Ahead(b, Waiting + j)]
        BY <2>10, <4>1
      <4> QED BY <4>2 DEF ContentInv
    <3> QED BY <3>1, <3>2, <3>3 DEF ContentInv
  <2>12. CpuInv(c)'
    BY <1>1, <2>1, <2>3, <2>4 DEF CpuInv, ReleaseInv
  <2> QED BY <2>3, <2>5, <2>6, <2>11, <2>12
<1> QED BY <1>1, <1>2, <1>3 DEF ReleaseInv

\* A single frame joins the queue, or the DMA stores a part of a longer frame
\* or a frame behind it.
StoresFrame ==
    /\ Singles = Len(stored) /\ Singles' = Len(stored')
    /\ Len(stored) - Len(log) < RxBufNb
    /\ \E f \in Frames : stored' = Append(stored, f)
StoresLater ==
    /\ Singles' = Singles /\ (Complete => Complete')
    /\ stored' = stored \/ \E f \in Frames : stored' = Append(stored, f)

\* What DmaStore adds to the history.
LEMMA StoredNext ==
    ASSUME TypeOK, FifoInv, NEW f \in 1 .. MaxFrames, NEW m \in 0 .. MaxSegs - 1,
           NEW last \in BOOLEAN, Stores(f, m, last)
    PROVE  LET g == SegmentsOf(f, m + 1)
           IN  /\ g \in Frames /\ Len(g) = m + 1 /\ (m = 0 => g = <<<<f, 1>>>>)
               /\ \A e \in 1 .. Len(stored) : stored'[e] = stored[e]
               /\ ~last => stored' = stored /\ Singles' = Singles
               /\ last => /\ stored' = Append(stored, g)
                          /\ Len(stored') = Len(stored) + 1
                          /\ stored'[Len(stored) + 1] = g
                          /\ Singles' = IF ~Complete /\ m = 0 THEN Len(stored) + 1
                                        ELSE Singles
<1> USE EthRxAssumption
<1> DEFINE g == SegmentsOf(f, m + 1)
<1>1. m + 1 \in 0 .. MaxSegs /\ m + 1 > 0 /\ (m = 0 => m + 1 = 1)
  OBVIOUS
<1>2. g \in Frames /\ Len(g) = m + 1 /\ (m = 0 => g = <<<<f, 1>>>>)
  BY <1>1, FrameFacts
<1> HIDE DEF g
<1>3. stored \in Seq(Frames)
  BY DEF TypeOK
<1>4. Singles' = SinglesOf(stored') /\ Singles = SinglesOf(stored)
  BY DEF Singles, SinglesOf
<1>5. CASE ~last
  <2>1. stored' = stored
    BY <1>5 DEF Stores
  <2> QED BY <1>2, <1>4, <1>5, <2>1 DEF g
<1>6. CASE last
  <2>1. stored' = Append(stored, g)
    BY <1>6 DEF Stores, g
  <2>2. /\ Len(stored') = Len(stored) + 1 /\ stored'[Len(stored) + 1] = g
        /\ \A e \in 1 .. Len(stored) : stored'[e] = stored[e]
    BY <1>2, <1>3, <2>1, AppendProperties
  <2>3. SinglesOf(Append(stored, g)) =
          IF SinglesOf(stored) = Len(stored) /\ ~(Len(g) > 1) THEN Len(stored) + 1
          ELSE SinglesOf(stored)
    BY <1>2, <1>3, SinglesAppend
  <2>4. (~(Len(g) > 1) <=> m = 0) /\ (SinglesOf(stored) = Len(stored) <=> ~Complete)
    <3>1. ~(m + 1 > 1) <=> m = 0
      OBVIOUS
    <3> QED BY <1>2, <1>4, <3>1, CountFacts
  <2>5. Singles' = IF ~Complete /\ m = 0 THEN Len(stored) + 1 ELSE Singles
    BY <1>4, <2>1, <2>3, <2>4
  <2> QED BY <1>2, <1>6, <2>1, <2>2, <2>5 DEF g
<1> QED BY <1>5, <1>6

\* DmaStore fills the descriptor behind the CPU's last one.
LEMMA StoreStep ==
    ASSUME TypeOK, TypeOK', FifoInv, Undisturbed, NEW b \in Desc, NEW n \in 0 .. RxBufNb,
           RingInv(b, n), ContentInv(b, n), CpuInv(b), DmaStore
    PROVE  /\ n + 1 \in 0 .. RxBufNb
           /\ RingInv(b, n + 1)' /\ ContentInv(b, n + 1)' /\ CpuInv(b)'
           /\ StoresFrame \/ StoresLater
<1> USE EthRxAssumption
<1>1. PICK f \in 1 .. MaxFrames, m \in 0 .. MaxSegs - 1, last \in BOOLEAN :
        Stores(f, m, last)
  BY StoreFacts
<1>2. UNCHANGED <<DMARxDescToGet, FS_Rx_Desc, Seg_Count, pc, frame, i, log>>
  BY DEF DmaStore, cpu
<1> DEFINE g == SegmentsOf(f, m + 1)
<1>3. /\ g \in Frames /\ Len(g) = m + 1 /\ (m = 0 => g = <<<<f, 1>>>>)
      /\ \A e \in 1 .. Len(stored) : stored'[e] = stored[e]
      /\ ~last => stored' = stored /\ Singles' = Singles
      /\ last => /\ stored' = Append(stored, g)
                 /\ Len(stored') = Len(stored) + 1
                 /\ stored'[Len(stored) + 1] = g
                 /\ Singles' = IF ~Complete /\ m = 0 THEN Len(stored) + 1 ELSE Singles
  BY <1>1, StoredNext
<1> HIDE DEF g
<1>4. dma \in Desc /\ dma = Ahead(b, n) /\ Held = From(b, n) /\ Status[dma].own
  BY <1>1 DEF TypeOK, RingInv, From, Stores
<1>5. n \in 0 .. RxBufNb - 1 /\ n + 1 \in 0 .. RxBufNb
  <2>1. dma \notin Held
    BY <1>4 DEF Held
  <2>2. n # RxBufNb
    BY <1>4, <2>1, FromEnd
  <2> QED BY <2>2
<1>6. /\ Status'[dma] = [own |-> FALSE, fs |-> m + 1 = 1, ls |-> last, fl |-> m + 1]
      /\ Buf'[dma] = <<f, m + 1>>
      /\ \A d \in Desc : d # dma => Status'[d] = Status[d] /\ Buf'[d] = Buf[d]
  BY <1>1, <1>4 DEF Stores, TypeOK
<1>7. RingInv(b, n + 1)'
  <2>1. Held' = Held \cup {dma}
    BY <1>4, <1>6 DEF Held
  <2>2. Held' = From(b, n + 1)
    BY <1>4, <1>5, <2>1, FromAppend
  <2>3. dma' = Ahead(b, n + 1)
    BY <1>1, <1>4, <1>5, AheadNext DEF Stores
  <2> QED BY <2>2, <2>3 DEF RingInv, From
<1>8. \A j \in 0 .. n - 1 :
        /\ Status'[Ahead(b, j)] = Status[Ahead(b, j)]
        /\ Buf'[Ahead(b, j)] = Buf[Ahead(b, j)]
  <2> SUFFICES ASSUME NEW j \in 0 .. n - 1
               PROVE  /\ Status'[Ahead(b, j)] = Status[Ahead(b, j)]
                      /\ Buf'[Ahead(b, j)] = Buf[Ahead(b, j)]
    OBVIOUS
  <2>1. Ahead(b, j) \in Held
    BY <1>4 DEF From
  <2> QED BY <1>4, <1>6, <2>1 DEF Held
<1>9. /\ Waiting \in Int /\ Waiting >= 0 /\ Long \in Nat /\ Waiting + Long <= n
      /\ Taken \in Int /\ Taken' = Taken /\ Taken >= 0
      /\ Singles \in Nat /\ Len(stored) \in Nat /\ Len(log) \in Nat
      /\ Waiting = Singles - Taken /\ Taken <= Len(log) /\ Len(log) <= Singles
      /\ Singles <= Len(stored)
  <2>1. Taken >= 0 /\ Waiting >= 0 /\ Waiting + Long <= n /\ Len(log) <= Singles
    BY DEF ContentInv, Undisturbed
  <2>2. Taken' = Taken
    BY <1>2 DEF Taken
  <2>3. Taken <= Len(log)
    BY CountFacts DEF Taken
  <2> QED BY <2>1, <2>2, <2>3, CountFacts
<1>10. \A j \in 0 .. Waiting - 1 :
         /\ Status'[Ahead(b, j)].ls /\ Status'[Ahead(b, j)].fl = 1
         /\ stored'[Taken + 1 + j] = <<Buf'[Ahead(b, j)]>>
  <2> SUFFICES ASSUME NEW j \in 0 .. Waiting - 1
               PROVE  /\ Status'[Ahead(b, j)].ls /\ Status'[Ahead(b, j)].fl = 1
                      /\ stored'[Taken + 1 + j] = <<Buf'[Ahead(b, j)]>>
    OBVIOUS
  <2>1. j \in 0 .. n - 1
    BY <1>9
  <2>2. /\ Status[Ahead(b, j)].ls /\ Status[Ahead(b, j)].fl = 1
        /\ stored[Taken + 1 + j] = <<Buf[Ahead(b, j)]>>
    BY DEF ContentInv
  <2>3. Taken + 1 + j \in 1 .. Len(stored)
    BY <1>9
  <2> QED BY <1>3, <1>8, <2>1, <2>2, <2>3
<1>11. Waiting' = Singles' - Taken
  BY <1>9 DEF Waiting
<1>12. CASE Complete
  <2>1. Singles' = Singles /\ Singles < Len(stored)
    BY <1>3, <1>12 DEF Complete
  <2>2. Waiting' = Waiting
    BY <1>9, <1>11, <2>1
  <2>3. Complete' /\ Long' = Long
    <3>1. Len(stored') >= Len(stored) /\ Len(stored') \in Nat
      BY <1>3, <1>9
    <3>2. Singles + 1 \in 1 .. Len(stored)
      BY <1>9, <2>1
    <3>3. Complete'
      BY <1>9, <2>1, <3>1 DEF Complete
    <3> QED BY <1>3, <1>12, <2>1, <3>2, <3>3 DEF Long
  <2>4. \A j \in 0 .. Long - 1 :
          LET d == Ahead(b, Waiting + j)
          IN  /\ Status'[d].fs <=> j = 0
              /\ Status'[d].ls <=> Complete /\ j + 1 = Long
              /\ Status'[d].fl = j + 1
    <3>1. \A j \in 0 .. Long - 1 : Waiting + j \in 0 .. n - 1
      BY <1>9
    <3> QED BY <1>8, <3>1 DEF ContentInv
  <2>5. ContentInv(b, n + 1)'
    <3>1. Waiting + Long <= n + 1
      BY <1>9
    <3> QED BY <1>9, <1>10, <1>12, <2>2, <2>3, <2>4, <3>1 DEF ContentInv
  <2>6. CpuInv(b)'
    BY <1>2, <1>12, <2>2, <2>3 DEF CpuInv, PollInv, GetInv, CopyInv, ReleaseInv
  <2>7. StoresLater
    BY <1>3, <2>1, <2>3 DEF StoresLater
  <2> QED BY <1>5, <1>7, <2>5, <2>6, <2>7
<1>13. CASE ~Complete /\ m = 0 /\ last
  <2>1. /\ Singles = Len(stored) /\ Singles' = Len(stored) + 1
        /\ Len(stored') = Len(stored) + 1 /\ ~Complete'
    <3>1. Singles = Len(stored) /\ Singles' = Len(stored) + 1 /\ Len(stored') = Len(stored) + 1
      BY <1>3, <1>13, CountFacts
    <3> QED BY <1>9, <3>1 DEF Complete
  <2>2. Long = 0 /\ n = Waiting
    <3>1. Long = 0
      BY <1>1, <1>13, CountFacts DEF Stores
    <3> QED BY <1>9, <1>13, <3>1 DEF ContentInv
  <2>3. Long' = 0
    BY <1>1, <1>13, <2>1 DEF Long, Stores, NoFrame
  <2>4. Waiting' = Waiting + 1
    BY <1>9, <1>11, <2>1
  <2>5. \A j \in 0 .. Waiting :
          /\ Status'[Ahead(b, j)].ls /\ Status'[Ahead(b, j)].fl = 1
          /\ stored'[Taken + 1 + j] = <<Buf'[Ahead(b, j)]>>
    <3> SUFFICES ASSUME NEW j \in 0 .. Waiting
                 PROVE  /\ Status'[Ahead(b, j)].ls /\ Status'[Ahead(b, j)].fl = 1
                        /\ stored'[Taken + 1 + j] = <<Buf'[Ahead(b, j)]>>
      OBVIOUS
    <3>1. CASE j = Waiting
      <4>1. Ahead(b, j) = dma /\ Taken + 1 + j = Len(stored) + 1
        BY <1>4, <1>9, <2>1, <2>2, <3>1
      <4>2. Status'[dma].ls /\ Status'[dma].fl = 1 /\ Buf'[dma] = <<f, 1>>
        BY <1>6, <1>13
      <4> QED BY <1>3, <1>13, <4>1, <4>2
    <3>2. CASE j # Waiting
      <4>1. j \in 0 .. Waiting - 1
        BY <1>9, <3>2
      <4> QED BY <1>10, <4>1
    <3> QED BY <3>1, <3>2
  <2>6. ContentInv(b, n + 1)'
    <3>1. /\ 0 .. Waiting' - 1 = 0 .. Waiting /\ 0 .. Long' - 1 = {}
          /\ Waiting' >= 0 /\ Waiting' + Long' = n + 1 /\ Waiting' + Long' <= n + 1
      BY <1>9, <2>2, <2>3, <2>4
    <3> QED BY <1>9, <2>5, <3>1 DEF ContentInv
  <2>7. CpuInv(b)'
    <3>1. pc \in {"poll", "poll2"} => PollInv(b) /\ Seg_Count = 0
      <4>1. Seg_Count \in Nat
        BY DEF TypeOK
      <4>2. pc \in {"poll", "poll2"} => PollInv(b) /\ ~(Seg_Count > 0)
        BY <2>2, <4>1 DEF CpuInv, PollInv
      <4> QED BY <4>1, <4>2
    <3>2. Waiting' > 0 /\ Waiting' # 0
      BY <1>9, <2>4
    <3>3. pc \in {"get", "copy", "release"} /\ ~(pc = "release" /\ i = 1) => Waiting > 0
      BY <1>9, <1>13 DEF CpuInv, GetInv, CopyInv, ReleaseInv
    <3> QED BY <1>2, <3>1, <3>2, <3>3 DEF CpuInv, PollInv, GetInv, CopyInv, ReleaseInv
  <2>8. StoresFrame
    <3>1. Len(stored) - Len(log) < RxBufNb
      BY <1>5, <1>9, <2>1, <2>2
    <3> QED BY <1>3, <1>13, <2>1, <3>1 DEF StoresFrame
  <2> QED BY <1>5, <1>7, <2>6, <2>7, <2>8
<1>14. CASE ~Complete /\ ~(m = 0 /\ last)
  <2>1. Singles = Len(stored) /\ Singles' = Singles /\ (Complete' <=> last)
    <3>1. Singles = Len(stored) /\ Singles' = Singles
      BY <1>3, <1>14, CountFacts
    <3> QED BY <1>3, <1>9, <3>1 DEF Complete
  <2>2. Long = m /\ n = Waiting + m
    <3>1. Long = m
      BY <1>1, <1>14, CountFacts DEF Stores
    <3> QED BY <1>14, <3>1 DEF ContentInv
  <2>3. Long' = m + 1
    <3>1. CASE last
      BY <1>3, <2>1, <3>1 DEF Long
    <3>2. CASE ~last
      <4>1. fifo'.segs = g
        BY <1>1, <3>2 DEF Stores, g
      <4> QED BY <1>3, <2>1, <3>2, <4>1 DEF Long
    <3> QED BY <3>1, <3>2
  <2>4. Waiting' = Waiting
    BY <1>9, <1>11, <2>1
  <2>5. \A j \in 0 .. m :
          LET d == Ahead(b, Waiting + j)
          IN  /\ Status'[d].fs <=> j = 0
              /\ Status'[d].ls <=> last /\ j + 1 = m + 1
              /\ Status'[d].fl = j + 1
    <3> SUFFICES ASSUME NEW j \in 0 .. m
                 PROVE  LET d == Ahead(b, Waiting + j)
                        IN  /\ Status'[d].fs <=> j = 0
                            /\ Status'[d].ls <=> last /\ j + 1 = m + 1
                            /\ Status'[d].fl = j + 1
      OBVIOUS
    <3>1. CASE j = m
      <4>1. Ahead(b, Waiting + j) = dma
        BY <1>4, <2>2, <3>1
      <4>2. (m + 1 = 1) <=> (m = 0)
        OBVIOUS
      <4>3. /\ Status'[dma].fs = (m + 1 = 1) /\ Status'[dma].ls = last
            /\ Status'[dma].fl = m + 1
        BY <1>6
      <4> QED BY <3>1, <4>1, <4>2, <4>3
    <3>2. CASE j # m
      <4>1. /\ j \in 0 .. Long - 1 /\ Waiting + j \in 0 .. n - 1 /\ j + 1 # m + 1
        BY <1>9, <2>2, <3>2
      <4>2. Status'[Ahead(b, Waiting + j)] = Status[Ahead(b, Waiting + j)]
        BY <1>8, <4>1
      <4> QED BY <1>14, <4>1, <4>2 DEF ContentInv
    <3> QED BY <3>1, <3>2
  <2>6. ContentInv(b, n + 1)'
    <3>1. /\ 0 .. Long' - 1 = 0 .. m /\ Waiting' + Long' = n + 1
          /\ Waiting' + Long' <= n + 1
      BY <1>9, <2>2, <2>3, <2>4
    <3> QED BY <1>9, <1>10, <2>1, <2>3, <2>4, <2>5, <3>1 DEF ContentInv
  <2>7. CpuInv(b)'
    <3>1. pc \in {"poll", "poll2"} =>
             /\ PollInv(b)
             /\ Seg_Count > 0 => Seg_Count <= Long' /\ Seg_Count < Long'
      <4>1. Seg_Count \in Nat
        BY DEF TypeOK
      <4> QED BY <2>2, <2>3, <4>1 DEF CpuInv, PollInv
    <3>2. pc \in {"get", "copy", "release"} /\ ~(pc = "release" /\ i = 1)
             => Waiting > 0 /\ Waiting # 0
      BY <1>9, <1>14 DEF CpuInv, GetInv, CopyInv, ReleaseInv
    <3> QED BY <1>2, <2>4, <3>1, <3>2 DEF CpuInv, PollInv, GetInv, CopyInv, ReleaseInv
  <2>8. StoresLater
    BY <1>3, <1>14, <2>1 DEF StoresLater
  <2> QED BY <1>5, <1>7, <2>6, <2>7, <2>8
<1> QED BY <1>12, <1>13, <1>14

\* The steps that only concern the hardware's state, and the end of
\* low_level_input.
LEMMA QuietStep ==
    ASSUME TypeOK, FifoInv, NEW b \in Desc, NEW n \in 0 .. RxBufNb,
           RingInv(b, n), ContentInv(b, n), CpuInv(b),
           \/ FrameArrives \/ DmaUnavailable \/ DmaSuspend \/ ResumeReception
           \/ UNCHANGED vars
    PROVE  /\ RingInv(b, n)' /\ ContentInv(b, n)' /\ CpuInv(b)'
           /\ UNCHANGED <<stored, log>>
<1> USE EthRxAssumption
<1>1. UNCHANGED <<Status, Buf, dma, stored, log, DMARxDescToGet, FS_Rx_Desc,
                  Seg_Count, frame, i>>
  BY DEF FrameArrives, DmaUnavailable, DmaSuspend, ResumeReception, vars, cpu
<1>2. pc' = pc \/ (pc = "resume" /\ pc' = "poll")
  BY DEF FrameArrives, DmaUnavailable, DmaSuspend, ResumeReception, vars, cpu
<1>3. fifo'.segs = fifo.segs
  <2>1. CASE FrameArrives
    BY <2>1 DEF FrameArrives, NoFrame
  <2>2. CASE DmaUnavailable
    <3>1. PICK f \in 1 .. MaxFrames, m \in 0 .. MaxSegs, l \in 1 .. MaxSegs :
            fifo = [f |-> f, segs |-> SegmentsOf(f, m), left |-> l]
      BY <2>2 DEF FifoInv, DmaUnavailable
    <3>2. fifo.segs = SegmentsOf(f, m) /\ Len(SegmentsOf(f, m)) = m
      BY <3>1, FrameFacts
    <3>3. ~(m > 0)
      BY <2>2, <3>2 DEF FifoInv, DmaUnavailable
    <3>4. m = 0
      BY <3>3
    <3>5. fifo.segs = <<>>
      BY <3>2, <3>4, FrameFacts
    <3>6. fifo' = NoFrame /\ NoFrame.segs = <<>>
      BY <2>2 DEF DmaUnavailable, NoFrame
    <3> QED BY <3>5, <3>6
  <2>3. CASE DmaSuspend \/ ResumeReception \/ UNCHANGED vars
    BY <2>3 DEF DmaSuspend, ResumeReception, vars
  <2> QED BY <2>1, <2>2, <2>3
<1>4. Taken' = Taken
  BY <1>1, <1>2 DEF Taken
<1>5. /\ RingInv(b, n)' /\ ContentInv(b, n)' /\ Complete' = Complete
      /\ Waiting' = Waiting /\ Long' = Long
  BY <1>1, <1>3, <1>4, RingUntouched
<1>6. CpuInv(b)'
  <2>1. CASE pc' = pc
    BY <1>1, <1>5, <2>1 DEF CpuInv, PollInv, GetInv, CopyInv, ReleaseInv
  <2>2. CASE pc = "resume" /\ pc' = "poll"
    <3>1. Seg_Count = 0 /\ DMARxDescToGet = b
      BY <2>2 DEF CpuInv
    <3>2. 0 \in 0 .. RxBufNb - 1
      OBVIOUS
    <3>3. Ahead(b, 0) = b
      BY <3>2, AheadNext
    <3> QED BY <1>1, <2>2, <3>1, <3>3 DEF CpuInv, PollInv
  <2> QED BY <1>2, <2>1, <2>2
<1> QED BY <1>1, <1>5, <1>6

\* Once a longer frame has been mishandled the queue of single frames is over:
\* what is stored or logged then is behind it.
LEMMA DisturbedStep ==
    ASSUME TypeOK, TypeOK', FifoInv, ~Undisturbed, Complete, [Next]_vars
    PROVE  /\ ~Undisturbed' /\ Complete'
           /\ \/ TakesLater /\ stored' = stored
              \/ StoresLater /\ log' = log
<1> USE EthRxAssumption
<1>1. /\ Singles \in Nat /\ Len(stored) \in Nat /\ Len(log) \in Nat
      /\ Singles < Len(stored) /\ Len(log) > Singles
  BY CountFacts DEF Undisturbed, Complete
<1>2. CASE DmaStore
  <2>1. PICK f \in 1 .. MaxFrames, m \in 0 .. MaxSegs - 1, last \in BOOLEAN :
          Stores(f, m, last)
    BY <1>2, StoreFacts
  <2> DEFINE g == SegmentsOf(f, m + 1)
  <2>2. /\ g \in Frames
        /\ ~last => stored' = stored /\ Singles' = Singles
        /\ last => /\ stored' = Append(stored, g)
                   /\ Len(stored') = Len(stored) + 1
                   /\ Singles' = Singles
    BY <2>1, StoredNext
  <2> HIDE DEF g
  <2>3. Singles' = Singles /\ Len(stored') >= Len(stored) /\ Len(stored') \in Nat
    BY <1>1, <2>2
  <2>4. log' = log
    BY <1>2 DEF DmaStore, cpu
  <2>5. Complete' /\ ~Undisturbed'
    BY <1>1, <2>3, <2>4 DEF Complete, Undisturbed
  <2>6. StoresLater
    BY <2>2, <2>3, <2>5 DEF StoresLater
  <2> QED BY <2>4, <2>5, <2>6
<1>3. CASE CopyToPbuf
  <2>1. stored' = stored
    BY <1>3 DEF CopyToPbuf, hw
  <2>2. PICK r : log' = Append(log, r)
    BY <1>3 DEF CopyToPbuf
  <2>3. Len(log') = Len(log) + 1 /\ r \in Seq(Segment)
    <3>1. log \in Seq(Seq(Segment)) /\ log' \in Seq(Seq(Segment))
      BY DEF TypeOK
    <3>2. Len(log') = Len(log) + 1 /\ log'[Len(log) + 1] = r
      BY <2>2, <3>1
    <3>3. Len(log) + 1 \in 1 .. Len(log')
      BY <1>1, <3>2
    <3>4. log'[Len(log) + 1] \in Seq(Segment)
      BY <3>1, <3>3
    <3> QED BY <3>2, <3>4
  <2>4. Singles' = Singles /\ Complete'
    BY <2>1 DEF Singles, Complete
  <2>5. ~Undisturbed'
    BY <1>1, <2>3, <2>4 DEF Undisturbed
  <2>6. TakesLater
    BY <1>1, <2>2, <2>3 DEF TakesLater
  <2> QED BY <2>1, <2>4, <2>5, <2>6
<1>4. CASE ~DmaStore /\ ~CopyToPbuf
  <2>1. stored' = stored /\ log' = log
    BY <1>4 DEF Next, Dma, MainLoop, ETH_CheckFrameReceived, CheckLast, CheckFirst,
       CheckIntermediate, CheckNothing, low_level_input, ETH_Get_Received_Frame,
       ReleaseDescriptor, ResumeReception, FrameArrives, DmaUnavailable, DmaSuspend,
       vars, hw, cpu
  <2>2. Singles' = Singles /\ Complete' /\ ~Undisturbed'
    BY <2>1 DEF Singles, Complete, Undisturbed
  <2> QED BY <2>1, <2>2 DEF StoresLater
<1> QED BY <1>2, <1>3, <1>4

\* At the start the ring is the DMA's.
LEMMA InitInv == Init => Inv
<1> SUFFICES ASSUME Init PROVE Inv
  OBVIOUS
<1> USE EthRxAssumption
<1>1. 0 \in Desc /\ 0 \in 0 .. RxBufNb /\ 0 \in 0 .. RxBufNb - 1
  BY DEF Desc
<1>2. TypeOK
  <2>1. [own |-> TRUE, fs |-> FALSE, ls |-> FALSE, fl |-> 0] \in Descriptor
    BY DEF Descriptor
  <2>2. <<0, 0>> \in Segment
    BY DEF Segment
  <2>3. Status \in [Desc -> Descriptor] /\ Buf \in [Desc -> Segment]
    BY <2>1, <2>2 DEF Init
  <2>4. stored \in Seq(Frames) /\ log \in Seq(Seq(Segment))
    BY DEF Init
  <2> QED BY <1>1, <2>3, <2>4 DEF Init, TypeOK
<1>3. FifoInv
  BY DEF Init, FifoInv, NoFrame
<1>4. /\ Len(stored) = 0 /\ Len(log) = 0 /\ Len(fifo.segs) = 0 /\ pc = "poll"
      /\ Seg_Count = 0 /\ dma = 0 /\ DMARxDescToGet = 0
  BY DEF Init, NoFrame
<1>5. Singles = 0 /\ ~Complete /\ Long = 0 /\ Taken = 0 /\ Waiting = 0
  <2>1. Singles = 0
    BY <1>2, <1>3, <1>4, CountFacts
  <2>2. ~Complete /\ Taken = 0
    BY <1>4, <2>1 DEF Complete, Taken
  <2>3. Long = 0
    BY <1>4, <2>2 DEF Long
  <2>4. Waiting = 0
    BY <2>1, <2>2 DEF Waiting
  <2> QED BY <2>1, <2>2, <2>3, <2>4
<1>6. Ahead(0, 0) = 0
  BY <1>1, AheadNext
<1>7. RingInv(0, 0)
  <2>1. \A d \in Desc : Status[d].own
    BY DEF Init
  <2>2. Held = {} /\ 0 .. 0 - 1 = {}
    BY <2>1 DEF Held
  <2> QED BY <1>4, <1>6, <2>2 DEF RingInv
<1>8. ContentInv(0, 0)
  BY <1>5 DEF ContentInv
<1>9. CpuInv(0)
  BY <1>4, <1>6 DEF CpuInv, PollInv
<1>10. Undisturbed
  BY <1>4, <1>5 DEF Undisturbed
<1> QED BY <1>1, <1>2, <1>3, <1>7, <1>8, <1>9, <1>10 DEF Inv

\* A step before a longer frame is taken: the ring stays in order, or it is
\* the step that takes that frame.
LEMMA UndisturbedStep ==
    ASSUME TypeOK, TypeOK', FifoInv, Undisturbed, NEW b \in Desc, NEW n \in 0 .. RxBufNb,
           RingInv(b, n), ContentInv(b, n), CpuInv(b), [Next]_vars
    PROVE  /\ \/ TakesLater /\ Complete' /\ stored' = stored
              \/ \E c \in Desc, m \in 0 .. RxBufNb :
                    RingInv(c, m)' /\ ContentInv(c, m)' /\ CpuInv(c)'
           /\ \/ (TakesOldest \/ TakesLater) /\ stored' = stored
              \/ (StoresFrame \/ StoresLater) /\ log' = log
<1>1. CASE DmaStore
  <2>1. log' = log
    BY <1>1 DEF DmaStore, cpu
  <2> QED BY <1>1, <2>1, StoreStep
<1>2. CASE CopyToPbuf
  <2>1. stored' = stored
    BY <1>2 DEF CopyToPbuf, hw
  <2>2. Complete => Complete'
    BY <2>1 DEF Complete, Singles
  <2>3. \/ TakesOldest /\ RingInv(b, n)' /\ ContentInv(b, n)' /\ CpuInv(b)'
        \/ TakesLater
    BY <1>2, CopyStep
  <2> QED BY <2>1, <2>2, <2>3 DEF TakesLater
<1>3. ASSUME UNCHANGED <<stored, log>>
      PROVE  StoresLater /\ log' = log
  BY <1>3 DEF StoresLater, Complete, Singles
<1>4. CASE ReleaseDescriptor
  <2>1. UNCHANGED <<stored, log>>
    BY <1>4 DEF ReleaseDescriptor, hw
  <2> QED BY <1>3, <1>4, <2>1, ReleaseStep
<1>5. CASE ETH_CheckFrameReceived \/ ETH_Get_Received_Frame
  <2>1. UNCHANGED <<stored, log>>
    BY <1>5 DEF ETH_CheckFrameReceived, CheckLast, CheckFirst, CheckIntermediate,
       CheckNothing, ETH_Get_Received_Frame, hw
  <2>2. RingInv(b, n)' /\ ContentInv(b, n)' /\ CpuInv(b)'
    BY <1>5, CheckStep, GetFrameStep
  <2> QED BY <1>3, <2>1, <2>2
<1>6. CASE \/ FrameArrives \/ DmaUnavailable \/ DmaSuspend \/ ResumeReception
           \/ UNCHANGED vars
  BY <1>3, <1>6, QuietStep
<1> QED BY <1>1, <1>2, <1>4, <1>5, <1>6 DEF Next, Dma, MainLoop, low_level_input

\* The invariant is kept by every step.
LEMMA NextInv == Inv /\ [Next]_vars => Inv'
<1> SUFFICES ASSUME Inv, [Next]_vars PROVE Inv'
  OBVIOUS
<1>1. TypeOK /\ FifoInv /\ TypeOK' /\ FifoInv'
  BY TypeNext, FifoNext DEF Inv
<1>2. CASE ~Undisturbed
  <2>1. Complete' /\ ~Undisturbed'
    BY <1>1, <1>2, DisturbedStep DEF Inv
  <2> QED BY <1>1, <2>1 DEF Inv
<1>3. CASE Undisturbed
  <2>1. PICK b \in Desc, n \in 0 .. RxBufNb :
          RingInv(b, n) /\ ContentInv(b, n) /\ CpuInv(b)
    BY <1>3 DEF Inv
  <2>2. \/ TakesLater /\ Complete' /\ stored' = stored
        \/ \E c \in Desc, m \in 0 .. RxBufNb :
              RingInv(c, m)' /\ ContentInv(c, m)' /\ CpuInv(c)'
    BY <1>1, <1>3, <2>1, UndisturbedStep
  <2>3. CASE TakesLater /\ Complete' /\ stored' = stored
    <3>1. PICK r \in Seq(Segment) : log' = Append(log, r)
      BY <2>3 DEF TakesLater
    <3>2. Len(log') = Len(log) + 1
      BY <3>1 DEF TypeOK, Inv
    <3>3. Singles' = Singles /\ Len(log) >= Singles
      BY <2>3 DEF Singles, TakesLater
    <3>4. ~Undisturbed'
      BY <1>1, <3>2, <3>3, CountFacts DEF Undisturbed
    <3> QED BY <1>1, <2>3, <3>4 DEF Inv
  <2>4. CASE \E c \in Desc, m \in 0 .. RxBufNb :
              RingInv(c, m)' /\ ContentInv(c, m)' /\ CpuInv(c)'
    <3>1. PICK c \in Desc, m \in 0 .. RxBufNb :
              RingInv(c, m)' /\ ContentInv(c, m)' /\ CpuInv(c)'
      BY <2>4
    <3>2. ~Undisturbed' => Complete'
      <4>1. /\ Waiting' >= 0 /\ Waiting' = Singles' - Taken'
            /\ Taken' = IF pc' = "release" /\ i' = 0 THEN Len(log') - 1 ELSE Len(log')
        BY <3>1 DEF ContentInv, Taken, Waiting
      <4>2. pc' = "release" /\ i' = 0 => Waiting' > 0
        BY <3>1 DEF CpuInv, ReleaseInv
      <4>3. Len(log') \in Nat /\ Singles' \in Nat
        <5>1. stored' \in Seq(Frames) /\ log' \in Seq(Seq(Segment)) /\ Len(stored') \in Nat
          BY <1>1 DEF TypeOK
        <5>2. SinglePrefix(stored', SinglesOf(stored')) /\ Singles' = SinglesOf(stored')
          BY <5>1, SinglesIsPrefix DEF Singles, SinglesOf
        <5> QED BY <5>1, <5>2 DEF SinglePrefix
      <4>4. Len(log') <= Singles'
        BY <4>1, <4>2, <4>3
      <4> QED BY <4>4 DEF Undisturbed
    <3> QED BY <1>1, <3>1, <3>2 DEF Inv
  <2> QED BY <2>2, <2>3, <2>4
<1> QED BY <1>2, <1>3

\* The two sides of the receive ring stay in step, in every behaviour.
THEOREM Invariance == Spec => []Inv
<1> QED BY InitInv, NextInv, PTL DEF Spec

\* With one descriptor per frame, as in the build, no frame is stranded behind
\* DMARxDescToGet and none is overwritten before it is read: low_level_input
\* gives back the descriptor it took (ethernetif.c:283) and nothing else, whether
\* pbuf_alloc had room or not.
THEOREM InStep == Spec => []RingInStep
<1>1. Inv => RingInStep
  <2> SUFFICES ASSUME Inv, AllSingle
               PROVE  LET n == Cardinality(Held)
                      IN  /\ Held = {Ahead(Oldest, e) : e \in 0 .. n - 1}
                          /\ dma = Ahead(Oldest, n)
    BY DEF RingInStep, Held
  <2> USE EthRxAssumption
  <2>1. TypeOK /\ FifoInv
    BY DEF Inv
  <2>2. ~Complete /\ Undisturbed
    BY <2>1, CountFacts DEF Inv, AllSingle
  <2>3. PICK b \in Desc, n \in 0 .. RxBufNb :
          RingInv(b, n) /\ ContentInv(b, n) /\ CpuInv(b)
    BY <2>2 DEF Inv
  <2>4. Long = 0 /\ Seg_Count \in Nat /\ Waiting \in Int /\ Waiting >= 0
    <3>1. Len(fifo.segs) = 0
      BY DEF AllSingle
    <3> QED BY <2>1, <2>2, <2>3, <3>1, CountFacts DEF TypeOK, ContentInv
  <2>5. 0 \in 0 .. RxBufNb - 1
    OBVIOUS
  <2>6. Ahead(b, 0) = b
    BY <2>5, AheadNext
  <2>7. Oldest = b
    <3>1. CASE pc \in {"poll", "poll2"}
      <4>1. DMARxDescToGet = Ahead(b, Seg_Count) /\ (Seg_Count > 0 => Seg_Count <= Long)
        BY <2>3, <3>1 DEF CpuInv, PollInv
      <4>2. Seg_Count = 0
        BY <2>4, <4>1
      <4> QED BY <2>6, <3>1, <4>1, <4>2 DEF Oldest
    <3>2. CASE pc = "get"
      <4>1. GetInv(b)
        BY <2>3, <3>2 DEF CpuInv
      <4>2. Waiting > 0
        BY <2>2, <2>4, <4>1 DEF GetInv
      <4>3. Seg_Count = 1 /\ DMARxDescToGet = Ahead(b, 0)
        BY <4>1, <4>2 DEF GetInv
      <4> QED BY <2>6, <3>2, <4>3 DEF Oldest
    <3>3. CASE pc = "copy"
      <4>1. CopyInv(b)
        BY <2>3, <3>3 DEF CpuInv
      <4>2. Waiting > 0
        BY <2>2, <2>4, <4>1 DEF CopyInv
      <4>3. frame.descriptor = b
        BY <4>1, <4>2 DEF CopyInv
      <4> QED BY <3>3, <4>3 DEF Oldest
    <3>4. CASE pc = "release"
      <4>1. ReleaseInv(b)
        BY <2>3, <3>4 DEF CpuInv
      <4> QED BY <3>4, <4>1 DEF Oldest, ReleaseInv
    <3>5. CASE pc = "resume"
      BY <2>3, <3>5 DEF CpuInv, Oldest
    <3> QED BY <2>1, <3>1, <3>2, <3>3, <3>4, <3>5 DEF TypeOK
  <2>8. Held = From(b, n) /\ dma = Ahead(b, n)
    BY <2>3 DEF RingInv, From
  <2>9. Cardinality(Held) = n
    BY <2>8, FromCardinality
  <2> QED BY <2>7, <2>8, <2>9 DEF From
<1> QED BY <1>1, Invariance, PTL

\* ETH_CheckFrameReceived (stm32f4x7_eth.c:1234) recognises a frame in several
\* descriptors, although the DMA stores its segments between any two polls: when
\* it reports the frame it has counted every segment and remembers the first.
THEOREM Recognised == Spec => []SegmentsRecognised
<1>1. Inv => SegmentsRecognised
  <2> SUFFICES ASSUME Inv, pc = "get", Undisturbed
               PROVE  /\ Seg_Count = Status[DMARxDescToGet].fl
                      /\ Seg_Count > 1 => Ahead(FS_Rx_Desc, Seg_Count - 1) = DMARxDescToGet
    BY DEF SegmentsRecognised
  <2>1. TypeOK /\ FifoInv
    BY DEF Inv
  <2>2. PICK b \in Desc, n \in 0 .. RxBufNb :
          RingInv(b, n) /\ ContentInv(b, n) /\ CpuInv(b)
    BY DEF Inv
  <2>3. GetInv(b) /\ Waiting >= 0 /\ Waiting \in Int /\ Seg_Count \in Nat /\ Long \in Nat
    BY <2>1, <2>2, CountFacts DEF CpuInv, ContentInv, TypeOK
  <2>4. Seg_Count > 1 => Ahead(FS_Rx_Desc, Seg_Count - 1) = DMARxDescToGet
    BY <2>3 DEF GetInv
  <2>5. Seg_Count = Status[DMARxDescToGet].fl
    <3>1. CASE Waiting > 0
      <4>1. Seg_Count = 1 /\ DMARxDescToGet = Ahead(b, 0) /\ 0 \in 0 .. Waiting - 1
        BY <2>3, <3>1 DEF GetInv
      <4> QED BY <2>2, <4>1 DEF ContentInv
    <3>2. CASE ~(Waiting > 0)
      <4>1. Waiting = 0 /\ Seg_Count = Long /\ Seg_Count > 0
        BY <2>3, <3>2 DEF GetInv
      <4> DEFINE e == Seg_Count - 1
      <4>2. e \in 0 .. Long - 1 /\ Waiting + e = e /\ e + 1 = Seg_Count
        BY <2>3, <4>1
      <4>3. DMARxDescToGet = Ahead(b, e)
        BY <2>3 DEF GetInv
      <4> HIDE DEF e
      <4>4. Status[Ahead(b, Waiting + e)].fl = e + 1
        BY <2>2, <4>2 DEF ContentInv
      <4> QED BY <4>2, <4>3, <4>4
    <3> QED BY <3>1, <3>2
  <2> QED BY <2>4, <2>5
<1> QED BY <1>1, Invariance, PTL

-----------------------------------------------------------------------------
(* The ring implements FrameFifo.                                          *)

\* What the variables of FrameFifo are mapped to.
Queue == SubSeq(stored, Len(log) + 1, Singles)
Log   == SubSeq(log, 1, IF Len(log) < Singles THEN Len(log) ELSE Singles)

\* low_level_input takes the head of the queue and logs or drops it.
LEMMA GetStep ==
    ASSUME TypeOK, TypeOK', FifoInv, TakesOldest, stored' = stored
    PROVE  /\ Queue # <<>>
           /\ Queue' = Tail(Queue)
           /\ \E r \in {Head(Queue), NoMem} : Log' = Append(Log, r)
<1> DEFINE p == Len(log)
<1>1. /\ stored \in Seq(Frames) /\ log \in Seq(Seq(Segment)) /\ log' \in Seq(Seq(Segment))
      /\ Singles \in Nat /\ Singles <= Len(stored) /\ Len(stored) \in Nat
      /\ p \in Nat /\ p < Singles /\ Singles' = Singles
  BY CountFacts DEF TypeOK, TakesOldest, Singles
<1>2. PICK r \in {stored[p + 1], NoMem} : log' = Append(log, r)
  BY DEF TakesOldest
<1>3. Len(log') = p + 1
  BY <1>1, <1>2
<1>4. p + 1 \in 1 .. Len(stored) /\ Singles \in p + 1 .. Len(stored)
  BY <1>1
<1>5. /\ Head(Queue) = stored[p + 1]
      /\ Tail(Queue) = SubSeq(stored, (p + 1) + 1, Singles)
  BY <1>1, <1>4, HeadTailOfSubSeq DEF Queue
<1>6. Queue # <<>>
  <2>1. \A e \in p + 1 .. Singles : stored[e] \in Frames
    BY <1>1
  <2>2. Len(Queue) = Singles - (p + 1) + 1
    <3>1. p + 1 \in Int /\ Singles \in Int /\ p + 1 <= Singles
      BY <1>1
    <3> QED BY <2>1, <3>1, SubSeqProperties DEF Queue
  <2>3. Len(Queue) # 0
    BY <1>1, <2>2
  <2> QED BY <2>3
<1>7. Queue' = Tail(Queue)
  BY <1>1, <1>3, <1>5 DEF Queue
<1>8. Log = log
  BY <1>1, SubSeqFull DEF Log
<1>9. Log' = log'
  <2>1. (IF Len(log') < Singles' THEN Len(log') ELSE Singles') = Len(log')
    BY <1>1, <1>3
  <2> QED BY <1>1, <2>1, SubSeqFull DEF Log
<1> QED BY <1>2, <1>5, <1>6, <1>7, <1>8, <1>9

\* A later frame is not of the queue.
LEMMA LaterStep ==
    ASSUME TypeOK, TypeOK', FifoInv, TakesLater, stored' = stored
    PROVE  UNCHANGED <<Queue, Log>>
<1>1. /\ log \in Seq(Seq(Segment)) /\ Singles \in Nat /\ Len(log) \in Nat
      /\ Len(log) >= Singles /\ Singles' = Singles
  BY CountFacts DEF TypeOK, TakesLater, Singles
<1>2. PICK r \in Seq(Segment) : log' = Append(log, r)
  BY DEF TakesLater
<1>3. Len(log') = Len(log) + 1
  BY <1>1, <1>2
<1>4. Queue = <<>> /\ Queue' = <<>>
  <2>1. /\ Len(log) + 1 \in Int /\ Len(log') + 1 \in Int /\ Singles \in Int
        /\ Singles < Len(log) + 1 /\ Singles < Len(log') + 1
    BY <1>1, <1>3
  <2>2. \A a, m : m \in Int /\ Singles < m => SubSeq(a, m, Singles) = <<>>
    BY <2>1, SubSeqEmpty
  <2> QED BY <1>1, <2>1, <2>2 DEF Queue
<1>5. Log = SubSeq(log, 1, Singles) /\ Log' = SubSeq(log', 1, Singles)
  <2>1. ~(Len(log) < Singles) /\ ~(Len(log') < Singles)
    BY <1>1, <1>3
  <2> QED BY <1>1, <2>1 DEF Log
<1>6. SubSeq(log', 1, Singles) = SubSeq(log, 1, Singles)
  <2>1. \A w \in Seq(Segment) : SubSeq(Append(log, w), 1, Singles) = SubSeq(log, 1, Singles)
    BY <1>1, SubSeqAppend
  <2> QED BY <1>2, <2>1
<1> QED BY <1>4, <1>5, <1>6

\* A single frame that the DMA completes is put at the end of the queue.
LEMMA PutStep ==
    ASSUME TypeOK, TypeOK', FifoInv, Undisturbed, StoresFrame, log' = log
    PROVE  /\ Len(Queue) < RxBufNb
           /\ \E f \in Frames : Queue' = Append(Queue, f)
           /\ Log' = Log
<1> DEFINE p == Len(log)
           n == Len(stored)
<1>1. /\ stored \in Seq(Frames) /\ stored' \in Seq(Frames)
      /\ p \in Nat /\ n \in Nat /\ p <= n
      /\ Singles = n /\ Singles' = Len(stored') /\ n - p < RxBufNb
  BY CountFacts DEF TypeOK, StoresFrame, Undisturbed
<1>2. PICK f \in Frames : stored' = Append(stored, f)
  BY DEF StoresFrame
<1>3. Len(stored') = n + 1 /\ stored'[n + 1] = f
  BY <1>1, <1>2
<1>4. Queue' = SubSeq(stored', p + 1, n) \o <<f>>
  <2>1. p + 1 \in 1 .. Len(stored') /\ n + 1 \in p + 1 .. Len(stored') /\ (n + 1) - 1 = n
    BY <1>1, <1>3
  <2>2. \A t \in Seq(Frames) : \A m \in 1 .. Len(t) : \A j \in m .. Len(t) :
           SubSeq(t, m, j) = SubSeq(t, m, j - 1) \o <<t[j]>>
    BY SubSeqRecursiveSecond
  <2>3. SubSeq(stored', p + 1, n + 1) = SubSeq(stored', p + 1, n) \o <<f>>
    BY <1>1, <1>3, <2>1, <2>2
  <2> QED BY <1>1, <1>3, <2>3 DEF Queue
<1>5. SubSeq(stored', p + 1, n) = Queue
  BY <1>1, <1>2, SubSeqAppend DEF Queue
<1>6. Queue \in Seq(Frames) /\ Len(Queue) = n - p
  <2>1. \A e \in p + 1 .. n : stored[e] \in Frames
    BY <1>1
  <2>2. p + 1 \in Int /\ n \in Int /\ (IF p + 1 <= n THEN n - (p + 1) + 1 ELSE 0) = n - p
    BY <1>1
  <2> QED BY <1>1, <2>1, <2>2, SubSeqProperties DEF Queue
<1>7. Queue' = Append(Queue, f)
  <2>1. \A q \in Seq(Frames) : q \o <<f>> = Append(q, f)
    OBVIOUS
  <2> QED BY <1>4, <1>5, <1>6, <2>1
<1>8. Log' = Log
  <2>1. /\ (IF Len(log) < Singles THEN Len(log) ELSE Singles) = p
        /\ (IF Len(log') < Singles' THEN Len(log') ELSE Singles') = p
    BY <1>1, <1>3
  <2> QED BY <2>1 DEF Log
<1> QED BY <1>1, <1>6, <1>7, <1>8

\* What is stored of a longer frame, or behind one, is not of the queue.
LEMMA StoresLaterStep ==
    ASSUME TypeOK, FifoInv, StoresLater, log' = log
    PROVE  UNCHANGED <<Queue, Log>>
<1>1. /\ stored \in Seq(Frames) /\ Singles \in Nat /\ Singles <= Len(stored)
      /\ Len(log) + 1 \in Nat \ {0} /\ Singles' = Singles
  BY CountFacts DEF TypeOK, StoresLater
<1>2. SubSeq(stored', Len(log) + 1, Singles) = SubSeq(stored, Len(log) + 1, Singles)
  BY <1>1, SubSeqAppend DEF StoresLater
<1> QED BY <1>1, <1>2 DEF Queue, Log

\* A step of the ring is a step of the queue, or none.
LEMMA FifoStep ==
    ASSUME Inv, Inv', [Next]_vars
    PROVE  Fifo!Next \/ UNCHANGED <<Queue, Log>>
<1>1. TypeOK /\ FifoInv /\ TypeOK'
  BY DEF Inv
<1>2. \/ (TakesOldest \/ TakesLater) /\ stored' = stored
      \/ StoresLater /\ log' = log
      \/ StoresFrame /\ log' = log /\ Undisturbed
  <2>1. CASE Undisturbed
    <3>1. PICK b \in Desc, n \in 0 .. RxBufNb :
            RingInv(b, n) /\ ContentInv(b, n) /\ CpuInv(b)
      BY <2>1 DEF Inv
    <3> QED BY <1>1, <2>1, <3>1, UndisturbedStep
  <2>2. CASE ~Undisturbed
    BY <1>1, <2>2, DisturbedStep DEF Inv
  <2> QED BY <2>1, <2>2
<1>3. CASE TakesOldest /\ stored' = stored
  <2>1. /\ Queue # <<>> /\ Queue' = Tail(Queue)
        /\ \E r \in {Head(Queue), NoMem} : Log' = Append(Log, r)
    BY <1>1, <1>3, GetStep
  <2>2. Fifo!Get
    BY <2>1 DEF Fifo!Get, Queue, Log
  <2> QED BY <2>2 DEF Fifo!Next
<1>4. CASE TakesLater /\ stored' = stored
  BY <1>1, <1>4, LaterStep
<1>5. CASE StoresFrame /\ log' = log /\ Undisturbed
  <2>1. /\ Len(Queue) < RxBufNb /\ Log' = Log
        /\ \E f \in Frames : Queue' = Append(Queue, f)
    BY <1>1, <1>5, PutStep
  <2>2. PICK f \in Frames : Queue' = Append(Queue, f)
    BY <2>1
  <2>3. Fifo!Put(f)
    BY <2>1, <2>2 DEF Fifo!Put, Queue, Log
  <2> QED BY <2>3 DEF Fifo!Next, Frames, SegmentsOf
<1>6. CASE StoresLater /\ log' = log
  BY <1>1, <1>6, StoresLaterStep
<1> QED BY <1>2, <1>3, <1>4, <1>5, <1>6

\* The ring of DMA descriptors is a bounded queue from the wire to
\* low_level_input (ethernetif.c:228): frames are taken in the order the DMA
\* stored them, whole and once, or dropped for want of a pbuf, up to the first
\* that takes several descriptors.
THEOREM Refinement == Spec => ImplementsFifo
<1>1. Init => Fifo!Init
  <2> SUFFICES ASSUME Init PROVE Queue = <<>> /\ Log = <<>>
    BY DEF Fifo!Init, Queue, Log
  <2>1. Len(stored) = 0 /\ Len(log) = 0 /\ log = <<>> /\ TypeOK /\ FifoInv
    BY InitInv DEF Init, Inv
  <2>2. Singles = 0
    BY <2>1, CountFacts
  <2>3. Len(log) + 1 = 1 /\ (IF Len(log) < Singles THEN Len(log) ELSE Singles) = 0
    BY <2>1, <2>2
  <2>4. \A s : SubSeq(s, 1, 0) = <<>>
    BY SubSeqEmpty
  <2> QED BY <2>2, <2>3, <2>4 DEF Queue, Log
<1>2. Inv /\ Inv' /\ [Next]_vars
        => [Fifo!Next]_<<SubSeq(stored, Len(log) + 1, Singles),
                         SubSeq(log, 1, IF Len(log) < Singles THEN Len(log) ELSE Singles)>>
  BY FifoStep DEF Queue, Log
<1> QED BY <1>1, <1>2, Invariance, PTL DEF Spec, ImplementsFifo, Fifo!Spec
=============================================================================
