---------------------------- MODULE EthTxProofs ----------------------------
(***************************************************************************)
(* Theorems about the transmit ring of EthTx, for every number of          *)
(* descriptors, every frame size that fits the ring and any number of      *)
(* frames: the ring stays in step with the DMA, and it implements the      *)
(* bounded queue of FrameFifo.                                             *)
(***************************************************************************)
EXTENDS EthTx, TLAPS, SequenceTheorems, WellFoundedInduction

Segment == (0 .. MaxFrames) \X (0 .. MaxSegs)
Frames  == {SegmentsOf(f, n) : f \in 1 .. MaxFrames, n \in 1 .. MaxSegs}

TypeOK ==
    /\ Status \in [Desc -> [own : BOOLEAN, fs : BOOLEAN, ls : BOOLEAN]]
    /\ Buf \in [Desc -> Segment]
    /\ dma \in Desc /\ DMATxDescToSet \in Desc
    /\ pc \in {"idle", "copy", "prepare", "unavailable", "underflow"}
    /\ outcalls \in 0 .. MaxFrames
    /\ segs \in 1 .. MaxSegs
    /\ k \in 0 .. MaxSegs
    /\ wire \in Seq(Segment)
    /\ sent \in Seq(Seq(Segment))
    /\ accepted \in Seq(Frames)

\* Descriptor j of the frame at hand is the CPU's and holds segment j + 1.
Filled(j) ==
    /\ ~Status[Ahead(DMATxDescToSet, j)].own
    /\ Buf[Ahead(DMATxDescToSet, j)] = <<outcalls, j + 1>>

\* low_level_output looked at every descriptor before ETH_Prepare_... runs.
FilledInv ==
    /\ pc \in {"copy", "prepare"} => k < segs /\ outcalls >= 1
    /\ pc = "copy" => \A j \in 0 .. k - 1 : Filled(j)
    /\ pc = "prepare" => \A j \in k .. segs - 1 : Filled(j)

Handed == IF pc = "prepare" THEN k ELSE 0

\* TxRingInStep for the n descriptors the DMA owns.
RingInv(n) ==
    /\ Owned = {Ahead(dma, j) : j \in 0 .. n - 1}
    /\ Ahead(DMATxDescToSet, Handed) = Ahead(dma, n)

\* Frames of the queue: single, handed over and not yet sent.
Pending == IF Len(sent) < Singles THEN Singles - Len(sent) ELSE 0

AllSingle == Singles = Len(accepted)

\* The next descriptors of the DMA hold the queue, in order.
QueueInv(n) ==
    /\ Pending <= n
    /\ \A j \in 0 .. Pending - 1 :
          /\ Status[Ahead(dma, j)].fs /\ Status[Ahead(dma, j)].ls
          /\ accepted[Len(sent) + 1 + j] = <<Buf[Ahead(dma, j)]>>
    /\ AllSingle => n = Pending /\ Len(sent) <= Len(accepted)
    /\ AllSingle \/ Pending > 0 => wire = <<>>
    /\ pc = "prepare" /\ k > 0 => ~AllSingle

Inv ==
    /\ TypeOK
    /\ FilledInv
    /\ \E n \in 0 .. TxBufNb : RingInv(n) /\ QueueInv(n)

-----------------------------------------------------------------------------
(* Arithmetic of the ring.                                                 *)

\* Ahead wraps at most once.
LEMMA AheadIs ==
    ASSUME NEW d \in Desc, NEW n \in 0 .. TxBufNb
    PROVE  /\ Ahead(d, n) \in Desc
           /\ Ahead(d, n) = IF d + n < TxBufNb THEN d + n ELSE d + n - TxBufNb
<1> USE EthTxAssumption DEF Desc
<1>1. d + n \in Nat /\ d + n < 2 * TxBufNb
  OBVIOUS
<1>2. CASE d + n < TxBufNb
  <2>1. \A x \in Nat : x < TxBufNb => x % TxBufNb = x
    OBVIOUS
  <2> QED BY <1>1, <1>2, <2>1 DEF Ahead
<1>3. CASE ~(d + n < TxBufNb)
  <2>1. \A x \in Nat : TxBufNb <= x /\ x < 2 * TxBufNb => x % TxBufNb = x - TxBufNb
    OBVIOUS
  <2>2. TxBufNb <= d + n
    BY <1>1, <1>3
  <2>3. (d + n) % TxBufNb = d + n - TxBufNb
    BY <1>1, <2>1, <2>2
  <2> QED BY <1>1, <1>3, <2>2, <2>3 DEF Ahead
<1> QED BY <1>2, <1>3

\* The chain of descriptors steps through the ring as the index does.
LEMMA AheadNext ==
    ASSUME NEW d \in Desc, NEW n \in 0 .. TxBufNb - 1
    PROVE  /\ NextDesc(d) \in Desc
           /\ Ahead(d, 0) = d
           /\ NextDesc(Ahead(d, n)) = Ahead(d, n + 1)
           /\ Ahead(NextDesc(d), n) = Ahead(d, n + 1)
<1> USE EthTxAssumption DEF Desc
<1>1. n \in 0 .. TxBufNb /\ n + 1 \in 0 .. TxBufNb /\ 0 \in 0 .. TxBufNb
  OBVIOUS
<1>2. NextDesc(d) \in Desc
  BY DEF NextDesc
<1>3. Ahead(d, 0) = d
  BY <1>1, AheadIs
<1>4. NextDesc(Ahead(d, n)) = Ahead(d, n + 1)
  <2>1. Ahead(d, n) = IF d + n < TxBufNb THEN d + n ELSE d + n - TxBufNb
    BY <1>1, AheadIs
  <2>2. Ahead(d, n + 1)
          = IF d + (n + 1) < TxBufNb THEN d + (n + 1) ELSE d + (n + 1) - TxBufNb
    BY <1>1, AheadIs
  <2> QED BY <2>1, <2>2 DEF NextDesc
<1>5. Ahead(NextDesc(d), n) = Ahead(d, n + 1)
  <2>1. Ahead(NextDesc(d), n) = IF NextDesc(d) + n < TxBufNb THEN NextDesc(d) + n
                               ELSE NextDesc(d) + n - TxBufNb
    BY <1>1, <1>2, AheadIs
  <2>2. Ahead(d, n + 1)
          = IF d + (n + 1) < TxBufNb THEN d + (n + 1) ELSE d + (n + 1) - TxBufNb
    BY <1>1, AheadIs
  <2> QED BY <2>1, <2>2 DEF NextDesc
<1> QED BY <1>2, <1>3, <1>4, <1>5

\* Within one round of the ring no descriptor comes twice.
LEMMA AheadDistinct ==
    ASSUME NEW d \in Desc, NEW i \in 0 .. TxBufNb - 1, NEW j \in 0 .. TxBufNb - 1,
           Ahead(d, i) = Ahead(d, j)
    PROVE  i = j
<1> USE EthTxAssumption DEF Desc
<1>1. i \in 0 .. TxBufNb /\ j \in 0 .. TxBufNb
  OBVIOUS
<1>2. /\ Ahead(d, i) = IF d + i < TxBufNb THEN d + i ELSE d + i - TxBufNb
      /\ Ahead(d, j) = IF d + j < TxBufNb THEN d + j ELSE d + j - TxBufNb
  BY <1>1, AheadIs
<1>3. \/ d + i = d + j \/ d + i - TxBufNb = d + j - TxBufNb
      \/ d + i = d + j - TxBufNb \/ d + i - TxBufNb = d + j
  BY <1>2, Zenon
<1> QED BY <1>3

\* The n descriptors from d on.
From(d, n) == {Ahead(d, j) : j \in 0 .. n - 1}

\* The DMA is done with the first of its n descriptors.
LEMMA FromTail ==
    ASSUME NEW d \in Desc, NEW n \in 1 .. TxBufNb
    PROVE  /\ From(NextDesc(d), n - 1) = From(d, n) \ {d}
           /\ d \in From(d, n)
<1> USE EthTxAssumption
<1>1. \A j \in 0 .. n - 2 : Ahead(NextDesc(d), j) = Ahead(d, j + 1)
  BY AheadNext
<1>2. d = Ahead(d, 0) /\ 0 \in 0 .. n - 1
  BY AheadNext
<1>3. \A j \in 1 .. n - 1 : Ahead(d, j) # d
  <2> SUFFICES ASSUME NEW j \in 1 .. n - 1, Ahead(d, j) = d PROVE FALSE
    OBVIOUS
  <2>1. j \in 0 .. TxBufNb - 1 /\ 0 \in 0 .. TxBufNb - 1
    OBVIOUS
  <2>2. j = 0
    BY <1>2, <2>1, AheadDistinct
  <2> QED BY <2>2
<1>4. From(NextDesc(d), n - 1) \subseteq From(d, n) \ {d}
  <2> SUFFICES ASSUME NEW j \in 0 .. n - 2
               PROVE  Ahead(NextDesc(d), j) \in From(d, n) \ {d}
    BY DEF From
  <2>1. j + 1 \in 1 .. n - 1 /\ j + 1 \in 0 .. n - 1
    OBVIOUS
  <2>2. Ahead(NextDesc(d), j) = Ahead(d, j + 1)
    BY <1>1
  <2> QED BY <1>3, <2>1, <2>2 DEF From
<1>5. From(d, n) \ {d} \subseteq From(NextDesc(d), n - 1)
  <2> SUFFICES ASSUME NEW j \in 0 .. n - 1, Ahead(d, j) # d
               PROVE  Ahead(d, j) \in From(NextDesc(d), n - 1)
    BY DEF From
  <2>1. j - 1 \in 0 .. n - 2 /\ (j - 1) + 1 = j
    BY <1>2
  <2>2. Ahead(NextDesc(d), j - 1) = Ahead(d, j)
    BY <1>1, <2>1
  <2> QED BY <2>1, <2>2 DEF From
<1> QED BY <1>2, <1>4, <1>5 DEF From

\* One more descriptor is handed over.
LEMMA FromAppend ==
    ASSUME NEW d \in Desc, NEW n \in 0 .. TxBufNb - 1
    PROVE  From(d, n + 1) = From(d, n) \cup {Ahead(d, n)}
<1>1. 0 .. (n + 1) - 1 = (0 .. n - 1) \cup {n}
  BY EthTxAssumption
<1> QED BY <1>1 DEF From

-----------------------------------------------------------------------------
(* The frames before the first one that takes several descriptors.         *)

\* Singles as a function of the frames handed over.
SinglesOf(a) ==
    LET multi == {n \in 1 .. Len(a) : Len(a[n]) > 1}
    IN  IF multi = {} THEN Len(a) ELSE Min(multi) - 1

\* s is the length of the longest prefix of a with single frames only.
SinglePrefix(a, s) ==
    /\ s \in 0 .. Len(a)
    /\ \A i \in 1 .. s : ~(Len(a[i]) > 1)
    /\ s < Len(a) => Len(a[s + 1]) > 1

\* A nonempty set of numbers has a least element.
LEMMA Least ==
    ASSUME NEW T \in SUBSET Nat, T # {}
    PROVE  \E x \in T : \A y \in T : x <= y
<1> DEFINE R == OpToRel(<, Nat)
<1>1. IsWellFoundedOn(R, Nat)
  BY NatLessThanWellFounded
<1>2. PICK x \in T : \A y \in T : ~ (<<y, x>> \in R)
  <2> HIDE DEF R
  <2> QED BY <1>1, WFMin
<1>3. \A y \in T : ~(y < x)
  BY <1>2 DEF OpToRel
<1> QED BY <1>3

\* What Singles computes.
LEMMA SinglesIsPrefix ==
    ASSUME NEW S, NEW a \in Seq(S)
    PROVE  SinglePrefix(a, SinglesOf(a))
<1> DEFINE multi == {n \in 1 .. Len(a) : Len(a[n]) > 1}
<1>1. SinglesOf(a) = IF multi = {} THEN Len(a) ELSE Min(multi) - 1
  BY DEF SinglesOf
<1>2. Len(a) \in Nat
  OBVIOUS
<1>3. CASE multi = {}
  BY <1>1, <1>2, <1>3 DEF SinglePrefix
<1>4. CASE multi # {}
  <2>1. multi \in SUBSET Nat
    OBVIOUS
  <2>2. Min(multi) \in multi /\ \A y \in multi : Min(multi) <= y
    <3> HIDE DEF multi
    <3> QED BY <1>4, <2>1, Least DEF Min
  <2> DEFINE m == Min(multi)
  <2>3. m \in 1 .. Len(a) /\ Len(a[m]) > 1
    BY <2>2
  <2>4. \A i \in 1 .. Len(a) : Len(a[i]) > 1 => m <= i
    BY <2>2
  <2>5. SinglesOf(a) = m - 1
    BY <1>1, <1>4
  <2> HIDE DEF m, multi
  <2>6. m - 1 \in 0 .. Len(a) /\ (m - 1) + 1 = m
    BY <1>2, <2>3
  <2>7. \A i \in 1 .. m - 1 : ~(Len(a[i]) > 1)
    BY <1>2, <2>3, <2>4
  <2> QED BY <2>3, <2>5, <2>6, <2>7 DEF SinglePrefix
<1> QED BY <1>3, <1>4

\* Such a prefix is unique.
LEMMA SinglePrefixUnique ==
    ASSUME NEW S, NEW a \in Seq(S), NEW s, NEW t,
           SinglePrefix(a, s), SinglePrefix(a, t)
    PROVE  s = t
<1>1. s \in Nat /\ t \in Nat /\ Len(a) \in Nat /\ s <= Len(a) /\ t <= Len(a)
  BY DEF SinglePrefix
<1>2. ~(s < t)
  <2> SUFFICES ASSUME s < t PROVE FALSE
    OBVIOUS
  <2>1. s + 1 \in 1 .. t /\ s < Len(a)
    BY <1>1
  <2> QED BY <2>1 DEF SinglePrefix
<1>3. ~(t < s)
  <2> SUFFICES ASSUME t < s PROVE FALSE
    OBVIOUS
  <2>1. t + 1 \in 1 .. s /\ t < Len(a)
    BY <1>1
  <2> QED BY <2>1 DEF SinglePrefix
<1> QED BY <1>1, <1>2, <1>3

\* How Singles moves when a frame is handed over.
LEMMA SinglesAppend ==
    ASSUME NEW S, NEW a \in Seq(S), NEW f \in S
    PROVE  SinglesOf(Append(a, f)) =
             IF SinglesOf(a) = Len(a) /\ ~(Len(f) > 1) THEN Len(a) + 1 ELSE SinglesOf(a)
<1> DEFINE b == Append(a, f)
           s == IF SinglesOf(a) = Len(a) /\ ~(Len(f) > 1) THEN Len(a) + 1 ELSE SinglesOf(a)
<1>1. /\ b \in Seq(S) /\ Len(b) = Len(a) + 1 /\ b[Len(a) + 1] = f
      /\ \A i \in 1 .. Len(a) : b[i] = a[i]
      /\ Len(a) \in Nat
  OBVIOUS
<1>2. SinglePrefix(b, SinglesOf(b)) /\ SinglePrefix(a, SinglesOf(a))
  BY <1>1, SinglesIsPrefix
<1>3. SinglePrefix(b, s)
  <2> DEFINE t == SinglesOf(a)
  <2> HIDE DEF t, b
  <2>1. /\ t \in 0 .. Len(a)
        /\ \A i \in 1 .. t : ~(Len(a[i]) > 1)
        /\ t < Len(a) => Len(a[t + 1]) > 1
    BY <1>2 DEF SinglePrefix, t
  <2>2. CASE t = Len(a) /\ ~(Len(f) > 1)
    <3>1. s = Len(a) + 1
      BY <2>2 DEF t
    <3>2. \A i \in 1 .. Len(a) + 1 : ~(Len(b[i]) > 1)
      BY <1>1, <2>1, <2>2
    <3> HIDE DEF s
    <3> QED BY <1>1, <3>1, <3>2 DEF SinglePrefix
  <2>3. CASE ~(t = Len(a) /\ ~(Len(f) > 1))
    <3>1. s = t
      BY <2>3 DEF t
    <3>2. \A i \in 1 .. t : ~(Len(b[i]) > 1)
      BY <1>1, <2>1
    <3>3. Len(b[t + 1]) > 1
      <4>1. CASE t = Len(a)
        BY <1>1, <2>3, <4>1
      <4>2. CASE t # Len(a)
        BY <1>1, <2>1, <4>2
      <4> QED BY <4>1, <4>2
    <3> HIDE DEF s
    <3> QED BY <1>1, <2>1, <3>1, <3>2, <3>3 DEF SinglePrefix
  <2> QED BY <2>2, <2>3
<1> QED BY <1>1, <1>2, <1>3, SinglePrefixUnique

-----------------------------------------------------------------------------
(* Types.                                                                  *)

\* A frame is a sequence of segments; a single frame is its one segment.
LEMMA FrameFacts ==
    ASSUME NEW f \in 1 .. MaxFrames, NEW n \in 1 .. MaxSegs
    PROVE  /\ SegmentsOf(f, n) \in Frames
           /\ SegmentsOf(f, n) \in Seq(Segment)
           /\ Len(SegmentsOf(f, n)) = n
           /\ n = 1 => SegmentsOf(f, n) = <<<<f, 1>>>>
<1> USE EthTxAssumption
<1>1. n \in Nat /\ n <= MaxSegs /\ f \in 0 .. MaxFrames
  OBVIOUS
<1>2. \A s \in 1 .. n : <<f, s>> \in Segment
  <2>1. \A s \in 1 .. n : s \in 0 .. MaxSegs
    BY <1>1
  <2> QED BY <1>1, <2>1 DEF Segment
<1>3. SegmentsOf(f, n) \in [1 .. n -> Segment]
  BY <1>2 DEF SegmentsOf
<1>4. SegmentsOf(f, n) \in Seq(Segment) /\ Len(SegmentsOf(f, n)) = n
  BY <1>1, <1>3
<1>5. n = 1 => SegmentsOf(f, n) = <<<<f, 1>>>>
  BY <1>4 DEF SegmentsOf
<1> QED BY <1>4, <1>5 DEF Frames

\* The types of the state are kept by every step.
LEMMA TypeNext == TypeOK /\ FilledInv /\ [Next]_vars => TypeOK'
<1> SUFFICES ASSUME TypeOK, FilledInv, [Next]_vars PROVE TypeOK'
  OBVIOUS
<1> USE EthTxAssumption DEF TypeOK, hw
<1>1. CASE UNCHANGED vars
  BY <1>1 DEF vars
<1>2. CASE DmaSend
  <2>1. dma' \in Desc
    <3>1. dma' = NextDesc(dma) /\ dma \in Desc
      BY <1>2 DEF DmaSend
    <3>2. 0 \in 0 .. TxBufNb - 1
      OBVIOUS
    <3> QED BY <3>1, <3>2, AheadNext
  <2>2. Status' \in [Desc -> [own : BOOLEAN, fs : BOOLEAN, ls : BOOLEAN]]
    BY <1>2 DEF DmaSend
  <2>3. wire' \in Seq(Segment) /\ sent' \in Seq(Seq(Segment))
    <3> DEFINE w == Append(IF Status[dma].fs THEN <<>> ELSE wire, Buf[dma])
    <3>1. w \in Seq(Segment)
      OBVIOUS
    <3>2. \/ sent' = Append(sent, w) /\ wire' = <<>>
          \/ wire' = w /\ sent' = sent
      BY <1>2 DEF DmaSend
    <3> HIDE DEF w
    <3>3. Append(sent, w) \in Seq(Seq(Segment)) /\ <<>> \in Seq(Segment)
      BY <3>1
    <3> QED BY <3>1, <3>2, <3>3
  <2> QED BY <1>2, <2>1, <2>2, <2>3 DEF DmaSend
<1>3. CASE DmaUnavailable \/ DmaSuspend \/ ResumeUnavailable \/ ResumeUnderflow
  BY <1>3 DEF DmaUnavailable, DmaSuspend, ResumeUnavailable, ResumeUnderflow
<1>4. CASE Output
  BY <1>4 DEF Output
<1>5. CASE CopyToBuffer
  <2>1. Ahead(DMATxDescToSet, k) \in Desc
    BY AheadIs
  <2>2. pc' \in {"copy", "prepare", "underflow"} /\ k' \in 0 .. MaxSegs
    BY <1>5 DEF CopyToBuffer, FilledInv
  <2>3. Buf' \in [Desc -> Segment]
    <3>1. <<outcalls, k + 1>> \in Segment
      BY <1>5 DEF CopyToBuffer, FilledInv, Segment
    <3> QED BY <1>5, <2>1, <3>1 DEF CopyToBuffer
  <2> QED BY <1>5, <2>2, <2>3 DEF CopyToBuffer
<1>6. CASE Prepare
  <2> DEFINE d == Ahead(DMATxDescToSet, k)
  <2>1. d \in Desc
    BY AheadIs
  <2>2. pc' \in {"prepare", "unavailable", "underflow"} /\ k' \in 0 .. MaxSegs
    BY <1>6 DEF Prepare, FilledInv
  <2>3. NextDesc(d) \in Desc
    BY <2>1 DEF NextDesc, Desc
  <2>4. DMATxDescToSet' \in Desc
    BY <1>6, <2>3 DEF Prepare
  <2>5. Status' \in [Desc -> [own : BOOLEAN, fs : BOOLEAN, ls : BOOLEAN]]
    <3>1. CASE PrepareRefused
      BY <1>6, <3>1 DEF Prepare
    <3>2. CASE ~PrepareRefused
      <4>1. Status' = [Status EXCEPT ![d] = [own |-> TRUE,
                          fs |-> @.fs \/ k = 0, ls |-> @.ls \/ k + 1 = segs]]
        BY <1>6, <3>2 DEF Prepare
      <4>2. Status[d].fs \in BOOLEAN /\ Status[d].ls \in BOOLEAN
        BY <2>1
      <4> HIDE DEF d
      <4> QED BY <2>1, <4>1, <4>2
    <3> QED BY <3>1, <3>2
  <2>6. accepted' \in Seq(Frames)
    <3>1. outcalls \in 1 .. MaxFrames
      BY <1>6 DEF Prepare, FilledInv
    <3>2. SegmentsOf(outcalls, segs) \in Frames
      BY <3>1, FrameFacts
    <3>3. Append(accepted, SegmentsOf(outcalls, segs)) \in Seq(Frames)
      BY <3>2
    <3>4. \/ accepted' = accepted
          \/ accepted' = Append(accepted, SegmentsOf(outcalls, segs))
      BY <1>6 DEF Prepare
    <3> QED BY <3>3, <3>4
  <2> QED BY <1>6, <2>2, <2>4, <2>5, <2>6 DEF Prepare
<1> QED BY <1>1, <1>2, <1>3, <1>4, <1>5, <1>6 DEF Next, Dma, low_level_output

-----------------------------------------------------------------------------
(* The descriptors of the frame at hand.                                   *)

\* The descriptors of one frame are different ones.
LEMMA FrameDescs ==
    ASSUME TypeOK, NEW i \in 0 .. MaxSegs - 1, NEW j \in 0 .. MaxSegs - 1, i # j
    PROVE  /\ Ahead(DMATxDescToSet, i) \in Desc
           /\ Ahead(DMATxDescToSet, i) # Ahead(DMATxDescToSet, j)
<1>1. /\ i \in 0 .. TxBufNb - 1 /\ j \in 0 .. TxBufNb - 1
      /\ i \in 0 .. TxBufNb
      /\ DMATxDescToSet \in Desc
  BY EthTxAssumption DEF TypeOK
<1> QED BY <1>1, AheadIs, AheadDistinct

\* What low_level_output found free stays free and filled until it is handed
\* over: the DMA only gives descriptors back.
LEMMA FilledNext == TypeOK /\ FilledInv /\ [Next]_vars => FilledInv'
<1> SUFFICES ASSUME TypeOK, FilledInv, [Next]_vars PROVE FilledInv'
  OBVIOUS
<1> USE EthTxAssumption
<1>1. CASE UNCHANGED vars
  BY <1>1 DEF vars, FilledInv, Filled
<1>2. CASE DmaSend
  <2>1. \A x \in Desc : ~Status[x].own => ~Status'[x].own
    BY <1>2 DEF DmaSend, TypeOK
  <2>2. \A j \in 0 .. MaxSegs : Filled(j) => Filled(j)'
    <3> SUFFICES ASSUME NEW j \in 0 .. MaxSegs, Filled(j) PROVE Filled(j)'
      OBVIOUS
    <3>1. Ahead(DMATxDescToSet, j) \in Desc
      BY AheadIs DEF TypeOK
    <3> QED BY <1>2, <2>1, <3>1 DEF DmaSend, Filled
  <2>3. /\ \A j \in 0 .. k - 1 : j \in 0 .. MaxSegs
        /\ \A j \in k .. segs - 1 : j \in 0 .. MaxSegs
    BY DEF TypeOK
  <2>4. UNCHANGED <<pc, k, segs, outcalls>>
    BY <1>2 DEF DmaSend
  <2> QED BY <2>2, <2>3, <2>4 DEF FilledInv
<1>3. CASE DmaUnavailable \/ DmaSuspend
  BY <1>3 DEF DmaUnavailable, DmaSuspend, FilledInv, Filled
<1>4. CASE Output
  <2>1. /\ pc' = "copy" /\ k' = 0 /\ segs' \in 1 .. MaxSegs /\ outcalls' = outcalls + 1
        /\ outcalls \in Nat
    BY <1>4 DEF Output, TypeOK
  <2>2. k' < segs' /\ outcalls' >= 1 /\ 0 .. k' - 1 = {}
    BY <2>1
  <2> QED BY <2>1, <2>2 DEF FilledInv
<1>5. CASE CopyToBuffer
  <2> DEFINE d == Ahead(DMATxDescToSet, k)
  <2>1. CASE Status[d].own
    BY <1>5, <2>1 DEF CopyToBuffer, FilledInv
  <2>2. CASE ~Status[d].own
    <3>1. /\ Buf' = [Buf EXCEPT ![d] = <<outcalls, k + 1>>]
          /\ UNCHANGED <<Status, DMATxDescToSet, outcalls, segs>>
      BY <1>5, <2>2 DEF CopyToBuffer
    <3>2. /\ k \in 0 .. MaxSegs - 1 /\ k < segs /\ outcalls >= 1
          /\ k \in Nat /\ segs \in Nat /\ segs <= MaxSegs
      BY <1>5 DEF CopyToBuffer, FilledInv, TypeOK
    <3>3. d \in Desc
      BY <3>2, AheadIs DEF TypeOK
    <3>4. \A j \in 0 .. k : Filled(j)'
      <4> SUFFICES ASSUME NEW j \in 0 .. k PROVE Filled(j)'
        OBVIOUS
      <4>1. CASE j = k
        BY <2>2, <3>1, <3>3, <4>1 DEF Filled, TypeOK
      <4>2. CASE j # k
        <5>1. j \in 0 .. k - 1 /\ j \in 0 .. MaxSegs - 1
          BY <3>2, <4>2
        <5>2. Ahead(DMATxDescToSet, j) # d /\ Ahead(DMATxDescToSet, j) \in Desc
          BY <3>2, <4>2, <5>1, FrameDescs
        <5>3. Filled(j)
          BY <1>5, <5>1 DEF CopyToBuffer, FilledInv
        <5> QED BY <3>1, <5>2, <5>3 DEF Filled, TypeOK
      <4> QED BY <4>1, <4>2
    <3>5. CASE k + 1 = segs
      <4>1. pc' = "prepare" /\ k' = 0
        BY <1>5, <2>2, <3>5 DEF CopyToBuffer
      <4>2. \A j \in 0 .. segs - 1 : j \in 0 .. k
        BY <3>2, <3>5
      <4>3. k' < segs' /\ outcalls' >= 1
        BY <3>1, <3>2, <4>1
      <4> QED BY <3>1, <3>4, <4>1, <4>2, <4>3 DEF FilledInv
    <3>6. CASE k + 1 # segs
      <4>1. pc' = "copy" /\ k' = k + 1
        BY <1>5, <2>2, <3>6 DEF CopyToBuffer
      <4>2. k' < segs' /\ outcalls' >= 1 /\ k' - 1 = k
        BY <3>1, <3>2, <3>6, <4>1
      <4> QED BY <3>4, <4>1, <4>2 DEF FilledInv
    <3> QED BY <3>5, <3>6
  <2> QED BY <2>1, <2>2
<1>6. CASE Prepare
  <2> DEFINE d == Ahead(DMATxDescToSet, k)
  <2>1. CASE pc' # "prepare"
    BY <1>6, <2>1 DEF Prepare, FilledInv
  <2>2. CASE pc' = "prepare"
    <3>1. /\ ~PrepareRefused /\ k + 1 # segs /\ k' = k + 1
          /\ Status' = [Status EXCEPT ![d] = [own |-> TRUE,
                          fs |-> @.fs \/ k = 0, ls |-> @.ls \/ k + 1 = segs]]
          /\ UNCHANGED <<Buf, DMATxDescToSet, outcalls, segs>>
      BY <1>6, <2>2 DEF Prepare
    <3>2. /\ k \in 0 .. MaxSegs - 1 /\ k < segs /\ outcalls >= 1
          /\ k \in Nat /\ segs \in Nat /\ segs <= MaxSegs
      BY <1>6 DEF Prepare, FilledInv, TypeOK
    <3>3. \A j \in k + 1 .. segs - 1 : Filled(j)'
      <4> SUFFICES ASSUME NEW j \in k + 1 .. segs - 1 PROVE Filled(j)'
        OBVIOUS
      <4>1. j \in k .. segs - 1 /\ j \in 0 .. MaxSegs - 1 /\ j # k
        BY <3>2
      <4>2. Ahead(DMATxDescToSet, j) # d /\ Ahead(DMATxDescToSet, j) \in Desc
        BY <3>2, <4>1, FrameDescs
      <4>3. Filled(j)
        BY <1>6, <4>1 DEF Prepare, FilledInv
      <4>4. Status'[Ahead(DMATxDescToSet, j)] = Status[Ahead(DMATxDescToSet, j)]
        <5> HIDE DEF d
        <5> QED BY <3>1, <4>2 DEF TypeOK
      <4> QED BY <3>1, <4>3, <4>4 DEF Filled
    <3>4. k' < segs' /\ outcalls' >= 1
      BY <3>1, <3>2
    <3> QED BY <2>2, <3>1, <3>3, <3>4 DEF FilledInv
  <2> QED BY <2>1, <2>2
<1>7. CASE ResumeUnavailable \/ ResumeUnderflow
  BY <1>7 DEF ResumeUnavailable, ResumeUnderflow, FilledInv
<1> QED BY <1>1, <1>2, <1>3, <1>4, <1>5, <1>6, <1>7 DEF Next, Dma, low_level_output

-----------------------------------------------------------------------------
(* The ring and the queue.                                                 *)

\* Singles is the length of a prefix.
LEMMA SinglesFacts ==
    ASSUME TypeOK
    PROVE  /\ Singles = SinglesOf(accepted)
           /\ Singles \in 0 .. Len(accepted)
           /\ Len(accepted) \in Nat /\ Len(sent) \in Nat
           /\ Singles \in Nat /\ Singles <= Len(accepted)
<1>1. Singles = SinglesOf(accepted)
  BY DEF Singles, SinglesOf
<1>2. accepted \in Seq(Frames) /\ sent \in Seq(Seq(Segment))
  BY DEF TypeOK
<1>3. SinglePrefix(accepted, SinglesOf(accepted))
  BY <1>2, SinglesIsPrefix
<1>4. SinglesOf(accepted) \in 0 .. Len(accepted)
  BY <1>3 DEF SinglePrefix
<1>5. Len(accepted) \in Nat /\ Len(sent) \in Nat
  BY <1>2
<1> QED BY <1>1, <1>4, <1>5

\* The DMA sends the oldest frame of the queue, or a segment of a later one.
SendsOldest ==
    /\ Len(sent) < Singles
    /\ sent' = Append(sent, accepted[Len(sent) + 1])
SendsLater ==
    /\ Len(sent) >= Singles
    /\ sent' = sent \/ \E w \in Seq(Segment) : sent' = Append(sent, w)

\* DmaSend gives the first of the DMA's descriptors back.
LEMMA DmaSendStep ==
    ASSUME TypeOK, NEW n \in 0 .. TxBufNb, RingInv(n), QueueInv(n), DmaSend
    PROVE  /\ n - 1 \in 0 .. TxBufNb
           /\ RingInv(n - 1)' /\ QueueInv(n - 1)'
           /\ SendsOldest \/ SendsLater
<1> USE EthTxAssumption
<1>1. /\ dma \in Desc /\ Status[dma].own /\ dma' = NextDesc(dma)
      /\ Status' = [Status EXCEPT ![dma].own = FALSE]
      /\ UNCHANGED <<Buf, DMATxDescToSet, pc, k, accepted>>
  BY DEF DmaSend, TypeOK
<1>2. Owned = From(dma, n)
  BY DEF RingInv, From
<1>3. n \in 1 .. TxBufNb
  <2>1. dma \in From(dma, n)
    BY <1>1, <1>2 DEF Owned
  <2>2. n # 0
    BY <2>1 DEF From
  <2> QED BY <2>2
<1>4. n - 1 \in 0 .. TxBufNb - 1 /\ n - 1 \in 0 .. TxBufNb /\ (n - 1) + 1 = n
  BY <1>3
<1>5. Owned' = Owned \ {dma}
  BY <1>1 DEF Owned, TypeOK
<1>6. RingInv(n - 1)'
  <2>1. Owned' = From(dma', n - 1)
    BY <1>1, <1>2, <1>3, <1>5, FromTail
  <2>2. Ahead(dma', n - 1) = Ahead(dma, n)
    BY <1>1, <1>4, AheadNext
  <2> QED BY <1>1, <2>1, <2>2 DEF RingInv, From, Handed
<1>7. \A d \in Desc : Status'[d].fs = Status[d].fs /\ Status'[d].ls = Status[d].ls
  BY <1>1 DEF TypeOK
<1>8. Singles' = Singles
  BY <1>1 DEF Singles
<1> DEFINE w == Append(IF Status[dma].fs THEN <<>> ELSE wire, Buf[dma])
<1>9. /\ w \in Seq(Segment)
      /\ IF Status[dma].ls THEN sent' = Append(sent, w) /\ wire' = <<>>
                           ELSE wire' = w /\ sent' = sent
  BY DEF DmaSend, TypeOK
<1>10. CASE Len(sent) < Singles
  <2>1. Pending = Singles - Len(sent) /\ Pending \in Nat /\ Pending > 0
    BY <1>10, SinglesFacts DEF Pending
  <2>2. 0 \in 0 .. Pending - 1 /\ Ahead(dma, 0) = dma
    BY <1>1, <1>4, <2>1, AheadNext
  <2>3. /\ Status[dma].fs /\ Status[dma].ls
        /\ accepted[Len(sent) + 1 + 0] = <<Buf[dma]>>
    BY <2>2 DEF QueueInv
  <2>4. Len(sent) + 1 + 0 = Len(sent) + 1 /\ w = <<Buf[dma]>>
    BY <2>3, SinglesFacts
  <2>5. sent' = Append(sent, accepted[Len(sent) + 1]) /\ wire' = <<>>
    BY <1>9, <2>3, <2>4
  <2> HIDE DEF w
  <2>6. Len(sent') = Len(sent) + 1
    <3>1. sent \in Seq(Seq(Segment)) /\ sent' = Append(sent, w)
      BY <1>9, <2>3 DEF TypeOK
    <3> QED BY <1>9, <3>1
  <2>7. Pending' = Pending - 1
    BY <1>8, <2>1, <2>6, SinglesFacts DEF Pending
  <2>8. \A j \in 0 .. (Pending - 1) - 1 :
          /\ Status'[Ahead(dma', j)].fs /\ Status'[Ahead(dma', j)].ls
          /\ accepted'[Len(sent') + 1 + j] = <<Buf'[Ahead(dma', j)]>>
    <3> SUFFICES ASSUME NEW j \in 0 .. (Pending - 1) - 1
                 PROVE  /\ Status'[Ahead(dma', j)].fs /\ Status'[Ahead(dma', j)].ls
                        /\ accepted'[Len(sent') + 1 + j] = <<Buf'[Ahead(dma', j)]>>
      OBVIOUS
    <3>1. Pending <= n
      BY DEF QueueInv
    <3>2. j \in 0 .. TxBufNb - 1 /\ j + 1 \in 0 .. Pending - 1 /\ j + 1 \in 0 .. TxBufNb
      BY <1>3, <2>1, <3>1
    <3>3. Ahead(dma', j) = Ahead(dma, j + 1) /\ Ahead(dma, j + 1) \in Desc
      BY <1>1, <3>2, AheadNext, AheadIs
    <3>4. Len(sent') + 1 + j = Len(sent) + 1 + (j + 1)
      BY <2>6, <3>2, SinglesFacts
    <3>5. /\ Status[Ahead(dma, j + 1)].fs /\ Status[Ahead(dma, j + 1)].ls
          /\ accepted[Len(sent) + 1 + (j + 1)] = <<Buf[Ahead(dma, j + 1)]>>
      BY <3>2 DEF QueueInv
    <3> QED BY <1>1, <1>7, <3>3, <3>4, <3>5
  <2>9. AllSingle' => n - 1 = Pending' /\ Len(sent') <= Len(accepted')
    BY <1>1, <1>8, <1>10, <2>6, <2>7, SinglesFacts DEF AllSingle, QueueInv
  <2>10. Pending' <= n - 1
    BY <1>3, <2>1, <2>7 DEF QueueInv
  <2>11. QueueInv(n - 1)'
    BY <1>1, <1>8, <2>5, <2>7, <2>8, <2>9, <2>10 DEF QueueInv, AllSingle
  <2> QED BY <1>4, <1>6, <1>10, <2>5, <2>11 DEF SendsOldest
<1>11. CASE ~(Len(sent) < Singles)
  <2>1. Pending = 0
    BY <1>11 DEF Pending
  <2>2. ~AllSingle
    BY <1>3, <2>1 DEF QueueInv
  <2> HIDE DEF w
  <2>3. Len(sent') \in Nat /\ Len(sent') >= Len(sent)
    <3>1. sent \in Seq(Seq(Segment))
      BY DEF TypeOK
    <3> QED BY <1>9, <3>1
  <2>4. Pending' = 0
    BY <1>8, <1>11, <2>3, SinglesFacts DEF Pending
  <2>5. QueueInv(n - 1)'
    BY <1>1, <1>4, <1>8, <2>2, <2>4 DEF QueueInv, AllSingle
  <2>6. SendsLater
    BY <1>9, <1>11, SinglesFacts DEF SendsLater
  <2> QED BY <1>4, <1>6, <2>5, <2>6
<1> QED BY <1>10, <1>11

\* A frame is appended to the queue, or handed over beyond its end.
QueuesFrame ==
    /\ AllSingle /\ AllSingle'
    /\ Len(sent) <= Len(accepted) /\ Len(accepted) - Len(sent) < TxBufNb
    /\ \E f \in Frames : accepted' = Append(accepted, f)
HandsLater ==
    /\ Singles' = Singles
    /\ accepted' = accepted \/ \E f \in Frames : accepted' = Append(accepted, f)

\* ETH_Prepare_Transmit_Descriptors never meets the refusal its caller ignores.
LEMMA NotRefused ==
    ASSUME TypeOK, FilledInv, pc = "prepare"
    PROVE  ~PrepareRefused
<1> SUFFICES ASSUME k = 0 PROVE ~Status[DMATxDescToSet].own
  BY DEF PrepareRefused
<1>1. 0 \in k .. segs - 1 /\ 0 \in 0 .. TxBufNb - 1
  BY EthTxAssumption DEF FilledInv, TypeOK
<1>2. Filled(0)
  BY <1>1 DEF FilledInv
<1>3. Ahead(DMATxDescToSet, 0) = DMATxDescToSet
  BY <1>1, AheadNext DEF TypeOK
<1> QED BY <1>2, <1>3 DEF Filled

\* Prepare hands over the descriptor behind the DMA's last.
LEMMA PrepareStep ==
    ASSUME TypeOK, TypeOK', FilledInv,
           NEW n \in 0 .. TxBufNb, RingInv(n), QueueInv(n), Prepare
    PROVE  /\ n + 1 \in 0 .. TxBufNb
           /\ RingInv(n + 1)' /\ QueueInv(n + 1)'
           /\ sent' = sent
           /\ QueuesFrame \/ HandsLater
<1> USE EthTxAssumption
<1> DEFINE d == Ahead(DMATxDescToSet, k)
           F == SegmentsOf(outcalls, segs)
<1>1. /\ pc = "prepare" /\ k < segs /\ outcalls >= 1 /\ Filled(k)
      /\ k \in 0 .. MaxSegs /\ segs \in 1 .. MaxSegs /\ outcalls \in 1 .. MaxFrames
      /\ k \in 0 .. TxBufNb - 1 /\ k + 1 \in 0 .. TxBufNb
      /\ dma \in Desc /\ DMATxDescToSet \in Desc
  BY DEF Prepare, FilledInv, TypeOK
<1>2. /\ Status' = [Status EXCEPT ![d] = [own |-> TRUE,
                      fs |-> @.fs \/ k = 0, ls |-> @.ls \/ k + 1 = segs]]
      /\ accepted' = IF k = 0 THEN Append(accepted, F) ELSE accepted
      /\ DMATxDescToSet' = IF k + 1 = segs THEN NextDesc(d) ELSE DMATxDescToSet
      /\ k' = IF k + 1 = segs THEN 0 ELSE k + 1
      /\ pc' = IF k + 1 = segs THEN "unavailable" ELSE "prepare"
      /\ UNCHANGED <<Buf, dma, wire, sent, segs>>
  BY <1>1, NotRefused DEF Prepare, hw
<1>3. d \in Desc /\ d = Ahead(dma, n) /\ ~Status[d].own
  <2>1. d \in Desc
    BY <1>1, AheadIs
  <2> QED BY <1>1, <2>1 DEF RingInv, Handed, Filled
<1> HIDE DEF d
<1>4. Owned = From(dma, n)
  BY DEF RingInv, From
<1>5. n \in 0 .. TxBufNb - 1
  <2> SUFFICES ASSUME n = TxBufNb PROVE FALSE
    OBVIOUS
  <2>1. Ahead(dma, n) = dma
    BY <1>1, AheadIs DEF Desc
  <2>2. dma \in From(dma, n)
    BY <1>1, FromTail
  <2> QED BY <1>3, <1>4, <2>1, <2>2 DEF Owned
<1>6. n + 1 \in 0 .. TxBufNb
  BY <1>5
<1>7. RingInv(n + 1)'
  <2>1. Owned' = Owned \cup {d}
    BY <1>2, <1>3 DEF Owned, TypeOK
  <2>2. Owned' = From(dma', n + 1)
    BY <1>1, <1>2, <1>3, <1>4, <1>5, <2>1, FromAppend
  <2>3. NextDesc(d) = Ahead(dma, n + 1) /\ NextDesc(d) \in Desc
    BY <1>1, <1>3, <1>5, AheadNext
  <2>4. Ahead(DMATxDescToSet', Handed') = Ahead(dma, n + 1)
    <3>1. CASE k + 1 = segs
      <4>1. DMATxDescToSet' = NextDesc(d) /\ Handed' = 0 /\ 0 \in 0 .. TxBufNb - 1
        BY <1>2, <3>1 DEF Handed
      <4>2. Ahead(NextDesc(d), 0) = NextDesc(d)
        BY <2>3, <4>1, AheadNext
      <4> QED BY <2>3, <4>1, <4>2
    <3>2. CASE k + 1 # segs
      <4>1. DMATxDescToSet' = DMATxDescToSet /\ Handed' = k + 1
        BY <1>2, <3>2 DEF Handed
      <4>2. Ahead(DMATxDescToSet, k + 1) = NextDesc(d)
        BY <1>1, AheadNext DEF d
      <4> QED BY <2>3, <4>1, <4>2
    <3> QED BY <3>1, <3>2
  <2> QED BY <1>2, <2>2, <2>4 DEF RingInv, From
<1>8. F \in Frames /\ Len(F) = segs /\ (segs = 1 => F = <<<<outcalls, 1>>>>)
  BY <1>1, FrameFacts
<1> HIDE DEF F
<1>9. Pending \in Nat /\ Pending <= n
  BY SinglesFacts DEF QueueInv, Pending
<1>10. \A j \in 0 .. Pending - 1 :
         /\ Ahead(dma, j) \in Desc
         /\ Status'[Ahead(dma, j)] = Status[Ahead(dma, j)]
  <2> SUFFICES ASSUME NEW j \in 0 .. Pending - 1
               PROVE  /\ Ahead(dma, j) \in Desc
                      /\ Status'[Ahead(dma, j)] = Status[Ahead(dma, j)]
    OBVIOUS
  <2>1. j \in 0 .. n - 1 /\ j \in 0 .. TxBufNb
    BY <1>9
  <2>2. Ahead(dma, j) \in Owned
    BY <1>4, <2>1 DEF From
  <2>3. Ahead(dma, j) \in Desc /\ Ahead(dma, j) # d
    BY <1>3, <2>2 DEF Owned
  <2> QED BY <1>2, <2>3 DEF TypeOK
<1>11. \A j \in 0 .. Pending - 1 :
         /\ Len(sent) + 1 + j \in 1 .. Len(accepted)
         /\ accepted'[Len(sent) + 1 + j] = accepted[Len(sent) + 1 + j]
  <2>1. \A j \in 0 .. Pending - 1 : Len(sent) + 1 + j \in 1 .. Len(accepted)
    BY SinglesFacts DEF Pending
  <2>2. \A i \in 1 .. Len(accepted) : accepted'[i] = accepted[i]
    <3>1. accepted \in Seq(Frames)
      BY DEF TypeOK
    <3>2. \A i \in 1 .. Len(accepted) : Append(accepted, F)[i] = accepted[i]
      BY <1>8, <3>1
    <3> QED BY <1>2, <3>2
  <2> QED BY <2>1, <2>2
<1>12. Singles' = IF k = 0 /\ AllSingle /\ segs = 1 THEN Len(accepted) + 1 ELSE Singles
  <2>1. Singles' = SinglesOf(accepted')
    BY DEF Singles, SinglesOf
  <2>2. CASE k = 0
    <3>1. accepted \in Seq(Frames)
      BY DEF TypeOK
    <3>2. SinglesOf(Append(accepted, F)) = IF SinglesOf(accepted) = Len(accepted) /\ ~(Len(F) > 1)
                                           THEN Len(accepted) + 1 ELSE SinglesOf(accepted)
      BY <1>8, <3>1, SinglesAppend
    <3>3. ~(Len(F) > 1) <=> segs = 1
      BY <1>1, <1>8
    <3> QED BY <1>2, <2>1, <2>2, <3>2, <3>3, SinglesFacts DEF AllSingle
  <2>3. CASE k # 0
    BY <1>2, <2>1, <2>3, SinglesFacts
  <2> QED BY <2>2, <2>3
<1>13. Len(accepted') = IF k = 0 THEN Len(accepted) + 1 ELSE Len(accepted)
  <2>1. accepted \in Seq(Frames)
    BY DEF TypeOK
  <2> QED BY <1>2, <1>8, <2>1
<1>14. CASE k = 0 /\ AllSingle /\ segs = 1
  <2>1. n = Pending /\ Len(sent) <= Len(accepted) /\ Pending = Len(accepted) - Len(sent)
    <3>1. n = Pending /\ Len(sent) <= Len(accepted) /\ Singles = Len(accepted)
      BY <1>14 DEF QueueInv, AllSingle
    <3> QED BY <3>1, SinglesFacts DEF Pending
  <2>2. Singles' = Len(accepted) + 1 /\ AllSingle'
    BY <1>12, <1>13, <1>14 DEF AllSingle
  <2>3. Pending' = n + 1
    BY <1>2, <2>1, <2>2, SinglesFacts DEF Pending
  <2>4. \A j \in 0 .. n :
          /\ Status'[Ahead(dma, j)].fs /\ Status'[Ahead(dma, j)].ls
          /\ accepted'[Len(sent) + 1 + j] = <<Buf[Ahead(dma, j)]>>
    <3> SUFFICES ASSUME NEW j \in 0 .. n
                 PROVE  /\ Status'[Ahead(dma, j)].fs /\ Status'[Ahead(dma, j)].ls
                        /\ accepted'[Len(sent) + 1 + j] = <<Buf[Ahead(dma, j)]>>
      OBVIOUS
    <3>1. CASE j = n
      <4>1. Status'[d].fs /\ Status'[d].ls
        <5>1. Status'[d] = [own |-> TRUE, fs |-> Status[d].fs \/ k = 0,
                            ls |-> Status[d].ls \/ k + 1 = segs]
          BY <1>2, <1>3 DEF TypeOK
        <5>2. k = 0 /\ k + 1 = segs
          BY <1>14
        <5>3. /\ Status'[d].fs = (Status[d].fs \/ k = 0)
              /\ Status'[d].ls = (Status[d].ls \/ k + 1 = segs)
          BY <5>1
        <5> QED BY <5>2, <5>3, Zenon
      <4>2. Len(sent) + 1 + j = Len(accepted) + 1
        BY <2>1, <3>1, SinglesFacts
      <4>3. accepted'[Len(accepted) + 1] = F
        <5>1. accepted \in Seq(Frames) /\ accepted' = Append(accepted, F)
          BY <1>2, <1>14 DEF TypeOK
        <5> QED BY <1>8, <5>1
      <4>4. Buf[d] = <<outcalls, 1>>
        BY <1>1, <1>14 DEF Filled, d
      <4> QED BY <1>3, <1>8, <1>14, <3>1, <4>1, <4>2, <4>3, <4>4
    <3>2. CASE j # n
      <4>1. j \in 0 .. Pending - 1
        BY <2>1, <3>2
      <4> QED BY <1>10, <1>11, <4>1 DEF QueueInv
    <3> QED BY <3>1, <3>2
  <2>5. wire' = <<>> /\ Len(sent') <= Len(accepted') /\ pc' # "prepare"
    BY <1>2, <1>13, <1>14, <2>1, SinglesFacts DEF QueueInv
  <2>6. QueueInv(n + 1)'
    <3>1. 0 .. Pending' - 1 = 0 .. n /\ Pending' <= n + 1
      BY <2>3
    <3> QED BY <1>2, <2>2, <2>3, <2>4, <2>5, <3>1 DEF QueueInv
  <2>7. QueuesFrame
    BY <1>2, <1>5, <1>8, <1>14, <2>1, <2>2 DEF QueuesFrame
  <2> QED BY <1>2, <1>6, <1>7, <2>6, <2>7
<1>15. CASE ~(k = 0 /\ AllSingle /\ segs = 1)
  <2>1. Singles' = Singles /\ Pending' = Pending
    BY <1>2, <1>12, <1>15 DEF Pending
  <2>2. ~AllSingle'
    <3>1. CASE k = 0
      BY <1>13, <2>1, <3>1, SinglesFacts DEF AllSingle
    <3>2. CASE k # 0
      <4>1. ~AllSingle
        BY <1>1, <3>2 DEF QueueInv
      <4> QED BY <1>13, <2>1, <3>2, <4>1 DEF AllSingle
    <3> QED BY <3>1, <3>2
  <2>3. \A j \in 0 .. Pending - 1 :
          /\ Status'[Ahead(dma, j)].fs /\ Status'[Ahead(dma, j)].ls
          /\ accepted'[Len(sent) + 1 + j] = <<Buf[Ahead(dma, j)]>>
    BY <1>10, <1>11 DEF QueueInv
  <2>4. Pending' <= n + 1 /\ (Pending' > 0 => wire' = <<>>)
    BY <1>2, <1>9, <2>1 DEF QueueInv
  <2>5. QueueInv(n + 1)'
    BY <1>2, <2>1, <2>2, <2>3, <2>4 DEF QueueInv
  <2>6. HandsLater
    BY <1>2, <1>8, <2>1 DEF HandsLater
  <2> QED BY <1>2, <1>6, <1>7, <2>5, <2>6
<1> QED BY <1>14, <1>15

\* The other steps leave the DMA's descriptors and the queue alone.
LEMMA QuietStep ==
    ASSUME TypeOK, FilledInv, NEW n \in 0 .. TxBufNb, RingInv(n), QueueInv(n),
           \/ DmaUnavailable \/ DmaSuspend \/ Output \/ CopyToBuffer
           \/ ResumeUnavailable \/ ResumeUnderflow \/ UNCHANGED vars
    PROVE  /\ RingInv(n)' /\ QueueInv(n)'
           /\ UNCHANGED <<accepted, sent>>
<1> USE EthTxAssumption
<1>1. UNCHANGED <<Status, dma, DMATxDescToSet, wire, sent, accepted>>
  BY DEF DmaUnavailable, DmaSuspend, Output, CopyToBuffer, ResumeUnavailable,
         ResumeUnderflow, vars, hw
<1>2. Handed' = Handed /\ (pc' = "prepare" /\ k' > 0 => pc = "prepare" /\ k > 0)
  BY DEF DmaUnavailable, DmaSuspend, Output, CopyToBuffer, ResumeUnavailable,
         ResumeUnderflow, vars, Handed
<1>3. \A d \in Owned : Buf'[d] = Buf[d]
  <2>1. CASE CopyToBuffer
    <3> DEFINE c == Ahead(DMATxDescToSet, k)
    <3>1. Status[c].own \/ Buf' = [Buf EXCEPT ![c] = <<outcalls, k + 1>>]
      BY <2>1 DEF CopyToBuffer
    <3>2. Status[c].own => Buf' = Buf
      BY <2>1 DEF CopyToBuffer
    <3> HIDE DEF c
    <3> QED BY <3>1, <3>2 DEF Owned, TypeOK
  <2>2. CASE ~CopyToBuffer
    BY <2>2 DEF DmaUnavailable, DmaSuspend, Output, ResumeUnavailable,
                ResumeUnderflow, vars
  <2> QED BY <2>1, <2>2
<1>4. RingInv(n)'
  BY <1>1, <1>2 DEF RingInv, Owned
<1>5. Singles' = Singles /\ Pending' = Pending /\ (AllSingle' <=> AllSingle)
  BY <1>1 DEF Singles, Pending, AllSingle
<1>6. Pending \in Nat /\ Pending <= n
  BY SinglesFacts DEF QueueInv, Pending
<1>7. \A j \in 0 .. Pending - 1 : Ahead(dma, j) \in Owned
  <2>1. \A j \in 0 .. Pending - 1 : j \in 0 .. n - 1
    BY <1>6
  <2> QED BY <2>1 DEF RingInv
<1>8. QueueInv(n)'
  BY <1>1, <1>2, <1>3, <1>5, <1>7 DEF QueueInv
<1> QED BY <1>1, <1>4, <1>8

\* ETH_DMATxDescChainInit establishes the invariant.
LEMMA InitInv == Init => Inv
<1> SUFFICES ASSUME Init PROVE Inv
  OBVIOUS
<1> USE EthTxAssumption
<1>1. TypeOK
  <2>1. 0 \in Desc /\ <<0, 0>> \in Segment
    BY DEF Desc, Segment
  <2>2. <<>> \in Seq(Segment) /\ <<>> \in Seq(Seq(Segment)) /\ <<>> \in Seq(Frames)
    OBVIOUS
  <2> QED BY <2>1, <2>2 DEF Init, TypeOK
<1>2. FilledInv
  BY DEF Init, FilledInv
<1>3. RingInv(0)
  <2>1. 0 .. 0 - 1 = {} /\ Handed = 0
    BY DEF Init, Handed
  <2> QED BY <2>1 DEF Init, RingInv, Owned
<1>4. QueueInv(0)
  <2>1. Len(accepted) = 0 /\ Len(sent) = 0
    BY DEF Init
  <2>2. Singles = 0
    BY <1>1, <2>1, SinglesFacts
  <2>3. Pending = 0
    BY <2>1, <2>2 DEF Pending
  <2> QED BY <2>1, <2>2, <2>3 DEF Init, QueueInv
<1>5. 0 \in 0 .. TxBufNb
  OBVIOUS
<1> QED BY <1>1, <1>2, <1>3, <1>4, <1>5 DEF Inv

\* Every step keeps it.
LEMMA NextInv == Inv /\ [Next]_vars => Inv'
<1> SUFFICES ASSUME Inv, [Next]_vars PROVE Inv'
  OBVIOUS
<1>1. TypeOK /\ FilledInv /\ TypeOK' /\ FilledInv'
  BY TypeNext, FilledNext DEF Inv
<1>2. PICK n \in 0 .. TxBufNb : RingInv(n) /\ QueueInv(n)
  BY DEF Inv
<1>3. CASE DmaSend
  <2>1. n - 1 \in 0 .. TxBufNb /\ RingInv(n - 1)' /\ QueueInv(n - 1)'
    BY <1>1, <1>2, <1>3, DmaSendStep
  <2> QED BY <1>1, <2>1 DEF Inv
<1>4. CASE Prepare
  <2>1. n + 1 \in 0 .. TxBufNb /\ RingInv(n + 1)' /\ QueueInv(n + 1)'
    BY <1>1, <1>2, <1>4, PrepareStep
  <2> QED BY <1>1, <2>1 DEF Inv
<1>5. CASE ~DmaSend /\ ~Prepare
  <2>1. \/ DmaUnavailable \/ DmaSuspend \/ Output \/ CopyToBuffer
        \/ ResumeUnavailable \/ ResumeUnderflow \/ UNCHANGED vars
    BY <1>5 DEF Next, Dma, low_level_output
  <2>2. RingInv(n)' /\ QueueInv(n)'
    BY <1>1, <1>2, <2>1, QuietStep
  <2> QED BY <1>1, <2>2 DEF Inv
<1> QED BY <1>3, <1>4, <1>5

\* Inv is an invariant of the transmit path.
THEOREM Invariance == Spec => []Inv
<1> QED BY InitInv, NextInv, PTL DEF Spec

\* ERR_OK of low_level_output means that the frame was handed to the DMA,
\* although the result of ETH_Prepare_Transmit_Descriptors is ignored
\* (ethernetif.c:202), and DMATxDescToSet is always the descriptor behind the
\* DMA's last one, after errors and partly copied frames too.
THEOREM HandedOver == Spec => []OkMeansHandedOver
<1>1. Inv => OkMeansHandedOver
  <2> SUFFICES ASSUME Inv PROVE OkMeansHandedOver
    OBVIOUS
  <2>1. pc = "prepare" => ~PrepareRefused
    BY NotRefused DEF Inv
  <2>2. TxRingInStep
    BY DEF Inv, RingInv, Handed, TxRingInStep
  <2> QED BY <2>1, <2>2 DEF OkMeansHandedOver
<1> QED BY <1>1, Invariance, PTL

-----------------------------------------------------------------------------
(* The ring implements FrameFifo.                                          *)

\* What the variables of FrameFifo are mapped to.
Queue == SubSeq(accepted, Len(sent) + 1, Singles)
Log   == SubSeq(sent, 1, IF Len(sent) < Singles THEN Len(sent) ELSE Singles)

\* A part of a sequence is not touched by what is appended behind it.
LEMMA SubSeqAppend ==
    ASSUME NEW S, NEW s \in Seq(S), NEW x \in S, NEW m \in Nat \ {0}, NEW n \in Nat,
           n <= Len(s)
    PROVE  SubSeq(Append(s, x), m, n) = SubSeq(s, m, n)
<1> DEFINE b == Append(s, x)
<1>1. b \in Seq(S) /\ Len(b) = Len(s) + 1 /\ \A i \in 1 .. Len(s) : b[i] = s[i]
  OBVIOUS
<1> HIDE DEF b
<1>2. \A i \in m .. n : i \in 1 .. Len(s) /\ s[i] \in S /\ b[i] = s[i]
  BY <1>1
<1>3. /\ SubSeq(b, m, n) \in Seq(S) /\ SubSeq(s, m, n) \in Seq(S)
      /\ Len(SubSeq(b, m, n)) = Len(SubSeq(s, m, n))
      /\ Len(SubSeq(s, m, n)) = IF m <= n THEN n - m + 1 ELSE 0
      /\ \A i \in 1 .. n - m + 1 : SubSeq(b, m, n)[i] = b[m + i - 1]
      /\ \A i \in 1 .. n - m + 1 : SubSeq(s, m, n)[i] = s[m + i - 1]
  <2>1. \A i \in m .. n : s[i] \in S /\ b[i] \in S
    BY <1>2
  <2>2. m \in Int /\ n \in Int
    OBVIOUS
  <2> QED BY <2>1, <2>2, SubSeqProperties
<1>4. \A i \in 1 .. Len(SubSeq(s, m, n)) : SubSeq(b, m, n)[i] = SubSeq(s, m, n)[i]
  <2> SUFFICES ASSUME NEW i \in 1 .. Len(SubSeq(s, m, n))
               PROVE  SubSeq(b, m, n)[i] = SubSeq(s, m, n)[i]
    OBVIOUS
  <2>1. i \in 1 .. n - m + 1 /\ m + i - 1 \in m .. n
    BY <1>3
  <2> QED BY <1>2, <1>3, <2>1
<1>5. SubSeq(b, m, n) = SubSeq(s, m, n)
  BY <1>3, <1>4, SeqEqual
<1> QED BY <1>5 DEF b

\* The DMA takes the head of the queue and logs it.
LEMMA GetStep ==
    ASSUME TypeOK, TypeOK', SendsOldest, accepted' = accepted
    PROVE  /\ Queue # <<>>
           /\ Queue' = Tail(Queue)
           /\ Log' = Append(Log, Head(Queue))
<1> DEFINE p == Len(sent)
<1>1. /\ accepted \in Seq(Frames) /\ sent \in Seq(Seq(Segment)) /\ sent' \in Seq(Seq(Segment))
      /\ Singles \in Nat /\ Singles <= Len(accepted) /\ Len(accepted) \in Nat
      /\ p \in Nat /\ p < Singles /\ sent' = Append(sent, accepted[p + 1])
      /\ Singles' = Singles
  BY SinglesFacts DEF TypeOK, SendsOldest, Singles
<1>2. Len(sent') = p + 1
  BY <1>1
<1>3. p + 1 \in 1 .. Len(accepted) /\ Singles \in p + 1 .. Len(accepted)
  BY <1>1
<1>4. /\ Head(Queue) = accepted[p + 1]
      /\ Tail(Queue) = SubSeq(accepted, (p + 1) + 1, Singles)
  BY <1>1, <1>3, HeadTailOfSubSeq DEF Queue
<1>5. Queue # <<>>
  <2>1. \A i \in p + 1 .. Singles : accepted[i] \in Frames
    BY <1>1
  <2>2. Len(Queue) = Singles - (p + 1) + 1
    <3>1. p + 1 \in Int /\ Singles \in Int /\ p + 1 <= Singles
      BY <1>1
    <3> QED BY <2>1, <3>1, SubSeqProperties DEF Queue
  <2>3. Len(Queue) # 0
    BY <1>1, <2>2
  <2> QED BY <2>3
<1>6. Queue' = Tail(Queue)
  BY <1>1, <1>2, <1>4 DEF Queue
<1>7. Log = sent
  BY <1>1, SubSeqFull DEF Log
<1>8. Log' = sent'
  <2>1. (IF Len(sent') < Singles' THEN Len(sent') ELSE Singles') = Len(sent')
    BY <1>1, <1>2
  <2> QED BY <1>1, <2>1, SubSeqFull DEF Log
<1> QED BY <1>1, <1>4, <1>5, <1>6, <1>7, <1>8

\* A segment of a later frame is not of the queue.
LEMMA LaterStep ==
    ASSUME TypeOK, TypeOK', SendsLater, accepted' = accepted
    PROVE  UNCHANGED <<Queue, Log>>
<1>1. /\ sent \in Seq(Seq(Segment)) /\ sent' \in Seq(Seq(Segment))
      /\ Singles \in Nat /\ Len(sent) \in Nat /\ Len(sent') \in Nat
      /\ Len(sent) >= Singles /\ Singles' = Singles
  <2>1. sent \in Seq(Seq(Segment)) /\ sent' \in Seq(Seq(Segment))
    BY DEF TypeOK
  <2>2. Len(sent) \in Nat /\ Len(sent') \in Nat
    BY <2>1, LenProperties
  <2>3. Singles \in Nat
    BY SinglesFacts
  <2>4. Singles' = Singles
    BY DEF Singles
  <2>5. Len(sent) >= Singles
    BY <2>2, <2>3 DEF SendsLater
  <2> QED BY <2>1, <2>2, <2>3, <2>4, <2>5
<1>2. Len(sent') >= Len(sent)
  BY <1>1 DEF SendsLater
<1>3. Queue = <<>> /\ Queue' = <<>>
  <2>1. /\ Len(sent) + 1 \in Int /\ Len(sent') + 1 \in Int /\ Singles \in Int
        /\ Singles < Len(sent) + 1 /\ Singles < Len(sent') + 1
    BY <1>1, <1>2
  <2>2. \A a, m : m \in Int /\ Singles < m => SubSeq(a, m, Singles) = <<>>
    BY <2>1, SubSeqEmpty
  <2> QED BY <1>1, <2>1, <2>2 DEF Queue
<1>4. Log = SubSeq(sent, 1, Singles) /\ Log' = SubSeq(sent', 1, Singles)
  <2>1. ~(Len(sent) < Singles) /\ ~(Len(sent') < Singles)
    BY <1>1, <1>2
  <2> QED BY <1>1, <2>1 DEF Log
<1>5. SubSeq(sent', 1, Singles) = SubSeq(sent, 1, Singles)
  <2>1. \A w \in Seq(Segment) : SubSeq(Append(sent, w), 1, Singles) = SubSeq(sent, 1, Singles)
    BY <1>1, SubSeqAppend
  <2>2. sent' = sent \/ \E w \in Seq(Segment) : sent' = Append(sent, w)
    BY DEF SendsLater
  <2>3. CASE sent' = sent
    BY <2>3
  <2>4. CASE \E w \in Seq(Segment) : sent' = Append(sent, w)
    <3>1. PICK w \in Seq(Segment) : sent' = Append(sent, w)
      BY <2>4
    <3>2. SubSeq(Append(sent, w), 1, Singles) = SubSeq(sent, 1, Singles)
      BY <2>1
    <3> QED BY <3>1, <3>2
  <2> QED BY <2>2, <2>3, <2>4
<1> QED BY <1>3, <1>4, <1>5

\* A single frame handed over is put at the end of the queue.
LEMMA PutStep ==
    ASSUME TypeOK, TypeOK', QueuesFrame, sent' = sent
    PROVE  /\ Len(Queue) < TxBufNb
           /\ \E f \in Frames : Queue' = Append(Queue, f)
           /\ Log' = Log
<1> DEFINE p == Len(sent)
           n == Len(accepted)
<1>1. /\ accepted \in Seq(Frames) /\ accepted' \in Seq(Frames)
      /\ sent \in Seq(Seq(Segment)) /\ p \in Nat /\ n \in Nat /\ p <= n
      /\ Singles = n /\ Singles' = Len(accepted') /\ n - p < TxBufNb
  BY SinglesFacts DEF TypeOK, QueuesFrame, AllSingle
<1>2. PICK f \in Frames : accepted' = Append(accepted, f)
  BY DEF QueuesFrame
<1>3. Len(accepted') = n + 1 /\ accepted'[n + 1] = f
  BY <1>1, <1>2
<1>4. Queue' = SubSeq(accepted', p + 1, n) \o <<f>>
  <2>1. p + 1 \in 1 .. Len(accepted') /\ n + 1 \in p + 1 .. Len(accepted') /\ (n + 1) - 1 = n
    BY <1>1, <1>3
  <2>2. \A t \in Seq(Frames) : \A m \in 1 .. Len(t) : \A j \in m .. Len(t) :
           SubSeq(t, m, j) = SubSeq(t, m, j - 1) \o <<t[j]>>
    BY SubSeqRecursiveSecond
  <2>3. SubSeq(accepted', p + 1, n + 1) = SubSeq(accepted', p + 1, n) \o <<f>>
    BY <1>1, <1>3, <2>1, <2>2
  <2> QED BY <1>1, <1>3, <2>3 DEF Queue
<1>5. SubSeq(accepted', p + 1, n) = Queue
  BY <1>1, <1>2, SubSeqAppend DEF Queue
<1>6. Queue \in Seq(Frames) /\ Len(Queue) = n - p
  <2>1. \A i \in p + 1 .. n : accepted[i] \in Frames
    BY <1>1
  <2>2. p + 1 \in Int /\ n \in Int /\ (IF p + 1 <= n THEN n - (p + 1) + 1 ELSE 0) = n - p
    BY <1>1
  <2> QED BY <1>1, <2>1, <2>2, SubSeqProperties DEF Queue
<1>7. Queue' = Append(Queue, f)
  <2>1. \A q \in Seq(Frames) : q \o <<f>> = Append(q, f)
    OBVIOUS
  <2> QED BY <1>4, <1>5, <1>6, <2>1
<1>8. Log' = Log
  <2>1. /\ (IF Len(sent) < Singles THEN Len(sent) ELSE Singles) = p
        /\ (IF Len(sent') < Singles' THEN Len(sent') ELSE Singles') = p
    BY <1>1, <1>3
  <2> QED BY <2>1 DEF Log
<1> QED BY <1>1, <1>6, <1>7, <1>8

\* A frame behind the first long one is not of the queue.
LEMMA HandsLaterStep ==
    ASSUME TypeOK, HandsLater, sent' = sent
    PROVE  UNCHANGED <<Queue, Log>>
<1>1. /\ accepted \in Seq(Frames) /\ Singles \in Nat /\ Singles <= Len(accepted)
      /\ Len(sent) + 1 \in Nat \ {0} /\ Singles' = Singles
  BY SinglesFacts DEF TypeOK, HandsLater
<1>2. SubSeq(accepted', Len(sent) + 1, Singles) = SubSeq(accepted, Len(sent) + 1, Singles)
  BY <1>1, SubSeqAppend DEF HandsLater
<1> QED BY <1>1, <1>2 DEF Queue, Log

\* A step of the ring is a step of the queue, or none.
LEMMA FifoStep ==
    ASSUME Inv, Inv', [Next]_vars
    PROVE  Fifo!Next \/ UNCHANGED <<Queue, Log>>
<1>1. TypeOK /\ FilledInv /\ TypeOK'
  BY DEF Inv
<1>2. PICK n \in 0 .. TxBufNb : RingInv(n) /\ QueueInv(n)
  BY DEF Inv
<1>3. CASE DmaSend
  <2>1. accepted' = accepted
    BY <1>3 DEF DmaSend
  <2>2. SendsOldest \/ SendsLater
    BY <1>1, <1>2, <1>3, DmaSendStep
  <2>3. CASE SendsOldest
    <3>1. Queue # <<>> /\ Queue' = Tail(Queue) /\ Log' = Append(Log, Head(Queue))
      BY <1>1, <2>1, <2>3, GetStep
    <3>2. Fifo!Get
      BY <3>1 DEF Fifo!Get, Queue, Log
    <3> QED BY <3>2 DEF Fifo!Next
  <2>4. CASE SendsLater
    BY <1>1, <2>1, <2>4, LaterStep
  <2> QED BY <2>2, <2>3, <2>4
<1>4. CASE Prepare
  <2>1. sent' = sent /\ (QueuesFrame \/ HandsLater)
    BY <1>1, <1>2, <1>4, PrepareStep
  <2>2. CASE QueuesFrame
    <3>1. /\ Len(Queue) < TxBufNb /\ Log' = Log
          /\ \E f \in Frames : Queue' = Append(Queue, f)
      BY <1>1, <2>1, <2>2, PutStep
    <3>2. PICK f \in Frames : Queue' = Append(Queue, f)
      BY <3>1
    <3>3. Fifo!Put(f)
      BY <3>1, <3>2 DEF Fifo!Put, Queue, Log
    <3> QED BY <3>3 DEF Fifo!Next, Frames
  <2>3. CASE HandsLater
    BY <1>1, <2>1, <2>3, HandsLaterStep
  <2> QED BY <2>1, <2>2, <2>3
<1>5. CASE ~DmaSend /\ ~Prepare
  <2>1. \/ DmaUnavailable \/ DmaSuspend \/ Output \/ CopyToBuffer
        \/ ResumeUnavailable \/ ResumeUnderflow \/ UNCHANGED vars
    BY <1>5 DEF Next, Dma, low_level_output
  <2>2. UNCHANGED <<accepted, sent>>
    BY <1>1, <1>2, <2>1, QuietStep
  <2> QED BY <2>2 DEF Queue, Log, Singles
<1> QED BY <1>3, <1>4, <1>5

\* The ring of DMA descriptors is a bounded queue from low_level_output
\* (ethernetif.c:140) to the wire: frames leave in the order they were handed
\* over, whole and once, up to the first that takes several descriptors.
THEOREM Refinement == Spec => ImplementsFifo
<1>1. Init => Fifo!Init
  <2> SUFFICES ASSUME Init PROVE Queue = <<>> /\ Log = <<>>
    BY DEF Fifo!Init, Queue, Log
  <2>1. Len(accepted) = 0 /\ Len(sent) = 0 /\ sent = <<>> /\ TypeOK
    BY InitInv DEF Init, Inv
  <2>2. Singles = 0
    BY <2>1, SinglesFacts
  <2>3. Len(sent) + 1 = 1 /\ (IF Len(sent) < Singles THEN Len(sent) ELSE Singles) = 0
    BY <2>1, <2>2
  <2>4. \A s : SubSeq(s, 1, 0) = <<>>
    BY SubSeqEmpty
  <2> QED BY <2>2, <2>3, <2>4 DEF Queue, Log
<1>2. Inv /\ Inv' /\ [Next]_vars
        => [Fifo!Next]_<<SubSeq(accepted, Len(sent) + 1, Singles),
                         SubSeq(sent, 1, IF Len(sent) < Singles THEN Len(sent) ELSE Singles)>>
  BY FifoStep DEF Queue, Log
<1> QED BY <1>1, <1>2, Invariance, PTL DEF Spec, ImplementsFifo, Fifo!Spec
=============================================================================
