------------------------------- MODULE EthRx -------------------------------
(***************************************************************************)
(* Ethernet reception: a ring of descriptors shared by the receive DMA,    *)
(* which stores frames, and the main loop, which polls it                  *)
(* (ETH_CheckFrameReceived), takes a frame (ETH_Get_Received_Frame), copies*)
(* it to pbufs and gives the descriptors back (low_level_input).  No       *)
(* interrupt is involved: the only synchronisation is the OWN bit of a     *)
(* descriptor and the "receive buffer unavailable" status RBUS.            *)
(*                                                                         *)
(* A frame is a number; in memory it is the sequence of its segments, one  *)
(* per descriptor.  With the buffer size of the build every frame fits one *)
(* descriptor; the driver's header allows smaller buffers, where it takes  *)
(* several, and ETH_CheckFrameReceived is written for them.  The copying   *)
(* is not: of a frame in several descriptors low_level_input reads and     *)
(* returns the wrong ones, so the properties end where such a frame begins.*)
(***************************************************************************)
EXTENDS Naturals, Sequences, FiniteSets, SequencesExt

CONSTANTS
    RxBufNb,    \* ETH_RXBUFNB, descriptors in the ring
    MaxSegs,    \* descriptors the longest frame takes
    MaxFrames   \* model bound: frames that arrive in a behaviour

ASSUME EthRxAssumption ==
    /\ RxBufNb \in Nat \ {0}
    /\ MaxSegs \in Nat \ {0}
    /\ MaxSegs > 1 => RxBufNb > 1   \* a frame goes on in another descriptor
    /\ MaxFrames \in Nat

Desc == 0 .. RxBufNb - 1

VARIABLES
    Status,         \* of each descriptor: OWN, FS, LS and the frame length FL
    Buf,            \* what is in each descriptor's buffer
    dma,            \* descriptor the DMA uses next
    dmaState,       \* "run", "stopping" (found no descriptor), "suspended"
    RBUS,           \* receive buffer unavailable, in ETH->DMASR
    fifo,           \* frame in the MAC: number, segments left to store
    arrived,        \* frames that arrived so far
    DMARxDescToGet, FS_Rx_Desc, Seg_Count,
    pc,             \* where the main loop is
    frame,          \* the FrameTypeDef: descriptor, first buffer, length
    i,              \* descriptors given back by the loop of low_level_input
    stored,         \* history: frames the DMA completed
    log             \* history: what the main loop made of each of them

hw   == <<dma, dmaState, RBUS, fifo, arrived, stored>>
cpu  == <<DMARxDescToGet, FS_Rx_Desc, Seg_Count, pc, frame, i, log>>
vars == <<Status, Buf, dma, dmaState, RBUS, fifo, arrived, stored,
          DMARxDescToGet, FS_Rx_Desc, Seg_Count, pc, frame, i, log>>

NoFrame == [f |-> 0, segs |-> <<>>, left |-> 0]
NoMem   == <<>>

\* Buffer2NextDescAddr of the chained list.
NextDesc(d) == IF d = RxBufNb - 1 THEN 0 ELSE d + 1

\* Descriptor k places after d.
Ahead(d, k) == (d + k) % RxBufNb

\* ETH_DMARxDescChainInit and ETH_Start.
Init ==
    /\ Status = [d \in Desc |-> [own |-> TRUE, fs |-> FALSE, ls |-> FALSE, fl |-> 0]]
    /\ Buf = [d \in Desc |-> <<0, 0>>]
    /\ dma = 0 /\ dmaState = "run" /\ RBUS = FALSE
    /\ fifo = NoFrame /\ arrived = 0
    /\ DMARxDescToGet = 0 /\ FS_Rx_Desc = 0 /\ Seg_Count = 0
    /\ pc = "poll"
    /\ frame = [descriptor |-> 0, buffer |-> 0, length |-> 0]
    /\ i = 0
    /\ stored = <<>> /\ log = <<>>

-----------------------------------------------------------------------------
(* The hardware, as the driver relies on it.                               *)

\* A frame comes in.  A suspended DMA tries again when it sees one: a receive
\* poll demand resumes reception as well, but is not the only way.
FrameArrives ==
    /\ fifo = NoFrame
    /\ dmaState # "stopping"
    /\ arrived < MaxFrames
    /\ arrived' = arrived + 1
    /\ \E n \in 1 .. MaxSegs : fifo' = [f |-> arrived + 1, segs |-> <<>>, left |-> n]
    /\ dmaState' = "run"
    /\ UNCHANGED <<Status, Buf, dma, RBUS, stored, cpu>>

\* One segment is stored.  If the next descriptor is not free the frame is
\* cut off here: the segment is marked as its last.
DmaStore ==
    /\ dmaState = "run"
    /\ fifo # NoFrame
    /\ Status[dma].own
    /\ LET segs == Append(fifo.segs, <<fifo.f, Len(fifo.segs) + 1>>)
           last == fifo.left = 1 \/ ~Status[NextDesc(dma)].own
       IN  /\ Buf' = [Buf EXCEPT ![dma] = Last(segs)]
           /\ Status' = [Status EXCEPT ![dma] =
                 [own |-> FALSE, fs |-> Len(segs) = 1, ls |-> last, fl |-> Len(segs)]]
           /\ IF last
              THEN fifo' = NoFrame /\ stored' = Append(stored, segs)
              ELSE /\ fifo' = [fifo EXCEPT !.segs = segs, !.left = @ - 1]
                   /\ UNCHANGED stored
    /\ dma' = NextDesc(dma)
    /\ UNCHANGED <<dmaState, RBUS, arrived, cpu>>

\* The DMA fetches a descriptor it does not own: the frame is flushed ...
DmaUnavailable ==
    /\ dmaState = "run"
    /\ fifo # NoFrame
    /\ ~Status[dma].own
    /\ fifo' = NoFrame
    /\ dmaState' = "stopping"
    /\ UNCHANGED <<Status, Buf, dma, RBUS, arrived, stored, cpu>>

\* ... and, later, the status bit is set.
DmaSuspend ==
    /\ dmaState = "stopping"
    /\ dmaState' = "suspended"
    /\ RBUS' = TRUE
    /\ UNCHANGED <<Status, Buf, dma, fifo, arrived, stored, cpu>>

Dma == DmaStore \/ DmaUnavailable \/ DmaSuspend

-----------------------------------------------------------------------------
(* The main loop.                                                          *)

\* ETH_CheckFrameReceived: the last segment of a frame is there.
CheckLast ==
    /\ pc = "poll"
    /\ LET s == Status[DMARxDescToGet]
       IN  IF ~s.own /\ s.ls
           THEN Seg_Count' = Seg_Count + 1 /\ pc' = "get"
           ELSE pc' = "poll2" /\ UNCHANGED Seg_Count
    /\ UNCHANGED <<Status, Buf, hw, DMARxDescToGet, FS_Rx_Desc, frame, i, log>>

\* Otherwise the status is read again: a first or an intermediate segment is
\* passed over, anything else leaves the state alone.
CheckFirst ==
    /\ pc = "poll2"
    /\ LET s == Status[DMARxDescToGet]
       IN  /\ ~s.own /\ s.fs /\ ~s.ls
           /\ FS_Rx_Desc' = DMARxDescToGet
           /\ Seg_Count' = 1
           /\ DMARxDescToGet' = NextDesc(DMARxDescToGet)
    /\ pc' = "poll"
    /\ UNCHANGED <<Status, Buf, hw, frame, i, log>>

\* Mutant: an intermediate segment is not counted.
BugNotCounted ==
    /\ pc = "poll2"
    /\ LET s == Status[DMARxDescToGet]
       IN  /\ ~s.own /\ ~s.fs /\ ~s.ls
           /\ DMARxDescToGet' = NextDesc(DMARxDescToGet)
    /\ pc' = "poll"
    /\ UNCHANGED <<Status, Buf, hw, FS_Rx_Desc, Seg_Count, frame, i, log>>

\* An intermediate segment.
CheckIntermediate ==
    /\ pc = "poll2"
    /\ LET s == Status[DMARxDescToGet]
       IN  /\ ~s.own /\ ~s.fs /\ ~s.ls
           /\ Seg_Count' = Seg_Count + 1
           /\ DMARxDescToGet' = NextDesc(DMARxDescToGet)
    /\ pc' = "poll"
    /\ UNCHANGED <<Status, Buf, hw, FS_Rx_Desc, frame, i, log>>

CheckNothing ==
    /\ pc = "poll2"
    /\ Status[DMARxDescToGet].own \/ Status[DMARxDescToGet].ls
    /\ pc' = "poll"
    /\ UNCHANGED <<Status, Buf, hw, DMARxDescToGet, FS_Rx_Desc, Seg_Count, frame, i, log>>

ETH_CheckFrameReceived == CheckLast \/ CheckFirst \/ CheckIntermediate \/ CheckNothing

\* Mutant: the pointer is not moved to the next descriptor.
BugGetStays ==
    /\ pc = "get"
    /\ frame' = [descriptor |-> DMARxDescToGet,
                 buffer |-> IF Seg_Count > 1 THEN FS_Rx_Desc ELSE DMARxDescToGet,
                 length |-> Status[DMARxDescToGet].fl]
    /\ pc' = "copy"
    /\ UNCHANGED <<Status, Buf, hw, DMARxDescToGet, FS_Rx_Desc, Seg_Count, i, log>>

\* ETH_Get_Received_Frame.
ETH_Get_Received_Frame ==
    /\ pc = "get"
    /\ frame' = [descriptor |-> DMARxDescToGet,
                 buffer |-> IF Seg_Count > 1 THEN FS_Rx_Desc ELSE DMARxDescToGet,
                 length |-> Status[DMARxDescToGet].fl]
    /\ DMARxDescToGet' = NextDesc(DMARxDescToGet)
    /\ pc' = "copy"
    /\ UNCHANGED <<Status, Buf, hw, FS_Rx_Desc, Seg_Count, i, log>>

\* What memcpy gathers: the first buffer, then the ones after frame.descriptor.
Gathered ==
    [k \in 1 .. frame.length |->
        IF k = 1 THEN Buf[frame.buffer] ELSE Buf[Ahead(frame.descriptor, k - 1)]]

\* Mutant: without a pbuf the function returns and keeps the descriptors.
BugNoPbufReturns ==
    /\ pc = "copy"
    /\ \/ log' = Append(log, Gathered) /\ pc' = "release"
       \/ log' = Append(log, NoMem) /\ pc' = "poll"
    /\ i' = 0
    /\ UNCHANGED <<Status, Buf, hw, DMARxDescToGet, FS_Rx_Desc, Seg_Count, frame>>

\* low_level_input copies the frame if pbuf_alloc gave it room.
CopyToPbuf ==
    /\ pc = "copy"
    /\ \E r \in {Gathered, NoMem} : log' = Append(log, r)
    /\ i' = 0
    /\ pc' = "release"
    /\ UNCHANGED <<Status, Buf, hw, DMARxDescToGet, FS_Rx_Desc, Seg_Count, frame>>

\* Mutant: the segment count is not cleared.
BugKeepCount ==
    /\ pc = "release"
    /\ IF i < Seg_Count
       THEN /\ Status' = [Status EXCEPT ![Ahead(frame.descriptor, i)] =
                 [own |-> TRUE, fs |-> FALSE, ls |-> FALSE, fl |-> 0]]
            /\ i' = i + 1
            /\ UNCHANGED pc
       ELSE /\ pc' = "resume"
            /\ UNCHANGED <<Status, i>>
    /\ UNCHANGED <<Buf, hw, DMARxDescToGet, FS_Rx_Desc, Seg_Count, frame, log>>

\* Set Own bit in Rx descriptors, Seg_Count of them; then clear Seg_Count.
ReleaseDescriptor ==
    /\ pc = "release"
    /\ IF i < Seg_Count
       THEN /\ Status' = [Status EXCEPT ![Ahead(frame.descriptor, i)] =
                 [own |-> TRUE, fs |-> FALSE, ls |-> FALSE, fl |-> 0]]
            /\ i' = i + 1
            /\ UNCHANGED <<Seg_Count, pc>>
       ELSE /\ Seg_Count' = 0
            /\ pc' = "resume"
            /\ UNCHANGED <<Status, i>>
    /\ UNCHANGED <<Buf, hw, DMARxDescToGet, FS_Rx_Desc, frame, log>>

\* When RBUS is set: clear it and issue a receive poll demand.
ResumeReception ==
    /\ pc = "resume"
    /\ RBUS' = FALSE
    /\ dmaState' = IF RBUS /\ dmaState = "suspended" THEN "run" ELSE dmaState
    /\ pc' = "poll"
    /\ UNCHANGED <<Status, Buf, dma, fifo, arrived, stored,
                   DMARxDescToGet, FS_Rx_Desc, Seg_Count, frame, i, log>>

low_level_input ==
    \/ ETH_Get_Received_Frame
    \/ CopyToPbuf
    \/ ReleaseDescriptor
    \/ ResumeReception

MainLoop == ETH_CheckFrameReceived \/ low_level_input

Next == FrameArrives \/ Dma \/ MainLoop

\* The main loop never waits, and the DMA works through its FIFO.
Spec == Init /\ [][Next]_vars /\ WF_vars(MainLoop) /\ WF_vars(Dma)

-----------------------------------------------------------------------------
(* Properties.                                                             *)

\* Frames stored before the first one that took several descriptors: with
\* the build's buffers, all of them.
Singles ==
    LET multi == {n \in 1 .. Len(stored) : Len(stored[n]) > 1}
    IN  IF multi = {} THEN Len(stored) ELSE Min(multi) - 1

\* No frame has taken several descriptors yet.
AllSingle == Singles = Len(stored) /\ fifo.segs = <<>>

\* The frame that ETH_CheckFrameReceived is looking for is not behind one
\* that low_level_input mishandled.
Undisturbed == Len(log) <= Singles

\* The oldest descriptor the main loop has not given back.
Oldest ==
    IF pc = "copy" \/ (pc = "release" /\ i = 0) THEN frame.descriptor ELSE DMARxDescToGet

\* With one descriptor per frame the two sides stay in step: the descriptors
\* the CPU owns run from the one it works on up to the DMA's, so no frame is
\* stranded behind DMARxDescToGet and none is overwritten before it is read.
RingInStep ==
    LET held == {d \in Desc : ~Status[d].own}
        n    == Cardinality(held)
    IN  AllSingle =>
        /\ held = {Ahead(Oldest, k) : k \in 0 .. n - 1}
        /\ dma = Ahead(Oldest, n)

\* When ETH_CheckFrameReceived reports a frame of several segments, it has
\* counted them all and remembers the first.
SegmentsRecognised ==
    pc = "get" /\ Undisturbed =>
        /\ Seg_Count = Status[DMARxDescToGet].fl
        /\ Seg_Count > 1 => Ahead(FS_Rx_Desc, Seg_Count - 1) = DMARxDescToGet

\* Once frames stop coming, all descriptors are back with the DMA, whatever
\* allocations failed: reception never dries up.
AllGivenBack == <>[](AllSingle => \A d \in Desc : Status[d].own)

\* The queue that the frames stored and not yet taken form.
Fifo == INSTANCE FrameFifo WITH
    Capacity <- RxBufNb,
    Frame    <- {[k \in 1 .. n |-> <<f, k>>] : f \in 1 .. MaxFrames, n \in 1 .. MaxSegs},
    queue    <- SubSeq(stored, Len(log) + 1, Singles),
    log      <- SubSeq(log, 1, IF Len(log) < Singles THEN Len(log) ELSE Singles)

\* The ring is a bounded queue of frames from the DMA to low_level_input, up
\* to the first frame that takes several descriptors.
ImplementsFifo == Fifo!Spec
=============================================================================
