------------------------------- MODULE EthTx -------------------------------
(***************************************************************************)
(* Ethernet transmission: low_level_output copies a frame into the buffers *)
(* of the descriptors from DMATxDescToSet on and                           *)
(* ETH_Prepare_Transmit_Descriptors hands them to the transmit DMA, which  *)
(* works through the ring until it meets a descriptor it does not own and  *)
(* then sleeps until a transmit poll demand.                               *)
(*                                                                         *)
(* With the buffer size of the build a frame takes one descriptor; the     *)
(* driver's header allows smaller buffers.  FS and LS are never cleared,   *)
(* so frames in several descriptors do not go out whole, and the           *)
(* properties about content end where the first such frame begins.         *)
(***************************************************************************)
EXTENDS Naturals, Sequences, SequencesExt

CONSTANTS
    TxBufNb,    \* ETH_TXBUFNB, descriptors in the ring
    MaxSegs,    \* descriptors the longest frame takes
    MaxFrames   \* model bound: calls of low_level_output in a behaviour

ASSUME EthTxAssumption ==
    /\ TxBufNb \in Nat \ {0}
    /\ MaxSegs \in 1 .. TxBufNb
    /\ MaxFrames \in Nat

Desc == 0 .. TxBufNb - 1

VARIABLES
    Status,         \* of each descriptor: OWN, FS, LS
    Buf,            \* what is in each descriptor's buffer
    dma,            \* descriptor the DMA uses next
    dmaState,       \* "run", "stopping" (found no frame), "suspended"
    TBUS, TUS,      \* buffer unavailable, underflow: bits of ETH->DMASR
    wire,           \* segments of the frame the DMA is sending
    DMATxDescToSet,
    pc,             \* where low_level_output is
    outcalls,       \* frames the stack has output so far; names the current one
    segs,           \* descriptors the current frame takes (buf_count)
    k,              \* segments copied (low_level_output) or handed over (Prepare)
    errval,         \* what the last low_level_output returned
    accepted,       \* history: frames handed to the DMA
    sent            \* history: frames the DMA put on the wire

hw   == <<dma, dmaState, TBUS, TUS, wire, sent>>
vars == <<Status, Buf, dma, dmaState, TBUS, TUS, wire, sent,
          DMATxDescToSet, pc, outcalls, segs, k, errval, accepted>>

\* Buffer2NextDescAddr of the chained list.
NextDesc(d) == IF d = TxBufNb - 1 THEN 0 ELSE d + 1

Ahead(d, n) == (d + n) % TxBufNb

SegmentsOf(f, n) == [s \in 1 .. n |-> <<f, s>>]

\* ETH_DMATxDescChainInit and ETH_Start.
Init ==
    /\ Status = [d \in Desc |-> [own |-> FALSE, fs |-> FALSE, ls |-> FALSE]]
    /\ Buf = [d \in Desc |-> <<0, 0>>]
    /\ dma = 0 /\ dmaState = "run" /\ TBUS = FALSE /\ TUS = FALSE
    /\ wire = <<>>
    /\ DMATxDescToSet = 0
    /\ pc = "idle"
    /\ outcalls = 0 /\ segs = 1 /\ k = 0 /\ errval = "ERR_OK"
    /\ accepted = <<>> /\ sent = <<>>

-----------------------------------------------------------------------------
(* The hardware, as the driver relies on it.                               *)

\* One buffer goes out and its descriptor returns to the CPU; FS and LS stay.
DmaSend ==
    /\ dmaState = "run"
    /\ Status[dma].own
    /\ LET w == Append(IF Status[dma].fs THEN <<>> ELSE wire, Buf[dma])
       IN  IF Status[dma].ls
           THEN sent' = Append(sent, w) /\ wire' = <<>>
           ELSE wire' = w /\ UNCHANGED sent
    /\ Status' = [Status EXCEPT ![dma].own = FALSE]
    /\ dma' = NextDesc(dma)
    /\ UNCHANGED <<Buf, dmaState, TBUS, TUS, DMATxDescToSet, pc, outcalls,
                   segs, k, errval, accepted>>

\* The DMA fetches a descriptor it does not own ...
DmaUnavailable ==
    /\ dmaState = "run"
    /\ ~Status[dma].own
    /\ dmaState' = "stopping"
    /\ UNCHANGED <<Status, Buf, dma, TBUS, TUS, wire, sent, DMATxDescToSet, pc,
                   outcalls, segs, k, errval, accepted>>

\* ... and goes to sleep; in the middle of a frame this is an underflow.
DmaSuspend ==
    /\ dmaState = "stopping"
    /\ dmaState' = "suspended"
    /\ TBUS' = TRUE
    /\ TUS' = (TUS \/ wire # <<>>)
    /\ UNCHANGED <<Status, Buf, dma, wire, sent, DMATxDescToSet, pc, outcalls,
                   segs, k, errval, accepted>>

Dma == DmaSend \/ DmaUnavailable \/ DmaSuspend

\* A write to DMATPDR wakes a sleeping DMA.
PollDemand == IF dmaState = "suspended" THEN "run" ELSE dmaState

-----------------------------------------------------------------------------
(* low_level_output.                                                       *)

\* The stack outputs a frame.  Two calls are many bus cycles apart: the DMA
\* is not still on its way to sleep since before the previous one.
Output ==
    /\ pc = "idle"
    /\ dmaState # "stopping"
    /\ outcalls < MaxFrames
    /\ outcalls' = outcalls + 1
    /\ \E n \in 1 .. MaxSegs : segs' = n
    /\ k' = 0
    /\ pc' = "copy"
    /\ UNCHANGED <<Status, Buf, hw, DMATxDescToSet, errval, accepted>>

\* Mutant: the OWN bit is not looked at before the buffer is filled.
BugCopyUnchecked ==
    /\ pc = "copy"
    /\ LET d == Ahead(DMATxDescToSet, k)
       IN  /\ Buf' = [Buf EXCEPT ![d] = <<outcalls, k + 1>>]
           /\ IF k + 1 = segs
              THEN pc' = "prepare" /\ k' = 0
              ELSE k' = k + 1 /\ UNCHANGED pc
    /\ UNCHANGED <<Status, hw, DMATxDescToSet, outcalls, segs, errval, accepted>>

\* Copy into the next buffer if the CPU owns it, otherwise fail: ERR_BUF for
\* the first descriptor, ERR_USE for a later one.
CopyToBuffer ==
    /\ pc = "copy"
    /\ LET d == Ahead(DMATxDescToSet, k)
       IN  IF Status[d].own
           THEN /\ errval' = IF k = 0 THEN "ERR_BUF" ELSE "ERR_USE"
                /\ pc' = "underflow"
                /\ UNCHANGED <<Buf, k>>
           ELSE /\ Buf' = [Buf EXCEPT ![d] = <<outcalls, k + 1>>]
                /\ IF k + 1 = segs
                   THEN pc' = "prepare" /\ k' = 0
                   ELSE k' = k + 1 /\ UNCHANGED pc
                /\ UNCHANGED errval
    /\ UNCHANGED <<Status, hw, DMATxDescToSet, outcalls, segs, accepted>>

\* ETH_Prepare_Transmit_Descriptors refuses a descriptor it does not own; its
\* caller ignores that and returns ERR_OK.
PrepareRefused ==
    Status[DMATxDescToSet].own /\ k = 0

\* One descriptor is handed to the DMA, first to last; bits are only ever set.
Prepare ==
    /\ pc = "prepare"
    /\ errval' = "ERR_OK"
    /\ IF PrepareRefused
       THEN /\ pc' = "underflow"
            /\ UNCHANGED <<Status, DMATxDescToSet, k, accepted>>
       ELSE LET d == Ahead(DMATxDescToSet, k)
                last == k + 1 = segs
            IN  /\ Status' = [Status EXCEPT ![d] =
                     [own |-> TRUE, fs |-> @.fs \/ k = 0, ls |-> @.ls \/ last]]
                /\ accepted' = IF k = 0 THEN Append(accepted, SegmentsOf(outcalls, segs)) ELSE accepted
                /\ DMATxDescToSet' = IF last THEN NextDesc(d) ELSE DMATxDescToSet
                /\ k' = IF last THEN 0 ELSE k + 1
                /\ pc' = IF last THEN "unavailable" ELSE "prepare"
    /\ UNCHANGED <<Buf, hw, outcalls, segs>>

\* Mutant: TBUS is cleared and no poll demand is made.
BugNoPollDemand ==
    /\ pc = "unavailable"
    /\ TBUS' = FALSE
    /\ pc' = "underflow"
    /\ UNCHANGED <<Status, Buf, dma, dmaState, TUS, wire, sent, DMATxDescToSet,
                   outcalls, segs, k, errval, accepted>>

\* When TBUS is set: clear it and resume transmission.
ResumeUnavailable ==
    /\ pc = "unavailable"
    /\ TBUS' = FALSE
    /\ dmaState' = IF TBUS THEN PollDemand ELSE dmaState
    /\ pc' = "underflow"
    /\ UNCHANGED <<Status, Buf, dma, TUS, wire, sent, DMATxDescToSet, outcalls,
                   segs, k, errval, accepted>>

\* When TUS is set: clear it and resume transmission.  Then return errval.
ResumeUnderflow ==
    /\ pc = "underflow"
    /\ TUS' = FALSE
    /\ dmaState' = IF TUS THEN PollDemand ELSE dmaState
    /\ pc' = "idle"
    /\ UNCHANGED <<Status, Buf, dma, TBUS, wire, sent, DMATxDescToSet, outcalls,
                   segs, k, errval, accepted>>

low_level_output == CopyToBuffer \/ Prepare \/ ResumeUnavailable \/ ResumeUnderflow

Next == Dma \/ Output \/ low_level_output

\* Output is up to the stack; a call runs to its end and the DMA works.
Spec == Init /\ [][Next]_vars /\ WF_vars(low_level_output) /\ WF_vars(Dma)

-----------------------------------------------------------------------------
(* Properties.                                                             *)

\* The descriptors the DMA owns.
Owned == {d \in Desc : Status[d].own}

\* The next free descriptor is the one after the last frame handed over.  In
\* the middle of a frame the descriptors already handed over are ahead of it.
TxRingInStep ==
    \E n \in 0 .. TxBufNb :
        /\ Owned = {Ahead(dma, j) : j \in 0 .. n - 1}
        /\ Ahead(DMATxDescToSet, IF pc = "prepare" THEN k ELSE 0) = Ahead(dma, n)

\* low_level_output ignores what ETH_Prepare_Transmit_Descriptors returns.
\* That is harmless: the descriptor it found free is still free when Prepare
\* looks again, so ERR_OK always means that the frame was handed over.  And a
\* caller that gets an error lost only its own frame: the ring stays in step.
OkMeansHandedOver ==
    /\ pc = "prepare" => ~PrepareRefused
    /\ TxRingInStep

\* Frames handed over before the first one that takes several descriptors:
\* with the build's buffers, all of them.
Singles ==
    LET multi == {n \in 1 .. Len(accepted) : Len(accepted[n]) > 1}
    IN  IF multi = {} THEN Len(accepted) ELSE Min(multi) - 1

\* A frame handed over is on the wire at the latest when a later one is: if
\* the DMA falls asleep just as the frame is queued, the next call wakes it.
SentOnceFollowed ==
    \A n \in 1 .. MaxFrames : (Singles > n) ~> (Len(sent) >= n)

\* The queue that the frames handed over and not yet sent form.
Fifo == INSTANCE FrameFifo WITH
    Capacity <- TxBufNb,
    Frame    <- {SegmentsOf(f, n) : f \in 1 .. MaxFrames, n \in 1 .. MaxSegs},
    NoMem    <- <<>>,
    queue    <- SubSeq(accepted, Len(sent) + 1, Singles),
    log      <- SubSeq(sent, 1, IF Len(sent) < Singles THEN Len(sent) ELSE Singles)

\* The ring is a bounded queue of frames from low_level_output to the wire, up
\* to the first frame that takes several descriptors.
ImplementsFifo == Fifo!Spec
=============================================================================
