----------------------------- MODULE FrameFifo -----------------------------
(***************************************************************************)
(* What a ring of DMA descriptors promises: a bounded queue of frames with *)
(* one producer and one consumer.  The consumer passes the oldest frame on *)
(* or, when it has no memory for it, drops it; it never skips, repeats or  *)
(* changes one.                                                            *)
(***************************************************************************)
EXTENDS Naturals, Sequences

CONSTANTS
    Capacity,   \* descriptors in the ring
    Frame,      \* the frames there are
    NoMem       \* what is recorded for a frame dropped for want of memory

VARIABLES
    queue,      \* frames stored and not yet taken
    log         \* what became of every frame taken, oldest first

Init == queue = <<>> /\ log = <<>>

Put(f) ==
    /\ Len(queue) < Capacity
    /\ queue' = Append(queue, f)
    /\ UNCHANGED log

Get ==
    /\ queue # <<>>
    /\ queue' = Tail(queue)
    /\ \E r \in {Head(queue), NoMem} : log' = Append(log, r)

Next == Get \/ \E f \in Frame : Put(f)

Spec == Init /\ [][Next]_<<queue, log>>
=============================================================================
