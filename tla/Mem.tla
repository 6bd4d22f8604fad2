-------------------------------- MODULE Mem --------------------------------
(***************************************************************************)
(* The heap of lwIP (lwip/core/mem.c), as functions from one heap to the   *)
(* next.  The heap is a doubly linked list of struct mem laid out in one   *)
(* array; an offset into the array stands for the struct there.            *)
(*                                                                         *)
(* h.ram     the structs: offset -> [next, prev, used].  An offset that is *)
(*           no struct (any more) is not in its domain.  The prev of the   *)
(*           struct at the end, ram_end, is never read and not kept.       *)
(* h.lfree   the lowest unused struct, where searching starts.             *)
(*                                                                         *)
(* Sizes are in units of MEM_ALIGNMENT, so every size is aligned.          *)
(***************************************************************************)
EXTENDS Integers, FiniteSetsExt

CONSTANTS
    MEM_SIZE,           \* MEM_SIZE_ALIGNED; ram_end is at this offset
    SIZEOF_STRUCT_MEM,
    MIN_SIZE            \* MIN_SIZE_ALIGNED

ASSUME MemAssumption ==
    /\ SIZEOF_STRUCT_MEM \in Nat \ {0} /\ MIN_SIZE \in Nat \ {0}
    /\ MEM_SIZE \in Nat /\ MEM_SIZE > SIZEOF_STRUCT_MEM + MIN_SIZE

FAIL == -1              \* mem_malloc returns NULL

\* The function f with x mapped to v, and without x.
Put(f, x, v) == [y \in DOMAIN f \cup {x} |-> IF y = x THEN v ELSE f[y]]
Cut(f, x)    == [y \in DOMAIN f \ {x} |-> f[y]]

Struct(next, prev, used) == [next |-> next, prev |-> prev, used |-> used]

mem_init ==
    [ram   |-> [p \in {0, MEM_SIZE} |->
                  IF p = 0 THEN Struct(MEM_SIZE, 0, FALSE)
                  ELSE Struct(MEM_SIZE, MEM_SIZE, TRUE)],
     lfree |-> 0]

\* What the caller may use of the struct at p.
DataSize(h, p) == h.ram[p].next - p - SIZEOF_STRUCT_MEM

\* The struct at q, if it is not ram_end, follows p.
SetPrev(ram, q, p) == IF q = MEM_SIZE THEN ram ELSE [ram EXCEPT ![q].prev = p]

\* The struct at gone is swallowed by the one at p before it.
Merge(h, p, gone) ==
    LET after == h.ram[gone].next
    IN  [ram   |-> SetPrev([Cut(h.ram, gone) EXCEPT ![p].next = after], after, p),
         lfree |-> IF h.lfree = gone THEN p ELSE h.lfree]

\* Join the unused struct at p with an unused one after and before it.
plug_holes(h, p) ==
    LET nmem    == h.ram[p].next
        forward == IF nmem # p /\ ~h.ram[nmem].used /\ nmem # MEM_SIZE
                   THEN Merge(h, p, nmem) ELSE h
        pmem    == forward.ram[p].prev
    IN  IF pmem # p /\ ~forward.ram[pmem].used
        THEN Merge(forward, pmem, p) ELSE forward

mem_free(h, p) ==
    plug_holes([ram   |-> [h.ram EXCEPT ![p].used = FALSE],
                lfree |-> IF p < h.lfree THEN p ELSE h.lfree], p)

\* Mutant: the moved struct is forgotten by its successor.
BugSplitNoPrev(ram, p, ptr2, next) ==
    Put([ram EXCEPT ![p].next = ptr2], ptr2, Struct(next, p, FALSE))

\* A new unused struct at ptr2, between the one at p and the offset next.
Split(ram, p, ptr2, next) ==
    SetPrev(Put([ram EXCEPT ![p].next = ptr2], ptr2, Struct(next, p, FALSE)),
            next, ptr2)

AtLeastMin(size) == IF size < MIN_SIZE THEN MIN_SIZE ELSE size

\* mem_trim: a hole after the block moves down; else a new one is made when
\* there is room for it.
mem_trim(h, p, newsize) ==
    LET size  == DataSize(h, p)
        want  == AtLeastMin(newsize)
        mem2  == h.ram[p].next
        ptr2  == p + SIZEOF_STRUCT_MEM + want
    IN  CASE want > MEM_SIZE \/ want >= size -> h
          [] want < size /\ ~h.ram[mem2].used ->
                [ram   |-> Split(Cut(h.ram, mem2), p, ptr2, h.ram[mem2].next),
                 lfree |-> IF h.lfree = mem2 THEN ptr2 ELSE h.lfree]
          [] /\ want < size /\ h.ram[mem2].used
             /\ want + SIZEOF_STRUCT_MEM + MIN_SIZE <= size ->
                [ram   |-> Split(h.ram, p, ptr2, mem2),
                 lfree |-> IF ptr2 < h.lfree THEN ptr2 ELSE h.lfree]
          [] OTHER -> h

\* The struct reached from p after k steps along next.
Walk(ram, p) ==
    LET at[k \in 0 .. MEM_SIZE] == IF k = 0 THEN p ELSE ram[at[k - 1]].next
    IN  at

\* The first unused struct from p on, or ram_end.
FirstFree(ram, p) ==
    LET at == Walk(ram, p)
    IN  at[Min({k \in 0 .. MEM_SIZE : at[k] = MEM_SIZE \/ ~ram[at[k]].used})]

\* Where mem_malloc finds room for size, or FAIL.
mem_malloc_at(h, asked) ==
    LET size == AtLeastMin(asked)
        at   == Walk(h.ram, h.lfree)
        fits == {k \in 0 .. MEM_SIZE : /\ \A j \in 0 .. k : at[j] < MEM_SIZE - size
                                       /\ ~h.ram[at[k]].used
                                       /\ DataSize(h, at[k]) >= size}
    IN  IF asked = 0 \/ fits = {} THEN FAIL ELSE at[Min(fits)]

\* The heap after mem_malloc found p for it: the rest is split off when it
\* can hold a struct and data.
mem_malloc(h, asked) ==
    LET size == AtLeastMin(asked)
        p    == mem_malloc_at(h, asked)
        ptr2 == p + SIZEOF_STRUCT_MEM + size
        ram  == IF DataSize(h, p) >= size + SIZEOF_STRUCT_MEM + MIN_SIZE
                THEN Split(h.ram, p, ptr2, h.ram[p].next) ELSE h.ram
        took == [ram EXCEPT ![p].used = TRUE]
    IN  [ram   |-> took,
         lfree |-> IF p = h.lfree THEN FirstFree(took, p) ELSE h.lfree]

Blocks(h) == {p \in DOMAIN h.ram : h.ram[p].used /\ p # MEM_SIZE}
Holes(h)  == {p \in DOMAIN h.ram : ~h.ram[p].used}

-----------------------------------------------------------------------------
(* The list and the array agree: every struct is met on the way from the   *)
(* start, next goes up and prev is its inverse, and a struct has room for  *)
(* MIN_SIZE.                                                               *)
ListSound(h) ==
    LET at == Walk(h.ram, 0)
    IN  /\ {at[k] : k \in 0 .. MEM_SIZE} = DOMAIN h.ram
        /\ \A p \in DOMAIN h.ram \ {MEM_SIZE} :
              /\ DataSize(h, p) >= MIN_SIZE
              /\ h.ram[p].next # MEM_SIZE => h.ram[h.ram[p].next].prev = p

(* mem.c:226, "there should not exist one empty struct mem pointing to     *)
(* another empty struct mem", and lfree points "to the lowest free block". *)
HolesSound(h) ==
    /\ \A p \in Holes(h) : h.ram[p].next \notin Holes(h)
    /\ h.lfree = Min(Holes(h) \cup {MEM_SIZE})

(* The search from lfree on, which ends before the end of the array, never *)
(* misses a hole that is large enough.                                     *)
NoRoomMissed(h) ==
    \A size \in 1 .. MEM_SIZE :
        mem_malloc_at(h, size) = FAIL =>
            \A p \in Holes(h) : DataSize(h, p) < AtLeastMin(size)
=============================================================================
