-------------------------------- MODULE Heap --------------------------------
(***************************************************************************)
(* The small memory heap of src/rt-thread/src/mem.c.  Every block begins    *)
(* with a header that knows the offsets of the next and of the previous     *)
(* block; lfree is where the search for a free one begins.  Sizes are       *)
(* multiples of RT_ALIGN_SIZE, the unit here.                               *)
(*                                                                          *)
(* What a call does while it has heap_sem is one action.  rt_realloc gives  *)
(* it back before it gets another block and again before it frees the old   *)
(* one.                                                                     *)
(***************************************************************************)
EXTENDS Integers, FiniteSetsExt, Functions

CONSTANTS
    Thread,
    mem_size_aligned,
    SIZEOF_STRUCT_MEM,
    MIN_SIZE,           \* and MIN_SIZE_ALIGNED
    MaxSize             \* bound: of a request

ASSUME HeapAssumption ==
    /\ mem_size_aligned \in Nat
    /\ SIZEOF_STRUCT_MEM \in Nat \ {0} /\ MIN_SIZE \in Nat \ {0}
    /\ MaxSize \in MIN_SIZE .. mem_size_aligned

VARIABLES
    heap,           \* the headers, by their offset: next, prev and used
    lfree, used_mem,
    live,           \* the requests that have been met: offset of the block, and size
    pc              \* where each thread is in rt_realloc

vars == <<heap, lfree, used_mem, live, pc>>

heap_end == mem_size_aligned + SIZEOF_STRUCT_MEM
Running == [at |-> "run"]

\* rt_system_heap_init
Init ==
    /\ heap = [p \in {0, heap_end} |->
                 [next |-> heap_end, prev |-> p, used |-> p = heap_end]]
    /\ lfree = 0 /\ used_mem = 0
    /\ live = {}
    /\ pc = [t \in Thread |-> Running]

-----------------------------------------------------------------------------
(* Parts of the calls, on a heap h with its lfree.  (A "Mutant" is a wrong   *)
(* version of the definition after it; no action uses one.)                  *)

Room(h, p) == h[p].next - (p + SIZEOF_STRUCT_MEM)

\* A header is written at q.
With(h, q, header) == [p \in DOMAIN h \cup {q} |-> IF p = q THEN header ELSE h[p]]

\* The block at p ends behind size, and what is left is a free block of its own.
MutantSplit(h, p, size) ==      \* the block behind that does not know it
    LET q == p + SIZEOF_STRUCT_MEM + size
    IN  With([h EXCEPT ![p].next = q], q, [next |-> h[p].next, prev |-> p, used |-> FALSE])
Split(h, p, size) ==
    LET q == p + SIZEOF_STRUCT_MEM + size
        n == h[p].next
        split == With([h EXCEPT ![p].next = q], q, [next |-> n, prev |-> p, used |-> FALSE])
    IN  IF n = heap_end THEN split ELSE [split EXCEPT ![n].prev = q]

\* The block at q, behind p, becomes part of the one at p.
Merge(h, p, q) ==
    LET n == h[q].next
    IN  Restrict([h EXCEPT ![p].next = n, ![n].prev = p], DOMAIN h \ {q})

\* plug_holes, of the free block at p: forward, and then backward.
MutantPlugHoles(h, low, p) ==       \* lfree stays where a block was
    LET n == h[p].next
        forward == IF p # n /\ ~h[n].used /\ n # heap_end THEN Merge(h, p, n) ELSE h
        before == forward[p].prev
    IN  [heap |-> IF before # p /\ ~forward[before].used THEN Merge(forward, before, p) ELSE forward,
         lfree |-> low]
PlugHoles(h, low, p) ==
    LET n == h[p].next
        forward == IF p # n /\ ~h[n].used /\ n # heap_end
                   THEN [heap |-> Merge(h, p, n), lfree |-> IF low = n THEN p ELSE low]
                   ELSE [heap |-> h, lfree |-> low]
        before == forward.heap[p].prev
    IN  IF before # p /\ ~forward.heap[before].used
        THEN [heap |-> Merge(forward.heap, before, p),
              lfree |-> IF forward.lfree = p THEN before ELSE forward.lfree]
        ELSE forward

\* What is searched: the blocks from lfree on.
MutantFitting(size) ==      \* the header is not counted
    {p \in DOMAIN heap : /\ lfree <= p /\ p < mem_size_aligned - size
                         /\ ~heap[p].used /\ heap[p].next - p >= size}
Fitting(size) ==
    {p \in DOMAIN heap : /\ lfree <= p /\ p < mem_size_aligned - size
                         /\ ~heap[p].used /\ Room(heap, p) >= size}

Needed(size) == IF size < MIN_SIZE THEN MIN_SIZE ELSE size

\* rt_malloc(size) returns the block at p.
Allocated(p, size) ==
    LET splits == Room(heap, p) >= size + SIZEOF_STRUCT_MEM + MIN_SIZE
        taken == [(IF splits THEN Split(heap, p, size) ELSE heap) EXCEPT ![p].used = TRUE]
    IN  /\ heap' = taken
        /\ lfree' = IF p # lfree THEN lfree
                    ELSE Min({q \in DOMAIN taken : q >= p /\ (~taken[q].used \/ q = heap_end)})
        /\ used_mem' = used_mem + (taken[p].next - p)

\* rt_free of the block at p
MutantFreed(p) ==       \* what is taken off is the size of the block it is joined to
    LET plugged == PlugHoles([heap EXCEPT ![p].used = FALSE], Min({lfree, p}), p)
    IN  /\ heap' = plugged.heap /\ lfree' = plugged.lfree
        /\ used_mem' = used_mem - (plugged.heap[Max({q \in DOMAIN plugged.heap : q <= p})].next - p)
Freed(p) ==
    LET plugged == PlugHoles([heap EXCEPT ![p].used = FALSE], Min({lfree, p}), p)
    IN  /\ heap' = plugged.heap /\ lfree' = plugged.lfree
        /\ used_mem' = used_mem - (heap[p].next - p)

-----------------------------------------------------------------------------
\* A caller gives back what it got, and not while it is reallocated.
Busy == {pc[t].old : t \in {t \in Thread : pc[t].at # "run"}}

\* rt_malloc, rt_calloc.  Without a block that fits nothing changes.
Malloc(size) ==
    /\ Fitting(Needed(size)) # {}
    /\ LET p == Min(Fitting(Needed(size)))
       IN  Allocated(p, Needed(size)) /\ live' = live \cup {[at |-> p, size |-> size]}
    /\ UNCHANGED pc

\* rt_free, and rt_realloc to nothing
Free(r) ==
    /\ r \in live \ Busy
    /\ Freed(r.at)
    /\ live' = live \ {r}
    /\ UNCHANGED pc

\* rt_realloc: the block stays where it is and gives back its end...
Shrinks(r, size) == size + SIZEOF_STRUCT_MEM + MIN_SIZE < Room(heap, r.at)

Shrink(r, size) ==
    LET plugged == PlugHoles(Split(heap, r.at, size), lfree, r.at + SIZEOF_STRUCT_MEM + size)
    IN  /\ r \in live \ Busy
        /\ size # Room(heap, r.at) /\ Shrinks(r, size)
        /\ heap' = plugged.heap /\ lfree' = plugged.lfree
        /\ used_mem' = used_mem - (Room(heap, r.at) - size)
        /\ live' = (live \ {r}) \cup {[at |-> r.at, size |-> size]}
        /\ UNCHANGED pc

\* ...or it is large enough as it is, and no larger...
Same(r, size) ==
    /\ r \in live \ Busy /\ size # r.size
    /\ size = Room(heap, r.at)
    /\ live' = (live \ {r}) \cup {[at |-> r.at, size |-> size]}
    /\ UNCHANGED <<heap, lfree, used_mem, pc>>

\* ...or another one is needed, which may be larger or smaller than it...
Expand(t, r, size) ==
    /\ pc[t].at = "run" /\ r \in live \ Busy
    /\ size # Room(heap, r.at) /\ ~Shrinks(r, size)
    /\ pc' = [pc EXCEPT ![t] = [at |-> "expand", old |-> r, size |-> size]]
    /\ UNCHANGED <<heap, lfree, used_mem, live>>

ExpandMalloc(t) ==
    LET size == Needed(pc[t].size)
        p == Min(Fitting(size))
    IN  /\ pc[t].at = "expand"
        /\ \/ /\ Fitting(size) # {}
              /\ Allocated(p, size)
              /\ live' = live \cup {[at |-> p, size |-> pc[t].size]}
              /\ pc' = [pc EXCEPT ![t] = [at |-> "copy", old |-> pc[t].old]]
           \/ /\ Fitting(size) = {}
              /\ pc' = [pc EXCEPT ![t] = Running]
              /\ UNCHANGED <<heap, lfree, used_mem, live>>

\* ...into which the old one is copied before that is freed.
ExpandFree(t) ==
    /\ pc[t].at = "copy"
    /\ Freed(pc[t].old.at)
    /\ live' = live \ {pc[t].old}
    /\ pc' = [pc EXCEPT ![t] = Running]

Next ==
    \/ \E size \in 1 .. MaxSize : Malloc(size)
    \/ \E r \in live : Free(r) \/ \E size \in 1 .. MaxSize : Shrink(r, size) \/ Same(r, size)
    \/ \E t \in Thread :
          \/ \E r \in live, size \in 1 .. MaxSize : Expand(t, r, size)
          \/ ExpandMalloc(t) \/ ExpandFree(t)

Spec == Init /\ [][Next]_vars

-----------------------------------------------------------------------------
(* Properties.                                                             *)

TypeOK ==
    /\ DOMAIN heap \subseteq 0 .. heap_end
    /\ \A p \in DOMAIN heap : heap[p] \in [next : DOMAIN heap, prev : 0 .. heap_end, used : BOOLEAN]
    /\ lfree \in DOMAIN heap
    /\ used_mem \in 0 .. heap_end
    /\ live \subseteq [at : 0 .. heap_end, size : 1 .. MaxSize]

\* The blocks lie one behind the other from 0 to heap_end, each knows the one behind it
\* and the one in front of it, and two free ones are never next to each other
\* ("plug_holes should have take care of this"): what malloc, free and realloc rely on
\* to find a block and to join it.
Tiled ==
    /\ {0, heap_end} \subseteq DOMAIN heap
    /\ \A p \in DOMAIN heap \ {heap_end} :
          LET n == Min({q \in DOMAIN heap : q > p})
          IN  /\ heap[p].next = n /\ n > p + SIZEOF_STRUCT_MEM
              /\ n # heap_end => heap[n].prev = p
              /\ heap[p].used \/ heap[n].used
    /\ heap[heap_end].used /\ heap[0].prev = 0
    /\ lfree = heap_end \/ ~heap[lfree].used

\* What a caller has got is its own until it gives it back, whatever the others
\* allocate, free or reallocate: it is in a used block, large enough, and in no other
\* one's, and every used block is somebody's.
BlocksKept ==
    /\ \A r \in live : r.at \in DOMAIN heap /\ heap[r.at].used /\ r.size <= Room(heap, r.at)
    /\ \A r, s \in live : r.at = s.at => r = s
    /\ {p \in DOMAIN heap \ {heap_end} : heap[p].used} = {r.at : r \in live}

\* used_mem, what rt_memory_info reports, is the memory that the blocks of the callers
\* take, their headers included: what rt_free takes off is what rt_malloc and
\* rt_realloc have put on, and no unit is counted twice.
Units(h, r) == r.at .. h[r.at].next - 1
UsedCounted == used_mem = Cardinality(UNION {Units(heap, r) : r \in live})

=============================================================================
