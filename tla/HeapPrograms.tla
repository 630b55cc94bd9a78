---------------------------- MODULE HeapPrograms ----------------------------
(***************************************************************************)
(* tj_malloc.h, the allocator the test programs link, and the programs     *)
(* that free what they allocate: priority_queue.c and basic_malloc.c.      *)
(*                                                                         *)
(* Addresses are bytes from the start of heap[].  A block is a header of   *)
(* HeaderSize bytes, whose size field counts the bytes that follow it, and *)
(* these bytes.  The header of an address is in heap.hdr; the contents of  *)
(* a block are those of its owner, in objs, while it is allocated, and     *)
(* nobody's while it is free.                                              *)
(*                                                                         *)
(* tj_malloc.h adds a size in bytes to a Header pointer (bp + bp->size),   *)
(* which moves it by that many headers: Plus keeps this arithmetic.        *)
(***************************************************************************)
EXTENDS Integers, Sequences, FiniteSets, TLC

CONSTANTS
    HEAP_SIZE,      \* tj_malloc.h:29
    BaseAddresses   \* where the linker may put base (line 38): outside of heap[]

ASSUME BaseIsOutsideTheHeap ==
    /\ HEAP_SIZE \in Nat
    /\ BaseAddresses \subseteq Int
    /\ \A a \in BaseAddresses : a < -8 \/ a >= HEAP_SIZE + 8

VARIABLES
    heap,   \* the allocator: hdr, next_index, avail_mem, freep and the address of base
    objs,   \* what the owner of each allocated block keeps in it
    head    \* priority_queue.c: the head of the queue

heapVars == <<heap, objs, head>>

HeaderSize == 8
NULL       == -1000000

Plus(p, count) == p + HeaderSize * count

-----------------------------------------------------------------------------
(* tj_malloc.h *)

FreshHeap(base) ==
    [hdr |-> base :> [next |-> NULL, size |-> 0], base |-> base, freep |-> NULL,
     next_index |-> 0, avail_mem |-> HEAP_SIZE]

(* The loop of tj_free: the free block the block at bp is linked after.    *)
RECURSIVE Predecessor(_, _, _)
Predecessor(h, bp, p) ==
    LET next == h.hdr[p].next
    IN IF \/ bp > p /\ bp < next
          \/ p >= next /\ (bp > p \/ bp < next)
       THEN p ELSE Predecessor(h, bp, next)

(* tj_free of a block inside heap[] (line 45 exits on any other).          *)
tj_free(h, mem) ==
    LET bp    == mem - HeaderSize
        p     == Predecessor(h, bp, h.freep)
        upper == h.hdr[p].next
        above == IF Plus(bp, h.hdr[bp].size) = upper
                 THEN [next |-> h.hdr[upper].next,
                       size |-> h.hdr[bp].size + h.hdr[upper].size]
                 ELSE [next |-> upper, size |-> h.hdr[bp].size]
        below == IF Plus(p, h.hdr[p].size) = bp
                 THEN [next |-> above.next, size |-> h.hdr[p].size + above.size]
                 ELSE [next |-> bp, size |-> h.hdr[p].size]
    IN [h EXCEPT !.hdr = [@ EXCEPT ![bp] = above, ![p] = below], !.freep = p]

(* getmoremem when avail_mem suffices: the block is carved off and freed.  *)
getmoremem(h, total_size) ==
    LET up == h.next_index
    IN tj_free([h EXCEPT !.hdr = up :> [next |-> NULL, size |-> total_size - HeaderSize] @@ @,
                         !.next_index = @ + total_size, !.avail_mem = @ - total_size],
               up + HeaderSize)

(* Mutant of Take: an exact block stays on the free list.                  *)
TakeWithoutUnlink(h, prevp, p, size) ==
    [h |-> [h EXCEPT !.freep = prevp], mem |-> p + HeaderSize]

(* A block of at least size bytes is unlinked, or its tail is split off.   *)
Take(h, prevp, p, size) ==
    LET left == h.hdr[p].size - (size + HeaderSize)
        tail == Plus(p, left)
    IN IF h.hdr[p].size = size
       THEN [h   |-> [h EXCEPT !.hdr[prevp].next = h.hdr[p].next, !.freep = prevp],
             mem |-> p + HeaderSize]
       ELSE [h   |-> [h EXCEPT !.hdr = tail :> [next |-> NULL, size |-> size]
                                       @@ [@ EXCEPT ![p].size = left],
                               !.freep = prevp],
             mem |-> tail + HeaderSize]

(* The loop of tj_malloc.                                                  *)
RECURSIVE Search(_, _, _, _)
Search(h, prevp, p, size) ==
    CASE h.hdr[p].size >= size -> Take(h, prevp, p, size)
      [] h.hdr[p].size < size /\ p # h.freep -> Search(h, p, h.hdr[p].next, size)
      [] h.hdr[p].size < size /\ p = h.freep ->
           IF h.avail_mem < size + HeaderSize THEN [h |-> h, mem |-> NULL]
           ELSE LET more == getmoremem(h, size + HeaderSize)
                IN Search(more, more.freep, more.hdr[more.freep].next, size)

tj_malloc(h, bytes) ==
    LET size   == ((bytes + 3) \div 4) * 4
        linked == IF h.freep = NULL
                  THEN [h EXCEPT !.freep = h.base,
                                 !.hdr[h.base] = [next |-> h.base, size |-> 0]]
                  ELSE h
    IN IF bytes > HEAP_SIZE THEN [h |-> h, mem |-> NULL]
       ELSE Search(linked, linked.freep, linked.hdr[linked.freep].next, size)

-----------------------------------------------------------------------------
(* priority_queue.c: a node holds its priority and the next node.  None of *)
(* the programs tests the result of tj_malloc, so they run where it        *)
(* succeeds.                                                               *)
NodeSize == 12

(* The node push links the new one after: the search starts at head.       *)
RECURSIVE Before(_, _)
Before(start, p) ==
    IF objs[start].next # NULL /\ objs[objs[start].next].priority < p
    THEN Before(objs[start].next, p) ELSE start

(* main: the first node is made by newNode alone.  newNode is tj_malloc of *)
(* a node, then its three fields.                                          *)
FirstNode(p) ==
    LET got == tj_malloc(heap, NodeSize)
    IN /\ head = NULL
       /\ got.mem # NULL
       /\ heap' = got.h
       /\ objs' = got.mem :> [priority |-> p, next |-> NULL] @@ objs
       /\ head' = got.mem

push(p) ==
    LET got   == tj_malloc(heap, NodeSize)
        start == Before(head, p)
    IN /\ head # NULL
       /\ got.mem # NULL
       /\ heap' = got.h
       /\ IF objs[head].priority > p
          THEN /\ objs' = got.mem :> [priority |-> p, next |-> head] @@ objs
               /\ head' = got.mem
          ELSE /\ objs' = got.mem :> [priority |-> p, next |-> objs[start].next]
                          @@ [objs EXCEPT ![start].next = got.mem]
               /\ UNCHANGED head

pop ==
    /\ head # NULL
    /\ head' = objs[head].next
    /\ heap' = tj_free(heap, head)
    /\ objs' = [b \in DOMAIN objs \ {head} |-> objs[b]]

-----------------------------------------------------------------------------
(* basic_malloc.c, and the programs that only allocate: a block holds what *)
(* tj_calloc cleared or what was there before.                             *)
Owned(bytes, contents) == [bytes |-> bytes, contents |-> contents]

Alloc(bytes) ==
    LET got == tj_malloc(heap, bytes)
    IN /\ heap' = got.h
       /\ objs' = IF got.mem = NULL THEN objs
                  ELSE got.mem :> Owned(bytes, "garbage") @@ objs
       /\ UNCHANGED head

(* tj_calloc clears what tj_malloc returns, which must not be NULL.        *)
tj_calloc(bytes) ==
    LET got == tj_malloc(heap, bytes)
    IN /\ got.mem # NULL
       /\ heap' = got.h
       /\ objs' = got.mem :> Owned(bytes, "zero") @@ objs
       /\ UNCHANGED head

Free(block) ==
    /\ heap' = tj_free(heap, block)
    /\ objs' = [b \in DOMAIN objs \ {block} |-> objs[b]]
    /\ UNCHANGED head
=============================================================================
