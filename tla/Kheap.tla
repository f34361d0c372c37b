-------------------------------- MODULE Kheap --------------------------------
(***************************************************************************)
(* The kernel heap of kernel/kheap.c: blocks that tile the heap, each with *)
(* a header, chained in address order; the free ones are also in a sorted  *)
(* array.  kmalloc and kfree hold the heap's lock throughout, so a call is *)
(* one step.                                                               *)
(*                                                                         *)
(* Addresses and sizes count 4-byte words: kmalloc rounds every size up to *)
(* a word.  A header is the four words magic, next_ptr, prev_ptr, size.    *)
(* The header of a block that was merged away stays in memory; the model   *)
(* keeps it only while heap_list_end_ptr still points at it.               *)
(***************************************************************************)
EXTENDS SortedArrayList, FiniteSets

CONSTANTS
    heap_bottom, heap_top,
    HEAP_EXPAND_SIZE,
    list_size,          \* slots of free_node_list's array
    Sizes               \* the sizes callers ask for

HEADER_SIZE == 4
HEAP_SPLIT_THRESHOLD == 4
NULL == 0

ASSUME HeapAssumption ==
    /\ heap_bottom \in Nat \ {0} /\ heap_top \in Nat
    /\ HEAP_EXPAND_SIZE \in Nat /\ HEAP_EXPAND_SIZE > HEADER_SIZE
    /\ \E k \in 2 .. heap_top : heap_top = heap_bottom + k * HEAP_EXPAND_SIZE
    /\ list_size \in Nat \ {0, 1}
    /\ Sizes \subseteq Nat

VARIABLES
    heap,     \* hdr: the headers by address; list: free_node_list;
              \*   end: heap_list_end_ptr; top: top_heap_ptr;
              \*   dropped (auxiliary): an insertion found free_node_list full
    status,   \* "ok", or the PANIC that stopped the processor
    live      \* auxiliary: the blocks that callers hold, with the size they asked for

vars == <<heap, status, live>>

Header(magic, next, prev, size) ==
    [magic |-> magic, next |-> next, prev |-> prev, size |-> size]

\* init_kheap
Init ==
    /\ heap = [hdr  |-> [n \in {heap_bottom} |->
                            Header("FREE", NULL, NULL, HEAP_EXPAND_SIZE - HEADER_SIZE)],
               list |-> insert_list(init_sorted_list(list_size), heap_bottom),
               end  |-> heap_bottom,
               top  |-> heap_bottom + HEAP_EXPAND_SIZE,
               dropped |-> FALSE]
    /\ status = "ok"
    /\ live = [n \in {} |-> 0]

-----------------------------------------------------------------------------
\* Memory.  A write through a NULL pointer is guarded in the code; one to the header of
\* a block merged away changes nothing that is read again.
SetHeader(hdr, node, header) ==
    [n \in DOMAIN hdr \cup {node} |-> IF n = node THEN header ELSE hdr[n]]

SetNext(hdr, node, next) ==
    IF node \in DOMAIN hdr THEN [hdr EXCEPT ![node].next = next] ELSE hdr

SetPrev(hdr, node, prev) ==
    IF node \in DOMAIN hdr THEN [hdr EXCEPT ![node].prev = prev] ELSE hdr

EndOf(hdr, node) == node + HEADER_SIZE + hdr[node].size

\* The blocks reached from heap_bottom, as check_kheap_integrity walks them.
Walk(hdr) ==
    LET at[k \in Nat] == IF k = 0 THEN heap_bottom
                         ELSE IF at[k - 1] \in DOMAIN hdr THEN hdr[at[k - 1]].next
                         ELSE NULL
    IN  {at[k] : k \in 0 .. Cardinality(DOMAIN hdr)} \ {NULL}

\* The header at heap_list_end_ptr is as it was written: it is in the chain, or it was
\* merged away and nothing but free memory has been there since.
EndIntact(h) ==
    /\ h.end \in DOMAIN h.hdr
    /\ \/ h.end \in Walk(h.hdr)
       \/ \E n \in Walk(h.hdr) : /\ h.hdr[n].magic = "FREE"
                                 /\ n + HEADER_SIZE <= h.end
                                 /\ h.end + HEADER_SIZE <= EndOf(h.hdr, n)

\* Other headers that were merged away are forgotten.
Reachable(h) ==
    LET kept == Walk(h.hdr) \cup Items(h.list) \cup (IF EndIntact(h) THEN {h.end} ELSE {})
    IN  [h EXCEPT !.hdr = [n \in DOMAIN h.hdr \cap kept |-> h.hdr[n]]]

-----------------------------------------------------------------------------
FreeNodes(h) == Items(h.list)

\* Faulty form: a block's header counts as part of its size.
Fits_Header(h, alloc_size) ==
    {n \in FreeNodes(h) : h.hdr[n].size + HEADER_SIZE >= alloc_size}

Fits(h, alloc_size) == {n \in FreeNodes(h) : h.hdr[n].size >= alloc_size}

\* The smallest of the blocks that fit, the lowest of equal ones.
heap_find_free_node(h, alloc_size) ==
    CHOOSE n \in Fits(h, alloc_size) :
        \A m \in Fits(h, alloc_size) :
            \/ h.hdr[n].size < h.hdr[m].size
            \/ h.hdr[n].size = h.hdr[m].size /\ n <= m

\* heap_merge_left and heap_merge_right: the block on the right becomes part of the
\* one on the left.
Absorb(h, left, right) ==
    LET next == h.hdr[right].next
        prev == h.hdr[left].prev
        linked == SetNext(SetPrev(h.hdr, next, left), prev, left)
        size == h.hdr[left].size + h.hdr[right].size + HEADER_SIZE
    IN  [h EXCEPT !.hdr = SetHeader(linked, left, Header("FREE", next, prev, size)),
                  !.list = remove_list(remove_list(@, left), right)]

IsFree(h, node) == node \in DOMAIN h.hdr /\ h.hdr[node].magic = "FREE"

\* No caller of insert_list looks at its result.
InsertFree(h, node) ==
    [h EXCEPT !.list = insert_list(@, node),
              !.dropped = @ \/ (Full(h.list) /\ node \notin Items(h.list))]

\* Faulty form: the block that was freed goes into free_node_list even when it has
\* become part of the one on its left.
heap_merge_nodes_InsertNode(h, node) ==
    LET node_left == h.hdr[node].prev
        node_right == h.hdr[node].next
        right == IF IsFree(h, node_right) THEN Absorb(h, node, node_right) ELSE h
        both == IF IsFree(h, node_left) THEN Absorb(right, node_left, node) ELSE right
    IN  InsertFree(both, node)

\* Faulty form: only the block on the right is merged.
heap_merge_nodes_RightOnly(h, node) ==
    LET node_right == h.hdr[node].next
        right == IF IsFree(h, node_right) THEN Absorb(h, node, node_right) ELSE h
    IN  InsertFree(right, node)

heap_merge_nodes(h, node) ==
    LET node_left == h.hdr[node].prev
        node_right == h.hdr[node].next
        right == IF IsFree(h, node_right) THEN Absorb(h, node, node_right) ELSE h
        both == IF IsFree(h, node_left) THEN Absorb(right, node_left, node) ELSE right
        merge_node == IF IsFree(h, node_left) THEN node_left ELSE node
    IN  InsertFree(both, merge_node)

\* The rest of the block is too small for a header and a word: the caller gets all of
\* it.  Whether the block is the last one is first looked up in new_free_node->next_ptr,
\* a header that was not written: with nothing left it is the next block's, with one
\* word left the place holds that block's magic, with more it holds what an earlier
\* owner of the memory wrote, zero or not.
UseWhole(h, free_node, left, zero) ==
    LET header == h.hdr[free_node]
        looks_last == \/ left = 0 /\ h.hdr[header.next].next = NULL
                      \/ left > 1 /\ zero
    IN  [h EXCEPT !.hdr = SetHeader(h.hdr, free_node,
                              Header("USED", header.next, header.prev, header.size)),
                  !.list = remove_list(@, free_node),
                  !.end = IF header.next = NULL \/ looks_last THEN free_node ELSE @]

\* Faulty form: the new free block is linked in, its successor not back to it.
Carve_NoBackLink(h, free_node, alloc_size) ==
    LET header == h.hdr[free_node]
        new_free_node == free_node + alloc_size + HEADER_SIZE
        size == header.size - alloc_size - HEADER_SIZE
        split == SetHeader(SetHeader(h.hdr, new_free_node,
                               Header("FREE", header.next, free_node, size)),
                           free_node, Header("USED", new_free_node, header.prev, alloc_size))
    IN  InsertFree([h EXCEPT !.hdr = split,
                             !.list = remove_list(@, free_node),
                             !.end = IF header.next = NULL THEN new_free_node ELSE @],
                   new_free_node)

\* The rest of the block becomes a free block of its own.
Carve(h, free_node, alloc_size) ==
    LET header == h.hdr[free_node]
        new_free_node == free_node + alloc_size + HEADER_SIZE
        size == header.size - alloc_size - HEADER_SIZE
        split == SetHeader(SetHeader(SetPrev(h.hdr, header.next, new_free_node),
                               new_free_node, Header("FREE", header.next, free_node, size)),
                           free_node, Header("USED", new_free_node, header.prev, alloc_size))
    IN  InsertFree([h EXCEPT !.hdr = split,
                             !.list = remove_list(@, free_node),
                             !.end = IF header.next = NULL THEN new_free_node ELSE @],
                   new_free_node)

heap_split_node(h, free_node, new_alloc_size, zero) ==
    LET total_size_left == h.hdr[free_node].size - new_alloc_size
    IN  IF total_size_left <= HEAP_SPLIT_THRESHOLD
        THEN UseWhole(h, free_node, total_size_left, zero)
        ELSE Carve(h, free_node, new_alloc_size)

\* What kmalloc asks for: the first multiple of HEAP_EXPAND_SIZE above the size.
expand_count(size) == HEAP_EXPAND_SIZE * (1 + size \div HEAP_EXPAND_SIZE)

\* The new block starts where the last one ends.  Its size does not leave out its own
\* header, so that it ends HEADER_SIZE after top_heap_ptr.
expand_heap(h, size) ==
    LET last_node == h.end
        new_free_node == EndOf(h.hdr, last_node)
        top == h.top + size
        linked == SetHeader(SetNext(h.hdr, last_node, new_free_node), new_free_node,
                            Header("FREE", NULL, last_node, top - new_free_node))
        grown == InsertFree([h EXCEPT !.hdr = linked, !.top = top], new_free_node)
    IN  [heap_merge_nodes(grown, new_free_node) EXCEPT !.end = new_free_node]

-----------------------------------------------------------------------------
\* The block at heap_list_end_ptr is the last one of the chain.
EndIsLast(h) == h.end \in Walk(h.hdr) /\ h.hdr[h.end].next = NULL

\* The rest of kmalloc, in a heap where some block fits
Allocate(h, size) ==
    LET node == heap_find_free_node(h, size)
    IN  /\ \E zero \in BOOLEAN : heap' = Reachable(heap_split_node(h, node, size, zero))
        /\ live' = [n \in DOMAIN live \cup {node} |-> IF n = node THEN size ELSE live[n]]

kmalloc(size) ==
    /\ status = "ok"
    /\ Fits(heap, size) # {}
    /\ Allocate(heap, size)
    /\ UNCHANGED status

\* No free block fits: the heap is expanded first.
Expands(size) == status = "ok" /\ Fits(heap, size) = {}

PastTop(size) == heap.top + expand_count(size) >= heap_top

\* Faulty form: the new top of the heap is not looked at.
kmalloc_expand_NoTop(size) ==
    LET grown == expand_heap(heap, expand_count(size))
    IN  /\ Expands(size) /\ EndIsLast(heap)
        /\ Fits(grown, size) # {}
        /\ Allocate(grown, size)
        /\ UNCHANGED status

kmalloc_expand(size) ==
    LET grown == expand_heap(heap, expand_count(size))
    IN  /\ Expands(size) /\ ~PastTop(size) /\ EndIsLast(heap)
        /\ Fits(grown, size) # {}
        /\ Allocate(grown, size)
        /\ UNCHANGED status

\* "Weve expanded past our heap top..."
kmalloc_past_top(size) ==
    /\ Expands(size) /\ PastTop(size)
    /\ status' = "past heap_top"
    /\ UNCHANGED <<heap, live>>

\* "Not enough memory?"
kmalloc_no_memory(size) ==
    /\ Expands(size) /\ ~PastTop(size) /\ EndIsLast(heap)
    /\ Fits(expand_heap(heap, expand_count(size)), size) = {}
    /\ status' = "not enough memory"
    /\ UNCHANGED <<heap, live>>

\* The expansion follows a heap_list_end_ptr that is not the last block.  What it
\* leaves is the last state modelled: from here on blocks overlap.
kmalloc_stale_end(size) ==
    LET grown == expand_heap(heap, expand_count(size))
    IN  /\ Expands(size) /\ ~PastTop(size) /\ ~EndIsLast(heap) /\ EndIntact(heap)
        /\ Fits(grown, size) # {}
        /\ Allocate(grown, size)
        /\ status' = "stale end"

\* kfree of the block that starts after the header node; kfree(NULL) does nothing.
kfree(node) ==
    /\ status = "ok"
    /\ heap' = Reachable(heap_merge_nodes([heap EXCEPT !.hdr[node].magic = "FREE"], node))
    /\ live' = [n \in DOMAIN live \ {node} |-> live[n]]
    /\ UNCHANGED status

-----------------------------------------------------------------------------
\* Every sequence of calls in which an expansion finds heap_list_end_ptr at the last
\* block.
Next ==
    \/ \E size \in Sizes : \/ kmalloc(size)
                           \/ kmalloc_expand(size)
                           \/ kmalloc_past_top(size)
                           \/ kmalloc_no_memory(size)
    \/ \E node \in DOMAIN live : kfree(node)

Spec == Init /\ [][Next]_vars

\* Every sequence of calls up to the first expansion from elsewhere.
AnyNext == Next \/ \E size \in Sizes : kmalloc_stale_end(size)

AnySpec == Init /\ [][AnyNext]_vars

-----------------------------------------------------------------------------
Addr == heap_bottom .. heap_top - 1

\* Types of the variables.
TypeOK ==
    /\ DOMAIN heap.hdr \subseteq Addr
    /\ \A n \in DOMAIN heap.hdr :
          heap.hdr[n] \in [magic : {"FREE", "USED"}, next : Addr \cup {NULL},
                           prev : Addr \cup {NULL}, size : 0 .. heap_top - heap_bottom]
    /\ heap.end \in Addr /\ heap.top \in Addr
    /\ heap.list.curr_size \in 1 .. list_size
    /\ heap.dropped \in BOOLEAN
    /\ DOMAIN live \subseteq DOMAIN heap.hdr

expanded == heap.top # heap_bottom + HEAP_EXPAND_SIZE

\* The blocks lie side by side, whatever was split, merged and added: each ends where the
\* next begins and is linked back from it.  The last one ends at top_heap_ptr, and once
\* expand_heap has run one header after it, neither more nor less however often it has
\* run; that header is what IntegrityHolds objects to.
Tiled ==
    \A n \in Walk(heap.hdr) :
        LET next == heap.hdr[n].next
        IN  IF next = NULL
            THEN EndOf(heap.hdr, n) = heap.top + (IF expanded THEN HEADER_SIZE ELSE 0)
            ELSE next = EndOf(heap.hdr, n) /\ heap.hdr[next].prev = n

ChainFree == {n \in Walk(heap.hdr) : heap.hdr[n].magic = "FREE"}

\* The binary searches and the chain agree on which blocks are free: free_node_list is
\* in ascending order and holds the free blocks of the chain, all of them unless an
\* insertion found it full.
FreeListExact ==
    /\ \A k \in 1 .. heap.list.curr_size - 2 : heap.list.arr[k - 1] < heap.list.arr[k]
    /\ FreeNodes(heap) \subseteq ChainFree
    /\ ~heap.dropped => FreeNodes(heap) = ChainFree

\* heap_merge_nodes leaves no two free blocks side by side, so that no request fails
\* for fragmentation that a merge would undo.
Coalesced == \A n \in ChainFree : heap.hdr[n].next \notin ChainFree

A == INSTANCE Allocator WITH
        bottom <- heap_bottom, top <- heap_top,
        blocks <- {[at |-> n + HEADER_SIZE, len |-> heap.hdr[n].size, size |-> live[n]] :
                      n \in DOMAIN live}

\* kmalloc and kfree are an allocator: no call hands out memory in use or touches a
\* block that another caller holds.
ImplementsAllocator == A!Spec

\* check_kheap_integrity adds up the blocks of the chain: heap_count when the loop ends.
check_kheap_integrity(hdr) ==
    LET after[k \in Nat] ==
            LET past == after[k - 1]
            IN  IF k = 0 THEN [node |-> heap_bottom, heap_count |-> 0]
                ELSE IF past.node = NULL THEN past
                ELSE [node |-> hdr[past.node].next,
                      heap_count |-> past.heap_count + hdr[past.node].size + HEADER_SIZE]
    IN  after[Cardinality(DOMAIN hdr)].heap_count

\* What check_kheap_integrity asks of the heap before every kmalloc, and calls
\* "integrity compromised" otherwise: the blocks add up to the heap's size.
IntegrityHolds == check_kheap_integrity(heap.hdr) = heap.top - heap_bottom

\* What test_kheap.c expects of blocks that are in use at the same time, and the
\* allocator of those it may still hand out: no two of them overlap.
BlocksDisjoint ==
    \A n, m \in FreeNodes(heap) \cup DOMAIN live : n < m => EndOf(heap.hdr, n) <= m
=============================================================================
