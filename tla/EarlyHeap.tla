------------------------------ MODULE EarlyHeap ------------------------------
(***************************************************************************)
(* The early heap of kernel/kheap.c: the bytes from early_heap_bottom,     *)
(* here 0, to early_heap_top, given away from the bottom up and never      *)
(* taken back, and the areas that its users hold: the bitmap of            *)
(* kernel/mm.c, the page directory and the page tables of kernel/paging.c, *)
(* the free_node_list of the heap and the stacks of arch/smp.c.  The page  *)
(* heap follows early_heap_top (boot/boot.s).                              *)
(***************************************************************************)
EXTENDS Integers

CONSTANTS
    PAGE_SIZE,
    early_heap_top,
    AddressSpace,   \* 2^32: the range of an address
    Users           \* who may ask for memory

ASSUME EarlyHeapAssumption ==
    /\ PAGE_SIZE \in Nat \ {0}
    /\ early_heap_top \in Nat
    /\ early_heap_top % PAGE_SIZE = 0
    /\ AddressSpace \in Nat \ {0}

VARIABLES
    early_heap_ptr,
    grants,     \* auxiliary: the areas in use, [use, from, to): from is in, to is not
    warned      \* "WEVE HIT THE TOP OF HEAP" was printed

FreeList == <<"free_node_list">>
Bitmap == <<"phys_mem_tbl">>

heapVars == <<early_heap_ptr, grants, warned>>

\* init_early_heap
init_early_heap ==
    /\ early_heap_ptr = 0
    /\ grants = {}
    /\ warned = FALSE

-----------------------------------------------------------------------------
ALIGN_UP(x) == IF x % PAGE_SIZE = 0 THEN x ELSE x + (PAGE_SIZE - (x % PAGE_SIZE))

Grant(use, from, to) ==
    grants' = grants \cup {[use |-> use, from |-> from, to |-> to]}

\* init_mem_manager takes the bytes of its bitmap without a call.
TakeBytes(use, n) ==
    /\ Grant(use, early_heap_ptr, early_heap_ptr + n)
    /\ early_heap_ptr' = early_heap_ptr + n
    /\ UNCHANGED warned

\* Faulty form: early_heap_ptr stays.
early_kmalloc_pages_Stay(use, n) ==
    LET from == ALIGN_UP(early_heap_ptr)
    IN  /\ Grant(use, from, from + n * PAGE_SIZE)
        /\ early_heap_ptr' = from
        /\ UNCHANGED warned

\* Faulty form: one comparison for all pages, of the first, which may begin at the top.
early_kmalloc_pages_LateWarning(use, n) ==
    LET from == ALIGN_UP(early_heap_ptr)
    IN  /\ Grant(use, from, from + n * PAGE_SIZE)
        /\ early_heap_ptr' = from + n * PAGE_SIZE
        /\ warned' = (warned \/ from > early_heap_top)

\* Pages beyond the top are given away too, with a warning for each that begins at the
\* top or above.
early_kmalloc_pages(use, n) ==
    LET from == ALIGN_UP(early_heap_ptr)
    IN  /\ Grant(use, from, from + n * PAGE_SIZE)
        /\ early_heap_ptr' = from + n * PAGE_SIZE
        /\ warned' = (warned \/ \E i \in 0 .. n - 1 : from + i * PAGE_SIZE >= early_heap_top)

\* init_kheap lays free_node_list over the rest of the early heap and leaves
\* early_heap_ptr where it is; the size of the rest is unsigned.
PlaceFreeList ==
    /\ Grant(FreeList, early_heap_ptr,
             early_heap_ptr + ((early_heap_top - early_heap_ptr) % AddressSpace))
    /\ UNCHANGED <<early_heap_ptr, warned>>

\* The users in any order, each once.
EarlyHeapNext ==
    \/ \E user \in Users \ {FreeList}, n \in Nat :
          /\ \A g \in grants : g.use # user
          /\ IF user = Bitmap THEN TakeBytes(user, n) ELSE early_kmalloc_pages(user, n)
    \/ PlaceFreeList

EarlyHeapSpec == init_early_heap /\ [][EarlyHeapNext]_heapVars

-----------------------------------------------------------------------------
Disjoint(g, h) == g.to <= h.from \/ h.to <= g.from

\* include/kheap.h: "the space that we give to things that we dont plan on taking away
\* i.e. its static storage", for page directories "and for kheap managment": no user's
\* area is another's.
StaticStorageKept == \A g, h \in grants : g.use # h.use => Disjoint(g, h)

\* init_kheap is the only one to break that: what early_kmalloc_pages and the bitmap took
\* is given to no one else, whatever the order of the calls and beyond the top too; only
\* free_node_list, placed without moving early_heap_ptr, shares its area.
SharedOnlyWithFreeList ==
    \A g, h \in grants :
        g.use # h.use /\ FreeList \notin {g.use, h.use} => Disjoint(g, h)

\* early_kmalloc_pages does not fail when it runs into the page heap behind the early
\* heap, and no caller looks: its warning is all there is, and it comes whenever some page
\* that it gives is beyond the top.  The bitmap, which is taken without a call, and
\* free_node_list overrun the top without one.
OverrunIsReported ==
    \A g \in grants :
        g.from < g.to /\ g.to > early_heap_top =>
            warned \/ g.use \in {Bitmap, FreeList}
=============================================================================
