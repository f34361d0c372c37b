------------------------------ MODULE PageHeap ------------------------------
(***************************************************************************)
(* The page heap of kernel/kheap.c: page_num pages after the page that     *)
(* holds its bitmap.  init_page_heap passes page_num as the size of the    *)
(* bitmap, which byte_index_list.h counts in bytes.                        *)
(***************************************************************************)
EXTENDS Integers

CONSTANTS
    page_num,   \* pages from page_ptr to page_heap_top
    BYTE        \* bits of a byte: 8

VARIABLES array, free_ptr, table_status, holders

\* init_page_heap
page_list == INSTANCE ByteIndexList WITH table_size <- page_num, RegionMax <- 0

Init == page_list!init_byte_index_list

\* "Kmalloc_page: couldnt find free page" is never reached: the list stops in a PANIC.
kmalloc_page == page_list!get_free_slot \/ page_list!get_free_slot_panic

kfree_page(index) == page_list!release_tbl(index)

Next == kmalloc_page \/ \E index \in page_list!granted : kfree_page(index)

Spec == Init /\ [][Next]_page_list!tableVars

-----------------------------------------------------------------------------
\* "We will give heap pages" (boot/boot.s): page number index starts at page_ptr +
\* index * PAGE_SIZE, and kmalloc_page gives out pages that end by page_heap_top.
PagesInHeap == \A index \in page_list!granted : index < page_num
=============================================================================
