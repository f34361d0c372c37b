------------------------------- MODULE Paging -------------------------------
(***************************************************************************)
(* kernel/paging.c and the part of kernel/mm.c that boot uses.  The page   *)
(* directory and the page tables are pages of the early heap; pages of     *)
(* memory and of the address space are numbered, and a page that holds a   *)
(* table is a function from its ENTRIES slots to what is in them.  Only    *)
(* the BSP maps pages and it does so before the APs run, so the spinlock   *)
(* around map_kern_page is left out.                                       *)
(***************************************************************************)
EXTENDS EarlyHeap

CONSTANTS
    ENTRIES,        \* slots of a page directory and of a page table: 1024
    KERN_PAGE,      \* KERN_VIRTUAL_ADDR as a page number
    BITS            \* 8: pages in a byte of phys_mem_tbl

\* The higher half is above the identity mapping and in the address space.
ASSUME PagingAssumption ==
    /\ ENTRIES \in Nat /\ ENTRIES > 1 /\ BITS \in Nat \ {0} /\ KERN_PAGE \in Nat
    /\ ENTRIES \div 2 <= KERN_PAGE
    /\ KERN_PAGE + (3 * ENTRIES) \div 2 <= ENTRIES * ENTRIES

VARIABLES
    kernel_dir,     \* the address of the page directory
    mem,            \* the pages written as a directory or a table, by their address
    phys_mem_tbl    \* the pages of memory marked as used

pagingVars == <<kernel_dir, mem, phys_mem_tbl>>

Absent == <<>>                                \* an entry that is 0
NoDir == -1
PageDir == <<"page_dir">>
Empty == [slot \in 0 .. ENTRIES - 1 |-> Absent]
IdentityPages == ENTRIES \div 2               \* MB(2)
HigherPages == (3 * ENTRIES) \div 2           \* MB(6)

PagingInit == kernel_dir = NoDir /\ mem = [a \in {} |-> Empty] /\ phys_mem_tbl = {}

-----------------------------------------------------------------------------
\* PAGE_DIRECTORY_INDEX, PAGE_TABLE_INDEX
pdindex(vpage) == vpage \div ENTRIES
ptindex(vpage) == vpage % ENTRIES

\* The early heap, from bottom up, gives the bitmap its bytes; a last byte that
\* would not be full is left out.
init_mem_manager(phys_page_num) ==
    /\ TakeBytes(Bitmap, phys_page_num \div BITS)
    /\ UNCHANGED pagingVars

\* memset of a page: a directory or a table without entries.
Cleared(m, addr) == [a \in DOMAIN m \cup {addr} |-> IF a = addr THEN Empty ELSE m[a]]

\* The first statements of init_kern_paging.
alloc_kernel_dir ==
    /\ kernel_dir' = ALIGN_UP(early_heap_ptr)
    /\ early_kmalloc_pages(PageDir, 1)
    /\ mem' = Cleared(mem, kernel_dir')
    /\ UNCHANGED phys_mem_tbl

set_page_dir_entry(m, vpage, tbl) ==
    [m EXCEPT ![kernel_dir][pdindex(vpage)] = <<tbl, {"READWRITE"}>>]

\* The table is found through the directory, as the processor will find it.
set_page_tbl_entry(m, vpage, page, flags) ==
    [m EXCEPT ![m[kernel_dir][pdindex(vpage)][1]][ptindex(vpage)] = <<page, flags>>]

\* Faulty form: a new page table whether there is one or not.
map_kern_page_flags_Fresh(vpage, page, flags) ==
    LET tbl == ALIGN_UP(early_heap_ptr)
        fresh == set_page_dir_entry(Cleared(mem, tbl), vpage, tbl)
    IN  /\ early_kmalloc_pages(<<"page_tbl", pdindex(vpage), vpage>>, 1)
        /\ mem' = set_page_tbl_entry(fresh, vpage, page, flags)
        /\ UNCHANGED kernel_dir

map_kern_page_flags(vpage, page, flags) ==
    LET tbl == ALIGN_UP(early_heap_ptr)
        fresh == set_page_dir_entry(Cleared(mem, tbl), vpage, tbl)
    IN  /\ \/ /\ mem[kernel_dir][pdindex(vpage)] = Absent
              /\ early_kmalloc_pages(<<"page_tbl", pdindex(vpage)>>, 1)
              /\ mem' = set_page_tbl_entry(fresh, vpage, page, flags)
           \/ /\ mem[kernel_dir][pdindex(vpage)] # Absent
              /\ mem' = set_page_tbl_entry(mem, vpage, page, flags)
              /\ UNCHANGED heapVars
        /\ UNCHANGED kernel_dir

map_kern_page(vpage, page) ==
    /\ map_kern_page_flags(vpage, page, {"READWRITE"})
    /\ UNCHANGED phys_mem_tbl

\* mem_alloc_region as init_acpi calls it: one page, MEM_IDENTITYREGION and
\* MEM_ALREADYEXISTS, with which the bitmap is not asked.
mem_alloc_region(page) ==
    /\ map_kern_page_flags(page, page, {})
    /\ phys_mem_tbl' = phys_mem_tbl \cup {page}     \* mem_set_tbl

\* byte_index_set_tbl does not look at the size of the bitmap: the bit of a page above
\* memory may be in something else that the early heap has given away.
Strays(page) ==
    \E g \in grants' : g.use # Bitmap /\ page \div BITS \in g.from .. g.to - 1

\* What the processor, or get_tbl_entry, finds for a virtual page.
Walk(vpage) ==
    IF kernel_dir = NoDir \/ mem[kernel_dir][pdindex(vpage)] = Absent THEN Absent
    ELSE mem[mem[kernel_dir][pdindex(vpage)][1]][ptindex(vpage)]

PagesAt(vpage) == IF Walk(vpage) = Absent THEN {} ELSE {Walk(vpage)[1]}
=============================================================================
