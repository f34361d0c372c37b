---------------------------- MODULE ByteIndexList ----------------------------
(***************************************************************************)
(* The bitmap allocator of klib/byte_index_list.c: a table of size bytes,  *)
(* a bit for each slot, and free_ptr, the byte where the search for a      *)
(* clear bit begins.  kernel/mm.c keeps the physical pages in one, and the *)
(* page heap of kernel/kheap.c its pages in another; kmalloc_page,         *)
(* kfree_page and mem_alloc_region hold the list's lock, and the other     *)
(* callers run before there is a second processor, so a call is one step.  *)
(***************************************************************************)
EXTENDS Integers

CONSTANTS
    table_size, \* size, the bytes of the table
    BYTE,       \* bits of a byte: 8
    RegionMax   \* bound: the pages of a region given to mem_alloc_region

ASSUME TableAssumption == table_size \in Nat \ {0} /\ BYTE \in Nat \ {0} /\ RegionMax \in Nat

VARIABLES
    array,          \* the slots whose bit is set, in the table and in the memory after it
    free_ptr,       \* as a byte of the table
    table_status,   \* "ok", or "panic": "WE COULDNT FIND ANY MORE FREE SPACE"
    holders         \* auxiliary: how many callers got a slot and did not release it

tableVars == <<array, free_ptr, table_status, holders>>

Byte(b) == b * BYTE .. (b + 1) * BYTE - 1
Bytes == 0 .. table_size - 1
Slots == 0 .. table_size * BYTE - 1

\* On memory that is zero.
init_byte_index_list ==
    /\ array = {}
    /\ free_ptr = 0
    /\ table_status = "ok"
    /\ holders = [s \in Slots |-> 0]

-----------------------------------------------------------------------------
\* The byte is 0xFF.
Taken(b) == Byte(b) \subseteq array

\* Where update_free_ptr stops: the first byte from free_ptr on with a clear bit.
FirstFree(b) ==
    /\ b \in free_ptr .. table_size - 1
    /\ ~Taken(b)
    /\ \A k \in free_ptr .. b - 1 : Taken(k)

\* Faulty form: free_ptr moves past the byte that the slot is in.
get_free_slot_Past ==
    /\ table_status = "ok"
    /\ \E b \in Bytes, slot \in Slots :
          /\ FirstFree(b)
          /\ slot \in Byte(b) \ array
          /\ \A s \in Byte(b) \ array : slot <= s
          /\ free_ptr' = b + 1
          /\ array' = array \cup {slot}
          /\ holders' = [holders EXCEPT ![slot] = @ + 1]
    /\ UNCHANGED table_status

\* Faulty form: the lowest bit of the byte is returned, set or not.
get_free_slot_AnyBit ==
    /\ table_status = "ok"
    /\ \E b \in Bytes :
          /\ FirstFree(b)
          /\ free_ptr' = b
          /\ array' = array \cup {b * BYTE}
          /\ holders' = [holders EXCEPT ![b * BYTE] = @ + 1]
    /\ UNCHANGED table_status

\* byte_index_get_free_slot: the lowest clear bit of that byte
get_free_slot ==
    /\ table_status = "ok"
    /\ \E b \in Bytes, slot \in Slots :
          /\ FirstFree(b)
          /\ slot \in Byte(b) \ array
          /\ \A s \in Byte(b) \ array : slot <= s
          /\ free_ptr' = b
          /\ array' = array \cup {slot}
          /\ holders' = [holders EXCEPT ![slot] = @ + 1]
    /\ UNCHANGED table_status

\* update_free_ptr runs off the table.
get_free_slot_panic ==
    /\ table_status = "ok"
    /\ \A b \in free_ptr .. table_size - 1 : Taken(b)
    /\ table_status' = "panic"
    /\ free_ptr' = table_size
    /\ UNCHANGED <<array, holders>>

\* Faulty form: free_ptr does not come back.
release_tbl_KeepPtr(bit) ==
    /\ table_status = "ok"
    /\ array' = array \ {bit}
    /\ holders' = [holders EXCEPT ![bit] = @ - 1]
    /\ UNCHANGED <<free_ptr, table_status>>

release_tbl(bit) ==
    /\ table_status = "ok"
    /\ free_ptr' = IF free_ptr > bit \div BYTE THEN bit \div BYTE ELSE free_ptr
    /\ array' = array \ {bit}
    /\ holders' = [holders EXCEPT ![bit] = @ - 1]
    /\ UNCHANGED table_status

\* Faulty form: the bits of the region are toggled, not set.
mem_alloc_region_Toggle(bit, n, exists) ==
    LET region == bit .. bit + n - 1
    IN  /\ table_status = "ok"
        /\ exists \/ bit \notin array
        /\ array' = (array \ region) \cup (region \ array)
        /\ UNCHANGED <<free_ptr, table_status, holders>>

\* mem_alloc_region: n pages from index on are marked, if the first is not; with
\* MEM_ALREADYEXISTS in any case.  Nothing keeps the region within the table: further
\* bits are in the memory after it.
mem_alloc_region(bit, n, exists) ==
    /\ table_status = "ok"
    /\ exists \/ bit \notin array
    /\ array' = array \cup (bit .. bit + n - 1)
    /\ UNCHANGED <<free_ptr, table_status, holders>>

\* The slots in use: a caller releases what it holds.
granted == {s \in Slots : holders[s] > 0}

TableNext ==
    \/ get_free_slot
    \/ get_free_slot_panic
    \/ \E bit \in granted : release_tbl(bit)
    \/ \E bit \in Slots, n \in 0 .. RegionMax, exists \in BOOLEAN :
          mem_alloc_region(bit, n, exists)

TableSpec == init_byte_index_list /\ [][TableNext]_tableVars

-----------------------------------------------------------------------------
\* Types of the variables.
TableTypeOK ==
    /\ array \subseteq 0 .. table_size * BYTE + RegionMax
    /\ free_ptr \in 0 .. table_size
    /\ table_status \in {"ok", "panic"}
    /\ table_status = "ok" => free_ptr \in Bytes
    /\ holders \in [Slots -> Nat]

\* free_ptr may lag behind the first free byte and never overtakes it, whatever order
\* slots are released in: the search never has to go back.
NothingFreeBelow == \A b \in 0 .. free_ptr - 1 : Taken(b)

\* The PANIC of update_free_ptr means that every slot is in use.
PanicOnlyWhenFull == table_status = "panic" => Slots \subseteq array

\* A slot that a caller holds stays marked, so that it is nobody else's: no release and
\* no region clears it.
HeldIsMarked == granted \subseteq array

\* byte_index_get_free_slot never gives a slot to a second caller while a first one has
\* it, however takes, releases and regions follow each other.
OneHolder == \A s \in Slots : holders[s] <= 1
=============================================================================
