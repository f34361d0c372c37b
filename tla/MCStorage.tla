----------------------------- MODULE MCStorage -----------------------------
(***************************************************************************)
(* The allocators and containers of the kernel side by side: part says     *)
(* which of them is used, and the others keep their initial state.         *)
(*                                                                         *)
(* A heap of at most two expansions, in words, with a free_node_list of    *)
(* three slots, which two free blocks fill; a table of three bytes of      *)
(* three bits: a byte can be empty, partly used and full on either side of *)
(* free_ptr.                                                               *)
(***************************************************************************)
EXTENDS Kheap, ByteIndexList, SharedPool, LinkedList

VARIABLE part

storageVars == <<part, vars, tableVars, poolVars, listVars>>

StorageInit ==
    /\ part \in {"heap", "table", "pool", "list"}
    /\ Init
    /\ init_byte_index_list
    /\ PoolInit
    /\ ListInit

StorageNext ==
    \/ part = "heap" /\ Next /\ UNCHANGED <<part, tableVars, poolVars, listVars>>
    \/ part = "table" /\ TableNext /\ UNCHANGED <<part, vars, poolVars, listVars>>
    \/ part = "pool" /\ PoolNext /\ UNCHANGED <<part, vars, tableVars, listVars>>
    \/ part = "list" /\ ListNext /\ UNCHANGED <<part, vars, tableVars, poolVars>>

StorageSpec == StorageInit /\ [][StorageNext]_storageVars

-----------------------------------------------------------------------------
\* The type invariant of the four: what their variables range over.
StorageTypeOK == TypeOK /\ TableTypeOK /\ PoolTypeOK /\ ListTypeOK
=============================================================================
