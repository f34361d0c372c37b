----------------------------- MODULE SharedPool -----------------------------
(***************************************************************************)
(* The lock-free object pool of klib/shared_pool.c, from which             *)
(* thread_create_thread takes its tib_t.  One bit per object says whether  *)
(* it is taken; a bit is changed by a compare-and-exchange of the 32-bit   *)
(* word it is in.                                                          *)
(*                                                                         *)
(* free_list is the set of the indices whose bit is set; what the code     *)
(* reads and compares is one word of it.  A step has one access to         *)
(* free_list, or none.                                                     *)
(***************************************************************************)
EXTENDS Naturals, FiniteSets

CONSTANTS
    Client,           \* the threads of execution that use the pool
    FREE_ENTRY_SIZE,  \* bits in a word, 32
    max_obj_num       \* objects in the pool

ASSUME SizeAssumption == FREE_ENTRY_SIZE \in Nat \ {0} /\ max_obj_num \in Nat

free_list_size == (max_obj_num \div FREE_ENTRY_SIZE) + 1

\* The indices whose bits are in word i, and those of the whole list: more than there
\* are objects.
Word(i) == {i * FREE_ENTRY_SIZE + b : b \in 0 .. FREE_ENTRY_SIZE - 1}
Bits == UNION {Word(i) : i \in 0 .. free_list_size - 1}
Objects == 0 .. max_obj_num - 1

VARIABLES
    free_list,   \* the indices whose bit is set
    held,        \* held[c]: the objects that client c got and did not give back
    pc,          \* where each client is
    i, j,        \* the locals of set_next_index: word, bit,
    found,       \*   entries counted as taken,
    free_mask,   \*   the word as last read, as a set of indices
    index,       \* the argument of shared_pool_free_index
    lost,        \* auxiliary: compare-and-exchanges this call has lost
    free_since   \* auxiliary: the objects that were free all through this call

scanVars == <<i, j, found, free_mask>>
poolVars == <<free_list, held, pc, scanVars, index, lost, free_since>>

\* The bit that a scan is at.
Position(c) == i[c] * FREE_ENTRY_SIZE + j[c]

\* shared_pool_init
PoolInit ==
    /\ free_list = {}
    /\ held = [c \in Client |-> {}]
    /\ pc = [c \in Client |-> "idle"]
    /\ i = [c \in Client |-> 0]
    /\ j = [c \in Client |-> 0]
    /\ found = [c \in Client |-> 0]
    /\ free_mask = [c \in Client |-> {}]
    /\ index = [c \in Client |-> 0]
    /\ lost = [c \in Client |-> 0]
    /\ free_since = [c \in Client |-> {}]

Goto(c, l) == pc' = [pc EXCEPT ![c] = l]

-----------------------------------------------------------------------------
(***************************************************************************)
(* shared_pool_get_next and set_next_index                                 *)
(***************************************************************************)
GetNext(c) ==
    /\ pc[c] = "idle"
    /\ i' = [i EXCEPT ![c] = 0]
    /\ found' = [found EXCEPT ![c] = 0]
    /\ lost' = [lost EXCEPT ![c] = 0]
    /\ free_since' = [free_since EXCEPT ![c] = Objects \ free_list]
    /\ Goto(c, "load")
    /\ UNCHANGED <<free_list, held, j, free_mask, index>>

\* Faulty form: the entries of a full word are not counted.
LoadWord_NoCount(c) ==
    LET mask == free_list \cap Word(i[c])
    IN  /\ pc[c] = "load" /\ i[c] < free_list_size
        /\ free_mask' = [free_mask EXCEPT ![c] = mask]
        /\ IF mask = Word(i[c])
           THEN i' = [i EXCEPT ![c] = @ + 1] /\ UNCHANGED <<j, pc>>
           ELSE j' = [j EXCEPT ![c] = 0] /\ Goto(c, "try") /\ UNCHANGED i
        /\ UNCHANGED <<free_list, held, found, index, lost, free_since>>

\* Faulty form: a word with any bit set counts as full.
LoadWord_AnySet(c) ==
    LET mask == free_list \cap Word(i[c])
    IN  /\ pc[c] = "load" /\ i[c] < free_list_size
        /\ free_mask' = [free_mask EXCEPT ![c] = mask]
        /\ IF mask # {}
           THEN /\ found' = [found EXCEPT ![c] = @ + FREE_ENTRY_SIZE]
                /\ i' = [i EXCEPT ![c] = @ + 1]
                /\ UNCHANGED <<j, pc>>
           ELSE j' = [j EXCEPT ![c] = 0] /\ Goto(c, "try") /\ UNCHANGED <<i, found>>
        /\ UNCHANGED <<free_list, held, index, lost, free_since>>

\* The head of the outer loop: reads word i, and passes over it if it is full.
LoadWord(c) ==
    LET mask == free_list \cap Word(i[c])
    IN  /\ pc[c] = "load" /\ i[c] < free_list_size
        /\ free_mask' = [free_mask EXCEPT ![c] = mask]
        /\ IF mask = Word(i[c])
           THEN /\ found' = [found EXCEPT ![c] = @ + FREE_ENTRY_SIZE]
                /\ i' = [i EXCEPT ![c] = @ + 1]
                /\ UNCHANGED <<j, pc>>
           ELSE j' = [j EXCEPT ![c] = 0] /\ Goto(c, "try") /\ UNCHANGED <<i, found>>
        /\ UNCHANGED <<free_list, held, index, lost, free_since>>

\* The end of the inner loop.
NextWord(c) ==
    /\ pc[c] = "try" /\ j[c] = FREE_ENTRY_SIZE
    /\ i' = [i EXCEPT ![c] = @ + 1]
    /\ Goto(c, "load")
    /\ UNCHANGED <<free_list, held, j, found, free_mask, index, lost, free_since>>

\* MAX_INT, for which shared_pool_get_next returns NULL: the end of the list, or as
\* many entries counted as there are objects.
GetNull(c) ==
    /\ \/ pc[c] = "load" /\ i[c] = free_list_size
       \/ pc[c] = "try" /\ j[c] < FREE_ENTRY_SIZE /\ found[c] >= max_obj_num
    /\ Goto(c, "idle")
    /\ UNCHANGED <<free_list, held, scanVars, index, lost, free_since>>

Trying(c) == pc[c] = "try" /\ j[c] < FREE_ENTRY_SIZE /\ found[c] < max_obj_num

SkipTaken(c) ==
    /\ Trying(c)
    /\ Position(c) \in free_mask[c]
    /\ found' = [found EXCEPT ![c] = @ + 1]
    /\ j' = [j EXCEPT ![c] = @ + 1]
    /\ UNCHANGED <<free_list, held, pc, i, free_mask, index, lost, free_since>>

\* Faulty form: an or instead of a compare-and-exchange.
Take_NoCompare(c) ==
    /\ Trying(c)
    /\ Position(c) \notin free_mask[c]
    /\ free_list' = free_list \cup {Position(c)}
    /\ held' = [held EXCEPT ![c] = @ \cup {Position(c)}]
    /\ free_since' = [d \in Client |-> free_since[d] \ {Position(c)}]
    /\ Goto(c, IF Position(c) < max_obj_num THEN "idle" ELSE "panic")
    /\ UNCHANGED <<scanVars, index, lost>>

\* The compare-and-exchange succeeds.  The ASSERT of shared_pool_get_next stops a
\* client whose index is not that of an object.
Take(c) ==
    /\ Trying(c)
    /\ Position(c) \notin free_mask[c]
    /\ free_list \cap Word(i[c]) = free_mask[c]
    /\ free_list' = free_list \cup {Position(c)}
    /\ held' = [held EXCEPT ![c] = @ \cup {Position(c)}]
    /\ free_since' = [d \in Client |-> free_since[d] \ {Position(c)}]
    /\ Goto(c, IF Position(c) < max_obj_num THEN "idle" ELSE "panic")
    /\ UNCHANGED <<scanVars, index, lost>>

\* The compare-and-exchange fails and leaves the current word in free_mask.  The scan
\* moves on to the next bit, and found stays behind.
LoseRace(c) ==
    /\ Trying(c)
    /\ Position(c) \notin free_mask[c]
    /\ free_list \cap Word(i[c]) # free_mask[c]
    /\ free_mask' = [free_mask EXCEPT ![c] = free_list \cap Word(i[c])]
    /\ j' = [j EXCEPT ![c] = @ + 1]
    /\ lost' = [lost EXCEPT ![c] = @ + 1]
    /\ UNCHANGED <<free_list, held, pc, i, found, index, free_since>>

-----------------------------------------------------------------------------
(***************************************************************************)
(* shared_pool_free_index and shared_pool_free_entry, called by a client   *)
(* for an object it holds                                                  *)
(***************************************************************************)
WordOf(x) == Word(x \div FREE_ENTRY_SIZE)

FreeRead(c, x) ==
    /\ pc[c] = "idle"
    /\ index' = [index EXCEPT ![c] = x]
    /\ free_mask' = [free_mask EXCEPT ![c] = free_list \cap WordOf(x)]
    /\ Goto(c, "free")
    /\ UNCHANGED <<free_list, held, i, j, found, lost, free_since>>

FreeDone(c) ==
    /\ pc[c] = "free"
    /\ free_list \cap WordOf(index[c]) = free_mask[c]
    /\ free_list' = free_list \ {index[c]}
    /\ held' = [held EXCEPT ![c] = @ \ {index[c]}]
    /\ Goto(c, "idle")
    /\ UNCHANGED <<scanVars, index, lost, free_since>>

\* A lost race: false is returned, the object is still taken and the client still has it.
FreeFail(c) ==
    /\ pc[c] = "free"
    /\ free_list \cap WordOf(index[c]) # free_mask[c]
    /\ Goto(c, "idle")
    /\ UNCHANGED <<free_list, held, scanVars, index, lost, free_since>>

Step(c) ==
    \/ GetNext(c) \/ LoadWord(c) \/ NextWord(c) \/ GetNull(c)
    \/ SkipTaken(c) \/ Take(c) \/ LoseRace(c)
    \/ \E x \in held[c] : FreeRead(c, x)
    \/ FreeDone(c) \/ FreeFail(c)

PoolNext == \E c \in Client : Step(c)

PoolSpec == PoolInit /\ [][PoolNext]_poolVars

-----------------------------------------------------------------------------
\* Types of the variables; the scan stays in the list.
PoolTypeOK ==
    /\ free_list \subseteq Bits
    /\ held \in [Client -> SUBSET Bits]
    /\ pc \in [Client -> {"idle", "load", "try", "free", "panic"}]
    /\ i \in [Client -> 0 .. free_list_size]
    /\ j \in [Client -> 0 .. FREE_ENTRY_SIZE]
    /\ found \in [Client -> Nat]
    /\ free_mask \in [Client -> SUBSET Bits]
    /\ index \in [Client -> Nat]
    /\ lost \in [Client -> Nat]
    /\ free_since \in [Client -> SUBSET Objects]

\* No object is handed out twice, and none leaks: a bit is set exactly while one client,
\* and only one, holds its object, however reads and compare-and-exchanges interleave.
ExclusiveOwnership ==
    /\ \A c, d \in Client : held[c] \cap held[d] # {} => c = d
    /\ free_list = UNION {held[c] : c \in Client}

\* The ASSERT of shared_pool_get_next: "next_index < pool->max_obj_num".
IndexInRange == \A c \in Client : pc[c] # "panic"

\* That ASSERT fails only in a call whose compare-and-exchange lost a race: without
\* contention set_next_index counts every bit it passes.
OverrunOnlyAfterLostRace == \A c \in Client : pc[c] = "panic" => lost[c] > 0

\* A call that loses no race and returns NULL had no object to return: not one was free
\* from the call to the return, whatever other clients took and freed meanwhile.
NullOnlyWhenTaken ==
    [][\A c \in Client : GetNull(c) /\ lost[c] = 0 => free_since[c] = {}]_poolVars
=============================================================================
