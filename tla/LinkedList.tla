----------------------------- MODULE LinkedList -----------------------------
(***************************************************************************)
(* The doubly linked list of klib/linked_list.c, whose nodes come from a   *)
(* shared pool.  It has no locking of its own: its caller holds            *)
(* sched_lock, so a call is one step, and the pool, used by one caller at  *)
(* a time, hands out a free node as long as there is one and always takes  *)
(* it back.                                                                *)
(***************************************************************************)
EXTENDS Integers, Sequences, FiniteSets

CONSTANTS
    Node,   \* the nodes of node_pool, NODE_POOL_SIZE of them
    Data,   \* what callers put in the list
    Nil     \* NULL

ASSUME NodeAssumption == IsFiniteSet(Node) /\ Nil \notin Node

VARIABLES
    start_ptr, end_ptr, size,        \* linked_list_t
    next_ptr, prev_ptr, data,        \* linked_list_node_t, by node
    taken,                           \* the nodes taken from node_pool
    list_status,                     \* "ok"; "panic": a failed ASSERT;
                                     \*   "undefined": a NULL node was dereferenced
    pushed                           \* auxiliary: data of the last call if it was a push

links == <<next_ptr, prev_ptr, data>>
listVars == <<start_ptr, end_ptr, size, links, taken, list_status, pushed>>

\* linked_list_stat_init
ListInit ==
    /\ start_ptr = Nil /\ end_ptr = Nil /\ size = 0
    /\ next_ptr = [n \in Node |-> Nil]
    /\ prev_ptr = [n \in Node |-> Nil]
    /\ data = [n \in Node |-> Nil]
    /\ taken = {}
    /\ list_status = "ok"
    /\ pushed = Nil

\* A loop that follows nxt from the node first: the node after k steps, or NULL.
Follow(first, nxt, k) ==
    LET after[n \in Nat] == IF n = 0 THEN first
                            ELSE IF after[n - 1] = Nil THEN Nil
                            ELSE nxt[after[n - 1]]
    IN  after[k]

\* The loops of linked_list_get, _add and _remove, from start_ptr.
NodeAt(k) == Follow(start_ptr, next_ptr, k)

\* How many nodes such a loop meets.  A list with more than the pool has no end.
Length == CHOOSE k \in 0 .. Cardinality(Node) :
              NodeAt(k) = Nil /\ \A m \in 0 .. k - 1 : NodeAt(m) # Nil

-----------------------------------------------------------------------------
\* linked_list_add: where the new node goes.  The search passes index + 1 nodes, or all.
\* The three cases are the first node of the list, the last, and one before temp_node,
\* where temp_node->prev_ptr->next_ptr keeps its value.
LinkFirst(node) ==
    /\ start_ptr = Nil
    /\ start_ptr' = node /\ end_ptr' = node
    /\ next_ptr' = [next_ptr EXCEPT ![node] = Nil]
    /\ prev_ptr' = [prev_ptr EXCEPT ![node] = Nil]

LinkLast(node) ==
    /\ end_ptr' = node
    /\ next_ptr' = [next_ptr EXCEPT ![end_ptr] = node, ![node] = Nil]
    /\ prev_ptr' = [prev_ptr EXCEPT ![node] = end_ptr]
    /\ UNCHANGED start_ptr

LinkBefore(node, temp_node) ==
    /\ start_ptr' = IF prev_ptr[temp_node] = Nil THEN node ELSE start_ptr
    /\ next_ptr' = [next_ptr EXCEPT ![node] = temp_node]
    /\ prev_ptr' = [prev_ptr EXCEPT ![node] = prev_ptr[temp_node], ![temp_node] = node]
    /\ UNCHANGED end_ptr

Add(d, index) ==
    /\ list_status = "ok"
    /\ \E node \in Node \ taken :
          /\ taken' = taken \cup {node}
          /\ data' = [data EXCEPT ![node] = d]
          /\ \/ LinkFirst(node)
             \/ start_ptr # Nil /\ index + 1 >= Length /\ LinkLast(node)
             \/ /\ start_ptr # Nil /\ index + 1 < Length
                /\ LinkBefore(node, NodeAt(index + 1))
    /\ size' = size + 1
    /\ UNCHANGED list_status

\* The ASSERT on the node that the pool returned.
AddPanic ==
    /\ list_status = "ok" /\ taken = Node
    /\ list_status' = "panic"
    /\ UNCHANGED <<start_ptr, end_ptr, size, links, taken, pushed>>

Enqueue(d) == Add(d, size) /\ pushed' = Nil
Push(d) == Add(d, 0) /\ pushed' = d
AddAt(d, index) == Add(d, index) /\ pushed' = Nil

\* Faulty form: the last node's predecessor does not become end_ptr.
Unlink_OldEnd(node) ==
    LET prev_node == prev_ptr[node]
        next_node == next_ptr[node]
    IN  /\ start_ptr' = IF prev_node = Nil THEN next_node ELSE start_ptr
        /\ end_ptr' = IF next_node = Nil /\ prev_node = Nil THEN Nil ELSE end_ptr
        /\ next_ptr' = [n \in Node |-> IF n = prev_node THEN next_node ELSE next_ptr[n]]
        /\ prev_ptr' = [n \in Node |-> IF n = next_node THEN prev_node ELSE prev_ptr[n]]

\* linked_list_remove once the node is found
Unlink(node) ==
    LET prev_node == prev_ptr[node]
        next_node == next_ptr[node]
    IN  /\ start_ptr' = IF prev_node = Nil THEN next_node ELSE start_ptr
        /\ end_ptr' = IF next_node = Nil THEN prev_node ELSE end_ptr
        /\ next_ptr' = [n \in Node |-> IF n = prev_node THEN next_node ELSE next_ptr[n]]
        /\ prev_ptr' = [n \in Node |-> IF n = next_node THEN prev_node ELSE prev_ptr[n]]

\* An index beyond the length returns -1 and changes nothing.
Remove(index) ==
    /\ list_status = "ok" /\ index < Length
    /\ Unlink(NodeAt(index))
    /\ taken' = taken \ {NodeAt(index)}
    /\ size' = size - 1
    /\ pushed' = Nil
    /\ UNCHANGED <<data, list_status>>

\* linked_list_remove with an index equal to the length goes on with a NULL node.
RemoveNull(index) ==
    /\ list_status = "ok" /\ index = Length
    /\ list_status' = "undefined"
    /\ UNCHANGED <<start_ptr, end_ptr, size, links, taken, pushed>>

\* linked_list_pop; an empty list returns NULL and changes nothing.
Pop == start_ptr # Nil /\ Remove(0)

\* linked_list_dequeue does not look at what linked_list_get returned.
Dequeue == Remove(0) \/ RemoveNull(0)

\* Faulty form: the last node becomes the first.
Cycle_Backwards ==
    LET first_node == start_ptr
        last_node == end_ptr
    IN  /\ list_status = "ok" /\ first_node # last_node
        /\ start_ptr' = last_node
        /\ end_ptr' = prev_ptr[last_node]
        /\ next_ptr' = [next_ptr EXCEPT ![last_node] = first_node,
                                        ![prev_ptr[last_node]] = Nil]
        /\ prev_ptr' = [prev_ptr EXCEPT ![first_node] = last_node, ![last_node] = Nil]
        /\ pushed' = Nil
        /\ UNCHANGED <<size, data, taken, list_status>>

\* linked_list_cycle; with one node or none it changes nothing.
Cycle ==
    LET first_node == start_ptr
        last_node == end_ptr
    IN  /\ list_status = "ok" /\ first_node # last_node
        /\ start_ptr' = next_ptr[first_node]
        /\ end_ptr' = first_node
        /\ next_ptr' = [next_ptr EXCEPT ![first_node] = Nil, ![last_node] = first_node]
        /\ prev_ptr' = [prev_ptr EXCEPT ![first_node] = last_node,
                                        ![next_ptr[first_node]] = Nil]
        /\ pushed' = Nil
        /\ UNCHANGED <<size, data, taken, list_status>>

-----------------------------------------------------------------------------
\* The calls that add at the back and remove what is there; the scheduler makes
\* Enqueue and Pop.
ListNext ==
    \/ \E d \in Data : Enqueue(d)
    \/ AddPanic
    \/ Pop
    \/ \E index \in 0 .. Cardinality(Node) : Remove(index)
    \/ Cycle

ListSpec == ListInit /\ [][ListNext]_listVars

\* Every call with every argument.
AnyListNext ==
    \/ ListNext
    \/ \E d \in Data : Push(d) \/ \E index \in 0 .. Cardinality(Node) : AddAt(d, index)
    \/ \E index \in 0 .. Cardinality(Node) : RemoveNull(index)
    \/ Dequeue

AnyListSpec == ListInit /\ [][AnyListNext]_listVars

-----------------------------------------------------------------------------
\* Types of the variables.
ListTypeOK ==
    /\ start_ptr \in Node \cup {Nil} /\ end_ptr \in Node \cup {Nil}
    /\ size \in 0 .. Cardinality(Node)
    /\ next_ptr \in [Node -> Node \cup {Nil}] /\ prev_ptr \in [Node -> Node \cup {Nil}]
    /\ data \in [Node -> Data \cup {Nil}]
    /\ taken \subseteq Node
    /\ list_status \in {"ok", "panic", "undefined"}

\* The list can be walked from both ends and the walks agree: size nodes from start_ptr
\* to end_ptr, each one's prev_ptr the node before it, and exactly these nodes are taken
\* from the pool, so that no call leaks a node or frees one in use.
WellLinked ==
    LET n == Cardinality(taken)
    IN  /\ size = n
        /\ {NodeAt(k) : k \in 0 .. n - 1} = taken
        /\ NodeAt(n) = Nil
        /\ end_ptr = IF n = 0 THEN Nil ELSE NodeAt(n - 1)
        /\ \A k \in 0 .. n - 1 :
              prev_ptr[NodeAt(k)] = IF k = 0 THEN Nil ELSE NodeAt(k - 1)

contents == [k \in 1 .. Length |-> data[NodeAt(k - 1)]]

LC == INSTANCE ListContents WITH list <- contents

\* The list is the sequence that linked_list.h describes: data leave it in the order of
\* linked_list_enqueue, however removals and rotations rearrange the nodes of the pool.
ImplementsSequence == LC!Spec

\* linked_list.h of linked_list_push: "Takes data and puts it at the front of the
\* list(index 0)".
PushedAtFront == pushed # Nil => data[start_ptr] = pushed
=============================================================================
