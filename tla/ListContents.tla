---------------------------- MODULE ListContents ----------------------------
(***************************************************************************)
(* What include/linked_list.h promises of the operations the kernel uses:  *)
(* the list is a sequence of data.                                         *)
(***************************************************************************)
EXTENDS Naturals, Sequences

CONSTANT Data

VARIABLE list

Init == list = << >>

\* "Puts data at the back of the list"
Enqueue(d) == list' = Append(list, d)

\* "Takes data from the front of the list(index 0)"; "Remove data from index"
RemoveIndex(k) ==
    /\ k < Len(list)
    /\ list' = SubSeq(list, 1, k) \o SubSeq(list, k + 2, Len(list))

\* "put the node at the front(index 0) to the back(index size - 1)"
Cycle == list # << >> /\ list' = Append(Tail(list), Head(list))

Next ==
    \/ \E d \in Data : Enqueue(d)
    \/ \E k \in 0 .. Len(list) : RemoveIndex(k)
    \/ Cycle

Spec == Init /\ [][Next]_list
=============================================================================
