---------------------------- MODULE BoundedQueue ----------------------------
(***************************************************************************)
(* What klib/circ_buf.c promises: a queue of at most Size entries, first   *)
(* in, first out.  answer is what the last call returned.                  *)
(***************************************************************************)
EXTENDS Sequences, Integers

CONSTANTS Size, Values

VARIABLES queue, answer

Init == queue = <<>> /\ answer = <<"none">>

Push(v) ==
    \/ /\ Len(queue) < Size
       /\ queue' = Append(queue, v)
       /\ answer' = <<"success">>
    \/ /\ Len(queue) = Size
       /\ answer' = <<"failure">>
       /\ UNCHANGED queue

Pop ==
    \/ /\ queue # <<>>
       /\ answer' = <<"success", Head(queue)>>
       /\ queue' = Tail(queue)
    \/ /\ queue = <<>>
       /\ answer' = <<"failure">>
       /\ UNCHANGED queue

Clear == queue' = <<>> /\ answer' = <<"none">>

Next == (\E v \in Values : Push(v)) \/ Pop \/ Clear

Spec == Init /\ [][Next]_<<queue, answer>>
=============================================================================
