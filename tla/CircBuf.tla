------------------------------- MODULE CircBuf -------------------------------
(***************************************************************************)
(* klib/circ_buf.c: a queue in an array, from curr_index on, around the    *)
(* end.  The slots of buf are pointers wide whatever type_size is (void    *)
(* **buf); the model is about entries of that width, as the tests use it.  *)
(* The caller holds the buffer's lock, which the functions do not take.    *)
(***************************************************************************)
EXTENDS Sequences, Integers

CONSTANTS size, Entries

ASSUME CircBufAssumption == size \in Nat \ {0} /\ Entries # {}

VARIABLES
    buf, curr_index, curr_size,
    returned        \* what the last call returned

circVars == <<buf, curr_index, curr_size, returned>>

\* init_circ_buf, and what kmalloc finds in the memory it gives
init_circ_buf ==
    /\ buf \in [0 .. size - 1 -> Entries]
    /\ curr_index = 0
    /\ curr_size = 0
    /\ returned = <<"none">>

-----------------------------------------------------------------------------
\* Faulty form: the end is where curr_size says, not behind curr_index.
push_circ_buf_FromZero(v) ==
    \/ /\ curr_size < size
       /\ buf' = [buf EXCEPT ![curr_size % size] = v]
       /\ curr_size' = curr_size + 1
       /\ returned' = <<"success">>
       /\ UNCHANGED curr_index
    \/ /\ curr_size = size
       /\ returned' = <<"failure">>
       /\ UNCHANGED <<buf, curr_index, curr_size>>

push_circ_buf(v) ==
    \/ /\ curr_size # size
       /\ buf' = [buf EXCEPT ![(curr_index + curr_size) % size] = v]
       /\ curr_size' = curr_size + 1
       /\ returned' = <<"success">>
       /\ UNCHANGED curr_index
    \/ /\ curr_size = size
       /\ returned' = <<"failure">>
       /\ UNCHANGED <<buf, curr_index, curr_size>>

pop_circ_buf ==
    \/ /\ curr_size # 0
       /\ returned' = <<"success", buf[curr_index]>>
       /\ curr_index' = (curr_index + 1) % size
       /\ curr_size' = curr_size - 1
       /\ UNCHANGED buf
    \/ /\ curr_size = 0
       /\ returned' = <<"failure">>
       /\ UNCHANGED <<buf, curr_index, curr_size>>

\* destroy_circ_buf and init_circ_buf: the new buffer has the contents of the old.
renew_circ_buf ==
    /\ curr_index' = 0
    /\ curr_size' = 0
    /\ returned' = <<"none">>
    /\ UNCHANGED buf

CircBufNext == (\E v \in Entries : push_circ_buf(v)) \/ pop_circ_buf \/ renew_circ_buf

CircBufSpec == init_circ_buf /\ [][CircBufNext]_circVars

-----------------------------------------------------------------------------
\* The entries in the order in which they will be popped.
Contents == [i \in 1 .. curr_size |-> buf[(curr_index + i - 1) % size]]

Queue == INSTANCE BoundedQueue WITH
            Size <- size, Values <- Entries, queue <- Contents, answer <- returned

\* The circular buffer is a bounded queue: a push is refused exactly when size entries
\* are in it, a pop exactly when there is none, and what comes out is what went in, in
\* order, however often the indices have gone around.
ImplementsQueue == Queue!Spec
=============================================================================
