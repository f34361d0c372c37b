------------------------------ MODULE Allocator ------------------------------
(***************************************************************************)
(* What callers of kmalloc and kfree rely on: a block that is handed out   *)
(* is as large as they asked for, lies in the heap, overlaps no block that *)
(* is in use, and stays as it is until they free it.                       *)
(***************************************************************************)
EXTENDS Integers

CONSTANTS bottom, top

VARIABLE blocks   \* the blocks in use: first word, length, and the size asked for

Init == blocks = {}

\* A block of length 0 has an address of its own all the same.
Overlap(b, c) == b.at = c.at \/ (b.at < c.at + c.len /\ c.at < b.at + b.len)

Allocate ==
    \E block \in blocks' :
        /\ block.len >= block.size
        /\ bottom <= block.at /\ block.at + block.len <= top
        /\ \A b \in blocks : ~Overlap(b, block)
        /\ blocks' = blocks \cup {block}

Free == \E b \in blocks : blocks' = blocks \ {b}

Spec == Init /\ [][Allocate \/ Free]_blocks
=============================================================================
