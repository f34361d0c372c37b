-------------------------- MODULE SortedArrayList --------------------------
(***************************************************************************)
(* The array of pointers, kept in ascending order, of                      *)
(* klib/sorted_array_list.c.  A list is a record of the array, indexed     *)
(* from 0, and curr_size, one more than the number of items: the slot at   *)
(* curr_size - 1 is where a search that meets no greater item stops.       *)
(***************************************************************************)
EXTENDS Integers

arr_size(list) == 1 + CHOOSE m \in DOMAIN list.arr : \A k \in DOMAIN list.arr : k <= m

init_sorted_list(n) == [arr |-> [k \in 0 .. n - 1 |-> 0], curr_size |-> 1]

Items(list) == {list.arr[k] : k \in 0 .. list.curr_size - 2}

curr_index(bounds) == bounds[1] + (bounds[2] - bounds[1]) \div 2

\* One pass of the loop of insert_list and remove_list over the bounds l and r.  It goes
\* on while the bounds differ and the item at curr_index is another one.
Halve(list, item, bounds) ==
    LET at == list.arr[curr_index(bounds)]
    IN  IF item = at \/ bounds[1] = bounds[2] THEN bounds
        ELSE IF item < at THEN <<bounds[1], curr_index(bounds)>>
        ELSE <<curr_index(bounds) + 1, bounds[2]>>

\* Where the loop ends: the slot of the item, or the slot where both bounds met.
Place(list, item) ==
    LET after[k \in Nat] == IF k = 0 THEN <<0, list.curr_size - 1>>
                            ELSE Halve(list, item, after[k - 1])
    IN  curr_index(after[list.curr_size - 1])

insert_item(list, item, index) ==
    [arr |-> [k \in DOMAIN list.arr |-> IF k = index THEN item
                                        ELSE IF index < k /\ k < list.curr_size
                                        THEN list.arr[k - 1] ELSE list.arr[k]],
     curr_size |-> list.curr_size + 1]

remove_item(list, index) ==
    [arr |-> [k \in DOMAIN list.arr |-> IF index <= k /\ k < list.curr_size - 1
                                        THEN list.arr[k + 1] ELSE list.arr[k]],
     curr_size |-> list.curr_size - 1]

\* insert_list returns -1 from a full list, and 1 for an item that is there.
Full(list) == list.curr_size = arr_size(list)

insert_list(list, item) ==
    LET index == Place(list, item)
    IN  IF item = list.arr[index] \/ Full(list) THEN list
        ELSE insert_item(list, item, index)

remove_list(list, item) ==
    LET index == Place(list, item)
    IN  IF item = list.arr[index] THEN remove_item(list, index) ELSE list
=============================================================================
