------------------------- MODULE KheapChainProofs --------------------------
(***************************************************************************)
(* Two things that the proofs about the heap rest on.  What the binary     *)
(* search of klib/sorted_array_list.c finds, and what it makes of the list *)
(* of free blocks.  And what the parts of kheap.c do to the chain of       *)
(* headers: the walk from heap_bottom along next meets the blocks of the   *)
(* chain and no others, and a block that is split, merged or added leaves  *)
(* a chain behind, in which both links of every block are right.           *)
(***************************************************************************)
EXTENDS Kheap, LoopProofs, FiniteSetTheorems

-----------------------------------------------------------------------------
(***************************************************************************)
(* The sorted array list.  Its items are positive, in ascending order, and *)
(* the slots behind them hold 0.                                           *)
(***************************************************************************)
Ascending(list, slots) ==
    /\ list = [arr |-> list.arr, curr_size |-> list.curr_size]
    /\ list.arr \in [0 .. slots - 1 -> Nat]
    /\ list.curr_size \in 1 .. slots
    /\ \A k \in 0 .. list.curr_size - 2 : list.arr[k] > 0
    /\ \A j, k \in 0 .. list.curr_size - 2 : j < k => list.arr[j] < list.arr[k]
    /\ \A k \in list.curr_size - 1 .. slots - 1 : list.arr[k] = 0

\* The search ends at the item, or where the items on the left are smaller and the
\* others greater.
LEMMA SearchFinds ==
    ASSUME NEW slots \in Nat, NEW list, Ascending(list, slots), NEW item \in Nat \ {0},
           NEW n, n = list.curr_size - 1, NEW i, i = Place(list, item)
    PROVE  /\ i \in 0 .. n
           /\ list.arr[i] = item => i < n
           /\ list.arr[i] # item =>
                 \A k \in 0 .. n - 1 : IF k < i THEN list.arr[k] < item ELSE item < list.arr[k]
<1> DEFINE D == {p \in (0 .. n) \X (0 .. n) : p[1] <= p[2]}
           g == [p \in D |-> Halve(list, item, p)]
<1>1. n \in Nat /\ list.curr_size - 2 = n - 1 /\ n \in 0 .. slots - 1 /\ list.arr[n] = 0
    BY DEF Ascending
<1>2. /\ \A k \in 0 .. n : list.arr[k] \in Nat
      /\ \A j, k \in 0 .. n - 1 : j < k => list.arr[j] < list.arr[k]
    BY <1>1 DEF Ascending
<1>3. ASSUME NEW p \in D
      PROVE  /\ curr_index(p) \in p[1] .. p[2]
             /\ p[1] # p[2] => curr_index(p) < p[2]
             /\ p[1] \in 0 .. n /\ p[2] \in 0 .. n /\ p[1] <= p[2]
             /\ p = <<p[1], p[2]>>
    BY <1>1 DEF curr_index
<1>4. ASSUME NEW p \in D
      PROVE  Halve(list, item, p) \in D
    BY <1>1, <1>3 DEF Halve
<1>5. g \in [D -> D] /\ <<0, n>> \in D
    BY <1>1, <1>4
<1> DEFINE after[k \in Nat] == IF k = 0 THEN <<0, n>> ELSE Halve(list, item, after[k - 1])
<1>6. PICK f \in [Nat -> D] : Iterates(f, <<0, n>>, g)
    <2> DEFINE first == <<0, n>>
    <2>1. first \in D /\ g \in [D -> D]
        BY <1>5, Zenon
    <2> HIDE DEF g, D, first
    <2>2. \E f \in [Nat -> D] : Iterates(f, first, g)
        BY <2>1, Iteration, Zenon
    <2> QED
        BY <2>2, Zenon DEF first
<1>7. f = [k \in Nat |-> IF k = 0 THEN <<0, n>> ELSE Halve(list, item, f[k - 1])]
    <2> HIDE DEF D
    <2>1. ASSUME NEW k \in Nat, k # 0
          PROVE  f[k] = Halve(list, item, f[k - 1])
        <3>1. k - 1 \in Nat /\ (k - 1) + 1 = k
            BY <2>1
        <3>2. f[k - 1] \in D /\ f[k] = g[f[k - 1]]
            BY <1>6, <3>1, Zenon DEF Iterates
        <3> QED
            BY <3>2, Zenon
    <2> QED
        BY <1>6, <2>1, Zenon DEF Iterates
<1>8. after = [k \in Nat |-> IF k = 0 THEN <<0, n>> ELSE Halve(list, item, after[k - 1])]
    BY <1>7, Zenon
<1>9. i = curr_index(after[n])
    BY Zenon DEF Place
<1> HIDE DEF after
<1>10. after[0] = <<0, n>> /\ \A k \in Nat : after[k + 1] = Halve(list, item, after[k])
    <2>1. \A k \in Nat : k + 1 \in Nat /\ k + 1 # 0 /\ (k + 1) - 1 = k
        OBVIOUS
    <2> QED
        BY <1>8, <2>1, Zenon
<1> DEFINE Done(p) == item = list.arr[curr_index(p)] \/ p[1] = p[2]
           Between(p) == \A k \in 0 .. n - 1 : /\ k < p[1] => list.arr[k] < item
                                               /\ p[2] <= k => item < list.arr[k]
           S == {k \in Nat : /\ after[k] \in D /\ Between(after[k])
                             /\ Done(after[k]) \/ after[k][2] - after[k][1] <= n - k}
<1> HIDE DEF D
<1>11. 0 \in S
    <2> DEFINE p == after[0]
    <2>1. p \in D /\ p[1] = 0 /\ p[2] = n
        BY <1>5, <1>10
    <2> HIDE DEF p
    <2>2. Between(p) /\ p[2] - p[1] <= n - 0
        BY <1>1, <2>1
    <2> QED
        BY <2>1, <2>2, Zenon DEF p
<1>12. ASSUME NEW k \in S
       PROVE  k + 1 \in S
    <2> DEFINE p == after[k]
               q == after[k + 1]
    <2>1. k \in Nat /\ p \in D /\ Between(p) /\ (Done(p) \/ p[2] - p[1] <= n - k)
        BY Zenon
    <2>2. q = Halve(list, item, p) /\ q \in D /\ k + 1 \in Nat
        <3>1. q = Halve(list, item, p)
            BY <1>10, <2>1, Zenon
        <3> QED
            BY <1>4, <2>1, <3>1
    <2> HIDE DEF p, q, S
    <2>3. CASE Done(p)
        <3>1. q = p
            BY <2>2, <2>3, Zenon DEF Halve
        <3> QED
            BY <2>1, <2>2, <2>3, <3>1, Zenon DEF S, p, q
    <2>4. CASE ~Done(p)
        <3>1. /\ curr_index(p) \in p[1] .. p[2] /\ curr_index(p) < p[2]
              /\ p[1] \in 0 .. n /\ p[2] \in 0 .. n /\ curr_index(p) \in 0 .. n - 1
              /\ list.arr[curr_index(p)] \in Nat /\ item # list.arr[curr_index(p)]
            BY <1>1, <1>2, <1>3, <2>1, <2>4
        <3>2. CASE item < list.arr[curr_index(p)]
            <4>1. q[1] = p[1] /\ q[2] = curr_index(p)
                BY <2>2, <2>4, <3>2, Zenon DEF Halve
            <4>2. Between(q)
                BY <1>1, <1>2, <2>1, <3>1, <3>2, <4>1
            <4>3. q[2] - q[1] <= n - (k + 1)
                BY <1>1, <2>1, <2>4, <3>1, <4>1
            <4> QED
                BY <2>2, <4>2, <4>3, Zenon DEF S, q
        <3>3. CASE list.arr[curr_index(p)] < item
            <4>1. q[1] = curr_index(p) + 1 /\ q[2] = p[2]
                BY <2>2, <2>4, <3>1, <3>3 DEF Halve
            <4>2. Between(q)
                BY <1>1, <1>2, <2>1, <3>1, <3>3, <4>1
            <4>3. q[2] - q[1] <= n - (k + 1)
                BY <1>1, <2>1, <2>4, <3>1, <4>1
            <4> QED
                BY <2>2, <4>2, <4>3 DEF S, q
        <3> QED
            BY <3>1, <3>2, <3>3
    <2> QED
        BY <2>3, <2>4, Zenon
<1>13. n \in S
    <2>1. S \in SUBSET Nat
        BY Zenon
    <2> HIDE DEF S
    <2> QED
        BY <1>1, <1>11, <1>12, <2>1, Induction, Zenon
<1> DEFINE p == after[n]
<1>14. p \in D /\ Between(p) /\ Done(p)
    <2>1. p \in D /\ Between(p) /\ (Done(p) \/ p[2] - p[1] <= n - n)
        BY <1>13, Zenon
    <2>2. p[1] \in 0 .. n /\ p[2] \in 0 .. n /\ p[1] <= p[2]
        BY <1>3, <2>1, Zenon
    <2> HIDE DEF p
    <2> QED
        BY <1>1, <2>1, <2>2
<1> HIDE DEF p
<1>15. i = curr_index(p)
    BY <1>9, Zenon DEF p
<1>16. i \in 0 .. n /\ i \in p[1] .. p[2] /\ p[1] \in 0 .. n /\ p[2] \in 0 .. n
    <2>1. /\ i \in p[1] .. p[2]
          /\ p[1] \in 0 .. n /\ p[2] \in 0 .. n
        BY <1>3, <1>14, <1>15, Zenon
    <2> QED
        BY <1>1, <2>1
<1>17. list.arr[i] = item => i < n
    BY <1>1, <1>16
<1>18. list.arr[i] # item => p[1] = i /\ p[2] = i
    BY <1>14, <1>16, <1>15
<1>19. list.arr[i] # item => \A k \in 0 .. n - 1 : IF k < i THEN list.arr[k] < item
                                                 ELSE item < list.arr[k]
    <2> SUFFICES ASSUME list.arr[i] # item, NEW k \in 0 .. n - 1
                 PROVE  IF k < i THEN list.arr[k] < item ELSE item < list.arr[k]
        BY Zenon
    <2>1. p[1] = i /\ p[2] = i
        BY <1>18, Zenon
    <2>2. (k < i => list.arr[k] < item) /\ (i <= k => item < list.arr[k])
        BY <1>14, <2>1, Zenon
    <2> QED
        BY <1>1, <1>16, <2>2
<1> QED
    BY <1>16, <1>17, <1>19, Zenon

\* What Ascending says, of the array and the number of items.
Sorted(a, n, slots) ==
    /\ a \in [0 .. slots - 1 -> Nat] /\ n \in Nat /\ n < slots
    /\ \A k \in 0 .. n - 1 : a[k] > 0
    /\ \A j, k \in 0 .. n - 1 : j < k => a[j] < a[k]
    /\ \A k \in n .. slots - 1 : a[k] = 0

\* From a list to its array, and back.
LEMMA AscendingArray ==
    ASSUME NEW slots \in Nat, NEW list, Ascending(list, slots),
           NEW a, a = list.arr, NEW n, n = list.curr_size - 1
    PROVE  /\ list = [arr |-> a, curr_size |-> n + 1] /\ Sorted(a, n, slots)
           /\ Items(list) = {a[k] : k \in 0 .. n - 1}
<1>1. list.curr_size = n + 1 /\ list.curr_size - 2 = n - 1
    BY DEF Ascending
<1> QED
    BY <1>1 DEF Ascending, Sorted, Items

\* A sorted array of n items is an ascending list.
LEMMA SortedList ==
    ASSUME NEW slots \in Nat, NEW a, NEW n \in Nat, Sorted(a, n, slots),
           NEW list, list = [arr |-> a, curr_size |-> n + 1]
    PROVE  Ascending(list, slots) /\ Items(list) = {a[k] : k \in 0 .. n - 1}
<1>1. list.curr_size = n + 1 /\ list.curr_size - 2 = n - 1 /\ list.curr_size - 1 = n
    OBVIOUS
<1>2. list.arr = a
    BY Zenon
<1> QED
    BY <1>1, <1>2 DEF Ascending, Sorted, Items

\* arr_size is the number of slots, so that a list is full when it has no slot left
\* behind curr_size - 1.
LEMMA FullWhen ==
    ASSUME NEW slots \in Nat, NEW list, Ascending(list, slots)
    PROVE  Full(list) <=> list.curr_size = slots
<1>1. slots \in Nat \ {0} /\ DOMAIN list.arr = 0 .. slots - 1
    BY DEF Ascending
<1> DEFINE P(m) == \A k \in DOMAIN list.arr : k <= m
<1>2. slots - 1 \in DOMAIN list.arr /\ P(slots - 1)
    BY <1>1
<1>3. \A m \in DOMAIN list.arr : P(m) => m = slots - 1
    BY <1>1
<1> DEFINE last == CHOOSE m \in DOMAIN list.arr : P(m)
<1>4. arr_size(list) = 1 + last
    BY Zenon DEF arr_size
<1> HIDE DEF P
<1>5. last = slots - 1
    BY <1>2, <1>3, Zenon
<1> HIDE DEF last
<1>6. arr_size(list) = slots
    BY <1>1, <1>4, <1>5
<1> QED
    BY <1>6, Zenon DEF Full

\* insert_list keeps the order, and adds the item unless the list is full.
LEMMA InsertKeepsOrder ==
    ASSUME NEW slots \in Nat, NEW list, Ascending(list, slots), NEW item \in Nat \ {0}
    PROVE  /\ Ascending(insert_list(list, item), slots)
           /\ Items(insert_list(list, item)) = IF Full(list) THEN Items(list)
                                               ELSE Items(list) \cup {item}
<1> DEFINE a == list.arr
           n == list.curr_size - 1
           i == Place(list, item)
           new == insert_item(list, item, i)
           b == new.arr
<1>1. /\ i \in 0 .. n
      /\ a[i] = item => i < n
      /\ a[i] # item => \A k \in 0 .. n - 1 : IF k < i THEN a[k] < item ELSE item < a[k]
    BY SearchFinds
<1>2. list = [arr |-> a, curr_size |-> n + 1] /\ Sorted(a, n, slots)
    BY AscendingArray, Zenon
<1>3. n + 1 = slots <=> Full(list)
    BY <1>2, FullWhen DEF Sorted
<1>4. Items(list) = {a[k] : k \in 0 .. n - 1}
    BY AscendingArray
<1>5. CASE item = a[i]
    <2>1. insert_list(list, item) = list
        BY <1>5, Zenon DEF insert_list
    <2> HIDE DEF a, n, i
    <2>2. i \in 0 .. n - 1
        BY <1>1, <1>2, <1>5 DEF Sorted
    <2>3. item \in Items(list)
        BY <1>4, <1>5, <2>2, Zenon
    <2> QED
        BY <2>1, <2>3, Zenon
<1>6. CASE item # a[i] /\ Full(list)
    BY <1>6, Zenon DEF insert_list
<1>7. CASE item # a[i] /\ ~Full(list)
    <2>1. insert_list(list, item) = new
        BY <1>7, Zenon DEF insert_list
    <2>2. /\ new = [arr |-> b, curr_size |-> n + 2]
          /\ b = [k \in 0 .. slots - 1 |-> IF k = i THEN item
                                          ELSE IF i < k /\ k < n + 1 THEN a[k - 1] ELSE a[k]]
        <3>1. DOMAIN a = 0 .. slots - 1 /\ list.curr_size = n + 1 /\ n \in Nat
            BY <1>2 DEF Sorted
        <3>2. /\ new = [arr |-> b, curr_size |-> list.curr_size + 1]
              /\ b = [k \in DOMAIN a |-> IF k = i THEN item
                                         ELSE IF i < k /\ k < list.curr_size
                                         THEN a[k - 1] ELSE a[k]]
            BY Zenon DEF insert_item
        <3> HIDE DEF a, n, i, b, new
        <3> QED
            BY <3>1, <3>2
    <2> HIDE DEF a, n, i, b, new
    <2>3. b \in [0 .. slots - 1 -> Nat] /\ n + 1 < slots /\ n \in Nat
        BY <1>1, <1>2, <1>3, <1>7, <2>2 DEF Sorted
    <2>4. /\ b[i] = item
          /\ \A k \in 0 .. i - 1 : b[k] = a[k]
          /\ \A k \in i + 1 .. n : b[k] = a[k - 1]
          /\ \A k \in n + 1 .. slots - 1 : b[k] = 0
        BY <1>1, <1>2, <2>2, <2>3 DEF Sorted
    <2>5. \A k \in 0 .. n : b[k] > 0
        BY <1>1, <1>2, <2>4 DEF Sorted
    <2>6. ASSUME NEW j \in 0 .. n, NEW k \in 0 .. n, j < k
          PROVE  b[j] < b[k]
        <3>1. /\ \A x \in 0 .. n - 1 : a[x] \in Nat
              /\ \A x \in 0 .. n - 1 : IF x < i THEN a[x] < item ELSE item < a[x]
              /\ \A x, y \in 0 .. n - 1 : x < y => a[x] < a[y]
            BY <1>1, <1>2, <1>7, <2>3 DEF Sorted
        <3>2. CASE k < i
            BY <1>1, <2>3, <2>4, <2>6, <3>1, <3>2
        <3>3. CASE k = i
            BY <1>1, <2>3, <2>4, <2>6, <3>1, <3>3
        <3>4. CASE i < k
            <4>1. k - 1 \in 0 .. n - 1 /\ b[k] = a[k - 1]
                BY <1>1, <2>3, <2>4, <3>4
            <4>2. CASE j < i
                BY <1>1, <2>3, <2>4, <2>6, <3>1, <3>4, <4>1, <4>2
            <4>3. CASE j = i
                BY <1>1, <2>3, <2>4, <2>6, <3>1, <3>4, <4>1, <4>3
            <4>4. CASE i < j
                <5>1. j - 1 \in 0 .. n - 1 /\ b[j] = a[j - 1] /\ j - 1 < k - 1
                    BY <1>1, <2>3, <2>4, <2>6, <4>4
                <5> QED
                    BY <3>1, <4>1, <5>1, Zenon
            <4> QED
                BY <1>1, <2>3, <4>2, <4>3, <4>4
        <3> QED
            BY <1>1, <2>3, <3>2, <3>3, <3>4
    <2>7. Sorted(b, n + 1, slots)
        BY <2>3, <2>4, <2>5, <2>6 DEF Sorted
    <2>8. Ascending(new, slots)
        <3>1. new = [arr |-> b, curr_size |-> (n + 1) + 1] /\ n + 1 \in Nat
            BY <2>2, <2>3
        <3> QED
            BY <2>7, <3>1, SortedList, Zenon
    <2>9. Items(new) = {b[k] : k \in 0 .. n}
        <3>1. new.curr_size - 2 = n /\ new.arr = b
            BY <2>2, <2>3
        <3> QED
            BY <3>1, Zenon DEF Items
    <2>10. ASSUME NEW k \in 0 .. n
           PROVE  b[k] \in Items(list) \cup {item}
        <3>1. CASE k < i
            BY <1>1, <1>4, <2>3, <2>4, <3>1
        <3>2. CASE i < k
            <4>1. k - 1 \in 0 .. n - 1 /\ b[k] = a[k - 1]
                BY <1>1, <2>3, <2>4, <3>2
            <4> QED
                BY <1>4, <4>1, Zenon
        <3> QED
            BY <1>1, <2>3, <2>4, <3>1, <3>2
    <2>11. item \in Items(new)
        BY <1>1, <2>4, <2>9, Zenon
    <2>12. ASSUME NEW k \in 0 .. n - 1
           PROVE  a[k] \in Items(new)
        <3> DEFINE m == IF k < i THEN k ELSE k + 1
        <3>1. m \in 0 .. n /\ b[m] = a[k]
            BY <1>1, <2>3, <2>4
        <3> QED
            BY <2>9, <3>1, Zenon
    <2>13. Items(new) = Items(list) \cup {item}
        BY <1>4, <2>9, <2>10, <2>11, <2>12, Zenon
    <2> QED
        BY <1>7, <2>1, <2>8, <2>13, Zenon
<1> QED
    BY <1>5, <1>6, <1>7, Zenon

\* remove_list keeps the order, and takes out the item if it is there.
LEMMA RemoveKeepsOrder ==
    ASSUME NEW slots \in Nat, NEW list, Ascending(list, slots), NEW item \in Nat \ {0}
    PROVE  /\ Ascending(remove_list(list, item), slots)
           /\ Items(remove_list(list, item)) = Items(list) \ {item}
<1> DEFINE a == list.arr
           n == list.curr_size - 1
           i == Place(list, item)
           new == remove_item(list, i)
           b == new.arr
<1>1. /\ i \in 0 .. n
      /\ a[i] = item => i < n
      /\ a[i] # item => \A k \in 0 .. n - 1 : IF k < i THEN a[k] < item ELSE item < a[k]
    BY SearchFinds
<1>2. list = [arr |-> a, curr_size |-> n + 1] /\ Sorted(a, n, slots)
    BY AscendingArray
<1>3. Items(list) = {a[k] : k \in 0 .. n - 1}
    BY AscendingArray
<1>4. CASE item # a[i]
    <2>1. remove_list(list, item) = list
        BY <1>4, Zenon DEF remove_list
    <2> HIDE DEF a, n, i
    <2>2. \A k \in 0 .. n - 1 : a[k] # item
        BY <1>1, <1>2, <1>4 DEF Sorted
    <2> QED
        BY <1>3, <2>1, <2>2, Zenon
<1>5. CASE item = a[i]
    <2>1. remove_list(list, item) = new
        BY <1>5, Zenon DEF remove_list
    <2>2. /\ new = [arr |-> b, curr_size |-> n]
          /\ b = [k \in 0 .. slots - 1 |-> IF i <= k /\ k < n THEN a[k + 1] ELSE a[k]]
        <3>1. DOMAIN a = 0 .. slots - 1 /\ list.curr_size - 1 = n
            BY <1>2, Zenon DEF Sorted
        <3> QED
            BY <1>2, <3>1, Zenon DEF remove_item
    <2> HIDE DEF a, n, i, b, new
    <2> DEFINE m == n - 1
    <2>3. m \in Nat /\ m < slots /\ m + 1 = n /\ i \in 0 .. m /\ n \in Nat /\ n < slots
        BY <1>1, <1>2, <1>5 DEF Sorted
    <2> HIDE DEF m
    <2>4. b \in [0 .. slots - 1 -> Nat]
        BY <1>1, <1>2, <2>2 DEF Sorted
    <2>5. /\ \A k \in 0 .. i - 1 : b[k] = a[k]
          /\ \A k \in i .. m - 1 : b[k] = a[k + 1]
          /\ \A k \in m .. slots - 1 : b[k] = 0
        BY <1>1, <1>2, <2>2, <2>3 DEF Sorted
    <2>6. \A k \in 0 .. m - 1 : b[k] > 0
        BY <1>1, <1>2, <2>3, <2>5 DEF Sorted
    <2>7. ASSUME NEW j \in 0 .. m - 1, NEW k \in 0 .. m - 1, j < k
          PROVE  b[j] < b[k]
        <3> DEFINE x == IF j < i THEN j ELSE j + 1
                   y == IF k < i THEN k ELSE k + 1
        <3>1. x \in 0 .. n - 1 /\ y \in 0 .. n - 1 /\ x < y /\ b[j] = a[x] /\ b[k] = a[y]
            BY <2>3, <2>5, <2>7
        <3> HIDE DEF x, y
        <3> QED
            BY <1>2, <3>1, Zenon DEF Sorted
    <2>8. Sorted(b, m, slots)
        BY <2>3, <2>4, <2>5, <2>6, <2>7, Zenon DEF Sorted
    <2>9. new = [arr |-> b, curr_size |-> m + 1]
        <3>1. new = [arr |-> b, curr_size |-> n]
            BY <2>2, Zenon
        <3> QED
            BY <2>3, <3>1, Zenon
    <2>10. Ascending(new, slots) /\ Items(new) = {b[k] : k \in 0 .. m - 1}
        BY <2>3, <2>8, <2>9, SortedList
    <2>11. ASSUME NEW k \in 0 .. m - 1
           PROVE  b[k] \in Items(list) \ {item}
        <3> DEFINE j == IF k < i THEN k ELSE k + 1
        <3>1. j \in 0 .. n - 1 /\ j # i /\ b[k] = a[j]
            BY <1>1, <2>3, <2>5
        <3>2. a[j] # item
            BY <1>2, <1>5, <2>3, <3>1 DEF Sorted
        <3> QED
            BY <1>3, <3>1, <3>2, Zenon
    <2>12. ASSUME NEW k \in 0 .. n - 1, a[k] # item
           PROVE  a[k] \in Items(new)
        <3> DEFINE j == IF k < i THEN k ELSE k - 1
        <3>1. k # i
            BY <1>5, <2>12, Zenon
        <3>2. j \in 0 .. m - 1 /\ b[j] = a[k]
            BY <1>1, <2>3, <2>5, <3>1
        <3> QED
            BY <2>10, <3>2, Zenon
    <2>13. Items(new) = Items(list) \ {item}
        BY <1>3, <2>10, <2>11, <2>12, Zenon
    <2> QED
        BY <2>1, <2>10, <2>13, Zenon
<1> QED
    BY <1>4, <1>5, Zenon

-----------------------------------------------------------------------------
(***************************************************************************)
(* The chain of headers.                                                   *)
(***************************************************************************)
\* A header of any size, anywhere.
HeaderType == [magic : {"FREE", "USED"}, next : Nat, prev : Nat, size : Nat]

\* What the chain's links say of its block n.
Linked(hdr, C, last, n) ==
    /\ hdr[n] \in HeaderType /\ heap_bottom <= n /\ EndOf(hdr, n) <= last
    /\ IF hdr[n].next = NULL THEN EndOf(hdr, n) = last
       ELSE /\ hdr[n].next \in C /\ hdr[n].next = EndOf(hdr, n)
            /\ hdr[hdr[n].next].prev = n
    /\ IF n = heap_bottom THEN hdr[n].prev = NULL
       ELSE hdr[n].prev \in C /\ hdr[hdr[n].prev].next = n

\* The blocks of C tile the heap from heap_bottom to last and are chained in order.
Chain(hdr, C, last) ==
    /\ C \subseteq DOMAIN hdr /\ C \subseteq Nat /\ heap_bottom \in C
    /\ \A n \in C : Linked(hdr, C, last, n)
    /\ \A n, m \in C : n < m => EndOf(hdr, n) <= m

\* The walk from heap_bottom reaches the blocks of the chain and no others.
LEMMA WalkIs ==
    ASSUME NEW hdr, NEW C, NEW last \in Nat, Chain(hdr, C, last),
           IsFiniteSet(DOMAIN hdr), NULL \notin DOMAIN hdr
    PROVE  Walk(hdr) = C
<1> DEFINE D == C \cup {NULL}
           Succ(n) == IF n \in DOMAIN hdr THEN hdr[n].next ELSE NULL
           g == [n \in D |-> Succ(n)]
<1>1. NULL \notin C /\ C \subseteq DOMAIN hdr /\ C \subseteq Nat /\ heap_bottom \in C
    BY Zenon DEF Chain
<1>2. \A n \in C : Succ(n) = hdr[n].next /\ Succ(n) \in D
    BY <1>1, Zenon DEF Chain, Linked
<1>3. Succ(NULL) = NULL
    BY Zenon
<1>4. \A n \in C : Succ(n) # NULL => Succ(n) \in C /\ n < Succ(n)
    BY <1>1, <1>2 DEF Chain, Linked, EndOf, HEADER_SIZE, HeaderType
<1>5. \A n \in C : n # heap_bottom => \E m \in C : m < n /\ Succ(m) = n
    BY <1>1, <1>2 DEF Chain, Linked, EndOf, HEADER_SIZE, HeaderType, NULL
<1> DEFINE at[k \in Nat] == IF k = 0 THEN heap_bottom
                            ELSE IF at[k - 1] \in DOMAIN hdr THEN hdr[at[k - 1]].next
                            ELSE NULL
<1>6. PICK f \in [Nat -> D] : Iterates(f, heap_bottom, g)
    <2>1. heap_bottom \in D /\ g \in [D -> D]
        BY <1>1, <1>2, <1>3, Zenon
    <2> HIDE DEF g, D
    <2> QED
        BY <2>1, Iteration, Zenon
<1>7. f = [k \in Nat |-> IF k = 0 THEN heap_bottom
                         ELSE IF f[k - 1] \in DOMAIN hdr THEN hdr[f[k - 1]].next ELSE NULL]
    <2> HIDE DEF D
    <2>1. ASSUME NEW k \in Nat, k # 0
          PROVE  f[k] = Succ(f[k - 1])
        <3>1. k - 1 \in Nat /\ (k - 1) + 1 = k
            BY <2>1
        <3>2. f[k - 1] \in D /\ f[k] = g[f[k - 1]]
            BY <1>6, <3>1, Zenon DEF Iterates
        <3> QED
            BY <3>2, Zenon
    <2> QED
        BY <1>6, <2>1, Zenon DEF Iterates
<1>8. at = [k \in Nat |-> IF k = 0 THEN heap_bottom
                          ELSE IF at[k - 1] \in DOMAIN hdr THEN hdr[at[k - 1]].next ELSE NULL]
    BY <1>7, Zenon
<1> DEFINE N == Cardinality(DOMAIN hdr)
<1>9. Walk(hdr) = {at[k] : k \in 0 .. N} \ {NULL}
    BY Zenon DEF Walk
<1> HIDE DEF at
<1>10. at[0] = heap_bottom /\ \A k \in Nat : at[k + 1] = Succ(at[k])
    <2>1. \A k \in Nat : k + 1 \in Nat /\ k + 1 # 0 /\ (k + 1) - 1 = k
        OBVIOUS
    <2> QED
        BY <1>8, <2>1
<1>11. IsFiniteSet(C) /\ Cardinality(C) \in Nat /\ Cardinality(C) <= N /\ N \in Nat
    BY <1>1, FS_Subset, FS_CardinalityType, Zenon
<1> HIDE DEF N, Succ, D
\* k passes of the loop that have not met NULL have left k blocks behind.
<1> DEFINE Left(k) == {m \in C : m < at[k]}
           S == {k \in Nat : /\ at[k] \in D
                             /\ at[k] \in C => k <= Cardinality(Left(k))}
<1>12. S = Nat
    <2>1. 0 \in S
        <3>1. IsFiniteSet(Left(0))
            BY <1>11, FS_Subset, Zenon
        <3>2. Cardinality(Left(0)) \in Nat
            <4> HIDE DEF Left
            <4> QED
                BY <3>1, FS_CardinalityType, Zenon
        <3> HIDE DEF Left
        <3> QED
            BY <1>1, <1>10, <3>2 DEF D
    <2>2. ASSUME NEW k \in S
          PROVE  k + 1 \in S
        <3>1. k \in Nat /\ k + 1 \in Nat /\ at[k] \in D /\ at[k + 1] = Succ(at[k])
            BY <1>10
        <3>2. at[k + 1] \in D
            BY <1>2, <1>3, <3>1, Zenon DEF D
        <3>3. ASSUME at[k + 1] \in C
              PROVE  k + 1 <= Cardinality(Left(k + 1))
            <4>1. at[k] \in C /\ at[k] < at[k + 1]
                BY <1>1, <1>3, <1>4, <3>1, <3>3, Zenon DEF D
            <4>2. k <= Cardinality(Left(k))
                BY <4>1, Zenon
            <4>3. Left(k) \subseteq C /\ Left(k + 1) \subseteq C /\ at[k] \notin Left(k)
                BY <1>1, <4>1
            <4>4. Left(k) \cup {at[k]} \subseteq Left(k + 1)
                BY <1>1, <4>1, <3>3
            <4> HIDE DEF Left, S
            <4>5. IsFiniteSet(Left(k)) /\ IsFiniteSet(Left(k + 1))
                BY <1>11, <4>3, FS_Subset, Zenon
            <4>6. Cardinality(Left(k) \cup {at[k]}) = Cardinality(Left(k)) + 1
                BY <4>3, <4>5, FS_AddElement, Zenon
            <4>7. Cardinality(Left(k) \cup {at[k]}) <= Cardinality(Left(k + 1))
                BY <4>4, <4>5, FS_Subset, Zenon
            <4>8. Cardinality(Left(k)) \in Nat /\ Cardinality(Left(k + 1)) \in Nat
                BY <4>5, FS_CardinalityType, Zenon
            <4> QED
                BY <3>1, <4>2, <4>6, <4>7, <4>8
        <3> QED
            BY <3>1, <3>2, <3>3, Zenon
    <2>3. S \in SUBSET Nat
        BY Zenon
    <2> HIDE DEF S
    <2> QED
        BY <2>1, <2>2, <2>3, Induction, Zenon
<1>13. \A k \in Nat : at[k] \in D
    BY <1>12, Zenon
<1>14. ASSUME NEW k \in Nat, at[k] \in C
       PROVE  k <= N
    <2>1. k <= Cardinality(Left(k))
        BY <1>12, <1>14, Zenon
    <2>2. Left(k) \subseteq C
        BY Zenon
    <2> HIDE DEF Left
    <2>3. Cardinality(Left(k)) <= Cardinality(C) /\ Cardinality(Left(k)) \in Nat
        BY <1>11, <2>2, FS_Subset, FS_CardinalityType, Zenon
    <2> QED
        BY <1>11, <2>1, <2>3
<1>15. ASSUME NEW n \in C
       PROVE  \E k \in Nat : at[k] = n
    <2> DEFINE T == {m \in C : \A k \in Nat : at[k] # m}
    <2> SUFFICES ASSUME T # {}
                 PROVE  FALSE
        BY Zenon
    <2>1. PICK m \in T : \A y \in T : m <= y
        <3>1. T \in SUBSET Nat
            BY <1>1, Zenon
        <3> HIDE DEF T
        <3> QED
            BY <3>1, Least, Zenon
    <2>2. m \in C /\ m # heap_bottom
        BY <1>10, Zenon
    <2>3. PICK p \in C : p < m /\ Succ(p) = m
        BY <1>5, <2>2, Zenon
    <2>4. PICK k \in Nat : at[k] = p
        BY <1>1, <2>1, <2>3
    <2>5. at[k + 1] = m /\ k + 1 \in Nat
        BY <1>10, <2>3, <2>4
    <2> QED
        BY <2>5, Zenon
<1> QED
    <2>1. \A n \in C : n \in Walk(hdr)
        BY <1>1, <1>9, <1>11, <1>14, <1>15
    <2>2. \A n \in Walk(hdr) : n \in C
        BY <1>9, <1>11, <1>13 DEF D
    <2> QED
        BY <2>1, <2>2, Zenon

\* The neighbours of a block.
LEMMA Neighbours ==
    ASSUME NEW hdr, NEW C, NEW last \in Nat, Chain(hdr, C, last), NEW n \in C
    PROVE  /\ n \in Nat /\ n # NULL /\ n \in DOMAIN hdr
           /\ hdr[n] \in HeaderType /\ heap_bottom <= n
           /\ EndOf(hdr, n) = n + HEADER_SIZE + hdr[n].size /\ EndOf(hdr, n) <= last
           /\ hdr[n].next = NULL => EndOf(hdr, n) = last
           /\ hdr[n].next # NULL => /\ hdr[n].next \in C /\ hdr[n].next = EndOf(hdr, n)
                                    /\ hdr[hdr[n].next].prev = n /\ n < hdr[n].next
           /\ (n = heap_bottom) <=> (hdr[n].prev = NULL)
           /\ hdr[n].prev # NULL => /\ hdr[n].prev \in C /\ hdr[hdr[n].prev].next = n
                                    /\ hdr[n].prev < n
<1>1. /\ heap_bottom \in Nat /\ heap_bottom # 0 /\ \A m \in C : m \in Nat /\ heap_bottom <= m
      /\ \A m \in C : hdr[m] \in HeaderType /\ m \in DOMAIN hdr
    BY HeapAssumption, Zenon DEF Chain, Linked
<1>2. \A m \in C : m # NULL
    BY <1>1 DEF NULL
<1>3. \A m \in C : /\ EndOf(hdr, m) = m + HEADER_SIZE + hdr[m].size
                   /\ m < EndOf(hdr, m)
    BY <1>1 DEF EndOf, HEADER_SIZE, HeaderType
<1>4. hdr[n].next # NULL => /\ hdr[n].next \in C /\ hdr[n].next = EndOf(hdr, n)
                            /\ hdr[hdr[n].next].prev = n /\ n < hdr[n].next
    BY <1>3 DEF Chain, Linked
<1>5. hdr[n].prev # NULL => hdr[n].prev \in C /\ hdr[hdr[n].prev].next = n
    BY Zenon DEF Chain, Linked
<1>6. hdr[n].prev # NULL => hdr[n].prev < n
    BY <1>2, <1>3, <1>5 DEF Chain, Linked
<1>7. (n = heap_bottom) <=> (hdr[n].prev = NULL)
    BY <1>2, Zenon DEF Chain, Linked
<1>8. EndOf(hdr, n) <= last /\ (hdr[n].next = NULL => EndOf(hdr, n) = last)
    BY Zenon DEF Chain, Linked
<1> QED
    BY <1>1, <1>2, <1>3, <1>4, <1>5, <1>6, <1>7, <1>8, Zenon

\* A chain is one by its links and sizes; magic is not looked at.
LEMMA SameLinks ==
    ASSUME NEW hdr, NEW C, NEW last \in Nat, Chain(hdr, C, last),
           NEW hdr2, C \subseteq DOMAIN hdr2,
           \A n \in C : /\ hdr2[n] \in HeaderType /\ hdr2[n].next = hdr[n].next
                        /\ hdr2[n].prev = hdr[n].prev /\ hdr2[n].size = hdr[n].size
    PROVE  Chain(hdr2, C, last)
<1>1. \A n \in C : EndOf(hdr2, n) = EndOf(hdr, n)
    BY Zenon DEF EndOf
<1>2. \A n \in C : Linked(hdr2, C, last, n)
    BY <1>1 DEF Chain, Linked
<1> QED
    BY <1>1, <1>2, Zenon DEF Chain

\* Absorb, of the headers.
Absorbed(hdr, left, right) ==
    LET next == hdr[right].next
        prev == hdr[left].prev
    IN  SetHeader(SetNext(SetPrev(hdr, next, left), prev, left), left,
                  Header("FREE", next, prev, hdr[left].size + hdr[right].size + HEADER_SIZE))

\* What heap_merge_nodes writes takes the block right out of the chain: left has its words.
LEMMA AbsorbedChain ==
    ASSUME NEW hdr, NEW C, NEW last \in Nat, Chain(hdr, C, last), NULL \notin DOMAIN hdr,
           NEW left \in C, NEW right \in C, hdr[left].next = right,
           NEW hdr2, hdr2 = Absorbed(hdr, left, right)
    PROVE  /\ Chain(hdr2, C \ {right}, last) /\ DOMAIN hdr2 = DOMAIN hdr
           /\ \A n \in DOMAIN hdr \ C : hdr2[n] = hdr[n]
           /\ hdr2[right] = hdr[right]
           /\ \A n \in C \ {right} :
                 /\ hdr2[n].magic = IF n = left THEN "FREE" ELSE hdr[n].magic
                 /\ hdr2[n].next = IF n = left THEN hdr[right].next ELSE hdr[n].next
                 /\ hdr2[n].prev = IF n = hdr[right].next THEN left ELSE hdr[n].prev
                 /\ n # left => hdr2[n].size = hdr[n].size
<1> DEFINE next == hdr[right].next
           prev == hdr[left].prev
           size == hdr[left].size + hdr[right].size + HEADER_SIZE
           C2 == C \ {right}
<1>1. /\ left \in Nat /\ right \in Nat /\ left # NULL /\ right # NULL /\ left < right
      /\ hdr[left] \in HeaderType /\ hdr[right] \in HeaderType
      /\ left \in DOMAIN hdr /\ right \in DOMAIN hdr
    BY Neighbours
<1>2. /\ next \in Nat /\ prev \in Nat
      /\ next # NULL => next \in C /\ right < next /\ next \in DOMAIN hdr
      /\ prev # NULL => prev \in C /\ prev < left /\ prev \in DOMAIN hdr
      /\ prev # NULL => hdr[prev].next = left
      /\ next # NULL => hdr[next].prev = right
    BY <1>1, Neighbours DEF HeaderType
<1>3. size \in Nat /\ EndOf(hdr, left) = right /\ left + HEADER_SIZE + size = EndOf(hdr, right)
    BY <1>1, Neighbours DEF HeaderType, HEADER_SIZE
<1>4. \A n \in C : hdr[n] \in HeaderType /\ n \in DOMAIN hdr
    BY Zenon DEF Chain, Linked
<1>5. hdr2 = SetHeader(SetNext(SetPrev(hdr, next, left), prev, left), left,
                       Header("FREE", next, prev, size))
    BY Zenon DEF Absorbed
<1> HIDE DEF next, prev, size
<1> DEFINE h1 == SetPrev(hdr, next, left)
           h3 == SetNext(h1, prev, left)
<1>6. /\ DOMAIN h1 = DOMAIN hdr
      /\ \A n \in DOMAIN hdr : n # next => h1[n] = hdr[n]
      /\ next # NULL => h1[next] = [hdr[next] EXCEPT !.prev = left]
    BY <1>2, Zenon DEF SetPrev
<1> HIDE DEF h1
<1>7. /\ DOMAIN h3 = DOMAIN hdr
      /\ \A n \in DOMAIN hdr : n # prev => h3[n] = h1[n]
      /\ prev # NULL => h3[prev] = [h1[prev] EXCEPT !.next = left]
    BY <1>2, <1>6, Zenon DEF SetNext
<1> HIDE DEF h3
<1>8. /\ DOMAIN hdr2 = DOMAIN hdr
      /\ \A n \in DOMAIN hdr : n # left => hdr2[n] = h3[n]
      /\ hdr2[left] = Header("FREE", next, prev, size)
    <2>1. hdr2 = SetHeader(h3, left, Header("FREE", next, prev, size))
        BY <1>5, Zenon DEF h1, h3
    <2> QED
        BY <1>1, <1>7, <2>1, Zenon DEF SetHeader
<1>9. \A n \in DOMAIN hdr : n \notin {left, next, prev} => hdr2[n] = hdr[n]
    BY <1>6, <1>7, <1>8, Zenon
<1>10. next # NULL => hdr2[next] = [hdr[next] EXCEPT !.prev = left]
    BY <1>1, <1>2, <1>6, <1>7, <1>8
<1>11. prev # NULL => hdr2[prev] = [hdr[prev] EXCEPT !.next = left]
    BY <1>1, <1>2, <1>6, <1>7, <1>8
<1>12. ASSUME NEW n \in C2
       PROVE  /\ hdr2[n] \in HeaderType
              /\ hdr2[n].magic = IF n = left THEN "FREE" ELSE hdr[n].magic
              /\ hdr2[n].next = IF n = left THEN next ELSE hdr[n].next
              /\ hdr2[n].prev = IF n = next THEN left ELSE hdr[n].prev
              /\ hdr2[n].size = IF n = left THEN size ELSE hdr[n].size
    <2>1. n # NULL
        BY Neighbours
    <2>2. CASE n = left
        BY <1>1, <1>2, <1>3, <1>8, <2>2 DEF Header, HeaderType, prev
    <2>3. CASE n = next
        BY <1>1, <1>2, <1>4, <1>10, <2>1, <2>3 DEF HeaderType
    <2>4. CASE n = prev
        BY <1>1, <1>2, <1>4, <1>11, <2>1, <2>4 DEF HeaderType
    <2>5. CASE n \notin {left, next, prev}
        BY <1>4, <1>9, <2>5, Zenon
    <2> QED
        BY <2>2, <2>3, <2>4, <2>5, Zenon
<1>13. \A n \in C2 : EndOf(hdr2, n) = IF n = left THEN EndOf(hdr, right) ELSE EndOf(hdr, n)
    BY <1>3, <1>12, Zenon DEF EndOf
<1>14. ASSUME NEW n \in C2
       PROVE  Linked(hdr2, C2, last, n)
    <2>1. Linked(hdr, C, last, n) /\ Linked(hdr, C, last, right) /\ Linked(hdr, C, last, left)
        BY Zenon DEF Chain
    <2>2. hdr2[n] \in HeaderType /\ heap_bottom <= n /\ EndOf(hdr2, n) <= last
        BY <1>12, <1>13, <2>1, Zenon DEF Linked
    <2>3. IF hdr2[n].next = NULL THEN EndOf(hdr2, n) = last
          ELSE /\ hdr2[n].next \in C2 /\ hdr2[n].next = EndOf(hdr2, n)
               /\ hdr2[hdr2[n].next].prev = n
        <3>1. CASE n = left
            BY <1>1, <1>2, <1>12, <1>13, <2>1, <3>1, SMTT(20) DEF Linked, next
        <3>2. CASE n # left
            <4>1. hdr2[n].next = hdr[n].next /\ EndOf(hdr2, n) = EndOf(hdr, n)
                BY <1>12, <1>13, <3>2, Zenon
            <4>2. hdr[n].next # NULL => hdr[n].next # right /\ hdr[n].next # next
                BY <1>2, <2>1, <3>2 DEF Linked, next
            <4> QED
                BY <1>12, <2>1, <4>1, <4>2 DEF Linked
        <3> QED
            BY <3>1, <3>2, Zenon
    <2>4. IF n = heap_bottom THEN hdr2[n].prev = NULL
          ELSE hdr2[n].prev \in C2 /\ hdr2[hdr2[n].prev].next = n
        <3>1. CASE n = next
            <4>1. n # heap_bottom /\ n # NULL
                BY <1>1, <1>2, <2>1, <3>1, Neighbours DEF Chain, Linked
            <4> QED
                BY <1>1, <1>12, <3>1, <4>1, SMTT(20)
        <3>2. CASE n # next
            <4>1. hdr2[n].prev = hdr[n].prev
                BY <1>12, <3>2, Zenon
            <4>2. n # heap_bottom => hdr[n].prev # right /\ hdr[n].prev # left
                BY <2>1, <3>2, Zenon DEF Linked, next
            <4> QED
                BY <1>12, <2>1, <4>1, <4>2 DEF Linked
        <3> QED
            BY <3>1, <3>2, Zenon
    <2> QED
        BY <2>2, <2>3, <2>4, Zenon DEF Linked
<1>15. \A n, m \in C2 : n < m => EndOf(hdr2, n) <= m
    <2> SUFFICES ASSUME NEW n \in C2, NEW m \in C2, n < m
                 PROVE  EndOf(hdr2, n) <= m
        BY Zenon
    <2>1. n \in Nat /\ m \in Nat /\ EndOf(hdr, n) <= m
        BY Zenon DEF Chain
    <2>2. n = left => right <= m
        BY <1>3, <2>1, Zenon
    <2>3. n = left => EndOf(hdr, right) <= m
        BY <1>1, <2>1, <2>2 DEF Chain
    <2> QED
        BY <1>13, <2>1, <2>3, Zenon
<1>16. heap_bottom # right /\ heap_bottom \in C2
    BY <1>1, Neighbours DEF Chain
<1>17. Chain(hdr2, C2, last)
    BY <1>4, <1>8, <1>14, <1>15, <1>16, Zenon DEF Chain
<1>18. hdr2[right] = hdr[right]
    BY <1>1, <1>2, <1>9
<1>19. \A n \in DOMAIN hdr \ C : hdr2[n] = hdr[n]
    BY <1>2, <1>9, Zenon
<1> QED
    BY <1>8, <1>12, <1>17, <1>18, <1>19, Zenon DEF next

\* Carve, of the headers.
Carved(hdr, node, alloc_size) ==
    LET header == hdr[node]
        new == node + alloc_size + HEADER_SIZE
    IN  SetHeader(SetHeader(SetPrev(hdr, header.next, new), new,
                            Header("FREE", header.next, node,
                                   header.size - alloc_size - HEADER_SIZE)),
                  node, Header("USED", new, header.prev, alloc_size))

\* Where the block that is left over starts, and that it has room for a header and more.
RestAt(node, alloc_size) == node + alloc_size + HEADER_SIZE
HasRest(hdr, C, last, node, alloc_size) ==
    /\ Chain(hdr, C, last) /\ last \in Nat /\ NULL \notin DOMAIN hdr /\ node \in C
    /\ alloc_size \in Nat /\ hdr[node].size - alloc_size > HEADER_SIZE

\* What heap_split_node writes puts the block that is left over into the chain.
LEMMA CarvedChain ==
    ASSUME NEW hdr, NEW C, NEW last, NEW node, NEW alloc_size,
           HasRest(hdr, C, last, node, alloc_size), NEW new, new = RestAt(node, alloc_size),
           NEW C2, C2 = C \cup {new}, NEW hdr2, hdr2 = Carved(hdr, node, alloc_size)
    PROVE  /\ Chain(hdr2, C2, last)
           /\ new \notin C /\ new \in Nat /\ node < new /\ new # NULL
           /\ \A n \in DOMAIN hdr2 \ C2 : n \in DOMAIN hdr /\ hdr2[n] = hdr[n]
           /\ \A n \in C \ {node} : /\ hdr2[n].magic = hdr[n].magic
                                     /\ hdr2[n].next = hdr[n].next
                                     /\ hdr2[n].size = hdr[n].size
           /\ hdr2[node].magic = "USED" /\ hdr2[node].next = new /\ hdr2[node].size = alloc_size
           /\ hdr2[new].magic = "FREE" /\ hdr2[new].next = hdr[node].next
<1> DEFINE next == hdr[node].next
           prev == hdr[node].prev
           size == hdr[node].size - alloc_size - HEADER_SIZE
<1>0. /\ Chain(hdr, C, last) /\ last \in Nat /\ NULL \notin DOMAIN hdr /\ node \in C
      /\ alloc_size \in Nat /\ hdr[node].size - alloc_size > HEADER_SIZE
    BY Zenon DEF HasRest
<1>1. /\ node \in Nat /\ node # NULL /\ node \in DOMAIN hdr /\ hdr[node] \in HeaderType
      /\ EndOf(hdr, node) = node + HEADER_SIZE + hdr[node].size /\ hdr[node].size \in Nat
      /\ EndOf(hdr, node) <= last /\ heap_bottom <= node /\ EndOf(hdr, node) \in Nat
    BY <1>0, Neighbours DEF HeaderType, HEADER_SIZE
<1>2. /\ next \in Nat /\ prev \in Nat
      /\ next = NULL => EndOf(hdr, node) = last
      /\ next # NULL => /\ next \in C /\ next = EndOf(hdr, node) /\ next \in DOMAIN hdr
                        /\ hdr[next].prev = node /\ node < next
      /\ prev # NULL => prev \in C /\ hdr[prev].next = node /\ prev < node
    BY <1>0, <1>1, Neighbours DEF HeaderType
<1>3. /\ size \in Nat /\ size > 0 /\ new \in Nat /\ node < new /\ new # NULL
      /\ node + HEADER_SIZE + alloc_size = new
      /\ new + HEADER_SIZE + size = EndOf(hdr, node) /\ new < EndOf(hdr, node)
    BY <1>0, <1>1 DEF HEADER_SIZE, NULL, RestAt, HasRest
<1>4. \A n \in C : hdr[n] \in HeaderType /\ n \in DOMAIN hdr /\ n \in Nat
    BY <1>0, Zenon DEF Chain, Linked
<1>5. new \notin C
    <2>1. \A n \in C : node < n => EndOf(hdr, node) <= n
        BY <1>0, Zenon DEF Chain
    <2> QED
        BY <1>0, <1>1, <1>3, <1>4, <2>1
<1>6. hdr2 = SetHeader(SetHeader(SetPrev(hdr, next, new), new, Header("FREE", next, node, size)),
                       node, Header("USED", new, prev, alloc_size))
    BY Zenon DEF Carved, RestAt
<1> HIDE DEF next, prev, size
<1> DEFINE h1 == SetPrev(hdr, next, new)
           h3 == SetHeader(h1, new, Header("FREE", next, node, size))
<1>7. /\ DOMAIN h1 = DOMAIN hdr
      /\ \A n \in DOMAIN hdr : n # next => h1[n] = hdr[n]
      /\ next # NULL => h1[next] = [hdr[next] EXCEPT !.prev = new]
    BY <1>0, <1>2, Zenon DEF SetPrev
<1> HIDE DEF h1
<1>8. /\ DOMAIN h3 = DOMAIN hdr \cup {new}
      /\ \A n \in DOMAIN hdr : n # new => h3[n] = h1[n]
      /\ h3[new] = Header("FREE", next, node, size)
    BY <1>0, <1>7, Zenon DEF SetHeader
<1> HIDE DEF h3
<1>9. /\ DOMAIN hdr2 = DOMAIN hdr \cup {new}
      /\ \A n \in DOMAIN hdr \cup {new} : n # node => hdr2[n] = h3[n]
      /\ hdr2[node] = Header("USED", new, prev, alloc_size)
    <2>1. hdr2 = SetHeader(h3, node, Header("USED", new, prev, alloc_size))
        BY <1>0, <1>6, Zenon DEF h1, h3
    <2> QED
        BY <1>0, <1>1, <1>8, <2>1, Zenon DEF SetHeader
<1>10. \A n \in DOMAIN hdr : n \notin {node, new, next} => hdr2[n] = hdr[n]
    BY <1>0, <1>7, <1>8, <1>9, Zenon
<1>11. next # NULL => hdr2[next] = [hdr[next] EXCEPT !.prev = new]
    BY <1>0, <1>2, <1>3, <1>5, <1>7, <1>8, <1>9
<1>12. hdr2[new] = Header("FREE", next, node, size)
    BY <1>0, <1>1, <1>3, <1>8, <1>9
<1>13. ASSUME NEW n \in C
       PROVE  /\ hdr2[n] \in HeaderType
              /\ hdr2[n].magic = IF n = node THEN "USED" ELSE hdr[n].magic
              /\ hdr2[n].next = IF n = node THEN new ELSE hdr[n].next
              /\ hdr2[n].prev = IF n = next THEN new ELSE hdr[n].prev
              /\ hdr2[n].size = IF n = node THEN alloc_size ELSE hdr[n].size
    <2>1. n # NULL /\ hdr[n] \in HeaderType /\ n # new
        BY <1>0, <1>4, <1>5, Neighbours
    <2>2. CASE n = node
        <3>1. hdr2[n] = Header("USED", new, prev, alloc_size) /\ (n = next => FALSE)
            BY <1>0, <1>1, <1>2, <1>9, <2>2
        <3> QED
            BY <1>0, <1>2, <1>3, <2>2, <3>1 DEF Header, HeaderType, prev
    <2>3. CASE n = next /\ n # node
        BY <1>0, <1>3, <1>11, <2>1, <2>3, Zenon DEF HeaderType
    <2>4. CASE n \notin {node, next}
        BY <1>0, <1>4, <1>10, <2>1, <2>4, Zenon
    <2> QED
        BY <1>0, <2>2, <2>3, <2>4, Zenon
<1>14. /\ hdr2[new] \in HeaderType /\ hdr2[new].magic = "FREE" /\ hdr2[new].next = next
       /\ hdr2[new].prev = node /\ hdr2[new].size = size
    BY <1>0, <1>1, <1>2, <1>3, <1>12 DEF Header, HeaderType
<1>15. /\ \A n \in C : EndOf(hdr2, n) = IF n = node THEN new ELSE EndOf(hdr, n)
       /\ EndOf(hdr2, new) = EndOf(hdr, node)
    BY <1>0, <1>3, <1>13, <1>14, Zenon DEF EndOf
<1>16. ASSUME NEW n \in C
       PROVE  Linked(hdr2, C2, last, n)
    <2>1. Linked(hdr, C, last, n) /\ Linked(hdr, C, last, node)
        BY <1>0, Zenon DEF Chain
    <2>2. hdr2[n] \in HeaderType /\ heap_bottom <= n /\ EndOf(hdr2, n) <= last
        BY <1>0, <1>1, <1>3, <1>13, <1>15, <2>1, SMTT(20) DEF Linked
    <2>3. IF hdr2[n].next = NULL THEN EndOf(hdr2, n) = last
          ELSE /\ hdr2[n].next \in C2 /\ hdr2[n].next = EndOf(hdr2, n)
               /\ hdr2[hdr2[n].next].prev = n
        <3>1. CASE n = node
            BY <1>0, <1>3, <1>13, <1>14, <1>15, <3>1, ZenonT(30)
        <3>2. CASE n # node
            <4>1. hdr2[n].next = hdr[n].next /\ EndOf(hdr2, n) = EndOf(hdr, n)
                BY <1>0, <1>13, <1>15, <3>2, Zenon
            <4>2. hdr[n].next # NULL => hdr[n].next # next
                BY <1>0, <1>2, <2>1, <3>2, Zenon DEF Linked
            <4> QED
                BY <1>0, <1>13, <2>1, <4>1, <4>2 DEF Linked
        <3> QED
            BY <1>0, <3>1, <3>2, Zenon
    <2>4. IF n = heap_bottom THEN hdr2[n].prev = NULL
          ELSE hdr2[n].prev \in C2 /\ hdr2[hdr2[n].prev].next = n
        <3>1. CASE n = next
            <4>1. n # heap_bottom
                BY <1>0, <1>1, <1>2, <1>4, <3>1, Neighbours
            <4> QED
                BY <1>0, <1>13, <1>14, <3>1, <4>1, Zenon
        <3>2. CASE n # next
            <4>1. hdr2[n].prev = hdr[n].prev
                BY <1>0, <1>13, <3>2, Zenon
            <4>2. n # heap_bottom => hdr[n].prev # node
                BY <1>0, <2>1, <3>2, Zenon DEF Linked, next
            <4> QED
                BY <1>0, <1>13, <2>1, <4>1, <4>2 DEF Linked
        <3> QED
            BY <1>0, <3>1, <3>2, Zenon
    <2> QED
        BY <1>0, <2>2, <2>3, <2>4, Zenon DEF Linked
<1>17. Linked(hdr2, C2, last, new)
    <2>1. new # heap_bottom /\ heap_bottom <= new
        BY <1>0, <1>1, <1>3, <1>5 DEF Chain
    <2>2. next # NULL => next \in C2 /\ hdr2[next].prev = new
        BY <1>0, <1>2, <1>13, Zenon
    <2>3. hdr2[node].next = new /\ node \in C2
        BY <1>0, <1>13, Zenon
    <2> QED
        BY <1>0, <1>1, <1>2, <1>14, <1>15, <2>1, <2>2, <2>3, Zenon DEF Linked
<1>18. \A n, m \in C2 : n < m => EndOf(hdr2, n) <= m
    <2> SUFFICES ASSUME NEW n \in C2, NEW m \in C2, n < m
                 PROVE  EndOf(hdr2, n) <= m
        BY Zenon
    <2>1. n \in Nat /\ m \in Nat
        BY <1>0, <1>3, <1>4, Zenon
    <2>2. \A i, j \in C : i < j => EndOf(hdr, i) <= j
        BY <1>0, Zenon DEF Chain
    <2>3. CASE n = new
        <3>1. m \in C /\ node < m
            BY <1>0, <1>1, <1>3, <2>1, <2>3
        <3> QED
            BY <1>0, <1>15, <2>2, <2>3, <3>1, Zenon
    <2>4. CASE m = new /\ n # new
        <3>1. n # node => n < node
            BY <1>0, <1>1, <1>3, <2>1, <2>2, <2>4
        <3>2. n # node => EndOf(hdr, n) <= node
            BY <1>0, <2>2, <2>4, <3>1, Zenon
        <3>3. EndOf(hdr, n) \in Nat
            BY <1>0, <1>4, <2>4 DEF EndOf, HeaderType, HEADER_SIZE
        <3> QED
            BY <1>0, <1>1, <1>3, <1>15, <2>4, <3>2, <3>3
    <2>5. CASE n \in C /\ m \in C
        <3>1. EndOf(hdr, n) <= m
            BY <1>0, <2>2, <2>5, Zenon
        <3> QED
            BY <1>0, <1>1, <1>3, <1>15, <2>1, <2>5, <3>1
    <2> QED
        BY <1>0, <2>3, <2>4, <2>5, Zenon
<1>19. Chain(hdr2, C2, last)
    BY <1>0, <1>3, <1>4, <1>9, <1>16, <1>17, <1>18, Zenon DEF Chain
<1>20. \A n \in DOMAIN hdr2 \ C2 : n \in DOMAIN hdr /\ hdr2[n] = hdr[n]
    BY <1>0, <1>2, <1>9, <1>10, Zenon
<1>21. hdr2[new].magic = "FREE" /\ hdr2[new].next = hdr[node].next
    BY <1>0, <1>14, Zenon DEF next
<1>22. \A n \in C \ {node} : /\ hdr2[n].magic = hdr[n].magic
                              /\ hdr2[n].next = hdr[n].next
                              /\ hdr2[n].size = hdr[n].size
    BY <1>0, <1>13, Zenon
<1>24. hdr2[node].magic = "USED" /\ hdr2[node].next = new /\ hdr2[node].size = alloc_size
    BY <1>0, <1>13, Zenon
<1>23. new \in Nat /\ node < new /\ new # NULL
    BY <1>3, Zenon
<1> QED
    BY <1>0, <1>5, <1>19, <1>20, <1>21, <1>22, <1>23, <1>24, Zenon

\* expand_heap, of the headers: the block that ends the heap at last gets a successor.
Grown(hdr, node, new, size) ==
    SetHeader(SetNext(hdr, node, new), new, Header("FREE", NULL, node, size))

\* What expand_heap writes puts a block behind the last one.
LEMMA GrownChain ==
    ASSUME NEW hdr, NEW C, NEW last \in Nat, Chain(hdr, C, last), NULL \notin DOMAIN hdr,
           NEW node \in C, hdr[node].next = NULL, NEW size \in Nat,
           NEW end, end = last + HEADER_SIZE + size,
           NEW C2, C2 = C \cup {last}, NEW hdr2, hdr2 = Grown(hdr, node, last, size)
    PROVE  /\ Chain(hdr2, C2, end) /\ end \in Nat /\ last < end
           /\ last \notin C /\ node < last /\ last # NULL
           /\ \A n \in DOMAIN hdr2 \ C2 : n \in DOMAIN hdr /\ hdr2[n] = hdr[n]
           /\ \A n \in C : /\ hdr2[n].magic = hdr[n].magic /\ hdr2[n].size = hdr[n].size
                            /\ hdr2[n].next = IF n = node THEN last ELSE hdr[n].next
           /\ hdr2[last].magic = "FREE" /\ hdr2[last].next = NULL
<1>1. \A n \in C : /\ hdr[n] \in HeaderType /\ n \in DOMAIN hdr /\ n \in Nat /\ n < last
                   /\ EndOf(hdr, n) <= last /\ EndOf(hdr, n) \in Nat /\ n # NULL
    BY Neighbours DEF HEADER_SIZE, HeaderType
<1>2. last \notin C /\ node < last /\ last # NULL /\ EndOf(hdr, node) = last
    BY <1>1, Neighbours DEF NULL
<1> DEFINE h1 == SetNext(hdr, node, last)
<1>3. /\ DOMAIN h1 = DOMAIN hdr
      /\ \A n \in DOMAIN hdr : n # node => h1[n] = hdr[n]
      /\ h1[node] = [hdr[node] EXCEPT !.next = last]
    BY <1>1, Zenon DEF SetNext
<1>4. hdr2 = SetHeader(h1, last, Header("FREE", NULL, node, size))
    BY Zenon DEF Grown
<1> HIDE DEF h1
<1>5. /\ DOMAIN hdr2 = DOMAIN hdr \cup {last}
      /\ \A n \in DOMAIN hdr : n # last => hdr2[n] = h1[n]
      /\ hdr2[last] = Header("FREE", NULL, node, size)
    BY <1>3, <1>4, Zenon DEF SetHeader
<1>6. ASSUME NEW n \in C
      PROVE  /\ hdr2[n] \in HeaderType
             /\ hdr2[n].magic = hdr[n].magic /\ hdr2[n].size = hdr[n].size
             /\ hdr2[n].next = IF n = node THEN last ELSE hdr[n].next
             /\ hdr2[n].prev = hdr[n].prev
    <2>1. n \in DOMAIN hdr /\ n # last /\ hdr2[n] = h1[n] /\ hdr[n] \in HeaderType
        BY <1>1, <1>2, <1>5, Zenon
    <2> QED
        BY <1>3, <2>1 DEF HeaderType
<1>7. /\ hdr2[last] \in HeaderType /\ hdr2[last].magic = "FREE" /\ hdr2[last].next = NULL
      /\ hdr2[last].prev = node /\ hdr2[last].size = size
    BY <1>1, <1>5 DEF Header, HeaderType, NULL
<1>8. /\ \A n \in C : EndOf(hdr2, n) = EndOf(hdr, n)
      /\ EndOf(hdr2, last) = end /\ end \in Nat /\ last < end
    BY <1>6, <1>7 DEF EndOf, HEADER_SIZE
<1>9. ASSUME NEW n \in C
      PROVE  Linked(hdr2, C2, end, n)
    <2>1. Linked(hdr, C, last, n)
        BY Zenon DEF Chain
    <2>2. hdr2[n] \in HeaderType /\ heap_bottom <= n /\ EndOf(hdr2, n) <= end
        BY <1>1, <1>6, <1>8, <2>1 DEF Linked
    <2>3. n # node => hdr[n].next # NULL
        <3>1. node < n => EndOf(hdr, node) <= n
            BY Zenon DEF Chain
        <3>2. n < node => EndOf(hdr, n) <= node
            BY Zenon DEF Chain
        <3>3. hdr[n].next = NULL => EndOf(hdr, n) = last
            BY <2>1, Zenon DEF Linked
        <3> QED
            BY <1>1, <1>2, <3>1, <3>2, <3>3
    <2>4. /\ hdr2[n].next # NULL
          /\ hdr2[n].next \in C2 /\ hdr2[n].next = EndOf(hdr2, n)
          /\ hdr2[hdr2[n].next].prev = n
        <3>1. CASE n = node
            BY <1>2, <1>6, <1>7, <1>8, <3>1, Zenon
        <3>2. CASE n # node
            BY <1>6, <1>8, <2>1, <2>3, <3>2 DEF Linked
        <3> QED
            BY <3>1, <3>2, Zenon
    <2>5. IF n = heap_bottom THEN hdr2[n].prev = NULL
          ELSE hdr2[n].prev \in C2 /\ hdr2[hdr2[n].prev].next = n
        <3>1. n # heap_bottom => hdr[n].prev # node
            BY <1>1, <2>1, Zenon DEF Linked
        <3> QED
            BY <1>6, <2>1, <3>1 DEF Linked
    <2> QED
        BY <2>2, <2>4, <2>5, Zenon DEF Linked
<1>10. Linked(hdr2, C2, end, last)
    <2>1. last # heap_bottom /\ heap_bottom <= last
        BY <1>1, <1>2 DEF Chain
    <2> QED
        BY <1>6, <1>7, <1>8, <2>1 DEF Linked
<1>11. \A n, m \in C2 : n < m => EndOf(hdr2, n) <= m
    <2> SUFFICES ASSUME NEW n \in C2, NEW m \in C2, n < m
                 PROVE  EndOf(hdr2, n) <= m
        BY Zenon
    <2>1. n \in C
        BY <1>1
    <2>2. m \in C => EndOf(hdr, n) <= m
        BY <2>1, Zenon DEF Chain
    <2> QED
        BY <1>1, <1>8, <2>1, <2>2, Zenon
<1>12. Chain(hdr2, C2, end)
    BY <1>1, <1>5, <1>9, <1>10, <1>11, Zenon DEF Chain
<1>13. \A n \in DOMAIN hdr2 \ C2 : n \in DOMAIN hdr /\ hdr2[n] = hdr[n]
    BY <1>2, <1>3, <1>5, Zenon
<1>14. \A n \in C : /\ hdr2[n].magic = hdr[n].magic /\ hdr2[n].size = hdr[n].size
                    /\ hdr2[n].next = IF n = node THEN last ELSE hdr[n].next
    BY <1>6, Zenon
<1>15. last \notin C /\ node < last /\ last # NULL /\ end \in Nat /\ last < end
    BY <1>2, <1>8, Zenon
<1>16. hdr2[last].magic = "FREE" /\ hdr2[last].next = NULL
    BY <1>7, Zenon
<1> QED
    BY <1>12, <1>13, <1>14, <1>15, <1>16, Zenon

-----------------------------------------------------------------------------
(***************************************************************************)
(* The heap: its chain, its free_node_list and what both say of the same   *)
(* blocks.                                                                 *)
(***************************************************************************)
IsHeap(h) ==
    h = [hdr |-> h.hdr, list |-> h.list, end |-> h.end, top |-> h.top, dropped |-> h.dropped]

AddrHeader == [magic : {"FREE", "USED"}, next : Addr \cup {NULL},
               prev : Addr \cup {NULL}, size : 0 .. heap_top - heap_bottom]

Typed(hdr) == DOMAIN hdr \subseteq Addr /\ \A n \in DOMAIN hdr : hdr[n] \in AddrHeader

\* C is the chain of the heap h, which ends at last.
Sound(h, C, last) ==
    /\ IsHeap(h) /\ Typed(h.hdr) /\ Chain(h.hdr, C, last)
    /\ last \in Nat /\ last <= heap_top
    /\ Ascending(h.list, list_size) /\ h.end \in Addr /\ h.dropped \in BOOLEAN

FreeIn(hdr, C) == {n \in C : hdr[n].magic = "FREE"}

\* free_node_list holds the free blocks of the chain; those of X may be missing.
Listed(h, C, X) ==
    /\ Items(h.list) \subseteq FreeIn(h.hdr, C)
    /\ ~h.dropped => FreeIn(h.hdr, C) \ X \subseteq Items(h.list)

\* No two free blocks are side by side, but for those of X.
Apart(hdr, C, X) ==
    \A n \in FreeIn(hdr, C) \ X : hdr[n].next \in FreeIn(hdr, C) => hdr[n].next \in X

\* The blocks in use stay as they are.
Kept(hdr, C, hdr2, C2) ==
    \A n \in C : hdr[n].magic = "USED" =>
        n \in C2 /\ hdr2[n].magic = "USED" /\ hdr2[n].size = hdr[n].size

\* The heap with some of its fields replaced.
LEMMA HeapFields ==
    ASSUME NEW h, IsHeap(h), NEW hdr, NEW list, NEW end, NEW g,
           g = [h EXCEPT !.hdr = hdr, !.list = list, !.end = end]
    PROVE  g = [hdr |-> hdr, list |-> list, end |-> end, top |-> h.top, dropped |-> h.dropped]
BY Zenon DEF IsHeap

\* The same for hdr and top, and for end alone.
LEMMA HeapTop ==
    ASSUME NEW h, IsHeap(h), NEW hdr, NEW top, NEW g, g = [h EXCEPT !.hdr = hdr, !.top = top]
    PROVE  g = [hdr |-> hdr, list |-> h.list, end |-> h.end, top |-> top, dropped |-> h.dropped]
BY Zenon DEF IsHeap

\* A heap whose end moves is the same heap in every other field.
LEMMA HeapEnd ==
    ASSUME NEW h, IsHeap(h), NEW end, NEW g, g = [h EXCEPT !.end = end]
    PROVE  g = [hdr |-> h.hdr, list |-> h.list, end |-> end, top |-> h.top,
                dropped |-> h.dropped]
BY Zenon DEF IsHeap

\* The words of the heap are finitely many, and NULL is not one of them.
LEMMA AddrFacts ==
    /\ heap_bottom \in Nat /\ heap_bottom > 0 /\ heap_top \in Nat /\ IsFiniteSet(Addr)
    /\ NULL \notin Addr /\ Addr \subseteq Nat
<1>1. heap_bottom \in Nat /\ heap_bottom > 0 /\ heap_top \in Nat
    BY HeapAssumption
<1>2. IsFiniteSet(Addr)
    BY <1>1, FS_Interval DEF Addr
<1> QED
    BY <1>1, <1>2 DEF Addr, NULL

\* So are the headers.
LEMMA TypedFacts ==
    ASSUME NEW hdr, Typed(hdr)
    PROVE  IsFiniteSet(DOMAIN hdr) /\ NULL \notin DOMAIN hdr
BY AddrFacts, FS_Subset, Zenon DEF Typed

\* The headers of a chain that ends in the heap have their types.
LEMMA ChainTyped ==
    ASSUME NEW hdr, NEW C, NEW last \in Nat, Chain(hdr, C, last), last <= heap_top,
           NEW n \in C
    PROVE  n \in Addr /\ hdr[n] \in AddrHeader
<1>1. \A m \in C : m \in Addr
    BY AddrFacts, Neighbours DEF Addr, HeaderType, HEADER_SIZE
<1>2. hdr[n].size \in 0 .. heap_top - heap_bottom
    BY AddrFacts, Neighbours DEF HeaderType, HEADER_SIZE
<1>3. hdr[n].next \in Addr \cup {NULL} /\ hdr[n].prev \in Addr \cup {NULL}
    BY <1>1, Neighbours, Zenon
<1>4. hdr[n] \in HeaderType
    BY Neighbours, Zenon
<1> QED
    BY <1>1, <1>2, <1>3, <1>4, Zenon DEF HeaderType, AddrHeader

\* Headers that change only in the chain keep their types.
LEMMA TypedAfter ==
    ASSUME NEW hdr, Typed(hdr), NEW hdr2, NEW C, NEW last \in Nat, last <= heap_top,
           Chain(hdr2, C, last),
           \A n \in DOMAIN hdr2 \ C : n \in DOMAIN hdr /\ hdr2[n] = hdr[n]
    PROVE  Typed(hdr2)
<1>1. \A n \in C : n \in Addr /\ hdr2[n] \in AddrHeader
    BY ChainTyped, Zenon
<1> QED
    BY <1>1, Zenon DEF Typed

\* insert_list lists a block that was missing, or the heap notes that the list was full.
LEMMA InsertFreeKeeps ==
    ASSUME NEW h, NEW C, NEW last, Sound(h, C, last), NEW X, Listed(h, C, X),
           NEW node \in FreeIn(h.hdr, C), NEW g, g = InsertFree(h, node)
    PROVE  /\ Sound(g, C, last) /\ Listed(g, C, X \ {node})
           /\ g.hdr = h.hdr /\ g.end = h.end /\ g.top = h.top
<1>1. g = [hdr |-> h.hdr, list |-> insert_list(h.list, node), end |-> h.end, top |-> h.top,
           dropped |-> h.dropped \/ (Full(h.list) /\ node \notin Items(h.list))]
    BY Zenon DEF Sound, IsHeap, InsertFree
<1>2. node \in Nat \ {0} /\ list_size \in Nat
    BY Neighbours, HeapAssumption DEF Sound, FreeIn, NULL
<1>3. /\ Ascending(insert_list(h.list, node), list_size)
      /\ Items(insert_list(h.list, node)) = IF Full(h.list) THEN Items(h.list)
                                            ELSE Items(h.list) \cup {node}
    BY <1>2, InsertKeepsOrder, Zenon DEF Sound
<1>4. Sound(g, C, last)
    BY <1>1, <1>3 DEF Sound, IsHeap
<1>5. Items(g.list) \subseteq FreeIn(g.hdr, C)
    BY <1>1, <1>3 DEF Listed
<1>6. ASSUME ~g.dropped
      PROVE  FreeIn(g.hdr, C) \ (X \ {node}) \subseteq Items(g.list)
    <2>1. g.dropped = (h.dropped \/ (Full(h.list) /\ node \notin Items(h.list)))
        BY <1>1
    <2>2. ~h.dropped /\ (~Full(h.list) \/ node \in Items(h.list))
        BY <1>6, <2>1, Zenon
    <2>3. FreeIn(h.hdr, C) \ X \subseteq Items(h.list)
        BY <2>2, Zenon DEF Listed
    <2>4. Items(g.list) = Items(h.list) \cup {node}
        BY <1>1, <1>3, <2>2
    <2>5. g.hdr = h.hdr
        BY <1>1
    <2> QED
        BY <2>3, <2>4, <2>5, Zenon
<1> QED
    BY <1>1, <1>4, <1>5, <1>6 DEF Listed

\* Of two neighbours that are merged, the left one may be missing in free_node_list until
\* heap_merge_nodes inserts it again.
LEMMA AbsorbKeeps ==
    ASSUME NEW h, NEW C, NEW last, Sound(h, C, last), NEW X, Listed(h, C, X),
           NEW left \in C, NEW right \in C, h.hdr[left].next = right,
           NEW g, g = Absorb(h, left, right)
    PROVE  /\ Sound(g, C \ {right}, last) /\ Listed(g, C \ {right}, X \cup {left})
           /\ g.hdr = Absorbed(h.hdr, left, right) /\ g.end = h.end /\ g.top = h.top
<1> DEFINE hdr == h.hdr
           hdr2 == Absorbed(hdr, left, right)
           C2 == C \ {right}
           list2 == remove_list(remove_list(h.list, left), right)
<1>1. g = [hdr |-> hdr2, list |-> list2, end |-> h.end, top |-> h.top, dropped |-> h.dropped]
    BY Zenon DEF Sound, IsHeap, Absorb, Absorbed
<1>2. Chain(hdr, C, last) /\ last \in Nat /\ NULL \notin DOMAIN hdr /\ last <= heap_top
    BY TypedFacts, Zenon DEF Sound
<1>3. /\ Chain(hdr2, C2, last) /\ DOMAIN hdr2 = DOMAIN hdr
      /\ \A n \in DOMAIN hdr \ C : hdr2[n] = hdr[n]
      /\ hdr2[right] = hdr[right]
      /\ \A n \in C2 : hdr2[n].magic = IF n = left THEN "FREE" ELSE hdr[n].magic
    BY <1>2, AbsorbedChain
<1> HIDE DEF hdr2
<1>4. Typed(hdr2)
    <2>1. \A n \in DOMAIN hdr2 \ C2 : n \in DOMAIN hdr /\ hdr2[n] = hdr[n]
        BY <1>3, Zenon
    <2>2. Typed(hdr)
        BY Zenon DEF Sound
    <2> HIDE DEF hdr, C2
    <2> QED
        BY <1>2, <1>3, <2>1, <2>2, TypedAfter, Zenon
<1>5. left \in Nat \ {0} /\ right \in Nat \ {0} /\ list_size \in Nat
    BY <1>2, Neighbours, HeapAssumption, SMTT(20) DEF NULL
<1>6. Ascending(list2, list_size) /\ Items(list2) = Items(h.list) \ {left, right}
    <2>1. /\ Ascending(remove_list(h.list, left), list_size)
          /\ Items(remove_list(h.list, left)) = Items(h.list) \ {left}
        BY <1>5, RemoveKeepsOrder, Zenon DEF Sound
    <2>2. /\ Ascending(list2, list_size)
          /\ Items(list2) = Items(remove_list(h.list, left)) \ {right}
        BY <1>5, <2>1, RemoveKeepsOrder, ZenonT(30)
    <2> QED
        BY <2>1, <2>2, Zenon
<1> HIDE DEF list2
<1>7. Sound(g, C2, last)
    BY <1>1, <1>3, <1>4, <1>6 DEF Sound, IsHeap
<1>8. Items(list2) \subseteq FreeIn(hdr2, C2)
    BY <1>3, <1>6, Zenon DEF Listed, FreeIn
<1>9. ~h.dropped => FreeIn(hdr2, C2) \ (X \cup {left}) \subseteq Items(list2)
    BY <1>3, <1>6, Zenon DEF Listed, FreeIn
<1> QED
    BY <1>1, <1>7, <1>8, <1>9 DEF Listed, hdr2

\* heap_merge_nodes, from a heap in which only the block node has a free neighbour and
\* only it may be missing in free_node_list.
LEMMA MergeKeeps ==
    ASSUME NEW h, NEW C, NEW last, Sound(h, C, last), NEW node \in FreeIn(h.hdr, C),
           Listed(h, C, {node}), Apart(h.hdr, C, {node}),
           NEW g, g = heap_merge_nodes(h, node)
    PROVE  /\ g.end = h.end /\ g.top = h.top
           /\ \E C2 \in SUBSET C : /\ Sound(g, C2, last) /\ Listed(g, C2, {})
                                   /\ Apart(g.hdr, C2, {}) /\ Kept(h.hdr, C, g.hdr, C2)
<1> DEFINE hdr == h.hdr
           nl == hdr[node].prev
           nr == hdr[node].next
           r == IF IsFree(h, nr) THEN Absorb(h, node, nr) ELSE h
           b == IF IsFree(h, nl) THEN Absorb(r, nl, node) ELSE r
           m == IF IsFree(h, nl) THEN nl ELSE node
           C1 == IF IsFree(h, nr) THEN C \ {nr} ELSE C
           C2 == IF IsFree(h, nl) THEN C1 \ {node} ELSE C1
<1>1. g = InsertFree(b, m)
    BY Zenon DEF heap_merge_nodes
<1>2. /\ Chain(hdr, C, last) /\ last \in Nat /\ NULL \notin DOMAIN hdr
      /\ node \in C /\ hdr[node].magic = "FREE"
    BY TypedFacts, ZenonT(30) DEF Sound, FreeIn
<1>3. /\ node \in Nat /\ nl \in Nat /\ nr \in Nat /\ node \in DOMAIN hdr
      /\ IsFree(h, nr) => nr \in C /\ node < nr /\ nr # NULL /\ nr \in FreeIn(hdr, C)
      /\ IsFree(h, nl) => /\ nl \in C /\ nl < node /\ hdr[nl].next = node
                          /\ nl \in FreeIn(hdr, C)
      /\ nr # NULL => nr \in C /\ nr \in DOMAIN hdr
      /\ nl # NULL => nl \in C /\ nl \in DOMAIN hdr
    BY <1>2, Neighbours, SMTT(20) DEF IsFree, FreeIn, HeaderType
<1> HIDE DEF b, m, nl, nr
\* The block on the right.
<1>4. /\ Sound(r, C1, last) /\ Listed(r, C1, {node}) /\ r.end = h.end /\ r.top = h.top
      /\ \A n \in C1 : /\ r.hdr[n].magic = hdr[n].magic
                       /\ n # node => r.hdr[n].next = hdr[n].next /\ r.hdr[n].size = hdr[n].size
      /\ r.hdr[node].prev = nl /\ node \in C1
      /\ r.hdr[node].next \notin FreeIn(r.hdr, C1)
    <2>1. CASE ~IsFree(h, nr)
        <3>1. nr \notin FreeIn(hdr, C)
            BY <1>2, <2>1, Zenon DEF IsFree, FreeIn, Chain
        <3> QED
            BY <1>2, <2>1, <3>1, ZenonT(30) DEF nl, nr
    <2>2. CASE IsFree(h, nr)
        <3> DEFINE nn == hdr[nr].next
        <3>1. r = Absorb(h, node, nr) /\ C1 = C \ {nr}
            BY <2>2, Zenon
        <3> HIDE DEF r, C1
        <3>2. nr \in C /\ hdr[node].next = nr /\ nr \in FreeIn(hdr, C) /\ node < nr
            BY <1>3, <2>2, Zenon DEF nr
        <3>3. /\ Sound(r, C1, last) /\ Listed(r, C1, {node}) /\ r.end = h.end /\ r.top = h.top
              /\ r.hdr = Absorbed(hdr, node, nr)
            <4>1. /\ Sound(r, C \ {nr}, last) /\ Listed(r, C \ {nr}, {node} \cup {node})
                  /\ r.end = h.end /\ r.top = h.top /\ r.hdr = Absorbed(hdr, node, nr)
                BY <1>2, <3>1, <3>2, AbsorbKeeps
            <4>2. {node} \cup {node} = {node}
                BY Zenon
            <4> QED
                BY <3>1, <4>1, <4>2, Zenon
        <3>4. \A n \in C1 :
                 /\ r.hdr[n].magic = IF n = node THEN "FREE" ELSE hdr[n].magic
                 /\ r.hdr[n].next = IF n = node THEN nn ELSE hdr[n].next
                 /\ r.hdr[n].prev = IF n = nn THEN node ELSE hdr[n].prev
                 /\ n # node => r.hdr[n].size = hdr[n].size
            BY <1>2, <3>1, <3>2, <3>3, AbsorbedChain, SMTT(20)
        <3>5. nn \in Nat /\ (nn # NULL => nr < nn)
            BY <1>2, <3>2, Neighbours, SMTT(20) DEF HeaderType
        <3>6. node # nn /\ node \in C1 /\ nr # node /\ node # NULL
            BY <1>2, <1>3, <3>1, <3>2, <3>5, Neighbours, SMTT(20)
        <3>7. nn \notin FreeIn(hdr, C)
            <4>1. nn \in FreeIn(hdr, C) => nn \in {node}
                BY <3>2, <3>6, Zenon DEF Apart
            <4> QED
                BY <3>6, <4>1, Zenon
        <3>8. r.hdr[node].prev = nl /\ r.hdr[node].next = nn
            BY <3>4, <3>6, Zenon DEF nl
        <3>9. FreeIn(r.hdr, C1) \subseteq FreeIn(hdr, C)
            BY <1>2, <3>1, <3>4, Zenon DEF FreeIn
        <3>10. \A n \in C1 :
                  /\ r.hdr[n].magic = hdr[n].magic
                  /\ n # node => r.hdr[n].next = hdr[n].next /\ r.hdr[n].size = hdr[n].size
            BY <1>2, <3>4
        <3>11. r.hdr[node].next \notin FreeIn(r.hdr, C1)
            BY <3>7, <3>8, <3>9, Zenon
        <3> QED
            BY <3>3, <3>6, <3>8, <3>10, <3>11, Zenon
    <2> QED
        BY <2>1, <2>2, ZenonT(30)
<1> HIDE DEF r
<1>5. C1 \subseteq C /\ C \ C1 \subseteq FreeIn(hdr, C)
    BY <1>3, Zenon
<1>6. Chain(r.hdr, C1, last) /\ NULL \notin DOMAIN r.hdr
    BY <1>4, TypedFacts, Zenon DEF Sound
<1>7. Apart(r.hdr, C1, {node})
    <2>1. \A n \in FreeIn(r.hdr, C1) : n \in FreeIn(hdr, C)
        BY <1>4, <1>5, Zenon DEF FreeIn
    <2>2. \A n \in FreeIn(r.hdr, C1) \ {node} : r.hdr[n].next = hdr[n].next
        BY <1>4, Zenon DEF FreeIn
    <2> QED
        BY <2>1, <2>2, ZenonT(30) DEF Apart
<1>8. IsFree(h, nl) => nl \in C1 /\ r.hdr[nl].next = node /\ nl # node
    BY <1>3, <1>4, SMTT(20) DEF IsFree
<1> HIDE DEF C1
\* The block on the left.
<1>9. /\ Sound(b, C2, last) /\ Listed(b, C2, {m}) /\ b.end = h.end /\ b.top = h.top
      /\ m \in FreeIn(b.hdr, C2) /\ Apart(b.hdr, C2, {})
      /\ C2 \subseteq C1 /\ C1 \ C2 \subseteq {node}
      /\ \A n \in C2 : /\ b.hdr[n].magic = r.hdr[n].magic
                       /\ n # m => b.hdr[n].size = r.hdr[n].size
    <2>1. CASE ~IsFree(h, nl)
        <3>1. b = r /\ m = node /\ C2 = C1
            BY <2>1, Zenon DEF b, m
        <3> HIDE DEF C2
        <3>2. m \in FreeIn(b.hdr, C2)
            BY <1>2, <1>4, <3>1, Zenon DEF FreeIn
        <3>3. ASSUME NEW n \in FreeIn(r.hdr, C1), r.hdr[n].next \in FreeIn(r.hdr, C1)
              PROVE  FALSE
            <4>1. n # node /\ r.hdr[n].next = node /\ n \in C1
                BY <1>4, <1>7, <3>3, ZenonT(30) DEF Apart, FreeIn
            <4>2. r.hdr[node].prev = n /\ node # NULL
                BY <1>4, <1>6, <1>2, <4>1, Neighbours, SMTT(20)
            <4>3. n = nl /\ hdr[nl].magic = "FREE" /\ nl \in DOMAIN hdr
                BY <1>2, <1>4, <1>5, <3>3, <4>1, <4>2, Zenon DEF FreeIn, Chain
            <4> QED
                BY <2>1, <4>3, Zenon DEF IsFree
        <3>4. Apart(b.hdr, C2, {})
            BY <3>1, <3>3, Zenon DEF Apart
        <3> QED
            BY <1>4, <3>1, <3>2, <3>4, Zenon
    <2>2. CASE IsFree(h, nl)
        <3> DEFINE nn == r.hdr[node].next
        <3>1. b = Absorb(r, nl, node) /\ m = nl /\ C2 = C1 \ {node}
            BY <2>2, Zenon DEF b, m
        <3> HIDE DEF C2
        <3>2. /\ nl \in C1 /\ r.hdr[nl].next = node /\ nl # node /\ node \in C1
              /\ r.hdr[nl].magic = "FREE"
            BY <1>3, <1>4, <1>8, <2>2, Zenon DEF FreeIn
        <3>3. /\ Sound(b, C2, last) /\ Listed(b, C2, {node} \cup {nl})
              /\ b.end = r.end /\ b.top = r.top /\ b.hdr = Absorbed(r.hdr, nl, node)
            <4> DEFINE X == {node}
            <4>1. Sound(r, C1, last) /\ Listed(r, C1, X)
                BY <1>4, Zenon
            <4> HIDE DEF X
            <4>2. /\ Sound(b, C1 \ {node}, last) /\ Listed(b, C1 \ {node}, X \cup {nl})
                  /\ b.end = r.end /\ b.top = r.top /\ b.hdr = Absorbed(r.hdr, nl, node)
                BY <3>1, <3>2, <4>1, AbsorbKeeps, SMTT(20)
            <4> QED
                BY <3>1, <4>2, Zenon DEF X
        <3>4. \A n \in C2 :
                 /\ b.hdr[n].magic = IF n = nl THEN "FREE" ELSE r.hdr[n].magic
                 /\ b.hdr[n].next = IF n = nl THEN nn ELSE r.hdr[n].next
                 /\ n # nl => b.hdr[n].size = r.hdr[n].size
            <4>1. b.hdr = Absorbed(r.hdr, nl, node) /\ C2 = C1 \ {node}
                BY <3>1, <3>3, Zenon
            <4>2. \A n \in C1 \ {node} :
                     /\ b.hdr[n].magic = IF n = nl THEN "FREE" ELSE r.hdr[n].magic
                     /\ b.hdr[n].next = IF n = nl THEN nn ELSE r.hdr[n].next
                     /\ n # nl => b.hdr[n].size = r.hdr[n].size
                BY <1>2, <1>6, <3>2, <4>1, AbsorbedChain, SMTT(20)
            <4> QED
                BY <4>1, <4>2, Zenon
        <3>5. Listed(b, C2, {m})
            BY <3>1, <3>3, Zenon DEF Listed, FreeIn
        <3>6. m \in FreeIn(b.hdr, C2)
            BY <3>1, <3>2, <3>4, Zenon DEF FreeIn
        <3>7. \A n \in C2 : b.hdr[n].magic = r.hdr[n].magic
            BY <3>2, <3>4, Zenon
        <3>8. FreeIn(b.hdr, C2) \subseteq FreeIn(r.hdr, C1) \ {node}
            BY <3>1, <3>7, Zenon DEF FreeIn
        <3>9. ASSUME NEW n \in FreeIn(b.hdr, C2), b.hdr[n].next \in FreeIn(b.hdr, C2)
              PROVE  FALSE
            <4>1. n \in C2 /\ n \in FreeIn(r.hdr, C1) /\ n # node
                BY <3>8, Zenon DEF FreeIn
            <4>2. n # nl
                BY <1>4, <3>4, <3>8, <3>9, <4>1, Zenon
            <4>3. b.hdr[n].next = r.hdr[n].next
                BY <3>4, <4>1, <4>2, Zenon
            <4>4. r.hdr[n].next = node
                BY <1>7, <3>8, <3>9, <4>1, <4>3, Zenon DEF Apart
            <4> QED
                BY <3>8, <3>9, <4>3, <4>4, Zenon
        <3>10. Apart(b.hdr, C2, {})
            BY <3>9, Zenon DEF Apart
        <3> QED
            BY <1>4, <3>1, <3>3, <3>4, <3>5, <3>6, <3>7, <3>10, Zenon
    <2> QED
        BY <2>1, <2>2, ZenonT(30)
<1> HIDE DEF C2
<1>10. /\ Sound(g, C2, last) /\ Listed(g, C2, {m} \ {m})
       /\ g.hdr = b.hdr /\ g.end = b.end /\ g.top = b.top
    BY <1>1, <1>9, InsertFreeKeeps
<1>11. {m} \ {m} = {}
    BY Zenon
<1>12. Kept(hdr, C, g.hdr, C2)
    <2> SUFFICES ASSUME NEW n \in C, hdr[n].magic = "USED"
                 PROVE  n \in C2 /\ g.hdr[n].magic = "USED" /\ g.hdr[n].size = hdr[n].size
        BY Zenon DEF Kept
    <2>1. n \in C1 /\ n # node
        BY <1>2, <1>5, Zenon DEF FreeIn
    <2>2. n \in C2 /\ b.hdr[n].magic = "USED" /\ n # m
        BY <1>4, <1>9, <2>1, Zenon DEF FreeIn
    <2> QED
        BY <1>4, <1>9, <1>10, <2>1, <2>2, Zenon
<1> QED
    BY <1>5, <1>9, <1>10, <1>11, <1>12, ZenonT(30)
=============================================================================
