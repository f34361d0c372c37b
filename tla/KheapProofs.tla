---------------------------- MODULE KheapProofs ----------------------------
(***************************************************************************)
(* Proofs about the kernel heap, for every heap, list and expansion size   *)
(* and every sequence of calls: the chain, free_node_list and the blocks   *)
(* that callers hold agree after every kmalloc and kfree, and the heap     *)
(* implements the abstract allocator.                                      *)
(***************************************************************************)
EXTENDS KheapChainProofs

\* What is said of a heap depends on the headers of the chain alone.
LEMMA SameOnChain ==
    ASSUME NEW h, NEW C, NEW last, Chain(h.hdr, C, last), NEW g, NEW X,
           \A n \in C : g.hdr[n] = h.hdr[n], g.list = h.list, g.dropped = h.dropped
    PROVE  /\ Listed(h, C, X) => Listed(g, C, X)
           /\ Apart(h.hdr, C, X) => Apart(g.hdr, C, X)
<1>1. FreeIn(g.hdr, C) = FreeIn(h.hdr, C)
    BY Zenon DEF FreeIn
<1>2. \A n \in FreeIn(h.hdr, C) : g.hdr[n].next = h.hdr[n].next
    BY Zenon DEF FreeIn
<1>3. Listed(h, C, X) => Listed(g, C, X)
    BY <1>1, Zenon DEF Listed
<1>4. Apart(h.hdr, C, X) => Apart(g.hdr, C, X)
    BY <1>1, <1>2, Zenon DEF Apart
<1> QED
    BY <1>3, <1>4, Zenon

\* Forgetting the headers that were merged away.
LEMMA ReachableKeeps ==
    ASSUME NEW h, NEW C, NEW last, Sound(h, C, last), NEW g, g = Reachable(h)
    PROVE  /\ Sound(g, C, last) /\ Walk(g.hdr) = C /\ \A n \in C : g.hdr[n] = h.hdr[n]
           /\ g.list = h.list /\ g.end = h.end /\ g.top = h.top /\ g.dropped = h.dropped
<1> DEFINE kept == Walk(h.hdr) \cup Items(h.list) \cup (IF EndIntact(h) THEN {h.end} ELSE {})
           hdr2 == [n \in DOMAIN h.hdr \cap kept |-> h.hdr[n]]
<1>1. g = [hdr |-> hdr2, list |-> h.list, end |-> h.end, top |-> h.top, dropped |-> h.dropped]
    BY Zenon DEF Sound, IsHeap, Reachable
<1>2. Chain(h.hdr, C, last) /\ Typed(h.hdr) /\ last \in Nat
    BY Zenon DEF Sound
<1>3. C \subseteq kept /\ C \subseteq DOMAIN h.hdr
    <2>1. Walk(h.hdr) = C
        BY <1>2, TypedFacts, WalkIs, Zenon
    <2> QED
        BY <1>2, <2>1, Zenon DEF Chain
<1> HIDE DEF kept
<1>4. C \subseteq DOMAIN hdr2 /\ \A n \in DOMAIN hdr2 : n \in DOMAIN h.hdr /\ hdr2[n] = h.hdr[n]
    BY <1>3, Zenon
<1> HIDE DEF hdr2
<1>5. \A n \in C : hdr2[n] = h.hdr[n] /\ h.hdr[n] \in HeaderType
    BY <1>2, <1>4, Zenon DEF Chain, Linked
<1>6. Chain(hdr2, C, last)
    BY <1>2, <1>4, <1>5, SameLinks, Zenon
<1>7. Typed(hdr2)
    BY <1>2, <1>4, Zenon DEF Typed
<1>8. Walk(hdr2) = C
    BY <1>2, <1>6, <1>7, TypedFacts, WalkIs, Zenon
<1>9. Sound(g, C, last)
    BY <1>1, <1>6, <1>7 DEF Sound, IsHeap
<1> QED
    BY <1>1, <1>5, <1>8, <1>9

\* heap_split_node when too little would be left over: the block is used whole.
LEMMA UseWholeKeeps ==
    ASSUME NEW h, NEW C, NEW last, Sound(h, C, last), Listed(h, C, {}), Apart(h.hdr, C, {}),
           NEW node \in Items(h.list), NEW left, NEW zero,
           NEW g, g = UseWhole(h, node, left, zero)
    PROVE  /\ Sound(g, C, last) /\ Listed(g, C, {}) /\ Apart(g.hdr, C, {})
           /\ Kept(h.hdr, C, g.hdr, C) /\ node \in C /\ h.hdr[node].magic = "FREE"
           /\ g.hdr[node].magic = "USED" /\ g.hdr[node].size = h.hdr[node].size
           /\ g.top = h.top
<1> DEFINE hdr == h.hdr
           hdr2 == SetHeader(hdr, node, Header("USED", hdr[node].next, hdr[node].prev,
                                               hdr[node].size))
           list2 == remove_list(h.list, node)
<1>1. \E e \in {h.end, node} :
         g = [hdr |-> hdr2, list |-> list2, end |-> e, top |-> h.top, dropped |-> h.dropped]
    BY Zenon DEF Sound, IsHeap, UseWhole
<1>2. /\ Chain(hdr, C, last) /\ last \in Nat /\ node \in C /\ hdr[node].magic = "FREE"
      /\ last <= heap_top /\ Typed(hdr)
    BY Zenon DEF Sound, Listed, FreeIn
<1>3. node \in DOMAIN hdr /\ hdr[node] \in HeaderType /\ node \in Nat \ {0} /\ node \in Addr
    BY <1>2, Neighbours, ChainTyped DEF NULL
<1>4. /\ DOMAIN hdr2 = DOMAIN hdr /\ \A n \in DOMAIN hdr : n # node => hdr2[n] = hdr[n]
      /\ hdr2[node] = Header("USED", hdr[node].next, hdr[node].prev, hdr[node].size)
    BY <1>3, Zenon DEF SetHeader
<1> HIDE DEF hdr2
<1>5. /\ hdr2[node] \in HeaderType /\ hdr2[node].magic = "USED"
      /\ hdr2[node].next = hdr[node].next /\ hdr2[node].prev = hdr[node].prev
      /\ hdr2[node].size = hdr[node].size
    BY <1>3, <1>4 DEF Header, HeaderType
<1>6. Chain(hdr2, C, last)
    <2>1. C \subseteq DOMAIN hdr2
        BY <1>2, <1>4, Zenon DEF Chain
    <2>2. \A n \in C : hdr[n] \in HeaderType /\ n \in DOMAIN hdr
        BY <1>2, Zenon DEF Chain, Linked
    <2>3. \A n \in C : /\ hdr2[n] \in HeaderType /\ hdr2[n].next = hdr[n].next
                       /\ hdr2[n].prev = hdr[n].prev /\ hdr2[n].size = hdr[n].size
        BY <1>4, <1>5, <2>2, Zenon
    <2> HIDE DEF hdr
    <2> QED
        BY <1>2, <2>1, <2>3, SameLinks, Zenon
<1>7. Typed(hdr2)
    <2>1. \A n \in DOMAIN hdr2 \ C : n \in DOMAIN hdr /\ hdr2[n] = hdr[n]
        BY <1>2, <1>4, Zenon
    <2> HIDE DEF hdr
    <2> QED
        BY <1>2, <1>6, <2>1, TypedAfter, Zenon
<1>8. Ascending(list2, list_size) /\ Items(list2) = Items(h.list) \ {node}
    BY <1>3, RemoveKeepsOrder, HeapAssumption, Zenon DEF Sound
<1> HIDE DEF list2
<1>9. FreeIn(hdr2, C) = FreeIn(hdr, C) \ {node}
    BY <1>2, <1>4, <1>5, Zenon DEF FreeIn, Chain
<1>10. Sound(g, C, last)
    BY <1>1, <1>3, <1>6, <1>7, <1>8 DEF Sound, IsHeap
<1>11. g.hdr = hdr2 /\ g.list = list2 /\ g.top = h.top /\ g.dropped = h.dropped
    BY <1>1
<1>12. Listed(g, C, {})
    BY <1>8, <1>9, <1>11, Zenon DEF Listed
<1>13. Apart(hdr2, C, {})
    <2>1. \A n \in FreeIn(hdr, C) \ {node} : hdr2[n].next = hdr[n].next
        BY <1>2, <1>4, Zenon DEF FreeIn, Chain
    <2> QED
        BY <1>9, <2>1, Zenon DEF Apart
<1>14. Kept(hdr, C, hdr2, C)
    BY <1>2, <1>4, Zenon DEF Kept, Chain
<1> QED
    BY <1>2, <1>5, <1>10, <1>11, <1>12, <1>13, <1>14, Zenon

\* heap_split_node when the rest becomes a free block of its own.
LEMMA CarveKeeps ==
    ASSUME NEW h, NEW C, NEW last, Sound(h, C, last), Listed(h, C, {}), Apart(h.hdr, C, {}),
           NEW node \in Items(h.list), NEW size \in Nat,
           h.hdr[node].size - size > HEADER_SIZE, NEW g, g = Carve(h, node, size)
    PROVE  /\ \E C2 : /\ Sound(g, C2, last) /\ Listed(g, C2, {}) /\ Apart(g.hdr, C2, {})
                      /\ Kept(h.hdr, C, g.hdr, C2) /\ node \in C2
           /\ node \in C /\ h.hdr[node].magic = "FREE"
           /\ g.hdr[node].magic = "USED" /\ g.hdr[node].size = size /\ g.top = h.top
<1> DEFINE hdr == h.hdr
           new == node + size + HEADER_SIZE
           hdr2 == Carved(hdr, node, size)
           list2 == remove_list(h.list, node)
           C2 == C \cup {new}
           e == IF hdr[node].next = NULL THEN new ELSE h.end
           k == [hdr |-> hdr2, list |-> list2, end |-> e, top |-> h.top, dropped |-> h.dropped]
<1>1. g = InsertFree(k, new)
    <2>1. g = InsertFree([h EXCEPT !.hdr = hdr2, !.list = list2, !.end = e], new)
        BY Zenon DEF Carve, Carved
    <2> HIDE DEF hdr2, list2, e
    <2> DEFINE k2 == [h EXCEPT !.hdr = hdr2, !.list = list2, !.end = e]
    <2>2. k2 = [h EXCEPT !.hdr = hdr2, !.list = list2, !.end = e] /\ g = InsertFree(k2, new)
        BY <2>1, Zenon
    <2> HIDE DEF k2
    <2>3. IsHeap(h)
        BY Zenon DEF Sound
    <2>4. k2 = k
        BY <2>2, <2>3, HeapFields, Zenon
    <2> QED
        BY <2>2, <2>4, Zenon
<1>2. /\ Chain(hdr, C, last) /\ last \in Nat /\ node \in C /\ hdr[node].magic = "FREE"
      /\ last <= heap_top /\ Typed(hdr) /\ NULL \notin DOMAIN hdr
    BY TypedFacts, Zenon DEF Sound, Listed, FreeIn
<1>3. node \in Nat \ {0} /\ hdr[node].next \notin FreeIn(hdr, C) /\ hdr[node].next # node
    BY <1>2, Neighbours DEF NULL, Apart, FreeIn
<1>4. /\ Chain(hdr2, C2, last)
      /\ new \notin C /\ new \in Nat /\ new # NULL
      /\ \A n \in DOMAIN hdr2 \ C2 : n \in DOMAIN hdr /\ hdr2[n] = hdr[n]
      /\ \A n \in C \ {node} : /\ hdr2[n].magic = hdr[n].magic
                               /\ hdr2[n].next = hdr[n].next
                               /\ hdr2[n].size = hdr[n].size
      /\ hdr2[node].magic = "USED" /\ hdr2[node].next = new /\ hdr2[node].size = size
      /\ hdr2[new].magic = "FREE" /\ hdr2[new].next = hdr[node].next
    <2>1. new = RestAt(node, size) /\ HasRest(hdr, C, last, node, size)
        BY <1>2, Zenon DEF RestAt, HasRest
    <2> HIDE DEF new, hdr, C2, hdr2
    <2>2. C2 = C \cup {new} /\ hdr2 = Carved(hdr, node, size)
        BY Zenon DEF C2, hdr2
    <2> QED
        BY <2>1, <2>2, CarvedChain
<1> HIDE DEF hdr2, new
<1>5. Typed(hdr2)
    <2> HIDE DEF hdr, C2
    <2> QED
        BY <1>2, <1>4, TypedAfter, Zenon
<1>6. new \in Addr /\ e \in Addr
    <2>1. new \in C2 /\ Chain(hdr2, C2, last)
        BY <1>4, Zenon
    <2> HIDE DEF C2
    <2>2. new \in Addr
        BY <1>2, <2>1, ChainTyped, Zenon
    <2> QED
        BY <2>2, Zenon DEF Sound
<1>7. Ascending(list2, list_size) /\ Items(list2) = Items(h.list) \ {node}
    BY <1>3, RemoveKeepsOrder, HeapAssumption, Zenon DEF Sound
<1> HIDE DEF list2, e
<1>8. FreeIn(hdr2, C2) = (FreeIn(hdr, C) \ {node}) \cup {new}
    BY <1>2, <1>4, Zenon DEF FreeIn
<1>9. Sound(k, C2, last)
    BY <1>2, <1>4, <1>5, <1>6, <1>7, Zenon DEF Sound, IsHeap
<1>10. k.hdr = hdr2 /\ k.list = list2 /\ k.top = h.top /\ k.dropped = h.dropped
    BY Zenon
<1> HIDE DEF k
<1>11. Listed(k, C2, {new})
    BY <1>7, <1>8, <1>10, Zenon DEF Listed
<1>12. Apart(hdr2, C2, {})
    <2> SUFFICES ASSUME NEW n \in FreeIn(hdr2, C2), hdr2[n].next \in FreeIn(hdr2, C2)
                 PROVE  FALSE
        BY Zenon DEF Apart
    <2>1. CASE n = new
        <3>1. hdr2[n].next = hdr[node].next
            BY <1>4, <2>1, Zenon
        <3>2. hdr[node].next # new
            BY <1>2, <1>4, Neighbours
        <3> QED
            BY <1>3, <1>8, <3>1, <3>2, Zenon
    <2>2. CASE n # new
        <3>1. n \in FreeIn(hdr, C) /\ n \in C \ {node}
            BY <1>8, <2>2, Zenon DEF FreeIn
        <3>2. hdr2[n].next = hdr[n].next
            BY <1>4, <3>1, Zenon
        <3>3. hdr[n].next # new
            BY <1>2, <1>4, <3>1, Neighbours
        <3>4. hdr[n].next \in FreeIn(hdr, C)
            BY <1>8, <3>2, <3>3, Zenon
        <3> QED
            BY <3>1, <3>4, Zenon DEF Apart
    <2> QED
        BY <2>1, <2>2, Zenon
<1>13. Kept(hdr, C, hdr2, C2)
    BY <1>2, <1>4, Zenon DEF Kept
<1>14. new \in FreeIn(k.hdr, C2)
    BY <1>8, <1>10, Zenon
<1>15. node \in C2
    BY <1>2, Zenon
<1> HIDE DEF C2
<1>16. /\ Sound(g, C2, last) /\ Listed(g, C2, {new} \ {new})
       /\ g.hdr = k.hdr /\ g.top = k.top
    BY <1>1, <1>9, <1>11, <1>14, InsertFreeKeeps
<1>17. {new} \ {new} = {}
    BY Zenon
<1>18. g.hdr[node].magic = "USED" /\ g.hdr[node].size = size /\ g.top = h.top
    BY <1>4, <1>10, <1>16, Zenon
<1> QED
    BY <1>2, <1>10, <1>12, <1>13, <1>15, <1>16, <1>17, <1>18, Zenon

\* heap_split_node turns a free block into one in use that is large enough.
LEMMA SplitKeeps ==
    ASSUME NEW h, NEW C, NEW last, Sound(h, C, last), Listed(h, C, {}), Apart(h.hdr, C, {}),
           NEW node \in Items(h.list), NEW size \in Nat, h.hdr[node].size >= size, NEW zero,
           NEW g, g = heap_split_node(h, node, size, zero)
    PROVE  /\ \E C2 : /\ Sound(g, C2, last) /\ Listed(g, C2, {}) /\ Apart(g.hdr, C2, {})
                      /\ Kept(h.hdr, C, g.hdr, C2) /\ node \in C2
           /\ node \in C /\ h.hdr[node].magic = "FREE"
           /\ g.hdr[node].magic = "USED" /\ g.hdr[node].size >= size /\ g.top = h.top
<1> DEFINE left == h.hdr[node].size - size
<1>1. node \in C /\ h.hdr[node] \in HeaderType
    BY Neighbours, Zenon DEF Sound, Listed, FreeIn
<1>2. h.hdr[node].size \in Nat
    BY <1>1, Zenon DEF HeaderType
<1>3. CASE left <= HEAP_SPLIT_THRESHOLD
    <2>1. g = UseWhole(h, node, left, zero)
        BY <1>3, Zenon DEF heap_split_node
    <2> HIDE DEF left
    <2>2. /\ Sound(g, C, last) /\ Listed(g, C, {}) /\ Apart(g.hdr, C, {})
          /\ Kept(h.hdr, C, g.hdr, C) /\ node \in C /\ h.hdr[node].magic = "FREE"
          /\ g.hdr[node].magic = "USED" /\ g.hdr[node].size = h.hdr[node].size
          /\ g.top = h.top
        BY <2>1, UseWholeKeeps
    <2> QED
        BY <2>2, Zenon
<1>4. CASE ~(left <= HEAP_SPLIT_THRESHOLD)
    <2>1. g = Carve(h, node, size)
        BY <1>4, Zenon DEF heap_split_node
    <2>2. h.hdr[node].size - size > HEADER_SIZE
        BY <1>2, <1>4 DEF HEADER_SIZE, HEAP_SPLIT_THRESHOLD
    <2>3. /\ \E C2 : /\ Sound(g, C2, last) /\ Listed(g, C2, {}) /\ Apart(g.hdr, C2, {})
                     /\ Kept(h.hdr, C, g.hdr, C2) /\ node \in C2
          /\ node \in C /\ h.hdr[node].magic = "FREE"
          /\ g.hdr[node].magic = "USED" /\ g.hdr[node].size = size /\ g.top = h.top
        BY <2>1, <2>2, CarveKeeps
    <2>4. g.hdr[node].size >= size
        BY <2>3
    <2> QED
        BY <2>3, <2>4, Zenon
<1> QED
    BY <1>3, <1>4, Zenon

\* The blocks in use stay as they are over two changes.
LEMMA KeptTwice ==
    ASSUME NEW hdr, NEW C, NEW hdr1, NEW C1, NEW hdr2, NEW C2,
           Kept(hdr, C, hdr1, C1), Kept(hdr1, C1, hdr2, C2)
    PROVE  Kept(hdr, C, hdr2, C2)
BY Zenon DEF Kept

\* An expansion by size words moves the end of the chain to end.
GrowsTo(h, last, size, end) ==
    /\ h.top \in Nat /\ size \in Nat /\ last <= h.top + size
    /\ end = h.top + size + HEADER_SIZE /\ end <= heap_top

\* expand_heap adds a free block at the end and merges it with the one before it.
LEMMA ExpandKeeps ==
    ASSUME NEW h, NEW C, NEW last, Sound(h, C, last), Listed(h, C, {}), Apart(h.hdr, C, {}),
           h.end \in C, h.hdr[h.end].next = NULL, NEW size, NEW end,
           GrowsTo(h, last, size, end), NEW g, g = expand_heap(h, size)
    PROVE  /\ \E C2 : /\ Sound(g, C2, end) /\ Listed(g, C2, {}) /\ Apart(g.hdr, C2, {})
                      /\ Kept(h.hdr, C, g.hdr, C2)
           /\ g.top = h.top + size
<1> DEFINE hdr == h.hdr
           node == h.end
           top == h.top + size
           room == top - last
           hdr2 == Grown(hdr, node, last, room)
           C1 == C \cup {last}
           k == [hdr |-> hdr2, list |-> h.list, end |-> node, top |-> top,
                 dropped |-> h.dropped]
           grown == InsertFree(k, last)
           merged == heap_merge_nodes(grown, last)
<1>1. /\ Chain(hdr, C, last) /\ last \in Nat /\ NULL \notin DOMAIN hdr /\ Typed(hdr)
      /\ node \in C /\ hdr[node].next = NULL /\ last <= heap_top
    BY TypedFacts, Zenon DEF Sound
<1>2. EndOf(hdr, node) = last
    BY <1>1, Neighbours
<1>3. g = [merged EXCEPT !.end = last]
    <2>1. g = [heap_merge_nodes(InsertFree([h EXCEPT !.hdr = hdr2, !.top = top], last), last)
                   EXCEPT !.end = last]
        BY <1>2, Zenon DEF expand_heap, Grown
    <2> HIDE DEF hdr2, top
    <2> DEFINE k2 == [h EXCEPT !.hdr = hdr2, !.top = top]
    <2>2. k2 = [h EXCEPT !.hdr = hdr2, !.top = top]
        BY Zenon
    <2>3. g = [heap_merge_nodes(InsertFree(k2, last), last) EXCEPT !.end = last]
        BY <2>1, Zenon
    <2> HIDE DEF k2
    <2>4. IsHeap(h)
        BY Zenon DEF Sound
    <2>5. k2 = k
        BY <2>2, <2>4, HeapTop, Zenon
    <2> QED
        BY <2>3, <2>5, Zenon
<1>4. room \in Nat /\ end = last + HEADER_SIZE + room /\ end \in Nat /\ end <= heap_top
    BY <1>1 DEF GrowsTo, HEADER_SIZE
<1> HIDE DEF room, top
<1>5. /\ Chain(hdr2, C1, end) /\ last \notin C /\ last # NULL
      /\ \A n \in DOMAIN hdr2 \ C1 : n \in DOMAIN hdr /\ hdr2[n] = hdr[n]
      /\ \A n \in C : /\ hdr2[n].magic = hdr[n].magic /\ hdr2[n].size = hdr[n].size
                      /\ hdr2[n].next = IF n = node THEN last ELSE hdr[n].next
      /\ hdr2[last].magic = "FREE" /\ hdr2[last].next = NULL
    <2> HIDE DEF hdr, node, hdr2, C1
    <2>1. C1 = C \cup {last} /\ hdr2 = Grown(hdr, node, last, room)
        BY Zenon DEF C1, hdr2
    <2> QED
        BY <1>1, <1>4, <2>1, GrownChain, SMTT(20)
<1> HIDE DEF hdr2
<1>6. Typed(hdr2)
    <2> HIDE DEF hdr, C1
    <2> QED
        BY <1>1, <1>4, <1>5, TypedAfter
<1>7. last \in Addr
    <2>1. last \in C1 /\ Chain(hdr2, C1, end)
        BY <1>5, Zenon
    <2> HIDE DEF C1
    <2> QED
        BY <1>4, <2>1, ChainTyped, Zenon
<1>8. FreeIn(hdr2, C1) = FreeIn(hdr, C) \cup {last}
    BY <1>5 DEF FreeIn
<1>9. Sound(k, C1, end)
    BY <1>4, <1>5, <1>6, Zenon DEF Sound, IsHeap
<1>10. k.hdr = hdr2 /\ k.list = h.list /\ k.dropped = h.dropped /\ k.top = top
    BY Zenon
<1> HIDE DEF k
<1>11. Listed(k, C1, {last})
    BY <1>8, <1>10, Zenon DEF Listed
<1>12. Apart(hdr2, C1, {last})
    <2> SUFFICES ASSUME NEW n \in FreeIn(hdr2, C1), n # last,
                        hdr2[n].next \in FreeIn(hdr2, C1), hdr2[n].next # last
                 PROVE  FALSE
        BY Zenon DEF Apart
    <2>1. n \in FreeIn(hdr, C) /\ n \in C
        BY <1>8, Zenon DEF FreeIn
    <2>2. hdr2[n].next = hdr[n].next
        BY <1>5, <2>1, Zenon
    <2> QED
        BY <1>8, <2>1, <2>2, Zenon DEF Apart
<1>13. last \in FreeIn(hdr2, C1)
    BY <1>8, Zenon
<1>14. Kept(hdr, C, hdr2, C1)
    BY <1>5, Zenon DEF Kept
<1> HIDE DEF C1
<1>15. /\ Sound(grown, C1, end) /\ Listed(grown, C1, {last} \ {last})
       /\ grown.hdr = hdr2 /\ grown.top = top
    BY <1>9, <1>10, <1>11, <1>13, InsertFreeKeeps
<1> HIDE DEF grown
<1>16. Listed(grown, C1, {last})
    BY <1>15, Zenon DEF Listed
<1>17. /\ merged.top = top
       /\ \E C2 \in SUBSET C1 : /\ Sound(merged, C2, end) /\ Listed(merged, C2, {})
                                /\ Apart(merged.hdr, C2, {}) /\ Kept(hdr2, C1, merged.hdr, C2)
    BY <1>12, <1>13, <1>15, <1>16, MergeKeeps
<1> HIDE DEF merged
<1>18. PICK C2 : /\ Sound(merged, C2, end) /\ Listed(merged, C2, {})
                 /\ Apart(merged.hdr, C2, {}) /\ Kept(hdr2, C1, merged.hdr, C2)
    BY <1>17, Zenon
<1>19. g = [hdr |-> merged.hdr, list |-> merged.list, end |-> last, top |-> merged.top,
            dropped |-> merged.dropped]
    BY <1>3, <1>18, HeapEnd, Zenon DEF Sound
<1>20. Sound(g, C2, end)
    BY <1>7, <1>18, <1>19 DEF Sound, IsHeap
<1>21. /\ g.hdr = merged.hdr /\ g.list = merged.list /\ g.dropped = merged.dropped
       /\ g.top = merged.top
    BY <1>19
<1>22. Listed(g, C2, {})
    BY <1>18, <1>21, Zenon DEF Listed
<1>23. Kept(hdr, C, g.hdr, C2)
    BY <1>14, <1>18, <1>21, KeptTwice, Zenon
<1> QED
    BY <1>17, <1>18, <1>20, <1>21, <1>22, <1>23, Zenon DEF top

-----------------------------------------------------------------------------
(***************************************************************************)
(* The inductive invariant.                                                *)
(***************************************************************************)
\* Where the last block ends.
LastEnd(h) ==
    h.top + (IF h.top # heap_bottom + HEAP_EXPAND_SIZE THEN HEADER_SIZE ELSE 0)

\* top_heap_ptr is a number of expansions above heap_bottom.
OnGrid(top) ==
    /\ \E j \in 1 .. heap_top : top = heap_bottom + j * HEAP_EXPAND_SIZE
    /\ top < heap_top

\* The blocks that callers hold are blocks in use of the chain, as large as asked for.
Held(hdr, C, held) ==
    /\ held \in [DOMAIN held -> Nat] /\ DOMAIN held \subseteq C
    /\ \A n \in DOMAIN held : hdr[n].magic = "USED" /\ held[n] <= hdr[n].size

\* A heap between two calls: its blocks form the chain C up to last, free_node_list lists
\* the free ones, no two of which are neighbours, and callers hold blocks in use.
Steady(h, C, last, held) ==
    /\ Sound(h, C, last) /\ Listed(h, C, {}) /\ Apart(h.hdr, C, {})
    /\ Held(h.hdr, C, held)

\* The inductive invariant.
HeapInv ==
    Steady(heap, Walk(heap.hdr), LastEnd(heap), live) /\ OnGrid(heap.top)

\* The multiples of e are at least e apart.
LEMMA Multiples ==
    ASSUME NEW j \in Nat, NEW k \in Nat, NEW e \in Nat, j * e < k * e
    PROVE  (j + 1) * e <= k * e
<1>1. j < k
    <2> SUFFICES ASSUME k <= j
                 PROVE  FALSE
        OBVIOUS
    <2>1. PICK d \in Nat : j = k + d
        <3>1. j - k \in Nat /\ j = k + (j - k)
            OBVIOUS
        <3> QED
            BY <3>1, Zenon
    <2>2. (k + d) * e = k * e + d * e /\ d * e >= 0 /\ k * e \in Nat /\ d * e \in Nat
        BY Z3
    <2> QED
        BY <2>1, <2>2
<1>2. PICK d \in Nat : k = (j + 1) + d
    <2>1. k - (j + 1) \in Nat /\ k = (j + 1) + (k - (j + 1))
        BY <1>1
    <2> QED
        BY <2>1, Zenon
<1>3. /\ ((j + 1) + d) * e = (j + 1) * e + d * e
      /\ (j + 1) * e \in Nat /\ d * e \in Nat
    BY Z3
<1> QED
    BY <1>2, <1>3

\* The last block ends in the heap.
LEMMA GridFacts ==
    ASSUME NEW h, OnGrid(h.top)
    PROVE  /\ h.top \in Nat /\ heap_bottom + HEAP_EXPAND_SIZE <= h.top
           /\ h.top + HEADER_SIZE < heap_top
           /\ LastEnd(h) \in Nat /\ LastEnd(h) <= h.top + HEADER_SIZE /\ LastEnd(h) <= heap_top
<1> DEFINE e == HEAP_EXPAND_SIZE
<1>1. heap_bottom \in Nat /\ heap_top \in Nat /\ e \in Nat /\ e > 4
    BY HeapAssumption, Zenon DEF HEADER_SIZE
<1>2. PICK k \in Nat : heap_top = heap_bottom + k * e
    BY HeapAssumption
<1>3. PICK j \in Nat : j >= 1 /\ h.top = heap_bottom + j * e /\ h.top < heap_top
    BY <1>1 DEF OnGrid
<1> HIDE DEF e
<1>4. j * e \in Nat /\ k * e \in Nat /\ (j + 1) * e = j * e + e
    BY <1>1, Z3
<1>5. (j + 1) * e <= k * e
    <2>1. j * e < k * e
        BY <1>1, <1>2, <1>3, <1>4
    <2> QED
        BY <1>1, <2>1, Multiples, Zenon
<1>6. e <= j * e
    <2>1. PICK d \in Nat : j = d + 1
        <3>1. j - 1 \in Nat /\ j = (j - 1) + 1
            BY <1>3
        <3> QED
            BY <3>1, Zenon
    <2>2. (d + 1) * e = d * e + e /\ d * e \in Nat
        BY <1>1, Z3
    <2> QED
        BY <1>1, <2>1, <2>2
<1>7. /\ h.top \in Nat /\ heap_bottom + e <= h.top /\ h.top + e <= heap_top
    BY <1>1, <1>2, <1>3, <1>4, <1>5, <1>6
<1> QED
    BY <1>1, <1>7 DEF LastEnd, HEADER_SIZE, e

\* An expansion by expand_count(size) that stays below heap_top.
LEMMA GridGrows ==
    ASSUME NEW h, OnGrid(h.top), NEW size \in Nat, h.top + expand_count(size) < heap_top,
           NEW end, end = h.top + expand_count(size) + HEADER_SIZE
    PROVE  /\ GrowsTo(h, LastEnd(h), expand_count(size), end)
           /\ \A g : g.top = h.top + expand_count(size) => OnGrid(g.top) /\ LastEnd(g) = end
<1> DEFINE e == HEAP_EXPAND_SIZE
           m == size \div e
           count == expand_count(size)
<1>1. heap_bottom \in Nat /\ heap_top \in Nat /\ e \in Nat /\ e > 4 /\ m \in Nat
    BY HeapAssumption DEF HEADER_SIZE
<1>2. count = e * (1 + m)
    BY Zenon DEF expand_count
<1>3. PICK j \in Nat : j >= 1 /\ h.top = heap_bottom + j * e
    BY <1>1 DEF OnGrid
<1>4. /\ h.top \in Nat /\ heap_bottom + e <= h.top
      /\ LastEnd(h) \in Nat /\ LastEnd(h) <= h.top + 4
    BY GridFacts, Zenon DEF HEADER_SIZE
<1> HIDE DEF e, m, count
<1>5. count \in Nat /\ count >= e
    <2>1. e * (1 + m) = e + e * m /\ e * m \in Nat
        BY <1>1, Z3
    <2> QED
        BY <1>1, <1>2, <2>1
<1> DEFINE j2 == j + 1 + m
<1>6. heap_bottom + j2 * e = h.top + count /\ j2 \in Nat /\ j2 >= 1
    <2>1. (j + 1 + m) * e = j * e + e * (1 + m) /\ j * e \in Nat
        BY <1>1, Z3
    <2> QED
        BY <1>1, <1>2, <1>3, <1>5, <2>1
<1>7. h.top + count < heap_top
    BY Zenon DEF count
<1> HIDE DEF j2
<1>8. j2 \in 1 .. heap_top
    <2>1. j2 <= j2 * e /\ j2 * e \in Nat
        <3>1. PICK d \in Nat : e = 1 + d
            <4>1. e - 1 \in Nat /\ e = 1 + (e - 1)
                BY <1>1
            <4> QED
                BY <4>1, Zenon
        <3>2. j2 * (1 + d) = j2 + j2 * d /\ j2 * d \in Nat
            BY <1>6, Z3
        <3> QED
            BY <1>6, <3>1, <3>2
    <2> QED
        BY <1>1, <1>6, <1>7, <2>1
<1>9. OnGrid(h.top + count)
    BY <1>6, <1>7, <1>8, Zenon DEF OnGrid, e
<1>10. GrowsTo(h, LastEnd(h), count, end)
    <2>1. end = h.top + count + 4 /\ end \in Nat
        BY <1>4, <1>5 DEF count, HEADER_SIZE
    <2> DEFINE g == [top |-> h.top + count]
    <2>2. OnGrid(g.top)
        BY <1>9, Zenon
    <2>3. g.top + 4 < heap_top
        BY <2>2, GridFacts, Zenon DEF HEADER_SIZE
    <2> QED
        BY <1>1, <1>4, <1>5, <2>1, <2>3 DEF GrowsTo, HEADER_SIZE
<1>11. ASSUME NEW g, g.top = h.top + count
       PROVE  OnGrid(g.top) /\ LastEnd(g) = end
    <2>1. g.top # heap_bottom + e
        BY <1>1, <1>4, <1>5, <1>11
    <2> QED
        BY <1>9, <1>11, <2>1, Zenon DEF LastEnd, e, count
<1> QED
    BY <1>10, <1>11, Zenon DEF count

\* Forgetting the headers that were merged away changes nothing of this.
LEMMA ReachableListed ==
    ASSUME NEW h, NEW C, NEW last, Sound(h, C, last), Listed(h, C, {}), Apart(h.hdr, C, {}),
           NEW g, g = Reachable(h)
    PROVE  /\ Sound(g, C, last) /\ Listed(g, C, {}) /\ Apart(g.hdr, C, {})
           /\ Walk(g.hdr) = C /\ (\A n \in C : g.hdr[n] = h.hdr[n]) /\ g.top = h.top
<1>1. /\ Sound(g, C, last) /\ Walk(g.hdr) = C /\ \A n \in C : g.hdr[n] = h.hdr[n]
      /\ g.list = h.list /\ g.top = h.top /\ g.dropped = h.dropped
    BY ReachableKeeps
<1>2. Chain(h.hdr, C, last)
    BY Zenon DEF Sound
<1>3. /\ Listed(h, C, {}) => Listed(g, C, {})
      /\ Apart(h.hdr, C, {}) => Apart(g.hdr, C, {})
    BY <1>1, <1>2, SameOnChain, Zenon
<1> QED
    BY <1>1, <1>3, Zenon

\* heap_find_free_node returns a block that fits, when there is one.
LEMMA FindFits ==
    ASSUME NEW h, NEW size, Fits(h, size) \subseteq Nat, Fits(h, size) # {},
           \A n \in Fits(h, size) : h.hdr[n].size \in Nat
    PROVE  heap_find_free_node(h, size) \in Fits(h, size)
<1> DEFINE F == Fits(h, size)
           T == {h.hdr[n].size : n \in F}
<1>1. PICK s \in T : \A t \in T : s <= t
    <2>1. T \in SUBSET Nat /\ T # {}
        BY Zenon
    <2> HIDE DEF T
    <2> QED
        BY <2>1, Least, Zenon
<1> DEFINE M == {n \in F : h.hdr[n].size = s}
<1>2. PICK n \in M : \A m \in M : n <= m
    <2>1. M \in SUBSET Nat /\ M # {}
        BY <1>1, Zenon
    <2> HIDE DEF M
    <2> QED
        BY <2>1, Least, Zenon
<1>3. \A m \in F : h.hdr[n].size < h.hdr[m].size \/ (h.hdr[n].size = h.hdr[m].size /\ n <= m)
    <2> SUFFICES ASSUME NEW m \in F
                 PROVE  \/ h.hdr[n].size < h.hdr[m].size
                        \/ h.hdr[n].size = h.hdr[m].size /\ n <= m
        BY Zenon
    <2>1. h.hdr[n].size = s /\ s \in Nat /\ h.hdr[m].size \in Nat /\ s <= h.hdr[m].size
        BY <1>1, <1>2, Zenon
    <2>2. h.hdr[m].size = s => n <= m
        BY <1>2, Zenon
    <2> QED
        BY <2>1, <2>2
<1>4. n \in F
    BY Zenon
<1> HIDE DEF F
<1>5. heap_find_free_node(h, size) =
          CHOOSE x \in F : \A m \in F : \/ h.hdr[x].size < h.hdr[m].size
                                        \/ h.hdr[x].size = h.hdr[m].size /\ x <= m
    BY Zenon DEF heap_find_free_node, F
<1>6. heap_find_free_node(h, size) \in F
    BY <1>3, <1>4, <1>5, Zenon
<1> QED
    BY <1>6, Zenon DEF F

\* Callers hold what they held when the blocks in use stay as they are.
LEMMA HeldKept ==
    ASSUME NEW hdr, NEW C, NEW held, Held(hdr, C, held), NEW hdr2, NEW C2,
           Kept(hdr, C, hdr2, C2)
    PROVE  Held(hdr2, C2, held)
<1>1. \A n \in DOMAIN held :
          n \in C2 /\ hdr2[n].magic = "USED" /\ hdr2[n].size = hdr[n].size
    BY Zenon DEF Held, Kept
<1> QED
    BY <1>1, Zenon DEF Held

\* What the callers hold after one of them was given a block of size words, and after
\* one freed a block.
Taken(held, node, size) ==
    [n \in DOMAIN held \cup {node} |-> IF n = node THEN size ELSE held[n]]
Freed(held, node) == [n \in DOMAIN held \ {node} |-> held[n]]

\* The heap keeps its invariant when a block that fits is handed out.
LEMMA AllocateKeeps ==
    ASSUME NEW h, NEW C, NEW last, NEW held, Steady(h, C, last, held),
           NEW size \in Nat, Fits(h, size) # {},
           NEW node, node = heap_find_free_node(h, size), NEW zero,
           NEW g, g = Reachable(heap_split_node(h, node, size, zero)),
           NEW held2, held2 = Taken(held, node, size)
    PROVE  /\ Steady(g, Walk(g.hdr), last, held2)
           /\ Kept(h.hdr, C, g.hdr, Walk(g.hdr)) /\ g.top = h.top /\ node \notin DOMAIN held
<1> DEFINE k == heap_split_node(h, node, size, zero)
<1> /\ Sound(h, C, last) /\ Listed(h, C, {}) /\ Apart(h.hdr, C, {})
    /\ Held(h.hdr, C, held)
    BY Zenon DEF Steady
<1>1. Chain(h.hdr, C, last) /\ last \in Nat
    BY Zenon DEF Sound
<1>2. \A n \in FreeIn(h.hdr, C) : n \in Nat /\ h.hdr[n].size \in Nat
    BY <1>1, Neighbours, Zenon DEF FreeIn, HeaderType
<1>3. node \in Fits(h, size)
    <2>1. Fits(h, size) \subseteq FreeIn(h.hdr, C)
        BY Zenon DEF Fits, FreeNodes, Listed
    <2> QED
        BY <1>2, <2>1, FindFits, Zenon
<1>4. node \in Items(h.list) /\ h.hdr[node].size >= size
    BY <1>3, Zenon DEF Fits, FreeNodes
<1>5. /\ \E C2 : /\ Sound(k, C2, last) /\ Listed(k, C2, {}) /\ Apart(k.hdr, C2, {})
                 /\ Kept(h.hdr, C, k.hdr, C2) /\ node \in C2
      /\ node \in C /\ h.hdr[node].magic = "FREE"
      /\ k.hdr[node].magic = "USED" /\ k.hdr[node].size >= size /\ k.top = h.top
    BY <1>4, SplitKeeps
<1>6. g = Reachable(k)
    BY Zenon
<1> HIDE DEF k
<1>7. PICK C2 : /\ Sound(k, C2, last) /\ Listed(k, C2, {}) /\ Apart(k.hdr, C2, {})
                /\ Kept(h.hdr, C, k.hdr, C2) /\ node \in C2
    BY <1>5, Zenon
<1>8. /\ Sound(g, C2, last) /\ Listed(g, C2, {}) /\ Apart(g.hdr, C2, {})
      /\ Walk(g.hdr) = C2 /\ (\A n \in C2 : g.hdr[n] = k.hdr[n]) /\ g.top = k.top
    BY <1>6, <1>7, ReachableListed, Zenon
<1>10. Kept(h.hdr, C, g.hdr, C2)
    BY <1>7, <1>8, Zenon DEF Kept
<1>11. node \notin DOMAIN held
    BY <1>5, Zenon DEF Held
<1>12. Held(g.hdr, C2, held2)
    <2>1. Held(g.hdr, C2, held)
        BY <1>10, HeldKept, Zenon
    <2>2. g.hdr[node].magic = "USED" /\ g.hdr[node].size >= size /\ node \in C2
        BY <1>5, <1>7, <1>8, Zenon
    <2> HIDE DEF Held
    <2>3. /\ \A n \in DOMAIN held : /\ n \in C2 /\ held[n] \in Nat
                                    /\ g.hdr[n].magic = "USED" /\ held[n] <= g.hdr[n].size
        BY <2>1, Zenon DEF Held
    <2>4. /\ DOMAIN held2 = DOMAIN held \cup {node} /\ held2[node] = size
          /\ held2 = [n \in DOMAIN held2 |-> held2[n]]
          /\ \A n \in DOMAIN held : held2[n] = held[n]
        BY <1>11, Zenon DEF Taken
    <2>5. size <= g.hdr[node].size
        <3>1. g.hdr[node].size \in Nat
            BY <1>7, <1>8, Neighbours, Zenon DEF Sound, HeaderType
        <3> QED
            BY <2>2, <3>1, Zenon
    <2>6. \A n \in DOMAIN held2 : /\ n \in C2 /\ held2[n] \in Nat
                                  /\ g.hdr[n].magic = "USED" /\ held2[n] <= g.hdr[n].size
        BY <2>2, <2>3, <2>4, <2>5, SMTT(20)
    <2> QED
        BY <2>4, <2>6, Zenon DEF Held
<1>13. Steady(g, C2, last, held2)
    BY <1>8, <1>12, Zenon DEF Steady
<1> QED
    BY <1>5, <1>8, <1>10, <1>11, <1>13, Zenon

\* f is h with the block at node marked free.
Marked(h, node, f) == f = [h EXCEPT !.hdr[node].magic = "FREE"]

\* A block that kfree has marked is in the chain, free, and may have free neighbours.
LEMMA MarkKeeps ==
    ASSUME NEW h, NEW C, NEW last, Sound(h, C, last), Listed(h, C, {}), Apart(h.hdr, C, {}),
           NEW node \in C, h.hdr[node].magic = "USED", NEW f, Marked(h, node, f)
    PROVE  /\ Sound(f, C, last) /\ Listed(f, C, {node}) /\ Apart(f.hdr, C, {node})
           /\ node \in FreeIn(f.hdr, C) /\ f.top = h.top
           /\ \A n \in C : n # node => f.hdr[n] = h.hdr[n]
<1> DEFINE hdr == [h.hdr EXCEPT ![node].magic = "FREE"]
<1>1. Chain(h.hdr, C, last) /\ last \in Nat /\ last <= heap_top
    BY Zenon DEF Sound
<1>2. node \in C /\ node \in DOMAIN h.hdr /\ h.hdr[node] \in HeaderType
    BY <1>1, Neighbours, Zenon
<1>3. /\ DOMAIN hdr = DOMAIN h.hdr /\ \A n \in DOMAIN h.hdr : n # node => hdr[n] = h.hdr[n]
      /\ hdr[node].magic = "FREE" /\ hdr[node].next = h.hdr[node].next
      /\ hdr[node].prev = h.hdr[node].prev /\ hdr[node].size = h.hdr[node].size
      /\ hdr[node] \in HeaderType
    BY <1>2, Zenon DEF HeaderType
<1>4. f = [hdr |-> hdr, list |-> h.list, end |-> h.end, top |-> h.top, dropped |-> h.dropped]
    <2>1. f = [h EXCEPT !.hdr = hdr] /\ IsHeap(h)
        BY Zenon DEF Sound, Marked
    <2> HIDE DEF hdr
    <2> QED
        BY <2>1, Zenon DEF IsHeap
<1> HIDE DEF hdr
<1>6. \A n \in C : /\ n \in DOMAIN h.hdr /\ h.hdr[n] \in HeaderType
                   /\ hdr[n] \in HeaderType /\ hdr[n].next = h.hdr[n].next
                   /\ hdr[n].prev = h.hdr[n].prev /\ hdr[n].size = h.hdr[n].size
    <2>1. \A n \in C : n \in DOMAIN h.hdr /\ h.hdr[n] \in HeaderType
        BY <1>1, Neighbours, Zenon
    <2> QED
        BY <1>3, <2>1, Zenon
<1>7. Chain(hdr, C, last)
    <2>1. C \subseteq DOMAIN hdr
        BY <1>3, <1>6, Zenon
    <2> QED
        BY <1>1, <1>6, <2>1, SameLinks, Zenon
<1>8. Typed(hdr)
    <2>1. Typed(h.hdr)
        BY Zenon DEF Sound
    <2>2. \A n \in DOMAIN hdr \ C : n \in DOMAIN h.hdr /\ hdr[n] = h.hdr[n]
        BY <1>2, <1>3, Zenon
    <2> QED
        BY <1>1, <1>7, <2>1, <2>2, TypedAfter, Zenon
<1>9. /\ f.hdr = hdr /\ f.list = h.list /\ f.end = h.end /\ f.top = h.top
      /\ f.dropped = h.dropped /\ IsHeap(f)
    BY <1>4, Zenon DEF IsHeap
<1>10. Sound(f, C, last)
    BY <1>7, <1>8, <1>9, Zenon DEF Sound
<1>11. /\ node \in FreeIn(hdr, C) /\ node \notin FreeIn(h.hdr, C)
       /\ \A n \in C : n # node => (n \in FreeIn(hdr, C) <=> n \in FreeIn(h.hdr, C))
    BY <1>2, <1>3, <1>6, Zenon DEF FreeIn
<1>12. FreeIn(hdr, C) \subseteq C /\ FreeIn(h.hdr, C) \subseteq C
    BY Zenon DEF FreeIn
<1>13. Listed(f, C, {node})
    BY <1>9, <1>11, <1>12, Zenon DEF Listed
<1>14. Apart(f.hdr, C, {node})
    <2> SUFFICES ASSUME NEW n \in FreeIn(hdr, C), n # node,
                        hdr[n].next \in FreeIn(hdr, C), hdr[n].next # node
                 PROVE  FALSE
        BY <1>9, Zenon DEF Apart
    <2>1. n \in FreeIn(h.hdr, C) /\ hdr[n].next = h.hdr[n].next
        BY <1>6, <1>11, <1>12, Zenon
    <2>2. h.hdr[n].next \in FreeIn(h.hdr, C)
        BY <1>11, <1>12, <2>1, Zenon
    <2> QED
        BY <2>1, <2>2, Zenon DEF Apart
<1> QED
    BY <1>3, <1>6, <1>9, <1>10, <1>11, <1>13, <1>14, Zenon

\* It keeps it when a caller frees a block.
LEMMA FreeKeeps ==
    ASSUME NEW h, NEW C, NEW last, NEW held, Steady(h, C, last, held),
           NEW node \in DOMAIN held,
           NEW f, Marked(h, node, f), NEW g, g = Reachable(heap_merge_nodes(f, node)),
           NEW held2, held2 = Freed(held, node)
    PROVE  /\ Steady(g, Walk(g.hdr), last, held2)
           /\ \A n \in DOMAIN held2 : g.hdr[n].size = h.hdr[n].size
           /\ g.top = h.top
<1> DEFINE k == heap_merge_nodes(f, node)
<1> /\ Sound(h, C, last) /\ Listed(h, C, {}) /\ Apart(h.hdr, C, {})
    /\ Held(h.hdr, C, held)
    BY Zenon DEF Steady
<1>1. node \in C /\ h.hdr[node].magic = "USED"
    BY Zenon DEF Held
<1>2. /\ Sound(f, C, last) /\ Listed(f, C, {node}) /\ Apart(f.hdr, C, {node})
      /\ node \in FreeIn(f.hdr, C) /\ f.top = h.top
      /\ \A n \in C : n # node => f.hdr[n] = h.hdr[n]
    BY <1>1, MarkKeeps, SMTT(20)
<1>3. /\ k.top = f.top
       /\ \E C2 \in SUBSET C : /\ Sound(k, C2, last) /\ Listed(k, C2, {})
                               /\ Apart(k.hdr, C2, {}) /\ Kept(f.hdr, C, k.hdr, C2)
    BY <1>2, MergeKeeps
<1>4. g = Reachable(k)
    BY Zenon
<1> HIDE DEF k
<1>5. PICK C2 : /\ Sound(k, C2, last) /\ Listed(k, C2, {})
                 /\ Apart(k.hdr, C2, {}) /\ Kept(f.hdr, C, k.hdr, C2)
    BY <1>3, Zenon
<1>6. /\ Sound(g, C2, last) /\ Listed(g, C2, {}) /\ Apart(g.hdr, C2, {})
      /\ Walk(g.hdr) = C2 /\ (\A n \in C2 : g.hdr[n] = k.hdr[n]) /\ g.top = k.top
    BY <1>4, <1>5, ReachableListed, Zenon
<1>8. /\ DOMAIN held2 = DOMAIN held \ {node} /\ held2 = [n \in DOMAIN held2 |-> held2[n]]
       /\ \A n \in DOMAIN held2 : held2[n] = held[n]
    BY Zenon DEF Freed
<1>9. ASSUME NEW n \in DOMAIN held2
       PROVE  /\ n \in C2 /\ held2[n] \in Nat /\ held2[n] <= g.hdr[n].size
              /\ g.hdr[n].magic = "USED" /\ g.hdr[n].size = h.hdr[n].size
    <2>1. /\ n \in C /\ n # node /\ h.hdr[n].magic = "USED" /\ held2[n] = held[n]
          /\ held[n] \in Nat /\ held[n] <= h.hdr[n].size
        BY <1>8, Zenon DEF Held
    <2>2. f.hdr[n] = h.hdr[n]
        BY <1>2, <2>1, Zenon
    <2>3. n \in C2 /\ k.hdr[n].magic = "USED" /\ k.hdr[n].size = h.hdr[n].size
        BY <1>5, <2>1, <2>2, Zenon DEF Kept
    <2> QED
        BY <1>6, <2>1, <2>3, Zenon
<1>10. Held(g.hdr, C2, held2)
    BY <1>8, <1>9, Zenon DEF Held
<1>11. g.top = h.top
    BY <1>2, <1>3, <1>6, Zenon
<1>12. \A n \in DOMAIN held2 : g.hdr[n].size = h.hdr[n].size
    BY <1>9, Zenon
<1>13. Steady(g, C2, last, held2)
    BY <1>6, <1>10, Zenon DEF Steady
<1> QED
    BY <1>6, <1>11, <1>12, <1>13, Zenon

\* init_kheap establishes the invariant.
LEMMA HeapInit ==
    ASSUME Init
    PROVE  HeapInv
<1> DEFINE b == heap_bottom
           e == HEAP_EXPAND_SIZE
           hdr == [n \in {b} |-> Header("FREE", NULL, NULL, e - HEADER_SIZE)]
           new == init_sorted_list(list_size)
<1>1. /\ b \in Nat /\ b > 0 /\ heap_top \in Nat /\ e \in Nat /\ e > 4
      /\ list_size \in Nat /\ list_size > 1
    BY HeapAssumption DEF HEADER_SIZE
<1>2. b + e + e <= heap_top
    <2>1. PICK k \in 2 .. heap_top : heap_top = b + k * e
        BY HeapAssumption, Zenon
    <2>2. PICK d \in Nat : k = d + 2
        <3>1. k - 2 \in Nat /\ k = (k - 2) + 2
            BY <1>1, <2>1
        <3> QED
            BY <3>1, Zenon
    <2> HIDE DEF e
    <2>3. (d + 2) * e = d * e + e + e /\ d * e \in Nat
        BY <1>1, Z3
    <2> QED
        BY <1>1, <2>1, <2>2, <2>3
<1>3. heap = [hdr |-> hdr, list |-> insert_list(new, b), end |-> b, top |-> b + e,
              dropped |-> FALSE]
    BY Zenon DEF Init
<1>4. /\ DOMAIN hdr = {b} /\ hdr[b].magic = "FREE" /\ hdr[b].next = 0 /\ hdr[b].prev = 0
      /\ hdr[b].size = e - 4 /\ hdr[b] \in HeaderType
    BY <1>1 DEF Header, HeaderType, NULL, HEADER_SIZE
<1>5. Chain(hdr, {b}, b + e)
    <2> HIDE DEF hdr, e
    <2>1. EndOf(hdr, b) = b + e
        BY <1>1, <1>4 DEF EndOf, HEADER_SIZE
    <2>2. Linked(hdr, {b}, b + e, b)
        BY <1>1, <1>4, <2>1 DEF Linked, NULL
    <2> QED
        BY <1>1, <1>4, <2>2 DEF Chain
<1>6. Typed(hdr)
    <2> HIDE DEF hdr, e
    <2>1. b \in Addr /\ hdr[b] \in AddrHeader
        BY <1>1, <1>2, <1>5, ChainTyped
    <2> QED
        BY <1>4, <2>1, Zenon DEF Typed
<1>7. Ascending(new, list_size) /\ Items(new) = {} /\ ~Full(new)
    <2>1. new = [arr |-> [k \in 0 .. list_size - 1 |-> 0], curr_size |-> 1]
        BY Zenon DEF init_sorted_list
    <2>2. Ascending(new, list_size) /\ Items(new) = {}
        BY <1>1, <2>1 DEF Ascending, Items
    <2> QED
        BY <1>1, <2>1, <2>2, FullWhen
<1> HIDE DEF new
<1>8. Ascending(heap.list, list_size) /\ Items(heap.list) = {b}
    BY <1>1, <1>3, <1>7, InsertKeepsOrder
<1> HIDE DEF hdr
<1>9. /\ heap.hdr = hdr /\ heap.end = b /\ heap.top = b + e /\ heap.dropped = FALSE
      /\ IsHeap(heap)
    BY <1>3, Zenon DEF IsHeap
<1>10. Walk(hdr) = {b}
    BY <1>1, <1>5, <1>6, TypedFacts, WalkIs
<1>11. LastEnd(heap) = b + e
    BY <1>1, <1>9 DEF LastEnd
<1>12. OnGrid(heap.top)
    <2>1. 1 \in 1 .. heap_top /\ heap.top = b + 1 * e /\ heap.top < heap_top
        BY <1>1, <1>2, <1>9
    <2> QED
        BY <2>1, Zenon DEF OnGrid
<1>13. Sound(heap, {b}, b + e)
    <2>1. b \in Addr /\ b + e \in Nat /\ b + e <= heap_top
        BY <1>1, <1>2 DEF Addr
    <2>2. Typed(heap.hdr) /\ Chain(heap.hdr, {b}, b + e)
        BY <1>5, <1>6, <1>9, Zenon
    <2>3. heap.end \in Addr /\ heap.dropped \in BOOLEAN
        BY <1>9, <2>1, Zenon
    <2>4. IsHeap(heap)
        BY <1>9, Zenon
    <2> QED
        BY <1>8, <2>1, <2>2, <2>3, <2>4, Zenon DEF Sound
<1>14. FreeIn(hdr, {b}) = {b}
    BY <1>4, Zenon DEF FreeIn
<1>15. Listed(heap, {b}, {})
    BY <1>8, <1>9, <1>14, Zenon DEF Listed
<1>16. Apart(hdr, {b}, {})
    BY <1>1, <1>4, <1>14 DEF Apart
<1>17. Held(hdr, {b}, live)
    BY Zenon DEF Held, Init
<1>18. Steady(heap, {b}, b + e, live)
    BY <1>9, <1>13, <1>15, <1>16, <1>17, Zenon DEF Steady
<1> QED
    BY <1>9, <1>10, <1>11, <1>12, <1>18, Zenon DEF HeapInv

\* kmalloc, with or without an expansion, keeps it, and leaves the blocks in use as
\* they are.
LEMMA AllocateStep ==
    ASSUME HeapInv, NEW size \in Nat, kmalloc(size) \/ kmalloc_expand(size)
    PROVE  /\ HeapInv'
           /\ \E node : node \notin DOMAIN live /\ live' = Taken(live, node, size)
           /\ Kept(heap.hdr, Walk(heap.hdr), heap'.hdr, Walk(heap'.hdr))
<1> DEFINE C == Walk(heap.hdr)
           D == Walk(heap'.hdr)
<1>1. Steady(heap, C, LastEnd(heap), live) /\ OnGrid(heap.top)
    BY Zenon DEF HeapInv
<1> HIDE DEF C
<1> SUFFICES /\ Steady(heap', D, LastEnd(heap'), live') /\ OnGrid(heap'.top)
             /\ \E node : node \notin DOMAIN live /\ live' = Taken(live, node, size)
             /\ Kept(heap.hdr, C, heap'.hdr, D)
    BY Zenon DEF HeapInv, C
<1>2. ASSUME NEW h, NEW C1, NEW last, Steady(h, C1, last, live),
             Kept(heap.hdr, C, h.hdr, C1), Fits(h, size) # {}, Allocate(h, size)
      PROVE  /\ Steady(heap', D, last, live')
             /\ Kept(heap.hdr, C, heap'.hdr, D) /\ heap'.top = h.top
             /\ \E node : node \notin DOMAIN live /\ live' = Taken(live, node, size)
    <2> DEFINE node == heap_find_free_node(h, size)
    <2>1. PICK zero : heap' = Reachable(heap_split_node(h, node, size, zero))
        BY <1>2, Zenon DEF Allocate
    <2>2. live' = Taken(live, node, size)
        BY <1>2, Zenon DEF Allocate, Taken
    <2>3. node = heap_find_free_node(h, size)
        BY Zenon
    <2> HIDE DEF node, D
    <2>4. /\ Steady(heap', Walk(heap'.hdr), last, live')
          /\ Kept(h.hdr, C1, heap'.hdr, Walk(heap'.hdr)) /\ heap'.top = h.top
          /\ node \notin DOMAIN live
        BY <1>2, <2>1, <2>2, <2>3, AllocateKeeps, SMTT(20)
    <2>5. Kept(heap.hdr, C, heap'.hdr, D)
        BY <1>2, <2>4, KeptTwice DEF D
    <2> QED
        BY <2>2, <2>4, <2>5, Zenon DEF D
<1> HIDE DEF D
<1>3. CASE kmalloc(size)
    <2>1. Fits(heap, size) # {} /\ Allocate(heap, size)
        BY <1>3, Zenon DEF kmalloc
    <2>2. Kept(heap.hdr, C, heap.hdr, C)
        BY Zenon DEF Kept
    <2>3. /\ Steady(heap', D, LastEnd(heap), live')
          /\ Kept(heap.hdr, C, heap'.hdr, D) /\ heap'.top = heap.top
          /\ \E node : node \notin DOMAIN live /\ live' = Taken(live, node, size)
        BY <1>1, <1>2, <2>1, <2>2, Zenon
    <2>4. LastEnd(heap') = LastEnd(heap)
        BY <2>3, Zenon DEF LastEnd
    <2> QED
        BY <1>1, <2>3, <2>4, Zenon
<1>4. CASE kmalloc_expand(size)
    <2> DEFINE count == expand_count(size)
               grown == expand_heap(heap, count)
               end == heap.top + count + HEADER_SIZE
    <2>1. ~PastTop(size) /\ EndIsLast(heap) /\ Fits(grown, size) # {} /\ Allocate(grown, size)
        BY <1>4, Zenon DEF kmalloc_expand
    <2>2. heap.end \in C /\ heap.hdr[heap.end].next = NULL
        BY <2>1, Zenon DEF EndIsLast, C
    <2>3. heap.top + count < heap_top
        <3>1. heap.top \in Nat /\ heap_top \in Nat
            BY <1>1, GridFacts, HeapAssumption, Zenon
        <3>2. count \in Nat
            BY HeapAssumption DEF expand_count, HEADER_SIZE
        <3> QED
            BY <2>1, <3>1, <3>2 DEF PastTop
    <2>4. /\ GrowsTo(heap, LastEnd(heap), count, end)
          /\ \A g : g.top = heap.top + count => OnGrid(g.top) /\ LastEnd(g) = end
        BY <1>1, <2>3, GridGrows
    <2>5. grown = expand_heap(heap, count)
        BY Zenon
    <2> HIDE DEF end, count, grown
    <2>6. /\ \E C2 : /\ Sound(grown, C2, end) /\ Listed(grown, C2, {})
                     /\ Apart(grown.hdr, C2, {}) /\ Kept(heap.hdr, C, grown.hdr, C2)
          /\ grown.top = heap.top + count
        <3>1. /\ Sound(heap, C, LastEnd(heap)) /\ Listed(heap, C, {})
              /\ Apart(heap.hdr, C, {})
            BY <1>1, Zenon DEF Steady
        <3> QED
            BY <2>2, <2>4, <2>5, <3>1, ExpandKeeps, Zenon
    <2>7. PICK C2 : /\ Sound(grown, C2, end) /\ Listed(grown, C2, {})
                    /\ Apart(grown.hdr, C2, {}) /\ Kept(heap.hdr, C, grown.hdr, C2)
        BY <2>6, Zenon
    <2>8. Steady(grown, C2, end, live)
        <3>1. Held(heap.hdr, C, live)
            BY <1>1, Zenon DEF Steady
        <3>2. Held(grown.hdr, C2, live)
            BY <2>7, <3>1, HeldKept, Zenon
        <3> QED
            BY <2>7, <3>2, Zenon DEF Steady
    <2>9. /\ Steady(heap', D, end, live')
          /\ Kept(heap.hdr, C, heap'.hdr, D) /\ heap'.top = grown.top
          /\ \E node : node \notin DOMAIN live /\ live' = Taken(live, node, size)
        BY <1>2, <2>1, <2>7, <2>8, Zenon
    <2>10. OnGrid(heap'.top) /\ LastEnd(heap') = end
        BY <2>4, <2>6, <2>9, Zenon
    <2> QED
        BY <2>9, <2>10, Zenon
<1> QED
    BY <1>3, <1>4, Zenon

\* kfree keeps it, and leaves the other blocks in use as they are.
LEMMA FreeStep ==
    ASSUME HeapInv, NEW node \in DOMAIN live, kfree(node)
    PROVE  /\ HeapInv' /\ live' = Freed(live, node)
           /\ \A n \in DOMAIN live' : heap'.hdr[n].size = heap.hdr[n].size
<1> DEFINE C == Walk(heap.hdr)
           f == [heap EXCEPT !.hdr[node].magic = "FREE"]
<1>1. Steady(heap, C, LastEnd(heap), live) /\ OnGrid(heap.top)
    BY Zenon DEF HeapInv
<1>2. heap' = Reachable(heap_merge_nodes(f, node)) /\ Marked(heap, node, f)
    BY Zenon DEF kfree, Marked
<1>3. live' = Freed(live, node)
    BY Zenon DEF kfree, Freed
<1> HIDE DEF C, f
<1>4. /\ Steady(heap', Walk(heap'.hdr), LastEnd(heap), live')
      /\ \A n \in DOMAIN live' : heap'.hdr[n].size = heap.hdr[n].size
      /\ heap'.top = heap.top
    BY <1>1, <1>2, <1>3, FreeKeeps
<1>5. LastEnd(heap') = LastEnd(heap) /\ OnGrid(heap'.top)
    BY <1>1, <1>4, Zenon DEF LastEnd
<1>6. HeapInv'
    BY <1>4, <1>5, Zenon DEF HeapInv
<1> QED
    BY <1>3, <1>4, <1>6, Zenon

\* kmalloc and kfree keep the heap's invariant, an expansion included, as long as
\* heap_list_end_ptr is at the last block when expand_heap follows it: the blocks tile the
\* heap and are linked both ways, free_node_list is in order and lists free blocks of the
\* chain, no two free blocks are neighbours, and what callers hold is in use.
THEOREM HeapInvariant == Spec => []HeapInv
<1>1. Init => HeapInv
    BY HeapInit, Zenon
<1>2. HeapInv /\ [Next]_vars => HeapInv'
    <2> SUFFICES ASSUME HeapInv, [Next]_vars
                 PROVE  HeapInv'
        BY Zenon
    <2>1. ASSUME NEW size \in Sizes, kmalloc(size) \/ kmalloc_expand(size)
          PROVE  HeapInv'
        <3>1. size \in Nat
            BY HeapAssumption, Zenon
        <3> QED
            BY <2>1, <3>1, AllocateStep, Zenon
    <2>2. ASSUME NEW size \in Sizes, kmalloc_past_top(size) \/ kmalloc_no_memory(size)
          PROVE  HeapInv'
        <3>1. heap' = heap /\ live' = live
            BY <2>2, Zenon DEF kmalloc_past_top, kmalloc_no_memory
        <3> QED
            BY <3>1, Zenon DEF HeapInv
    <2>3. ASSUME NEW node \in DOMAIN live, kfree(node)
          PROVE  HeapInv'
        BY <2>3, FreeStep, Zenon
    <2>4. CASE UNCHANGED vars
        BY <2>4, Zenon DEF HeapInv, vars
    <2> QED
        BY <2>1, <2>2, <2>3, <2>4, Zenon DEF Next
<1> QED
    BY <1>1, <1>2, PTL DEF Spec

\* The headers, the pointers of kheap.c and its array keep their types.
THEOREM HeapTypes == Spec => []TypeOK
<1>1. HeapInv => TypeOK
    <2> SUFFICES ASSUME HeapInv
                 PROVE  TypeOK
        BY Zenon
    <2> DEFINE C == Walk(heap.hdr)
    <2>1. /\ Sound(heap, C, LastEnd(heap)) /\ OnGrid(heap.top) /\ Held(heap.hdr, C, live)
        BY Zenon DEF HeapInv, Steady
    <2> HIDE DEF C
    <2>2. heap.top \in Addr
        BY <2>1, GridFacts, HeapAssumption DEF Addr, HEADER_SIZE
    <2>3. DOMAIN live \subseteq DOMAIN heap.hdr
        BY <2>1, Zenon DEF Sound, Chain, Held
    <2>4. heap.list.curr_size \in 1 .. list_size
        BY <2>1, Zenon DEF Sound, Ascending
    <2>5. heap.end \in Addr /\ heap.dropped \in BOOLEAN /\ Typed(heap.hdr)
        BY <2>1, Zenon DEF Sound
    <2> QED
        BY <2>2, <2>3, <2>4, <2>5, Zenon DEF TypeOK, Typed, AddrHeader
<1> QED
    BY <1>1, HeapInvariant, PTL

\* The chain that check_kheap_integrity walks covers the heap at every point between two
\* calls of kmalloc and kfree: splits, merges and expansions keep both links of each block.
THEOREM BlocksTileHeap == Spec => []Tiled
<1>1. HeapInv => Tiled
    <2> SUFFICES ASSUME HeapInv, NEW n \in Walk(heap.hdr)
                 PROVE  LET next == heap.hdr[n].next
                        IN  IF next = NULL
                            THEN EndOf(heap.hdr, n) =
                                     heap.top + (IF expanded THEN HEADER_SIZE ELSE 0)
                            ELSE next = EndOf(heap.hdr, n) /\ heap.hdr[next].prev = n
        BY Zenon DEF Tiled
    <2>1. Linked(heap.hdr, Walk(heap.hdr), LastEnd(heap), n)
        BY Zenon DEF HeapInv, Steady, Sound, Chain
    <2> QED
        BY <2>1, Zenon DEF Linked, LastEnd, expanded
<1> QED
    BY <1>1, HeapInvariant, PTL

\* The binary searches of free_node_list find what the chain says is free.
THEOREM FreeListMatchesChain == Spec => []FreeListExact
<1>1. HeapInv => FreeListExact
    <2> SUFFICES ASSUME HeapInv
                 PROVE  FreeListExact
        OBVIOUS
    <2>1. ChainFree = FreeIn(heap.hdr, Walk(heap.hdr))
        BY Zenon DEF ChainFree, FreeIn
    <2>2. Listed(heap, Walk(heap.hdr), {}) /\ Ascending(heap.list, list_size)
        BY Zenon DEF HeapInv, Steady, Sound
    <2>3. \A k \in 1 .. heap.list.curr_size - 2 : heap.list.arr[k - 1] < heap.list.arr[k]
        <3> SUFFICES ASSUME NEW k \in 1 .. heap.list.curr_size - 2
                     PROVE  heap.list.arr[k - 1] < heap.list.arr[k]
            BY Zenon
        <3>1. heap.list.curr_size \in 1 .. list_size /\ list_size \in Nat
            BY <2>2, HeapAssumption, Zenon DEF Ascending
        <3>2. k - 1 \in 0 .. heap.list.curr_size - 2 /\ k \in 0 .. heap.list.curr_size - 2
            BY <3>1
        <3> QED
            BY <2>2, <3>1, <3>2 DEF Ascending
    <2> QED
        BY <2>1, <2>2, <2>3, Zenon DEF FreeListExact, Listed, FreeNodes
<1> QED
    BY <1>1, HeapInvariant, PTL

\* heap_merge_nodes has merged every pair of free neighbours by the time a call returns.
THEOREM FreeBlocksMerged == Spec => []Coalesced
<1>1. HeapInv => Coalesced
    <2>1. ChainFree = FreeIn(heap.hdr, Walk(heap.hdr))
        BY Zenon DEF ChainFree, FreeIn
    <2> QED
        BY <2>1, Zenon DEF HeapInv, Steady, Coalesced, Apart
<1> QED
    BY <1>1, HeapInvariant, PTL

-----------------------------------------------------------------------------
(***************************************************************************)
(* The refinement of the abstract allocator.                               *)
(***************************************************************************)
\* What the caller that holds n sees of it.
Block(hdr, held, n) == [at |-> n + HEADER_SIZE, len |-> hdr[n].size, size |-> held[n]]

Blocks == {Block(heap.hdr, live, n) : n \in DOMAIN live}

\* Two blocks in use have no word in common, and each lies in the heap.
LEMMA BlocksApart ==
    ASSUME NEW h, NEW C, NEW last, Sound(h, C, last), NEW held, Held(h.hdr, C, held)
    PROVE  /\ \A n \in DOMAIN held :
                 LET b == Block(h.hdr, held, n)
                 IN  /\ b.len >= b.size /\ heap_bottom <= b.at /\ b.at + b.len <= heap_top
                     /\ n \in Nat /\ b.at = n + 4
           /\ \A n, m \in DOMAIN held :
                 n # m => ~A!Overlap(Block(h.hdr, held, n), Block(h.hdr, held, m))
<1>1. Chain(h.hdr, C, last) /\ last \in Nat /\ last <= heap_top
    BY Zenon DEF Sound
<1>2. ASSUME NEW n \in DOMAIN held
      PROVE  /\ n \in C /\ n \in Nat /\ h.hdr[n].size \in Nat /\ held[n] \in Nat
             /\ held[n] <= h.hdr[n].size /\ heap_bottom <= n
             /\ EndOf(h.hdr, n) = n + 4 + h.hdr[n].size
             /\ n + 4 + h.hdr[n].size <= heap_top
    <2>1. n \in C /\ held[n] \in Nat /\ held[n] <= h.hdr[n].size
        BY Zenon DEF Held
    <2>2. /\ n \in Nat /\ h.hdr[n] \in HeaderType /\ heap_bottom <= n
          /\ EndOf(h.hdr, n) = n + HEADER_SIZE + h.hdr[n].size
          /\ EndOf(h.hdr, n) <= last
        BY <1>1, <2>1, Neighbours, SMTT(20)
    <2> QED
        BY <1>1, <2>1, <2>2, AddrFacts DEF HeaderType, HEADER_SIZE
<1>3. ASSUME NEW n \in DOMAIN held
      PROVE  LET b == Block(h.hdr, held, n)
             IN  /\ b.len >= b.size /\ heap_bottom <= b.at /\ b.at + b.len <= heap_top
                 /\ n \in Nat /\ b.at = n + 4
    BY <1>2, AddrFacts DEF Block, HEADER_SIZE
<1>4. ASSUME NEW n \in DOMAIN held, NEW m \in DOMAIN held, n # m
      PROVE  ~A!Overlap(Block(h.hdr, held, n), Block(h.hdr, held, m))
    <2>1. /\ n < m => n + 4 + h.hdr[n].size <= m
          /\ m < n => m + 4 + h.hdr[m].size <= n
        BY <1>1, <1>2, Zenon DEF Chain
    <2> QED
        BY <1>2, <1>4, <2>1, SMTT(20) DEF Block, HEADER_SIZE, A!Overlap
<1> QED
    BY <1>3, <1>4, Zenon

\* A step of kmalloc that hands out a block is a step of the allocator.
LEMMA AllocatorTakes ==
    ASSUME HeapInv, NEW size \in Nat, kmalloc(size) \/ kmalloc_expand(size)
    PROVE  A!Allocate
<1>1. HeapInv' /\ Kept(heap.hdr, Walk(heap.hdr), heap'.hdr, Walk(heap'.hdr))
    BY AllocateStep, Zenon
<1>2. PICK node : node \notin DOMAIN live /\ live' = Taken(live, node, size)
    BY AllocateStep, Zenon
<1>3. /\ DOMAIN live' = DOMAIN live \cup {node} /\ node \in DOMAIN live'
      /\ \A n \in DOMAIN live : live'[n] = live[n]
    BY <1>2, Zenon DEF Taken
<1>4. \A n \in DOMAIN live : heap'.hdr[n].size = heap.hdr[n].size
    <2>1. Held(heap.hdr, Walk(heap.hdr), live)
        BY Zenon DEF HeapInv, Steady
    <2> QED
        BY <1>1, <2>1, Zenon DEF Held, Kept
<1> DEFINE B(n) == Block(heap'.hdr, live', n)
           block == B(node)
<1>5. \A n \in DOMAIN live : Block(heap.hdr, live, n) = B(n)
    BY <1>3, <1>4, Zenon DEF Block
<1>6. Blocks' = Blocks \cup {block}
    BY <1>3, <1>5, Zenon DEF Blocks
<1>7. /\ block.len >= block.size /\ heap_bottom <= block.at /\ block.at + block.len <= heap_top
      /\ \A n, m \in DOMAIN live' : n # m => ~A!Overlap(B(n), B(m))
    <2>1. Sound(heap', Walk(heap'.hdr), LastEnd(heap')) /\ Held(heap'.hdr, Walk(heap'.hdr), live')
        BY <1>1, Zenon DEF HeapInv, Steady
    <2> QED
        BY <1>3, <2>1, BlocksApart, Zenon
<1> HIDE DEF B
<1>8. ASSUME NEW b \in Blocks
      PROVE  ~A!Overlap(b, block)
    <2>1. PICK n \in DOMAIN live : b = B(n)
        BY <1>5, Zenon DEF Blocks
    <2>2. n # node /\ n \in DOMAIN live'
        BY <1>2, <1>3, Zenon
    <2> QED
        BY <1>3, <1>7, <2>1, <2>2, Zenon
<1>9. block \in Blocks'
    BY <1>6, Zenon
<1> HIDE DEF block
<1> QED
    BY <1>6, <1>7, <1>8, <1>9, Zenon DEF A!Allocate, Blocks, Block

\* So is a step of kfree.
LEMMA AllocatorFrees ==
    ASSUME HeapInv, NEW node \in DOMAIN live, kfree(node)
    PROVE  A!Free
<1>1. /\ HeapInv' /\ live' = Freed(live, node)
      /\ \A n \in DOMAIN live' : heap'.hdr[n].size = heap.hdr[n].size
    BY FreeStep, Zenon
<1>2. DOMAIN live' = DOMAIN live \ {node} /\ \A n \in DOMAIN live' : live'[n] = live[n]
    BY <1>1, Zenon DEF Freed
<1> DEFINE B(n) == Block(heap.hdr, live, n)
<1>3. \A n \in DOMAIN live' : Block(heap'.hdr, live', n) = B(n)
    BY <1>1, <1>2, Zenon DEF Block
<1>4. \A n \in DOMAIN live : n # node => B(n) # B(node)
    <2>1. \A n \in DOMAIN live : n \in Nat /\ B(n).at = n + 4
        <3>1. Sound(heap, Walk(heap.hdr), LastEnd(heap)) /\ Held(heap.hdr, Walk(heap.hdr), live)
            BY Zenon DEF HeapInv, Steady
        <3> QED
            BY <3>1, BlocksApart, Zenon
    <2> HIDE DEF B
    <2> QED
        BY <2>1
<1>5. Blocks' = Blocks \ {B(node)} /\ B(node) \in Blocks
    <2>1. Blocks' = {B(n) : n \in DOMAIN live'}
        BY <1>3, Zenon DEF Blocks
    <2>2. Blocks = {B(n) : n \in DOMAIN live}
        BY Zenon DEF Blocks
    <2> HIDE DEF B
    <2> QED
        BY <1>2, <1>4, <2>1, <2>2, Zenon
<1> HIDE DEF B
<1> QED
    BY <1>5, Zenon DEF A!Free, Blocks, Block

\* kmalloc and kfree implement the allocator: what is handed out is large enough, in the
\* heap and apart from every block in use, and nothing a caller holds is changed, whatever
\* other calls split, merge and expand.
THEOREM HeapImplementsAllocator == Spec => ImplementsAllocator
<1>1. Init => A!Init
    BY Zenon DEF Init, A!Init
<1>2. HeapInv /\ [Next]_vars =>
          \/ A!Allocate \/ A!Free
          \/ UNCHANGED {[at |-> n + HEADER_SIZE, len |-> heap.hdr[n].size, size |-> live[n]] :
                            n \in DOMAIN live}
    <2> SUFFICES ASSUME HeapInv, [Next]_vars
                 PROVE  \/ A!Allocate \/ A!Free
                        \/ UNCHANGED {[at |-> n + HEADER_SIZE, len |-> heap.hdr[n].size,
                                       size |-> live[n]] : n \in DOMAIN live}
        BY Zenon
    <2>1. ASSUME NEW size \in Sizes, kmalloc(size) \/ kmalloc_expand(size)
          PROVE  A!Allocate
        <3>1. size \in Nat
            BY HeapAssumption
        <3> QED
            BY <2>1, <3>1, AllocatorTakes, Zenon
    <2>2. ASSUME NEW size \in Sizes, kmalloc_past_top(size) \/ kmalloc_no_memory(size)
          PROVE  heap' = heap /\ live' = live
        BY <2>2, Zenon DEF kmalloc_past_top, kmalloc_no_memory
    <2>3. ASSUME NEW node \in DOMAIN live, kfree(node)
          PROVE  A!Free
        BY <2>3, AllocatorFrees, Zenon
    <2>4. ASSUME UNCHANGED vars
          PROVE  heap' = heap /\ live' = live
        BY <2>4, Zenon DEF vars
    <2>5. A!Allocate \/ A!Free \/ (heap' = heap /\ live' = live)
        BY <2>1, <2>2, <2>3, <2>4, Zenon DEF Next
    <2> QED
        BY <2>5, Zenon
<1> QED
    BY <1>1, <1>2, HeapInvariant, PTL DEF Spec, ImplementsAllocator, A!Spec
=============================================================================
