----------------------------- MODULE KlibProofs -----------------------------
(***************************************************************************)
(* Proofs about three data structures of klib that share nothing:          *)
(* ByteIndexList, for tables of every size; SharedPool, for any number of  *)
(* clients, objects and bits in a word; and LinkedList, for any pool of    *)
(* nodes and any data.                                                     *)
(***************************************************************************)
EXTENDS ByteIndexList, SharedPool, LinkedList, LoopProofs, FiniteSetTheorems

(***************************************************************************)
(* ByteIndexList: no free slot below free_ptr, and what is held is marked  *)
(* and held by one.                                                        *)
(***************************************************************************)
TableInv ==
    TableTypeOK /\ NothingFreeBelow /\ PanicOnlyWhenFull /\ HeldIsMarked /\ OneHolder

\* Multiplication keeps the order.
LEMMA TimesMonotone ==
    ASSUME NEW a \in Int, NEW b \in Int, a <= b
    PROVE  a * BYTE <= b * BYTE
<1>1. BYTE \in Nat BY TableAssumption, Zenon
<1>2. (b - a) * BYTE >= 0
  <2> DEFINE d == b - a
  <2>1. d \in Nat OBVIOUS
  <2>2. d * BYTE \in Nat BY <1>1, <2>1
  <2> QED BY <2>2
<1>3. (b - a) * BYTE = b * BYTE - a * BYTE BY <1>1
<1>4. a * BYTE \in Int /\ b * BYTE \in Int BY <1>1
<1> QED BY <1>2, <1>3, <1>4

\* What division by the number of bits gives.
LEMMA Division ==
    ASSUME NEW s \in Nat
    PROVE  /\ s \div BYTE \in Int
           /\ BYTE * (s \div BYTE) <= s
           /\ s < BYTE * (s \div BYTE) + BYTE
<1>1. s \div BYTE \in Int BY TableAssumption
<1>2. BYTE * (s \div BYTE) <= s BY TableAssumption
<1>3. s < BYTE * (s \div BYTE) + BYTE BY TableAssumption
<1> QED BY <1>1, <1>2, <1>3, Zenon

\* index / 8 is the byte that holds the slot, and a byte of the table.
LEMMA ByteOfSlot ==
    ASSUME NEW s \in Slots
    PROVE  s \div BYTE \in Bytes /\ s \in Byte(s \div BYTE)
<1>1. BYTE \in Nat /\ BYTE > 0 /\ table_size \in Nat BY TableAssumption
<1>2. table_size * BYTE \in Nat BY <1>1
<1>3. s \in Nat /\ s < table_size * BYTE BY <1>2 DEF Slots
<1>4. PICK q \in Int : q = s \div BYTE /\ BYTE * q <= s /\ s < BYTE * q + BYTE
  BY <1>3, Division, Zenon
<1>5. q * BYTE \in Int /\ q * BYTE = BYTE * q /\ (q + 1) * BYTE = q * BYTE + BYTE
  BY <1>1
<1>6. s \in Byte(q)
  <2>1. q * BYTE <= s /\ s <= (q + 1) * BYTE - 1 BY <1>1, <1>3, <1>4, <1>5
  <2>2. (q + 1) * BYTE - 1 \in Int BY <1>1, <1>5
  <2> QED BY <2>1, <2>2, <1>3, <1>5 DEF Byte
<1>7. q >= 0
  <2>1. SUFFICES ASSUME q + 1 <= 0 PROVE FALSE OBVIOUS
  <2>2. (q + 1) * BYTE <= 0 * BYTE BY <2>1, TimesMonotone
  <2>3. 0 * BYTE = 0 BY <1>1
  <2>4. q * BYTE + BYTE <= 0 BY <2>2, <2>3, <1>5, Zenon
  <2> QED BY <2>4, <1>1, <1>3, <1>4, <1>5
<1>8. q < table_size
  <2>1. SUFFICES ASSUME table_size <= q PROVE FALSE BY <1>1
  <2>2. table_size * BYTE <= q * BYTE BY <2>1, <1>1, TimesMonotone
  <2> QED BY <2>2, <1>2, <1>3, <1>4, <1>5
<1> QED BY <1>1, <1>4, <1>6, <1>7, <1>8 DEF Bytes

\* A slot lies in no byte before its own.
LEMMA NotBefore ==
    ASSUME NEW s \in Slots, NEW b \in Int, b < s \div BYTE
    PROVE  s \notin Byte(b)
<1> DEFINE q == s \div BYTE
<1>1. q \in Bytes /\ s \in Byte(q) BY ByteOfSlot, Zenon
<1>2. BYTE \in Nat BY TableAssumption, Zenon
<1>3. q \in Int BY <1>1, TableAssumption DEF Bytes
<1>4. (b + 1) * BYTE <= q * BYTE
  <2> HIDE DEF q
  <2>1. b + 1 <= q BY <1>3 DEF q
  <2> QED BY <2>1, <1>3, TimesMonotone
<1>5. q * BYTE \in Int /\ (b + 1) * BYTE \in Int BY <1>2, <1>3
<1>6. s \in Int /\ s >= q * BYTE
  <2> HIDE DEF q
  <2> QED BY <1>1, <1>5 DEF Byte
<1> HIDE DEF q
<1> QED BY <1>4, <1>5, <1>6 DEF Byte

\* Slots that stay set keep full bytes full.
LEMMA TakenGrows ==
    ASSUME NEW b, Taken(b), array \subseteq array'
    PROVE  Taken(b)'
BY Zenon DEF Taken, Byte

-----------------------------------------------------------------------------
\* Every call keeps the invariant: the search starts at free_ptr, below which no byte
\* has a clear bit, and a release moves free_ptr down to the byte it clears a bit of.
LEMMA TableStep == TableInv /\ [TableNext]_tableVars => TableInv'
<1> SUFFICES ASSUME TableInv, [TableNext]_tableVars PROVE TableInv'
  BY Zenon
<1> USE TableAssumption
<1>0. /\ table_size * BYTE \in Nat /\ free_ptr \in Int
      /\ \A b \in Bytes : b \in Int
  BY DEF TableInv, TableTypeOK, Bytes
<1>1. CASE get_free_slot
  <2>1. PICK b \in Bytes, slot \in Slots :
            /\ FirstFree(b)
            /\ free_ptr' = b
            /\ array' = array \cup {slot}
            /\ slot \notin array
            /\ holders' = [holders EXCEPT ![slot] = @ + 1]
    BY <1>1, Zenon DEF get_free_slot
  <2>2. table_status = "ok" /\ table_status' = "ok" BY <1>1, Zenon DEF get_free_slot
  <2>3. slot \in 0 .. table_size * BYTE + RegionMax BY <1>0 DEF Slots
  <2>4. TableTypeOK' BY <2>1, <2>2, <2>3, <1>0 DEF TableInv, TableTypeOK, Bytes
  <2>5. ASSUME NEW k \in 0 .. b - 1 PROVE Taken(k)'
    <3>1. CASE k < free_ptr
      <4>1. k \in 0 .. free_ptr - 1 BY <3>1, <1>0
      <4> QED BY <4>1, <2>1, TakenGrows, Zenon DEF TableInv, NothingFreeBelow
    <3>2. CASE k >= free_ptr
      <4>1. k \in free_ptr .. b - 1 BY <3>2, <1>0
      <4> QED BY <4>1, <2>1, TakenGrows, Zenon DEF FirstFree
    <3> QED BY <3>1, <3>2, <1>0
  <2>6. NothingFreeBelow' BY <2>1, <2>5, Zenon DEF NothingFreeBelow
  <2>7. PanicOnlyWhenFull' BY <2>2, Zenon DEF PanicOnlyWhenFull
  <2>8. /\ holders \in [Slots -> Nat] /\ holders[slot] = 0
        /\ \A s \in Slots : holders[s] <= 1 /\ (holders[s] > 0 => s \in array)
    <3>1. /\ holders \in [Slots -> Nat]
          /\ \A s \in Slots : holders[s] <= 1 /\ (holders[s] > 0 => s \in array)
      BY Zenon DEF TableInv, TableTypeOK, OneHolder, HeldIsMarked, granted
    <3>2. holders[slot] \in Nat /\ ~(holders[slot] > 0) BY <3>1, <2>1, Zenon
    <3> QED BY <3>1, <3>2
  <2>9. ASSUME NEW s \in Slots
        PROVE  holders'[s] <= 1 /\ (holders'[s] > 0 => s \in array')
    <3>1. CASE s = slot BY <3>1, <2>1, <2>8
    <3>2. CASE s # slot
      <4>1. holders'[s] = holders[s] BY <3>2, <2>1, <2>8
      <4> QED BY <4>1, <2>1, <2>8, Zenon
    <3> QED BY <3>1, <3>2
  <2>10. HeldIsMarked' /\ OneHolder' BY <2>9, Zenon DEF HeldIsMarked, OneHolder, granted, Slots
  <2> QED BY <2>4, <2>6, <2>7, <2>10, Zenon DEF TableInv
<1>2. CASE get_free_slot_panic
  <2>1. ASSUME NEW k \in Bytes PROVE Taken(k)
    <3>1. CASE k < free_ptr
      <4>1. k \in 0 .. free_ptr - 1 BY <3>1, <1>0 DEF Bytes
      <4> QED BY <4>1, Zenon DEF TableInv, NothingFreeBelow
    <3>2. CASE k >= free_ptr
      <4>1. k \in free_ptr .. table_size - 1 BY <3>2, <1>0 DEF Bytes
      <4> QED BY <4>1, <1>2, Zenon DEF get_free_slot_panic
    <3> QED BY <3>1, <3>2, <1>0
  <2>2. Slots \subseteq array BY <2>1, ByteOfSlot, Zenon DEF Taken
  <2>3. array' = array /\ holders' = holders /\ table_status' = "panic" /\ free_ptr' = table_size
    BY <1>2, Zenon DEF get_free_slot_panic
  <2>4. TableTypeOK' BY <2>3 DEF TableInv, TableTypeOK
  <2>5. NothingFreeBelow' BY <2>1, <2>3, Zenon DEF NothingFreeBelow, Bytes, Taken, Byte
  <2> QED BY <2>2, <2>3, <2>4, <2>5, Zenon
          DEF TableInv, PanicOnlyWhenFull, HeldIsMarked, OneHolder, granted, Slots
<1>3. ASSUME NEW bit \in granted, release_tbl(bit) PROVE TableInv'
  <2> DEFINE q == bit \div BYTE
  <2>1. bit \in Slots BY Zenon DEF granted
  <2>2. q \in Bytes BY <2>1, ByteOfSlot, Zenon
  <2>3. /\ table_status = "ok" /\ table_status' = "ok" /\ array' = array \ {bit}
        /\ holders' = [holders EXCEPT ![bit] = @ - 1]
    BY <1>3, Zenon DEF release_tbl
  <2>4. free_ptr' = IF free_ptr > q THEN q ELSE free_ptr BY <1>3, Zenon DEF release_tbl
  <2>5. /\ holders \in [Slots -> Nat] /\ holders[bit] = 1
        /\ \A s \in Slots : holders[s] <= 1 /\ (holders[s] > 0 => s \in array)
    <3>1. /\ holders \in [Slots -> Nat] /\ holders[bit] > 0
          /\ \A s \in Slots : holders[s] <= 1 /\ (holders[s] > 0 => s \in array)
      BY Zenon DEF TableInv, TableTypeOK, OneHolder, HeldIsMarked, granted
    <3>2. holders[bit] \in Nat /\ holders[bit] <= 1 BY <3>1, <2>1, Zenon
    <3> QED BY <3>1, <3>2
  <2>6. ASSUME NEW s \in Slots
        PROVE  holders'[s] \in Nat /\ holders'[s] <= 1 /\ (holders'[s] > 0 => s \in array')
    <3>1. CASE s = bit BY <3>1, <2>1, <2>3, <2>5
    <3>2. CASE s # bit
      <4>1. holders'[s] = holders[s] BY <3>2, <2>3, <2>5
      <4> QED BY <4>1, <3>2, <2>3, <2>5, Zenon
    <3> QED BY <3>1, <3>2
  <2>7. HeldIsMarked' /\ OneHolder' BY <2>6, Zenon DEF HeldIsMarked, OneHolder, granted, Slots
  <2>8. holders' \in [Slots -> Nat] BY <2>3, <2>5, <2>6, Zenon
  <2>9. TableTypeOK'
    <3> HIDE DEF q
    <3>1. free_ptr' \in Bytes BY <2>2, <2>3, <2>4, Zenon DEF TableInv, TableTypeOK
    <3>2. free_ptr' \in 0 .. table_size BY <3>1 DEF Bytes
    <3> QED BY <3>1, <3>2, <2>3, <2>8, Zenon DEF TableInv, TableTypeOK, Slots
  <2>10. ASSUME NEW k \in 0 .. free_ptr' - 1 PROVE Taken(k)'
    <3>1. k \in 0 .. free_ptr - 1 /\ k < q
      <4> HIDE DEF q
      <4> QED BY <2>2, <2>4, <1>0
    <3>2. bit \notin Byte(k) BY <3>1, <2>1, NotBefore
    <3>3. Taken(k) BY <3>1, Zenon DEF TableInv, NothingFreeBelow
    <3> QED BY <3>2, <3>3, <2>3, Zenon DEF Taken, Byte
  <2>11. NothingFreeBelow' BY <2>10, Zenon DEF NothingFreeBelow
  <2> QED BY <2>3, <2>9, <2>11, <2>7, Zenon DEF TableInv, PanicOnlyWhenFull
<1>4. ASSUME NEW bit \in Slots, NEW n \in 0 .. RegionMax, NEW exists \in BOOLEAN,
             mem_alloc_region(bit, n, exists)
      PROVE  TableInv'
  <2>1. /\ table_status = "ok" /\ array' = array \cup (bit .. bit + n - 1)
        /\ free_ptr' = free_ptr /\ table_status' = table_status /\ holders' = holders
    BY <1>4, Zenon DEF mem_alloc_region
  <2>2. bit .. bit + n - 1 \subseteq 0 .. table_size * BYTE + RegionMax BY <1>0 DEF Slots
  <2>3. TableTypeOK' BY <2>1, <2>2, Zenon DEF TableInv, TableTypeOK
  <2>4. NothingFreeBelow'
    BY <2>1, TakenGrows, Zenon DEF TableInv, NothingFreeBelow
  <2> QED BY <2>1, <2>3, <2>4, Zenon
          DEF TableInv, PanicOnlyWhenFull, HeldIsMarked, OneHolder, granted, Slots
<1>5. CASE UNCHANGED tableVars
  BY <1>5, Zenon DEF tableVars, TableInv, TableTypeOK, NothingFreeBelow, PanicOnlyWhenFull,
                     HeldIsMarked, OneHolder, granted, Slots, Taken, Byte
<1> QED BY <1>1, <1>2, <1>3, <1>4, <1>5, Zenon DEF TableNext

\* The invariant holds in every state that the calls can reach.
THEOREM TableInvariant == TableSpec => []TableInv
<1>1. init_byte_index_list => TableInv
  <2> SUFFICES ASSUME init_byte_index_list PROVE TableInv BY Zenon
  <2>1. 0 \in Bytes /\ 0 \in 0 .. table_size BY TableAssumption DEF Bytes
  <2>2. 0 .. free_ptr - 1 = {} BY DEF init_byte_index_list
  <2>3. NothingFreeBelow BY <2>2, Zenon DEF NothingFreeBelow
  <2>4. /\ holders \in [Slots -> Nat]
        /\ \A s \in Slots : holders[s] <= 1 /\ ~(holders[s] > 0)
    BY DEF init_byte_index_list
  <2>5. HeldIsMarked /\ OneHolder BY <2>4, Zenon DEF HeldIsMarked, OneHolder, granted
  <2> QED BY <2>1, <2>3, <2>4, <2>5, Zenon
          DEF init_byte_index_list, TableInv, TableTypeOK, PanicOnlyWhenFull
<1> QED BY <1>1, TableStep, PTL DEF TableSpec

\* The variables keep their types.
THEOREM TableTypes == TableSpec => []TableTypeOK
BY TableInvariant, PTL DEF TableInv

\* No byte below free_ptr has a clear bit, whatever order slots are released in.
THEOREM SearchMissesNothing == TableSpec => []NothingFreeBelow
BY TableInvariant, PTL DEF TableInv

\* update_free_ptr panics in a full table only.
THEOREM PanicIsHonest == TableSpec => []PanicOnlyWhenFull
BY TableInvariant, PTL DEF TableInv

\* A slot that a caller holds stays marked.
THEOREM HeldStaysMarked == TableSpec => []HeldIsMarked
BY TableInvariant, PTL DEF TableInv

\* No slot has two holders: byte_index_get_free_slot hands out a slot whose bit is clear,
\* and the bit of a slot that someone holds is set.
THEOREM HeldByOne == TableSpec => []OneHolder
BY TableInvariant, PTL DEF TableInv

-----------------------------------------------------------------------------
(***************************************************************************)
(* SharedPool: an object is given to one client at a time.                 *)
(***************************************************************************)
\* The first index that a scan has not passed.
Reached(c) == IF pc[c] = "load" THEN i[c] * FREE_ENTRY_SIZE ELSE Position(c)

\* A scan has counted every bit it passed as taken or as a lost race.
Counted(c) ==
    /\ pc[c] \in {"load", "try", "panic"} => Reached(c) = found[c] + lost[c]
    /\ pc[c] = "try" => i[c] < free_list_size
    /\ pc[c] = "panic" => found[c] < max_obj_num /\ max_obj_num <= Position(c)

\* What a scan that lost no race passed was taken at some time in the call.
Seen(c) ==
    pc[c] \in {"load", "try"} =>
        /\ free_since[c] \cap free_list = {}
        /\ pc[c] = "try" => free_since[c] \cap free_mask[c] = {}
        /\ lost[c] = 0 => \A x \in free_since[c] : Reached(c) <= x

Freeing(c) == pc[c] = "free" => index[c] \in held[c]

ClientInv == \A c \in Client : Counted(c) /\ Seen(c) /\ Freeing(c)

PoolInv == PoolTypeOK /\ ExclusiveOwnership /\ ClientInv

USE SizeAssumption

\* The words of free_list cover all the objects (the + 1 in free_list_size).
LEMMA ListCovers == /\ free_list_size \in Nat \ {0}
                    /\ free_list_size * FREE_ENTRY_SIZE > max_obj_num
<1>1. /\ max_obj_num \div FREE_ENTRY_SIZE \in Nat
      /\ max_obj_num = FREE_ENTRY_SIZE * (max_obj_num \div FREE_ENTRY_SIZE)
                       + (max_obj_num % FREE_ENTRY_SIZE)
      /\ max_obj_num % FREE_ENTRY_SIZE \in 0 .. FREE_ENTRY_SIZE - 1
    OBVIOUS
<1> DEFINE q == max_obj_num \div FREE_ENTRY_SIZE
           r == max_obj_num % FREE_ENTRY_SIZE
<1>2. q \in Nat /\ r \in Nat /\ r < FREE_ENTRY_SIZE /\ max_obj_num = FREE_ENTRY_SIZE * q + r
    BY <1>1
<1> HIDE DEF q, r
<1>3. (q + 1) * FREE_ENTRY_SIZE = FREE_ENTRY_SIZE * q + FREE_ENTRY_SIZE
    BY <1>2
<1> QED
    BY <1>2, <1>3 DEF free_list_size, q

\* Position arithmetic: the next word starts where this one ends, and an index between
\* the two is in this word.
LEMMA NextBase ==
    ASSUME NEW w \in Nat
    PROVE  /\ w * FREE_ENTRY_SIZE \in Nat
           /\ (w + 1) * FREE_ENTRY_SIZE = w * FREE_ENTRY_SIZE + FREE_ENTRY_SIZE
           /\ \A x \in Nat : w * FREE_ENTRY_SIZE <= x
                             /\ x < w * FREE_ENTRY_SIZE + FREE_ENTRY_SIZE => x \in Word(w)
<1>1. w * FREE_ENTRY_SIZE \in Nat
    OBVIOUS
<1>2. (w + 1) * FREE_ENTRY_SIZE = w * FREE_ENTRY_SIZE + FREE_ENTRY_SIZE
    OBVIOUS
<1>3. ASSUME NEW x \in Nat, w * FREE_ENTRY_SIZE <= x,
             x < w * FREE_ENTRY_SIZE + FREE_ENTRY_SIZE
      PROVE  x \in Word(w)
  <2>1. PICK base \in Nat : base = w * FREE_ENTRY_SIZE
      BY <1>1, Zenon
  <2>2. x - base \in 0 .. FREE_ENTRY_SIZE - 1 /\ x = base + (x - base)
      BY <1>3, <2>1
  <2> QED
      BY <2>1, <2>2, Zenon DEF Word
<1> QED
    BY <1>1, <1>2, <1>3, Zenon

\* A bit of a word is a bit of the list.
LEMMA PositionInBits ==
    ASSUME PoolTypeOK, NEW c \in Client, i[c] < free_list_size, j[c] < FREE_ENTRY_SIZE
    PROVE  Position(c) \in Bits /\ Position(c) \in Nat
<1>1. i[c] \in 0 .. free_list_size - 1 /\ j[c] \in 0 .. FREE_ENTRY_SIZE - 1
    BY ListCovers DEF PoolTypeOK
<1>2. Position(c) \in Word(i[c])
    BY <1>1, Zenon DEF Position, Word
<1>3. i[c] * FREE_ENTRY_SIZE \in Nat
    BY <1>1, NextBase
<1> QED
    BY <1>1, <1>2, <1>3 DEF Bits, Position

\* What one client does to its own locals does not disturb another client, as long as
\* the objects that one has seen free all along are still free.
LEMMA OtherClient ==
    ASSUME NEW d \in Client, Counted(d), Seen(d), Freeing(d),
           pc'[d] = pc[d], i'[d] = i[d], j'[d] = j[d], found'[d] = found[d],
           lost'[d] = lost[d], free_mask'[d] = free_mask[d], index'[d] = index[d],
           held'[d] = held[d], free_since'[d] \subseteq free_since[d],
           free_since[d] \cap free_list = {} => free_since'[d] \cap free_list' = {}
    PROVE  Counted(d)' /\ Seen(d)' /\ Freeing(d)'
<1>1. Reached(d)' = Reached(d) /\ Position(d)' = Position(d)
    BY Zenon DEF Reached, Position
<1>2. Counted(d)'
    BY <1>1, Zenon DEF Counted
<1>3. Seen(d)'
    BY <1>1, Zenon DEF Seen
<1>4. Freeing(d)'
    BY Zenon DEF Freeing
<1> QED
    BY <1>2, <1>3, <1>4, Zenon

\* Every step preserves the invariant.
THEOREM PoolStep ==
    ASSUME PoolInv, [PoolNext]_poolVars
    PROVE  PoolInv'
<1>0. PoolTypeOK /\ ExclusiveOwnership /\ ClientInv
    BY Zenon DEF PoolInv
<1> USE DEF scanVars, Goto, PoolTypeOK
<1>1. ASSUME NEW c \in Client, GetNext(c)
      PROVE  PoolInv'
  <2>1. PoolTypeOK'
      BY <1>0, <1>1, ListCovers DEF GetNext
  <2>2. ExclusiveOwnership'
      BY <1>0, <1>1, Zenon DEF GetNext, ExclusiveOwnership
  <2>3. Counted(c)' /\ Seen(c)' /\ Freeing(c)'
    <3>1. Reached(c)' = 0
        BY <1>0, <1>1 DEF GetNext, Reached
    <3> QED
        BY <1>0, <1>1, <3>1 DEF GetNext, Counted, Seen, Freeing, Objects
  <2>4. ASSUME NEW d \in Client, d # c PROVE Counted(d)' /\ Seen(d)' /\ Freeing(d)'
      BY <1>0, <1>1, <2>4, OtherClient, Zenon DEF GetNext, ClientInv
  <2> QED
      BY <2>1, <2>2, <2>3, <2>4, Zenon DEF PoolInv, ClientInv
<1>2. ASSUME NEW c \in Client, LoadWord(c)
      PROVE  PoolInv'
  <2>1. /\ i[c] \in Nat /\ i[c] + 1 \in 0 .. free_list_size /\ Word(i[c]) \subseteq Bits
        /\ i[c] * FREE_ENTRY_SIZE \in Nat
        /\ (i[c] + 1) * FREE_ENTRY_SIZE = i[c] * FREE_ENTRY_SIZE + FREE_ENTRY_SIZE
        /\ \A x \in Nat : i[c] * FREE_ENTRY_SIZE <= x
              /\ x < i[c] * FREE_ENTRY_SIZE + FREE_ENTRY_SIZE => x \in Word(i[c])
      BY <1>0, <1>2, ListCovers, NextBase DEF LoadWord, Bits
  <2>2. PoolTypeOK'
      BY <1>0, <1>2, <2>1 DEF LoadWord
  <2>3. ExclusiveOwnership'
      BY <1>0, <1>2 DEF LoadWord, ExclusiveOwnership
  <2>4. Counted(c)' /\ Seen(c)' /\ Freeing(c)'
    <3>1. CASE free_list \cap Word(i[c]) = Word(i[c])
      <4>1. /\ i'[c] = i[c] + 1 /\ pc'[c] = "load" /\ found'[c] = found[c] + FREE_ENTRY_SIZE
            /\ lost'[c] = lost[c] /\ free_since'[c] = free_since[c] /\ free_list' = free_list
          BY <1>0, <1>2, <3>1, Zenon DEF LoadWord
      <4>2. Reached(c) = i[c] * FREE_ENTRY_SIZE
          BY <1>2, Zenon DEF LoadWord, Reached
      <4>3. Reached(c)' = Reached(c) + FREE_ENTRY_SIZE
          BY <2>1, <4>1, <4>2, Zenon DEF Reached
      <4>4. \A x \in free_since[c] : x \in Nat /\ x \notin Word(i[c])
          BY <1>0, <1>2, <3>1 DEF LoadWord, ClientInv, Seen, Objects
      <4>5. \A x \in free_since[c] : Reached(c) <= x => Reached(c)' <= x
          BY <2>1, <4>2, <4>3, <4>4
      <4> QED
          BY <1>0, <1>2, <4>1, <4>3, <4>5 DEF LoadWord, ClientInv, Counted, Seen, Freeing
    <3>2. CASE free_list \cap Word(i[c]) # Word(i[c])
      <4>1. /\ i'[c] = i[c] /\ j'[c] = 0 /\ pc'[c] = "try" /\ found'[c] = found[c]
            /\ lost'[c] = lost[c] /\ free_since'[c] = free_since[c] /\ free_list' = free_list
            /\ free_mask'[c] = free_list \cap Word(i[c])
          BY <1>0, <1>2, <3>2, Zenon DEF LoadWord
      <4>2. Reached(c)' = Reached(c)
          BY <1>2, <2>1, <4>1 DEF LoadWord, Reached, Position
      <4> QED
          BY <1>0, <1>2, <4>1, <4>2, Zenon DEF LoadWord, ClientInv, Counted, Seen, Freeing
    <3> QED
        BY <3>1, <3>2, Zenon
  <2>5. ASSUME NEW d \in Client, d # c PROVE Counted(d)' /\ Seen(d)' /\ Freeing(d)'
      BY <1>0, <1>2, <2>5, OtherClient DEF LoadWord, ClientInv
  <2> QED
      BY <2>2, <2>3, <2>4, <2>5 DEF PoolInv, ClientInv
<1>3. ASSUME NEW c \in Client, NextWord(c)
      PROVE  PoolInv'
  <2>1. /\ i[c] \in Nat /\ i[c] + 1 \in 0 .. free_list_size
        /\ i[c] * FREE_ENTRY_SIZE \in Nat
        /\ (i[c] + 1) * FREE_ENTRY_SIZE = i[c] * FREE_ENTRY_SIZE + FREE_ENTRY_SIZE
    <3>1. i[c] \in Nat /\ i[c] < free_list_size
        BY <1>0, <1>3, ListCovers DEF NextWord, ClientInv, Counted
    <3> QED
        BY <3>1, ListCovers, NextBase
  <2>2. PoolTypeOK'
      BY <1>0, <1>3, <2>1, Zenon DEF NextWord
  <2>3. ExclusiveOwnership'
      BY <1>0, <1>3, Zenon DEF NextWord, ExclusiveOwnership
  <2>4. Counted(c)' /\ Seen(c)' /\ Freeing(c)'
    <3>1. Reached(c)' = Reached(c)
        BY <1>0, <1>3, <2>1, Zenon DEF NextWord, Reached, Position
    <3> QED
        BY <1>0, <1>3, <3>1, Zenon DEF NextWord, ClientInv, Counted, Seen, Freeing
  <2>5. ASSUME NEW d \in Client, d # c PROVE Counted(d)' /\ Seen(d)' /\ Freeing(d)'
      BY <1>0, <1>3, <2>5, OtherClient, Zenon DEF NextWord, ClientInv
  <2> QED
      BY <2>2, <2>3, <2>4, <2>5 DEF PoolInv, ClientInv
<1>4. ASSUME NEW c \in Client, GetNull(c)
      PROVE  PoolInv'
  <2>1. PoolTypeOK'
      BY <1>0, <1>4, Zenon DEF GetNull
  <2>2. ExclusiveOwnership'
      BY <1>0, <1>4 DEF GetNull, ExclusiveOwnership
  <2>3. Counted(c)' /\ Seen(c)' /\ Freeing(c)'
      BY <1>0, <1>4, Zenon DEF GetNull, Counted, Seen, Freeing
  <2>4. ASSUME NEW d \in Client, d # c PROVE Counted(d)' /\ Seen(d)' /\ Freeing(d)'
      BY <1>0, <1>4, <2>4, OtherClient DEF GetNull, ClientInv
  <2> QED
      BY <2>1, <2>2, <2>3, <2>4 DEF PoolInv, ClientInv
<1>5. ASSUME NEW c \in Client, SkipTaken(c)
      PROVE  PoolInv'
  <2>1. /\ i[c] \in Nat /\ i[c] < free_list_size /\ j[c] + 1 \in 0 .. FREE_ENTRY_SIZE
        /\ i[c] * FREE_ENTRY_SIZE \in Nat /\ Position(c) \in Nat
      BY <1>0, <1>5, ListCovers, NextBase DEF SkipTaken, Trying, ClientInv, Counted, Position
  <2>2. PoolTypeOK'
      BY <1>0, <1>5, <2>1 DEF SkipTaken
  <2>3. ExclusiveOwnership'
      BY <1>0, <1>5 DEF SkipTaken, ExclusiveOwnership
  <2>4. Counted(c)' /\ Seen(c)' /\ Freeing(c)'
    <3>1. Reached(c) = Position(c) /\ Reached(c)' = Position(c) + 1
        BY <1>0, <1>5, <2>1 DEF SkipTaken, Trying, Reached, Position
    <3>2. \A x \in free_since[c] : x \in Nat /\ x # Position(c)
        BY <1>0, <1>5 DEF SkipTaken, Trying, ClientInv, Seen, Objects
    <3> QED
        BY <1>0, <1>5, <2>1, <3>1, <3>2
        DEF SkipTaken, Trying, ClientInv, Counted, Seen, Freeing
  <2>5. ASSUME NEW d \in Client, d # c PROVE Counted(d)' /\ Seen(d)' /\ Freeing(d)'
      BY <1>0, <1>5, <2>5, OtherClient, Zenon DEF SkipTaken, ClientInv
  <2> QED
      BY <2>2, <2>3, <2>4, <2>5 DEF PoolInv, ClientInv
<1>6. ASSUME NEW c \in Client, Take(c)
      PROVE  PoolInv'
  <2>1. /\ Position(c) \in Bits /\ Position(c) \in Word(i[c])
        /\ pc[c] = "try" /\ Position(c) \in Nat
    <3>1. i[c] < free_list_size /\ j[c] \in 0 .. FREE_ENTRY_SIZE - 1 /\ pc[c] = "try"
        BY <1>0, <1>6 DEF Take, Trying, ClientInv, Counted
    <3>2. Position(c) \in Word(i[c])
        BY <3>1, Zenon DEF Position, Word
    <3> QED
        BY <1>0, <3>1, <3>2, PositionInBits
  <2>2. PoolTypeOK'
      BY <1>0, <1>6, <2>1, Zenon DEF Take
  <2>3. Position(c) \notin free_list
      BY <1>6, <2>1, Zenon DEF Take
  <2>4. ExclusiveOwnership'
    <3>1. \A d \in Client : held'[d] = IF d = c THEN held[d] \cup {Position(c)} ELSE held[d]
        BY <1>0, <1>6, Zenon DEF Take
    <3>2. \A d \in Client : Position(c) \notin held[d]
        BY <1>0, <2>3, Zenon DEF ExclusiveOwnership
    <3>3. \A d, e \in Client : held'[d] \cap held'[e] # {} => d = e
      <4> SUFFICES ASSUME NEW d \in Client, NEW e \in Client, d # e,
                          NEW x \in held'[d] \cap held'[e]
                   PROVE  FALSE
          BY Zenon
      <4>1. held[d] \cap held[e] = {}
          BY <1>0 DEF ExclusiveOwnership
      <4> QED
          BY <3>1, <3>2, <4>1, Zenon
    <3>4. free_list' = UNION {held'[d] : d \in Client}
        BY <1>0, <1>6, <3>1 DEF Take, ExclusiveOwnership
    <3> QED
        BY <3>3, <3>4, Zenon DEF ExclusiveOwnership
  <2>5. Counted(c)' /\ Seen(c)' /\ Freeing(c)'
    <3>1. Position(c)' = Position(c) /\ Reached(c) = Position(c)
        BY <1>6, <2>1, Zenon DEF Take, Position, Reached
    <3>2. pc'[c] = IF Position(c) < max_obj_num THEN "idle" ELSE "panic"
        BY <1>0, <1>6, Zenon DEF Take
    <3>3. pc'[c] = "panic" => Reached(c)' = Position(c)
        BY <3>1, Zenon DEF Reached
    <3> QED
        BY <1>0, <1>6, <2>1, <3>1, <3>2, <3>3
        DEF Take, Trying, ClientInv, Counted, Seen, Freeing
  <2>6. ASSUME NEW d \in Client, d # c PROVE Counted(d)' /\ Seen(d)' /\ Freeing(d)'
      BY <1>0, <1>6, <2>6, OtherClient, Zenon DEF Take, ClientInv
  <2> QED
      BY <2>2, <2>4, <2>5, <2>6 DEF PoolInv, ClientInv
<1>7. ASSUME NEW c \in Client, LoseRace(c)
      PROVE  PoolInv'
  <2>1. /\ i[c] \in Nat /\ i[c] < free_list_size /\ j[c] + 1 \in 0 .. FREE_ENTRY_SIZE
        /\ i[c] * FREE_ENTRY_SIZE \in Nat /\ Position(c) \in Nat
      BY <1>0, <1>7, ListCovers, NextBase DEF LoseRace, Trying, ClientInv, Counted, Position
  <2>2. PoolTypeOK'
      BY <1>0, <1>7, <2>1 DEF LoseRace
  <2>3. ExclusiveOwnership'
      BY <1>0, <1>7 DEF LoseRace, ExclusiveOwnership
  <2>4. Counted(c)' /\ Seen(c)' /\ Freeing(c)'
    <3>1. Reached(c) = Position(c) /\ Reached(c)' = Position(c) + 1
        BY <1>0, <1>7, <2>1 DEF LoseRace, Trying, Reached, Position
    <3> QED
        BY <1>0, <1>7, <2>1, <3>1 DEF LoseRace, Trying, ClientInv, Counted, Seen, Freeing
  <2>5. ASSUME NEW d \in Client, d # c PROVE Counted(d)' /\ Seen(d)' /\ Freeing(d)'
      BY <1>0, <1>7, <2>5, OtherClient, Zenon DEF LoseRace, ClientInv
  <2> QED
      BY <2>2, <2>3, <2>4, <2>5 DEF PoolInv, ClientInv
<1>8. ASSUME NEW c \in Client, NEW x \in held[c], FreeRead(c, x)
      PROVE  PoolInv'
  <2>1. \A k \in Bits : k \in Nat
    <3> SUFFICES ASSUME NEW w \in 0 .. free_list_size - 1, NEW k \in Word(w) PROVE k \in Nat
        BY Zenon DEF Bits
    <3> QED
        BY NextBase, ListCovers DEF Word
  <2>2. PoolTypeOK'
      BY <1>0, <1>8, <2>1, Zenon DEF FreeRead
  <2>3. ExclusiveOwnership'
      BY <1>0, <1>8 DEF FreeRead, ExclusiveOwnership
  <2>4. Counted(c)' /\ Seen(c)' /\ Freeing(c)'
      BY <1>0, <1>8, Zenon DEF FreeRead, Counted, Seen, Freeing
  <2>5. ASSUME NEW d \in Client, d # c PROVE Counted(d)' /\ Seen(d)' /\ Freeing(d)'
      BY <1>0, <1>8, <2>5, OtherClient, Zenon DEF FreeRead, ClientInv
  <2> QED
      BY <2>2, <2>3, <2>4, <2>5, Zenon DEF PoolInv, ClientInv
<1>9. ASSUME NEW c \in Client, FreeDone(c)
      PROVE  PoolInv'
  <2>1. index[c] \in held[c]
      BY <1>0, <1>9, Zenon DEF FreeDone, ClientInv, Freeing
  <2>2. PoolTypeOK'
      BY <1>0, <1>9 DEF FreeDone
  <2>3. ExclusiveOwnership'
    <3>1. \A d \in Client : held'[d] = IF d = c THEN held[d] \ {index[c]} ELSE held[d]
        BY <1>0, <1>9, Zenon DEF FreeDone
    <3>2. \A d \in Client : d # c => index[c] \notin held[d]
        BY <1>0, <2>1, Zenon DEF ExclusiveOwnership
    <3>3. \A d, e \in Client : held'[d] \cap held'[e] # {} => d = e
        BY <1>0, <3>1, Zenon DEF ExclusiveOwnership
    <3>4. free_list' = UNION {held'[d] : d \in Client}
        BY <1>0, <1>9, <3>1, <3>2 DEF FreeDone, ExclusiveOwnership
    <3> QED
        BY <3>3, <3>4 DEF ExclusiveOwnership
  <2>4. Counted(c)' /\ Seen(c)' /\ Freeing(c)'
      BY <1>0, <1>9, Zenon DEF FreeDone, Counted, Seen, Freeing
  <2>5. ASSUME NEW d \in Client, d # c PROVE Counted(d)' /\ Seen(d)' /\ Freeing(d)'
      BY <1>0, <1>9, <2>5, OtherClient, Zenon DEF FreeDone, ClientInv
  <2> QED
      BY <2>2, <2>3, <2>4, <2>5 DEF PoolInv, ClientInv
<1>10. ASSUME NEW c \in Client, FreeFail(c)
      PROVE  PoolInv'
  <2>1. PoolTypeOK'
      BY <1>0, <1>10, Zenon DEF FreeFail
  <2>2. ExclusiveOwnership'
      BY <1>0, <1>10 DEF FreeFail, ExclusiveOwnership
  <2>3. Counted(c)' /\ Seen(c)' /\ Freeing(c)'
      BY <1>0, <1>10, Zenon DEF FreeFail, Counted, Seen, Freeing
  <2>4. ASSUME NEW d \in Client, d # c PROVE Counted(d)' /\ Seen(d)' /\ Freeing(d)'
      BY <1>0, <1>10, <2>4, OtherClient, Zenon DEF FreeFail, ClientInv
  <2> QED
      BY <2>1, <2>2, <2>3, <2>4 DEF PoolInv, ClientInv
<1>11. CASE UNCHANGED poolVars
    BY <1>0, <1>11 DEF poolVars, PoolInv, ExclusiveOwnership, ClientInv, Counted, Seen, Freeing,
       Reached, Position
<1> QED
    BY <1>1, <1>2, <1>3, <1>4, <1>5, <1>6, <1>7, <1>8, <1>9, <1>10, <1>11, Zenon DEF PoolNext, Step

\* The pool starts empty and satisfies the invariant, so PoolInv always holds.
THEOREM PoolInvariant == PoolSpec => []PoolInv
<1>1. PoolInit => PoolInv
  <2> SUFFICES ASSUME PoolInit PROVE PoolInv
      BY Zenon
  <2>1. PoolTypeOK
      BY ListCovers DEF PoolInit, PoolTypeOK
  <2>2. ExclusiveOwnership
      BY Zenon DEF PoolInit, ExclusiveOwnership
  <2>3. ClientInv
      BY Zenon DEF PoolInit, ClientInv, Counted, Seen, Freeing
  <2> QED
      BY <2>1, <2>2, <2>3, Zenon DEF PoolInv
<1> QED
    BY <1>1, PoolStep, PTL DEF PoolSpec

-----------------------------------------------------------------------------
\* The variables keep their types: no scan reads past the end of free_list.
THEOREM PoolTypes == PoolSpec => []PoolTypeOK
BY PoolInvariant, PTL DEF PoolInv

\* A set bit has exactly one owner: two calls of shared_pool_get_next never return the
\* same object, and a successful free releases the caller's own.
THEOREM NoDoubleAllocation == PoolSpec => []ExclusiveOwnership
BY PoolInvariant, PTL DEF PoolInv

\* The ASSERT of shared_pool_get_next fails only in calls that lost a race.
THEOREM OverrunNeedsRace == PoolSpec => []OverrunOnlyAfterLostRace
<1>1. PoolInv => OverrunOnlyAfterLostRace
  <2> SUFFICES ASSUME PoolInv, NEW c \in Client, pc[c] = "panic" PROVE lost[c] > 0
      BY Zenon DEF OverrunOnlyAfterLostRace
  <2>1. Position(c) = found[c] + lost[c] /\ found[c] < max_obj_num
        /\ max_obj_num <= Position(c)
      BY Zenon DEF PoolInv, ClientInv, Counted, Reached
  <2> QED
      BY <2>1 DEF PoolInv, PoolTypeOK
<1> QED
    BY <1>1, PoolInvariant, PTL

\* A call that loses no race returns NULL only if no object was free all the time.
THEOREM NullIsHonest == PoolSpec => NullOnlyWhenTaken
<1>1. ASSUME PoolInv, NEW c \in Client, GetNull(c), lost[c] = 0
      PROVE  free_since[c] = {}
  <2>1. \A x \in free_since[c] : Reached(c) <= x /\ x \in Nat /\ x < max_obj_num
      BY <1>1 DEF PoolInv, ClientInv, Seen, GetNull, PoolTypeOK, Objects
  <2>2. Reached(c) \in Nat /\ max_obj_num <= Reached(c)
    <3>1. CASE pc[c] = "load" /\ i[c] = free_list_size
      <4>1. Reached(c) = free_list_size * FREE_ENTRY_SIZE
          BY <3>1, Zenon DEF Reached
      <4> QED
          BY <4>1, ListCovers, NextBase
    <3>2. CASE pc[c] = "try" /\ found[c] >= max_obj_num
        BY <1>1, <3>2 DEF PoolInv, ClientInv, Counted, PoolTypeOK
    <3> QED
        BY <1>1, <3>1, <3>2, Zenon DEF GetNull
  <2> QED
      BY <2>1, <2>2
<1>2. PoolInv /\ [PoolNext]_poolVars =>
        [\A c \in Client : GetNull(c) /\ lost[c] = 0 => free_since[c] = {}]_poolVars
    BY <1>1, Zenon
<1> QED
    BY <1>2, PoolInvariant, PTL DEF PoolSpec, NullOnlyWhenTaken

-----------------------------------------------------------------------------
(***************************************************************************)
(* LinkedList: the two chains stay each other's reverse, and the list      *)
(* implements the sequence of ListContents.                                *)
(***************************************************************************)
HIDE SizeAssumption

\* The loop over next_ptr is well defined: it starts at the first node, and each pass
\* moves on by one next_ptr unless it has met NULL.
LEMMA FollowSteps ==
    ASSUME NEW first, NEW nxt
    PROVE  /\ Follow(first, nxt, 0) = first
           /\ \A k \in Nat :
                 Follow(first, nxt, k + 1) = IF Follow(first, nxt, k) = Nil THEN Nil
                                             ELSE nxt[Follow(first, nxt, k)]
<1> DEFINE Move(x) == IF x = Nil THEN Nil ELSE nxt[x]
           Ok(n, h) == h[0] = first /\ \A e \in 0 .. n - 1 : h[e + 1] = Move(h[e])
           S == {n \in Nat : \E h : Ok(n, h)}
           H(n) == CHOOSE h : Ok(n, h)
<1> HIDE DEF Move
<1>1. \A n \in Nat : Ok(n, H(n))
    <2>1. 0 \in S
        <3>1. Ok(0, [e \in 0 .. 0 |-> first])
            OBVIOUS
        <3> QED
            BY <3>1, Zenon
    <2>2. ASSUME NEW n \in S
          PROVE  n + 1 \in S
        <3>1. PICK h : Ok(n, h)
            BY Zenon
        <3> DEFINE hh == [e \in 0 .. n + 1 |-> IF e = n + 1 THEN Move(h[n]) ELSE h[e]]
        <3>2. Ok(n + 1, hh)
            BY <3>1
        <3>3. n + 1 \in Nat
            OBVIOUS
        <3> HIDE DEF hh, Ok
        <3> QED
            BY <3>2, <3>3, Zenon
    <2>3. S \in SUBSET Nat
        BY Zenon
    <2> HIDE DEF S
    <2>4. S = Nat
        BY <2>1, <2>2, <2>3, Induction, Zenon
    <2> QED
        BY <2>4, Zenon DEF S
<1> HIDE DEF H
<1>2. ASSUME NEW m \in Nat, NEW h, NEW n \in Nat, NEW hh, Ok(m, h), Ok(n, hh), m <= n
      PROVE  \A e \in 0 .. m : h[e] = hh[e]
    <2> DEFINE E == {e \in Nat : e <= m => h[e] = hh[e]}
    <2>1. 0 \in E
        BY <1>2, Zenon
    <2>2. \A e \in E : e + 1 \in E
        BY <1>2
    <2>3. E = Nat
        <3>1. E \in SUBSET Nat
            BY Zenon
        <3> HIDE DEF E
        <3> QED
            BY <2>1, <2>2, <3>1, Induction, Zenon
    <2> QED
        BY <2>3
<1> DEFINE F == [k \in Nat |-> H(k)[k]]
<1>3. F[0] = first
    BY <1>1, Zenon
<1>4. ASSUME NEW k \in Nat
      PROVE  F[k + 1] = Move(F[k])
    <2>1. Ok(k, H(k)) /\ Ok(k + 1, H(k + 1)) /\ k + 1 \in Nat /\ k <= k + 1 /\ k \in 0 .. k
        BY <1>1
    <2>2. H(k)[k] = H(k + 1)[k]
        <3> HIDE DEF Ok
        <3> QED
            BY <2>1, <1>2
    <2>3. H(k + 1)[k + 1] = Move(H(k + 1)[k])
        BY <2>1
    <2> QED
        BY <2>2, <2>3
<1>5. F = [k \in Nat |-> IF k = 0 THEN first
                         ELSE IF F[k - 1] = Nil THEN Nil
                         ELSE nxt[F[k - 1]]]
    <2>1. DOMAIN F = Nat /\ F = [k \in Nat |-> F[k]]
        BY Zenon
    <2> HIDE DEF F
    <2>2. \A k \in Nat : k # 0 => F[k] = Move(F[k - 1])
        BY <1>4
    <2> QED
        BY <1>3, <2>1, <2>2, Zenon DEF Move
<1> HIDE DEF F
<1> DEFINE after[k \in Nat] == IF k = 0 THEN first
                               ELSE IF after[k - 1] = Nil THEN Nil
                               ELSE nxt[after[k - 1]]
<1>6. after = [k \in Nat |-> IF k = 0 THEN first
                             ELSE IF after[k - 1] = Nil THEN Nil
                             ELSE nxt[after[k - 1]]]
    BY <1>5, Zenon
<1>7. \A k : Follow(first, nxt, k) = after[k]
    BY Zenon DEF Follow
<1> HIDE DEF after
<1>8. /\ after[0] = first
      /\ \A k \in Nat : after[k + 1] = IF after[k] = Nil THEN Nil ELSE nxt[after[k]]
    <2>1. \A k \in Nat : k + 1 \in Nat /\ k + 1 # 0 /\ (k + 1) - 1 = k
        OBVIOUS
    <2> QED
        BY <1>6, <2>1
<1> QED
    BY <1>7, <1>8, Zenon

-----------------------------------------------------------------------------
(***************************************************************************)
(* The inductive invariant.  The nodes in use, in the order of the list,   *)
(* are the values q[0] to q[n - 1] of some path q; each action has its new *)
(* path.  Nothing here is recursive: that the loops of the code meet the   *)
(* nodes of the path is the lemma PathIsFollowed.                          *)
(***************************************************************************)
Path(q, n, first, last, nxt, prv, used) ==
    /\ q \in [0 .. n -> Node \cup {Nil}]
    /\ q[n] = Nil
    /\ \A k \in 0 .. n - 1 : q[k] \in Node /\ nxt[q[k]] = q[k + 1]
    /\ \A k \in 0 .. n - 1 : prv[q[k]] = IF k = 0 THEN Nil ELSE q[k - 1]
    /\ \A l, k \in 0 .. n - 1 : q[l] = q[k] => l = k
    /\ first = q[0]
    /\ last = IF n = 0 THEN Nil ELSE q[n - 1]
    /\ \A k \in 0 .. n - 1 : q[k] \in used
    /\ \A x \in used : \E k \in 0 .. n - 1 : q[k] = x

\* q is the path of the list as it stands.
IsPath(q) == Path(q, size, start_ptr, end_ptr, next_ptr, prev_ptr, taken)

\* size counts the nodes in use, and the two chains lead through exactly these.
LinkInv ==
    /\ ListTypeOK
    /\ size = Cardinality(taken)
    /\ \E q : IsPath(q)

\* A loop from start_ptr meets the nodes of the path, in order, and then NULL.
LEMMA PathIsFollowed ==
    ASSUME NEW q, NEW n \in Nat, NEW first, NEW last, NEW nxt, NEW prv, NEW used,
           Path(q, n, first, last, nxt, prv, used)
    PROVE  \A k \in 0 .. n : Follow(first, nxt, k) = q[k]
<1> DEFINE S == {k \in Nat : k <= n => Follow(first, nxt, k) = q[k]}
<1>1. 0 \in S
    BY FollowSteps, Zenon DEF Path
<1>2. ASSUME NEW k \in S
      PROVE  k + 1 \in S
    <2> SUFFICES ASSUME k + 1 <= n
                 PROVE  Follow(first, nxt, k + 1) = q[k + 1]
        OBVIOUS
    <2>1. k \in 0 .. n - 1 /\ k \in Nat /\ Follow(first, nxt, k) = q[k]
        OBVIOUS
    <2>2. q[k] # Nil /\ nxt[q[k]] = q[k + 1]
        BY <2>1, NodeAssumption, Zenon DEF Path
    <2>3. Follow(first, nxt, k + 1) = IF Follow(first, nxt, k) = Nil THEN Nil
                                      ELSE nxt[Follow(first, nxt, k)]
        BY <2>1, FollowSteps, Zenon
    <2> QED
        BY <2>1, <2>2, <2>3, Zenon
<1>3. S \in SUBSET Nat
    BY Zenon
<1> HIDE DEF S
<1>4. S = Nat
    BY <1>1, <1>2, <1>3, Induction, Zenon
<1> QED
    BY <1>4 DEF S

\* Both ends of a path are nodes or NULL.
LEMMA PathEnds ==
    ASSUME NEW q, NEW n \in 0 .. Cardinality(Node), NEW first, NEW last, NEW nxt, NEW prv,
           NEW used, Path(q, n, first, last, nxt, prv, used)
    PROVE  first \in Node \cup {Nil} /\ last \in Node \cup {Nil}
<1>1. n \in Nat
    BY NodeAssumption, FS_CardinalityType
<1>2. 0 \in 0 .. n /\ (n # 0 => n - 1 \in 0 .. n)
    BY <1>1
<1> QED
    BY <1>2, Zenon DEF Path

\* The search of linked_list_add stops after size nodes.
LEMMA LengthIsSize ==
    ASSUME ListTypeOK, NEW q, IsPath(q)
    PROVE  Length = size
<1>1. size \in Nat /\ size \in 0 .. Cardinality(Node)
    BY NodeAssumption, FS_CardinalityType DEF ListTypeOK
<1>2. \A k \in 0 .. size : NodeAt(k) = q[k]
    BY <1>1, PathIsFollowed DEF IsPath, NodeAt
<1>3. \A k \in 0 .. size : NodeAt(k) = Nil <=> k = size
    BY <1>1, <1>2, NodeAssumption DEF IsPath, Path
<1> DEFINE P(k) == NodeAt(k) = Nil /\ \A m \in 0 .. k - 1 : NodeAt(m) # Nil
<1>4. P(size)
    BY <1>1, <1>3
<1>5. ASSUME NEW k \in 0 .. Cardinality(Node), P(k)
      PROVE  k = size
    <2>1. CASE k <= size
        BY <2>1, <1>1, <1>3, <1>5
    <2>2. CASE size < k
        <3>1. size \in 0 .. k - 1 /\ NodeAt(size) = Nil
            BY <2>2, <1>1, <1>3
        <3> QED
            BY <3>1, <1>5, Zenon
    <2> QED
        BY <2>1, <2>2, <1>1
<1> HIDE DEF P
<1>6. Length = CHOOSE k \in 0 .. Cardinality(Node) : P(k)
    BY Zenon DEF Length, P
<1> QED
    BY <1>1, <1>4, <1>5, <1>6, Zenon

-----------------------------------------------------------------------------
(***************************************************************************)
(* The path after each action.                                             *)
(***************************************************************************)
Appended(q, n, node) ==
    [k \in 0 .. n + 1 |-> IF k = n + 1 THEN Nil ELSE IF k = n THEN node ELSE q[k]]
Deleted(q, n, e) == [k \in 0 .. n - 1 |-> IF k < e THEN q[k] ELSE q[k + 1]]
Rotated(q, n) ==
    [k \in 0 .. n |-> IF k = n THEN Nil ELSE IF k = n - 1 THEN q[0] ELSE q[k + 1]]

PathNext(q) == Path(q, size', start_ptr', end_ptr', next_ptr', prev_ptr', taken')

\* linked_list_enqueue puts a free node behind the last one.
LEMMA EnqueuePath ==
    ASSUME ListTypeOK, NEW q, IsPath(q), NEW d \in Data, Enqueue(d)
    PROVE  /\ size' = size + 1 /\ UNCHANGED list_status
           /\ \E node \in Node \ taken :
                 /\ taken' = taken \cup {node}
                 /\ data' = [data EXCEPT ![node] = d]
                 /\ next_ptr' \in [Node -> Node \cup {Nil}]
                 /\ prev_ptr' \in [Node -> Node \cup {Nil}]
                 /\ PathNext(Appended(q, size, node))
<1>1. size \in Nat /\ Length = size
    BY NodeAssumption, FS_CardinalityType, LengthIsSize DEF ListTypeOK
<1>2. size' = size + 1 /\ UNCHANGED list_status
    BY Zenon DEF Enqueue, Add
<1>3. PICK node \in Node \ taken :
          /\ taken' = taken \cup {node}
          /\ data' = [data EXCEPT ![node] = d]
          /\ LinkFirst(node) \/ (start_ptr # Nil /\ LinkLast(node))
    <2>1. size + 1 >= Length /\ ~(size + 1 < Length)
        BY <1>1
    <2> QED
        BY <2>1, Zenon DEF Enqueue, Add
<1>4. \A k \in 0 .. size - 1 : q[k] \in Node /\ q[k] \in taken /\ q[k] # node /\ q[k] # Nil
    BY <1>1, NodeAssumption DEF IsPath, Path
<1>5. q[size] = Nil /\ start_ptr = q[0]
    BY Zenon DEF IsPath, Path
<1> DEFINE m == size + 1
           r == Appended(q, size, node)
<1>6. \A k \in 0 .. size - 1 : r[k] = q[k]
    BY <1>1 DEF Appended
<1>7. r[size] = node /\ r[m] = Nil /\ r \in [0 .. m -> Node \cup {Nil}]
    BY <1>1, <1>4 DEF Appended
<1>8. /\ next_ptr' \in [Node -> Node \cup {Nil}] /\ prev_ptr' \in [Node -> Node \cup {Nil}]
      /\ start_ptr' = r[0] /\ end_ptr' = r[size]
      /\ next_ptr'[node] = Nil
      /\ prev_ptr'[node] = IF size = 0 THEN Nil ELSE q[size - 1]
      /\ \A k \in 0 .. size - 1 : /\ next_ptr'[q[k]] = r[k + 1]
                                  /\ prev_ptr'[q[k]] = IF k = 0 THEN Nil ELSE q[k - 1]
    <2>1. CASE LinkFirst(node)
        <3>1. size = 0
            <4>1. q[0] = Nil
                BY <1>5, <2>1, Zenon DEF LinkFirst
            <4>2. 0 \in 0 .. size - 1 => q[0] # Nil
                BY <1>4, Zenon
            <4> QED
                BY <1>1, <4>1, <4>2
        <3> QED
            BY <2>1, <3>1, <1>7 DEF LinkFirst, ListTypeOK
    <2>2. CASE start_ptr # Nil /\ LinkLast(node)
        <3>1. size # 0
            BY <1>5, <2>2, Zenon
        <3>2. size - 1 \in 0 .. size - 1 /\ end_ptr = q[size - 1]
            BY <1>1, <3>1 DEF IsPath, Path
        <3>3. /\ next_ptr' = [next_ptr EXCEPT ![q[size - 1]] = node, ![node] = Nil]
              /\ prev_ptr' = [prev_ptr EXCEPT ![node] = q[size - 1]]
              /\ start_ptr' = start_ptr /\ end_ptr' = node
            BY <2>2, <3>2 DEF LinkLast
        <3>4. start_ptr' = r[0] /\ end_ptr' = r[size]
            BY <1>1, <1>5, <1>6, <1>7, <3>1, <3>3
        <3>5. /\ next_ptr' \in [Node -> Node \cup {Nil}] /\ prev_ptr' \in [Node -> Node \cup {Nil}]
              /\ next_ptr'[node] = Nil /\ prev_ptr'[node] = q[size - 1]
            BY <1>4, <3>2, <3>3, Zenon DEF ListTypeOK
        <3>6. ASSUME NEW k \in 0 .. size - 1
              PROVE  /\ next_ptr'[q[k]] = r[k + 1]
                     /\ prev_ptr'[q[k]] = IF k = 0 THEN Nil ELSE q[k - 1]
            <4>1. /\ next_ptr[q[k]] = q[k + 1]
                  /\ prev_ptr[q[k]] = IF k = 0 THEN Nil ELSE q[k - 1]
                  /\ q[k] = q[size - 1] => k = size - 1
                BY <1>1, <3>2 DEF IsPath, Path
            <4>2. next_ptr'[q[k]] = IF k = size - 1 THEN node ELSE q[k + 1]
                BY <1>1, <1>4, <3>2, <3>3, <4>1, Zenon DEF ListTypeOK
            <4>3. prev_ptr'[q[k]] = prev_ptr[q[k]]
                BY <1>4, <3>3, Zenon DEF ListTypeOK
            <4> QED
                BY <1>1, <1>6, <1>7, <4>1, <4>2, <4>3
        <3> QED
            BY <3>1, <3>4, <3>5, <3>6, Zenon
    <2> QED
        BY <1>3, <2>1, <2>2, Zenon
<1>9. \A k \in 0 .. m - 1 : k = size \/ k \in 0 .. size - 1
    BY <1>1
<1>10. \A k \in 0 .. m - 1 : r[k] \in Node /\ next_ptr'[r[k]] = r[k + 1]
    BY <1>1, <1>4, <1>6, <1>7, <1>8, <1>9, Zenon
<1>11. \A k \in 0 .. m - 1 : prev_ptr'[r[k]] = IF k = 0 THEN Nil ELSE r[k - 1]
    BY <1>1, <1>6, <1>7, <1>8, <1>9
<1>12. \A l, k \in 0 .. m - 1 : r[l] = r[k] => l = k
    <2>1. \A l, k \in 0 .. size - 1 : q[l] = q[k] => l = k
        BY Zenon DEF IsPath, Path
    <2> QED
        BY <1>4, <1>6, <1>7, <1>9, <2>1, Zenon
<1>13. \A k \in 0 .. m - 1 : r[k] \in taken'
    BY <1>3, <1>4, <1>6, <1>7, <1>9, Zenon
<1>14. ASSUME NEW x \in taken'
       PROVE  \E k \in 0 .. m - 1 : r[k] = x
    <2>1. CASE x = node
        BY <2>1, <1>1, <1>7
    <2>2. CASE x \in taken
        <3>1. PICK k \in 0 .. size - 1 : q[k] = x
            BY <2>2, Zenon DEF IsPath, Path
        <3>2. k \in 0 .. m - 1 /\ r[k] = x
            BY <1>1, <1>6, <3>1
        <3> QED
            BY <3>2, Zenon
    <2> QED
        BY <1>3, <2>1, <2>2, Zenon
<1>15. end_ptr' = IF m = 0 THEN Nil ELSE r[m - 1]
    BY <1>1, <1>8
<1>16. Path(r, m, start_ptr', end_ptr', next_ptr', prev_ptr', taken')
    <2> HIDE DEF r, m
    <2> QED
        BY <1>7, <1>8, <1>10, <1>11, <1>12, <1>13, <1>14, <1>15, Zenon DEF Path
<1> QED
    BY <1>2, <1>3, <1>8, <1>16, Zenon DEF PathNext

\* linked_list_remove takes the node at index pos out of both chains.
LEMMA RemovePath ==
    ASSUME ListTypeOK, NEW q, IsPath(q), NEW pos \in Nat, Remove(pos)
    PROVE  /\ pos < size
           /\ size' = size - 1
           /\ taken' = taken \ {q[pos]} /\ q[pos] \in taken
           /\ UNCHANGED <<data, list_status>>
           /\ next_ptr' \in [Node -> Node \cup {Nil}]
           /\ prev_ptr' \in [Node -> Node \cup {Nil}]
           /\ PathNext(Deleted(q, size, pos))
<1>1. size \in Nat /\ Length = size
    BY NodeAssumption, FS_CardinalityType, LengthIsSize DEF ListTypeOK
<1>2. pos < size /\ pos \in 0 .. size - 1 /\ NodeAt(pos) = q[pos]
    BY <1>1, PathIsFollowed DEF IsPath, NodeAt, Remove
<1>3. size' = size - 1 /\ taken' = taken \ {q[pos]} /\ UNCHANGED <<data, list_status>>
    BY <1>2, Zenon DEF Remove
<1>4. \A k \in 0 .. size - 1 : /\ q[k] \in Node /\ q[k] \in taken /\ q[k] # Nil
                               /\ next_ptr[q[k]] = q[k + 1]
                               /\ prev_ptr[q[k]] = IF k = 0 THEN Nil ELSE q[k - 1]
    BY <1>1, NodeAssumption, Zenon DEF IsPath, Path
<1>5. \A l, k \in 0 .. size - 1 : q[l] = q[k] => l = k
    BY Zenon DEF IsPath, Path
<1>6. q[size] = Nil /\ start_ptr = q[0] /\ end_ptr = q[size - 1]
    BY <1>1, <1>2 DEF IsPath, Path
<1> DEFINE before == IF pos = 0 THEN Nil ELSE q[pos - 1]
           behind == q[pos + 1]
           m == size - 1
           r == Deleted(q, size, pos)
<1>7. /\ start_ptr' = IF before = Nil THEN behind ELSE start_ptr
      /\ end_ptr' = IF behind = Nil THEN before ELSE end_ptr
      /\ next_ptr' = [n \in Node |-> IF n = before THEN behind ELSE next_ptr[n]]
      /\ prev_ptr' = [n \in Node |-> IF n = behind THEN before ELSE prev_ptr[n]]
    BY <1>2, <1>4 DEF Remove, Unlink
<1>8. /\ before = Nil <=> pos = 0
      /\ behind = Nil <=> pos = size - 1
      /\ before \in Node \cup {Nil} /\ behind \in Node \cup {Nil}
      /\ \A k \in 0 .. size - 1 : q[k] = before <=> k = pos - 1
      /\ \A k \in 0 .. size - 1 : q[k] = behind <=> k = pos + 1
    BY <1>1, <1>2, <1>4, <1>5, <1>6
<1>9. next_ptr' \in [Node -> Node \cup {Nil}] /\ prev_ptr' \in [Node -> Node \cup {Nil}]
    BY <1>7, <1>8, Zenon DEF ListTypeOK
<1>10. \A k \in 0 .. m : r[k] = IF k < pos THEN q[k] ELSE q[k + 1]
    BY Zenon DEF Deleted
<1>11. r \in [0 .. m -> Node \cup {Nil}] /\ r[m] = Nil
    <2>1. m \in Nat /\ pos \in 0 .. m
        BY <1>1, <1>2
    <2>2. ASSUME NEW k \in 0 .. m
          PROVE  r[k] \in Node \cup {Nil}
        <3>1. CASE k < pos
            BY <1>4, <1>10, <2>1, <3>1, Zenon
        <3>2. CASE ~(k < pos) /\ k + 1 = size
            BY <1>6, <1>10, <3>2, Zenon
        <3>3. CASE ~(k < pos) /\ k + 1 \in 0 .. size - 1
            BY <1>4, <1>10, <3>3, Zenon
        <3> QED
            BY <1>1, <3>1, <3>2, <3>3
    <2>3. r = [k \in 0 .. m |-> r[k]]
        BY Zenon DEF Deleted
    <2>4. r[m] = q[size]
        BY <1>1, <1>10, <2>1
    <2> HIDE DEF r
    <2>5. r \in [0 .. m -> Node \cup {Nil}]
        BY <2>2, <2>3, Zenon
    <2> QED
        BY <1>6, <2>4, <2>5, Zenon
<1>12. start_ptr' = r[0] /\ end_ptr' = IF m = 0 THEN Nil ELSE r[m - 1]
    <2>1. start_ptr' = IF pos = 0 THEN q[1] ELSE q[0]
        BY <1>2, <1>6, <1>7, <1>8
    <2>2. end_ptr' = IF pos = size - 1 THEN before ELSE q[size - 1]
        BY <1>6, <1>7, <1>8, Zenon
    <2> QED
        BY <1>1, <1>2, <1>10, <2>1, <2>2
<1>13. ASSUME NEW k \in 0 .. m - 1
       PROVE  /\ r[k] \in Node /\ r[k] \in taken'
              /\ next_ptr'[r[k]] = r[k + 1]
              /\ prev_ptr'[r[k]] = IF k = 0 THEN Nil ELSE r[k - 1]
    <2> DEFINE e == IF k < pos THEN k ELSE k + 1
    <2>1. e \in 0 .. size - 1 /\ e # pos /\ r[k] = q[e] /\ k \in 0 .. m /\ k + 1 \in 0 .. m
        BY <1>1, <1>2, <1>10
    <2>2. q[e] \in Node /\ q[e] \in taken'
        BY <1>2, <1>3, <1>4, <1>5, <2>1, Zenon
    <2>3. next_ptr'[q[e]] = IF e = pos - 1 THEN q[pos + 1] ELSE q[e + 1]
        BY <1>4, <1>7, <1>8, <2>1, <2>2
    <2>4. prev_ptr'[q[e]] = IF e = pos + 1 THEN before ELSE IF e = 0 THEN Nil ELSE q[e - 1]
        BY <1>4, <1>7, <1>8, <2>1, <2>2, Zenon
    <2>5. next_ptr'[r[k]] = r[k + 1]
        BY <1>1, <1>2, <1>10, <2>1, <2>3
    <2>6. prev_ptr'[r[k]] = IF k = 0 THEN Nil ELSE r[k - 1]
        BY <1>1, <1>2, <1>10, <2>1, <2>4
    <2> QED
        BY <2>1, <2>2, <2>5, <2>6
<1>14. \A l, k \in 0 .. m - 1 : r[l] = r[k] => l = k
    BY <1>1, <1>2, <1>5, <1>10
<1>15. ASSUME NEW x \in taken'
       PROVE  \E k \in 0 .. m - 1 : r[k] = x
    <2>1. PICK k \in 0 .. size - 1 : q[k] = x
        BY <1>3, Zenon DEF IsPath, Path
    <2>2. k # pos
        BY <1>3, <2>1, Zenon
    <2> DEFINE e == IF k < pos THEN k ELSE k - 1
    <2>3. e \in 0 .. m - 1 /\ r[e] = x
        BY <1>1, <1>2, <1>10, <2>1, <2>2
    <2> QED
        BY <2>3, Zenon
<1>16. Path(r, m, start_ptr', end_ptr', next_ptr', prev_ptr', taken')
    <2> HIDE DEF r, m
    <2> QED
        BY <1>11, <1>12, <1>13, <1>14, <1>15, Zenon DEF Path
<1> QED
    BY <1>2, <1>3, <1>4, <1>9, <1>16, Zenon DEF PathNext

\* linked_list_cycle moves the first node behind the last.
LEMMA CyclePath ==
    ASSUME ListTypeOK, NEW q, IsPath(q), Cycle
    PROVE  /\ 1 < size
           /\ UNCHANGED <<size, data, taken, list_status>>
           /\ next_ptr' \in [Node -> Node \cup {Nil}]
           /\ prev_ptr' \in [Node -> Node \cup {Nil}]
           /\ PathNext(Rotated(q, size))
<1>1. size \in Nat
    BY NodeAssumption, FS_CardinalityType DEF ListTypeOK
<1>2. 1 < size
    BY <1>1 DEF IsPath, Path, Cycle
<1>3. \A k \in 0 .. size - 1 : /\ q[k] \in Node /\ q[k] \in taken /\ q[k] # Nil
                               /\ next_ptr[q[k]] = q[k + 1]
                               /\ prev_ptr[q[k]] = IF k = 0 THEN Nil ELSE q[k - 1]
    BY <1>1, NodeAssumption, Zenon DEF IsPath, Path
<1>4. \A l, k \in 0 .. size - 1 : q[l] = q[k] => l = k
    BY Zenon DEF IsPath, Path
<1>5. /\ start_ptr = q[0] /\ end_ptr = q[size - 1] /\ next_ptr[q[0]] = q[1]
      /\ 0 \in 0 .. size - 1 /\ 1 \in 0 .. size - 1 /\ size - 1 \in 0 .. size - 1
    BY <1>1, <1>2 DEF IsPath, Path
<1>6. /\ start_ptr' = q[1] /\ end_ptr' = q[0]
      /\ next_ptr' = [next_ptr EXCEPT ![q[0]] = Nil, ![q[size - 1]] = q[0]]
      /\ prev_ptr' = [prev_ptr EXCEPT ![q[0]] = q[size - 1], ![q[1]] = Nil]
      /\ UNCHANGED <<size, data, taken, list_status>>
    BY <1>5, Zenon DEF Cycle
<1>7. next_ptr' \in [Node -> Node \cup {Nil}] /\ prev_ptr' \in [Node -> Node \cup {Nil}]
    BY <1>3, <1>5, <1>6, Zenon DEF ListTypeOK
<1> DEFINE r == Rotated(q, size)
<1>8. /\ \A k \in 0 .. size - 2 : r[k] = q[k + 1]
      /\ r[size - 1] = q[0] /\ r[size] = Nil
      /\ r \in [0 .. size -> Node \cup {Nil}]
    BY <1>1, <1>2, <1>3 DEF Rotated
<1>9. ASSUME NEW k \in 0 .. size - 1
      PROVE  /\ r[k] \in Node /\ r[k] \in taken
             /\ next_ptr'[r[k]] = r[k + 1]
             /\ prev_ptr'[r[k]] = IF k = 0 THEN Nil ELSE r[k - 1]
    <2>1. CASE k = size - 1
        <3>1. /\ next_ptr'[q[0]] = Nil
              /\ prev_ptr'[q[0]] = q[size - 1]
            BY <1>1, <1>2, <1>3, <1>4, <1>5, <1>6 DEF ListTypeOK
        <3> QED
            BY <1>1, <1>2, <1>3, <1>5, <1>8, <2>1, <3>1
    <2>2. CASE k \in 0 .. size - 2
        <3>1. k + 1 \in 0 .. size - 1 /\ q[k + 1] # q[0] /\ r[k] = q[k + 1]
            BY <1>1, <1>4, <1>5, <1>8, <2>2
        <3>2. next_ptr'[q[k + 1]] = IF k + 1 = size - 1 THEN q[0] ELSE next_ptr[q[k + 1]]
            BY <1>3, <1>4, <1>5, <1>6, <3>1, Zenon DEF ListTypeOK
        <3>3. prev_ptr'[q[k + 1]] = IF k + 1 = 1 THEN Nil ELSE prev_ptr[q[k + 1]]
            BY <1>3, <1>4, <1>5, <1>6, <3>1, Zenon DEF ListTypeOK
        <3>4. next_ptr[q[k + 1]] = q[k + 2] /\ prev_ptr[q[k + 1]] = q[k]
            BY <1>3, <3>1
        <3>5. r[k + 1] = IF k + 1 = size - 1 THEN q[0] ELSE q[k + 2]
            BY <1>1, <1>8, <2>2
        <3>6. ~(k = 0) => r[k - 1] = q[k]
            BY <1>1, <1>8, <2>2
        <3>7. k + 1 = 1 <=> k = 0
            BY <2>2
        <3>8. q[k + 1] \in Node /\ q[k + 1] \in taken
            BY <1>3, <3>1, Zenon
        <3> QED
            BY <3>1, <3>2, <3>3, <3>4, <3>5, <3>6, <3>7, <3>8, Zenon
    <2> QED
        BY <1>1, <2>1, <2>2
<1>10. \A l, k \in 0 .. size - 1 : r[l] = r[k] => l = k
    BY <1>1, <1>2, <1>4, <1>5 DEF Rotated
<1>11. ASSUME NEW x \in taken
       PROVE  \E k \in 0 .. size - 1 : r[k] = x
    <2>1. PICK k \in 0 .. size - 1 : q[k] = x
        BY Zenon DEF IsPath, Path
    <2> DEFINE e == IF k = 0 THEN size - 1 ELSE k - 1
    <2>2. e \in 0 .. size - 1 /\ r[e] = x
        BY <1>1, <1>2, <1>8, <2>1
    <2> QED
        BY <2>2, Zenon
<1>12. start_ptr' = r[0] /\ end_ptr' = IF size = 0 THEN Nil ELSE r[size - 1]
    BY <1>1, <1>2, <1>6, <1>8
<1>13. Path(r, size, start_ptr', end_ptr', next_ptr', prev_ptr', taken')
    <2> HIDE DEF r
    <2> QED
        BY <1>6, <1>8, <1>9, <1>10, <1>11, <1>12, Zenon DEF Path
<1> QED
    BY <1>2, <1>6, <1>7, <1>13, Zenon DEF PathNext

-----------------------------------------------------------------------------
\* linked_list_init leaves the empty path.
LEMMA LinkInit == ListInit => LinkInv
<1> SUFFICES ASSUME ListInit
             PROVE  LinkInv
    OBVIOUS
<1>1. Cardinality({}) = 0 /\ Cardinality(Node) \in Nat
    BY NodeAssumption, FS_EmptySet, FS_CardinalityType, Zenon
<1>2. ListTypeOK /\ size = Cardinality(taken)
    BY <1>1 DEF ListInit, ListTypeOK
<1>3. IsPath([k \in 0 .. 0 |-> Nil])
    BY DEF ListInit, IsPath, Path
<1> QED
    BY <1>2, <1>3, Zenon DEF LinkInv

\* A set of nodes in use is finite and has at most as many members as the pool.
LEMMA PoolBound ==
    ASSUME NEW used \in SUBSET Node
    PROVE  /\ IsFiniteSet(used) /\ Cardinality(used) \in 0 .. Cardinality(Node)
           /\ \A x \in Node \ used : Cardinality(used \cup {x}) = Cardinality(used) + 1
           /\ \A x \in used : Cardinality(used \ {x}) = Cardinality(used) - 1
<1>1. IsFiniteSet(used) /\ Cardinality(used) <= Cardinality(Node)
    BY NodeAssumption, FS_Subset, Zenon
<1>2. Cardinality(used) \in Nat /\ Cardinality(Node) \in Nat
    BY <1>1, NodeAssumption, FS_CardinalityType, Zenon
<1> QED
    BY <1>1, <1>2, FS_AddElement, FS_RemoveElement

\* Every operation, those that fail included, leaves a path.
LEMMA LinkStep == LinkInv /\ [ListNext]_listVars => LinkInv'
<1> SUFFICES ASSUME LinkInv, [ListNext]_listVars
             PROVE  LinkInv'
    OBVIOUS
<1>1. ListTypeOK /\ size = Cardinality(taken)
    BY Zenon DEF LinkInv
<1>2. PICK q : IsPath(q)
    BY Zenon DEF LinkInv
<1>3. SUFFICES /\ ListTypeOK' /\ size' = Cardinality(taken')
               /\ \E r : PathNext(r)
    BY Zenon DEF LinkInv, IsPath, PathNext
<1>4. ASSUME NEW d \in Data, Enqueue(d)
      PROVE  /\ ListTypeOK' /\ size' = Cardinality(taken')
             /\ \E r : PathNext(r)
    <2>1. PICK node \in Node \ taken :
              /\ taken' = taken \cup {node}
              /\ data' = [data EXCEPT ![node] = d]
              /\ next_ptr' \in [Node -> Node \cup {Nil}]
              /\ prev_ptr' \in [Node -> Node \cup {Nil}]
              /\ PathNext(Appended(q, size, node))
        BY <1>1, <1>2, <1>4, EnqueuePath, Zenon
    <2>2. size' = size + 1 /\ UNCHANGED list_status
        BY <1>4, Zenon DEF Enqueue, Add
    <2>3. size' = Cardinality(taken') /\ size' \in 0 .. Cardinality(Node) /\ taken' \subseteq Node
        <3>1. taken \in SUBSET Node /\ taken' \in SUBSET Node
            BY <1>1, <2>1, Zenon DEF ListTypeOK
        <3> QED
            BY <1>1, <2>1, <2>2, <3>1, PoolBound, Zenon
    <2>4. start_ptr' \in Node \cup {Nil} /\ end_ptr' \in Node \cup {Nil}
        BY <2>1, <2>3, PathEnds DEF PathNext
    <2>5. data' \in [Node -> Data \cup {Nil}]
        BY <1>1, <2>1, Zenon DEF ListTypeOK
    <2>6. ListTypeOK'
        BY <1>1, <2>1, <2>2, <2>3, <2>4, <2>5, Zenon DEF ListTypeOK
    <2> QED
        BY <2>1, <2>3, <2>6, Zenon
<1>5. ASSUME NEW pos \in Nat, Remove(pos)
      PROVE  /\ ListTypeOK' /\ size' = Cardinality(taken')
             /\ \E r : PathNext(r)
    <2>1. /\ pos < size /\ size' = size - 1
          /\ taken' = taken \ {q[pos]} /\ q[pos] \in taken
          /\ UNCHANGED <<data, list_status>>
          /\ next_ptr' \in [Node -> Node \cup {Nil}]
          /\ prev_ptr' \in [Node -> Node \cup {Nil}]
          /\ PathNext(Deleted(q, size, pos))
        BY <1>1, <1>2, <1>5, RemovePath, Zenon
    <2>2. size' = Cardinality(taken') /\ size' \in 0 .. Cardinality(Node) /\ taken' \subseteq Node
        <3>1. taken \in SUBSET Node /\ taken' \in SUBSET Node
            BY <1>1, <2>1, Zenon DEF ListTypeOK
        <3> QED
            BY <1>1, <2>1, <3>1, PoolBound, Zenon
    <2>3. start_ptr' \in Node \cup {Nil} /\ end_ptr' \in Node \cup {Nil}
        BY <2>1, <2>2, PathEnds, Zenon DEF PathNext
    <2>4. ListTypeOK'
        BY <1>1, <2>1, <2>2, <2>3, Zenon DEF ListTypeOK
    <2> QED
        BY <2>1, <2>2, <2>4, Zenon
<1>6. CASE Cycle
    <2>1. /\ UNCHANGED <<size, data, taken, list_status>>
          /\ next_ptr' \in [Node -> Node \cup {Nil}]
          /\ prev_ptr' \in [Node -> Node \cup {Nil}]
          /\ PathNext(Rotated(q, size))
        BY <1>1, <1>2, <1>6, CyclePath, Zenon
    <2>2. size' \in 0 .. Cardinality(Node) /\ Cardinality(Node) \in Nat
        BY <1>1, <2>1, NodeAssumption, FS_CardinalityType, Zenon DEF ListTypeOK
    <2>3. start_ptr' \in Node \cup {Nil} /\ end_ptr' \in Node \cup {Nil}
        BY <2>1, <2>2, PathEnds DEF PathNext
    <2>4. ListTypeOK'
        BY <1>1, <2>1, <2>3, Zenon DEF ListTypeOK
    <2> QED
        BY <1>1, <2>1, <2>4
<1>7. CASE AddPanic
    <2>1. UNCHANGED <<start_ptr, end_ptr, size, next_ptr, prev_ptr, data, taken>> /\ list_status' = "panic"
        BY <1>7, Zenon DEF AddPanic, links
    <2>2. PathNext(q)
        BY <1>2, <2>1, Zenon DEF IsPath, PathNext
    <2> QED
        BY <1>1, <2>1, <2>2, Zenon DEF ListTypeOK
<1>8. CASE UNCHANGED listVars
    <2>1. UNCHANGED <<start_ptr, end_ptr, size, next_ptr, prev_ptr, data, taken, list_status>>
        BY <1>8, Zenon DEF listVars, links
    <2>2. PathNext(q)
        BY <1>2, <2>1, Zenon DEF IsPath, PathNext
    <2> QED
        BY <1>1, <2>1, <2>2, Zenon DEF ListTypeOK
<1>9. Cardinality(Node) \in Nat
    BY NodeAssumption, FS_CardinalityType, Zenon
<1> QED
    BY <1>4, <1>5, <1>6, <1>7, <1>8, <1>9 DEF ListNext, Pop

\* Whatever is enqueued, removed at any pos and cycled, in any order and with any pool of
\* nodes, the nodes in use form one path that next_ptr leads along and prev_ptr back.
THEOREM LinkInvariant == ListSpec => []LinkInv
BY LinkInit, LinkStep, PTL DEF ListSpec

\* The links of linked_list.c lead to nodes of the pool or to NULL, and size is in its range.
THEOREM ListTypes == ListSpec => []ListTypeOK
<1>1. LinkInv => ListTypeOK
    BY Zenon DEF LinkInv
<1> QED
    BY <1>1, LinkInvariant, PTL

\* After any calls a walk along next_ptr meets exactly the nodes taken from the pool, each
\* one's prev_ptr is the node before it, and end_ptr is the last: no call leaks a node.
THEOREM ListIsWellLinked == ListSpec => []WellLinked
<1>1. LinkInv => WellLinked
    <2> SUFFICES ASSUME LinkInv
                 PROVE  WellLinked
        BY Zenon
    <2>1. PICK q : IsPath(q)
        BY Zenon DEF LinkInv
    <2>2. size \in Nat /\ Cardinality(taken) = size
        BY NodeAssumption, FS_CardinalityType DEF LinkInv, ListTypeOK
    <2>3. \A k \in 0 .. size : NodeAt(k) = q[k]
        BY <2>1, <2>2, PathIsFollowed DEF IsPath, NodeAt
    <2>4. {NodeAt(k) : k \in 0 .. size - 1} = taken
        <3>1. \A k \in 0 .. size - 1 : NodeAt(k) \in taken
            BY <2>1, <2>2, <2>3 DEF IsPath, Path
        <3>2. \A x \in taken : \E k \in 0 .. size - 1 : NodeAt(k) = x
            <4> TAKE x \in taken
            <4>1. PICK k \in 0 .. size - 1 : q[k] = x
                BY <2>1, Zenon DEF IsPath, Path
            <4> QED
                BY <2>2, <2>3, <4>1
        <3> QED
            BY <3>1, <3>2, Zenon
    <2>5. NodeAt(size) = Nil /\ end_ptr = IF size = 0 THEN Nil ELSE NodeAt(size - 1)
        BY <2>1, <2>2, <2>3 DEF IsPath, Path
    <2>6. \A k \in 0 .. size - 1 : prev_ptr[NodeAt(k)] = IF k = 0 THEN Nil ELSE NodeAt(k - 1)
        <3> TAKE k \in 0 .. size - 1
        <3>1. k \in 0 .. size /\ NodeAt(k) = q[k] /\ (k # 0 => NodeAt(k - 1) = q[k - 1])
            BY <2>2, <2>3
        <3>2. prev_ptr[q[k]] = IF k = 0 THEN Nil ELSE q[k - 1]
            BY <2>1, Zenon DEF IsPath, Path
        <3> QED
            BY <3>1, <3>2, Zenon
    <2> QED
        BY <2>2, <2>4, <2>5, <2>6, Zenon DEF WellLinked
<1> QED
    BY <1>1, LinkInvariant, PTL

-----------------------------------------------------------------------------
(***************************************************************************)
(* The list implements the sequence of ListContents.                       *)
(***************************************************************************)
DataAlong(q) == [k \in 1 .. size |-> data[q[k - 1]]]

\* The contents that a caller can read are the data along the path.
ContentsFollowPath == \A q : IsPath(q) => contents = DataAlong(q)

\* It is so in every state whose links form a path.
LEMMA ContentsOfPath == ListTypeOK => ContentsFollowPath
<1> SUFFICES ASSUME ListTypeOK, NEW q, IsPath(q)
             PROVE  contents = DataAlong(q)
    BY Zenon DEF ContentsFollowPath
<1>1. size \in Nat /\ Length = size
    BY NodeAssumption, FS_CardinalityType, LengthIsSize DEF ListTypeOK
<1>2. \A k \in 0 .. size : NodeAt(k) = q[k]
    BY <1>1, PathIsFollowed DEF IsPath, NodeAt
<1>3. \A k \in 1 .. size : k - 1 \in 0 .. size
    BY <1>1
<1> QED
    BY <1>1, <1>2, <1>3, Zenon DEF contents, DataAlong

\* Append and the removal of one entry, entry by entry.
LEMMA AppendIs ==
    ASSUME NEW S, NEW s \in Seq(S), NEW d \in S
    PROVE  Append(s, d) = [k \in 1 .. Len(s) + 1 |-> IF k = Len(s) + 1 THEN d ELSE s[k]]
<1> DEFINE t == Append(s, d)
<1>1. /\ t \in Seq(S) /\ Len(t) = Len(s) + 1
      /\ \A k \in 1 .. Len(s) + 1 : t[k] = IF k = Len(s) + 1 THEN d ELSE s[k]
    OBVIOUS
<1> HIDE DEF t
<1>2. t = [k \in 1 .. Len(s) + 1 |-> t[k]]
    BY <1>1
<1> QED
    BY <1>1, <1>2, Zenon DEF t

\* What is left when the entry at index e is taken out.
LEMMA RemoveIs ==
    ASSUME NEW S, NEW s \in Seq(S), NEW e \in Nat, e < Len(s)
    PROVE  SubSeq(s, 1, e) \o SubSeq(s, e + 2, Len(s))
           = [k \in 1 .. Len(s) - 1 |-> IF k <= e THEN s[k] ELSE s[k + 1]]
<1> DEFINE a == SubSeq(s, 1, e)
           b == SubSeq(s, e + 2, Len(s))
           t == a \o b
<1>1. a \in Seq(S) /\ Len(a) = e /\ \A k \in 1 .. e : a[k] = s[k]
    OBVIOUS
<1>2. /\ b \in Seq(S) /\ Len(b) = Len(s) - e - 1
      /\ \A k \in 1 .. Len(s) - e - 1 : b[k] = s[k + e + 1]
    OBVIOUS
<1> HIDE DEF a, b
<1>3. t \in Seq(S) /\ Len(t) = Len(s) - 1
    <2>1. a \in Seq(S) /\ b \in Seq(S)
        BY <1>1, <1>2, Zenon
    <2>2. t \in Seq(S) /\ Len(t) = Len(a) + Len(b)
        BY <2>1
    <2> QED
        BY <1>1, <1>2, <2>2
<1> HIDE DEF t
<1>4. ASSUME NEW k \in 1 .. Len(s) - 1
      PROVE  t[k] = IF k <= e THEN s[k] ELSE s[k + 1]
    <2>1. CASE k <= e
        <3>1. t[k] = a[k]
            BY <1>1, <1>2, <2>1 DEF t
        <3> QED
            BY <1>1, <2>1, <3>1
    <2>2. CASE e < k
        <3>1. k \in 1 .. Len(a) + Len(b) /\ ~(k <= Len(a))
            BY <1>1, <1>2, <2>2
        <3>2. t[k] = b[k - Len(a)]
            BY <1>1, <1>2, <3>1 DEF t
        <3> QED
            BY <1>1, <1>2, <2>2, <3>2
    <2> QED
        BY <2>1, <2>2
<1>5. t = [k \in 1 .. Len(s) - 1 |-> t[k]]
    BY <1>3
<1> QED
    BY <1>4, <1>5, Zenon DEF a, b, t

\* A step of the list that keeps the invariant is a step of the sequence.
LEMMA SequenceStep == LinkInv /\ LinkInv' /\ [ListNext]_listVars => [LC!Next]_contents
<1> SUFFICES ASSUME LinkInv, LinkInv', [ListNext]_listVars
             PROVE  [LC!Next]_contents
    BY Zenon
<1>1. ListTypeOK /\ ListTypeOK' /\ size \in Nat
    BY NodeAssumption, FS_CardinalityType DEF LinkInv, ListTypeOK
<1>2. PICK q : IsPath(q)
    BY Zenon DEF LinkInv
<1>3. contents = DataAlong(q)
    BY <1>1, <1>2, ContentsOfPath, Zenon DEF ContentsFollowPath
<1>4. ContentsFollowPath'
    BY <1>1, ContentsOfPath, PTL
<1>5. ASSUME NEW r, PathNext(r)
      PROVE  contents' = [k \in 1 .. size' |-> data'[r[k - 1]]]
    BY <1>4, <1>5, Zenon DEF ContentsFollowPath, PathNext, IsPath, DataAlong
<1>6. \A k \in 0 .. size - 1 : q[k] \in Node /\ q[k] \in taken
    BY <1>2, Zenon DEF IsPath, Path
<1>7. /\ contents \in Seq(Data \cup {Nil}) /\ Len(contents) = size
      /\ \A k \in 1 .. size : contents[k] = data[q[k - 1]]
    <2>1. \A k \in 1 .. size : data[q[k - 1]] \in Data \cup {Nil}
        BY <1>1, <1>6 DEF ListTypeOK
    <2> QED
        BY <1>1, <1>3, <2>1 DEF DataAlong
<1>8. ASSUME NEW d \in Data, Enqueue(d)
      PROVE  LC!Enqueue(d)
    <2>1. PICK node \in Node \ taken :
              /\ data' = [data EXCEPT ![node] = d]
              /\ PathNext(Appended(q, size, node))
        BY <1>1, <1>2, <1>8, EnqueuePath, Zenon
    <2>2. size' = size + 1
        BY <1>8, Zenon DEF Enqueue, Add
    <2>3. contents' = [k \in 1 .. size + 1 |-> data'[Appended(q, size, node)[k - 1]]]
        BY <1>5, <2>1, <2>2, Zenon
    <2>4. \A k \in 1 .. size : data'[Appended(q, size, node)[k - 1]] = contents[k]
        BY <1>1, <1>6, <1>7, <2>1 DEF Appended, ListTypeOK
    <2>5. data'[Appended(q, size, node)[size]] = d
        BY <1>1, <2>1 DEF Appended, ListTypeOK
    <2>6. contents' = [k \in 1 .. size + 1 |-> IF k = size + 1 THEN d ELSE contents[k]]
        BY <1>1, <2>3, <2>4, <2>5
    <2>7. contents' = Append(contents, d)
        <3>1. Append(contents, d) = [k \in 1 .. size + 1 |-> IF k = size + 1 THEN d ELSE contents[k]]
            BY <1>7, AppendIs
        <3> QED
            BY <2>6, <3>1, Zenon
    <2> QED
        BY <2>7, Zenon DEF LC!Enqueue
<1>9. ASSUME NEW pos \in Nat, Remove(pos)
      PROVE  pos \in 0 .. Len(contents) /\ LC!RemoveIndex(pos)
    <2>1. /\ pos < size /\ size' = size - 1 /\ UNCHANGED data
          /\ PathNext(Deleted(q, size, pos))
        BY <1>1, <1>2, <1>9, RemovePath, Zenon
    <2>2. contents' = [k \in 1 .. size - 1 |-> data[Deleted(q, size, pos)[k - 1]]]
        BY <1>5, <2>1
    <2>3. \A k \in 1 .. size - 1 : data[Deleted(q, size, pos)[k - 1]]
                                  = IF k <= pos THEN contents[k] ELSE contents[k + 1]
        BY <1>1, <1>7, <2>1 DEF Deleted
    <2>4. contents' = [k \in 1 .. size - 1 |-> IF k <= pos THEN contents[k] ELSE contents[k + 1]]
        BY <2>2, <2>3, Zenon
    <2>5. contents' = SubSeq(contents, 1, pos) \o SubSeq(contents, pos + 2, Len(contents))
        BY <1>1, <1>7, <2>1, <2>4, RemoveIs, Zenon
    <2> QED
        BY <1>1, <1>7, <2>1, <2>5 DEF LC!RemoveIndex
<1>10. ASSUME Cycle
       PROVE  LC!Cycle
    <2>1. 1 < size /\ UNCHANGED <<size, data>> /\ PathNext(Rotated(q, size))
        BY <1>1, <1>2, <1>10, CyclePath, Zenon
    <2>2. contents' = [k \in 1 .. size |-> data[Rotated(q, size)[k - 1]]]
        BY <1>5, <2>1
    <2>3. \A k \in 1 .. size : data[Rotated(q, size)[k - 1]]
                              = IF k = size THEN contents[1] ELSE contents[k + 1]
        BY <1>1, <1>7, <2>1 DEF Rotated
    <2>4. contents' = [k \in 1 .. size |-> IF k = size THEN contents[1] ELSE contents[k + 1]]
        BY <2>2, <2>3, Zenon
    <2>5. contents' = Append(Tail(contents), Head(contents)) /\ contents # << >>
        BY <1>1, <1>7, <2>1, <2>4
    <2> QED
        BY <2>5, Zenon DEF LC!Cycle
<1>11. ASSUME AddPanic \/ UNCHANGED listVars
       PROVE  UNCHANGED contents
    <2>1. UNCHANGED <<start_ptr, end_ptr, size, next_ptr, prev_ptr, data, taken>>
        BY <1>11, Zenon DEF AddPanic, listVars, links
    <2>2. PathNext(q)
        BY <1>2, <2>1, Zenon DEF IsPath, PathNext
    <2> QED
        BY <1>3, <1>5, <2>1, <2>2 DEF DataAlong
<1>12. Cardinality(Node) \in Nat
    BY NodeAssumption, FS_CardinalityType, Zenon
<1> QED
    BY <1>8, <1>9, <1>10, <1>11, <1>12 DEF ListNext, Pop, LC!Next

\* linked_list.c is a sequence to its callers: linked_list_enqueue appends, linked_list_remove
\* takes out the entry at its pos, and linked_list_cycle rotates by one.
THEOREM ListImplementsSequence == ListSpec => ImplementsSequence
<1>1. ListInit => LC!Init
    <2> SUFFICES ASSUME ListInit
                 PROVE  contents = << >>
        BY Zenon DEF LC!Init
    <2>1. LinkInv
        BY LinkInit, Zenon
    <2>2. ListTypeOK /\ \E q : IsPath(q)
        BY <2>1, Zenon DEF LinkInv
    <2>3. PICK q : contents = DataAlong(q)
        BY <2>2, ContentsOfPath, Zenon DEF ContentsFollowPath
    <2> QED
        BY <2>3 DEF DataAlong, ListInit
<1> QED
    BY <1>1, LinkInvariant, SequenceStep, PTL DEF ListSpec, ImplementsSequence, LC!Spec
=============================================================================
