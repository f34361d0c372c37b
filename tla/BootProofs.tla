----------------------------- MODULE BootProofs -----------------------------
(***************************************************************************)
(* Proofs about boot, for every page size and size of the tables, every    *)
(* list of CPUs and every machine whose firmware is as Boot assumes: first *)
(* EarlyHeap and Smp on their own, then Paging, IoApic and Acpi as kmain   *)
(* calls them.                                                             *)
(***************************************************************************)
EXTENDS Boot, LoopProofs

(***************************************************************************)
(* EarlyHeap: who shares memory.                                           *)
(***************************************************************************)
USE DEF Disjoint

\* What the properties need of grants: every area but free_node_list ends by
\* early_heap_ptr.
AreasBehindPtr ==
    /\ early_heap_ptr \in Nat
    /\ warned \in BOOLEAN
    /\ \A g \in grants : g.from \in Nat /\ g.to \in Nat
    /\ \A g \in grants : g.use # FreeList => g.to <= early_heap_ptr

\* A number is the multiple of the page size below it, and the rest.
LEMMA Division ==
    ASSUME NEW x \in Nat
    PROVE  /\ x \div PAGE_SIZE \in Nat
           /\ x % PAGE_SIZE \in 0 .. PAGE_SIZE - 1
           /\ x = PAGE_SIZE * (x \div PAGE_SIZE) + (x % PAGE_SIZE)
BY EarlyHeapAssumption

\* ALIGN_UP rounds up, to a multiple of the page size.
LEMMA AlignUp ==
    ASSUME NEW x \in Nat
    PROVE  /\ ALIGN_UP(x) \in Nat
           /\ ALIGN_UP(x) >= x
           /\ \E k \in Nat : ALIGN_UP(x) = PAGE_SIZE * k
<1> DEFINE q == x \div PAGE_SIZE
           r == x % PAGE_SIZE
<1>1. q \in Nat /\ r \in 0 .. PAGE_SIZE - 1 /\ x = PAGE_SIZE * q + r
  BY Division, Zenon
<1>2. PAGE_SIZE \in Nat \ {0}
  BY EarlyHeapAssumption, Zenon
<1> HIDE DEF q
<1>3. CASE r = 0
  <2>1. ALIGN_UP(x) = x
    BY <1>3, Zenon DEF ALIGN_UP
  <2>2. x = PAGE_SIZE * q
    BY <1>1, <1>2, <1>3
  <2> QED BY <1>1, <2>1, <2>2
<1>4. CASE r # 0
  <2>1. ALIGN_UP(x) = x + (PAGE_SIZE - r)
    BY <1>4, Zenon DEF ALIGN_UP
  <2> HIDE DEF r
  <2>2. ALIGN_UP(x) = PAGE_SIZE * q + PAGE_SIZE
    BY <1>1, <1>2, <2>1
  <2>3. PAGE_SIZE * (q + 1) = PAGE_SIZE * q + PAGE_SIZE
    BY <1>1, <1>2
  <2>4. q + 1 \in Nat
    BY <1>1
  <2>5. ALIGN_UP(x) \in Nat /\ ALIGN_UP(x) >= x
    BY <1>1, <1>2, <2>1
  <2> QED BY <2>2, <2>3, <2>4, <2>5, Zenon
<1> QED BY <1>3, <1>4, Zenon

\* Multiples of the page size are ordered as their factors are.
LEMMA Multiples ==
    ASSUME NEW a \in Int, NEW b \in Int, PAGE_SIZE * a > PAGE_SIZE * b
    PROVE  a > b
<1>1. PAGE_SIZE \in Nat \ {0}
  BY EarlyHeapAssumption, Zenon
<1>2. SUFFICES ASSUME a <= b PROVE FALSE
  OBVIOUS
<1>3. PAGE_SIZE * a <= PAGE_SIZE * b
  BY <1>1, <1>2
<1> QED BY <1>1, <1>3

\* A page that starts before the top ends by the top, which is page aligned.
LEMMA PagesUpToTop ==
    ASSUME NEW k \in Nat, NEW n \in Nat \ {0},
           PAGE_SIZE * k + n * PAGE_SIZE > early_heap_top
    PROVE  PAGE_SIZE * k + (n - 1) * PAGE_SIZE >= early_heap_top
<1> DEFINE b == early_heap_top \div PAGE_SIZE
<1>1. PAGE_SIZE \in Nat \ {0} /\ early_heap_top \in Nat
  BY EarlyHeapAssumption, Zenon
<1>2. b \in Nat /\ early_heap_top = PAGE_SIZE * b
  BY Division, <1>1, EarlyHeapAssumption
<1> HIDE DEF b
<1>3. PAGE_SIZE * (k + n) = PAGE_SIZE * k + n * PAGE_SIZE
  BY <1>1
<1>4. k + n > b
  BY <1>2, <1>3, Multiples
<1>5. PAGE_SIZE * (k + (n - 1)) = PAGE_SIZE * k + (n - 1) * PAGE_SIZE
  BY <1>1
<1>6. k + (n - 1) >= b
  BY <1>2, <1>4
<1>7. PAGE_SIZE * (k + (n - 1)) >= PAGE_SIZE * b
  BY <1>1, <1>2, <1>6
<1> QED BY <1>2, <1>5, <1>7, Zenon

-----------------------------------------------------------------------------
\* Every area but free_node_list ends by early_heap_ptr: the bytes behind it are
\* nobody's.  With it the properties are inductive.
IInv == AreasBehindPtr /\ SharedOnlyWithFreeList /\ OverrunIsReported

USE DEF Grant

\* init_early_heap starts with nothing taken.
LEMMA InitIInv == init_early_heap => IInv
<1> SUFFICES ASSUME init_early_heap PROVE IInv
  BY Zenon
<1>1. early_heap_ptr = 0 /\ grants = {} /\ warned = FALSE
  BY Zenon DEF init_early_heap
<1>2. AreasBehindPtr
  BY <1>1, Zenon DEF AreasBehindPtr
<1>3. SharedOnlyWithFreeList
  BY <1>1, Zenon DEF SharedOnlyWithFreeList
<1>4. OverrunIsReported
  BY <1>1, Zenon DEF OverrunIsReported
<1> QED BY <1>2, <1>3, <1>4, Zenon DEF IInv

\* Adding an area at or behind early_heap_ptr under a new name keeps areas disjoint.
LEMMA AddArea ==
    ASSUME IInv, NEW user, NEW from \in Nat, NEW to \in Nat,
           from >= early_heap_ptr, from <= to,
           Grant(user, from, to),
           early_heap_ptr' = to,
           warned' \in BOOLEAN, warned => warned',
           from < to /\ to > early_heap_top => warned' \/ user = Bitmap,
           \A g \in grants : g.use # user
    PROVE  IInv'
<1> DEFINE new == [use |-> user, from |-> from, to |-> to]
<1>1. grants' = grants \cup {new}
  BY Zenon
<1>2. new.use = user /\ new.from = from /\ new.to = to
  BY Zenon
<1> HIDE DEF new
<1>3. AreasBehindPtr'
  BY <1>1, <1>2 DEF IInv, AreasBehindPtr
<1>4. SharedOnlyWithFreeList'
  <2> SUFFICES ASSUME NEW g \in grants', NEW h \in grants',
                      g.use # h.use, FreeList \notin {g.use, h.use}
               PROVE  Disjoint(g, h)
    BY Zenon DEF SharedOnlyWithFreeList
  <2>1. CASE g \in grants /\ h \in grants
    BY <2>1, Zenon DEF IInv, SharedOnlyWithFreeList
  <2>2. CASE g \in grants /\ h = new
    BY <2>2, <1>2 DEF IInv, AreasBehindPtr
  <2>3. CASE g = new /\ h \in grants
    BY <2>3, <1>2 DEF IInv, AreasBehindPtr
  <2> QED BY <1>1, <2>1, <2>2, <2>3, Zenon
<1>5. OverrunIsReported'
  BY <1>1, <1>2, Zenon DEF IInv, OverrunIsReported
<1> QED BY <1>3, <1>4, <1>5, Zenon DEF IInv

\* Every operation of the early heap keeps the invariant.
LEMMA NextIInv == IInv /\ [EarlyHeapNext]_heapVars => IInv'
<1> SUFFICES ASSUME IInv, [EarlyHeapNext]_heapVars PROVE IInv'
  BY Zenon
<1> USE EarlyHeapAssumption
<1>1. early_heap_ptr \in Nat /\ warned \in BOOLEAN
  BY Zenon DEF IInv, AreasBehindPtr
<1>2. ASSUME NEW user \in Users \ {FreeList}, NEW n \in Nat,
             \A g \in grants : g.use # user, user = Bitmap, TakeBytes(user, n)
      PROVE  IInv'
  BY <1>1, <1>2, AddArea DEF TakeBytes
<1>3. ASSUME NEW user \in Users \ {FreeList}, NEW n \in Nat,
             \A g \in grants : g.use # user, early_kmalloc_pages(user, n)
      PROVE  IInv'
  <2> DEFINE from == ALIGN_UP(early_heap_ptr)
             to == from + n * PAGE_SIZE
  <2>1. from \in Nat /\ from >= early_heap_ptr
    BY <1>1, AlignUp, Zenon
  <2>2. PICK k \in Nat : from = PAGE_SIZE * k
    BY <1>1, AlignUp, Zenon
  <2>3. /\ Grant(user, from, to)
        /\ early_heap_ptr' = to
        /\ warned' = (warned \/ \E i \in 0 .. n - 1 : from + i * PAGE_SIZE >= early_heap_top)
    BY <1>3, Zenon DEF early_kmalloc_pages
  <2> HIDE DEF from
  <2>4. to \in Nat /\ from <= to
    BY <2>1
  <2>5. from < to /\ to > early_heap_top => warned'
    <3> SUFFICES ASSUME from < to, to > early_heap_top PROVE warned'
      BY Zenon
    <3>1. n # 0
      BY <2>1
    <3>2. from + (n - 1) * PAGE_SIZE >= early_heap_top
      BY <2>2, <3>1, PagesUpToTop, Zenon
    <3>3. n - 1 \in 0 .. n - 1
      BY <3>1
    <3> QED BY <2>3, <3>2, <3>3, Zenon
  <2> HIDE DEF to
  <2> QED BY <1>1, <1>3, <2>1, <2>3, <2>4, <2>5, AddArea, Zenon
<1>4. CASE PlaceFreeList
  <2>1. (early_heap_top - early_heap_ptr) % AddressSpace \in Nat
    BY <1>1
  <2> DEFINE rest == (early_heap_top - early_heap_ptr) % AddressSpace
             new == [use |-> FreeList, from |-> early_heap_ptr, to |-> early_heap_ptr + rest]
  <2>2. grants' = grants \cup {new} /\ early_heap_ptr' = early_heap_ptr /\ warned' = warned
    BY <1>4, Zenon DEF PlaceFreeList
  <2> HIDE DEF rest
  <2>3. new.use = FreeList /\ new.from \in Nat /\ new.to \in Nat
    BY <1>1, <2>1 DEF rest
  <2> HIDE DEF new
  <2> QED BY <2>2, <2>3, Zenon DEF IInv, AreasBehindPtr, SharedOnlyWithFreeList, OverrunIsReported
<1>5. CASE UNCHANGED heapVars
  BY <1>5, Zenon DEF heapVars, IInv, AreasBehindPtr, SharedOnlyWithFreeList, OverrunIsReported
<1> QED BY <1>2, <1>3, <1>4, <1>5, Zenon DEF EarlyHeapNext

\* In whatever order the early heap is used, no two users but free_node_list share
\* memory.
THEOREM StaticStorage == EarlyHeapSpec => []SharedOnlyWithFreeList
<1>1. IInv => SharedOnlyWithFreeList
  BY Zenon DEF IInv
<1> QED BY InitIInv, NextIInv, <1>1, PTL DEF EarlyHeapSpec

\* Pages beyond early_heap_top are never given away without the warning of
\* early_kmalloc_pages.
THEOREM OverrunWarned == EarlyHeapSpec => []OverrunIsReported
<1>1. IInv => OverrunIsReported
  BY Zenon DEF IInv
<1> QED BY InitIInv, NextIInv, <1>1, PTL DEF EarlyHeapSpec

-----------------------------------------------------------------------------
\* The CPU that init_smp is working on.
Current == apic_cpu_ids[next]

SmpType ==
    /\ apic_cpu_ids \in Seq(ApicIds)
    /\ \A i, j \in 1 .. Len(apic_cpu_ids) : i # j => apic_cpu_ids[i] # apic_cpu_ids[j]
    /\ bsp \in {"pick", "startup", "wait", "done"}
    /\ next \in 1 .. Len(apic_cpu_ids) + 1
    /\ bsp \in {"startup", "wait"} => next <= Len(apic_cpu_ids) /\ Current # BSP
    /\ active_cpus \in Nat
    /\ ap_cpu_id \in Nat
    /\ ap \in [ApicIds -> {"off", "init", "started", "counted", "interruptible",
                           "scheduler", "panic"}]
    /\ slot \in [ApicIds -> Int]

\* The count is never ahead of the loop.
CountBehindLoop ==
    /\ active_cpus <= next
    /\ ap_cpu_id <= active_cpus
    /\ bsp # "wait" => ap_cpu_id = active_cpus - 1
    /\ bsp = "wait" => \/ ap_cpu_id = active_cpus - 1 /\ slot[Current] = None
                       \/ ap_cpu_id = active_cpus /\ slot[Current] # None

\* Only the CPU that the BSP waits for is between STARTUP and the count.
OneAtATime ==
    \A a \in ApicIds :
        /\ ap[a] = "started" => bsp = "wait" /\ a = Current /\ slot[a] = None
        /\ (slot[a] = None) <=> (ap[a] \in {"off", "init", "started"})

\* The CPUs that init_smp has not come to have no stack yet.
RestHasNone ==
    \A i \in 1 .. Len(apic_cpu_ids) :
        i > next \/ (i = next /\ bsp # "wait") => slot[apic_cpu_ids[i]] = None

SlotsBelowCount ==
    /\ \A a \in ApicIds : slot[a] \in -1 .. ap_cpu_id - 1
    /\ \A a, b \in ApicIds : a # b /\ slot[a] # None => slot[a] # slot[b]

SmpInv == /\ SmpType /\ CountBehindLoop /\ OneAtATime /\ RestHasNone /\ SlotsBelowCount
          /\ WaitMeansCounted

USE DEF None, Current

\* Before init_smp no AP runs and none is counted.
LEMMA SmpInitInv == SmpInit => SmpInv
<1> SUFFICES ASSUME SmpInit PROVE SmpInv
  OBVIOUS
<1> USE SmpAssumption DEF SmpInit, IdLists
<1>1. SmpType
  BY DEF SmpType
<1>2. CountBehindLoop
  BY DEF CountBehindLoop
<1>3. OneAtATime
  BY Zenon DEF OneAtATime
<1>4. RestHasNone
  BY DEF RestHasNone
<1>5. SlotsBelowCount
  BY DEF SlotsBelowCount
<1>6. WaitMeansCounted
  BY DEF WaitMeansCounted
<1> QED BY <1>1, <1>2, <1>3, <1>4, <1>5, <1>6, Zenon DEF SmpInv

\* The ids of the list are CPUs.
LEMMA ListedIds ==
    ASSUME SmpType, NEW i \in 1 .. Len(apic_cpu_ids)
    PROVE  apic_cpu_ids[i] \in ApicIds
BY DEF SmpType
\* Each step of the BSP and of an AP keeps the invariant.
LEMMA SmpNextInv == SmpInv /\ [SmpNext]_smpVars => SmpInv'
<1> SUFFICES ASSUME SmpInv, [SmpNext]_smpVars PROVE SmpInv'
  OBVIOUS
<1> USE SmpAssumption
<1>0. /\ SmpType /\ CountBehindLoop /\ OneAtATime /\ RestHasNone /\ SlotsBelowCount
      /\ WaitMeansCounted
      /\ \A i \in 1 .. Len(apic_cpu_ids) : apic_cpu_ids[i] \in ApicIds
  BY ListedIds, Zenon DEF SmpInv
<1>1. CASE SkipBsp
  <2>1. SmpType'
    BY <1>0, <1>1 DEF SkipBsp, SmpType
  <2>2. CountBehindLoop'
    BY <1>0, <1>1 DEF SkipBsp, CountBehindLoop, SmpType, OneAtATime, RestHasNone
  <2>3. OneAtATime'
    BY <1>0, <1>1, Zenon DEF SkipBsp, OneAtATime, SmpType, CountBehindLoop, RestHasNone
  <2>4. RestHasNone'
    BY <1>0, <1>1 DEF SkipBsp, RestHasNone, SmpType, CountBehindLoop
  <2>5. SlotsBelowCount'
    BY <1>0, <1>1, Zenon DEF SkipBsp, SlotsBelowCount, SmpType, OneAtATime
  <2>6. WaitMeansCounted'
    BY <1>0, <1>1 DEF SkipBsp, WaitMeansCounted, SmpType, CountBehindLoop, OneAtATime
  <2> QED BY <2>1, <2>2, <2>3, <2>4, <2>5, <2>6, Zenon DEF SmpInv
<1>2. CASE lapic_send_init
  <2>1. SmpType'
    BY <1>0, <1>2, Zenon DEF lapic_send_init, Reaches, SmpType
  <2>2. CountBehindLoop'
    BY <1>0, <1>2, Zenon
    DEF lapic_send_init, Reaches, CountBehindLoop, SmpType, OneAtATime, RestHasNone
  <2>3. OneAtATime'
    BY <1>0, <1>2 DEF lapic_send_init, Reaches, OneAtATime, SmpType, CountBehindLoop, RestHasNone
  <2>4. RestHasNone'
    BY <1>0, <1>2, Zenon DEF lapic_send_init, Reaches, RestHasNone, SmpType, CountBehindLoop
  <2>5. SlotsBelowCount'
    BY <1>0, <1>2, Zenon DEF lapic_send_init, Reaches, SlotsBelowCount, SmpType, OneAtATime
  <2>6. WaitMeansCounted'
    <3> SUFFICES ASSUME NEW i \in 1 .. next - 1, apic_cpu_ids[i] # BSP
                 PROVE  /\ slot'[apic_cpu_ids[i]] # None
                        /\ ap'[apic_cpu_ids[i]] \notin {"off", "init", "started"}
      BY <1>2, Zenon DEF lapic_send_init, WaitMeansCounted
    <3>1. i \in 1 .. Len(apic_cpu_ids) /\ next \in 1 .. Len(apic_cpu_ids) /\ i # next
      BY <1>0, <1>2 DEF SmpType, lapic_send_init
    <3>2. apic_cpu_ids[i] # apic_cpu_ids[next]
      BY <1>0, <3>1, Zenon DEF SmpType
    <3>3. ap'[apic_cpu_ids[i]] = ap[apic_cpu_ids[i]] /\ slot' = slot
      BY <1>0, <1>2, <3>1, <3>2, Zenon DEF SmpType, lapic_send_init, Reaches
    <3> QED BY <1>0, <3>3, Zenon DEF WaitMeansCounted
  <2> QED BY <2>1, <2>2, <2>3, <2>4, <2>5, <2>6 DEF SmpInv
<1>3. CASE lapic_send_startup
  <2>1. SmpType'
    BY <1>0, <1>3, Zenon DEF lapic_send_startup, Reaches, SmpType
  <2>2. CountBehindLoop'
    BY <1>0, <1>3 DEF lapic_send_startup, Reaches, CountBehindLoop, SmpType, OneAtATime, RestHasNone
  <2>3. OneAtATime'
    BY <1>0, <1>3, Zenon
    DEF lapic_send_startup, Reaches, OneAtATime, SmpType, CountBehindLoop, RestHasNone
  <2>4. RestHasNone'
    BY <1>0, <1>3, Zenon DEF lapic_send_startup, Reaches, RestHasNone, SmpType, CountBehindLoop
  <2>5. SlotsBelowCount'
    BY <1>0, <1>3, Zenon DEF lapic_send_startup, Reaches, SlotsBelowCount, SmpType, OneAtATime
  <2>6. WaitMeansCounted'
    <3> SUFFICES ASSUME NEW i \in 1 .. next - 1, apic_cpu_ids[i] # BSP
                 PROVE  /\ slot'[apic_cpu_ids[i]] # None
                        /\ ap'[apic_cpu_ids[i]] \notin {"off", "init", "started"}
      BY <1>3, Zenon DEF lapic_send_startup, WaitMeansCounted
    <3>1. i \in 1 .. Len(apic_cpu_ids) /\ next \in 1 .. Len(apic_cpu_ids) /\ i # next
      BY <1>0, <1>3 DEF SmpType, lapic_send_startup
    <3>2. apic_cpu_ids[i] # apic_cpu_ids[next]
      BY <1>0, <3>1 DEF SmpType
    <3>3. ap'[apic_cpu_ids[i]] = ap[apic_cpu_ids[i]] /\ slot' = slot
      BY <1>0, <1>3, <3>1, <3>2, Zenon DEF SmpType, lapic_send_startup, Reaches
    <3> QED BY <1>0, <3>3 DEF WaitMeansCounted
  <2> QED BY <2>1, <2>2, <2>3, <2>4, <2>5, <2>6 DEF SmpInv
<1>4. CASE wait_counted
  <2>1. SmpType'
    BY <1>0, <1>4 DEF wait_counted, SmpType
  <2>2. CountBehindLoop'
    BY <1>0, <1>4 DEF wait_counted, CountBehindLoop, SmpType, OneAtATime, RestHasNone
  <2>3. OneAtATime'
    BY <1>0, <1>4 DEF wait_counted, OneAtATime, SmpType, CountBehindLoop, RestHasNone
  <2>4. RestHasNone'
    BY <1>0, <1>4 DEF wait_counted, RestHasNone, SmpType, CountBehindLoop
  <2>5. SlotsBelowCount'
    BY <1>0, <1>4, Zenon DEF wait_counted, SlotsBelowCount, SmpType, OneAtATime
  <2>6. WaitMeansCounted'
    <3> SUFFICES ASSUME NEW i \in 1 .. next, apic_cpu_ids[i] # BSP
                 PROVE  /\ slot[apic_cpu_ids[i]] # None
                        /\ ap[apic_cpu_ids[i]] \notin {"off", "init", "started"}
      BY <1>0, <1>4 DEF wait_counted, WaitMeansCounted, SmpType
    <3>1. CASE i = next
      <4>1. Current \in ApicIds /\ slot[Current] # None
        BY <1>0, <1>4 DEF SmpType, wait_counted, CountBehindLoop
      <4> QED BY <1>0, <3>1, <4>1, Zenon DEF OneAtATime
    <3>2. CASE i # next
      BY <1>0, <3>2 DEF WaitMeansCounted, SmpType
    <3> QED BY <3>1, <3>2, Zenon
  <2> QED BY <2>1, <2>2, <2>3, <2>4, <2>5, <2>6 DEF SmpInv
<1>5. CASE init_smp_returns
  <2>1. SmpType'
    BY <1>0, <1>5, Zenon DEF init_smp_returns, SmpType
  <2>2. CountBehindLoop'
    BY <1>0, <1>5, Zenon DEF init_smp_returns, CountBehindLoop, SmpType, OneAtATime, RestHasNone
  <2>3. OneAtATime'
    BY <1>0, <1>5, Zenon DEF init_smp_returns, OneAtATime, SmpType, CountBehindLoop, RestHasNone
  <2>4. RestHasNone'
    BY <1>0, <1>5, Zenon DEF init_smp_returns, RestHasNone, SmpType, CountBehindLoop
  <2>5. SlotsBelowCount'
    BY <1>0, <1>5, Zenon DEF init_smp_returns, SlotsBelowCount, SmpType, OneAtATime
  <2>6. WaitMeansCounted'
    BY <1>0, <1>5, Zenon
    DEF init_smp_returns, WaitMeansCounted, SmpType, CountBehindLoop, OneAtATime
  <2> QED BY <2>1, <2>2, <2>3, <2>4, <2>5, <2>6 DEF SmpInv
<1>6. ASSUME NEW a \in ApicIds, ap_start(a) PROVE SmpInv'
  <2>1. SmpType'
    BY <1>0, <1>6 DEF ap_start, SmpType
  <2>2. CountBehindLoop'
    BY <1>0, <1>6 DEF ap_start, CountBehindLoop, SmpType, OneAtATime, RestHasNone
  <2>3. OneAtATime'
    BY <1>0, <1>6 DEF ap_start, OneAtATime, SmpType, CountBehindLoop, RestHasNone
  <2>4. RestHasNone'
    BY <1>0, <1>6 DEF ap_start, RestHasNone, SmpType, OneAtATime
  <2>5. SlotsBelowCount'
    BY <1>0, <1>6 DEF ap_start, SlotsBelowCount, SmpType, OneAtATime
  <2>6. WaitMeansCounted'
    BY <1>0, <1>6 DEF ap_start, WaitMeansCounted, SmpType, CountBehindLoop, OneAtATime
  <2> QED BY <2>1, <2>2, <2>3, <2>4, <2>5, <2>6, Zenon DEF SmpInv
<1>7. ASSUME NEW a \in ApicIds, init_ap(a) PROVE SmpInv'
  <2>1. SmpType'
    BY <1>0, <1>7, Zenon DEF init_ap, SmpType
  <2>2. CountBehindLoop'
    BY <1>0, <1>7, Zenon DEF init_ap, CountBehindLoop, SmpType, OneAtATime, RestHasNone
  <2>3. OneAtATime'
    BY <1>0, <1>7, Zenon DEF init_ap, OneAtATime, SmpType, CountBehindLoop, RestHasNone
  <2>4. RestHasNone'
    BY <1>0, <1>7, Zenon DEF init_ap, RestHasNone, SmpType, CountBehindLoop
  <2>5. SlotsBelowCount'
    BY <1>0, <1>7, Zenon DEF init_ap, SlotsBelowCount, SmpType, OneAtATime
  <2>6. WaitMeansCounted'
    BY <1>0, <1>7 DEF init_ap, WaitMeansCounted, SmpType, CountBehindLoop, OneAtATime
  <2> QED BY <2>1, <2>2, <2>3, <2>4, <2>5, <2>6 DEF SmpInv
<1>8. ASSUME NEW a \in ApicIds, ap_kmain(a) PROVE SmpInv'
  <2>1. SmpType'
    BY <1>0, <1>8, Zenon DEF ap_kmain, SmpType
  <2>2. CountBehindLoop'
    BY <1>0, <1>8, Zenon DEF ap_kmain, CountBehindLoop, SmpType, OneAtATime, RestHasNone
  <2>3. OneAtATime'
    BY <1>0, <1>8, Zenon DEF ap_kmain, OneAtATime, SmpType, CountBehindLoop, RestHasNone
  <2>4. RestHasNone'
    BY <1>0, <1>8, Zenon DEF ap_kmain, RestHasNone, SmpType, CountBehindLoop
  <2>5. SlotsBelowCount'
    BY <1>0, <1>8, Zenon DEF ap_kmain, SlotsBelowCount, SmpType, OneAtATime
  <2>6. WaitMeansCounted'
    BY <1>0, <1>8 DEF ap_kmain, WaitMeansCounted, SmpType, CountBehindLoop, OneAtATime
  <2> QED BY <2>1, <2>2, <2>3, <2>4, <2>5, <2>6 DEF SmpInv
<1>9. CASE UNCHANGED smpVars
  <2>1. SmpType'
    BY <1>0, <1>9, Zenon DEF smpVars, SmpType
  <2>2. CountBehindLoop'
    BY <1>0, <1>9, Zenon DEF smpVars, CountBehindLoop, SmpType, OneAtATime, RestHasNone
  <2>3. OneAtATime'
    BY <1>0, <1>9, Zenon DEF smpVars, OneAtATime, SmpType, CountBehindLoop, RestHasNone
  <2>4. RestHasNone'
    BY <1>0, <1>9, Zenon DEF smpVars, RestHasNone, SmpType, CountBehindLoop
  <2>5. SlotsBelowCount'
    BY <1>0, <1>9, Zenon DEF smpVars, SlotsBelowCount, SmpType, OneAtATime
  <2>6. WaitMeansCounted'
    BY <1>0, <1>9, Zenon DEF smpVars, WaitMeansCounted, SmpType, CountBehindLoop, OneAtATime
  <2> QED BY <2>1, <2>2, <2>3, <2>4, <2>5, <2>6 DEF SmpInv
<1> QED BY <1>1, <1>2, <1>3, <1>4, <1>5, <1>6, <1>7, <1>8, <1>9, Zenon DEF SmpNext, BspStep, ApStep

\* Whichever CPUs answer, no two APs share a stack, and no AP has a stack beyond the
\* pages that init_smp took.
THEOREM StacksAreOwned == SmpSpec => []ApOwnsStack
<1>1. SmpInv => ApOwnsStack
  BY DEF SmpInv, SmpType, CountBehindLoop, SlotsBelowCount, ApOwnsStack
<1> QED BY SmpInitInv, SmpNextInv, <1>1, PTL DEF SmpSpec

\* The BSP leaves the wait for a CPU only when that CPU is up.
THEOREM WaitIsForTheRightCpu == SmpSpec => []WaitMeansCounted
<1>1. SmpInv => WaitMeansCounted
  BY Zenon DEF SmpInv
<1> QED BY SmpInitInv, SmpNextInv, <1>1, PTL DEF SmpSpec

-----------------------------------------------------------------------------
(***************************************************************************)
(* Paging: what the page tables say.                                       *)
(***************************************************************************)
VirtualPages == 0 .. ENTRIES * ENTRIES - 1
TableSlots == 0 .. ENTRIES - 1
TableEntries == {Absent} \cup Nat \X SUBSET {"READWRITE", "CACHEDISABLE"}

\* The memory that boot maps a page to, if it maps it at all.
Target(vpage) ==
    IF vpage \in KERN_PAGE .. KERN_PAGE + HigherPages - 1 THEN vpage - KERN_PAGE ELSE vpage

\* What the memory m holds for a page under the directory at dir.
EntryOf(m, dir, vpage) ==
    IF m[dir][pdindex(vpage)] = Absent THEN Absent
    ELSE m[m[dir][pdindex(vpage)][1]][ptindex(vpage)]

\* The directory and the tables are different pages below ptr, no two entries of the
\* directory lead to the same table, and a page is mapped to its target or not at all.
SoundTables(m, dir, ptr) ==
    /\ dir \in DOMAIN m
    /\ m \in [DOMAIN m -> [TableSlots -> TableEntries]]
    /\ \A addr \in DOMAIN m : addr \in Nat /\ addr < ptr
    /\ \A k \in TableSlots : m[dir][k] # Absent => m[dir][k][1] \in DOMAIN m \ {dir}
    /\ \A k, l \in TableSlots :
          m[dir][k] # Absent /\ m[dir][l] # Absent /\ m[dir][k][1] = m[dir][l][1] => k = l
    /\ \A vpage \in VirtualPages :
          EntryOf(m, dir, vpage) # Absent => EntryOf(m, dir, vpage)[1] = Target(vpage)

\* The memory after a page was mapped in its table, and after a table was added.
WithEntry(m, dir, vpage, entry) ==
    [m EXCEPT ![m[dir][pdindex(vpage)][1]][ptindex(vpage)] = entry]
WithTable(m, dir, k, tbl) == [Cleared(m, tbl) EXCEPT ![dir][k] = <<tbl, {"READWRITE"}>>]

\* There is a table for this page.
HasTable(vpage) == mem[kernel_dir][pdindex(vpage)] # Absent

-----------------------------------------------------------------------------
\* Where kmain is.
NoTables == {"init_mem_manager", "page_dir"}
ApicMapped == {"init_kheap", "smp_stacks", "init_smp", "ioapic_init", "ioapic_unmask_all",
               "scheduler_init"}
AcpiRead == {"lapic_bsp_init"} \cup ApicMapped
ListPlaced == ApicMapped \ {"init_kheap"}
StacksTaken == ListPlaced \ {"smp_stacks"}
SmpStarted == StacksTaken
IoApicMapped == {"ioapic_unmask_all", "scheduler_init"}
Halted == {"PANIC", "undefined"}
Calls == NoTables \cup {"identity", "higher", "init_acpi", "acpi_tables"} \cup AcpiRead \cup Halted

BootType ==
    /\ fw \in Firmware
    /\ boot \in Calls
    /\ boot \in NoTables => vaddr = 0 /\ kernel_dir = NoDir /\ DOMAIN mem = {}
    /\ boot = "identity" => vaddr \in 0 .. IdentityPages - 1
    /\ boot = "higher" => vaddr \in 0 .. HigherPages - 1
    /\ boot \in AcpiRead => acpi = parse_acpi_tables(fw.tables)

\* From alloc_kernel_dir on there are tables, and from lapic_bsp_init on one for the
\* registers of the APICs.
PagingInv ==
    boot \notin NoTables =>
        /\ SoundTables(mem, kernel_dir, early_heap_ptr)
        /\ (boot \in ApicMapped => HasTable(acpi.local_apic))

\* Who has got memory so far.
OnceEach ==
    /\ \A g \in grants : g.use \in BootUsers \cup {FreeList}
    /\ boot = "init_mem_manager" => grants = {}
    /\ \A g \in grants :
          /\ g.use = PageDir => boot \notin NoTables
          /\ \A k \in TableSlots : g.use = <<"page_tbl", k>> =>
                boot \notin NoTables /\ mem[kernel_dir][k] # Absent
          /\ g.use = Stacks => boot \in StacksTaken
          /\ g.use = FreeList => boot \in ListPlaced

\* What was taken before init_kheap ends where free_node_list starts, or before.
BelowList ==
    \A g, h \in grants : h.use = FreeList /\ g.use \notin {FreeList, Stacks} => g.to <= h.from

\* The redirection table, call by call.
Routing ==
    /\ boot \notin IoApicMapped => redir = ResetTable
    /\ boot = "ioapic_unmask_all" =>
          redir = ioapic_map_all(ResetTable, acpi.overrides, acpi.gsi_base)
    /\ boot = "scheduler_init" =>
          redir = ioapic_unmask_all(ioapic_map_all(ResetTable, acpi.overrides, acpi.gsi_base))

\* The other processors do nothing before init_smp.
ProcessorsInv == SmpInv /\ (boot \notin SmpStarted => SmpInit)

BootInv == BootType /\ PagingInv /\ IInv /\ OnceEach /\ BelowList /\ Routing /\ ProcessorsInv

-----------------------------------------------------------------------------
\* The two indices of a page are slots of a table.
LEMMA Indices ==
    ASSUME NEW v \in VirtualPages
    PROVE  pdindex(v) \in TableSlots /\ ptindex(v) \in TableSlots
<1> DEFINE q == v \div ENTRIES
           r == v % ENTRIES
<1>1. ENTRIES \in Nat /\ ENTRIES > 1 /\ v \in Nat
    BY PagingAssumption DEF VirtualPages
<1>2. q \in Int /\ r \in 0 .. ENTRIES - 1 /\ v = ENTRIES * q + r
    BY <1>1
<1>3. v < ENTRIES * ENTRIES
    BY <1>1 DEF VirtualPages
<1> HIDE DEF q, r
<1>4. q < ENTRIES
    <2> SUFFICES ASSUME q >= ENTRIES
                 PROVE  FALSE
        BY <1>1, <1>2
    <2>1. ENTRIES * q >= ENTRIES * ENTRIES
        BY <1>1, <1>2
    <2>2. ENTRIES * q \in Int /\ ENTRIES * ENTRIES \in Int
        BY <1>1, <1>2
    <2> QED
        BY <1>1, <1>2, <1>3, <2>1, <2>2
<1>5. q >= 0
    <2> SUFFICES ASSUME q <= -1
                 PROVE  FALSE
        BY <1>2
    <2>1. ENTRIES * q <= ENTRIES * (-1)
        BY <1>1, <1>2
    <2>2. ENTRIES * q \in Int /\ ENTRIES * (-1) = -ENTRIES
        BY <1>1, <1>2
    <2> QED
        BY <1>1, <1>2, <2>1, <2>2
<1> QED
    BY <1>1, <1>2, <1>4, <1>5 DEF pdindex, ptindex, TableSlots, q, r

\* They determine the page.
LEMMA IndicesDiffer ==
    ASSUME NEW v \in VirtualPages, NEW w \in VirtualPages,
           pdindex(v) = pdindex(w), ptindex(v) = ptindex(w)
    PROVE  v = w
<1>1. ENTRIES \in Nat /\ ENTRIES > 1 /\ v \in Nat /\ w \in Nat
    BY PagingAssumption DEF VirtualPages
<1>2. v = ENTRIES * (v \div ENTRIES) + (v % ENTRIES)
    BY <1>1
<1>3. w = ENTRIES * (w \div ENTRIES) + (w % ENTRIES)
    BY <1>1
<1> QED
    BY <1>2, <1>3, Zenon DEF pdindex, ptindex

\* A table entry that maps something.
LEMMA PresentEntry ==
    ASSUME NEW a \in Nat, NEW flags \in SUBSET {"READWRITE", "CACHEDISABLE"}
    PROVE  <<a, flags>> \in TableEntries /\ <<a, flags>> # Absent /\ <<a, flags>>[1] = a
BY Zenon DEF TableEntries, Absent

\* A write to one slot of a table.
LEMMA WriteSlot ==
    ASSUME NEW table \in [TableSlots -> TableEntries], NEW k \in TableSlots,
           NEW entry \in TableEntries, NEW t2, t2 = [table EXCEPT ![k] = entry]
    PROVE  /\ t2 \in [TableSlots -> TableEntries] /\ t2[k] = entry
           /\ \A l \in TableSlots : l # k => t2[l] = table[l]
BY Zenon

\* set_page_tbl_entry in a table that is there: the page gets its target, and every
\* other page keeps what it had.
LEMMA SetEntryKeeps ==
    ASSUME NEW m, NEW dir, NEW ptr \in Nat, SoundTables(m, dir, ptr),
           NEW v \in VirtualPages, m[dir][pdindex(v)] # Absent,
           NEW entry \in TableEntries, entry # Absent, entry[1] = Target(v),
           NEW m2, m2 = WithEntry(m, dir, v, entry)
    PROVE  /\ SoundTables(m2, dir, ptr) /\ m2[dir] = m[dir]
           /\ \A w \in VirtualPages :
                 EntryOf(m, dir, w) # Absent => EntryOf(m2, dir, w) # Absent
<1> DEFINE tbl == m[dir][pdindex(v)][1]
           s == ptindex(v)
<1>1. pdindex(v) \in TableSlots /\ s \in TableSlots
    BY Indices, Zenon
<1>2. /\ dir \in DOMAIN m /\ m \in [DOMAIN m -> [TableSlots -> TableEntries]]
      /\ tbl \in DOMAIN m /\ tbl # dir
    BY <1>1, Zenon DEF SoundTables
<1>3. /\ DOMAIN m2 = DOMAIN m
      /\ \A addr \in DOMAIN m : addr # tbl => m2[addr] = m[addr]
      /\ m2[tbl] \in [TableSlots -> TableEntries]
      /\ m2[tbl][s] = entry
      /\ \A k \in TableSlots : k # s => m2[tbl][k] = m[tbl][k]
    BY <1>1, <1>2, Zenon DEF WithEntry
<1>4. m2 \in [DOMAIN m2 -> [TableSlots -> TableEntries]]
    <2>1. m2 = [addr \in DOMAIN m2 |-> m2[addr]]
        BY <1>2, ZenonT(30) DEF WithEntry
    <2> QED
        BY <1>2, <1>3, <2>1, Zenon
<1>5. m2[dir] = m[dir]
    BY <1>2, <1>3, Zenon
<1>6. ASSUME NEW w \in VirtualPages
      PROVE  EntryOf(m2, dir, w) = IF w = v THEN entry ELSE EntryOf(m, dir, w)
    <2>1. pdindex(w) \in TableSlots /\ ptindex(w) \in TableSlots
        BY Indices, Zenon
    <2>2. CASE m[dir][pdindex(w)] = Absent
        BY <1>5, <2>2, Zenon DEF EntryOf
    <2>3. CASE m[dir][pdindex(w)] # Absent /\ pdindex(w) # pdindex(v)
        <3>1. m[dir][pdindex(w)][1] \in DOMAIN m /\ m[dir][pdindex(w)][1] # tbl
            BY <1>1, <2>1, <2>3, Zenon DEF SoundTables
        <3>2. w # v
            BY <2>3, Zenon
        <3>3. EntryOf(m2, dir, w) = m2[m[dir][pdindex(w)][1]][ptindex(w)]
            BY <1>5, <2>3, Zenon DEF EntryOf
        <3>4. EntryOf(m, dir, w) = m[m[dir][pdindex(w)][1]][ptindex(w)]
            BY <2>3, Zenon DEF EntryOf
        <3> HIDE DEF tbl
        <3> QED
            BY <1>3, <3>1, <3>2, <3>3, <3>4, Zenon
    <2>4. CASE pdindex(w) = pdindex(v) /\ ptindex(w) # s
        BY <1>3, <1>5, <2>1, <2>4, Zenon DEF EntryOf
    <2>5. CASE pdindex(w) = pdindex(v) /\ ptindex(w) = s
        <3>1. w = v
            BY <2>5, IndicesDiffer, Zenon
        <3> QED
            BY <1>3, <1>5, <3>1, Zenon DEF EntryOf
    <2> QED
        BY <2>2, <2>3, <2>4, <2>5, Zenon
<1>7. \A w \in VirtualPages :
          EntryOf(m2, dir, w) # Absent => EntryOf(m2, dir, w)[1] = Target(w)
    BY <1>6, Zenon DEF SoundTables
<1>8. \A w \in VirtualPages : EntryOf(m, dir, w) # Absent => EntryOf(m2, dir, w) # Absent
    BY <1>6, Zenon
<1>9. DOMAIN m2 = DOMAIN m
    BY <1>3, Zenon
<1>10. SoundTables(m2, dir, ptr)
    <2> HIDE DEF tbl, s
    <2>1. /\ \A addr \in DOMAIN m2 : addr \in Nat /\ addr < ptr
          /\ \A k \in TableSlots : m2[dir][k] # Absent => m2[dir][k][1] \in DOMAIN m2 \ {dir}
          /\ \A k, l \in TableSlots :
                m2[dir][k] # Absent /\ m2[dir][l] # Absent /\ m2[dir][k][1] = m2[dir][l][1]
                    => k = l
        BY <1>5, <1>9 DEF SoundTables
    <2> QED
        BY <1>2, <1>4, <1>7, <1>9, <2>1, Zenon DEF SoundTables
<1> QED
    BY <1>5, <1>8, <1>10, Zenon

\* A new table, empty and behind every page in use, adds no mapping and takes none away.
LEMMA AddTableKeeps ==
    ASSUME NEW m, NEW dir, NEW ptr \in Nat, SoundTables(m, dir, ptr),
           NEW tbl \in Nat, ptr <= tbl, NEW end \in Nat, tbl < end,
           NEW k \in TableSlots, m[dir][k] = Absent,
           NEW m2, m2 = WithTable(m, dir, k, tbl)
    PROVE  /\ SoundTables(m2, dir, end)
           /\ m2[dir][k] # Absent
           /\ \A l \in TableSlots : l # k => m2[dir][l] = m[dir][l]
           /\ \A w \in VirtualPages : EntryOf(m2, dir, w) = EntryOf(m, dir, w)
<1> DEFINE entry == <<tbl, {"READWRITE"}>>
<1>1. /\ dir \in DOMAIN m /\ m \in [DOMAIN m -> [TableSlots -> TableEntries]]
      /\ tbl \notin DOMAIN m /\ tbl # dir
    BY DEF SoundTables
<1>2. entry \in TableEntries /\ entry # Absent /\ entry[1] = tbl
    BY PresentEntry, Zenon
<1> HIDE DEF entry
<1>3. Empty \in [TableSlots -> TableEntries] /\ \A l \in TableSlots : Empty[l] = Absent
    BY Zenon DEF Empty, TableSlots, TableEntries
<1>4. /\ DOMAIN m2 = DOMAIN m \cup {tbl}
      /\ m2[tbl] = Empty
      /\ \A addr \in DOMAIN m : addr # dir => m2[addr] = m[addr]
      /\ m2[dir] = [m[dir] EXCEPT ![k] = entry]
    BY <1>1, Zenon DEF WithTable, Cleared, entry
<1>5. /\ m2[dir] \in [TableSlots -> TableEntries] /\ m2[dir][k] = entry
      /\ \A l \in TableSlots : l # k => m2[dir][l] = m[dir][l]
    <2>1. m[dir] \in [TableSlots -> TableEntries]
        BY <1>1, Zenon
    <2>2. m2[dir] = [m[dir] EXCEPT ![k] = entry]
        BY <1>4, Zenon
    <2> QED
        BY <1>2, <2>1, <2>2, WriteSlot
<1>6. m2 \in [DOMAIN m2 -> [TableSlots -> TableEntries]]
    <2>1. \A addr \in DOMAIN m2 : m2[addr] \in [TableSlots -> TableEntries]
        BY <1>1, <1>3, <1>4, <1>5, Zenon
    <2>2. m2 = [addr \in DOMAIN m2 |-> m2[addr]]
        BY <1>1, Zenon DEF WithTable, Cleared
    <2> QED
        BY <2>1, <2>2, Zenon
<1>7. \A l \in TableSlots : m2[dir][l] # Absent => m2[dir][l][1] \in DOMAIN m2 \ {dir}
    BY <1>1, <1>2, <1>4, <1>5, Zenon DEF SoundTables
<1>8. \A l, j \in TableSlots :
          m2[dir][l] # Absent /\ m2[dir][j] # Absent /\ m2[dir][l][1] = m2[dir][j][1] => l = j
    BY <1>1, <1>2, <1>5 DEF SoundTables
<1>9. ASSUME NEW w \in VirtualPages
      PROVE  EntryOf(m2, dir, w) = EntryOf(m, dir, w)
    <2>1. pdindex(w) \in TableSlots /\ ptindex(w) \in TableSlots
        BY Indices, Zenon
    <2>2. CASE pdindex(w) = k
        BY <1>2, <1>3, <1>4, <1>5, <2>1, <2>2, SMTT(20) DEF EntryOf
    <2>3. CASE pdindex(w) # k
        <3>1. m[dir][pdindex(w)] # Absent => m[dir][pdindex(w)][1] \in DOMAIN m \ {dir}
            BY <2>1, Zenon DEF SoundTables
        <3> QED
            BY <1>4, <1>5, <2>1, <2>3, <3>1, Zenon DEF EntryOf
    <2> QED
        BY <2>2, <2>3, Zenon
<1>10. \A addr \in DOMAIN m2 : addr \in Nat /\ addr < end
    BY <1>4 DEF SoundTables
<1>11. \A w \in VirtualPages :
          EntryOf(m2, dir, w) # Absent => EntryOf(m2, dir, w)[1] = Target(w)
    BY <1>9, Zenon DEF SoundTables
<1>12. dir \in DOMAIN m2 /\ m2[dir][k] # Absent
    BY <1>1, <1>2, <1>4, <1>5, Zenon
<1>13. SoundTables(m2, dir, end)
    BY <1>6, <1>7, <1>8, <1>10, <1>11, <1>12, Zenon DEF SoundTables
<1> QED
    BY <1>5, <1>9, <1>12, <1>13, Zenon

-----------------------------------------------------------------------------
\* A page further up in the early heap is no harm to the tables.
LEMMA SoundGrows ==
    ASSUME NEW m, NEW dir, NEW ptr \in Nat, NEW end \in Nat, ptr <= end,
           SoundTables(m, dir, ptr)
    PROVE  SoundTables(m, dir, end)
<1>1. \A addr \in DOMAIN m : addr \in Nat /\ addr < end
    BY DEF SoundTables
<1> QED
    BY <1>1, Zenon DEF SoundTables

\* The early heap gives a page behind every page that it has given away before.
LEMMA PageTaken ==
    ASSUME NEW user, early_heap_ptr \in Nat, early_kmalloc_pages(user, 1)
    PROVE  /\ ALIGN_UP(early_heap_ptr) \in Nat /\ early_heap_ptr <= ALIGN_UP(early_heap_ptr)
           /\ early_heap_ptr' \in Nat /\ ALIGN_UP(early_heap_ptr) < early_heap_ptr'
<1>1. ALIGN_UP(early_heap_ptr) \in Nat /\ early_heap_ptr <= ALIGN_UP(early_heap_ptr)
    BY AlignUp, Zenon
<1>2. early_heap_ptr' = ALIGN_UP(early_heap_ptr) + 1 * PAGE_SIZE
    BY Zenon DEF early_kmalloc_pages
<1> QED
    BY <1>1, <1>2, EarlyHeapAssumption

\* What map_kern_page_flags does: the tables stay sound, no mapping is lost, the page
\* has a table, and memory is taken only for one that was missing.
MapsPage(v) ==
    /\ SoundTables(mem', kernel_dir', early_heap_ptr') /\ kernel_dir' = kernel_dir
    /\ \A w \in VirtualPages :
          EntryOf(mem, kernel_dir, w) # Absent => EntryOf(mem', kernel_dir', w) # Absent
    /\ mem'[kernel_dir'][pdindex(v)] # Absent
    /\ \A k \in TableSlots : k # pdindex(v) => mem'[kernel_dir'][k] = mem[kernel_dir][k]
    /\ \/ HasTable(v) /\ UNCHANGED heapVars
       \/ ~HasTable(v) /\ early_kmalloc_pages(<<"page_tbl", pdindex(v)>>, 1)

\* map_kern_page_flags maps its page, through a table that was there or a new one.
LEMMA MapStep ==
    ASSUME early_heap_ptr \in Nat, SoundTables(mem, kernel_dir, early_heap_ptr),
           NEW v \in VirtualPages, NEW page \in Nat, page = Target(v),
           NEW flags \in SUBSET {"READWRITE", "CACHEDISABLE"},
           map_kern_page_flags(v, page, flags)
    PROVE  MapsPage(v)
<1> DEFINE entry == <<page, flags>>
           tbl == ALIGN_UP(early_heap_ptr)
           fresh == WithTable(mem, kernel_dir, pdindex(v), tbl)
<1>1. entry \in TableEntries /\ entry # Absent /\ entry[1] = Target(v)
    BY PresentEntry, Zenon
<1>2. pdindex(v) \in TableSlots
    BY Indices, Zenon
<1>3. kernel_dir' = kernel_dir
    BY Zenon DEF map_kern_page_flags
<1>4. CASE HasTable(v)
    <2>1. mem' = WithEntry(mem, kernel_dir, v, entry) /\ UNCHANGED heapVars
        BY <1>4, Zenon DEF HasTable, map_kern_page_flags, set_page_tbl_entry, WithEntry
    <2> HIDE DEF entry
    <2>2. /\ SoundTables(mem', kernel_dir, early_heap_ptr)
          /\ mem'[kernel_dir] = mem[kernel_dir]
          /\ \A w \in VirtualPages :
                EntryOf(mem, kernel_dir, w) # Absent => EntryOf(mem', kernel_dir, w) # Absent
        BY <1>1, <1>4, <2>1, SetEntryKeeps DEF HasTable
    <2>3. early_heap_ptr' = early_heap_ptr
        BY <2>1, Zenon DEF heapVars
    <2> QED
        BY <1>3, <1>4, <2>1, <2>2, <2>3, Zenon DEF MapsPage, HasTable
<1>5. CASE ~HasTable(v)
    <2>1. /\ early_kmalloc_pages(<<"page_tbl", pdindex(v)>>, 1)
          /\ mem' = WithEntry(fresh, kernel_dir, v, entry)
        BY <1>5, Zenon DEF HasTable, map_kern_page_flags, set_page_tbl_entry, set_page_dir_entry,
           WithEntry, WithTable
    <2>2. /\ tbl \in Nat /\ early_heap_ptr <= tbl
          /\ early_heap_ptr' \in Nat /\ tbl < early_heap_ptr'
        BY <2>1, PageTaken, Zenon
    <2> HIDE DEF entry, tbl
    <2>3. /\ SoundTables(fresh, kernel_dir, early_heap_ptr')
          /\ fresh[kernel_dir][pdindex(v)] # Absent
          /\ \A l \in TableSlots : l # pdindex(v) => fresh[kernel_dir][l] = mem[kernel_dir][l]
          /\ \A w \in VirtualPages :
                EntryOf(fresh, kernel_dir, w) = EntryOf(mem, kernel_dir, w)
        BY <1>2, <1>5, <2>2, AddTableKeeps, SMTT(20) DEF HasTable
    <2> HIDE DEF fresh
    <2>4. /\ SoundTables(mem', kernel_dir, early_heap_ptr')
          /\ mem'[kernel_dir] = fresh[kernel_dir]
          /\ \A w \in VirtualPages :
                EntryOf(fresh, kernel_dir, w) # Absent => EntryOf(mem', kernel_dir, w) # Absent
        BY <1>1, <2>1, <2>2, <2>3, SetEntryKeeps
    <2> QED
        BY <1>3, <1>5, <2>1, <2>3, <2>4, Zenon DEF MapsPage
<1> QED
    BY <1>4, <1>5, Zenon

-----------------------------------------------------------------------------
(***************************************************************************)
(* Acpi: what is found in sound tables.                                    *)
(***************************************************************************)
MadtEntries == LocalApics \cup IoApics \cup Overrides \cup OtherEntries

\* What parse_apic_table keeps of a MADT.
Found == [cpus : Seq(ApicIds), local_apic : Nat, io_apic : Nat, gsi_base : Nat,
          overrides : Seq(Overrides)]

\* The type of an entry says what it has.
LEMMA EntryKinds ==
    ASSUME NEW entry \in MadtEntries
    PROVE  /\ entry.type = "LOCAL_APIC" => entry.apic_id \in ApicIds
           /\ entry.type = "IO_APIC" => entry.page \in Nat /\ entry.base \in Nat
           /\ entry.type = "INTERRUPT_OVERRIDE" => entry \in Overrides
BY DEF MadtEntries, LocalApics, IoApics, Overrides, OtherEntries

\* What an entry makes of what was found before it.
LEMMA ParseEntry ==
    ASSUME NEW found \in Found, NEW entry \in MadtEntries
    PROVE  LET then == parse_entry(found, entry) IN
           /\ then \in Found
           /\ then.local_apic = found.local_apic
           /\ then.cpus = IF entry.type = "LOCAL_APIC" /\ Len(found.cpus) < MAX_CPUS
                          THEN Append(found.cpus, entry.apic_id) ELSE found.cpus
           /\ then.overrides =
                IF entry.type = "INTERRUPT_OVERRIDE" /\ Len(found.overrides) < MAX_IOAPIC_OVERRIDES
                THEN Append(found.overrides, entry) ELSE found.overrides
           /\ <<then.io_apic, then.gsi_base>> =
                IF entry.type = "IO_APIC" THEN <<entry.page, entry.base>>
                ELSE <<found.io_apic, found.gsi_base>>
<1> DEFINE then == parse_entry(found, entry)
<1>1. CASE entry.type = "LOCAL_APIC"
    <2>1. then = parse_processor_table(found, entry) /\ entry.apic_id \in ApicIds
        BY <1>1, EntryKinds, Zenon DEF parse_entry
    <2>2. found.cpus \in Seq(ApicIds) /\ Append(found.cpus, entry.apic_id) \in Seq(ApicIds)
        BY <2>1 DEF Found
    <2> QED
        BY <1>1, <2>1, <2>2 DEF Found, parse_processor_table
<1>2. CASE entry.type = "IO_APIC"
    BY <1>2, EntryKinds DEF Found, parse_entry, parse_io_table
<1>3. CASE entry.type = "INTERRUPT_OVERRIDE"
    <2>1. then = parse_interrupt_override(found, entry) /\ entry \in Overrides
        BY <1>3, EntryKinds DEF parse_entry
    <2>2. /\ found.overrides \in Seq(Overrides)
          /\ Append(found.overrides, entry) \in Seq(Overrides)
        BY <2>1 DEF Found
    <2> QED
        BY <1>3, <2>1, <2>2 DEF Found, parse_interrupt_override
<1>4. CASE entry.type \notin {"LOCAL_APIC", "IO_APIC", "INTERRUPT_OVERRIDE"}
    BY <1>4 DEF parse_entry
<1> QED
    BY <1>1, <1>2, <1>3, <1>4

\* The loop over the entries is well defined.
LEMMA EntrySteps ==
    ASSUME NEW start \in Found, NEW entries \in Seq(MadtEntries)
    PROVE  /\ AfterEntries(start, entries, 0) = start
           /\ \A n \in 0 .. Len(entries) : AfterEntries(start, entries, n) \in Found
           /\ \A n \in 0 .. Len(entries) - 1 :
                 AfterEntries(start, entries, n + 1) =
                     parse_entry(AfterEntries(start, entries, n), entries[n + 1])
<1> DEFINE N == Len(entries)
           Pass(n, d) == IF n < N THEN parse_entry(d, entries[n + 1]) ELSE d
           g == [n \in Nat |-> [d \in Found |-> Pass(n, d)]]
           after[n \in 0 .. N] == IF n = 0 THEN start ELSE parse_entry(after[n - 1], entries[n])
<1>1. N \in Nat
    OBVIOUS
<1>2. g \in [Nat -> [Found -> Found]]
    <2>1. ASSUME NEW n \in Nat, NEW d \in Found
          PROVE  Pass(n, d) \in Found
        <3>1. n < N => entries[n + 1] \in MadtEntries
            OBVIOUS
        <3>2. CASE n < N
            BY <3>1, <3>2, ParseEntry, Zenon
        <3>3. CASE ~(n < N)
            BY <3>3, Zenon
        <3> QED
            BY <3>2, <3>3, Zenon
    <2> HIDE DEF Pass
    <2> QED
        BY <2>1, Zenon
<1>3. PICK f \in [Nat -> Found] : Follows(f, start, g)
    <2> HIDE DEF g
    <2> QED
        BY <1>2, Recursion, Zenon
<1>4. \A k \in Nat : f[k + 1] = Pass(k, f[k])
    <2> HIDE DEF Pass
    <2> QED
        BY <1>3 DEF Follows
<1> HIDE DEF g
<1> DEFINE h == [n \in 0 .. N |-> f[n]]
<1>5. h = [n \in 0 .. N |-> IF n = 0 THEN start ELSE parse_entry(h[n - 1], entries[n])]
    <2>1. ASSUME NEW n \in 0 .. N, n # 0
          PROVE  h[n] = parse_entry(h[n - 1], entries[n])
        <3>1. n - 1 \in Nat /\ n - 1 \in 0 .. N /\ n - 1 < N /\ (n - 1) + 1 = n
            BY <1>1, <2>1
        <3>2. f[n] = Pass(n - 1, f[n - 1])
            <4> HIDE DEF Pass
            <4> QED
                BY <1>4, <3>1
        <3> QED
            BY <3>1, <3>2, Zenon
    <2>2. h[0] = start
        BY <1>1, <1>3 DEF Follows
    <2> QED
        BY <2>1, <2>2, Zenon
<1>6. after = [n \in 0 .. N |-> IF n = 0 THEN start ELSE parse_entry(after[n - 1], entries[n])]
    BY <1>5, Zenon
<1>7. \A n : AfterEntries(start, entries, n) = after[n]
    BY Zenon DEF AfterEntries
<1> HIDE DEF after
<1>8. after[0] = start
    BY <1>1, <1>6
<1>9. ASSUME NEW n \in 0 .. N - 1
      PROVE  after[n + 1] = parse_entry(after[n], entries[n + 1])
    <2>1. n + 1 \in 0 .. N /\ n + 1 # 0 /\ (n + 1) - 1 = n
        BY <1>1
    <2> QED
        BY <1>6, <2>1, Zenon
<1> DEFINE S == {n \in Nat : n <= N => after[n] \in Found}
<1>10. S = Nat
    <2>1. 0 \in S
        BY <1>8
    <2>2. ASSUME NEW n \in S
          PROVE  n + 1 \in S
        <3>1. CASE n < N
            <4>1. n \in 0 .. N - 1 /\ after[n] \in Found /\ entries[n + 1] \in MadtEntries
                BY <1>1, <3>1
            <4>2. after[n + 1] \in Found
                BY <1>9, <4>1, ParseEntry, Zenon
            <4> QED
                BY <4>2
        <3>2. CASE ~(n < N)
            BY <1>1, <3>2
        <3> QED
            BY <3>1, <3>2
    <2>3. S \in SUBSET Nat
        BY Zenon
    <2> HIDE DEF S
    <2> QED
        BY <2>1, <2>2, <2>3, Induction, Zenon
<1>11. \A n \in 0 .. N : after[n] \in Found
    BY <1>1, <1>10
<1> QED
    BY <1>7, <1>8, <1>9, <1>11, Zenon

\* What the first n entries leave in the lists, and where the last I/O APIC among them is.
CpusFrom(found, entries, n) ==
    /\ Len(found.cpus) <= MAX_CPUS
    /\ \A i \in DOMAIN found.cpus : \E m \in Of(entries, "LOCAL_APIC") :
          m <= n /\ found.cpus[i] = entries[m].apic_id
    /\ \A i, j \in DOMAIN found.cpus : found.cpus[i] = found.cpus[j] => i = j

OverridesFrom(found, entries, n) ==
    /\ \A i \in DOMAIN found.overrides : \E m \in Of(entries, "INTERRUPT_OVERRIDE") :
          m <= n /\ found.overrides[i] = entries[m]
    /\ \A i, j \in DOMAIN found.overrides : found.overrides[i] = found.overrides[j] => i = j

IoApicFrom(found, entries, n) ==
    \A io \in Of(entries, "IO_APIC") :
        io <= n /\ (\A m \in Of(entries, "IO_APIC") : m <= n => m <= io)
            => found.io_apic = entries[io].page /\ found.gsi_base = entries[io].base

\* An element that is appended to a list of others keeps it free of duplicates and adds
\* itself to its elements.
LEMMA AppendOnce ==
    ASSUME NEW T, NEW list \in Seq(T), NEW x \in T, NEW then, then = Append(list, x),
           \A i \in DOMAIN list : list[i] # x,
           \A i, j \in DOMAIN list : list[i] = list[j] => i = j
    PROVE  /\ \A i, j \in DOMAIN then : then[i] = then[j] => i = j
           /\ \A i \in DOMAIN then : \/ i \in DOMAIN list /\ then[i] = list[i]
                                     \/ then[i] = x
OBVIOUS

LEMMA CpusStep ==
    ASSUME NEW entries \in Seq(MadtEntries), NEW found \in Found,
           \A k, m \in Of(entries, "LOCAL_APIC") : entries[k].apic_id = entries[m].apic_id => k = m,
           NEW n \in Nat, n < Len(entries), CpusFrom(found, entries, n)
    PROVE  CpusFrom(parse_entry(found, entries[n + 1]), entries, n + 1)
<1> DEFINE entry == entries[n + 1]
           then == parse_entry(found, entry)
<1>1. n + 1 \in DOMAIN entries /\ entry \in MadtEntries
    OBVIOUS
<1>2. Of(entries, "LOCAL_APIC") \subseteq Nat
    BY DEF Of
<1>3. then.cpus = IF entry.type = "LOCAL_APIC" /\ Len(found.cpus) < MAX_CPUS
                  THEN Append(found.cpus, entry.apic_id) ELSE found.cpus
    BY <1>1, ParseEntry, Zenon
<1> HIDE DEF then
<1>4. \A m \in Nat : m <= n => m <= n + 1 /\ m # n + 1
    OBVIOUS
<1>5. CASE entry.type = "LOCAL_APIC" /\ Len(found.cpus) < MAX_CPUS
    <2>1. then.cpus = Append(found.cpus, entry.apic_id)
        BY <1>3, <1>5, Zenon
    <2>2. n + 1 \in Of(entries, "LOCAL_APIC") /\ entry.apic_id \in ApicIds
        BY <1>1, <1>5, EntryKinds, Zenon DEF Of
    <2>3. found.cpus \in Seq(ApicIds)
        BY DEF Found
    <2>4. \A i \in DOMAIN found.cpus : found.cpus[i] # entry.apic_id
        BY <1>2, <1>4, <2>2, Zenon DEF CpusFrom
    <2>5. /\ \A i, j \in DOMAIN then.cpus : then.cpus[i] = then.cpus[j] => i = j
          /\ \A i \in DOMAIN then.cpus :
                \/ i \in DOMAIN found.cpus /\ then.cpus[i] = found.cpus[i]
                \/ then.cpus[i] = entry.apic_id
        <3> DEFINE old == found.cpus
                   new == then.cpus
                   x == entry.apic_id
        <3>1. /\ old \in Seq(ApicIds) /\ x \in ApicIds /\ new = Append(old, x)
              /\ \A i \in DOMAIN old : old[i] # x
              /\ \A i, j \in DOMAIN old : old[i] = old[j] => i = j
            BY <2>1, <2>2, <2>3, <2>4, Zenon DEF CpusFrom
        <3> HIDE DEF old, new, x
        <3>2. /\ \A i, j \in DOMAIN new : new[i] = new[j] => i = j
              /\ \A i \in DOMAIN new : (i \in DOMAIN old /\ new[i] = old[i]) \/ new[i] = x
            BY <3>1, AppendOnce
        <3> QED
            BY <3>2, Zenon DEF old, new, x
    <2>6. Len(then.cpus) <= MAX_CPUS
        BY <1>5, <2>1, <2>2, <2>3, BootAssumption, SmpAssumption
    <2>7. ASSUME NEW i \in DOMAIN then.cpus
          PROVE  \E m \in Of(entries, "LOCAL_APIC") :
                    m <= n + 1 /\ then.cpus[i] = entries[m].apic_id
        <3>1. n + 1 <= n + 1
            OBVIOUS
        <3>2. CASE i \in DOMAIN found.cpus /\ then.cpus[i] = found.cpus[i]
            BY <1>2, <1>4, <3>2, Zenon DEF CpusFrom
        <3>3. CASE then.cpus[i] = entry.apic_id
            BY <2>2, <3>1, <3>3, Zenon
        <3> QED
            BY <2>5, <3>2, <3>3, Zenon
    <2> QED
        BY <2>5, <2>6, <2>7, Zenon DEF CpusFrom, then
<1>6. CASE ~(entry.type = "LOCAL_APIC" /\ Len(found.cpus) < MAX_CPUS)
    <2>1. then.cpus = found.cpus
        BY <1>3, <1>6, Zenon
    <2> QED
        BY <1>2, <1>4, <2>1, Zenon DEF CpusFrom, then
<1> QED
    BY <1>5, <1>6, Zenon

LEMMA OverridesStep ==
    ASSUME NEW entries \in Seq(MadtEntries), NEW found \in Found,
           \A k, m \in Of(entries, "INTERRUPT_OVERRIDE") : entries[k] = entries[m] => k = m,
           NEW n \in Nat, n < Len(entries), OverridesFrom(found, entries, n)
    PROVE  OverridesFrom(parse_entry(found, entries[n + 1]), entries, n + 1)
<1> DEFINE entry == entries[n + 1]
           then == parse_entry(found, entry)
           taken == entry.type = "INTERRUPT_OVERRIDE"
                    /\ Len(found.overrides) < MAX_IOAPIC_OVERRIDES
<1>1. n + 1 \in DOMAIN entries /\ entry \in MadtEntries
    OBVIOUS
<1>2. Of(entries, "INTERRUPT_OVERRIDE") \subseteq Nat
    BY DEF Of
<1>3. then.overrides = IF taken THEN Append(found.overrides, entry) ELSE found.overrides
    BY <1>1, ParseEntry, Zenon
<1> HIDE DEF then
<1>4. \A m \in Nat : m <= n => m <= n + 1 /\ m # n + 1
    OBVIOUS
<1>5. CASE taken
    <2>1. then.overrides = Append(found.overrides, entry)
        BY <1>3, <1>5, Zenon
    <2>2. n + 1 \in Of(entries, "INTERRUPT_OVERRIDE") /\ entry \in Overrides
        BY <1>1, <1>5, EntryKinds, Zenon DEF Of
    <2>3. found.overrides \in Seq(Overrides)
        BY DEF Found
    <2>4. \A i \in DOMAIN found.overrides : found.overrides[i] # entry
        BY <1>2, <1>4, <2>2, Zenon DEF OverridesFrom
    <2>5. /\ \A i, j \in DOMAIN then.overrides : then.overrides[i] = then.overrides[j] => i = j
          /\ \A i \in DOMAIN then.overrides :
                \/ i \in DOMAIN found.overrides /\ then.overrides[i] = found.overrides[i]
                \/ then.overrides[i] = entry
        <3> DEFINE old == found.overrides
                   new == then.overrides
                   x == entry
        <3>1. /\ old \in Seq(Overrides) /\ x \in Overrides /\ new = Append(old, x)
              /\ \A i \in DOMAIN old : old[i] # x
              /\ \A i, j \in DOMAIN old : old[i] = old[j] => i = j
            BY <2>1, <2>2, <2>3, <2>4, Zenon DEF OverridesFrom
        <3> HIDE DEF old, new, x
        <3>2. /\ \A i, j \in DOMAIN new : new[i] = new[j] => i = j
              /\ \A i \in DOMAIN new : (i \in DOMAIN old /\ new[i] = old[i]) \/ new[i] = x
            BY <3>1, AppendOnce
        <3> QED
            BY <3>2, Zenon DEF old, new, x
    <2>6. ASSUME NEW i \in DOMAIN then.overrides
          PROVE  \E m \in Of(entries, "INTERRUPT_OVERRIDE") :
                    m <= n + 1 /\ then.overrides[i] = entries[m]
        <3>1. n + 1 <= n + 1
            OBVIOUS
        <3>2. CASE i \in DOMAIN found.overrides /\ then.overrides[i] = found.overrides[i]
            BY <1>2, <1>4, <3>2, Zenon DEF OverridesFrom
        <3>3. CASE then.overrides[i] = entry
            BY <2>2, <3>1, <3>3, Zenon
        <3> QED
            BY <2>5, <3>2, <3>3, Zenon
    <2> QED
        BY <2>5, <2>6, Zenon DEF OverridesFrom, then
<1>6. CASE ~taken
    <2>1. then.overrides = found.overrides
        BY <1>3, <1>6, Zenon
    <2> QED
        BY <1>2, <1>4, <2>1, Zenon DEF OverridesFrom, then
<1> QED
    BY <1>5, <1>6, Zenon

LEMMA IoApicStep ==
    ASSUME NEW entries \in Seq(MadtEntries), NEW found \in Found,
           NEW n \in Nat, n < Len(entries), IoApicFrom(found, entries, n)
    PROVE  IoApicFrom(parse_entry(found, entries[n + 1]), entries, n + 1)
<1> DEFINE entry == entries[n + 1]
           then == parse_entry(found, entry)
<1>1. n + 1 \in DOMAIN entries /\ entry \in MadtEntries
    OBVIOUS
<1>2. Of(entries, "IO_APIC") \subseteq Nat
    BY DEF Of
<1>3. /\ entry.type = "IO_APIC" => then.io_apic = entry.page /\ then.gsi_base = entry.base
      /\ entry.type # "IO_APIC" => then.io_apic = found.io_apic /\ then.gsi_base = found.gsi_base
    BY <1>1, ParseEntry
<1> HIDE DEF then
<1>4. SUFFICES ASSUME NEW io \in Of(entries, "IO_APIC"), io <= n + 1,
                      \A m \in Of(entries, "IO_APIC") : m <= n + 1 => m <= io
               PROVE  then.io_apic = entries[io].page /\ then.gsi_base = entries[io].base
    BY Zenon DEF IoApicFrom, then
<1>5. CASE entry.type = "IO_APIC"
    <2>1. n + 1 \in Of(entries, "IO_APIC")
        BY <1>1, <1>5, Zenon DEF Of
    <2>2. io = n + 1
        BY <1>2, <1>4, <2>1
    <2> QED
        BY <1>3, <1>5, <2>2, Zenon
<1>6. CASE entry.type # "IO_APIC"
    <2>1. io # n + 1
        BY <1>4, <1>6, Zenon DEF Of
    <2>2. io <= n /\ \A m \in Of(entries, "IO_APIC") : m <= n => m <= io
        BY <1>2, <1>4, <2>1
    <2> QED
        BY <1>3, <1>6, <2>2, Zenon DEF IoApicFrom
<1> QED
    BY <1>5, <1>6, Zenon

\* What the whole loop leaves.
LEMMA EntriesFound ==
    ASSUME NEW entries \in Seq(MadtEntries), NEW start \in Found,
           start.cpus = <<>>, start.overrides = <<>>,
           \A k, m \in Of(entries, "LOCAL_APIC") : entries[k].apic_id = entries[m].apic_id => k = m,
           \A k, m \in Of(entries, "INTERRUPT_OVERRIDE") : entries[k] = entries[m] => k = m,
           NEW found, found = AfterEntries(start, entries, Len(entries))
    PROVE  /\ found \in Found /\ found.local_apic = start.local_apic
           /\ CpusFrom(found, entries, Len(entries))
           /\ OverridesFrom(found, entries, Len(entries))
           /\ IoApicFrom(found, entries, Len(entries))
<1> DEFINE N == Len(entries)
           after(n) == AfterEntries(start, entries, n)
           Good(n) == /\ after(n).local_apic = start.local_apic
                      /\ CpusFrom(after(n), entries, n)
                      /\ OverridesFrom(after(n), entries, n)
                      /\ IoApicFrom(after(n), entries, n)
           S == {n \in Nat : n <= N => Good(n)}
<1>1. N \in Nat
    OBVIOUS
<1>2. /\ after(0) = start
      /\ \A n \in 0 .. N : after(n) \in Found
      /\ \A n \in 0 .. N - 1 : after(n + 1) = parse_entry(after(n), entries[n + 1])
    BY EntrySteps, Zenon
<1> HIDE DEF after
<1>3. Good(0)
    <2>1. DOMAIN start.cpus = {} /\ DOMAIN start.overrides = {} /\ Len(start.cpus) <= MAX_CPUS
        BY BootAssumption, SmpAssumption
    <2>2. \A io \in Of(entries, "IO_APIC") : ~(io <= 0)
        BY DEF Of
    <2> QED
        BY <1>2, <2>1, <2>2, Zenon DEF CpusFrom, OverridesFrom, IoApicFrom
<1>4. ASSUME NEW n \in Nat, n < N, Good(n)
      PROVE  Good(n + 1)
    <2>1. n \in 0 .. N /\ n \in 0 .. N - 1
        BY <1>1, <1>4
    <2>2. after(n) \in Found /\ after(n + 1) = parse_entry(after(n), entries[n + 1])
        BY <1>2, <2>1, Zenon
    <2>3. entries[n + 1] \in MadtEntries
        BY <1>4
    <2>4. after(n + 1).local_apic = start.local_apic
        <3>1. \A d \in Found : parse_entry(d, entries[n + 1]).local_apic = d.local_apic
            BY <2>3, ParseEntry
        <3> QED
            BY <1>4, <2>2, <3>1, Zenon
    <2>5. CpusFrom(after(n + 1), entries, n + 1)
        BY <1>4, <2>2, CpusStep, Zenon
    <2>6. OverridesFrom(after(n + 1), entries, n + 1)
        BY <1>4, <2>2, OverridesStep, Zenon
    <2>7. IoApicFrom(after(n + 1), entries, n + 1)
        BY <1>4, <2>2, IoApicStep, Zenon
    <2> QED
        BY <2>4, <2>5, <2>6, <2>7, Zenon
<1> HIDE DEF Good
<1>5. S = Nat
    <2>1. 0 \in S
        BY <1>3
    <2>2. ASSUME NEW n \in S
          PROVE  n + 1 \in S
        BY <1>1, <1>4
    <2>3. S \in SUBSET Nat
        BY Zenon
    <2> HIDE DEF S
    <2> QED
        BY <2>1, <2>2, <2>3, Induction, Zenon
<1>6. Good(N) /\ N \in 0 .. N
    BY <1>1, <1>5
<1> QED
    BY <1>2, <1>6, Zenon DEF Good, after

\* What the kernel needs of what init_acpi finds.
SoundFound(found) ==
    LET pin(i) == found.overrides[i].interrupt - found.gsi_base
    IN  /\ found.cpus \in IdLists
        /\ OutsideKernel(found.local_apic) /\ OutsideKernel(found.io_apic)
        /\ pdindex(found.local_apic) = pdindex(found.io_apic)
        /\ found.overrides \in Seq(Overrides) /\ found.gsi_base \in Nat
        /\ \A i \in DOMAIN found.overrides : pin(i) \in IoApicPins
        /\ \A i, j \in DOMAIN found.overrides :
              pin(i) = pin(j) \/ found.overrides[i].source = found.overrides[j].source => i = j

\* A sound MADT is read as such: the ids and the overrides that fit are in the lists, once
\* each, and the I/O APIC is the last one.
LEMMA MadtParsed ==
    ASSUME NEW madt, SoundMadt(madt), NEW found, found = parse_apic_table(NothingFound, madt)
    PROVE  SoundFound(found)
<1> DEFINE entries == madt.entries
           local == Of(entries, "LOCAL_APIC")
           over == Of(entries, "INTERRUPT_OVERRIDE")
           start == [NothingFound EXCEPT !.cpus = [i \in DOMAIN @ |-> 0], !.overrides = <<>>,
                                         !.local_apic = madt.local_apic]
<1>1. /\ entries \in Seq(MadtEntries)
      /\ \A n, m \in local : entries[n].apic_id = entries[m].apic_id => n = m
      /\ OutsideKernel(madt.local_apic)
    BY Zenon DEF SoundMadt, MadtEntries
<1>2. PICK io \in Of(entries, "IO_APIC") :
        /\ \A n \in Of(entries, "IO_APIC") : n <= io
        /\ OutsideKernel(entries[io].page)
        /\ pdindex(entries[io].page) = pdindex(madt.local_apic)
        /\ \A n \in over : entries[n].interrupt - entries[io].base \in IoApicPins
        /\ \A n, m \in over :
              entries[n].interrupt - entries[io].base = entries[m].interrupt - entries[io].base
              \/ entries[n].source = entries[m].source => n = m
    BY Zenon DEF SoundMadt
<1>3. start \in Found /\ start.cpus = <<>> /\ start.overrides = <<>>
      /\ start.local_apic = madt.local_apic
    <2>1. madt.local_apic \in Nat
        BY <1>1 DEF OutsideKernel
    <2>2. NothingFound \in Found /\ NothingFound.cpus = <<>>
        BY DEF NothingFound, Found
    <2>3. [i \in DOMAIN NothingFound.cpus |-> 0] = <<>>
        BY <2>2
    <2>4. start = [NothingFound EXCEPT !.cpus = <<>>, !.overrides = <<>>,
                                       !.local_apic = madt.local_apic]
        BY <2>3, Zenon
    <2>5. <<>> \in Seq(ApicIds) /\ <<>> \in Seq(Overrides)
        OBVIOUS
    <2> HIDE DEF start
    <2> QED
        BY <2>1, <2>2, <2>4, <2>5 DEF Found
<1>4. found = AfterEntries(start, entries, Len(entries))
    BY Zenon DEF parse_apic_table
<1> HIDE DEF start
<1>5. \A n, m \in over : entries[n] = entries[m] => n = m
    BY <1>2, Zenon
<1>6. /\ found \in Found /\ found.local_apic = madt.local_apic
      /\ CpusFrom(found, entries, Len(entries))
      /\ OverridesFrom(found, entries, Len(entries))
      /\ IoApicFrom(found, entries, Len(entries))
    BY <1>1, <1>3, <1>4, <1>5, EntriesFound, Zenon
<1>7. found.cpus \in IdLists
    <2>1. found.cpus \in Seq(ApicIds) /\ Len(found.cpus) <= MAX_CPU_COUNT
        BY <1>6, BootAssumption DEF Found, CpusFrom
    <2>2. DOMAIN found.cpus = 1 .. Len(found.cpus)
        BY <2>1
    <2> QED
        BY <1>6, <2>1, <2>2, Zenon DEF IdLists, CpusFrom
<1>8. found.io_apic = entries[io].page /\ found.gsi_base = entries[io].base
    <2>1. io \in DOMAIN entries /\ io <= Len(entries)
        BY <1>1 DEF Of
    <2> QED
        BY <1>2, <1>6, <2>1, Zenon DEF IoApicFrom
<1>9. \A i \in DOMAIN found.overrides : \E m \in over : found.overrides[i] = entries[m]
    BY <1>6, Zenon DEF OverridesFrom
<1>10. found.overrides \in Seq(Overrides) /\ found.gsi_base \in Nat
    BY <1>6 DEF Found
<1>11. \A i, j \in DOMAIN found.overrides : found.overrides[i] = found.overrides[j] => i = j
    BY <1>6, Zenon DEF OverridesFrom
<1>12. ASSUME NEW i \in DOMAIN found.overrides, NEW j \in DOMAIN found.overrides
       PROVE  /\ found.overrides[i].interrupt - found.gsi_base \in IoApicPins
              /\ \/ found.overrides[i].interrupt - found.gsi_base
                        = found.overrides[j].interrupt - found.gsi_base
                 \/ found.overrides[i].source = found.overrides[j].source
                 => i = j
    <2>1. PICK n \in over : found.overrides[i] = entries[n]
        BY <1>9, Zenon
    <2>2. PICK m \in over : found.overrides[j] = entries[m]
        BY <1>9, Zenon
    <2>3. n = m => i = j
        BY <1>11, <2>1, <2>2, Zenon
    <2>4. entries[n].interrupt - entries[io].base \in IoApicPins
        BY <1>2, Zenon
    <2>5. \/ entries[n].interrupt - entries[io].base = entries[m].interrupt - entries[io].base
          \/ entries[n].source = entries[m].source
          => n = m
        BY <1>2, Zenon
    <2> HIDE DEF entries, over
    <2> QED
        BY <1>8, <2>1, <2>2, <2>3, <2>4, <2>5, Zenon
<1> HIDE DEF entries, local, over
<1> QED
    BY <1>1, <1>2, <1>6, <1>7, <1>8, <1>10, <1>12, Zenon DEF SoundFound

\* Nothing found is sound: page 0 is below the kernel.
LEMMA NothingIsSound == SoundFound(NothingFound)
<1>1. ENTRIES * ENTRIES \in Nat /\ ENTRIES * ENTRIES > 0 /\ KERN_PAGE \in Nat /\ KERN_PAGE > 0
    BY PagingAssumption
<1>2. OutsideKernel(0)
    BY <1>1 DEF OutsideKernel
<1>3. <<>> \in IdLists
    BY SmpAssumption DEF IdLists
<1>4. /\ NothingFound.cpus = <<>> /\ NothingFound.overrides = <<>>
      /\ NothingFound.local_apic = 0 /\ NothingFound.io_apic = 0 /\ NothingFound.gsi_base = 0
    BY DEF NothingFound
<1>5. <<>> \in Seq(Overrides) /\ DOMAIN <<>> = {}
    OBVIOUS
<1> QED
    BY <1>2, <1>3, <1>4, <1>5 DEF SoundFound

\* What init_acpi finds in the tables of a machine is what the kernel needs: the two loops
\* over the tables and over the entries of the MADT keep each CPU, source and pin once, no
\* more CPUs than MAX_CPU_COUNT, and the registers of the APICs outside of the kernel.
THEOREM AcpiParsed ==
    ASSUME NEW f \in Firmware
    PROVE  SoundFound(parse_acpi_tables(f.tables))
<1> DEFINE tables == f.tables
           N == Len(tables)
           Madt(n) == tables[n].signature = "APIC"
           madt == tables[CHOOSE m \in 1 .. N : Madt(m)]
           parsed == parse_apic_table(NothingFound, madt)
           first(n) == IF \E m \in 1 .. n : Madt(m) THEN parsed ELSE NothingFound
           h == [n \in 0 .. N |-> first(n)]
           after[n \in 0 .. N] ==
               IF n = 0 THEN NothingFound ELSE parse_table(after[n - 1], tables[n])
<1>1. /\ N \in Nat
      /\ \A n, m \in 1 .. N : Madt(n) /\ Madt(m) => n = m
      /\ \A n \in 1 .. N : Madt(n) => SoundMadt(tables[n])
    BY FirmwareAssumption, Zenon
<1>2. h[0] = NothingFound
    <2>1. 0 \in 0 .. N /\ ~ \E m \in 1 .. 0 : Madt(m)
        BY <1>1
    <2> HIDE DEF Madt
    <2> QED
        BY <2>1, Zenon
<1>3. ASSUME NEW n \in 1 .. N
      PROVE  h[n] = parse_table(h[n - 1], tables[n])
    <2>1. n \in 0 .. N /\ n - 1 \in 0 .. N /\ n \in 1 .. n
          /\ 1 .. n = (1 .. n - 1) \cup {n} /\ 1 .. n \subseteq 1 .. N /\ n \notin 1 .. n - 1
        BY <1>1
    <2> HIDE DEF parsed
    <2>2. CASE Madt(n)
        <3>1. ~ \E m \in 1 .. n - 1 : Madt(m)
            BY <1>1, <2>1, <2>2, Zenon
        <3>2. h[n - 1] = NothingFound /\ h[n] = parsed
            BY <2>1, <2>2, <3>1, Zenon
        <3>3. parse_table(NothingFound, tables[n]) = parse_apic_table(NothingFound, tables[n])
            BY <2>2, Zenon DEF parse_table
        <3>4. tables[n] = madt
            BY <1>1, <2>2, Zenon
        <3> QED
            BY <3>2, <3>3, <3>4, Zenon DEF parsed
    <2>3. CASE ~Madt(n)
        <3>1. (\E m \in 1 .. n - 1 : Madt(m)) <=> (\E m \in 1 .. n : Madt(m))
            BY <2>1, <2>3, Zenon
        <3>2. h[n - 1] = h[n]
            BY <2>1, <3>1, Zenon
        <3> QED
            BY <2>3, <3>2, Zenon DEF parse_table
    <2> QED
        BY <2>2, <2>3, Zenon
<1>4. \A n \in 0 .. N : n # 0 => n \in 1 .. N
    BY <1>1
<1>5. \E a : a = [n \in 0 .. N |-> IF n = 0 THEN NothingFound ELSE parse_table(a[n - 1], tables[n])]
    <2> DEFINE b == [n \in 0 .. N |-> IF n = 0 THEN NothingFound
                                      ELSE parse_table(h[n - 1], tables[n])]
    <2>1. DOMAIN h = 0 .. N /\ DOMAIN b = 0 .. N
        BY Zenon
    <2>2. \A n \in 0 .. N : h[n] = b[n]
        <3> HIDE DEF h
        <3> QED
            BY <1>2, <1>3, <1>4, Zenon
    <2>3. h = b
        <3>1. h = [n \in 0 .. N |-> h[n]]
            <4> HIDE DEF first
            <4> QED
                BY Zenon
        <3>2. b = [n \in 0 .. N |-> b[n]]
            <4> HIDE DEF h
            <4> QED
                BY Zenon
        <3> HIDE DEF h, b
        <3> QED
            BY <2>2, <3>1, <3>2, Zenon
    <2> HIDE DEF h
    <2> QED
        BY <2>3, Zenon
<1>6. after = [n \in 0 .. N |-> IF n = 0 THEN NothingFound ELSE parse_table(after[n - 1], tables[n])]
    BY <1>5, Zenon
<1>7. parse_acpi_tables(tables) = after[N]
    BY Zenon DEF parse_acpi_tables
<1> HIDE DEF after, h
<1> DEFINE S == {n \in Nat : n <= N => after[n] = h[n]}
<1>8. S = Nat
    <2>1. 0 \in S
        BY <1>1, <1>2, <1>6
    <2>2. ASSUME NEW n \in S
          PROVE  n + 1 \in S
        <3>1. CASE n < N
            <4>1. n + 1 \in 0 .. N /\ n + 1 # 0 /\ (n + 1) - 1 = n /\ n + 1 \in 1 .. N /\ n <= N
                BY <1>1, <3>1
            <4>2. after[n + 1] = parse_table(after[n], tables[n + 1])
                BY <1>6, <4>1, Zenon
            <4>3. h[n + 1] = parse_table(h[n], tables[n + 1])
                BY <1>3, <4>1, Zenon
            <4>4. after[n + 1] = h[n + 1]
                BY <4>1, <4>2, <4>3, Zenon
            <4> QED
                BY <4>4
        <3>2. CASE ~(n < N)
            BY <1>1, <3>2
        <3> QED
            BY <3>1, <3>2
    <2>3. S \in SUBSET Nat
        BY Zenon
    <2> HIDE DEF S
    <2> QED
        BY <2>1, <2>2, <2>3, Induction, Zenon
<1>9. N \in 0 .. N /\ after[N] = h[N]
    BY <1>1, <1>8
<1>10. CASE \E m \in 1 .. N : Madt(m)
    <2>1. h[N] = parsed
        BY <1>9, <1>10, Zenon DEF h
    <2>2. SoundMadt(madt)
        BY <1>1, <1>10, Zenon
    <2>3. SoundFound(parsed)
        <3> HIDE DEF madt
        <3> QED
            BY <2>2, MadtParsed, Zenon
    <2> QED
        BY <1>7, <1>9, <2>1, <2>3, Zenon
<1>11. CASE ~ \E m \in 1 .. N : Madt(m)
    <2>1. h[N] = NothingFound
        BY <1>9, <1>11, Zenon DEF h
    <2> QED
        BY <1>7, <1>9, <2>1, NothingIsSound, Zenon
<1> QED
    BY <1>10, <1>11, Zenon

-----------------------------------------------------------------------------
(***************************************************************************)
(* Boot.                                                                   *)
(***************************************************************************)
\* What ACPI tells of pages.
LEMMA FirmwarePages ==
    ASSUME NEW f \in Firmware, NEW found, found = parse_acpi_tables(f.tables),
           NEW page \in {f.rsdt, found.local_apic, found.io_apic}
    PROVE  /\ page \in VirtualPages /\ page \in Nat /\ page = Target(page)
           /\ pdindex(found.local_apic) = pdindex(found.io_apic)
<1>1. SoundFound(found)
    BY AcpiParsed, Zenon
<1>2. OutsideKernel(f.rsdt)
    BY FirmwareAssumption, Zenon
<1>3. OutsideKernel(page) /\ pdindex(found.local_apic) = pdindex(found.io_apic)
    BY <1>1, <1>2, Zenon DEF SoundFound
<1> QED
    BY <1>3 DEF OutsideKernel, VirtualPages, Target

\* The sizes of the two loops of init_kern_paging.
LEMMA LoopPages ==
    /\ IdentityPages \in Nat \ {0} /\ HigherPages \in Nat \ {0}
    /\ \A v \in 0 .. IdentityPages - 1 : v \in VirtualPages /\ v \in Nat /\ v = Target(v)
    /\ \A v \in 0 .. HigherPages - 1 :
          KERN_PAGE + v \in VirtualPages /\ v \in Nat /\ v = Target(KERN_PAGE + v)
<1>1. /\ ENTRIES \in Nat /\ ENTRIES > 1 /\ KERN_PAGE \in Nat
      /\ IdentityPages <= KERN_PAGE /\ KERN_PAGE + HigherPages <= ENTRIES * ENTRIES
    BY PagingAssumption, Zenon DEF IdentityPages, HigherPages
<1>2. IdentityPages \in Nat \ {0} /\ HigherPages \in Nat \ {0}
    BY <1>1 DEF IdentityPages, HigherPages
<1>3. ENTRIES * ENTRIES \in Nat
    BY <1>1
<1> QED
    BY <1>1, <1>2, <1>3 DEF VirtualPages, Target

\* A page that is mapped is mapped to its target.
LEMMA PagesAreTargets ==
    ASSUME SoundTables(mem, kernel_dir, early_heap_ptr), NEW w \in VirtualPages
    PROVE  PagesAt(w) = IF EntryOf(mem, kernel_dir, w) = Absent THEN {} ELSE {Target(w)}
<1>1. kernel_dir \in Nat
    BY Zenon DEF SoundTables
<1>2. kernel_dir # NoDir
    BY <1>1 DEF NoDir
<1>3. Walk(w) = EntryOf(mem, kernel_dir, w)
    BY <1>2, Zenon DEF Walk, EntryOf
<1> QED
    BY <1>3, Zenon DEF PagesAt, SoundTables

\* The same after a step.
LEMMA PagesAreTargetsThen ==
    ASSUME SoundTables(mem', kernel_dir', early_heap_ptr'), NEW w \in VirtualPages
    PROVE  PagesAt(w)' = IF EntryOf(mem', kernel_dir', w) = Absent THEN {} ELSE {Target(w)}
<1>1. kernel_dir' \in Nat
    BY Zenon DEF SoundTables
<1>2. kernel_dir' # NoDir
    BY <1>1 DEF NoDir
<1>3. Walk(w)' = EntryOf(mem', kernel_dir', w)
    BY <1>2, Zenon DEF Walk, EntryOf
<1> QED
    BY <1>3, Zenon DEF PagesAt, SoundTables

\* What a step does to the mappings.
PagesStay == \A vpage \in VirtualPages : PagesAt(vpage) \subseteq PagesAt(vpage)'

\* Mapping a page to its target takes no other mapping away.
LEMMA MapsPageKeeps ==
    ASSUME SoundTables(mem, kernel_dir, early_heap_ptr), NEW v, MapsPage(v)
    PROVE  PagesStay
<1> SUFFICES ASSUME NEW w \in VirtualPages
             PROVE  PagesAt(w) \subseteq PagesAt(w)'
    BY Zenon DEF PagesStay
<1>1. PagesAt(w) = IF EntryOf(mem, kernel_dir, w) = Absent THEN {} ELSE {Target(w)}
    BY PagesAreTargets, Zenon
<1>2. PagesAt(w)' = IF EntryOf(mem', kernel_dir', w) = Absent THEN {} ELSE {Target(w)}
    BY PagesAreTargetsThen, Zenon DEF MapsPage
<1>3. EntryOf(mem, kernel_dir, w) # Absent => EntryOf(mem', kernel_dir', w) # Absent
    BY Zenon DEF MapsPage
<1> QED
    BY <1>1, <1>2, <1>3, Zenon

\* A step that maps nothing.
LEMMA NoMapKeeps ==
    ASSUME UNCHANGED pagingVars
    PROVE  PagesStay
BY Zenon DEF PagesStay, PagesAt, Walk, pagingVars

-----------------------------------------------------------------------------
\* The names that boot's users of the early heap have.
LEMMA UserNames ==
    /\ BootUsers \subseteq Users \ {FreeList}
    /\ Bitmap \in BootUsers /\ PageDir \in BootUsers /\ Stacks \in BootUsers
    /\ \A k \in TableSlots :
          /\ <<"page_tbl", k>> \in BootUsers
          /\ <<"page_tbl", k>> \notin {Bitmap, PageDir, Stacks, FreeList}
          /\ \A l \in TableSlots : <<"page_tbl", k>> = <<"page_tbl", l>> => k = l
    /\ Bitmap # PageDir /\ Bitmap # Stacks /\ PageDir # Stacks
    /\ FreeList \notin {Bitmap, PageDir, Stacks}
<1>1. FreeList \notin {Bitmap, PageDir, Stacks} /\ Bitmap # PageDir /\ Bitmap # Stacks
      /\ PageDir # Stacks
    BY Zenon DEF FreeList, Bitmap, PageDir, Stacks
<1>2. \A k : <<"page_tbl", k>> \notin {Bitmap, PageDir, Stacks, FreeList}
    BY Zenon DEF FreeList, Bitmap, PageDir, Stacks
<1>3. \A k, l : <<"page_tbl", k>> = <<"page_tbl", l>> => k = l
    BY Zenon
<1>4. FreeList \notin BootUsers
    BY <1>1, <1>2, Zenon DEF BootUsers
<1>5. \A k \in TableSlots : <<"page_tbl", k>> \in BootUsers
    BY Zenon DEF BootUsers, TableSlots
<1>6. Bitmap \in BootUsers /\ PageDir \in BootUsers /\ Stacks \in BootUsers
    BY Zenon DEF BootUsers
<1> QED
    BY <1>1, <1>2, <1>3, <1>4, <1>5, <1>6, BootAssumption, Zenon

\* Pages for a user of boot that has none yet: a step of the early heap.
LEMMA UserStep ==
    ASSUME NEW user \in BootUsers \ {Bitmap}, NEW n \in Nat,
           \A g \in grants : g.use # user, early_kmalloc_pages(user, n)
    PROVE  EarlyHeapNext
<1>1. user \in Users \ {FreeList} /\ user # Bitmap
    BY UserNames, Zenon
<1> QED
    BY <1>1, Zenon DEF EarlyHeapNext

\* early_heap_ptr never goes back.
LEMMA PtrGrows ==
    ASSUME IInv, [EarlyHeapNext]_heapVars
    PROVE  early_heap_ptr \in Nat /\ early_heap_ptr' \in Nat /\ early_heap_ptr <= early_heap_ptr'
<1>1. early_heap_ptr \in Nat /\ early_heap_ptr' \in Nat
    BY NextIInv, Zenon DEF IInv, AreasBehindPtr
<1>2. ASSUME NEW n \in Nat, NEW user, TakeBytes(user, n)
      PROVE  early_heap_ptr <= early_heap_ptr'
    BY <1>1, <1>2 DEF TakeBytes
<1>3. ASSUME NEW n \in Nat, NEW user, early_kmalloc_pages(user, n)
      PROVE  early_heap_ptr <= early_heap_ptr'
    <2>1. early_heap_ptr' = ALIGN_UP(early_heap_ptr) + n * PAGE_SIZE
        BY <1>3, Zenon DEF early_kmalloc_pages
    <2>2. n * PAGE_SIZE \in Nat
        BY EarlyHeapAssumption
    <2> QED
        BY <1>1, <2>1, <2>2, AlignUp
<1>4. CASE PlaceFreeList
    BY <1>1, <1>4 DEF PlaceFreeList
<1>5. CASE UNCHANGED heapVars
    BY <1>1, <1>5 DEF heapVars
<1>6. ASSUME NEW user, NEW n \in Nat,
             IF user = Bitmap THEN TakeBytes(user, n) ELSE early_kmalloc_pages(user, n)
      PROVE  early_heap_ptr <= early_heap_ptr'
    BY <1>2, <1>3, <1>6, Zenon
<1> QED
    BY <1>1, <1>4, <1>5, <1>6, Zenon DEF EarlyHeapNext

\* A call that maps nothing keeps the tables.
LEMMA PagingKept ==
    ASSUME PagingInv, IInv, [EarlyHeapNext]_heapVars, UNCHANGED pagingVars,
           boot' \notin NoTables => boot \notin NoTables,
           boot' \in ApicMapped => boot \in ApicMapped /\ acpi' = acpi
    PROVE  PagingInv' /\ PagesStay
<1>1. PagesStay
    BY NoMapKeeps, Zenon
<1>2. early_heap_ptr \in Nat /\ early_heap_ptr' \in Nat /\ early_heap_ptr <= early_heap_ptr'
    BY PtrGrows, Zenon
<1>3. mem' = mem /\ kernel_dir' = kernel_dir
    BY Zenon DEF pagingVars
<1>4. ASSUME boot' \notin NoTables
      PROVE  SoundTables(mem', kernel_dir', early_heap_ptr')
    BY <1>2, <1>3, <1>4, SoundGrows, Zenon DEF PagingInv
<1>5. ASSUME boot' \in ApicMapped, boot' \notin NoTables
      PROVE  HasTable(acpi.local_apic)'
    BY <1>3, <1>5, Zenon DEF PagingInv, HasTable
<1> QED
    BY <1>1, <1>4, <1>5, Zenon DEF PagingInv

\* And one that changes nothing of the heap and the tables keeps who has what.
LEMMA HoldersKept ==
    ASSUME OnceEach, BelowList, UNCHANGED heapVars, mem' = mem, kernel_dir' = kernel_dir,
           boot # "init_mem_manager", boot' # "init_mem_manager",
           boot' \in NoTables => boot \in NoTables,
           boot \in StacksTaken => boot' \in StacksTaken,
           boot \in ListPlaced => boot' \in ListPlaced
    PROVE  OnceEach' /\ BelowList'
<1>1. grants' = grants
    BY Zenon DEF heapVars
<1>2. OnceEach'
    BY <1>1, Zenon DEF OnceEach
<1>3. BelowList'
    BY <1>1, Zenon DEF BelowList
<1> QED
    BY <1>2, <1>3, Zenon

\* A call that leaves the processors alone keeps what is known of them.
LEMMA ProcessorsKept ==
    ASSUME ProcessorsInv, UNCHANGED smpVars, boot' \notin SmpStarted => boot \notin SmpStarted
    PROVE  ProcessorsInv'
<1>1. SmpInv'
    BY SmpNextInv, Zenon DEF ProcessorsInv
<1>2. SmpInit => SmpInit'
    BY Zenon DEF SmpInit, smpVars
<1> QED
    BY <1>1, <1>2, Zenon DEF ProcessorsInv

-----------------------------------------------------------------------------
\* The areas after one was added.
Added(user) ==
    \E g \in grants' : grants' = grants \cup {g} /\ g.use = user

\* early_kmalloc_pages adds one area, for its user.
LEMMA PagesAdded ==
    ASSUME NEW user, NEW n, early_kmalloc_pages(user, n)
    PROVE  Added(user)
<1> DEFINE new == [use |-> user, from |-> ALIGN_UP(early_heap_ptr),
                   to |-> ALIGN_UP(early_heap_ptr) + n * PAGE_SIZE]
<1>1. grants' = grants \cup {new}
    BY Zenon DEF early_kmalloc_pages, Grant
<1>2. new.use = user
    BY Zenon
<1> HIDE DEF new
<1> QED
    BY <1>1, <1>2, Zenon DEF Added

\* A call that maps a page, once there are tables, keeps the invariants of the tables and
\* of the early heap, unless it takes memory when free_node_list has been placed.
LEMMA MapPhase ==
    ASSUME PagingInv, IInv, OnceEach, BelowList, NEW v \in VirtualPages, MapsPage(v),
           boot \notin NoTables, boot' \notin NoTables,
           boot \in ListPlaced => HasTable(v),
           boot \in StacksTaken => boot' \in StacksTaken,
           boot \in ListPlaced => boot' \in ListPlaced,
           boot' \in ApicMapped =>
               /\ acpi' = acpi /\ acpi.local_apic \in VirtualPages
               /\ boot \in ApicMapped \/ pdindex(v) = pdindex(acpi.local_apic)
    PROVE  PagingInv' /\ PagesStay /\ [EarlyHeapNext]_heapVars /\ OnceEach' /\ BelowList'
<1>1. pdindex(v) \in TableSlots
    BY Indices, Zenon
<1>2. PagesStay
    BY MapsPageKeeps, Zenon DEF PagingInv
<1>3. \A k \in TableSlots : mem[kernel_dir][k] # Absent => mem'[kernel_dir'][k] # Absent
    BY Zenon DEF MapsPage
<1>4. PagingInv'
    <2>1. ASSUME boot' \in ApicMapped
          PROVE  HasTable(acpi.local_apic)'
        <3>1. pdindex(acpi.local_apic) \in TableSlots
            BY <2>1, Indices, Zenon
        <3>2. mem'[kernel_dir'][pdindex(acpi.local_apic)] # Absent
            <4>1. CASE boot \in ApicMapped
                BY <1>3, <3>1, <4>1, Zenon DEF PagingInv, HasTable
            <4>2. CASE pdindex(v) = pdindex(acpi.local_apic)
                BY <4>2, Zenon DEF MapsPage
            <4> QED
                BY <2>1, <4>1, <4>2, Zenon
        <3> QED
            BY <2>1, <3>2, Zenon DEF HasTable
    <2> QED
        BY <2>1, Zenon DEF PagingInv, MapsPage
<1>5. CASE HasTable(v)
    <2>1. UNCHANGED heapVars
        BY <1>5, Zenon DEF MapsPage
    <2>2. grants' = grants
        BY <2>1, Zenon DEF heapVars
    <2>3. OnceEach'
        BY <1>3, <2>2, Zenon DEF OnceEach, NoTables
    <2>4. BelowList'
        BY <2>2, Zenon DEF BelowList
    <2> QED
        BY <1>2, <1>4, <2>1, <2>3, <2>4, Zenon
<1>6. CASE ~HasTable(v)
    <2> DEFINE user == <<"page_tbl", pdindex(v)>>
    <2>1. early_kmalloc_pages(user, 1)
        BY <1>6, Zenon DEF MapsPage
    <2>2. \A g \in grants : g.use # user
        BY <1>1, <1>6, Zenon DEF OnceEach, HasTable
    <2>3. EarlyHeapNext
        BY <1>1, <2>1, <2>2, UserNames, UserStep, Zenon
    <2>4. PICK new \in grants' : grants' = grants \cup {new} /\ new.use = user
        BY <2>1, PagesAdded, Zenon DEF Added
    <2>5. user \in BootUsers /\ user \notin {PageDir, Stacks, FreeList}
          /\ \A k \in TableSlots : user = <<"page_tbl", k>> => k = pdindex(v)
        BY <1>1, UserNames, Zenon
    <2> HIDE DEF user
    <2>6. mem'[kernel_dir'][pdindex(v)] # Absent
        BY Zenon DEF MapsPage
    <2>7. OnceEach'
        BY <1>3, <2>4, <2>5, <2>6, Zenon DEF OnceEach, NoTables
    <2>8. BelowList'
        <3>1. \A g \in grants' : g.use # FreeList
            BY <1>6, <2>4, <2>5, Zenon DEF OnceEach
        <3> QED
            BY <3>1, Zenon DEF BelowList
    <2> QED
        BY <1>2, <1>4, <2>3, <2>7, <2>8, Zenon
<1> QED
    BY <1>5, <1>6, Zenon

-----------------------------------------------------------------------------
(***************************************************************************)
(* The redirection table.  Sources are listed once, for different pins:    *)
(* then the order in which the loop of ioapic_init meets sources and pins  *)
(* does not matter.                                                        *)
(***************************************************************************)
PinOf(override, gsi_base) == override.interrupt - gsi_base

ListedOnce(overrides, gsi_base) ==
    /\ DOMAIN overrides \subseteq Nat
    /\ \A i \in DOMAIN overrides :
          /\ overrides[i].source \in Nat
          /\ PinOf(overrides[i], gsi_base) \in IoApicPins
    /\ \A i, j \in DOMAIN overrides :
          PinOf(overrides[i], gsi_base) = PinOf(overrides[j], gsi_base)
          \/ overrides[i].source = overrides[j].source => i = j

ListedEntry(override) ==
    Entry(override.source + IRQ_BASE, override.polarity = 3, override.trigger = 3, TRUE)

\* The overrides for this pin whose source is one of the first k.
Setters(overrides, gsi_base, k, pin) ==
    {i \in DOMAIN overrides :
        overrides[i].source < k /\ PinOf(overrides[i], gsi_base) = pin}

AnyOf(S) == CHOOSE i \in S : TRUE

\* What the pin has after k passes.
RoutedPin(overrides, gsi_base, k, pin) ==
    IF Setters(overrides, gsi_base, k, pin) # {}
    THEN ListedEntry(overrides[AnyOf(Setters(overrides, gsi_base, k, pin))])
    ELSE IF pin < k /\ OfSource(overrides, pin) = {}
         THEN Entry(pin + IRQ_BASE, FALSE, FALSE, TRUE)
    ELSE Entry(0, FALSE, FALSE, TRUE)

Routed(overrides, gsi_base, k) ==
    [pin \in IoApicPins |-> RoutedPin(overrides, gsi_base, k, pin)]

\* The override that sets a pin is the one that is listed for it.
LEMMA SetterIs ==
    ASSUME NEW overrides, NEW gsi_base, ListedOnce(overrides, gsi_base), NEW k \in Nat,
           NEW i \in DOMAIN overrides, overrides[i].source < k
    PROVE  RoutedPin(overrides, gsi_base, k, PinOf(overrides[i], gsi_base))
               = ListedEntry(overrides[i])
<1> DEFINE pin == PinOf(overrides[i], gsi_base)
           S == Setters(overrides, gsi_base, k, pin)
<1>1. i \in S /\ \A j \in S : j = i
    BY Zenon DEF Setters, ListedOnce
<1>2. AnyOf(S) = i
    <2> HIDE DEF S
    <2> QED
        BY <1>1, Zenon DEF AnyOf
<1> HIDE DEF S
<1>3. S # {}
    BY <1>1, Zenon
<1> QED
    BY <1>2, <1>3, Zenon DEF RoutedPin, S

\* A vector of the table is 0 only where nothing was set.
LEMMA VectorOf ==
    ASSUME NEW overrides, NEW gsi_base, ListedOnce(overrides, gsi_base), NEW k \in Nat,
           NEW pin \in IoApicPins
    PROVE  \/ \E i \in DOMAIN overrides :
                 /\ overrides[i].source < k /\ PinOf(overrides[i], gsi_base) = pin
                 /\ RoutedPin(overrides, gsi_base, k, pin) = ListedEntry(overrides[i])
                 /\ RoutedPin(overrides, gsi_base, k, pin).vector = overrides[i].source + IRQ_BASE
           \/ /\ Setters(overrides, gsi_base, k, pin) = {}
              /\ pin < k /\ OfSource(overrides, pin) = {}
              /\ RoutedPin(overrides, gsi_base, k, pin).vector = pin + IRQ_BASE
           \/ /\ Setters(overrides, gsi_base, k, pin) = {}
              /\ ~(pin < k /\ OfSource(overrides, pin) = {})
              /\ RoutedPin(overrides, gsi_base, k, pin).vector = 0
<1>1. CASE Setters(overrides, gsi_base, k, pin) # {}
    <2>1. PICK i \in DOMAIN overrides :
              overrides[i].source < k /\ PinOf(overrides[i], gsi_base) = pin
        BY <1>1, ZenonT(30) DEF Setters
    <2>2. RoutedPin(overrides, gsi_base, k, pin) = ListedEntry(overrides[i])
        BY <2>1, SetterIs, Zenon
    <2>3. ListedEntry(overrides[i]).vector = overrides[i].source + IRQ_BASE
        BY Zenon DEF ListedEntry, Entry
    <2> QED
        BY <2>1, <2>2, <2>3, ZenonT(30)
<1>2. CASE Setters(overrides, gsi_base, k, pin) = {}
    BY <1>2, Zenon DEF RoutedPin, Entry
<1> QED
    BY <1>1, <1>2, ZenonT(30)

\* One pass: what map_redirection_interrupts does with source number k.
LEMMA RoutedStep ==
    ASSUME NEW overrides, NEW gsi_base, ListedOnce(overrides, gsi_base), NEW k \in IoApicPins
    PROVE  map_redirection_interrupts(Routed(overrides, gsi_base, k), overrides, gsi_base, k)
               = Routed(overrides, gsi_base, k + 1)
<1> DEFINE now == Routed(overrides, gsi_base, k)
           then == map_redirection_interrupts(now, overrides, gsi_base, k)
<1>0. k \in Nat /\ k + 1 \in Nat /\ IRQ_BASE \in Nat \ {0}
    BY IoApicAssumption DEF IoApicPins
<1>1. now = [pin \in IoApicPins |-> RoutedPin(overrides, gsi_base, k, pin)]
    BY Zenon DEF Routed
<1>2. ASSUME NEW pin \in IoApicPins,
             Setters(overrides, gsi_base, k + 1, pin) = Setters(overrides, gsi_base, k, pin),
             pin # k \/ OfSource(overrides, k) # {}
                     \/ Setters(overrides, gsi_base, k, pin) # {}
      PROVE  RoutedPin(overrides, gsi_base, k + 1, pin) = RoutedPin(overrides, gsi_base, k, pin)
    <2>1. pin \in Nat
        BY DEF IoApicPins
    <2>2. pin # k => (pin < k + 1 <=> pin < k)
        BY <1>0, <2>1
    <2> QED
        BY <1>2, <2>2, Zenon DEF RoutedPin
<1>3. CASE OfSource(overrides, k) # {}
    <2>1. PICK i \in OfSource(overrides, k) : TRUE
        BY <1>3, Zenon
    <2>2. i \in DOMAIN overrides /\ overrides[i].source = k
        BY Zenon DEF OfSource
    <2>3. \A j \in OfSource(overrides, k) : j = i
        BY <2>2, Zenon DEF OfSource, ListedOnce
    <2>4. FirstOf(overrides, k) = overrides[i]
        <3> DEFINE own == OfSource(overrides, k)
        <3>1. i \in Nat
            BY <2>2, Zenon DEF ListedOnce
        <3>2. \A j \in own : j = i
            BY <2>3, Zenon
        <3>3. i \in own
            BY Zenon
        <3>4. FirstOf(overrides, k) = overrides[CHOOSE h \in own : \A j \in own : h <= j]
            BY Zenon DEF FirstOf
        <3> HIDE DEF own
        <3> DEFINE first == CHOOSE h \in own : \A j \in own : h <= j
        <3>5. \A j \in own : i <= j
            BY <3>1, <3>2
        <3>6. first \in own
            BY <3>3, <3>5, Zenon
        <3> QED
            BY <3>2, <3>4, <3>6, Zenon
    <2> DEFINE p == PinOf(overrides[i], gsi_base)
    <2>5. then = [now EXCEPT ![p] = ListedEntry(overrides[i])]
        BY <1>3, <2>4, Zenon DEF map_redirection_interrupts, ioapic_override_interrupts,
           ListedEntry, PinOf
    <2>6. p \in IoApicPins
        BY <2>2, Zenon DEF ListedOnce
    <2>7. RoutedPin(overrides, gsi_base, k + 1, p) = ListedEntry(overrides[i])
        BY <1>0, <2>2, SetterIs
    <2>8. ASSUME NEW pin \in IoApicPins, pin # p
          PROVE  RoutedPin(overrides, gsi_base, k + 1, pin)
                     = RoutedPin(overrides, gsi_base, k, pin)
        <3>1. Setters(overrides, gsi_base, k + 1, pin) = Setters(overrides, gsi_base, k, pin)
            <4>1. ASSUME NEW j \in DOMAIN overrides, PinOf(overrides[j], gsi_base) = pin
                  PROVE  overrides[j].source < k + 1 <=> overrides[j].source < k
                <5>1. overrides[j].source # k
                    BY <2>3, <2>8, <4>1, Zenon DEF OfSource
                <5>2. overrides[j].source \in Nat
                    BY Zenon DEF ListedOnce
                <5> QED
                    BY <1>0, <5>1, <5>2
            <4> QED
                BY <4>1, Zenon DEF Setters
        <3> QED
            BY <1>2, <1>3, <3>1, Zenon
    <2> HIDE DEF p, now, then
    <2>9. then = [pin \in IoApicPins |-> RoutedPin(overrides, gsi_base, k + 1, pin)]
        BY <1>1, <2>5, <2>6, <2>7, <2>8, Zenon
    <2> QED
        BY <2>9, Zenon DEF then, now, Routed
<1>4. CASE OfSource(overrides, k) = {}
    <2>1. ASSUME NEW pin
          PROVE  Setters(overrides, gsi_base, k + 1, pin) = Setters(overrides, gsi_base, k, pin)
        <3>1. ASSUME NEW j \in DOMAIN overrides
              PROVE  overrides[j].source < k + 1 <=> overrides[j].source < k
            <4>1. overrides[j].source # k /\ overrides[j].source \in Nat
                BY <1>4, Zenon DEF OfSource, ListedOnce
            <4> QED
                BY <1>0, <4>1
        <3> QED
            BY <3>1, Zenon DEF Setters
    <2>2. now[k] = RoutedPin(overrides, gsi_base, k, k)
        BY <1>1, Zenon
    <2>3. CASE now[k].vector = 0
        <3>1. Setters(overrides, gsi_base, k, k) = {}
            <4>1. \A i \in DOMAIN overrides : overrides[i].source \in Nat
                BY Zenon DEF ListedOnce
            <4> QED
                BY <1>0, <2>2, <2>3, <4>1, VectorOf
        <3>2. RoutedPin(overrides, gsi_base, k + 1, k) = Entry(k + IRQ_BASE, FALSE, FALSE, TRUE)
            <4>1. Setters(overrides, gsi_base, k + 1, k) = {} /\ k < k + 1
                BY <1>0, <2>1, <3>1
            <4> QED
                BY <1>4, <4>1, Zenon DEF RoutedPin
        <3>3. then = [now EXCEPT ![k] = Entry(k + IRQ_BASE, FALSE, FALSE, TRUE)]
            BY <1>4, <2>3, Zenon DEF map_redirection_interrupts, ioapic_identitymap_interrupts
        <3>4. \A pin \in IoApicPins : pin # k =>
                  RoutedPin(overrides, gsi_base, k + 1, pin)
                      = RoutedPin(overrides, gsi_base, k, pin)
            BY <1>2, <2>1, Zenon
        <3> HIDE DEF now, then
        <3>5. then = [pin \in IoApicPins |-> RoutedPin(overrides, gsi_base, k + 1, pin)]
            BY <1>1, <3>2, <3>3, <3>4, ZenonT(30)
        <3> QED
            BY <3>5, Zenon DEF then, now, Routed
    <2>4. CASE now[k].vector # 0
        <3>1. Setters(overrides, gsi_base, k, k) # {}
            BY <1>0, <2>2, <2>4, VectorOf DEF Setters
        <3>2. then = now
            BY <1>4, <2>4, Zenon DEF map_redirection_interrupts
        <3>3. \A pin \in IoApicPins :
                  RoutedPin(overrides, gsi_base, k + 1, pin)
                      = RoutedPin(overrides, gsi_base, k, pin)
            BY <1>2, <2>1, <3>1, Zenon
        <3> HIDE DEF now, then
        <3>4. then = [pin \in IoApicPins |-> RoutedPin(overrides, gsi_base, k + 1, pin)]
            BY <1>1, <3>2, <3>3, Zenon
        <3> QED
            BY <3>4, SMTT(20) DEF then, now, Routed
    <2> QED
        BY <2>3, <2>4, Zenon
<1> QED
    BY <1>3, <1>4, Zenon

\* The loop, after any number of passes.
LEMMA MappedIsRouted ==
    ASSUME NEW overrides, NEW gsi_base, ListedOnce(overrides, gsi_base),
           NEW k \in 0 .. redirection_entry_count
    PROVE  Mapped(ResetTable, overrides, gsi_base, k) = Routed(overrides, gsi_base, k)
<1> DEFINE N == redirection_entry_count
           Pass(t, n) == map_redirection_interrupts(t, overrides, gsi_base, n)
           R(n) == Routed(overrides, gsi_base, n)
           after[n \in 0 .. N] == IF n = 0 THEN ResetTable ELSE Pass(after[n - 1], n - 1)
           f == [n \in 0 .. N |-> R(n)]
<1>1. N \in Nat
    BY IoApicAssumption, Zenon
<1>2. R(0) = ResetTable
    <2>1. ASSUME NEW pin \in IoApicPins
          PROVE  RoutedPin(overrides, gsi_base, 0, pin) = Entry(0, FALSE, FALSE, TRUE)
        <3>1. Setters(overrides, gsi_base, 0, pin) = {} /\ ~(pin < 0)
            BY DEF Setters, ListedOnce, IoApicPins
        <3> QED
            BY <3>1, Zenon DEF RoutedPin
    <2> QED
        BY <2>1, Zenon DEF Routed, ResetTable
<1>3. \A n \in 0 .. N - 1 : Pass(R(n), n) = R(n + 1)
    BY RoutedStep, Zenon DEF IoApicPins
<1> HIDE DEF Pass, R
<1>4. f = [n \in 0 .. N |-> IF n = 0 THEN ResetTable ELSE Pass(f[n - 1], n - 1)]
    <2>1. ASSUME NEW n \in 0 .. N, n # 0
          PROVE  f[n] = Pass(f[n - 1], n - 1)
        <3>1. n - 1 \in 0 .. N - 1 /\ n - 1 \in 0 .. N /\ (n - 1) + 1 = n
            BY <1>1, <2>1
        <3>2. Pass(R(n - 1), n - 1) = R((n - 1) + 1)
            BY <1>3, <3>1, Zenon
        <3> QED
            BY <3>1, <3>2, Zenon
    <2>2. f[0] = ResetTable
        BY <1>1, <1>2
    <2> QED
        BY <2>1, <2>2, Zenon
<1>5. after = [n \in 0 .. N |-> IF n = 0 THEN ResetTable ELSE Pass(after[n - 1], n - 1)]
    BY <1>4, Zenon
<1>6. Mapped(ResetTable, overrides, gsi_base, k) = after[k]
    BY Zenon DEF Mapped, Pass
<1> HIDE DEF after
<1>7. after[0] = ResetTable /\ \A n \in 0 .. N - 1 : after[n + 1] = Pass(after[n], n)
    <2>1. after[0] = ResetTable
        BY <1>1, <1>5
    <2>2. ASSUME NEW n \in 0 .. N - 1
          PROVE  after[n + 1] = Pass(after[n], n)
        <3>1. n + 1 \in 0 .. N /\ n + 1 # 0 /\ (n + 1) - 1 = n
            BY <1>1
        <3> QED
            BY <1>5, <3>1, Zenon
    <2> QED
        BY <2>1, <2>2, Zenon
<1> DEFINE S == {n \in Nat : n <= N => after[n] = R(n)}
<1>8. 0 \in S
    BY <1>2, <1>7, Zenon
<1>9. ASSUME NEW n \in S
      PROVE  n + 1 \in S
    BY <1>1, <1>3, <1>7
<1>10. S = Nat
    <2>1. S \in SUBSET Nat
        BY Zenon
    <2> HIDE DEF S
    <2> QED
        BY <1>8, <1>9, <2>1, Induction, Zenon
<1> QED
    BY <1>1, <1>6, <1>10 DEF R

\* The table that kmain leaves: the entries of the loop, unmasked.
LEMMA FinalEntry ==
    ASSUME NEW overrides, NEW gsi_base, ListedOnce(overrides, gsi_base), NEW pin \in IoApicPins
    PROVE  ioapic_unmask_all(ioapic_map_all(ResetTable, overrides, gsi_base))[pin]
               = [RoutedPin(overrides, gsi_base, redirection_entry_count, pin)
                     EXCEPT !.masked = FALSE]
<1> DEFINE R == Routed(overrides, gsi_base, redirection_entry_count)
<1>1. ioapic_map_all(ResetTable, overrides, gsi_base) = SetMask(R, TRUE)
    <2>1. redirection_entry_count \in 0 .. redirection_entry_count
        BY IoApicAssumption
    <2> QED
        BY <2>1, MappedIsRouted, Zenon DEF ioapic_map_all, ioapic_mask_all
<1>2. R[pin] = RoutedPin(overrides, gsi_base, redirection_entry_count, pin)
    BY Zenon DEF Routed
<1> HIDE DEF R
<1>3. SetMask(SetMask(R, TRUE), FALSE)[pin] = [R[pin] EXCEPT !.masked = FALSE]
    BY Zenon DEF SetMask
<1> QED
    BY <1>1, <1>2, <1>3, Zenon DEF ioapic_unmask_all

\* The vector of a pin of that table.
LEMMA FinalVector ==
    ASSUME NEW overrides, NEW gsi_base, ListedOnce(overrides, gsi_base), NEW pin \in IoApicPins
    PROVE  ioapic_unmask_all(ioapic_map_all(ResetTable, overrides, gsi_base))[pin].vector
               = RoutedPin(overrides, gsi_base, redirection_entry_count, pin).vector
<1> DEFINE e == RoutedPin(overrides, gsi_base, redirection_entry_count, pin)
           final == ioapic_unmask_all(ioapic_map_all(ResetTable, overrides, gsi_base))
<1>0. final[pin] = [e EXCEPT !.masked = FALSE]
    BY FinalEntry, Zenon
<1>1. "vector" \in DOMAIN e
    <2>1. \A v, low, level, masked : "vector" \in DOMAIN Entry(v, low, level, masked)
        BY Zenon DEF Entry
    <2>2. \/ \E o : e = ListedEntry(o)
          \/ e = Entry(pin + IRQ_BASE, FALSE, FALSE, TRUE)
          \/ e = Entry(0, FALSE, FALSE, TRUE)
        BY ZenonT(30) DEF RoutedPin
    <2> HIDE DEF e
    <2>3. ASSUME NEW o, e = ListedEntry(o)
          PROVE  "vector" \in DOMAIN e
        BY <2>3, Zenon DEF ListedEntry, Entry
    <2> QED
        BY <2>1, <2>2, <2>3, Zenon
<1> HIDE DEF e, final
<1>2. final[pin].vector = e.vector
    BY <1>0, <1>1, Zenon
<1> QED
    BY <1>2, Zenon DEF e, final

\* The overrides that are found list each source and each pin once.
LEMMA FirmwareRouting ==
    ASSUME NEW f \in Firmware, NEW found, found = parse_acpi_tables(f.tables)
    PROVE  ListedOnce(found.overrides, found.gsi_base)
<1>1. /\ found.overrides \in Seq(Overrides) /\ found.gsi_base \in Nat
      /\ \A i \in DOMAIN found.overrides :
            found.overrides[i].interrupt - found.gsi_base \in IoApicPins
      /\ \A i, j \in DOMAIN found.overrides :
            found.overrides[i].interrupt - found.gsi_base
                = found.overrides[j].interrupt - found.gsi_base
            \/ found.overrides[i].source = found.overrides[j].source => i = j
    BY AcpiParsed, Zenon DEF SoundFound
<1>2. DOMAIN found.overrides \subseteq Nat
      /\ \A i \in DOMAIN found.overrides : found.overrides[i] \in Overrides
    BY <1>1
<1>3. \A o \in Overrides : o.source \in Nat
    BY Zenon DEF Overrides
<1> QED
    BY <1>1, <1>2, <1>3, Zenon DEF ListedOnce, PinOf

\* With the sources listed once and for different pins, the order does not matter.
LEMMA RoutingIsListed ==
    ASSUME Routing, ListedOnce(acpi.overrides, acpi.gsi_base)
    PROVE  RoutedAsListed
<1> SUFFICES ASSUME boot = "scheduler_init"
             PROVE  RoutedAsListed
    BY ZenonT(30) DEF RoutedAsListed
<1> DEFINE ov == acpi.overrides
           base == acpi.gsi_base
           N == redirection_entry_count
<1>0. N \in Nat /\ IRQ_BASE \in Nat \ {0}
    BY IoApicAssumption, Zenon
<1>1. redir = ioapic_unmask_all(ioapic_map_all(ResetTable, ov, base))
    BY Zenon DEF Routing
<1>2. ASSUME NEW pin \in IoApicPins
      PROVE  \/ \E j \in DOMAIN ov : /\ ov[j].source < N /\ PinOf(ov[j], base) = pin
                                     /\ redir[pin].vector = ov[j].source + IRQ_BASE
             \/ OfSource(ov, pin) = {} /\ redir[pin].vector = pin + IRQ_BASE
             \/ OfSource(ov, pin) # {} /\ redir[pin].vector = 0
    <2>1. redir[pin].vector = RoutedPin(ov, base, N, pin).vector
        BY <1>1, FinalVector, Zenon
    <2>2. pin \in Nat /\ pin < N
        BY <1>0 DEF IoApicPins
    <2> HIDE DEF ov, base, N
    <2> QED
        BY <1>0, <2>1, <2>2, VectorOf DEF ov, base
<1>3. \A j \in DOMAIN ov : ov[j].source \in Nat
    BY Zenon DEF ListedOnce
<1>4. ASSUME NEW i \in DOMAIN ov, ov[i].source \in IoApicPins
      PROVE  /\ redir[PinOf(ov[i], base)] =
                    Entry(ov[i].source + IRQ_BASE, ov[i].polarity = 3, ov[i].trigger = 3, FALSE)
             /\ \A pin \in IoApicPins :
                    redir[pin].vector = ov[i].source + IRQ_BASE => pin = PinOf(ov[i], base)
    <2>1. ov[i].source < N /\ PinOf(ov[i], base) \in IoApicPins
        BY <1>0, <1>4 DEF IoApicPins, ListedOnce
    <2>2. RoutedPin(ov, base, N, PinOf(ov[i], base)) = ListedEntry(ov[i])
        BY <1>0, <2>1, SetterIs, Zenon
    <2>3. redir[PinOf(ov[i], base)] =
              Entry(ov[i].source + IRQ_BASE, ov[i].polarity = 3, ov[i].trigger = 3, FALSE)
        <3>1. redir[PinOf(ov[i], base)] = [ListedEntry(ov[i]) EXCEPT !.masked = FALSE]
            BY <1>1, <2>1, <2>2, FinalEntry
        <3> QED
            BY <3>1, Zenon DEF ListedEntry, Entry
    <2>4. ASSUME NEW pin \in IoApicPins, redir[pin].vector = ov[i].source + IRQ_BASE
          PROVE  pin = PinOf(ov[i], base)
        <3>1. ASSUME NEW j \in DOMAIN ov, PinOf(ov[j], base) = pin,
                     redir[pin].vector = ov[j].source + IRQ_BASE
              PROVE  pin = PinOf(ov[i], base)
            <4>1. ov[j].source = ov[i].source
                BY <1>0, <1>3, <2>4, <3>1
            <4> QED
                BY <3>1, <4>1, Zenon DEF ListedOnce
        <3>2. ~(OfSource(ov, pin) = {} /\ redir[pin].vector = pin + IRQ_BASE)
            BY <1>0, <1>3, <2>4 DEF OfSource, IoApicPins
        <3>3. redir[pin].vector # 0
            BY <1>0, <1>3, <2>4
        <3> QED
            BY <1>2, <3>1, <3>2, <3>3, Zenon
    <2> QED
        BY <2>3, <2>4, Zenon
<1>5. ASSUME NEW pin \in IoApicPins, redir[pin].vector = 0
      PROVE  Overridden(pin)
    <2>1. pin \in Nat
        BY DEF IoApicPins
    <2>2. OfSource(ov, pin) # {}
        BY <1>0, <1>2, <1>3, <1>5, <2>1
    <2> QED
        BY <2>2, Zenon DEF OfSource, Overridden
<1> QED
    BY <1>4, <1>5, Zenon DEF RoutedAsListed, PinOf

-----------------------------------------------------------------------------
\* kmain starts in a state of the invariant.
LEMMA BootInitInv == BootInit => BootInv
<1> SUFFICES ASSUME BootInit
             PROVE  BootInv
    OBVIOUS
<1>1. IInv
    BY InitIInv, Zenon DEF BootInit
<1>2. grants = {}
    BY Zenon DEF BootInit, init_early_heap
<1>3. SmpInit
    <2>1. <<>> \in IdLists
        BY SmpAssumption, SMTT(20) DEF IdLists
    <2>2. fw.present \in SUBSET ApicIds
        BY FirmwareAssumption, Zenon DEF BootInit
    <2> QED
        BY <2>1, <2>2, Zenon DEF BootInit, SmpInit
<1>4. BootType
    BY Zenon DEF BootInit, BootType, PagingInit, Calls, NoTables, AcpiRead, ApicMapped
<1>5. PagingInv /\ OnceEach /\ BelowList /\ Routing
    BY <1>2, Zenon DEF BootInit, PagingInv, OnceEach, BelowList, Routing, NoTables, IoApicMapped
<1>6. ProcessorsInv
    BY <1>3, SmpInitInv, Zenon DEF ProcessorsInv
<1> QED
    BY <1>1, <1>4, <1>5, <1>6, Zenon DEF BootInv

\* Where kmain is decides what has happened: the sets of calls, written out.
LEMMA Phases ==
    /\ NoTables = {"init_mem_manager", "page_dir"}
    /\ ApicMapped = {"init_kheap", "smp_stacks", "init_smp", "ioapic_init",
                     "ioapic_unmask_all", "scheduler_init"}
    /\ AcpiRead = {"lapic_bsp_init", "init_kheap", "smp_stacks", "init_smp", "ioapic_init",
                   "ioapic_unmask_all", "scheduler_init"}
    /\ ListPlaced = {"smp_stacks", "init_smp", "ioapic_init", "ioapic_unmask_all",
                     "scheduler_init"}
    /\ StacksTaken = {"init_smp", "ioapic_init", "ioapic_unmask_all", "scheduler_init"}
    /\ SmpStarted = StacksTaken
    /\ IoApicMapped = {"ioapic_unmask_all", "scheduler_init"}
    /\ Calls = {"init_mem_manager", "page_dir", "identity", "higher", "init_acpi",
                "acpi_tables", "lapic_bsp_init", "init_kheap", "smp_stacks", "init_smp",
                "ioapic_init", "ioapic_unmask_all", "scheduler_init", "PANIC", "undefined"}
BY Zenon DEF NoTables, ApicMapped, AcpiRead, ListPlaced, StacksTaken, SmpStarted, IoApicMapped,
       Calls, Halted

\* What a step of boot keeps and does.
GoodStep == BootInv' /\ PagesStay /\ [EarlyHeapNext]_heapVars

\* The calls before there are tables.
LEMMA BeforeTables ==
    ASSUME BootInv, kmain_mm \/ kmain_page_dir
    PROVE  GoodStep
<1>1. BootType /\ PagingInv /\ IInv /\ OnceEach /\ BelowList /\ Routing /\ ProcessorsInv
    BY Zenon DEF BootInv
<1>2. early_heap_ptr \in Nat
    BY <1>1, Zenon DEF IInv, AreasBehindPtr
<1>3. boot \in NoTables /\ vaddr = 0 /\ kernel_dir = NoDir /\ DOMAIN mem = {} /\ fw \in Firmware
    BY <1>1, Phases, Zenon DEF kmain_mm, kmain_page_dir, Call, BootType
<1>4. PagesStay
    BY <1>3, Zenon DEF PagesStay, PagesAt, Walk
<1>5. /\ boot' \in {"page_dir", "identity"} /\ fw' = fw /\ vaddr' = vaddr /\ redir' = redir
      /\ UNCHANGED smpVars
    BY Zenon DEF kmain_mm, kmain_page_dir, Call
<1>6. Routing'
    BY <1>1, <1>3, <1>5, Phases, Zenon DEF Routing
<1>7. ProcessorsInv'
    BY <1>1, <1>3, <1>5, Phases, ProcessorsKept, Zenon
<1>8. CASE kmain_mm
    <2> DEFINE n == fw.phys_page_num \div BITS
    <2>1. /\ boot = "init_mem_manager" /\ boot' = "page_dir" /\ TakeBytes(Bitmap, n)
          /\ kernel_dir' = kernel_dir /\ mem' = mem
        BY <1>8, Zenon DEF kmain_mm, Call, init_mem_manager, pagingVars
    <2>2. n \in Nat
        <3>1. fw.phys_page_num \in Nat /\ BITS \in Nat \ {0}
            BY <1>3, FirmwareAssumption, PagingAssumption, Zenon
        <3> QED
            BY <3>1, SMTT(20)
    <2> HIDE DEF n
    <2>3. grants = {}
        BY <1>1, <2>1, Zenon DEF OnceEach
    <2>4. EarlyHeapNext
        <3>1. Bitmap \in Users \ {FreeList} /\ \A g \in grants : g.use # Bitmap
            BY <2>3, UserNames, Zenon
        <3> QED
            BY <2>1, <2>2, <3>1, Zenon DEF EarlyHeapNext
    <2>5. PICK new \in grants' : grants' = {new} /\ new.use = Bitmap
        BY <2>1, <2>3, SMTT(20) DEF TakeBytes, Grant
    <2>6. OnceEach' /\ BelowList'
        BY <2>1, <2>5, UserNames, Zenon DEF OnceEach, BelowList
    <2>7. BootType' /\ PagingInv'
        BY <1>3, <1>5, <2>1, Phases, Zenon DEF BootType, PagingInv
    <2> QED
        BY <1>1, <1>4, <1>6, <1>7, <2>4, <2>6, <2>7, NextIInv, Zenon DEF GoodStep, BootInv
<1>9. CASE kmain_page_dir
    <2>1. /\ boot = "page_dir" /\ boot' = "identity" /\ kernel_dir' = ALIGN_UP(early_heap_ptr)
          /\ early_kmalloc_pages(PageDir, 1) /\ mem' = Cleared(mem, kernel_dir')
        BY <1>9, Zenon DEF kmain_page_dir, Call, alloc_kernel_dir
    <2>2. \A g \in grants : g.use # PageDir
        BY <1>1, <2>1, Phases, Zenon DEF OnceEach
    <2>3. EarlyHeapNext
        BY <2>1, <2>2, UserNames, UserStep, Zenon
    <2>4. kernel_dir' \in Nat /\ kernel_dir' < early_heap_ptr'
        BY <1>2, <2>1, PageTaken, Zenon
    <2>5. /\ DOMAIN mem' = {kernel_dir'} /\ mem'[kernel_dir'] = Empty
          /\ mem' = [a \in {kernel_dir'} |-> Empty]
        BY <1>3, <2>1, Zenon DEF Cleared
    <2>6. Empty \in [TableSlots -> TableEntries] /\ \A l \in TableSlots : Empty[l] = Absent
        BY Zenon DEF Empty, TableSlots, TableEntries
    <2>7. SoundTables(mem', kernel_dir', early_heap_ptr')
        <3>1. \A w \in VirtualPages : EntryOf(mem', kernel_dir', w) = Absent
            BY <2>5, <2>6, Indices, Zenon DEF EntryOf
        <3> QED
            BY <2>4, <2>5, <2>6, <3>1, Zenon DEF SoundTables
    <2>8. PICK new \in grants' : grants' = grants \cup {new} /\ new.use = PageDir
        BY <2>1, PagesAdded, Zenon DEF Added
    <2>9. \A g \in grants : g.use # FreeList /\ g.use # Stacks
                            /\ \A k \in TableSlots : g.use # <<"page_tbl", k>>
        BY <1>1, <2>1, Phases, Zenon DEF OnceEach
    <2>10. OnceEach'
        BY <1>1, <2>1, <2>8, <2>9, Phases, UserNames, ZenonT(30) DEF OnceEach
    <2>11. BelowList'
        BY <2>8, <2>9, UserNames, Zenon DEF BelowList
    <2>12. BootType'
        BY <1>3, <1>5, <2>1, Phases, LoopPages DEF BootType
    <2>13. PagingInv'
        BY <2>1, <2>7, Phases, Zenon DEF PagingInv
    <2> QED
        BY <1>1, <1>4, <1>6, <1>7, <2>3, <2>10, <2>11, <2>12, <2>13, NextIInv, Zenon
        DEF GoodStep, BootInv
<1> QED
    BY <1>8, <1>9, Zenon

\* The two loops of init_kern_paging.
LEMMA PagingLoops ==
    ASSUME BootInv, kmain_identity \/ kmain_higher
    PROVE  GoodStep
<1> DEFINE v == IF boot = "identity" THEN vaddr ELSE KERN_PAGE + vaddr
<1>1. BootType /\ PagingInv /\ IInv /\ OnceEach /\ BelowList /\ Routing /\ ProcessorsInv
    BY DEF BootInv
<1>2. early_heap_ptr \in Nat
    BY <1>1 DEF IInv, AreasBehindPtr
<1>3. /\ boot \in {"identity", "higher"} /\ boot' \in {"identity", "higher", "init_acpi"}
      /\ fw' = fw /\ redir' = redir /\ acpi' = acpi /\ UNCHANGED smpVars
    BY Zenon DEF kmain_identity, kmain_higher, Call
<1>4. v \in VirtualPages /\ vaddr \in Nat /\ vaddr = Target(v)
      /\ map_kern_page_flags(v, vaddr, {"READWRITE"})
    <2>1. CASE kmain_identity
        <3>1. boot = "identity" /\ map_kern_page_flags(vaddr, vaddr, {"READWRITE"})
            BY <2>1, Zenon DEF kmain_identity, Call, map_kern_page
        <3> QED
            BY <1>1, <3>1, LoopPages, Zenon DEF BootType
    <2>2. CASE kmain_higher
        <3>1. boot = "higher" /\ map_kern_page_flags(KERN_PAGE + vaddr, vaddr, {"READWRITE"})
            BY <2>2, Zenon DEF kmain_higher, Call, map_kern_page
        <3> QED
            BY <1>1, <3>1, LoopPages, Zenon DEF BootType
    <2> QED
        BY <2>1, <2>2, Zenon
<1>5. SoundTables(mem, kernel_dir, early_heap_ptr) /\ boot \notin NoTables
    BY <1>1, <1>3, Phases, Zenon DEF PagingInv
<1> HIDE DEF v
<1>6. MapsPage(v)
    BY <1>2, <1>4, <1>5, MapStep, Zenon
<1>7. PagingInv' /\ PagesStay /\ [EarlyHeapNext]_heapVars /\ OnceEach' /\ BelowList'
    BY <1>1, <1>3, <1>4, <1>5, <1>6, Phases, MapPhase, Zenon
<1>8. BootType'
    <2>1. CASE kmain_identity
        <3>1. /\ boot = "identity"
              /\ boot' = IF vaddr + 1 < IdentityPages THEN "identity" ELSE "higher"
              /\ vaddr' = IF vaddr + 1 < IdentityPages THEN vaddr + 1 ELSE 0
            BY <2>1, Zenon DEF kmain_identity, Call
        <3> QED
            BY <1>1, <1>3, <1>4, <3>1, Phases, LoopPages DEF BootType
    <2>2. CASE kmain_higher
        <3>1. /\ boot = "higher"
              /\ boot' = IF vaddr + 1 < HigherPages THEN "higher" ELSE "init_acpi"
              /\ vaddr' = vaddr + 1
            BY <2>2, Zenon DEF kmain_higher, Call
        <3> QED
            BY <1>1, <1>3, <1>4, <3>1, Phases, LoopPages DEF BootType
    <2> QED
        BY <2>1, <2>2, Zenon
<1>9. Routing'
    BY <1>1, <1>3, Phases, Zenon DEF Routing
<1>10. ProcessorsInv'
    BY <1>1, <1>3, Phases, ProcessorsKept, Zenon
<1> QED
    BY <1>1, <1>7, <1>8, <1>9, <1>10, NextIInv, Zenon DEF GoodStep, BootInv

\* The pages of the RSDT and of the registers of the APICs.
LEMMA DevicePages ==
    ASSUME BootInv, (kmain_find_rsdt /\ fw.rsdp) \/ kmain_lapic \/ kmain_ioapic
    PROVE  GoodStep
<1> DEFINE v == IF boot = "init_acpi" THEN fw.rsdt
                ELSE IF boot = "lapic_bsp_init" THEN acpi.local_apic ELSE acpi.io_apic
<1>1. BootType /\ PagingInv /\ IInv /\ OnceEach /\ BelowList /\ Routing /\ ProcessorsInv
    BY Zenon DEF BootInv
<1>2. early_heap_ptr \in Nat /\ fw \in Firmware
    BY <1>1, Zenon DEF IInv, AreasBehindPtr, BootType
<1>3. /\ \/ boot = "init_acpi" /\ boot' \in {"undefined", "acpi_tables"} /\ redir' = redir
         \/ boot = "lapic_bsp_init" /\ boot' \in {"init_kheap", "PANIC"} /\ redir' = redir
         \/ /\ boot = "ioapic_init" /\ boot' = "ioapic_unmask_all"
            /\ redir' = ioapic_map_all(redir, acpi.overrides, acpi.gsi_base)
      /\ fw' = fw /\ acpi' = acpi /\ UNCHANGED smpVars
      /\ \E flags \in SUBSET {"READWRITE", "CACHEDISABLE"} : map_kern_page_flags(v, v, flags)
    <2>1. CASE kmain_find_rsdt /\ fw.rsdp
        <3>1. /\ boot = "init_acpi" /\ boot' \in {"undefined", "acpi_tables"} /\ redir' = redir
              /\ fw' = fw /\ acpi' = acpi /\ UNCHANGED smpVars
              /\ map_kern_page_flags(fw.rsdt, fw.rsdt, {})
            BY <2>1, Zenon DEF kmain_find_rsdt, Call, mem_alloc_region
        <3> QED
            BY <3>1, Zenon
    <2>2. CASE kmain_lapic
        <3>1. /\ boot = "lapic_bsp_init" /\ boot' \in {"init_kheap", "PANIC"} /\ redir' = redir
              /\ fw' = fw /\ acpi' = acpi /\ UNCHANGED smpVars
              /\ map_kern_page_flags(acpi.local_apic, acpi.local_apic,
                                     {"READWRITE", "CACHEDISABLE"})
            BY <2>2, Zenon DEF kmain_lapic, Call
        <3> QED
            BY <3>1, Zenon
    <2>3. CASE kmain_ioapic
        <3>1. /\ boot = "ioapic_init" /\ boot' = "ioapic_unmask_all"
              /\ redir' = ioapic_map_all(redir, acpi.overrides, acpi.gsi_base)
              /\ fw' = fw /\ acpi' = acpi /\ UNCHANGED smpVars
              /\ map_kern_page_flags(acpi.io_apic, acpi.io_apic, {"READWRITE", "CACHEDISABLE"})
            BY <2>3, Zenon DEF kmain_ioapic, Call
        <3> QED
            BY <3>1, Zenon
    <2> QED
        BY <2>1, <2>2, <2>3, Zenon
<1>4. boot # "init_acpi" => acpi = parse_acpi_tables(fw.tables)
    BY <1>1, <1>3, Phases, Zenon DEF BootType
<1>5. /\ v \in VirtualPages /\ v \in Nat /\ v = Target(v)
      /\ boot # "init_acpi" =>
            /\ acpi.local_apic \in VirtualPages
            /\ pdindex(acpi.local_apic) = pdindex(acpi.io_apic)
    BY <1>2, <1>3, <1>4, FirmwarePages, Zenon
<1>6. SoundTables(mem, kernel_dir, early_heap_ptr) /\ boot \notin NoTables
    BY <1>1, <1>3, Phases, ZenonT(30) DEF PagingInv
<1>7. pdindex(v) = pdindex(acpi.local_apic) \/ boot = "init_acpi"
    BY <1>3, <1>5, Zenon
<1>8. boot \in ListPlaced => HasTable(v)
    <2>1. boot \in ListPlaced => HasTable(acpi.local_apic) /\ boot # "init_acpi"
        BY <1>1, <1>6, Phases, Zenon DEF PagingInv
    <2> QED
        BY <1>7, <2>1, Zenon DEF HasTable
<1> HIDE DEF v
<1>9. MapsPage(v)
    BY <1>2, <1>3, <1>5, <1>6, MapStep, Zenon
<1>10. PagingInv' /\ PagesStay /\ [EarlyHeapNext]_heapVars /\ OnceEach' /\ BelowList'
    BY <1>1, <1>3, <1>5, <1>6, <1>7, <1>8, <1>9, Phases, MapPhase, Zenon
<1>11. BootType'
    BY <1>1, <1>3, Phases, Zenon DEF BootType
<1>12. Routing'
    BY <1>1, <1>3, Phases, Zenon DEF Routing
<1>13. ProcessorsInv'
    BY <1>1, <1>3, Phases, ProcessorsKept, Zenon
<1> QED
    BY <1>1, <1>10, <1>11, <1>12, <1>13, NextIInv, Zenon DEF GoodStep, BootInv

\* init_kheap places free_node_list behind everything that was taken before.
LEMMA PlacesList ==
    ASSUME BootInv, kmain_kheap
    PROVE  GoodStep
<1>1. BootType /\ PagingInv /\ IInv /\ OnceEach /\ BelowList /\ Routing /\ ProcessorsInv
    BY Zenon DEF BootInv
<1>2. /\ boot = "init_kheap" /\ boot' = "smp_stacks" /\ PlaceFreeList
      /\ fw' = fw /\ acpi' = acpi /\ redir' = redir /\ UNCHANGED <<pagingVars, smpVars>>
    BY Zenon DEF kmain_kheap, Call
<1>3. EarlyHeapNext
    BY <1>2, Zenon DEF EarlyHeapNext
<1>4. PagingInv' /\ PagesStay
    BY <1>1, <1>2, <1>3, Phases, PagingKept, Zenon
<1>5. PICK new \in grants' : /\ grants' = grants \cup {new} /\ new.use = FreeList
                             /\ new.from = early_heap_ptr
    <2> DEFINE end  == early_heap_ptr + ((early_heap_top - early_heap_ptr) % AddressSpace)
               list == [use |-> FreeList, from |-> early_heap_ptr, to |-> end]
    <2>1. grants' = grants \cup {list}
        BY <1>2, Zenon DEF PlaceFreeList, Grant
    <2>2. list.use = FreeList /\ list.from = early_heap_ptr
        BY Zenon
    <2> HIDE DEF list
    <2> QED
        BY <2>1, <2>2, Zenon
<1>6. mem' = mem /\ kernel_dir' = kernel_dir
    BY <1>2, Zenon DEF pagingVars
<1>7. \A g \in grants : g.use # FreeList /\ g.use # Stacks /\ g.to <= early_heap_ptr
    BY <1>1, <1>2, Phases, Zenon DEF OnceEach, IInv, AreasBehindPtr
<1>8. OnceEach'
    BY <1>1, <1>2, <1>5, <1>6, Phases, UserNames, ZenonT(30) DEF OnceEach
<1>9. BelowList'
    BY <1>5, <1>7, Zenon DEF BelowList
<1>10. BootType' /\ Routing'
    BY <1>1, <1>2, Phases, Zenon DEF BootType, Routing
<1>11. ProcessorsInv'
    BY <1>1, <1>2, Phases, ProcessorsKept, Zenon
<1> QED
    BY <1>1, <1>3, <1>4, <1>8, <1>9, <1>10, <1>11, NextIInv, Zenon DEF GoodStep, BootInv

\* The stacks of init_smp are the only pages taken afterwards.
LEMMA TakesStacks ==
    ASSUME BootInv, kmain_smp_stacks
    PROVE  GoodStep
<1> DEFINE n == ALIGN_UP(THREAD_STACK_SIZE * Len(apic_cpu_ids)) \div PAGE_SIZE
<1>1. BootType /\ PagingInv /\ IInv /\ OnceEach /\ BelowList /\ Routing /\ ProcessorsInv
    BY DEF BootInv
<1>2. /\ boot = "smp_stacks" /\ boot' = "init_smp" /\ early_kmalloc_pages(Stacks, n)
      /\ fw' = fw /\ acpi' = acpi /\ redir' = redir /\ UNCHANGED <<pagingVars, smpVars>>
    BY Zenon DEF kmain_smp_stacks, Call
<1>3. n \in Nat
    <2>1. apic_cpu_ids \in Seq(ApicIds)
        BY <1>1, <1>2, Phases, Zenon DEF ProcessorsInv, SmpInit, IdLists
    <2>2. THREAD_STACK_SIZE * Len(apic_cpu_ids) \in Nat
        BY <2>1, BootAssumption
    <2>3. ALIGN_UP(THREAD_STACK_SIZE * Len(apic_cpu_ids)) \in Nat
        BY <2>2, AlignUp, Zenon
    <2> QED
        BY <2>3, Division, Zenon
<1> HIDE DEF n
<1>4. \A g \in grants : g.use # Stacks
    BY <1>1, <1>2, Phases, Zenon DEF OnceEach
<1>5. EarlyHeapNext
    BY <1>2, <1>3, <1>4, UserNames, UserStep, Zenon
<1>6. PagingInv' /\ PagesStay
    BY <1>1, <1>2, <1>5, Phases, PagingKept, Zenon
<1>7. PICK new \in grants' : grants' = grants \cup {new} /\ new.use = Stacks
    BY <1>2, PagesAdded, Zenon DEF Added
<1>8. mem' = mem /\ kernel_dir' = kernel_dir
    BY <1>2, Zenon DEF pagingVars
<1>9. OnceEach'
    BY <1>1, <1>2, <1>7, <1>8, Phases, UserNames, ZenonT(30) DEF OnceEach
<1>10. BelowList'
    BY <1>1, <1>7, UserNames, Zenon DEF BelowList
<1>11. BootType' /\ Routing'
    BY <1>1, <1>2, Phases, Zenon DEF BootType, Routing
<1>12. ProcessorsInv'
    BY <1>1, <1>2, Phases, ProcessorsKept, Zenon
<1> QED
    BY <1>1, <1>5, <1>6, <1>9, <1>10, <1>11, <1>12, NextIInv DEF GoodStep, BootInv

\* The calls that leave the early heap and the tables alone.
Elsewhere ==
    \/ Panic("init_acpi") \/ kmain_acpi \/ kmain_smp \/ kmain_unmask
    \/ \E a \in ApicIds : BootAp(a)
    \/ UNCHANGED bootVars

\* They keep the invariant: the APs run only once init_smp has started them.
LEMMA ElsewhereStep ==
    ASSUME BootInv, Elsewhere
    PROVE  GoodStep
<1>1. BootType /\ PagingInv /\ IInv /\ OnceEach /\ BelowList /\ Routing /\ ProcessorsInv
    BY Zenon DEF BootInv
<1>2. UNCHANGED heapVars /\ UNCHANGED pagingVars /\ fw' = fw
    BY Zenon DEF Elsewhere, Panic, Call, kmain_acpi, kmain_smp, kmain_unmask, BootAp, bootVars
<1>3. /\ boot' = boot \/ <<boot, boot'>> \in
              {<<"init_acpi", "PANIC">>, <<"acpi_tables", "PANIC">>,
               <<"acpi_tables", "lapic_bsp_init">>, <<"init_smp", "ioapic_init">>,
               <<"ioapic_unmask_all", "scheduler_init">>}
      /\ vaddr' = vaddr
    BY Zenon DEF Elsewhere, Panic, Call, kmain_acpi, kmain_smp, kmain_unmask, BootAp, bootVars
<1>4. /\ boot # "acpi_tables" => acpi' = acpi
      /\ boot' = "lapic_bsp_init" /\ boot # boot' => acpi' = parse_acpi_tables(fw.tables)
    BY <1>3, Zenon DEF Elsewhere, Panic, Call, kmain_acpi, kmain_smp, kmain_unmask, BootAp, bootVars
<1>5. mem' = mem /\ kernel_dir' = kernel_dir
    BY <1>2, Zenon DEF pagingVars
<1>6. PagingInv' /\ PagesStay
    BY <1>1, <1>2, <1>3, <1>4, Phases, PagingKept, Zenon
<1>7. OnceEach' /\ BelowList'
    BY <1>1, <1>2, <1>3, <1>5, Phases, ZenonT(30) DEF OnceEach, BelowList, heapVars
<1>8. BootType'
    BY <1>1, <1>2, <1>3, <1>4, <1>5, Phases, Zenon DEF BootType
<1>9. Routing'
    <2>1. IF boot = "ioapic_unmask_all" /\ boot' = "scheduler_init"
          THEN redir' = ioapic_unmask_all(redir) ELSE redir' = redir
        BY <1>3, Zenon
        DEF Elsewhere, Panic, Call, kmain_acpi, kmain_smp, kmain_unmask, BootAp, bootVars
    <2> QED
        BY <1>1, <1>3, <1>4, <2>1, Phases, Zenon DEF Routing
<1>10. ProcessorsInv'
    <2>1. CASE kmain_acpi /\ boot' # "PANIC"
        <3>1. /\ boot = "acpi_tables" /\ boot' = "lapic_bsp_init"
              /\ apic_cpu_ids' = acpi'.cpus /\ acpi' = parse_acpi_tables(fw.tables)
              /\ UNCHANGED <<present, bsp, next, active_cpus, ap_cpu_id, ap, slot>>
            BY <2>1, Zenon DEF kmain_acpi, Panic, Call
        <3>2. acpi'.cpus \in IdLists
            <4>1. SoundFound(parse_acpi_tables(fw.tables))
                BY <1>1, AcpiParsed, Zenon DEF BootType
            <4> QED
                BY <3>1, <4>1, Zenon DEF SoundFound
        <3>3. SmpInit
            BY <1>1, <3>1, Phases, Zenon DEF ProcessorsInv
        <3>4. SmpInit'
            BY <3>1, <3>2, <3>3, Zenon DEF SmpInit
        <3>5. SmpInit' => SmpInv'
            BY SmpInitInv, PTL
        <3> QED
            BY <3>4, <3>5, Zenon DEF ProcessorsInv
    <2>2. CASE kmain_smp
        <3>1. boot = "init_smp" /\ boot' \in {"init_smp", "ioapic_init"} /\ BspStep
            BY <2>2, Zenon DEF kmain_smp, Call
        <3>2. SmpInv'
            BY <1>1, <3>1, SmpNextInv, Zenon DEF ProcessorsInv, SmpNext
        <3> QED
            BY <3>1, <3>2, Phases, Zenon DEF ProcessorsInv
    <2>3. CASE \E a \in ApicIds : BootAp(a)
        <3>1. PICK a \in ApicIds : ApStep(a) /\ boot' = boot
            BY <2>3, Zenon DEF BootAp
        <3>2. SmpInv'
            BY <1>1, <3>1, SmpNextInv, Zenon DEF ProcessorsInv, SmpNext
        <3>3. boot \in SmpStarted
            <4>1. ap[a] # "off"
                BY <3>1, Zenon DEF ApStep, ap_start, init_ap, ap_kmain
            <4> QED
                BY <1>1, <4>1, Zenon DEF ProcessorsInv, SmpInit
        <3> QED
            BY <3>1, <3>2, <3>3, Zenon DEF ProcessorsInv
    <2>4. CASE UNCHANGED smpVars
        BY <1>1, <1>3, <2>4, Phases, ProcessorsKept, Zenon
    <2> QED
        BY <2>1, <2>2, <2>3, <2>4, Zenon
        DEF Elsewhere, Panic, Call, kmain_acpi, kmain_unmask, bootVars
<1>11. IInv'
    BY <1>1, <1>2, NextIInv, Zenon
<1> QED
    BY <1>2, <1>6, <1>7, <1>8, <1>9, <1>10, <1>11, Zenon DEF GoodStep, BootInv

\* Every step of boot keeps the invariant and the mappings, and is a step of the early heap.
LEMMA BootNextInv == BootInv /\ [BootNext]_bootVars => GoodStep
<1> SUFFICES ASSUME BootInv, [BootNext]_bootVars
             PROVE  GoodStep
    BY Zenon
<1>1. kmain_find_rsdt => (kmain_find_rsdt /\ fw.rsdp) \/ Panic("init_acpi")
    BY Zenon DEF kmain_find_rsdt
<1> QED
    BY <1>1, BeforeTables, PagingLoops, DevicePages, PlacesList, TakesStacks, ElsewhereStep, Zenon
    DEF BootNext, kmain, Elsewhere

-----------------------------------------------------------------------------
\* The invariant holds all through boot.
LEMMA BootInvariant == BootSpec => []BootInv
<1>1. BootInv /\ [BootNext]_bootVars => BootInv'
    BY BootNextInv, Zenon DEF GoodStep
<1> QED
    BY BootInitInv, <1>1, PTL DEF BootSpec

\* kmain's calls, whatever the firmware reports, use the early heap as its specification
\* allows: phys_mem_tbl, the page directory, each table that map_kern_page_flags adds and
\* the stacks of init_smp are taken once.
THEOREM BootUsesEarlyHeap == BootSpec => EarlyHeapSpec
<1>1. BootInit => init_early_heap
    BY Zenon DEF BootInit
<1>2. BootInv /\ [BootNext]_bootVars => [EarlyHeapNext]_heapVars
    BY BootNextInv, Zenon DEF GoodStep
<1> QED
    BY <1>1, <1>2, BootInvariant, PTL DEF BootSpec, EarlyHeapSpec

\* So all through boot only free_node_list shares memory, and pages beyond early_heap_top
\* are never given away without the warning.
THEOREM BootStorage == BootSpec => [](SharedOnlyWithFreeList /\ OverrunIsReported)
BY BootUsesEarlyHeap, StaticStorage, OverrunWarned, PTL

\* What map_kern_page_flags has mapped stays mapped to the same page while the kernel
\* boots: a new page table never takes the place of one that is there, for any size of the
\* tables and wherever the firmware puts the RSDT and the APICs.
THEOREM MappingsAreKept == BootSpec => MappingsStay
<1>1. BootInv /\ [BootNext]_bootVars =>
          [\A vpage \in 0 .. ENTRIES * ENTRIES - 1 :
               PagesAt(vpage) \subseteq PagesAt(vpage)']_bootVars
    BY BootNextInv, Zenon DEF GoodStep, PagesStay, VirtualPages
<1> QED
    BY <1>1, BootInvariant, PTL DEF BootSpec, MappingsStay

\* init_kheap puts free_node_list at early_heap_ptr without moving it: the stacks that
\* init_smp takes afterwards, and nothing else that boot takes, can lie under the list.
THEOREM StacksUnderFreeList == BootSpec => []OnlyStacksUnderFreeList
<1>1. BootInv => OnlyStacksUnderFreeList
    <2> SUFFICES ASSUME BootInv, NEW g \in grants, g.use # FreeList, g.use # Stacks,
                        NEW h \in grants, h.use = FreeList
                 PROVE  Disjoint(g, h)
        BY Zenon DEF OnlyStacksUnderFreeList, Under
    <2> QED
        BY Zenon DEF BootInv, BelowList, Disjoint
<1> QED
    BY <1>1, BootInvariant, PTL

\* After the loop of ioapic_map_all every interrupt source arrives at the pin that ACPI
\* lists for it and at no other, for any number of pins and of overrides in any order.
THEOREM InterruptsAreRouted == BootSpec => []RoutedAsListed
<1>1. BootInv => RoutedAsListed
    <2> SUFFICES ASSUME BootInv, boot = "scheduler_init"
                 PROVE  RoutedAsListed
        BY Zenon DEF RoutedAsListed
    <2>1. fw \in Firmware /\ acpi = parse_acpi_tables(fw.tables)
        BY Phases, Zenon DEF BootInv, BootType
    <2>2. ListedOnce(acpi.overrides, acpi.gsi_base)
        BY <2>1, FirmwareRouting, Zenon
    <2> QED
        BY <2>2, RoutingIsListed, Zenon DEF BootInv
<1> QED
    BY <1>1, BootInvariant, PTL

\* The APs that kmain starts, from the list that parse_apic_table made, have a stack each,
\* and init_smp waits for the one it has started.
THEOREM BootStartsProcessors == BootSpec => [](ApOwnsStack /\ WaitMeansCounted)
<1>1. BootInv => ApOwnsStack /\ WaitMeansCounted
    <2>1. BootInv => SmpInv
        BY Zenon DEF BootInv, ProcessorsInv
    <2>2. SmpInv => ApOwnsStack /\ WaitMeansCounted
        BY DEF SmpInv, SmpType, CountBehindLoop, SlotsBelowCount, ApOwnsStack
    <2> QED
        BY <2>1, <2>2, Zenon
<1> QED
    BY <1>1, BootInvariant, PTL
=============================================================================
