---------------------------- MODULE KernelProofs ----------------------------
(***************************************************************************)
(* Proofs about MCKernel, in which boot, the interrupts, the switch of     *)
(* threads, the screen and the circular buffer stand side by side, for all *)
(* their constants.  Each part is as it is alone, so what is proved of the *)
(* parts holds of the whole.                                               *)
(***************************************************************************)
EXTENDS MCKernel, BootProofs, KernelPartsProofs

\* What KernelTypeOK says of boot.
BootTypeOK ==
    /\ early_heap_ptr \in Nat /\ warned \in BOOLEAN
    /\ kernel_dir \in Nat \cup {NoDir}
    /\ Len(apic_cpu_ids) <= MAX_CPU_COUNT
    /\ bsp \in {"pick", "startup", "wait", "done"}
    /\ ap_cpu_id \in 0 .. MAX_CPU_COUNT
    /\ DOMAIN redir = IoApicPins

CpusFit == Len(apic_cpu_ids) <= MAX_CPU_COUNT

\* The list of CPUs is written by init_acpi, before init_smp reads it.
LEMMA ListIsWrittenOnce ==
    ASSUME BootNext
    PROVE  apic_cpu_ids' = apic_cpu_ids \/ boot' \notin SmpStarted
<1>1. ASSUME kmain_acpi
      PROVE  boot' \notin SmpStarted
  <2>1. boot' = "lapic_bsp_init" \/ boot' = "PANIC"
    BY <1>1, Zenon DEF kmain_acpi, Call, Panic
  <2> QED BY <2>1 DEF SmpStarted, StacksTaken, ListPlaced, ApicMapped
<1>2. ASSUME kmain_smp \/ \E a \in ApicIds : BootAp(a)
      PROVE  apic_cpu_ids' = apic_cpu_ids
  <2>1. BspStep \/ \E a \in ApicIds : ApStep(a)
    BY <1>2, Zenon DEF kmain_smp, BootAp
  <2>2. BspStep => apic_cpu_ids' = apic_cpu_ids
    BY Zenon DEF BspStep, SkipBsp, lapic_send_init, lapic_send_startup, wait_counted,
                 init_smp_returns
  <2>3. ASSUME NEW a \in ApicIds, ApStep(a)
        PROVE  apic_cpu_ids' = apic_cpu_ids
    BY <2>3, Zenon DEF ApStep, ap_start, init_ap, ap_kmain
  <2> QED BY <2>1, <2>2, <2>3, Zenon
<1>3. ASSUME kmain, ~kmain_acpi, ~kmain_smp
      PROVE  apic_cpu_ids' = apic_cpu_ids
  <2>1. UNCHANGED smpVars
    BY <1>3, Zenon DEF kmain, kmain_mm, kmain_page_dir, kmain_identity, kmain_higher,
                       kmain_find_rsdt, Panic, kmain_lapic, kmain_kheap, kmain_smp_stacks,
                       kmain_ioapic, kmain_unmask
  <2> QED BY <2>1, Zenon DEF smpVars
<1> QED BY <1>1, <1>2, <1>3, Zenon DEF BootNext

\* All through boot: MAX_CPU_COUNT bounds the list of CPUs and the APs that have counted
\* themselves, and every variable has its type.
THEOREM BootTypes == BootSpec => []BootTypeOK
<1>1. BootInv /\ boot \notin SmpStarted => CpusFit
  BY Zenon DEF BootInv, ProcessorsInv, SmpInit, IdLists, CpusFit
<1>2. BootInit => CpusFit
  <2> SUFFICES ASSUME BootInit
               PROVE  CpusFit
    BY Zenon
  <2>1. boot = "init_mem_manager"
    BY Zenon DEF BootInit
  <2>2. boot \notin SmpStarted
    BY <2>1 DEF SmpStarted, StacksTaken, ListPlaced, ApicMapped
  <2> QED BY <1>1, <2>2, BootInitInv, Zenon
<1>3. BootInv' /\ CpusFit /\ [BootNext]_bootVars => CpusFit'
  <2> SUFFICES ASSUME BootInv', CpusFit, [BootNext]_bootVars
               PROVE  CpusFit'
    BY Zenon
  <2>1. CASE boot' \notin SmpStarted
    BY <2>1, Zenon DEF BootInv, ProcessorsInv, SmpInit, IdLists, CpusFit
  <2>2. CASE apic_cpu_ids' = apic_cpu_ids
    BY <2>2, Zenon DEF CpusFit
  <2>3. CASE UNCHANGED bootVars
    BY <2>2, <2>3, Zenon DEF bootVars, smpVars
  <2> QED BY <2>1, <2>2, <2>3, ListIsWrittenOnce, Zenon
<1>4. BootInv /\ CpusFit => BootTypeOK
  <2> SUFFICES ASSUME BootInv, CpusFit
               PROVE  BootTypeOK
    BY Zenon
  <2>1. early_heap_ptr \in Nat /\ warned \in BOOLEAN
    BY Zenon DEF BootInv, IInv, AreasBehindPtr
  <2>2. kernel_dir \in Nat \cup {NoDir}
    <3>1. CASE boot \in NoTables
      BY <3>1, Zenon DEF BootInv, BootType
    <3>2. CASE boot \notin NoTables
      BY <3>2, Zenon DEF BootInv, PagingInv, SoundTables
    <3> QED BY <3>1, <3>2, Zenon
  <2>3. bsp \in {"pick", "startup", "wait", "done"}
    BY Zenon DEF BootInv, ProcessorsInv, SmpInv, SmpType
  <2>4. ap_cpu_id \in 0 .. MAX_CPU_COUNT
    <3> DEFINE len == Len(apic_cpu_ids)
    <3>1. /\ next \in 1 .. len + 1 /\ active_cpus \in Nat /\ ap_cpu_id \in Nat
          /\ apic_cpu_ids \in Seq(ApicIds)
          /\ bsp = "wait" => next <= len
      BY DEF BootInv, ProcessorsInv, SmpInv, SmpType
    <3>2. len \in Nat
      BY <3>1
    <3>3. /\ active_cpus <= next /\ ap_cpu_id <= active_cpus
          /\ bsp # "wait" => ap_cpu_id = active_cpus - 1
      BY Zenon DEF BootInv, ProcessorsInv, SmpInv, CountBehindLoop
    <3>4. len <= MAX_CPU_COUNT
      BY Zenon DEF CpusFit
    <3> HIDE DEF len
    <3>5. ap_cpu_id <= len
      BY <3>1, <3>2, <3>3
    <3> QED BY <3>1, <3>2, <3>4, <3>5, SmpAssumption
  <2>5. DOMAIN redir = IoApicPins
    <3>1. \A t : DOMAIN SetMask(t, TRUE) = IoApicPins /\ DOMAIN SetMask(t, FALSE) = IoApicPins
      BY Zenon DEF SetMask
    <3>2. DOMAIN ResetTable = IoApicPins
      BY Zenon DEF ResetTable
    <3>3. boot \in IoApicMapped => boot = "ioapic_unmask_all" \/ boot = "scheduler_init"
      BY Zenon DEF IoApicMapped
    <3> QED BY <3>1, <3>2, <3>3, Zenon
            DEF BootInv, Routing, ioapic_map_all, ioapic_mask_all, ioapic_unmask_all
  <2> QED BY <2>1, <2>2, <2>3, <2>4, <2>5, Zenon DEF BootTypeOK, CpusFit
<1> QED BY <1>2, <1>3, <1>4, BootInvariant, PTL DEF BootSpec
-----------------------------------------------------------------------------
\* The whole runs each part as the part runs alone: only one of them moves, and it makes
\* a step of its own.
THEOREM EachPartIsItself ==
    Spec => BootSpec /\ TrapSpec /\ ContextSpec /\ TerminalSpec /\ CircBufSpec
<1>1. Init => BootInit /\ TrapInit /\ ContextInit /\ TerminalInit /\ init_circ_buf
  BY Zenon DEF Init
<1>2. ASSUME [Next]_kernelVars
      PROVE  /\ [BootNext]_bootVars /\ [TrapNext]_trapVars /\ [ContextNext]_contextVars
             /\ [TerminalNext]_screenVars /\ [CircBufNext]_circVars
  <2>1. CASE BspMoves \/ \E a \in ApicIds : ApMoves(a)
    <3>1. BootNext /\ UNCHANGED <<trapVars, contextVars, screenVars, circVars>>
      BY <2>1, Zenon DEF BspMoves, ApMoves, BootNext
    <3> QED BY <3>1, Zenon
  <2>2. CASE Interrupts(TrapNext)
    <3>1. TrapNext /\ UNCHANGED <<bootVars, contextVars, screenVars, circVars>>
      BY <2>2, Zenon DEF Interrupts
    <3> QED BY <3>1, Zenon
  <2>3. CASE ContextNext /\ UNCHANGED <<part, bootVars, trapVars, screenVars, circVars>>
    BY <2>3, Zenon
  <2>4. CASE TerminalNext /\ UNCHANGED <<part, bootVars, trapVars, contextVars, circVars>>
    BY <2>4, Zenon
  <2>5. CASE CircBufNext /\ UNCHANGED <<part, bootVars, trapVars, contextVars, screenVars>>
    BY <2>5, Zenon
  <2>6. CASE UNCHANGED kernelVars
    BY <2>6, Zenon DEF kernelVars
  <2> QED BY <1>2, <2>1, <2>2, <2>3, <2>4, <2>5, <2>6, Zenon DEF Next
<1>3. Spec => Init /\ [][Next]_kernelVars
  BY PTL DEF Spec
<1> QED BY <1>1, <1>2, <1>3, PTL DEF BootSpec, TrapSpec, ContextSpec, TerminalSpec, CircBufSpec

\* The type invariant of the parts, for all their constants.
THEOREM KernelTypes == Spec => []KernelTypeOK
<1>1. TrapSpec => []HandledOnTop
  BY TrapInitInv, TrapNextInv, PTL DEF TrapSpec
<1>2. ContextSpec => []ContextInv
  BY ContextInitInv, ContextNextInv, PTL DEF ContextSpec
<1>3. CircBufSpec => []CircType
  BY CircInitType, CircNextType, PTL DEF CircBufSpec
<1> DEFINE Counts == log_count \in 0 .. printed /\ printed \in 0 .. Messages
<1>4. TerminalSpec => []Counts
  BY CountBehindMessages
<1>5. BootTypeOK /\ HandledOnTop /\ ContextInv /\ CircType /\ Counts => KernelTypeOK
  <2> SUFFICES ASSUME BootTypeOK, HandledOnTop, ContextInv, CircType, Counts
               PROVE  KernelTypeOK
    BY Zenon
  <2>1. {log_count, printed} \subseteq 0 .. Messages
    BY TerminalAssumption
  <2>2. /\ irr \subseteq Sources /\ isr \subseteq Sources
        /\ vector \in Sources \cup {Idle, APIC_SPURIOUS_IRQ}
    BY Zenon DEF HandledOnTop
  <2>3. saved \in [Threads -> [Registers -> {"own", "old"}]]
    BY Zenon DEF ContextInv, SavedWhole
  <2>4. curr_index \in 0 .. size - 1 /\ curr_size \in 0 .. size
    BY Zenon DEF CircType
  <2> QED BY <2>1, <2>2, <2>3, <2>4, Zenon DEF KernelTypeOK, BootTypeOK
<1> HIDE DEF Counts
<1> QED BY <1>1, <1>2, <1>3, <1>4, <1>5, EachPartIsItself, BootTypes, PTL
=============================================================================
