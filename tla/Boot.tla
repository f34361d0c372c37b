-------------------------------- MODULE Boot --------------------------------
(***************************************************************************)
(* kmain, from init_early_heap to scheduler_init, with the components that *)
(* it starts: the bitmap of mm.c, the page tables, what ACPI says, the     *)
(* local APIC of the BSP, the list of free nodes of the heap, the other    *)
(* processors and the I/O APIC.  fw is the machine: what its firmware      *)
(* tells and which of the listed CPUs there are.  The APs run beside the   *)
(* BSP from their STARTUP on.                                              *)
(***************************************************************************)
EXTENDS Paging, Acpi, Smp, IoApic

CONSTANTS
    Firmware,           \* the machines
    THREAD_STACK_SIZE

Stacks == <<"stacks">>

\* Who asks for memory while the kernel boots.
BootUsers ==
    {Bitmap, PageDir, Stacks} \cup {<<"page_tbl", k>> : k \in 0 .. ENTRIES - 1}

ASSUME BootAssumption ==
    /\ MAX_CPUS = MAX_CPU_COUNT
    /\ THREAD_STACK_SIZE \in Nat \ {0}
    /\ BootUsers \subseteq Users

\* The entries of a MADT.
LocalApics == [type : {"LOCAL_APIC"}, apic_id : ApicIds]
IoApics == [type : {"IO_APIC"}, page : Nat, base : Nat]
Overrides ==
    [type : {"INTERRUPT_OVERRIDE"}, source : Nat, interrupt : Nat, polarity : 0 .. 3,
     trigger : 0 .. 3]
OtherEntries == [type : STRING \ {"LOCAL_APIC", "IO_APIC", "INTERRUPT_OVERRIDE"}]

\* A page that an identity mapping may take without replacing one of the kernel's.
OutsideKernel(page) ==
    page \in 0 .. ENTRIES * ENTRIES - 1 /\ page \notin KERN_PAGE .. KERN_PAGE + HigherPages - 1

\* The entries of this type.
Of(entries, type) == {n \in DOMAIN entries : entries[n].type = type}

\* A MADT as the kernel expects it: a CPU is listed once; one page table maps the
\* registers of the local APIC and of the last I/O APIC; an interrupt source is listed
\* once, for a pin of that I/O APIC that no other source is listed for.
SoundMadt(madt) ==
    LET entries == madt.entries
        overrides == Of(entries, "INTERRUPT_OVERRIDE")
    IN  /\ entries \in Seq(LocalApics \cup IoApics \cup Overrides \cup OtherEntries)
        /\ \A n, m \in Of(entries, "LOCAL_APIC") :
              entries[n].apic_id = entries[m].apic_id => n = m
        /\ OutsideKernel(madt.local_apic)
        /\ \E io \in Of(entries, "IO_APIC") :
              LET pin(n) == entries[n].interrupt - entries[io].base
              IN  /\ \A n \in Of(entries, "IO_APIC") : n <= io
                  /\ OutsideKernel(entries[io].page)
                  /\ pdindex(entries[io].page) = pdindex(madt.local_apic)
                  /\ \A n \in overrides : pin(n) \in IoApicPins
                  /\ \A n, m \in overrides :
                        pin(n) = pin(m) \/ entries[n].source = entries[m].source => n = m

\* What the firmware tells: the RSDT lies outside of the higher half, and there is one
\* MADT at most.
ASSUME FirmwareAssumption ==
    \A f \in Firmware :
        /\ f.phys_page_num \in Nat /\ f.present \subseteq ApicIds
        /\ OutsideKernel(f.rsdt)
        /\ Len(f.tables) \in Nat
        /\ \A n, m \in 1 .. Len(f.tables) :
              f.tables[n].signature = "APIC" /\ f.tables[m].signature = "APIC" => n = m
        /\ \A n \in 1 .. Len(f.tables) :
              f.tables[n].signature = "APIC" => SoundMadt(f.tables[n])

VARIABLES
    fw,
    boot,               \* the call that kmain is at
    vaddr,              \* virt_addr_count, the loops of init_kern_paging
    acpi,               \* what init_acpi has found
    redir

bootVars == <<heapVars, pagingVars, smpVars, fw, boot, vaddr, acpi, redir>>

BootInit ==
    /\ init_early_heap
    /\ PagingInit
    /\ fw \in Firmware
    /\ boot = "init_mem_manager"
    /\ vaddr = 0
    /\ acpi = NothingFound
    /\ redir = ResetTable
    /\ apic_cpu_ids = <<>>
    /\ present = fw.present
    /\ bsp = "pick" /\ next = 1 /\ active_cpus = 1 /\ ap_cpu_id = 0
    /\ ap = [a \in ApicIds |-> "off"]
    /\ slot = [a \in ApicIds |-> None]

Call(from, to) == boot = from /\ boot' = to /\ UNCHANGED fw

-----------------------------------------------------------------------------
kmain_mm ==
    /\ Call("init_mem_manager", "page_dir")
    /\ init_mem_manager(fw.phys_page_num)
    /\ UNCHANGED <<smpVars, vaddr, acpi, redir>>

kmain_page_dir ==
    /\ Call("page_dir", "identity")
    /\ alloc_kernel_dir
    /\ UNCHANGED <<smpVars, vaddr, acpi, redir>>

\* The two loops of init_kern_paging, a page at a time.
kmain_identity ==
    /\ Call("identity", IF vaddr + 1 < IdentityPages THEN "identity" ELSE "higher")
    /\ map_kern_page(vaddr, vaddr)
    /\ vaddr' = IF vaddr + 1 < IdentityPages THEN vaddr + 1 ELSE 0
    /\ UNCHANGED <<smpVars, acpi, redir>>

kmain_higher ==
    /\ Call("higher", IF vaddr + 1 < HigherPages THEN "higher" ELSE "init_acpi")
    /\ map_kern_page(KERN_PAGE + vaddr, vaddr)
    /\ vaddr' = vaddr + 1
    /\ UNCHANGED <<smpVars, acpi, redir>>

Panic(from) ==
    /\ Call(from, "PANIC")
    /\ UNCHANGED <<heapVars, pagingVars, smpVars, vaddr, acpi, redir>>

\* A bit set in a page table leaves nothing to be said of what follows.
kmain_find_rsdt ==
    \/ /\ boot = "init_acpi" /\ fw.rsdp
       /\ mem_alloc_region(fw.rsdt)
       /\ Call("init_acpi", IF Strays(fw.rsdt) THEN "undefined" ELSE "acpi_tables")
       /\ UNCHANGED <<smpVars, vaddr, acpi, redir>>
    \/ ~fw.rsdp /\ Panic("init_acpi")

\* rsdp_sum is what is left of the checksums of the RSDP and the RSDT: for either the
\* kernel stops.
TablesReadable ==
    LET pages == {fw.tables[i].page : i \in DOMAIN fw.tables}
    IN  fw.rsdp_sum = 0 /\ Readable(fw.tables, {page \in pages : page \in PagesAt(page)})

kmain_acpi ==
    \/ /\ TablesReadable
       /\ Call("acpi_tables", "lapic_bsp_init")
       /\ acpi' = parse_acpi_tables(fw.tables)
       /\ apic_cpu_ids' = acpi'.cpus
       /\ UNCHANGED <<heapVars, pagingVars, vaddr, redir>>
       /\ UNCHANGED <<present, bsp, next, active_cpus, ap_cpu_id, ap, slot>>
    \/ ~TablesReadable /\ Panic("acpi_tables")

\* ASSERT(lapic_get_id() == 0)
kmain_lapic ==
    /\ Call("lapic_bsp_init", IF fw.bsp_id = BSP THEN "init_kheap" ELSE "PANIC")
    /\ map_kern_page_flags(acpi.local_apic, acpi.local_apic, {"READWRITE", "CACHEDISABLE"})
    /\ UNCHANGED <<phys_mem_tbl, smpVars, vaddr, acpi, redir>>

\* init_kheap, and init_page_heap, which touches nothing of this
kmain_kheap ==
    /\ Call("init_kheap", "smp_stacks")
    /\ PlaceFreeList
    /\ UNCHANGED <<pagingVars, smpVars, vaddr, acpi, redir>>

\* The stacks of init_smp, apic_cpu_count of them, rounded up to pages.
kmain_smp_stacks ==
    /\ Call("smp_stacks", "init_smp")
    /\ early_kmalloc_pages(Stacks, ALIGN_UP(THREAD_STACK_SIZE * Len(apic_cpu_ids)) \div PAGE_SIZE)
    /\ UNCHANGED <<pagingVars, smpVars, vaddr, acpi, redir>>

kmain_smp ==
    /\ boot = "init_smp"
    /\ BspStep
    /\ Call("init_smp", IF bsp' = "done" THEN "ioapic_init" ELSE "init_smp")
    /\ UNCHANGED <<heapVars, pagingVars, vaddr, acpi, redir>>

kmain_ioapic ==
    /\ Call("ioapic_init", "ioapic_unmask_all")
    /\ map_kern_page_flags(acpi.io_apic, acpi.io_apic, {"READWRITE", "CACHEDISABLE"})
    /\ redir' = ioapic_map_all(redir, acpi.overrides, acpi.gsi_base)
    /\ UNCHANGED <<phys_mem_tbl, smpVars, vaddr, acpi>>

kmain_unmask ==
    /\ Call("ioapic_unmask_all", "scheduler_init")
    /\ redir' = ioapic_unmask_all(redir)
    /\ UNCHANGED <<heapVars, pagingVars, smpVars, vaddr, acpi>>

kmain ==
    \/ kmain_mm \/ kmain_page_dir \/ kmain_identity \/ kmain_higher
    \/ kmain_find_rsdt \/ kmain_acpi \/ kmain_lapic \/ kmain_kheap
    \/ kmain_smp_stacks \/ kmain_smp \/ kmain_ioapic \/ kmain_unmask

BootAp(a) == ApStep(a) /\ UNCHANGED <<heapVars, pagingVars, fw, boot, vaddr, acpi, redir>>

BootNext == kmain \/ \E a \in ApicIds : BootAp(a)

BootSpec == BootInit /\ [][BootNext]_bootVars

-----------------------------------------------------------------------------
\* A page, once mapped, stays mapped to the same memory: neither a new page table nor a
\* later mapping (of the RSDT, of the registers of the APICs) takes the kernel's
\* identity pages, its higher half or a device away.
MappingsStay ==
    [][\A vpage \in 0 .. ENTRIES * ENTRIES - 1 : PagesAt(vpage) \subseteq PagesAt(vpage)']_bootVars

Under(g, use) == \E h \in grants : h.use = use /\ ~Disjoint(g, h)

\* How far StaticStorageKept fails: init_kheap leaves early_heap_ptr at the start of
\* free_node_list, so what boot takes afterwards lies under that list.  It is the stacks of
\* the APs and nothing else, on every machine: the page table for the I/O APIC is there
\* already, the one of the local APIC.
OnlyStacksUnderFreeList ==
    \A g \in grants : g.use # FreeList /\ g.from < g.to /\ Under(g, FreeList) => g.use = Stacks

\* The source of this number is listed for a pin, perhaps another one.
Overridden(pin) == \E i \in DOMAIN acpi.overrides : acpi.overrides[i].source = pin

\* When kmain has unmasked the I/O APIC, each interrupt source arrives at the pin that
\* ACPI lists for it, with its own vector, polarity and trigger mode, and at no other
\* pin, in whatever order sources and pins are; a pin that is unmasked without a vector is
\* one whose own source was listed for another pin.
RoutedAsListed ==
    boot = "scheduler_init" =>
        /\ \A i \in DOMAIN acpi.overrides :
              LET o == acpi.overrides[i]
              IN  o.source \in IoApicPins =>
                    /\ redir[o.interrupt - acpi.gsi_base] =
                          Entry(o.source + IRQ_BASE, o.polarity = 3, o.trigger = 3, FALSE)
                    /\ \A pin \in IoApicPins :
                          redir[pin].vector = o.source + IRQ_BASE =>
                              pin = o.interrupt - acpi.gsi_base
        /\ \A pin \in IoApicPins : redir[pin].vector = 0 => Overridden(pin)

\* The BSP waits for a CPU that will not count itself: it is not there, or its STARTUP
\* was lost.
WaitsInVain ==
    /\ boot = "init_smp"
    /\ bsp = "wait"
    /\ ap[apic_cpu_ids[next]] \in {"off", "init"}

\* Once on its way, kmain reaches the scheduler, or a PANIC, or a stray bit in a page
\* table, or waits in vain in init_smp: no other wait is endless.
\* And every AP that has started reaches the scheduler or the ASSERT of
\* processor_get_info.
BootEnds ==
    /\ (boot = "page_dir") ~> (boot \in {"scheduler_init", "PANIC", "undefined"} \/ WaitsInVain)
    /\ \A a \in ApicIds : (ap[a] = "started") ~> (ap[a] \in {"scheduler", "panic"})
=============================================================================
