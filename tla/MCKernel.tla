------------------------------ MODULE MCKernel ------------------------------
(***************************************************************************)
(* The parts of the kernel that do not share state, side by side: part     *)
(* says which of them moves, and the others keep their initial state.      *)
(***************************************************************************)
EXTENDS Boot, Trap, ContextSwitch, Terminal, CircBuf

CONSTANTS c1, c2, t1, t2, t3

VARIABLE part

kernelVars == <<part, bootVars, trapVars, contextVars, screenVars, circVars>>

\* A machine: what its tables say of processors and interrupts, and the CPUs there are.
\* The registers of both APICs are mapped by one page table, as in every PC.
LocalApic(id) == [type |-> "LOCAL_APIC", apic_id |-> id]
IoApicEntry == [type |-> "IO_APIC", page |-> 60, base |-> 0]
Override(s, i, p, t) ==
    [type |-> "INTERRUPT_OVERRIDE", source |-> s, interrupt |-> i, polarity |-> p, trigger |-> t]
Cpu(ids) == [i \in DOMAIN ids |-> LocalApic(ids[i])]

Madt(page, entries) ==
    [signature |-> "APIC", page |-> page, sum |-> 0, local_apic |-> 62, entries |-> entries]
OtherTable(page) == [signature |-> "FACP", page |-> page, sum |-> 0]

Machine(ids, there, overrides) ==
    [rsdp |-> TRUE, rsdp_sum |-> 0, rsdt |-> 20, phys_page_num |-> 64,
     tables |-> <<OtherTable(20),
                  Madt(20, Cpu(ids) \o <<[type |-> "NMI"], IoApicEntry>> \o overrides)>>,
     bsp_id |-> 0, present |-> there]

\* Three CPUs, all there, and the override that every PC has.
Usual == Machine(<<0, 1, 2>>, {0, 1, 2}, <<Override(0, 2, 0, 0)>>)

\* One thing differs at a time: memory (from room to spare to too much for the early
\* heap), the tables, the processors, the routing.  No table lies at a physical address
\* that is also one of the higher half, where the identity mapping would replace the
\* kernel's.
MCFirmware ==
    {[Usual EXCEPT !.phys_page_num = n] : n \in {32, 39, 64, 96, 104, 320}}
    \cup {[Usual EXCEPT !.rsdt = p, !.tables = <<OtherTable(p), [Usual.tables[2] EXCEPT !.page = q]>>] :
              p \in {2, 6, 20, 58}, q \in {2, 20, 21, 58}}
    \cup {[Usual EXCEPT !.phys_page_num = 32, !.rsdt = p] : p \in {50, 58}}
    \cup {[Usual EXCEPT !.rsdp = FALSE], [Usual EXCEPT !.rsdp_sum = 1],
          [Usual EXCEPT !.tables[2].sum = 1], [Usual EXCEPT !.bsp_id = 1]}
    \cup {Machine(ids, {0, 1, 2, 3}, <<>>) :
              ids \in {<<0>>, <<0, 1>>, <<1, 0, 2>>, <<0, 1, 3>>, <<0, 1, 2, 3>>, <<1, 2, 3, 0>>}}
    \cup {Machine(<<0, 1, 2>>, there, <<>>) : there \in {{0}, {0, 1}, {0, 2}}}
    \cup {Machine(<<0>>, {0}, <<Override(s, i, 3, t)>>) : s \in 0 .. 4, i \in 0 .. 3, t \in {1, 3}}
    \cup {Machine(<<0>>, {0}, <<Override(s[1], i[1], 0, 0), Override(s[2], i[2], 1, 3)>>) :
              s \in {x \in (0 .. 3) \X (0 .. 3) : x[1] # x[2]},
              i \in {x \in (0 .. 3) \X (0 .. 3) : x[1] # x[2]}}

MCSources == {32, 47, 50, 252}
MCCpus == {c1, c2}
MCThreads == {t1, t2, t3}
MCFirst == [c \in MCCpus |-> IF c = c1 THEN t1 ELSE t2]

Init ==
    /\ part \in {"boot", "trap", "switch", "screen", "circ_buf"}
    /\ BootInit /\ (part # "boot" => fw = Usual)
    /\ TrapInit
    /\ ContextInit
    /\ TerminalInit
    /\ init_circ_buf /\ (part # "circ_buf" => \A i, j \in 0 .. size - 1 : buf[i] = buf[j])

BspMoves == part = "boot" /\ kmain /\ UNCHANGED <<part, trapVars, contextVars, screenVars, circVars>>

ApMoves(a) ==
    part = "boot" /\ BootAp(a) /\ UNCHANGED <<part, trapVars, contextVars, screenVars, circVars>>

Interrupts(step) ==
    part = "trap" /\ step /\ UNCHANGED <<part, bootVars, contextVars, screenVars, circVars>>

Next ==
    \/ BspMoves
    \/ \E a \in ApicIds : ApMoves(a)
    \/ Interrupts(TrapNext)
    \/ /\ part = "switch" /\ ContextNext
       /\ UNCHANGED <<part, bootVars, trapVars, screenVars, circVars>>
    \/ /\ part = "screen" /\ TerminalNext
       /\ UNCHANGED <<part, bootVars, trapVars, contextVars, circVars>>
    \/ /\ part = "circ_buf" /\ CircBufNext
       /\ UNCHANGED <<part, bootVars, trapVars, contextVars, screenVars>>

Spec ==
    /\ Init /\ [][Next]_kernelVars
    /\ WF_kernelVars(BspMoves)
    /\ \A a \in ApicIds : WF_kernelVars(ApMoves(a))
    /\ SF_kernelVars(Interrupts(Deliver(APIC_TIMER_IRQ)))

-----------------------------------------------------------------------------
\* The type invariant of the parts: what the counters and the program counters range
\* over.
KernelTypeOK ==
    /\ early_heap_ptr \in Nat /\ warned \in BOOLEAN
    /\ kernel_dir \in Nat \cup {NoDir}
    /\ Len(apic_cpu_ids) <= MAX_CPU_COUNT
    /\ bsp \in {"pick", "startup", "wait", "done"}
    /\ ap_cpu_id \in 0 .. MAX_CPU_COUNT
    /\ DOMAIN redir = IoApicPins
    /\ irr \subseteq Sources /\ isr \subseteq Sources
    /\ vector \in Sources \cup {Idle, APIC_SPURIOUS_IRQ}
    /\ saved \in [Threads -> [Registers -> {"own", "old"}]]
    /\ curr_index \in 0 .. size - 1 /\ curr_size \in 0 .. size
    /\ {log_count, printed} \subseteq 0 .. Messages
=============================================================================
