--------------------------------- MODULE Smp ---------------------------------
(***************************************************************************)
(* The start of the application processors: the loop of init_smp on the    *)
(* BSP (arch/smp.c), and what each AP does from the STARTUP it receives to *)
(* the scheduler (the trampoline of boot/boot.s, init_ap, ap_kmain).  A    *)
(* listed CPU may be absent (parse_processor_table keeps disabled entries) *)
(* and a STARTUP may be lost: the pause after INIT is commented out and    *)
(* nothing is sent twice.                                                  *)
(***************************************************************************)
EXTENDS Integers, Sequences

CONSTANTS
    ApicIds,
    BSP,                \* lapic_get_id() of the processor that boots
    MAX_CPU_COUNT

ASSUME SmpAssumption ==
    /\ ApicIds \subseteq Nat
    /\ BSP \in ApicIds
    /\ MAX_CPU_COUNT \in Nat \ {0}

VARIABLES
    apic_cpu_ids,       \* the CPUs listed by ACPI, in order
    present,            \* the CPUs there are
    bsp,                \* where the BSP is in the loop
    next,               \* the loop's i, from 1
    active_cpus,
    ap_cpu_id,          \* the word of the trampoline that the APs count themselves in
    ap,                 \* where each AP is
    slot                \* esi: the index of its stack

smpVars == <<apic_cpu_ids, present, bsp, next, active_cpus, ap_cpu_id, ap, slot>>

None == -1

\* apic_cpu_ids holds at most MAX_CPU_COUNT ids; the firmware lists a CPU once.
IdLists == {ids \in Seq(ApicIds) :
                /\ Len(ids) <= MAX_CPU_COUNT
                /\ \A i, j \in 1 .. Len(ids) : i # j => ids[i] # ids[j]}

SmpInit ==
    /\ apic_cpu_ids \in IdLists
    /\ present \in SUBSET ApicIds
    /\ bsp = "pick"
    /\ next = 1
    /\ active_cpus = 1
    /\ ap_cpu_id = 0
    /\ ap = [a \in ApicIds |-> "off"]
    /\ slot = [a \in ApicIds |-> None]

-----------------------------------------------------------------------------
(* The BSP. *)

SkipBsp ==
    /\ bsp = "pick"
    /\ next <= Len(apic_cpu_ids)
    /\ apic_cpu_ids[next] = BSP
    /\ next' = next + 1
    /\ UNCHANGED <<apic_cpu_ids, present, bsp, active_cpus, ap_cpu_id, ap, slot>>

Reaches(signal) ==
    ap' = [ap EXCEPT ![apic_cpu_ids[next]] = signal]

\* INIT resets a CPU that is there.
lapic_send_init ==
    /\ bsp = "pick"
    /\ next <= Len(apic_cpu_ids)
    /\ apic_cpu_ids[next] # BSP
    /\ bsp' = "startup"
    /\ IF apic_cpu_ids[next] \in present THEN Reaches("init") ELSE UNCHANGED ap
    /\ UNCHANGED <<apic_cpu_ids, present, next, active_cpus, ap_cpu_id, slot>>

\* STARTUP starts a CPU that waits for it, if it comes through.
lapic_send_startup ==
    /\ bsp = "startup"
    /\ bsp' = "wait"
    /\ \/ ap[apic_cpu_ids[next]] = "init" /\ Reaches("started")
       \/ UNCHANGED ap
    /\ UNCHANGED <<apic_cpu_ids, present, next, active_cpus, ap_cpu_id, slot>>

\* Faulty form: the BSP does not wait.
wait_counted_Any ==
    /\ bsp = "wait"
    /\ bsp' = "pick"
    /\ next' = next + 1
    /\ active_cpus' = active_cpus + 1
    /\ UNCHANGED <<apic_cpu_ids, present, ap_cpu_id, ap, slot>>

\* Faulty form: active_cpus is not counted up.
wait_counted_Once ==
    /\ bsp = "wait"
    /\ ap_cpu_id = active_cpus
    /\ bsp' = "pick"
    /\ next' = next + 1
    /\ UNCHANGED <<apic_cpu_ids, present, active_cpus, ap_cpu_id, ap, slot>>

\* while (ap_cpu_id != active_cpus);
wait_counted ==
    /\ bsp = "wait"
    /\ ap_cpu_id = active_cpus
    /\ bsp' = "pick"
    /\ next' = next + 1
    /\ active_cpus' = active_cpus + 1
    /\ UNCHANGED <<apic_cpu_ids, present, ap_cpu_id, ap, slot>>

init_smp_returns ==
    /\ bsp = "pick"
    /\ next > Len(apic_cpu_ids)
    /\ bsp' = "done"
    /\ UNCHANGED <<apic_cpu_ids, present, next, active_cpus, ap_cpu_id, ap, slot>>

BspStep ==
    SkipBsp \/ lapic_send_init \/ lapic_send_startup \/ wait_counted \/ init_smp_returns

-----------------------------------------------------------------------------
(* An AP. *)

\* Faulty form: the id that counts the BSP as 0 picks the stack.
ap_start_Incremented(a) ==
    /\ ap[a] = "started"
    /\ slot' = [slot EXCEPT ![a] = ap_cpu_id + 1]
    /\ ap_cpu_id' = ap_cpu_id + 1
    /\ ap' = [ap EXCEPT ![a] = "counted"]
    /\ UNCHANGED <<apic_cpu_ids, present, bsp, next, active_cpus>>

\* lock xadd, and esp from ap_init_stacks
ap_start(a) ==
    /\ ap[a] = "started"
    /\ slot' = [slot EXCEPT ![a] = ap_cpu_id]
    /\ ap_cpu_id' = ap_cpu_id + 1
    /\ ap' = [ap EXCEPT ![a] = "counted"]
    /\ UNCHANGED <<apic_cpu_ids, present, bsp, next, active_cpus>>

\* lapic_cpu_init and enable_int
init_ap(a) ==
    /\ ap[a] = "counted"
    /\ ap' = [ap EXCEPT ![a] = "interruptible"]
    /\ UNCHANGED <<apic_cpu_ids, present, bsp, next, active_cpus, ap_cpu_id, slot>>

\* scheduler_init asks processor_get_info, whose ASSERT is about the APIC id.
ap_kmain(a) ==
    /\ ap[a] = "interruptible"
    /\ ap' = [ap EXCEPT ![a] = IF a < MAX_CPU_COUNT THEN "scheduler" ELSE "panic"]
    /\ UNCHANGED <<apic_cpu_ids, present, bsp, next, active_cpus, ap_cpu_id, slot>>

ApStep(a) == ap_start(a) \/ init_ap(a) \/ ap_kmain(a)

SmpNext == BspStep \/ \E a \in ApicIds : ApStep(a)

SmpSpec == SmpInit /\ [][SmpNext]_smpVars

-----------------------------------------------------------------------------
\* "We use this ID to get stacks that we assign to each processor" (boot/boot.s): no
\* two APs ever have the same stack, and the stack is one of the apic_cpu_count for
\* which init_smp took pages, although the table it fills has MAX_CPU_COUNT.
ApOwnsStack ==
    /\ \A a, b \in ApicIds : a # b /\ slot[a] # None => slot[a] # slot[b]
    /\ \A a \in ApicIds : slot[a] < Len(apic_cpu_ids)

\* The BSP only goes on to the next CPU of the list when the one it started has
\* counted itself: the counter it waits for says who is up, not only how many.
WaitMeansCounted ==
    \A i \in 1 .. next - 1 :
        apic_cpu_ids[i] # BSP => /\ slot[apic_cpu_ids[i]] # None
                                 /\ ap[apic_cpu_ids[i]] \notin {"off", "init", "started"}
=============================================================================
