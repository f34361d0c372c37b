----------------------------- MODULE Scheduler -----------------------------
(***************************************************************************)
(* The preemptive multi-core scheduler: kernel/scheduler.c with the thread *)
(* bring-up of kernel/thread.c, the context switches of                    *)
(* arch/thread_switch.s, the local APIC timer interrupt and the spinlock   *)
(* sched_lock.                                                             *)
(*                                                                         *)
(* Every CPU has a program counter.  A step is a piece of code between two *)
(* points where another CPU, or a timer interrupt on the same CPU, can     *)
(* make a difference: taking or releasing sched_lock, switching interrupts *)
(* on or off, leaving a stack.                                             *)
(***************************************************************************)
EXTENDS Naturals, Sequences, FiniteSets

CONSTANTS
    Cpu,        \* the processors
    Bsp,        \* the boot processor, the one whose proc->id is 0
    Thread,     \* every thread that can be created
    Idle,       \* Idle[c] is the idle thread that CPU c creates
    NoThread    \* NULL, and the owner of a CPU's boot stack

ASSUME CpuAssumption == Bsp \in Cpu
ASSUME ThreadAssumption == NoThread \notin Thread
ASSUME IdleAssumption ==
    /\ Idle \in [Cpu -> Thread]
    /\ \A c, d \in Cpu : Idle[c] = Idle[d] => c = d

IdleThreads == {Idle[c] : c \in Cpu}

\* Threads that the boot processor can queue in scheduler_init.
Workers == Thread \ IdleThreads

VARIABLES
    sched_lock,       \* "FREE" or "BUSY"
    ready_list,       \* the FIFO of runnable threads
    scheduler_ready,  \* set by the boot processor, awaited by all
    state,            \* tib_t.state, "NONE" before thread_create_thread
    is_active,        \* tib_t.is_active
    context,          \* where cpu_state resumes a thread; "NONE": live on a CPU
    pc,               \* what each CPU executes next
    intr,             \* the point a timer interrupt interrupted
    int_on,           \* eflags.IF
    timer_on,         \* the local APIC timer is unmasked
    in_scheduler,     \* processor_t.in_scheduler
    current_thread,   \* processor_t.current_thread
    from_thread,      \* locals of scheduler_yield and scheduler_async_enter
    to_thread,
    stack,            \* the thread on whose stack the CPU executes
    smashed,          \* another CPU entered the stack this CPU executes on
    undefined         \* a CPU took its next instruction from a smashed stack

lockVars   == <<sched_lock, ready_list, scheduler_ready>>
threadVars == <<state, is_active, context>>
irqVars    == <<intr, int_on, timer_on>>
procVars   == <<in_scheduler, current_thread, from_thread, to_thread>>
stackVars  == <<stack, smashed, undefined>>
vars == <<lockVars, threadVars, pc, irqVars, procVars, stackVars>>

BootPc     == {"init", "wait_ready", "boot_lock", "boot_idle", "timer_on"}
YieldPc    == {"yield_lock", "yield_pull", "sync_save", "sync_queue",
               "sync_unlock", "sync_load"}
AsyncPc    == {"async_lock", "async_pull", "async_leave", "async_queue",
               "async_unlock", "async_load"}
LeavePc    == {"leave", "sti"}
Pc         == BootPc \cup YieldPc \cup AsyncPc \cup LeavePc \cup {"run", "panic"}

\* The code between spin_lock(&sched_lock) and spin_unlock(&sched_lock).
CriticalPc == {"boot_idle", "timer_on", "leave", "yield_pull", "sync_save",
               "sync_queue", "sync_unlock", "async_pull", "async_leave",
               "async_queue", "async_unlock"}

\* CPU c is at l, and no CPU has gone astray on a smashed stack.
At(c, l) == pc[c] = l /\ ~undefined

Goto(c, l) == pc' = [pc EXCEPT ![c] = l]

-----------------------------------------------------------------------------
(***************************************************************************)
(* Initially the boot processor enters scheduler_init with interrupts off  *)
(* (kmain), the others with interrupts on (init_ap), all on boot stacks.   *)
(***************************************************************************)
Init ==
    /\ sched_lock = "FREE"
    /\ ready_list = << >>
    /\ scheduler_ready = FALSE
    /\ state = [t \in Thread |-> "NONE"]
    /\ is_active = [t \in Thread |-> FALSE]
    /\ context = [t \in Thread |-> "NONE"]
    /\ pc = [c \in Cpu |-> IF c = Bsp THEN "init" ELSE "wait_ready"]
    /\ intr = [c \in Cpu |-> "run"]
    /\ int_on = [c \in Cpu |-> c # Bsp]
    /\ timer_on = [c \in Cpu |-> FALSE]
    /\ in_scheduler = [c \in Cpu |-> FALSE]
    /\ current_thread = [c \in Cpu |-> NoThread]
    /\ from_thread = [c \in Cpu |-> NoThread]
    /\ to_thread = [c \in Cpu |-> NoThread]
    /\ stack = [c \in Cpu |-> NoThread]
    /\ smashed = [c \in Cpu |-> FALSE]
    /\ undefined = FALSE

\* Faulty form: is_active is not cleared.
PushReadyThread_StillActive(t) ==
    /\ is_active' = is_active
    /\ state' = [state EXCEPT ![t] = "READY"]
    /\ ready_list' = Append(ready_list, t)

\* Faulty form: the thread goes to the front of the list.
PushReadyThread_AtFront(t) ==
    /\ is_active' = [is_active EXCEPT ![t] = FALSE]
    /\ state' = [state EXCEPT ![t] = "READY"]
    /\ ready_list' = <<t>> \o ready_list

\* scheduler_push_ready_thread
PushReadyThread(t) ==
    /\ is_active' = [is_active EXCEPT ![t] = FALSE]
    /\ state' = [state EXCEPT ![t] = "READY"]
    /\ ready_list' = Append(ready_list, t)

\* pull_next_runnable_thread on a list that is not empty; a failed ASSERT stops the CPU.
PullNextRunnable(c, next) ==
    LET t == Head(ready_list)
        ok == state[t] = "READY" /\ ~is_active[t]
    IN  /\ ready_list' = Tail(ready_list)
        /\ to_thread' = [to_thread EXCEPT ![c] = t]
        /\ state' = IF ok THEN [state EXCEPT ![t] = "RUNNING"] ELSE state
        /\ is_active' = IF ok THEN [is_active EXCEPT ![t] = TRUE] ELSE is_active
        /\ Goto(c, IF ok THEN next ELSE "panic")

-----------------------------------------------------------------------------
(***************************************************************************)
(* scheduler_init, _thread_enter and thread_enter                          *)
(***************************************************************************)

\* The boot processor creates a thread and queues it, without sched_lock.  The code
\* does so once (test_loop_1); here it may do so any number of times, also not at all,
\* so that pull_next_runnable_thread meets empty and longer lists.
CreateWorker(c, t) ==
    /\ At(c, "init")
    /\ state[t] = "NONE"
    /\ PushReadyThread(t)
    /\ context' = [context EXCEPT ![t] = "run"]
    /\ UNCHANGED <<sched_lock, scheduler_ready, pc, irqVars, procVars, stackVars>>

SchedulerReady(c) ==
    /\ At(c, "init")
    /\ scheduler_ready' = TRUE
    /\ Goto(c, "wait_ready")
    /\ UNCHANGED <<sched_lock, ready_list, threadVars, irqVars, procVars, stackVars>>

\* Leaves the wait loop and sets the timer up, masked.
WaitReady(c) ==
    /\ At(c, "wait_ready")
    /\ scheduler_ready
    /\ Goto(c, "boot_lock")
    /\ UNCHANGED <<lockVars, threadVars, irqVars, procVars, stackVars>>

\* Faulty form: the value that the exchange returns is not looked at.
SpinLock_NoTest(c) ==
    /\ sched_lock' = "BUSY"
    /\ \/ At(c, "boot_lock") /\ Goto(c, "boot_idle")
       \/ At(c, "yield_lock") /\ Goto(c, "yield_pull")
       \/ At(c, "async_lock") /\ Goto(c, "async_pull")
    /\ UNCHANGED <<ready_list, scheduler_ready, threadVars, irqVars, procVars, stackVars>>

\* The exchange in spin_lock that finds sched_lock free.  One that finds it busy,
\* and the reads of the inner loop, change nothing.
SpinLock(c) ==
    /\ sched_lock = "FREE"
    /\ sched_lock' = "BUSY"
    /\ \/ At(c, "boot_lock") /\ Goto(c, "boot_idle")
       \/ At(c, "yield_lock") /\ Goto(c, "yield_pull")
       \/ At(c, "async_lock") /\ Goto(c, "async_pull")
    /\ UNCHANGED <<ready_list, scheduler_ready, threadVars, irqVars, procVars, stackVars>>

\* Creates the idle thread as the running thread of this CPU and moves to its stack.
CreateIdle(c) ==
    /\ At(c, "boot_idle")
    /\ state' = [state EXCEPT ![Idle[c]] = "RUNNING"]
    /\ is_active' = [is_active EXCEPT ![Idle[c]] = TRUE]
    /\ current_thread' = [current_thread EXCEPT ![c] = Idle[c]]
    /\ stack' = [stack EXCEPT ![c] = Idle[c]]
    /\ Goto(c, "timer_on")
    /\ UNCHANGED <<lockVars, context, irqVars, in_scheduler, from_thread, to_thread,
                   smashed, undefined>>

\* thread_enter up to timer_lapic_start, sched_lock still held.
ThreadEnter(c) ==
    /\ At(c, "timer_on")
    /\ state' = [state EXCEPT ![current_thread[c]] = "RUNNING"]
    /\ timer_on' = [timer_on EXCEPT ![c] = TRUE]
    /\ Goto(c, "leave")
    /\ UNCHANGED <<lockVars, is_active, context, intr, int_on, procVars, stackVars>>

\* scheduler_leave up to its spin_unlock; EnableInt is its last call.
SchedulerLeave(c) ==
    /\ At(c, "leave")
    /\ in_scheduler' = [in_scheduler EXCEPT ![c] = FALSE]
    /\ sched_lock' = "FREE"
    /\ Goto(c, "sti")
    /\ UNCHANGED <<ready_list, scheduler_ready, threadVars, irqVars, current_thread,
                   from_thread, to_thread, stackVars>>

EnableInt(c) ==
    /\ At(c, "sti")
    /\ int_on' = [int_on EXCEPT ![c] = TRUE]
    /\ Goto(c, "run")
    /\ UNCHANGED <<lockVars, threadVars, intr, timer_on, procVars, stackVars>>

-----------------------------------------------------------------------------
(***************************************************************************)
(* scheduler_yield and thread_switch_sync, called by the idle loop         *)
(***************************************************************************)

\* Faulty form: no disable_int.
Yield_IntOn(c) ==
    /\ At(c, "run")
    /\ stack[c] \in IdleThreads
    /\ from_thread' = [from_thread EXCEPT ![c] = current_thread[c]]
    /\ state' = [state EXCEPT ![current_thread[c]] = "RUNNING"]
    /\ in_scheduler' = [in_scheduler EXCEPT ![c] = TRUE]
    /\ Goto(c, "yield_lock")
    /\ UNCHANGED <<lockVars, is_active, context, irqVars, current_thread,
                   to_thread, stackVars>>

\* Faulty form: neither disable_int nor in_scheduler.
Yield_Unguarded(c) ==
    /\ At(c, "run")
    /\ stack[c] \in IdleThreads
    /\ from_thread' = [from_thread EXCEPT ![c] = current_thread[c]]
    /\ state' = [state EXCEPT ![current_thread[c]] = "RUNNING"]
    /\ Goto(c, "yield_lock")
    /\ UNCHANGED <<lockVars, is_active, context, irqVars, in_scheduler, current_thread,
                   to_thread, stackVars>>

\* Interrupts off, in_scheduler set.  The ASSERT of scheduler_yield is an assignment.
Yield(c) ==
    /\ At(c, "run")
    /\ stack[c] \in IdleThreads
    /\ int_on' = [int_on EXCEPT ![c] = FALSE]
    /\ from_thread' = [from_thread EXCEPT ![c] = current_thread[c]]
    /\ state' = [state EXCEPT ![current_thread[c]] = "RUNNING"]
    /\ in_scheduler' = [in_scheduler EXCEPT ![c] = TRUE]
    /\ Goto(c, "yield_lock")
    /\ UNCHANGED <<lockVars, is_active, context, intr, timer_on, current_thread,
                   to_thread, stackVars>>

YieldNone(c) ==
    /\ At(c, "yield_pull")
    /\ ready_list = << >>
    /\ Goto(c, "leave")
    /\ UNCHANGED <<lockVars, threadVars, irqVars, procVars, stackVars>>

YieldPull(c) ==
    /\ At(c, "yield_pull")
    /\ ready_list # << >>
    /\ PullNextRunnable(c, "sync_save")
    /\ UNCHANGED <<sched_lock, scheduler_ready, context, irqVars, in_scheduler,
                   current_thread, from_thread, stackVars>>

\* Saves from_thread, esp, ebp and eip included, and sets current_thread.  Interrupts are
\* off already when thread_switch_sync begins with cli.
SyncSave(c) ==
    /\ At(c, "sync_save")
    /\ current_thread' = [current_thread EXCEPT ![c] = to_thread[c]]
    /\ context' = [context EXCEPT ![from_thread[c]] = "run"]
    /\ Goto(c, IF to_thread[c] # from_thread[c] THEN "sync_queue" ELSE "panic")
    /\ UNCHANGED <<lockVars, state, is_active, irqVars, in_scheduler, from_thread,
                   to_thread, stackVars>>

\* Faulty form: from_thread is not queued.
LeaveAndQueue_NoQueue(c) ==
    /\ At(c, "sync_queue")
    /\ in_scheduler' = [in_scheduler EXCEPT ![c] = FALSE]
    /\ Goto(c, "sync_unlock")
    /\ UNCHANGED <<lockVars, threadVars, irqVars, current_thread, from_thread,
                   to_thread, stackVars>>

\* scheduler_leave_and_queue up to its spin_unlock
LeaveAndQueue(c) ==
    LET t == from_thread[c]
        ok == is_active[t] /\ state[t] = "RUNNING"
    IN  /\ At(c, "sync_queue")
        /\ in_scheduler' = [in_scheduler EXCEPT ![c] = FALSE]
        /\ IF ok THEN PushReadyThread(t) ELSE UNCHANGED <<state, is_active, ready_list>>
        /\ Goto(c, IF ok THEN "sync_unlock" ELSE "panic")
        /\ UNCHANGED <<sched_lock, scheduler_ready, context, irqVars, current_thread,
                       from_thread, to_thread, stackVars>>

\* The spin_unlock of scheduler_leave_and_queue and of scheduler_async_leave.  The
\* CPU goes on executing on from_thread's stack.
SwitchUnlock(c) ==
    /\ sched_lock' = "FREE"
    /\ \/ At(c, "sync_unlock") /\ Goto(c, "sync_load")
       \/ At(c, "async_unlock") /\ Goto(c, "async_load")
    /\ in_scheduler' = [in_scheduler EXCEPT ![c] = FALSE]
    /\ UNCHANGED <<ready_list, scheduler_ready, threadVars, irqVars, current_thread,
                   from_thread, to_thread, stackVars>>

\* Faulty form: no sti, so the thread runs with interrupts off.
LoadContext_NoSti(c) ==
    LET t == to_thread[c]
    IN  /\ At(c, "sync_load") \/ At(c, "async_load")
        /\ stack' = [stack EXCEPT ![c] = t]
        /\ smashed' = [d \in Cpu |-> IF d = c THEN FALSE
                                     ELSE smashed[d] \/ stack[d] = t]
        /\ context' = [context EXCEPT ![t] = "NONE"]
        /\ Goto(c, context[t])
        /\ UNCHANGED <<lockVars, state, is_active, irqVars, procVars, undefined>>

\* The rest of thread_switch_sync and thread_switch_async: to_thread is read again
\* from from_thread's stack, its context is loaded, the stack is switched, interrupts
\* come back on.  A CPU still on the stack that is entered reads what this one writes.
LoadContext(c) ==
    LET t == to_thread[c]
    IN  /\ At(c, "sync_load") \/ At(c, "async_load")
        /\ stack' = [stack EXCEPT ![c] = t]
        /\ smashed' = [d \in Cpu |-> IF d = c THEN FALSE
                                     ELSE smashed[d] \/ stack[d] = t]
        /\ context' = [context EXCEPT ![t] = "NONE"]
        /\ int_on' = [int_on EXCEPT ![c] = TRUE]
        /\ Goto(c, context[t])
        /\ UNCHANGED <<lockVars, state, is_active, intr, timer_on, procVars, undefined>>

\* The same code on a smashed stack: return address and arguments are no longer this
\* CPU's, and nothing is said of the system from here on.
LoadSmashed(c) ==
    /\ At(c, "sync_load") \/ At(c, "async_load")
    /\ smashed[c]
    /\ undefined' = TRUE
    /\ UNCHANGED <<lockVars, threadVars, pc, irqVars, procVars, stack, smashed>>

-----------------------------------------------------------------------------
(***************************************************************************)
(* The timer interrupt: scheduler_async_enter and thread_switch_async      *)
(***************************************************************************)

\* An interrupt gate switches interrupts off.  A handler that finds in_scheduler set
\* returns and changes nothing.
TimerInterrupt(c) ==
    /\ ~undefined /\ int_on[c] /\ timer_on[c]
    /\ ~in_scheduler[c]
    /\ int_on' = [int_on EXCEPT ![c] = FALSE]
    /\ intr' = [intr EXCEPT ![c] = pc[c]]
    /\ Goto(c, "async_lock")
    /\ UNCHANGED <<lockVars, threadVars, timer_on, procVars, stackVars>>

AsyncNone(c) ==
    /\ At(c, "async_pull")
    /\ ready_list = << >>
    /\ Goto(c, "async_leave")
    /\ UNCHANGED <<lockVars, threadVars, irqVars, procVars, stackVars>>

AsyncPull(c) ==
    /\ At(c, "async_pull")
    /\ ready_list # << >>
    /\ PullNextRunnable(c, "async_queue")
    /\ UNCHANGED <<sched_lock, scheduler_ready, context, irqVars, in_scheduler,
                   current_thread, from_thread, stackVars>>

\* scheduler_async_leave with nothing to switch to, and the return from the interrupt
AsyncReturn(c) ==
    /\ At(c, "async_leave")
    /\ in_scheduler' = [in_scheduler EXCEPT ![c] = FALSE]
    /\ sched_lock' = "FREE"
    /\ int_on' = [int_on EXCEPT ![c] = TRUE]
    /\ Goto(c, intr[c])
    /\ UNCHANGED <<ready_list, scheduler_ready, threadVars, intr, timer_on,
                   current_thread, from_thread, to_thread, stackVars>>

\* Faulty form: the interrupted thread is queued without save_register_state.
AsyncQueue_NoSave(c) ==
    LET t == current_thread[c]
    IN  /\ At(c, "async_queue")
        /\ from_thread' = [from_thread EXCEPT ![c] = t]
        /\ current_thread' = [current_thread EXCEPT ![c] = to_thread[c]]
        /\ PushReadyThread(t)
        /\ Goto(c, IF t # to_thread[c] THEN "async_unlock" ELSE "panic")
        /\ UNCHANGED <<sched_lock, scheduler_ready, context, irqVars, in_scheduler,
                       to_thread, stackVars>>

\* Faulty form: the interrupted thread is queued, and returned to all the same.
AsyncQueue_NoSwitch(c) ==
    LET t == current_thread[c]
    IN  /\ At(c, "async_queue")
        /\ from_thread' = [from_thread EXCEPT ![c] = t]
        /\ context' = [context EXCEPT ![t] = intr[c]]
        /\ current_thread' = [current_thread EXCEPT ![c] = to_thread[c]]
        /\ PushReadyThread(t)
        /\ Goto(c, "async_leave")
        /\ UNCHANGED <<sched_lock, scheduler_ready, irqVars, in_scheduler, to_thread,
                       stackVars>>

\* save_register_state of the interrupted thread, which is then queued
AsyncQueue(c) ==
    LET t == current_thread[c]
    IN  /\ At(c, "async_queue")
        /\ from_thread' = [from_thread EXCEPT ![c] = t]
        /\ context' = [context EXCEPT ![t] = intr[c]]
        /\ current_thread' = [current_thread EXCEPT ![c] = to_thread[c]]
        /\ PushReadyThread(t)
        /\ Goto(c, IF t # to_thread[c] THEN "async_unlock" ELSE "panic")
        /\ UNCHANGED <<sched_lock, scheduler_ready, irqVars, in_scheduler, to_thread,
                       stackVars>>

-----------------------------------------------------------------------------
BootStep(c) ==
    \/ \E t \in Workers : CreateWorker(c, t)
    \/ SchedulerReady(c) \/ WaitReady(c) \/ CreateIdle(c) \/ ThreadEnter(c)

\* A step a CPU takes by itself; a timer interrupt comes from outside.
CpuStep(c) ==
    \/ BootStep(c)
    \/ SpinLock(c) \/ SchedulerLeave(c) \/ EnableInt(c)
    \/ Yield(c) \/ YieldNone(c) \/ YieldPull(c) \/ SyncSave(c) \/ LeaveAndQueue(c)
    \/ SwitchUnlock(c) \/ LoadContext(c) \/ LoadSmashed(c)
    \/ AsyncNone(c) \/ AsyncPull(c) \/ AsyncReturn(c) \/ AsyncQueue(c)

Next == \E c \in Cpu : CpuStep(c) \/ TimerInterrupt(c)

(***************************************************************************)
(* A CPU keeps executing, and its timer is periodic.  Nothing more is      *)
(* assumed: sched_lock is not fair, and a CPU may lose every race for it.  *)
(***************************************************************************)
Fairness == \A c \in Cpu : WF_vars(CpuStep(c)) /\ WF_vars(TimerInterrupt(c))

Spec == Init /\ [][Next]_vars
FairSpec == Spec /\ Fairness

-----------------------------------------------------------------------------
\* The points where a thread can be interrupted or left.
InterruptiblePc == {"run", "sti", "leave"}

\* Types of the variables.  In particular interrupts are never on with the timer
\* unmasked anywhere but in thread code and in the last lines of scheduler_leave.
TypeOK ==
    /\ sched_lock \in {"FREE", "BUSY"}
    /\ ready_list \in Seq(Thread)
    /\ scheduler_ready \in BOOLEAN
    /\ state \in [Thread -> {"NONE", "READY", "RUNNING"}]
    /\ is_active \in [Thread -> BOOLEAN]
    /\ context \in [Thread -> InterruptiblePc \cup {"NONE"}]
    /\ pc \in [Cpu -> Pc]
    /\ intr \in [Cpu -> InterruptiblePc]
    /\ int_on \in [Cpu -> BOOLEAN]
    /\ timer_on \in [Cpu -> BOOLEAN]
    /\ in_scheduler \in [Cpu -> BOOLEAN]
    /\ current_thread \in [Cpu -> Thread \cup {NoThread}]
    /\ from_thread \in [Cpu -> Thread \cup {NoThread}]
    /\ to_thread \in [Cpu -> Thread \cup {NoThread}]
    /\ stack \in [Cpu -> Thread \cup {NoThread}]
    /\ smashed \in [Cpu -> BOOLEAN]
    /\ undefined \in BOOLEAN

\* CPU c took sched_lock and has not released it; a timer interrupt may have
\* suspended the code that took it.
HoldsLock(c) ==
    \/ pc[c] \in CriticalPc
    \/ pc[c] = "async_lock" /\ intr[c] \in CriticalPc

\* The calls of linked_list.c on ready_list are in this code: under sched_lock, and at
\* boot before scheduler_ready is set.
UsesList(c) == HoldsLock(c) \/ pc[c] = "init"

\* sched_lock excludes: at most one CPU is between spin_lock and spin_unlock, timer
\* handlers that interrupted such code included, and the lock word says whether one is;
\* and none is while the boot processor queues threads without the lock.
MutualExclusion ==
    /\ \A c, d \in Cpu : UsesList(c) /\ UsesList(d) => c = d
    /\ sched_lock = "FREE" <=> \A c \in Cpu : ~HoldsLock(c)

InReady(t) == \E i \in DOMAIN ready_list : ready_list[i] = t

\* The thread a CPU has in hand between the ready list and current_thread.
InTransit(c, t) ==
    \/ pc[c] \in {"sync_save", "async_queue"} /\ to_thread[c] = t
    \/ pc[c] = "sync_queue" /\ from_thread[c] = t

Holds(c, t) == current_thread[c] = t \/ InTransit(c, t)

\* No thread is lost or duplicated by the pulls and pushes of scheduler_yield and
\* scheduler_async_enter: a created thread is once in ready_list or with one CPU.
ThreadInOnePlace ==
    \A t \in Thread : state[t] # "NONE" =>
        /\ InReady(t) <=> \A c \in Cpu : ~Holds(c, t)
        /\ \A c, d \in Cpu : Holds(c, t) /\ Holds(d, t) => c = d
        /\ \A i, j \in DOMAIN ready_list :
              ready_list[i] = t /\ ready_list[j] = t => i = j

\* A thread is queued only after save_register_state or thread_switch_sync stored
\* where it continues: no CPU can pull a thread whose cpu_state is out of date.
QueuedContextSaved ==
    \A t \in Thread : InReady(t) => context[t] # "NONE"

\* None of the ASSERTs of scheduler.c fails: a pulled thread is READY and inactive, a
\* queued one was RUNNING and active, and no thread is switched to itself.
NoPanic == \A c \in Cpu : pc[c] # "panic"

\* The timer handler of CPU c spins on sched_lock, which CPU c itself holds.
SelfDeadlock(c) == pc[c] = "async_lock" /\ HoldsLock(c)

\* A timer handler that interrupts the scheduler leaves at once instead of spinning
\* (the comment at the head of scheduler_async_enter).
NoSelfDeadlock == \A c \in Cpu : ~SelfDeadlock(c)

\* A CPU can deadlock on itself only while it brings up its own idle thread, between
\* timer_lapic_start and scheduler_leave, and never the boot processor.
SelfDeadlockOnlyAtBoot ==
    \A c \in Cpu : SelfDeadlock(c) =>
        c # Bsp /\ current_thread[c] = Idle[c] /\ from_thread[c] = NoThread

\* No two CPUs execute on one thread's stack (thread_switch.s: "we are done with
\* from_thread" when the lock is released).
StackExclusive ==
    \A c, d \in Cpu : stack[c] = stack[d] /\ c # d => stack[c] = NoThread

\* Two CPUs share a stack only while one of them is between releasing sched_lock and
\* loading esp in thread_switch_sync or thread_switch_async.
StackSharedOnlyInSwitch ==
    \A c, d \in Cpu : stack[c] = stack[d] /\ c # d /\ stack[c] # NoThread =>
        \E e \in {c, d} : pc[e] \in {"sync_load", "async_load"}

OnCpu(t) == \E c \in Cpu : stack[c] = t /\ pc[c] \in {"run", "sti"}
Broken == undefined \/ \E c \in Cpu : SelfDeadlock(c)

\* No thread starves in ready_list, although sched_lock is unfair and test_loop_1
\* never yields: it gets a CPU, unless a stack was smashed or a CPU hung in bring-up.
ReadyThreadRuns == \A t \in Thread : InReady(t) ~> (OnCpu(t) \/ Broken)

-----------------------------------------------------------------------------
(***************************************************************************)
(* The scheduler implements RoundRobin.  A switch takes effect when its    *)
(* thread is pulled; until the thread given up is back in ready_list, the  *)
(* FIFO is ready_list with that thread behind it.                          *)
(***************************************************************************)
Switching == {"sync_save", "async_queue", "sync_queue"}

GivenUp(c) == IF pc[c] = "sync_queue" THEN from_thread[c] ELSE current_thread[c]

readyBar ==
    IF \E c \in Cpu : pc[c] \in Switching
    THEN Append(ready_list, GivenUp(CHOOSE c \in Cpu : pc[c] \in Switching))
    ELSE ready_list

runningBar == [c \in Cpu |-> IF pc[c] \in {"sync_save", "async_queue"}
                             THEN to_thread[c] ELSE current_thread[c]]

RR == INSTANCE RoundRobin WITH ready <- readyBar, running <- runningBar

\* Every step of every CPU is a step of the round robin or none at all, whatever the
\* interleaving of yields and timer interrupts.
ImplementsRoundRobin == RR!Spec

=============================================================================
