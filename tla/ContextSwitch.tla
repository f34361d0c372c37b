---------------------------- MODULE ContextSwitch ----------------------------
(***************************************************************************)
(* What becomes of a thread's registers when it leaves the processor and   *)
(* comes back: save_register_state and scheduler_yield of                  *)
(* kernel/scheduler.c, thread_switch_sync and thread_switch_async of       *)
(* arch/thread_switch.s.  A register holds the thread's own value of the   *)
(* moment it left, an old one of the thread, or something else.  Which     *)
(* thread comes next is any that is ready; the order is Scheduler's.       *)
(***************************************************************************)
EXTENDS Integers

CONSTANTS Cpus, Threads, first      \* first: the thread each processor starts with

ASSUME ContextSwitchAssumption ==
    /\ first \in [Cpus -> Threads]
    /\ \A c, d \in Cpus : first[c] = first[d] => c = d

Registers ==
    {"eax", "ebx", "ecx", "edx", "esi", "edi", "ebp", "esp", "eip", "eflags"}

VARIABLES
    ready,
    current,    \* current_thread of each processor
    switch,     \* "none", or the switch that a processor is in
    saved,      \* cpu_state of each thread
    left,       \* how each thread left: "new", "preempted" or "yielded"
    regs        \* the registers with which the current thread came back

contextVars == <<ready, current, switch, saved, left, regs>>

OwnValues == [r \in Registers |-> "own"]

\* thread_create_thread and _thread_enter
ContextInit ==
    /\ current = first
    /\ ready = Threads \ {first[c] : c \in Cpus}
    /\ switch = [c \in Cpus |-> "none"]
    /\ saved = [t \in Threads |-> OwnValues]
    /\ left = [t \in Threads |-> "new"]
    /\ regs = [c \in Cpus |-> OwnValues]

-----------------------------------------------------------------------------
\* The thread is ready again, for every processor, before this one has left it.
Leave(c, to, how, state) ==
    /\ switch[c] = "none"
    /\ to \in ready
    /\ ready' = (ready \ {to}) \cup {current[c]}
    /\ current' = [current EXCEPT ![c] = to]
    /\ saved' = [saved EXCEPT ![current[c]] = state]
    /\ left' = [left EXCEPT ![current[c]] = how]
    /\ UNCHANGED regs

\* Faulty form: only what scheduler_yield would save.
save_register_state_Frame(thread) ==
    [r \in Registers |-> IF r \in {"ebp", "esp", "eip", "eflags"} THEN "own" ELSE "old"]

save_register_state(thread) == OwnValues

scheduler_async_enter(c, to) ==
    /\ Leave(c, to, "preempted", save_register_state(current[c]))
    /\ switch' = [switch EXCEPT ![c] = "async"]

\* "All other general registers dont matter": their old values stay in cpu_state.
scheduler_yield(c, to) ==
    /\ Leave(c, to, "yielded",
             [r \in Registers |-> IF r \in {"ebp", "esp", "eip", "eflags"} THEN "own" ELSE "old"])
    /\ switch' = [switch EXCEPT ![c] = "sync"]

Enter(c, values) ==
    /\ regs' = [regs EXCEPT ![c] = values]
    /\ switch' = [switch EXCEPT ![c] = "none"]
    /\ UNCHANGED <<ready, current, saved, left>>

\* eflags are not loaded.
thread_switch_sync(c) ==
    /\ switch[c] = "sync"
    /\ Enter(c, [saved[current[c]] EXCEPT !["eflags"] = "other"])

\* esi is loaded, and then used to load cr0 and cr2; the eflags are those of the thread
\* that was interrupted.
thread_switch_async(c) ==
    /\ switch[c] = "async"
    /\ Enter(c, [saved[current[c]] EXCEPT !["eflags"] = "other", !["esi"] = "other"])

ContextNext ==
    \E c \in Cpus :
        \/ \E to \in ready : scheduler_async_enter(c, to) \/ scheduler_yield(c, to)
        \/ thread_switch_sync(c)
        \/ thread_switch_async(c)

ContextSpec == ContextInit /\ [][ContextNext]_contextVars

-----------------------------------------------------------------------------
\* arch/thread_switch.s: a thread resumes "just as if it was always returning from an
\* interrupt", and its eflags are the ones that get "popped by iret": one that a timer
\* interrupt stopped between two instructions finds every register as it was.
ResumesAsFromInterrupt ==
    \A c \in Cpus :
        switch[c] = "none" /\ left[current[c]] = "preempted" => regs[c] = OwnValues

\* No more than esi and eflags is lost of a thread that was preempted, whichever processor
\* resumes it and by whichever switch, although what a yield saves is less and stays in
\* the same cpu_state; one that yielded finds its stack, its frame and the place where it
\* left.
PreemptedResumesIntact ==
    \A c \in Cpus :
        switch[c] = "none" =>
            /\ left[current[c]] = "preempted" =>
                  \A r \in Registers \ {"eflags", "esi"} : regs[c][r] = "own"
            /\ \A r \in {"esp", "ebp", "eip"} : regs[c][r] = "own"
=============================================================================
