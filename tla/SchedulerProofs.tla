-------------------------- MODULE SchedulerProofs ---------------------------
(***************************************************************************)
(* Proofs about Scheduler for any set of CPUs and any set of threads: the  *)
(* inductive invariant, that the steps of a CPU up to a switch and those   *)
(* of the switch preserve it, the safety properties that follow from it,   *)
(* and that Scheduler implements RoundRobin.                               *)
(***************************************************************************)
EXTENDS Scheduler, TLAPS

PreBootPc == {"init", "wait_ready", "boot_lock", "boot_idle"}
LoadPc    == {"sync_load", "async_load"}
UnlockPc  == {"sync_unlock", "async_unlock"}
PulledPc  == {"sync_save", "async_queue"}

\* The lock word, and who is between spin_lock and spin_unlock.
LockInv ==
    /\ \A c, d \in Cpu : HoldsLock(c) /\ HoldsLock(d) => c = d
    /\ sched_lock = "FREE" <=> \A c \in Cpu : ~HoldsLock(c)

\* Only the boot processor queues threads without sched_lock, and no other CPU is past
\* the wait for scheduler_ready then.
BootInv ==
    /\ \A c \in Cpu : pc[c] = "init" => c = Bsp /\ ~scheduler_ready
    /\ ~scheduler_ready => \A c \in Cpu : pc[c] \in {"init", "wait_ready"}

\* Where interrupts are off, where in_scheduler can be set, what can be interrupted.
InterruptInv ==
    \A c \in Cpu :
        /\ timer_on[c] <=> pc[c] \notin BootPc
        /\ pc[c] \in YieldPc \cup AsyncPc => ~int_on[c]
        /\ in_scheduler[c] => /\ pc[c] \in YieldPc \cup {"leave"}
                              /\ pc[c] \notin UnlockPc \cup LoadPc
                              /\ ~int_on[c]
        /\ c = Bsp /\ pc[c] \in BootPc => ~int_on[c]
        /\ pc[c] \in BootPc => from_thread[c] = NoThread
        /\ pc[c] = "timer_on" => current_thread[c] = Idle[c]
        /\ \/ pc[c] = "leave" /\ int_on[c]
           \/ pc[c] = "async_lock" /\ intr[c] = "leave"
           => c # Bsp /\ current_thread[c] = Idle[c] /\ from_thread[c] = NoThread
        /\ pc[c] \in AsyncPc \ {"async_lock"} => intr[c] \in {"run", "sti"}

\* What the locals of a switch in progress say.
LocalInv ==
    \A c \in Cpu :
        /\ pc[c] \in PreBootPc <=> current_thread[c] = NoThread
        /\ pc[c] \in {"yield_lock", "yield_pull", "sync_save"}
           => from_thread[c] = current_thread[c]
        /\ pc[c] \in PulledPc => /\ to_thread[c] \in Thread
                                 /\ to_thread[c] # current_thread[c]
        /\ pc[c] = "sync_queue" \/ pc[c] \in UnlockPc \cup LoadPc
           => /\ from_thread[c] \in Thread
              /\ to_thread[c] = current_thread[c]
              /\ from_thread[c] # to_thread[c]

\* state, is_active, ready_list and the CPUs agree on where every thread is.
ReadyState   == \A t \in Thread : InReady(t) <=> state[t] = "READY"
RunningState == \A t \in Thread : state[t] = "RUNNING" <=> \E c \in Cpu : Holds(c, t)
OneHolder    == \A t \in Thread, c, d \in Cpu : Holds(c, t) /\ Holds(d, t) => c = d
OneSlot      == \A i, j \in DOMAIN ready_list : ready_list[i] = ready_list[j] => i = j
ActiveState  == \A t \in Thread : is_active[t] <=> state[t] = "RUNNING"
IdleState    == \A c \in Cpu : pc[c] \in PreBootPc <=> state[Idle[c]] = "NONE"

PlaceInv == /\ ReadyState /\ RunningState /\ OneHolder
            /\ OneSlot /\ ActiveState /\ IdleState

\* A thread that waits, or that a CPU is about to load, has a context to resume.
ContextInv ==
    /\ \A t \in Thread : context[t] \in {"NONE", "run", "sti"}
    /\ \A t \in Thread : InReady(t) => context[t] # "NONE"
    /\ \A c \in Cpu : pc[c] \in PulledPc \cup {"sync_queue"} \cup UnlockPc \cup LoadPc
                      => context[to_thread[c]] # "NONE"
    /\ \A c \in Cpu : pc[c] = "sync_queue" => context[from_thread[c]] # "NONE"

\* Whose stack a CPU is on.
StackInv ==
    \A c \in Cpu :
        /\ pc[c] \in PreBootPc => stack[c] = NoThread
        /\ pc[c] = "sync_queue" \/ pc[c] \in UnlockPc \cup LoadPc
           => stack[c] = from_thread[c]
        /\ pc[c] \in UnlockPc => \E t \in Thread : t = from_thread[c] /\ InReady(t)
        /\ pc[c] \notin PreBootPc \cup {"sync_queue"} \cup UnlockPc \cup LoadPc
           => stack[c] = current_thread[c]

IndInv ==
    /\ TypeOK /\ NoPanic /\ LockInv
    /\ BootInv /\ InterruptInv /\ LocalInv /\ PlaceInv /\ ContextInv /\ StackInv

-----------------------------------------------------------------------------
USE CpuAssumption, ThreadAssumption, IdleAssumption

\* Appending to ready_list makes one more thread ready, and keeps its entries distinct
\* when the thread was not there (linked_list_enqueue in scheduler_push_ready_thread).
LEMMA AppendReady ==
    ASSUME ready_list \in Seq(Thread), NEW t \in Thread,
           ready_list' = Append(ready_list, t)
    PROVE  /\ \A u \in Thread : InReady(u)' <=> InReady(u) \/ u = t
           /\ OneSlot /\ ~InReady(t) => OneSlot'
<1>1. /\ DOMAIN ready_list = 1..Len(ready_list)
      /\ DOMAIN ready_list' = 1..(Len(ready_list) + 1)
      /\ \A i \in 1..Len(ready_list) : ready_list'[i] = ready_list[i]
      /\ ready_list'[Len(ready_list) + 1] = t
      /\ Len(ready_list) \in Nat
    OBVIOUS
<1> QED
    BY <1>1 DEF InReady, OneSlot

\* Taking the head off ready_list makes that thread, and no other, not ready
\* (linked_list_pop in pull_next_runnable_thread).
LEMMA TailReady ==
    ASSUME ready_list \in Seq(Thread), ready_list # << >>, OneSlot,
           ready_list' = Tail(ready_list)
    PROVE  /\ Head(ready_list) \in Thread /\ InReady(Head(ready_list))
           /\ \A u \in Thread : InReady(u)' <=> InReady(u) /\ u # Head(ready_list)
           /\ OneSlot'
<1>1. /\ DOMAIN ready_list = 1..Len(ready_list)
      /\ DOMAIN ready_list' = 1..(Len(ready_list) - 1)
      /\ \A i \in 1..(Len(ready_list) - 1) : ready_list'[i] = ready_list[i + 1]
      /\ Head(ready_list) = ready_list[1]
      /\ Len(ready_list) \in Nat \ {0}
    OBVIOUS
<1>2. /\ Head(ready_list) \in Thread
      /\ InReady(Head(ready_list))
    BY <1>1 DEF InReady
<1>3. \A u \in Thread : InReady(u)' <=> InReady(u) /\ u # Head(ready_list)
  <2> TAKE u \in Thread
  <2>1. ASSUME InReady(u)' PROVE InReady(u) /\ u # Head(ready_list)
    <3>1. PICK i \in 1..(Len(ready_list) - 1) : ready_list[i + 1] = u
        BY <1>1, <2>1, Zenon DEF InReady
    <3> QED
        BY <1>1, <3>1 DEF InReady, OneSlot
  <2>2. ASSUME InReady(u), u # Head(ready_list) PROVE InReady(u)'
    <3>1. PICK i \in 1..Len(ready_list) : ready_list[i] = u
        BY <1>1, <2>2, Zenon DEF InReady
    <3>2. i - 1 \in DOMAIN ready_list' /\ ready_list'[i - 1] = u
        BY <1>1, <2>2, <3>1
    <3> QED
        BY <3>2, Zenon DEF InReady
  <2> QED
      BY <2>1, <2>2, Zenon
<1>4. OneSlot'
    BY <1>1 DEF OneSlot
<1> QED
    BY <1>2, <1>3, <1>4, Zenon

\* A step that only moves one CPU, and not in or out of a switch, keeps every thread
\* where it is.
LEMMA QuietStep ==
    ASSUME IndInv, NEW c \in Cpu, NEW l, pc' = [pc EXCEPT ![c] = l],
           UNCHANGED <<ready_list, state, is_active>>,
           current_thread' = current_thread,
           pc[c] \notin PulledPc \cup {"sync_queue"},
           l \notin PulledPc \cup {"sync_queue"},
           pc[c] \in PreBootPc <=> l \in PreBootPc,
           \A d \in Cpu \ {c} : /\ to_thread'[d] = to_thread[d]
                                /\ from_thread'[d] = from_thread[d]
    PROVE  PlaceInv'
<1>1. \A d \in Cpu, u \in Thread : Holds(d, u)' <=> Holds(d, u)
    BY Zenon DEF Holds, InTransit, IndInv, TypeOK, PulledPc
<1>2. RunningState' /\ OneHolder'
    BY <1>1, Zenon DEF IndInv, PlaceInv, RunningState, OneHolder
<1>3. ReadyState' /\ OneSlot' /\ ActiveState'
    BY DEF IndInv, PlaceInv, ReadyState, OneSlot, ActiveState, InReady
<1>4. IdleState'
    BY Zenon DEF IndInv, TypeOK, PlaceInv, IdleState
<1> QED
    BY <1>2, <1>3, <1>4, Zenon DEF PlaceInv


\* So does a step that changes nothing of where threads are.
LEMMA PlacesKept ==
    ASSUME PlaceInv,
           UNCHANGED <<ready_list, state, is_active, pc, current_thread, from_thread,
                       to_thread>>
    PROVE  PlaceInv'
<1>1. \A d \in Cpu, u \in Thread : Holds(d, u)' <=> Holds(d, u)
    BY Zenon DEF Holds, InTransit
<1>2. RunningState' /\ OneHolder'
    BY <1>1, Zenon DEF PlaceInv, RunningState, OneHolder
<1>3. ReadyState' /\ OneSlot'
    BY Zenon DEF PlaceInv, ReadyState, OneSlot, InReady
<1>4. ActiveState' /\ IdleState'
    BY Zenon DEF PlaceInv, ActiveState, IdleState
<1> QED
    BY <1>2, <1>3, <1>4, Zenon DEF PlaceInv

\* Boot, the lock, and what a CPU does in the scheduler until it has chosen a thread.
UpToSwitch(c) ==
    \/ \E t \in Workers : CreateWorker(c, t)
    \/ SchedulerReady(c) \/ WaitReady(c) \/ SpinLock(c) \/ CreateIdle(c)
    \/ ThreadEnter(c) \/ SchedulerLeave(c) \/ EnableInt(c) \/ Yield(c) \/ YieldNone(c)
    \/ YieldPull(c) \/ AsyncPull(c)

\* Those steps preserve the inductive invariant: one step of the proof per action, and
\* under it one per conjunct.
LEMMA UpToSwitchStep ==
    ASSUME IndInv, NEW k \in Cpu, UpToSwitch(k)
    PROVE  IndInv'
<1> USE DEF TypeOK, At, Goto, lockVars, threadVars, irqVars, procVars, stackVars, Pc, BootPc,
        YieldPc, AsyncPc, LeavePc, CriticalPc, InterruptiblePc, PreBootPc, LoadPc,
        UnlockPc, PulledPc
<1>0. /\ TypeOK /\ NoPanic /\ LockInv /\ BootInv /\ InterruptInv /\ LocalInv
      /\ ReadyState /\ RunningState /\ OneHolder /\ OneSlot /\ ActiveState /\ IdleState
      /\ ContextInv /\ StackInv
    BY Zenon DEF IndInv, PlaceInv
<1>1. ASSUME NEW c \in Cpu, NEW t \in Workers, CreateWorker(c, t)
      PROVE  IndInv'
  <2>1. /\ t \in Thread /\ ~InReady(t)
        /\ \A u \in Thread : InReady(u)' <=> InReady(u) \/ u = t
        /\ OneSlot'
      BY <1>0, <1>1, AppendReady, Zenon DEF CreateWorker, PushReadyThread, ReadyState, Workers
  <2>2. \A d \in Cpu, u \in Thread : Holds(d, u)' <=> Holds(d, u)
      BY <1>1, Zenon DEF CreateWorker, Holds, InTransit
  <2>3. TypeOK'
      BY <1>0, <1>1 DEF CreateWorker, Workers, PushReadyThread
  <2>4. NoPanic'
      BY <1>0, <1>1, Zenon DEF CreateWorker, NoPanic, PushReadyThread
  <2>5. LockInv'
      BY <1>0, <1>1, Zenon DEF CreateWorker, LockInv, HoldsLock, PushReadyThread
  <2>6. BootInv'
      BY <1>0, <1>1, Zenon DEF CreateWorker, BootInv, PushReadyThread
  <2>7. InterruptInv'
      BY <1>0, <1>1, Zenon DEF CreateWorker, InterruptInv, PushReadyThread
  <2>8. LocalInv'
      BY <1>0, <1>1, Zenon DEF CreateWorker, LocalInv, PushReadyThread
  <2>9. PlaceInv'
    <3>1. ReadyState' /\ ActiveState' /\ IdleState'
        BY <1>0, <1>1, <2>1 DEF CreateWorker, PushReadyThread, ReadyState, ActiveState,
           IdleState, Workers, IdleThreads
    <3>2. RunningState' /\ OneHolder'
        BY <1>0, <1>1, <2>2 DEF CreateWorker, PushReadyThread, RunningState, OneHolder, Workers
    <3> QED
        BY <2>1, <3>1, <3>2, Zenon DEF PlaceInv
  <2>10. ContextInv'
      BY <1>0, <1>1, <2>1 DEF CreateWorker, ContextInv, Workers, PushReadyThread
  <2>11. StackInv'
      BY <1>0, <1>1, <2>1, Zenon DEF CreateWorker, StackInv, PushReadyThread
  <2> QED
      BY <2>3, <2>4, <2>5, <2>6, <2>7, <2>8, <2>9, <2>10, <2>11, Zenon DEF IndInv
<1>2. ASSUME NEW c \in Cpu, SchedulerReady(c)
      PROVE  IndInv'
  <2>1. TypeOK'
      BY <1>0, <1>2, Zenon DEF SchedulerReady
  <2>2. NoPanic'
      BY <1>0, <1>2, Zenon DEF SchedulerReady, NoPanic
  <2>3. LockInv'
      BY <1>0, <1>2 DEF SchedulerReady, LockInv, HoldsLock
  <2>4. BootInv'
      BY <1>0, <1>2, Zenon DEF SchedulerReady, BootInv
  <2>5. InterruptInv'
      BY <1>0, <1>2 DEF SchedulerReady, InterruptInv
  <2>6. LocalInv'
      BY <1>0, <1>2 DEF SchedulerReady, LocalInv
  <2>7. PlaceInv'
      BY <1>2, QuietStep, Zenon DEF SchedulerReady, IndInv
  <2>8. ContextInv'
      BY <1>0, <1>2 DEF SchedulerReady, ContextInv, InReady
  <2>9. StackInv'
      BY <1>0, <1>2 DEF SchedulerReady, StackInv, InReady
  <2> QED
      BY <2>1, <2>2, <2>3, <2>4, <2>5, <2>6, <2>7, <2>8, <2>9, Zenon DEF IndInv
<1>3. ASSUME NEW c \in Cpu, WaitReady(c)
      PROVE  IndInv'
  <2>1. TypeOK'
      BY <1>0, <1>3, Zenon DEF WaitReady
  <2>2. NoPanic'
      BY <1>0, <1>3, Zenon DEF WaitReady, NoPanic
  <2>3. LockInv'
      BY <1>0, <1>3 DEF WaitReady, LockInv, HoldsLock
  <2>4. BootInv'
      BY <1>0, <1>3, Zenon DEF WaitReady, BootInv
  <2>5. InterruptInv'
      BY <1>0, <1>3 DEF WaitReady, InterruptInv
  <2>6. LocalInv'
      BY <1>0, <1>3 DEF WaitReady, LocalInv
  <2>7. PlaceInv'
      BY <1>3, QuietStep, Zenon DEF WaitReady, IndInv
  <2>8. ContextInv'
      BY <1>0, <1>3 DEF WaitReady, ContextInv, InReady
  <2>9. StackInv'
      BY <1>0, <1>3 DEF WaitReady, StackInv, InReady
  <2> QED
      BY <2>1, <2>2, <2>3, <2>4, <2>5, <2>6, <2>7, <2>8, <2>9 DEF IndInv
<1>4. ASSUME NEW c \in Cpu, SpinLock(c)
      PROVE  IndInv'
  <2>1. TypeOK'
      BY <1>0, <1>4, Zenon DEF SpinLock
  <2>2. NoPanic'
      BY <1>0, <1>4, Zenon DEF SpinLock, NoPanic
  <2>3. LockInv'
      BY <1>0, <1>4 DEF SpinLock, LockInv, HoldsLock
  <2>4. BootInv'
      BY <1>0, <1>4, Zenon DEF SpinLock, BootInv
  <2>5. InterruptInv'
      BY <1>0, <1>4 DEF SpinLock, InterruptInv, LockInv, HoldsLock
  <2>6. LocalInv'
      BY <1>0, <1>4 DEF SpinLock, LocalInv
  <2>7. PlaceInv'
      BY <1>4, QuietStep, Zenon DEF SpinLock, IndInv
  <2>8. ContextInv'
      BY <1>0, <1>4 DEF SpinLock, ContextInv, InReady
  <2>9. StackInv'
      BY <1>0, <1>4 DEF SpinLock, StackInv, InReady
  <2> QED
      BY <2>1, <2>2, <2>3, <2>4, <2>5, <2>6, <2>7, <2>8, <2>9 DEF IndInv
<1>5. ASSUME NEW c \in Cpu, CreateIdle(c)
      PROVE  IndInv'
  <2>1. /\ Idle[c] \in Thread /\ state[Idle[c]] = "NONE" /\ current_thread[c] = NoThread
        /\ \A d \in Cpu : ~Holds(d, Idle[c])
      BY <1>0, <1>5, Zenon DEF CreateIdle, IdleState, RunningState, LocalInv
  <2>2. \A u \in Thread : InReady(u)' <=> InReady(u)
      BY <1>5, Zenon DEF CreateIdle, InReady
  <2>3. \A d \in Cpu, u \in Thread : Holds(d, u)' <=> Holds(d, u) \/ (d = c /\ u = Idle[c])
      BY <1>0, <1>5, <2>1 DEF CreateIdle, Holds, InTransit
  <2>4. TypeOK'
      BY <1>0, <1>5, Zenon DEF CreateIdle
  <2>5. NoPanic'
      BY <1>0, <1>5, Zenon DEF CreateIdle, NoPanic
  <2>6. LockInv'
      BY <1>0, <1>5 DEF CreateIdle, LockInv, HoldsLock
  <2>7. BootInv'
      BY <1>0, <1>5, Zenon DEF CreateIdle, BootInv
  <2>8. InterruptInv'
      BY <1>0, <1>5 DEF CreateIdle, InterruptInv
  <2>9. LocalInv'
      BY <1>0, <1>5 DEF CreateIdle, LocalInv
  <2>10. PlaceInv'
    <3>1. ReadyState' /\ ActiveState' /\ OneSlot' /\ IdleState'
        BY <1>0, <1>5, <2>1, <2>2 DEF CreateIdle, ReadyState, ActiveState, OneSlot, IdleState
    <3>2. RunningState' /\ OneHolder'
        BY <1>0, <1>5, <2>1, <2>3 DEF CreateIdle, RunningState, OneHolder
    <3> QED
        BY <3>1, <3>2, Zenon DEF PlaceInv
  <2>11. ContextInv'
      BY <1>0, <1>5, <2>2, Zenon DEF CreateIdle, ContextInv
  <2>12. StackInv'
      BY <1>0, <1>5, <2>2, Zenon DEF CreateIdle, StackInv
  <2> QED
      BY <2>4, <2>5, <2>6, <2>7, <2>8, <2>9, <2>10, <2>11, <2>12 DEF IndInv
<1>6. ASSUME NEW c \in Cpu, ThreadEnter(c)
      PROVE  IndInv'
  <2>1. state' = state
      BY <1>0, <1>6 DEF ThreadEnter, InterruptInv, RunningState, Holds
  <2>2. TypeOK'
      BY <1>0, <1>6, <2>1, Zenon DEF ThreadEnter
  <2>3. NoPanic'
      BY <1>0, <1>6, <2>1, Zenon DEF ThreadEnter, NoPanic
  <2>4. LockInv'
      BY <1>0, <1>6, <2>1 DEF ThreadEnter, LockInv, HoldsLock
  <2>5. BootInv'
      BY <1>0, <1>6, <2>1, Zenon DEF ThreadEnter, BootInv
  <2>6. InterruptInv'
      BY <1>0, <1>6, <2>1 DEF ThreadEnter, InterruptInv
  <2>7. LocalInv'
      BY <1>0, <1>6, <2>1 DEF ThreadEnter, LocalInv
  <2>8. PlaceInv'
      BY <1>6, <2>1, QuietStep, Zenon DEF ThreadEnter, IndInv
  <2>9. ContextInv'
      BY <1>0, <1>6, <2>1 DEF ThreadEnter, ContextInv, InReady
  <2>10. StackInv'
      BY <1>0, <1>6, <2>1 DEF ThreadEnter, StackInv, InReady
  <2> QED
      BY <2>2, <2>3, <2>4, <2>5, <2>6, <2>7, <2>8, <2>9, <2>10 DEF IndInv
<1>7. ASSUME NEW c \in Cpu, SchedulerLeave(c)
      PROVE  IndInv'
  <2>1. TypeOK'
      BY <1>0, <1>7, Zenon DEF SchedulerLeave
  <2>2. NoPanic'
      BY <1>0, <1>7, Zenon DEF SchedulerLeave, NoPanic
  <2>3. LockInv'
      BY <1>0, <1>7 DEF SchedulerLeave, LockInv, HoldsLock
  <2>4. BootInv'
      BY <1>0, <1>7, Zenon DEF SchedulerLeave, BootInv
  <2>5. InterruptInv'
      BY <1>0, <1>7 DEF SchedulerLeave, InterruptInv
  <2>6. LocalInv'
      BY <1>0, <1>7 DEF SchedulerLeave, LocalInv
  <2>7. PlaceInv'
      BY <1>7, QuietStep, Zenon DEF SchedulerLeave, IndInv
  <2>8. ContextInv'
      BY <1>0, <1>7 DEF SchedulerLeave, ContextInv, InReady
  <2>9. StackInv'
      BY <1>0, <1>7 DEF SchedulerLeave, StackInv, InReady
  <2> QED
      BY <2>1, <2>2, <2>3, <2>4, <2>5, <2>6, <2>7, <2>8, <2>9 DEF IndInv
<1>8. ASSUME NEW c \in Cpu, EnableInt(c)
      PROVE  IndInv'
  <2>1. TypeOK'
      BY <1>0, <1>8, Zenon DEF EnableInt
  <2>2. NoPanic'
      BY <1>0, <1>8, Zenon DEF EnableInt, NoPanic
  <2>3. LockInv'
      BY <1>0, <1>8 DEF EnableInt, LockInv, HoldsLock
  <2>4. BootInv'
      BY <1>0, <1>8, Zenon DEF EnableInt, BootInv
  <2>5. InterruptInv'
      BY <1>0, <1>8 DEF EnableInt, InterruptInv
  <2>6. LocalInv'
      BY <1>0, <1>8 DEF EnableInt, LocalInv
  <2>7. PlaceInv'
      BY <1>8, QuietStep, Zenon DEF EnableInt, IndInv
  <2>8. ContextInv'
      BY <1>0, <1>8, ZenonT(30) DEF EnableInt, ContextInv, InReady
  <2>9. StackInv'
      BY <1>0, <1>8 DEF EnableInt, StackInv, InReady
  <2> QED
      BY <2>1, <2>2, <2>3, <2>4, <2>5, <2>6, <2>7, <2>8, <2>9 DEF IndInv
<1>9. ASSUME NEW c \in Cpu, Yield(c)
      PROVE  IndInv'
  <2>1. current_thread[c] \in Thread /\ state' = state
      BY <1>0, <1>9, SMTT(30) DEF Yield, LocalInv, RunningState, Holds
  <2>2. TypeOK'
      BY <1>0, <1>9, <2>1, Zenon DEF Yield
  <2>3. NoPanic'
      BY <1>0, <1>9, <2>1, Zenon DEF Yield, NoPanic
  <2>4. LockInv'
      BY <1>0, <1>9, <2>1 DEF Yield, LockInv, HoldsLock
  <2>5. BootInv'
      BY <1>0, <1>9, <2>1, Zenon DEF Yield, BootInv
  <2>6. InterruptInv'
      BY <1>0, <1>9, <2>1 DEF Yield, InterruptInv
  <2>7. LocalInv'
      BY <1>0, <1>9, <2>1 DEF Yield, LocalInv
  <2>8. PlaceInv'
      BY <1>9, <2>1, QuietStep, Zenon DEF Yield, IndInv
  <2>9. ContextInv'
      BY <1>0, <1>9, <2>1 DEF Yield, ContextInv, InReady
  <2>10. StackInv'
      BY <1>0, <1>9, <2>1 DEF Yield, StackInv, InReady
  <2> QED
      BY <2>2, <2>3, <2>4, <2>5, <2>6, <2>7, <2>8, <2>9, <2>10 DEF IndInv
<1>10. ASSUME NEW c \in Cpu, YieldNone(c)
      PROVE  IndInv'
  <2>1. TypeOK'
      BY <1>0, <1>10, Zenon DEF YieldNone
  <2>2. NoPanic'
      BY <1>0, <1>10, Zenon DEF YieldNone, NoPanic
  <2>3. LockInv'
      BY <1>0, <1>10 DEF YieldNone, LockInv, HoldsLock
  <2>4. BootInv'
      BY <1>0, <1>10, Zenon DEF YieldNone, BootInv
  <2>5. InterruptInv'
      BY <1>0, <1>10 DEF YieldNone, InterruptInv
  <2>6. LocalInv'
      BY <1>0, <1>10 DEF YieldNone, LocalInv
  <2>7. PlaceInv'
      BY <1>10, QuietStep, Zenon DEF YieldNone, IndInv
  <2>8. ContextInv'
      BY <1>0, <1>10 DEF YieldNone, ContextInv, InReady
  <2>9. StackInv'
      BY <1>0, <1>10 DEF YieldNone, StackInv, InReady
  <2> QED
      BY <2>1, <2>2, <2>3, <2>4, <2>5, <2>6, <2>7, <2>8, <2>9 DEF IndInv
<1>11. ASSUME NEW c \in Cpu, YieldPull(c)
      PROVE  IndInv'
  <2> DEFINE h == Head(ready_list)
  <2>1. /\ h \in Thread /\ InReady(h)
        /\ \A u \in Thread : InReady(u)' <=> InReady(u) /\ u # h
        /\ OneSlot'
      BY <1>0, <1>11, TailReady, Zenon DEF YieldPull, PullNextRunnable
  <2>2. state[h] = "READY" /\ ~is_active[h] /\ \A d \in Cpu : ~Holds(d, h)
      BY <1>0, <2>1, Zenon DEF ReadyState, ActiveState, RunningState
  <2>3. /\ state' = [state EXCEPT ![h] = "RUNNING"]
        /\ is_active' = [is_active EXCEPT ![h] = TRUE]
        /\ to_thread' = [to_thread EXCEPT ![c] = h]
        /\ pc' = [pc EXCEPT ![c] = "sync_save"]
      BY <1>11, <2>2, Zenon DEF YieldPull, PullNextRunnable
  <2>4. UNCHANGED <<sched_lock, scheduler_ready, context, irqVars, in_scheduler,
                    current_thread, from_thread, stackVars>> /\ pc[c] = "yield_pull"
      BY <1>11, Zenon DEF YieldPull
  <2>5. \A d \in Cpu, u \in Thread : Holds(d, u)' <=> Holds(d, u) \/ (d = c /\ u = h)
      BY <1>0, <2>1, <2>3, <2>4, Zenon DEF Holds, InTransit
  <2> HIDE DEF h
  <2>6. TypeOK'
    <3>1. ready_list' \in Seq(Thread)
        BY <1>0, <1>11 DEF YieldPull, PullNextRunnable
    <3> QED
        BY <1>0, <2>1, <2>3, <2>4, <3>1, Zenon
  <2>7. NoPanic'
      BY <1>0, <2>1, <2>3, <2>4, Zenon DEF NoPanic
  <2>8. LockInv'
      BY <1>0, <2>1, <2>3, <2>4 DEF LockInv, HoldsLock
  <2>9. BootInv'
      BY <1>0, <2>1, <2>3, <2>4, Zenon DEF BootInv
  <2>10. InterruptInv'
      BY <1>0, <2>1, <2>3, <2>4 DEF InterruptInv
  <2>11. LocalInv'
      BY <1>0, <2>1, <2>3, <2>4, <2>2 DEF LocalInv, Holds
  <2>12. PlaceInv'
    <3>1. ReadyState' /\ ActiveState' /\ IdleState'
        BY <1>0, <2>1, <2>2, <2>3, <2>4 DEF ReadyState, ActiveState, IdleState
    <3>2. RunningState' /\ OneHolder'
        BY <1>0, <2>1, <2>2, <2>3, <2>5 DEF RunningState, OneHolder
    <3> QED
        BY <2>1, <3>1, <3>2, Zenon DEF PlaceInv
  <2>13. ContextInv'
      BY <1>0, <2>1, <2>3, <2>4, ZenonT(30) DEF ContextInv
  <2>14. StackInv'
    <3>1. \A d \in Cpu : pc[d] \in UnlockPc => d = c
        BY <1>0, <2>4, Zenon DEF LockInv, HoldsLock
    <3> QED
        BY <1>0, <2>1, <2>3, <2>4, <3>1, ZenonT(30) DEF StackInv
  <2> QED
      BY <2>6, <2>7, <2>8, <2>9, <2>10, <2>11, <2>12, <2>13, <2>14 DEF IndInv
<1>12. ASSUME NEW c \in Cpu, AsyncPull(c)
      PROVE  IndInv'
  <2> DEFINE h == Head(ready_list)
  <2>1. /\ h \in Thread /\ InReady(h)
        /\ \A u \in Thread : InReady(u)' <=> InReady(u) /\ u # h
        /\ OneSlot'
      BY <1>0, <1>12, TailReady, Zenon DEF AsyncPull, PullNextRunnable
  <2>2. state[h] = "READY" /\ ~is_active[h] /\ \A d \in Cpu : ~Holds(d, h)
      BY <1>0, <2>1 DEF ReadyState, ActiveState, RunningState
  <2>3. /\ state' = [state EXCEPT ![h] = "RUNNING"]
        /\ is_active' = [is_active EXCEPT ![h] = TRUE]
        /\ to_thread' = [to_thread EXCEPT ![c] = h]
        /\ pc' = [pc EXCEPT ![c] = "async_queue"]
      BY <1>12, <2>2, Zenon DEF AsyncPull, PullNextRunnable
  <2>4. UNCHANGED <<sched_lock, scheduler_ready, context, irqVars, in_scheduler,
                    current_thread, from_thread, stackVars>> /\ pc[c] = "async_pull"
      BY <1>12, Zenon DEF AsyncPull
  <2>5. \A d \in Cpu, u \in Thread : Holds(d, u)' <=> Holds(d, u) \/ (d = c /\ u = h)
      BY <1>0, <2>1, <2>3, <2>4, Zenon DEF Holds, InTransit
  <2> HIDE DEF h
  <2>6. TypeOK'
    <3>1. ready_list' \in Seq(Thread)
        BY <1>0, <1>12 DEF AsyncPull, PullNextRunnable
    <3> QED
        BY <1>0, <2>1, <2>3, <2>4, <3>1, Zenon
  <2>7. NoPanic'
      BY <1>0, <2>1, <2>3, <2>4, Zenon DEF NoPanic
  <2>8. LockInv'
      BY <1>0, <2>1, <2>3, <2>4 DEF LockInv, HoldsLock
  <2>9. BootInv'
      BY <1>0, <2>1, <2>3, <2>4, Zenon DEF BootInv
  <2>10. InterruptInv'
      BY <1>0, <2>1, <2>3, <2>4 DEF InterruptInv
  <2>11. LocalInv'
      BY <1>0, <2>1, <2>3, <2>4, <2>2 DEF LocalInv, Holds
  <2>12. PlaceInv'
    <3>1. ReadyState' /\ ActiveState' /\ IdleState'
        BY <1>0, <2>1, <2>2, <2>3, <2>4 DEF ReadyState, ActiveState, IdleState
    <3>2. RunningState' /\ OneHolder'
        BY <1>0, <2>1, <2>2, <2>3, <2>5 DEF RunningState, OneHolder
    <3> QED
        BY <2>1, <3>1, <3>2 DEF PlaceInv
  <2>13. ContextInv'
      BY <1>0, <2>1, <2>3, <2>4 DEF ContextInv
  <2>14. StackInv'
    <3>1. \A d \in Cpu : pc[d] \in UnlockPc => d = c
        BY <1>0, <2>4, Zenon DEF LockInv, HoldsLock
    <3> QED
        BY <1>0, <2>1, <2>3, <2>4, <3>1, Zenon DEF StackInv
  <2> QED
      BY <2>6, <2>7, <2>8, <2>9, <2>10, <2>11, <2>12, <2>13, <2>14 DEF IndInv
<1> QED
    BY <1>1, <1>2, <1>3, <1>4, <1>5, <1>6, <1>7, <1>8, <1>9, <1>10, <1>11, <1>12, Zenon
       DEF UpToSwitch

-----------------------------------------------------------------------------
(* The steps of a switch, and the timer interrupt. *)
\* Queueing the thread that is left, loading the next one, and the timer interrupt.
SwitchOrTimer(c) ==
    \/ SyncSave(c) \/ LeaveAndQueue(c) \/ AsyncQueue(c) \/ SwitchUnlock(c)
    \/ LoadContext(c) \/ LoadSmashed(c) \/ AsyncNone(c) \/ AsyncReturn(c)
    \/ TimerInterrupt(c)

\* Those steps preserve the inductive invariant: one step of the proof per action, and
\* under it one per conjunct.
LEMMA SwitchOrTimerStep ==
    ASSUME IndInv, NEW k \in Cpu, SwitchOrTimer(k)
    PROVE  IndInv'
<1> USE DEF TypeOK, At, Goto, lockVars, threadVars, irqVars, procVars, stackVars, Pc, BootPc,
        YieldPc, AsyncPc, LeavePc, CriticalPc, InterruptiblePc, PreBootPc, LoadPc,
        UnlockPc, PulledPc
<1>0. /\ TypeOK /\ NoPanic /\ LockInv /\ BootInv /\ InterruptInv /\ LocalInv
      /\ ReadyState /\ RunningState /\ OneHolder /\ OneSlot /\ ActiveState /\ IdleState
      /\ ContextInv /\ StackInv
    BY DEF IndInv, PlaceInv
<1>13. ASSUME NEW c \in Cpu, SyncSave(c)
      PROVE  IndInv'
  <2>1. /\ to_thread[c] \in Thread /\ current_thread[c] \in Thread
        /\ from_thread[c] = current_thread[c] /\ to_thread[c] # current_thread[c]
      BY <1>0, <1>13, Zenon DEF SyncSave, LocalInv
  <2>2. pc' = [pc EXCEPT ![c] = "sync_queue"]
      BY <1>13, <2>1, Zenon DEF SyncSave
  <2>3. \A u \in Thread : InReady(u)' <=> InReady(u)
      BY <1>13, Zenon DEF SyncSave, InReady
  <2>4. \A d \in Cpu, u \in Thread : Holds(d, u)' <=> Holds(d, u)
      BY <1>0, <1>13, <2>1, <2>2, Zenon DEF SyncSave, Holds, InTransit
  <2>5. TypeOK'
      BY <1>0, <1>13, <2>1, <2>2, Zenon DEF SyncSave
  <2>6. NoPanic'
      BY <1>0, <1>13, <2>1, <2>2, Zenon DEF SyncSave, NoPanic
  <2>7. LockInv'
      BY <1>0, <1>13, <2>1, <2>2 DEF SyncSave, LockInv, HoldsLock
  <2>8. BootInv'
      BY <1>0, <1>13, <2>1, <2>2, Zenon DEF SyncSave, BootInv
  <2>9. InterruptInv'
      BY <1>0, <1>13, <2>1, <2>2 DEF SyncSave, InterruptInv
  <2>10. LocalInv'
      BY <1>0, <1>13, <2>1, <2>2 DEF SyncSave, LocalInv
  <2>11. PlaceInv'
    <3>1. ReadyState' /\ ActiveState' /\ OneSlot' /\ IdleState'
        BY <1>0, <1>13, <2>2, <2>3 DEF SyncSave, ReadyState, ActiveState, OneSlot, IdleState
    <3>2. RunningState' /\ OneHolder'
        BY <1>0, <1>13, <2>4, Zenon DEF SyncSave, RunningState, OneHolder
    <3> QED
        BY <3>1, <3>2 DEF PlaceInv
  <2>12. ContextInv'
      BY <1>0, <1>13, <2>1, <2>2, <2>3 DEF SyncSave, ContextInv
  <2>13. StackInv'
      BY <1>0, <1>13, <2>1, <2>2, <2>3 DEF SyncSave, StackInv
  <2> QED
      BY <2>5, <2>6, <2>7, <2>8, <2>9, <2>10, <2>11, <2>12, <2>13 DEF IndInv
<1>14. ASSUME NEW c \in Cpu, LeaveAndQueue(c)
      PROVE  IndInv'
  <2> DEFINE f == from_thread[c]
  <2>1. /\ f \in Thread /\ to_thread[c] \in Thread /\ f # to_thread[c]
        /\ Holds(c, f)
      BY <1>0, <1>14 DEF LeaveAndQueue, LocalInv, Holds, InTransit
  <2>2. state[f] = "RUNNING" /\ is_active[f] /\ ~InReady(f)
      BY <1>0, <2>1, Zenon DEF RunningState, ActiveState, ReadyState
  <2>3. /\ PushReadyThread(f)
        /\ pc' = [pc EXCEPT ![c] = "sync_unlock"]
      BY <1>14, <2>1, <2>2, Zenon DEF LeaveAndQueue
  <2>4. /\ \A u \in Thread : InReady(u)' <=> InReady(u) \/ u = f
        /\ OneSlot'
      BY <1>0, <2>1, <2>2, <2>3, AppendReady, Zenon DEF PushReadyThread
  <2>5. \A d \in Cpu, u \in Thread : Holds(d, u)' <=> Holds(d, u) /\ u # f
      BY <1>0, <1>14, <2>1, <2>3 DEF LeaveAndQueue, OneHolder, Holds, InTransit, LocalInv
  <2> HIDE DEF f
  <2>6. TypeOK'
      BY <1>0, <1>14, <2>1, <2>3 DEF LeaveAndQueue, PushReadyThread, f
  <2>7. NoPanic'
      BY <1>0, <1>14, <2>1, <2>3 DEF LeaveAndQueue, NoPanic
  <2>8. LockInv'
      BY <1>0, <1>14, <2>1, <2>3 DEF LeaveAndQueue, LockInv, HoldsLock
  <2>9. BootInv'
      BY <1>0, <1>14, <2>1, <2>3 DEF LeaveAndQueue, BootInv
  <2>10. InterruptInv'
      BY <1>0, <1>14, <2>1, <2>3 DEF LeaveAndQueue, InterruptInv
  <2>11. LocalInv'
      BY <1>0, <1>14, <2>1, <2>3 DEF LeaveAndQueue, LocalInv, f
  <2>12. PlaceInv'
    <3>1. ReadyState' /\ ActiveState' /\ IdleState'
        BY <1>0, <2>1, <2>2, <2>3, <2>4, <1>14 DEF LeaveAndQueue, PushReadyThread, ReadyState,
           ActiveState, IdleState
    <3>2. RunningState' /\ OneHolder'
        BY <1>0, <2>1, <2>3, <2>5, Zenon DEF PushReadyThread, RunningState, OneHolder
    <3> QED
        BY <2>4, <3>1, <3>2, Zenon DEF PlaceInv
  <2>13. ContextInv'
      BY <1>0, <1>14, <2>1, <2>3, <2>4 DEF LeaveAndQueue, ContextInv, OneHolder, Holds,
         InTransit, LocalInv, InterruptInv, f
  <2>14. StackInv'
      BY <1>0, <1>14, <2>1, <2>3, <2>4 DEF LeaveAndQueue, StackInv, f
  <2> QED
      BY <2>6, <2>7, <2>8, <2>9, <2>10, <2>11, <2>12, <2>13, <2>14 DEF IndInv
<1>15. ASSUME NEW c \in Cpu, AsyncQueue(c)
      PROVE  IndInv'
  <2> DEFINE f == current_thread[c]
  <2>1. /\ f \in Thread /\ to_thread[c] \in Thread /\ f # to_thread[c]
        /\ Holds(c, f)
      BY <1>0, <1>15, SMTT(30) DEF AsyncQueue, LocalInv, Holds, InTransit
  <2>2. state[f] = "RUNNING" /\ is_active[f] /\ ~InReady(f)
      BY <1>0, <2>1, Zenon DEF RunningState, ActiveState, ReadyState
  <2>3. /\ PushReadyThread(f)
        /\ pc' = [pc EXCEPT ![c] = "async_unlock"]
      BY <1>15, <2>1, <2>2, Zenon DEF AsyncQueue
  <2>4. /\ \A u \in Thread : InReady(u)' <=> InReady(u) \/ u = f
        /\ OneSlot'
      BY <1>0, <2>1, <2>2, <2>3, AppendReady, Zenon DEF PushReadyThread
  <2>5. \A d \in Cpu, u \in Thread : Holds(d, u)' <=> Holds(d, u) /\ u # f
      BY <1>0, <1>15, <2>1, <2>3 DEF AsyncQueue, OneHolder, Holds, InTransit, LocalInv
  <2> HIDE DEF f
  <2>6. TypeOK'
      BY <1>0, <1>15, <2>1, <2>3 DEF AsyncQueue, PushReadyThread, f
  <2>7. NoPanic'
      BY <1>0, <1>15, <2>1, <2>3, ZenonT(30) DEF AsyncQueue, NoPanic
  <2>8. LockInv'
      BY <1>0, <1>15, <2>1, <2>3 DEF AsyncQueue, LockInv, HoldsLock
  <2>9. BootInv'
      BY <1>0, <1>15, <2>1, <2>3, ZenonT(30) DEF AsyncQueue, BootInv
  <2>10. InterruptInv'
      BY <1>0, <1>15, <2>1, <2>3 DEF AsyncQueue, InterruptInv
  <2>11. LocalInv'
      BY <1>0, <1>15, <2>1, <2>3 DEF AsyncQueue, LocalInv, f
  <2>12. PlaceInv'
    <3>1. ReadyState' /\ ActiveState' /\ IdleState'
        BY <1>0, <2>1, <2>2, <2>3, <2>4, <1>15 DEF AsyncQueue, PushReadyThread, ReadyState,
           ActiveState, IdleState
    <3>2. RunningState' /\ OneHolder'
        BY <1>0, <2>1, <2>3, <2>5, Zenon DEF PushReadyThread, RunningState, OneHolder
    <3> QED
        BY <2>4, <3>1, <3>2 DEF PlaceInv
  <2>13. ContextInv'
      BY <1>0, <1>15, <2>1, <2>3, <2>4 DEF AsyncQueue, ContextInv, OneHolder, Holds,
         InTransit, LocalInv, InterruptInv, f
  <2>14. StackInv'
      BY <1>0, <1>15, <2>1, <2>3, <2>4 DEF AsyncQueue, StackInv, f
  <2> QED
      BY <2>6, <2>7, <2>8, <2>9, <2>10, <2>11, <2>12, <2>13, <2>14 DEF IndInv
<1>16. ASSUME NEW c \in Cpu, SwitchUnlock(c)
      PROVE  IndInv'
  <2>1. TypeOK'
      BY <1>0, <1>16, Zenon DEF SwitchUnlock
  <2>2. NoPanic'
      BY <1>0, <1>16, Zenon DEF SwitchUnlock, NoPanic
  <2>3. LockInv'
    <3>1. \A d \in Cpu : HoldsLock(d)' <=> HoldsLock(d) /\ d # c
        BY <1>0, <1>16 DEF SwitchUnlock, HoldsLock
    <3>2. HoldsLock(c)
        BY <1>0, <1>16, Zenon DEF SwitchUnlock, LockInv, HoldsLock
    <3> QED
        BY <1>0, <1>16, <3>1, <3>2, Zenon DEF SwitchUnlock, LockInv
  <2>4. BootInv'
      BY <1>0, <1>16, Zenon DEF SwitchUnlock, BootInv
  <2>5. InterruptInv'
      BY <1>0, <1>16 DEF SwitchUnlock, InterruptInv
  <2>6. LocalInv'
      BY <1>0, <1>16 DEF SwitchUnlock, LocalInv
  <2>7. PlaceInv'
      BY <1>16, QuietStep, Zenon DEF SwitchUnlock, IndInv
  <2>8. ContextInv'
      BY <1>0, <1>16, SMTT(20) DEF SwitchUnlock, ContextInv, InReady
  <2>9. StackInv'
      BY <1>0, <1>16, SMTT(20) DEF SwitchUnlock, StackInv, InReady
  <2> QED
      BY <2>1, <2>2, <2>3, <2>4, <2>5, <2>6, <2>7, <2>8, <2>9 DEF IndInv
<1>17. ASSUME NEW c \in Cpu, LoadContext(c)
      PROVE  IndInv'
  <2>1. /\ to_thread[c] \in Thread /\ to_thread[c] = current_thread[c]
        /\ context[to_thread[c]] \in {"run", "sti"}
      BY <1>0, <1>17 DEF LoadContext, LocalInv, ContextInv
  <2>2. TypeOK'
      BY <1>0, <1>17, <2>1, Zenon DEF LoadContext
  <2>3. NoPanic'
      BY <1>0, <1>17, <2>1, Zenon DEF LoadContext, NoPanic
  <2>4. LockInv'
    <3>1. \A d \in Cpu : HoldsLock(d)' <=> HoldsLock(d) /\ d # c
        BY <1>0, <1>17, <2>1, ZenonT(30) DEF LoadContext, HoldsLock
    <3>2. ~HoldsLock(c)
        BY <1>0, <1>17, Zenon DEF LoadContext, LockInv, HoldsLock
    <3> QED
        BY <1>0, <1>17, <3>1, <3>2, Zenon DEF LoadContext, LockInv
  <2>5. BootInv'
      BY <1>0, <1>17, <2>1, Zenon DEF LoadContext, BootInv
  <2>6. InterruptInv'
      BY <1>0, <1>17, <2>1, SMTT(20) DEF LoadContext, InterruptInv
  <2>7. LocalInv'
      BY <1>0, <1>17, <2>1 DEF LoadContext, LocalInv
  <2>8. PlaceInv'
      BY <1>17, <2>1, QuietStep, Zenon DEF LoadContext, IndInv
  <2>9. ContextInv'
    <3>1. ~InReady(to_thread[c])
        BY <1>0, <2>1, Zenon DEF ReadyState, RunningState, Holds
    <3>2. \A u \in Thread : InReady(u)' <=> InReady(u)
        BY <1>17, Zenon DEF LoadContext, InReady
    <3>3. \A d \in Cpu : Holds(d, to_thread[c]) => d = c
        BY <1>0, <2>1, Zenon DEF OneHolder, Holds
    <3> QED
        BY <1>0, <1>17, <2>1, <3>1, <3>2, <3>3 DEF LoadContext, ContextInv, LocalInv, Holds,
           InTransit
  <2>10. StackInv'
      BY <1>0, <1>17, <2>1 DEF LoadContext, StackInv, InReady
  <2> QED
      BY <2>2, <2>3, <2>4, <2>5, <2>6, <2>7, <2>8, <2>9, <2>10 DEF IndInv
<1>18. ASSUME NEW c \in Cpu, LoadSmashed(c)
      PROVE  IndInv'
  <2>1. TypeOK'
      BY <1>0, <1>18, Zenon DEF LoadSmashed
  <2>2. NoPanic'
      BY <1>0, <1>18, Zenon DEF LoadSmashed, NoPanic
  <2>3. LockInv'
      BY <1>0, <1>18, Zenon DEF LoadSmashed, LockInv, HoldsLock
  <2>4. BootInv'
      BY <1>0, <1>18, Zenon DEF LoadSmashed, BootInv
  <2>5. InterruptInv'
      BY <1>0, <1>18, Zenon DEF LoadSmashed, InterruptInv
  <2>6. LocalInv'
      BY <1>0, <1>18, Zenon DEF LoadSmashed, LocalInv
  <2>7. PlaceInv'
      BY <1>18, PlacesKept, Zenon DEF LoadSmashed, IndInv
  <2>8. ContextInv'
      BY <1>0, <1>18, Zenon DEF LoadSmashed, ContextInv, InReady
  <2>9. StackInv'
      BY <1>0, <1>18, SMTT(20) DEF LoadSmashed, StackInv, InReady
  <2> QED
      BY <2>1, <2>2, <2>3, <2>4, <2>5, <2>6, <2>7, <2>8, <2>9 DEF IndInv
<1>19. ASSUME NEW c \in Cpu, AsyncNone(c)
      PROVE  IndInv'
  <2>1. TypeOK'
      BY <1>0, <1>19, Zenon DEF AsyncNone
  <2>2. NoPanic'
      BY <1>0, <1>19, Zenon DEF AsyncNone, NoPanic
  <2>3. LockInv'
      BY <1>0, <1>19 DEF AsyncNone, LockInv, HoldsLock
  <2>4. BootInv'
      BY <1>0, <1>19, Zenon DEF AsyncNone, BootInv
  <2>5. InterruptInv'
      BY <1>0, <1>19, SMTT(20) DEF AsyncNone, InterruptInv
  <2>6. LocalInv'
      BY <1>0, <1>19 DEF AsyncNone, LocalInv
  <2>7. PlaceInv'
      BY <1>19, QuietStep, Zenon DEF AsyncNone, IndInv
  <2>8. ContextInv'
      BY <1>0, <1>19, ZenonT(30) DEF AsyncNone, ContextInv, InReady
  <2>9. StackInv'
      BY <1>0, <1>19, SMTT(20) DEF AsyncNone, StackInv, InReady
  <2> QED
      BY <2>1, <2>2, <2>3, <2>4, <2>5, <2>6, <2>7, <2>8, <2>9 DEF IndInv
<1>20. ASSUME NEW c \in Cpu, AsyncReturn(c)
      PROVE  IndInv'
  <2>1. intr[c] \in {"run", "sti"}
      BY <1>0, <1>20, Zenon DEF AsyncReturn, InterruptInv
  <2>2. TypeOK'
      BY <1>0, <1>20, <2>1, Zenon DEF AsyncReturn
  <2>3. NoPanic'
      BY <1>0, <1>20, <2>1, Zenon DEF AsyncReturn, NoPanic
  <2>4. LockInv'
      BY <1>0, <1>20, <2>1 DEF AsyncReturn, LockInv, HoldsLock
  <2>5. BootInv'
      BY <1>0, <1>20, <2>1, Zenon DEF AsyncReturn, BootInv
  <2>6. InterruptInv'
      BY <1>0, <1>20, <2>1, SMTT(20) DEF AsyncReturn, InterruptInv
  <2>7. LocalInv'
      BY <1>0, <1>20, <2>1, SMTT(20) DEF AsyncReturn, LocalInv
  <2>8. PlaceInv'
    <3>1. /\ pc[c] = "async_leave" /\ pc' = [pc EXCEPT ![c] = intr[c]]
          /\ UNCHANGED <<ready_list, state, is_active>>
          /\ current_thread' = current_thread /\ to_thread' = to_thread
          /\ from_thread' = from_thread
        BY <1>20, Zenon DEF AsyncReturn
    <3>2. /\ {pc[c], intr[c]} \cap (PulledPc \cup {"sync_queue"}) = {}
          /\ {pc[c], intr[c]} \cap PreBootPc = {}
        BY <2>1, <3>1, Zenon
    <3> QED
        BY <3>1, <3>2, QuietStep, ZenonT(30)
  <2>9. ContextInv'
      BY <1>0, <1>20, <2>1, ZenonT(30) DEF AsyncReturn, ContextInv, InReady
  <2>10. StackInv'
      BY <1>0, <1>20, <2>1, SMTT(20) DEF AsyncReturn, StackInv, InReady
  <2> QED
      BY <2>2, <2>3, <2>4, <2>5, <2>6, <2>7, <2>8, <2>9, <2>10 DEF IndInv
<1>21. ASSUME NEW c \in Cpu, TimerInterrupt(c)
      PROVE  IndInv'
  <2>1. pc[c] \in InterruptiblePc
      BY <1>0, <1>21, Zenon DEF TimerInterrupt, InterruptInv, NoPanic
  <2>2. TypeOK'
      BY <1>0, <1>21, <2>1, Zenon DEF TimerInterrupt
  <2>3. NoPanic'
      BY <1>0, <1>21, <2>1, ZenonT(30) DEF TimerInterrupt, NoPanic
  <2>4. LockInv'
      BY <1>0, <1>21, <2>1, SMTT(30) DEF TimerInterrupt, LockInv, HoldsLock
  <2>5. BootInv'
      BY <1>0, <1>21, <2>1, Zenon DEF TimerInterrupt, BootInv
  <2>6. InterruptInv'
    <3>1. \A d \in Cpu \ {c} : /\ pc'[d] = pc[d] /\ int_on'[d] = int_on[d]
                              /\ intr'[d] = intr[d]
        BY <1>0, <1>21 DEF TimerInterrupt
    <3>2. /\ pc'[c] = "async_lock" /\ intr'[c] = pc[c] /\ ~int_on'[c] /\ ~in_scheduler[c]
          /\ timer_on[c] /\ int_on[c]
        BY <1>0, <1>21, Zenon DEF TimerInterrupt
    <3>3. UNCHANGED <<timer_on, in_scheduler, current_thread, from_thread>>
        BY <1>21, Zenon DEF TimerInterrupt
    <3> DEFINE J(d) ==
          /\ timer_on[d] <=> pc[d] \notin BootPc
          /\ pc[d] \in YieldPc \cup AsyncPc => ~int_on[d]
          /\ in_scheduler[d] => /\ pc[d] \in YieldPc \cup {"leave"}
                                /\ pc[d] \notin UnlockPc \cup LoadPc
                                /\ ~int_on[d]
          /\ d = Bsp /\ pc[d] \in BootPc => ~int_on[d]
          /\ pc[d] \in BootPc => from_thread[d] = NoThread
          /\ pc[d] = "timer_on" => current_thread[d] = Idle[d]
          /\ \/ pc[d] = "leave" /\ int_on[d]
             \/ pc[d] = "async_lock" /\ intr[d] = "leave"
             => d # Bsp /\ current_thread[d] = Idle[d] /\ from_thread[d] = NoThread
          /\ pc[d] \in AsyncPc \ {"async_lock"} => intr[d] \in {"run", "sti"}
    <3>4. \A d \in Cpu : J(d)
        BY <1>0, Zenon DEF InterruptInv
    <3>5. J(c)'
        BY <2>1, <3>2, <3>3, <3>4, Zenon
    <3>6. ASSUME NEW d \in Cpu \ {c} PROVE J(d)'
      <4>1. pc'[d] = pc[d] /\ int_on'[d] = int_on[d] /\ intr'[d] = intr[d]
          BY <3>1, <3>3, Zenon
      <4>2. timer_on'[d] = timer_on[d] /\ in_scheduler'[d] = in_scheduler[d]
          BY <3>1, <3>3, Zenon
      <4>3. current_thread'[d] = current_thread[d] /\ from_thread'[d] = from_thread[d]
          BY <3>1, <3>3, Zenon
      <4>4. J(d)
          BY <3>4, ZenonT(30)
      <4> QED
          BY <4>1, <4>2, <4>3, <4>4, Zenon
    <3> QED
        BY <3>5, <3>6, ZenonT(30) DEF InterruptInv
  <2>7. LocalInv'
      BY <1>0, <1>21, <2>1 DEF TimerInterrupt, LocalInv
  <2>8. PlaceInv'
      BY <1>21, <2>1, QuietStep, Zenon DEF TimerInterrupt, IndInv
  <2>9. ContextInv'
      BY <1>0, <1>21, <2>1, SMTT(20) DEF TimerInterrupt, ContextInv, InReady
  <2>10. StackInv'
    <3>1. \A d \in Cpu \ {c} : pc'[d] = pc[d]
        BY <1>0, <1>21, Zenon DEF TimerInterrupt
    <3>2. pc'[c] = "async_lock" /\ stack[c] = current_thread[c]
        BY <1>0, <1>21, <2>1, Zenon DEF TimerInterrupt, StackInv
    <3>3. UNCHANGED <<stack, from_thread, current_thread, ready_list>>
        BY <1>21, Zenon DEF TimerInterrupt
    <3> DEFINE J(d) ==
          /\ pc[d] \in PreBootPc => stack[d] = NoThread
          /\ pc[d] = "sync_queue" \/ pc[d] \in UnlockPc \cup LoadPc
             => stack[d] = from_thread[d]
          /\ pc[d] \in UnlockPc => \E t \in Thread : t = from_thread[d] /\ InReady(t)
          /\ pc[d] \notin PreBootPc \cup {"sync_queue"} \cup UnlockPc \cup LoadPc
             => stack[d] = current_thread[d]
    <3>4. \A d \in Cpu : J(d)
        BY <1>0, Zenon DEF StackInv
    <3>5. J(c)'
        BY <3>2, <3>3, Zenon
    <3>6. ASSUME NEW d \in Cpu \ {c} PROVE J(d)'
      <4>1. pc'[d] = pc[d] /\ J(d)
          BY <3>1, <3>4, Zenon
      <4> QED
          BY <3>3, <4>1, Zenon DEF InReady
    <3> QED
        BY <3>5, <3>6, ZenonT(30) DEF StackInv
  <2> QED
      BY <2>2, <2>3, <2>4, <2>5, <2>6, <2>7, <2>8, <2>9, <2>10 DEF IndInv
<1> QED
    BY <1>13, <1>14, <1>15, <1>16, <1>17, <1>18, <1>19, <1>20, <1>21, Zenon
       DEF SwitchOrTimer

\* So does a step that changes nothing.
LEMMA StutterStep ==
    ASSUME IndInv, UNCHANGED vars
    PROVE  IndInv'
<1> USE DEF TypeOK, At, Goto, lockVars, threadVars, irqVars, procVars, stackVars, Pc, BootPc,
        YieldPc, AsyncPc, LeavePc, CriticalPc, InterruptiblePc, PreBootPc, LoadPc,
        UnlockPc, PulledPc
<1>0. /\ TypeOK /\ NoPanic /\ LockInv /\ BootInv /\ InterruptInv /\ LocalInv
      /\ ReadyState /\ RunningState /\ OneHolder /\ OneSlot /\ ActiveState /\ IdleState
      /\ ContextInv /\ StackInv
    BY Zenon DEF IndInv, PlaceInv
<1> USE <1>0 DEF vars
<1>1. TypeOK' /\ NoPanic' /\ BootInv'
    BY Zenon DEF NoPanic, BootInv
<1>2. LockInv'
    BY Zenon DEF LockInv, HoldsLock
<1>3. InterruptInv' /\ LocalInv'
    BY ZenonT(30) DEF InterruptInv, LocalInv
<1>4. ReadyState' /\ OneSlot' /\ ActiveState' /\ IdleState'
    BY SMTT(30) DEF ReadyState, OneSlot, ActiveState, IdleState, InReady
<1>5. RunningState' /\ OneHolder'
    BY SMTT(20) DEF RunningState, OneHolder, Holds, InTransit
<1>6. ContextInv'
    BY Zenon DEF ContextInv, InReady
<1>7. StackInv'
    BY SMTT(30) DEF StackInv, InReady
<1> QED
    BY <1>1, <1>2, <1>3, <1>4, <1>5, <1>6, <1>7, Zenon DEF IndInv, PlaceInv

-----------------------------------------------------------------------------
(* What follows from the invariant. *)
\* Every step preserves the inductive invariant.
THEOREM InvariantStep ==
    ASSUME IndInv, [Next]_vars
    PROVE  IndInv'
<1>1. ASSUME NEW c \in Cpu, CpuStep(c) \/ TimerInterrupt(c)
      PROVE  UpToSwitch(c) \/ SwitchOrTimer(c)
    BY <1>1, Zenon DEF CpuStep, BootStep, UpToSwitch, SwitchOrTimer
<1> QED
    BY <1>1, UpToSwitchStep, SwitchOrTimerStep, StutterStep, Zenon DEF Next

\* The initial state satisfies the inductive invariant.
THEOREM InitInvariant == Init => IndInv
<1> SUFFICES ASSUME Init PROVE IndInv
    BY Zenon
<1> USE DEF Init, PreBootPc
<1>1. TypeOK /\ NoPanic /\ BootInv
  <2>1. /\ is_active \in [Thread -> BOOLEAN] /\ int_on \in [Cpu -> BOOLEAN]
        /\ timer_on \in [Cpu -> BOOLEAN] /\ in_scheduler \in [Cpu -> BOOLEAN]
        /\ smashed \in [Cpu -> BOOLEAN]
        /\ scheduler_ready \in BOOLEAN /\ undefined \in BOOLEAN
      BY Zenon
  <2>2. pc \in [Cpu -> Pc]
      BY Zenon DEF Pc, BootPc
  <2>3. /\ state \in [Thread -> {"NONE", "READY", "RUNNING"}]
        /\ context \in [Thread -> InterruptiblePc \cup {"NONE"}]
        /\ intr \in [Cpu -> InterruptiblePc]
      BY Zenon DEF InterruptiblePc
  <2>4. /\ current_thread \in [Cpu -> Thread \cup {NoThread}]
        /\ from_thread \in [Cpu -> Thread \cup {NoThread}]
        /\ to_thread \in [Cpu -> Thread \cup {NoThread}]
        /\ stack \in [Cpu -> Thread \cup {NoThread}]
      BY Zenon
  <2>5. NoPanic /\ BootInv
      BY Zenon DEF NoPanic, BootInv
  <2>6. /\ sched_lock \in {"FREE", "BUSY"} /\ ready_list \in Seq(Thread)
      OBVIOUS
  <2> HIDE DEF Init
  <2> QED
      BY <2>1, <2>2, <2>3, <2>4, <2>5, <2>6, Zenon DEF TypeOK
<1>2. LockInv
    BY Zenon DEF LockInv, HoldsLock, CriticalPc
<1>3. InterruptInv /\ LocalInv
    BY Zenon DEF InterruptInv, LocalInv, BootPc, YieldPc, AsyncPc, UnlockPc, LoadPc, PulledPc
<1>4. \A t \in Thread : ~InReady(t) /\ \A c \in Cpu : ~Holds(c, t)
    BY DEF InReady, Holds, InTransit
<1>5. PlaceInv
    BY <1>4 DEF PlaceInv, ReadyState, RunningState, OneHolder, OneSlot, ActiveState, IdleState
<1>6. ContextInv /\ StackInv
    BY <1>4, Zenon DEF ContextInv, StackInv, PulledPc, UnlockPc, LoadPc
<1> QED
    BY <1>1, <1>2, <1>3, <1>5, <1>6, Zenon DEF IndInv

\* IndInv holds in every reachable state, for any number of CPUs and threads.
THEOREM Invariance == Spec => []IndInv
BY InitInvariant, InvariantStep, PTL DEF Spec

-----------------------------------------------------------------------------
\* The variables keep their types; in particular a timer interrupt only ever finds its
\* CPU in thread code or in the last lines of scheduler_leave.
THEOREM TypeCorrect == Spec => []TypeOK
BY Invariance, PTL DEF IndInv

\* sched_lock excludes, timer handlers included, however many CPUs compete for it, and
\* the wait for scheduler_ready keeps them away while the boot processor goes without it.
THEOREM LockExcludes == Spec => []MutualExclusion
<1>1. IndInv => MutualExclusion
  <2> SUFFICES ASSUME IndInv PROVE MutualExclusion
      BY Zenon
  <2>1. ASSUME NEW c \in Cpu, NEW d \in Cpu, pc[c] = "init", UsesList(d)
        PROVE  c = d
    <3>1. c = Bsp /\ ~scheduler_ready
        BY <2>1, Zenon DEF IndInv, BootInv
    <3>2. pc[d] \in {"init", "wait_ready"}
        BY <3>1, Zenon DEF IndInv, BootInv
    <3>3. pc[d] = "init"
        BY <2>1, <3>2 DEF UsesList, HoldsLock, CriticalPc
    <3> QED
        BY <3>1, <3>3, Zenon DEF IndInv, BootInv
  <2> QED
      BY <2>1, Zenon DEF IndInv, LockInv, MutualExclusion, UsesList
<1> QED
    BY <1>1, Invariance, PTL

\* No ASSERT of pull_next_runnable_thread, scheduler_leave_and_queue, scheduler_yield
\* or scheduler_async_enter ever fails.
THEOREM NoAssertFails == Spec => []NoPanic
BY Invariance, PTL DEF IndInv

\* No thread is lost or duplicated: it is in ready_list once, or with one CPU.
THEOREM NoThreadLost == Spec => []ThreadInOnePlace
<1>1. IndInv => ThreadInOnePlace
  <2> SUFFICES ASSUME IndInv, NEW t \in Thread, state[t] # "NONE"
               PROVE  /\ InReady(t) <=> \A c \in Cpu : ~Holds(c, t)
                      /\ \A c, d \in Cpu : Holds(c, t) /\ Holds(d, t) => c = d
                      /\ \A i, j \in DOMAIN ready_list :
                            ready_list[i] = t /\ ready_list[j] = t => i = j
      BY Zenon DEF ThreadInOnePlace
  <2>1. state[t] \in {"READY", "RUNNING"}
      BY DEF IndInv, TypeOK
  <2> QED
      BY <2>1, Zenon DEF IndInv, PlaceInv, ReadyState, RunningState, OneHolder, OneSlot
<1> QED
    BY <1>1, Invariance, PTL

\* A thread in ready_list has its registers saved.
THEOREM QueuedAreSaved == Spec => []QueuedContextSaved
<1>1. IndInv => QueuedContextSaved
    BY Zenon DEF IndInv, ContextInv, QueuedContextSaved
<1> QED
    BY <1>1, Invariance, PTL

\* Only a processor other than the boot processor can hang on its own sched_lock, and
\* only in the bring-up of its idle thread.
THEOREM HangsOnlyAtBoot == Spec => []SelfDeadlockOnlyAtBoot
<1>1. IndInv => SelfDeadlockOnlyAtBoot
    BY ZenonT(60) DEF IndInv, TypeOK, InterruptInv, SelfDeadlockOnlyAtBoot, SelfDeadlock,
       HoldsLock, CriticalPc, InterruptiblePc
<1> QED
    BY <1>1, Invariance, PTL

\* Two CPUs are on one stack only if one of them has released sched_lock and not yet
\* loaded esp.
THEOREM StackSharing == Spec => []StackSharedOnlyInSwitch
<1>1. IndInv => StackSharedOnlyInSwitch
  <2> SUFFICES ASSUME IndInv, NEW c \in Cpu, NEW d \in Cpu, stack[c] = stack[d], c # d,
                      stack[c] # NoThread, pc[c] \notin LoadPc, pc[d] \notin LoadPc
               PROVE  FALSE
      BY Zenon DEF StackSharedOnlyInSwitch, LoadPc
  <2>1. stack[c] \in Thread
      BY Zenon DEF IndInv, TypeOK
  <2>2. ASSUME NEW e \in Cpu, stack[e] = stack[c], pc[e] \notin LoadPc
        PROVE  \/ Holds(e, stack[c])
               \/ pc[e] \in UnlockPc /\ InReady(stack[c])
      BY <2>1, <2>2, ZenonT(30) DEF IndInv, StackInv, Holds, InTransit
  <2>3. ~(InReady(stack[c]) /\ \E e \in Cpu : Holds(e, stack[c]))
      BY <2>1, Zenon DEF IndInv, PlaceInv, ReadyState, RunningState
  <2>4. ~(pc[c] \in UnlockPc /\ pc[d] \in UnlockPc)
      BY Zenon DEF IndInv, LockInv, HoldsLock, CriticalPc, UnlockPc
  <2>5. ~(Holds(c, stack[c]) /\ Holds(d, stack[c]))
      BY <2>1, Zenon DEF IndInv, PlaceInv, OneHolder
  <2> QED
      BY <2>2, <2>3, <2>4, <2>5, Zenon
<1> QED
    BY <1>1, Invariance, PTL

-----------------------------------------------------------------------------
(***************************************************************************)
(* The refinement.  sched_lock makes the CPU in the middle of a switch     *)
(* unique, so the choice in readyBar is no choice.                         *)
(***************************************************************************)

\* A step that only moves one CPU, and not in or out of a switch, is a stuttering step
\* of the round robin.
LEMMA QuietBar ==
    ASSUME LockInv, NEW c \in Cpu, NEW l, pc \in [Cpu -> Pc],
           pc' = [pc EXCEPT ![c] = l],
           UNCHANGED <<ready_list, current_thread>>,
           pc[c] \notin Switching, l \notin Switching,
           \A d \in Cpu \ {c} : /\ to_thread'[d] = to_thread[d]
                                /\ from_thread'[d] = from_thread[d]
    PROVE  UNCHANGED <<readyBar, runningBar>>
<1>1. \A d \in Cpu : pc'[d] \in Switching <=> pc[d] \in Switching
    BY Zenon DEF Switching
<1>2. runningBar' = runningBar
    BY Zenon DEF runningBar, Switching
<1>3. CASE \E d \in Cpu : pc[d] \in Switching
  <2>1. PICK d \in Cpu : pc[d] \in Switching
      BY <1>3, Zenon
  <2>2. \A e \in Cpu : pc[e] \in Switching <=> e = d
      BY <2>1, Zenon DEF LockInv, HoldsLock, CriticalPc, Switching
  <2>3. d # c /\ pc'[d] = pc[d] /\ GivenUp(d)' = GivenUp(d)
      BY <2>1, Zenon DEF GivenUp
  <2>4. (CHOOSE e \in Cpu : pc[e] \in Switching) = d
      BY <2>2, Zenon
  <2>5. (CHOOSE e \in Cpu : pc'[e] \in Switching) = d
      BY <1>1, <2>2, Zenon
  <2>6. readyBar = Append(ready_list, GivenUp(d))
      BY <1>3, <2>4, Zenon DEF readyBar
  <2>7. readyBar' = Append(ready_list', GivenUp(d)')
      BY <1>1, <1>3, <2>5, Zenon DEF readyBar, GivenUp
  <2> QED
      BY <1>2, <2>3, <2>6, <2>7, Zenon
<1>4. CASE ~\E d \in Cpu : pc[d] \in Switching
    BY <1>1, <1>2, <1>4, Zenon DEF readyBar
<1> QED
    BY <1>3, <1>4, Zenon

\* Every step of the scheduler is a step of RoundRobin or a stuttering step.
THEOREM RefinementStep ==
    ASSUME IndInv, [Next]_vars
    PROVE  [RR!Next]_(RR!vars)
<1> USE DEF TypeOK, At, Goto, lockVars, threadVars, irqVars, procVars, stackVars, Pc, BootPc,
        YieldPc, AsyncPc, LeavePc, CriticalPc, InterruptiblePc, PreBootPc, LoadPc,
        UnlockPc, PulledPc, Switching
<1>0. /\ TypeOK /\ NoPanic /\ LockInv /\ BootInv /\ InterruptInv /\ LocalInv
      /\ ReadyState /\ RunningState /\ OneHolder /\ OneSlot /\ ActiveState /\ IdleState
      /\ ContextInv /\ StackInv
    BY Zenon DEF IndInv, PlaceInv
<1>a. ASSUME NEW c \in Cpu, pc[c] \in CriticalPc
      PROVE  \A d \in Cpu : pc[d] \in Switching => d = c
    BY <1>0, <1>a, Zenon DEF LockInv, HoldsLock
<1>b. ASSUME NEW c \in Cpu, NEW t \in Workers, CreateWorker(c, t)
      PROVE  RR!Next
  <2>1. \A d \in Cpu : pc[d] \notin Switching
      BY <1>0, <1>b, Zenon DEF CreateWorker, BootInv
  <2>2. readyBar = ready_list /\ readyBar' = Append(ready_list, t)
      BY <1>b, <2>1, Zenon DEF readyBar, CreateWorker, PushReadyThread
  <2>3. runningBar = current_thread /\ runningBar' = current_thread
      BY <1>0, <1>b, <2>1 DEF runningBar, CreateWorker
  <2>4. ~InReady(t) /\ \A d \in Cpu : ~Holds(d, t)
      BY <1>0, <1>b, Zenon DEF CreateWorker, ReadyState, RunningState, Workers
  <2>5. RR!Admit(t)
      BY <2>2, <2>3, <2>4, Zenon DEF RR!Admit, RR!IsNew, InReady, Holds
  <2> QED
      BY <2>5, Zenon DEF RR!Next, Workers
<1>c. ASSUME NEW c \in Cpu, CreateIdle(c)
      PROVE  RR!Next
  <2>1. \A d \in Cpu : pc[d] \notin Switching /\ pc'[d] \notin Switching
      BY <1>0, <1>a, <1>c, Zenon DEF CreateIdle
  <2>2. readyBar = ready_list /\ readyBar' = ready_list
      BY <1>c, <2>1, Zenon DEF readyBar, CreateIdle
  <2>3. runningBar = current_thread /\ runningBar' = [current_thread EXCEPT ![c] = Idle[c]]
      BY <1>0, <1>c, <2>1, Zenon DEF runningBar, CreateIdle
  <2>4. /\ ~InReady(Idle[c]) /\ \A d \in Cpu : ~Holds(d, Idle[c])
        /\ current_thread[c] = NoThread /\ Idle[c] \in Thread
      BY <1>0, <1>c, Zenon DEF CreateIdle, ReadyState, RunningState, IdleState, LocalInv
  <2>5. RR!Join(c, Idle[c])
      BY <2>2, <2>3, <2>4, Zenon DEF RR!Join, RR!IsNew, InReady, Holds
  <2> QED
      BY <2>4, <2>5, Zenon DEF RR!Next
<1>d. ASSUME NEW c \in Cpu, YieldPull(c) \/ AsyncPull(c)
      PROVE  RR!Next
  <2>1. /\ ready_list # << >> /\ Head(ready_list) \in Thread
        /\ InReady(Head(ready_list)) /\ ready_list' = Tail(ready_list)
      BY <1>0, <1>d, TailReady, Zenon DEF YieldPull, AsyncPull, PullNextRunnable
  <2>2. /\ pc[c] \in {"yield_pull", "async_pull"} /\ current_thread' = current_thread
        /\ pc'[c] \in PulledPc /\ to_thread' = [to_thread EXCEPT ![c] = Head(ready_list)]
        /\ \A d \in Cpu \ {c} : pc'[d] = pc[d]
    <3>1. state[Head(ready_list)] = "READY" /\ ~is_active[Head(ready_list)]
        BY <1>0, <2>1, Zenon DEF ReadyState, ActiveState
    <3>2. CASE YieldPull(c)
        BY <1>0, <2>1, <3>1, <3>2, Zenon DEF YieldPull, PullNextRunnable
    <3>3. CASE AsyncPull(c)
        BY <1>0, <2>1, <3>1, <3>3, Zenon DEF AsyncPull, PullNextRunnable
    <3> QED
        BY <1>d, <3>2, <3>3, ZenonT(30)
  <2>3. /\ \A d \in Cpu : pc[d] \notin Switching
        /\ \A d \in Cpu : pc'[d] \in Switching <=> d = c
      BY <1>0, <1>a, <2>2, Zenon
  <2>4. (CHOOSE d \in Cpu : pc'[d] \in Switching) = c
      BY <2>3, Zenon
  <2>5. readyBar = ready_list /\ readyBar' = Append(Tail(ready_list), current_thread[c])
      BY <2>1, <2>2, <2>3, <2>4, Zenon DEF readyBar, GivenUp
  <2>6. /\ runningBar = current_thread
        /\ runningBar' = [current_thread EXCEPT ![c] = Head(ready_list)]
    <3>1. runningBar = current_thread
        BY <1>0, <2>3, Zenon DEF runningBar
    <3>2. \A d \in Cpu : pc'[d] \in {"sync_save", "async_queue"} <=> d = c
        BY <2>2, <2>3, Zenon
    <3>3. to_thread'[c] = Head(ready_list)
        BY <1>0, <2>2, Zenon
    <3>4. runningBar' = [d \in Cpu |-> IF d = c THEN Head(ready_list) ELSE current_thread[d]]
        BY <2>2, <3>2, <3>3, Zenon DEF runningBar
    <3> QED
        BY <1>0, <3>1, <3>4, Zenon
  <2>7. current_thread[c] # NoThread
      BY <1>0, <2>2, Zenon DEF LocalInv
  <2>8. RR!Rotate(c)
      BY <2>1, <2>5, <2>6, <2>7, Zenon DEF RR!Rotate
  <2> QED
      BY <2>8, Zenon DEF RR!Next
<1>e. ASSUME NEW c \in Cpu, SyncSave(c)
      PROVE  UNCHANGED <<readyBar, runningBar>>
  <2>1. /\ from_thread[c] = current_thread[c] /\ to_thread[c] # from_thread[c]
        /\ pc[c] = "sync_save" /\ pc' = [pc EXCEPT ![c] = "sync_queue"]
        /\ current_thread' = [current_thread EXCEPT ![c] = to_thread[c]]
        /\ UNCHANGED <<ready_list, from_thread, to_thread>>
      BY <1>0, <1>e, Zenon DEF SyncSave, LocalInv
  <2>2. \A d \in Cpu : /\ pc[d] \in Switching <=> d = c
                      /\ pc'[d] \in Switching <=> d = c
      BY <1>0, <1>a, <2>1, Zenon
  <2>3. /\ (CHOOSE d \in Cpu : pc[d] \in Switching) = c
        /\ (CHOOSE d \in Cpu : pc'[d] \in Switching) = c
    <3>1. (CHOOSE d \in Cpu : pc[d] \in Switching) = c
        BY <2>2
    <3>2. (CHOOSE d \in Cpu : pc'[d] \in Switching) = c
        BY <2>2
    <3> QED
        BY <3>1, <3>2, Zenon
  <2>4. readyBar' = readyBar
      BY <1>0, <2>1, <2>2, <2>3, ZenonT(30) DEF readyBar, GivenUp
  <2>5. runningBar' = runningBar
      BY <1>0, <2>1, Zenon DEF runningBar
  <2> QED
      BY <2>4, <2>5, Zenon
<1>f. ASSUME NEW c \in Cpu, NEW f \in Thread, f # to_thread[c], Holds(c, f),
             pc[c] \in {"sync_queue", "async_queue"}, f = GivenUp(c),
             NEW l \in UnlockPc, pc' = [pc EXCEPT ![c] = l],
             ready_list' = Append(ready_list, f), to_thread' = to_thread,
             current_thread' = [current_thread EXCEPT ![c] = to_thread[c]]
      PROVE  UNCHANGED <<readyBar, runningBar>>
  <2>1. \A d \in Cpu : (pc[d] \in Switching <=> d = c) /\ pc'[d] \notin Switching
      BY <1>0, <1>a, <1>f, Zenon
  <2>2. (CHOOSE d \in Cpu : pc[d] \in Switching) = c
      BY <2>1, Zenon
  <2>3. readyBar' = readyBar
      BY <1>f, <2>1, <2>2, Zenon DEF readyBar
  <2>4. pc[c] = "sync_queue" => current_thread[c] = to_thread[c]
      BY <1>0, Zenon DEF LocalInv
  <2>5. runningBar' = runningBar
      BY <1>0, <1>f, <2>4, Zenon DEF runningBar
  <2> QED
      BY <2>3, <2>5, Zenon
<1>g. ASSUME NEW c \in Cpu, LeaveAndQueue(c)
      PROVE  UNCHANGED <<readyBar, runningBar>>
  <2>1. /\ pc[c] = "sync_queue" /\ from_thread[c] \in Thread
        /\ from_thread[c] # to_thread[c] /\ to_thread[c] = current_thread[c]
      BY <1>0, <1>g, Zenon DEF LeaveAndQueue, LocalInv
  <2>2. Holds(c, from_thread[c]) /\ from_thread[c] = GivenUp(c)
      BY <2>1, Zenon DEF Holds, InTransit, GivenUp
  <2>3. is_active[from_thread[c]] /\ state[from_thread[c]] = "RUNNING"
      BY <1>0, <2>1, <2>2, Zenon DEF RunningState, ActiveState
  <2>4. /\ pc' = [pc EXCEPT ![c] = "sync_unlock"]
        /\ ready_list' = Append(ready_list, from_thread[c])
        /\ to_thread' = to_thread
        /\ current_thread' = [current_thread EXCEPT ![c] = to_thread[c]]
      BY <1>0, <1>g, <2>1, <2>3, SMTT(30) DEF LeaveAndQueue, PushReadyThread
  <2> QED
      BY <1>f, <2>1, <2>2, <2>4, Zenon
<1>j. ASSUME NEW c \in Cpu, AsyncQueue(c)
      PROVE  UNCHANGED <<readyBar, runningBar>>
  <2>1. /\ pc[c] = "async_queue" /\ current_thread[c] \in Thread
        /\ current_thread[c] # to_thread[c]
      BY <1>0, <1>j DEF AsyncQueue, LocalInv
  <2>2. Holds(c, current_thread[c]) /\ current_thread[c] = GivenUp(c)
      BY <2>1, Zenon DEF Holds, InTransit, GivenUp
  <2>3. /\ pc' = [pc EXCEPT ![c] = "async_unlock"]
        /\ ready_list' = Append(ready_list, current_thread[c])
        /\ to_thread' = to_thread
        /\ current_thread' = [current_thread EXCEPT ![c] = to_thread[c]]
      BY <1>j, <2>1, ZenonT(30) DEF AsyncQueue, PushReadyThread
  <2> QED
      BY <1>f, <2>1, <2>2, <2>3, Zenon
<1>k. ASSUME NEW c \in Cpu,
             \/ SchedulerReady(c) \/ WaitReady(c) \/ SpinLock(c) \/ ThreadEnter(c)
             \/ SchedulerLeave(c) \/ EnableInt(c) \/ Yield(c) \/ YieldNone(c)
             \/ SwitchUnlock(c) \/ AsyncNone(c) \/ TimerInterrupt(c)
      PROVE  UNCHANGED <<readyBar, runningBar>>
  <2>1. TimerInterrupt(c) => pc[c] \in InterruptiblePc
      BY <1>0, Zenon DEF TimerInterrupt, InterruptInv, NoPanic
  <2>2. PICK l \in Pc : pc' = [pc EXCEPT ![c] = l] /\ l \notin Switching
    <3>1. \E l \in {"wait_ready", "boot_lock", "boot_idle", "yield_pull", "async_pull", "leave",
                   "sti", "run", "yield_lock", "sync_load", "async_load", "async_leave",
                   "async_lock"} : pc' = [pc EXCEPT ![c] = l]
        BY <1>k, Zenon DEF SchedulerReady, WaitReady, SpinLock, ThreadEnter, SchedulerLeave,
           EnableInt, Yield, YieldNone, SwitchUnlock, AsyncNone, TimerInterrupt
    <3> QED
        BY <3>1, Zenon
  <2>3. pc[c] \notin Switching
      BY <1>k, <2>1, Zenon DEF SchedulerReady, WaitReady, SpinLock, ThreadEnter, SchedulerLeave,
         EnableInt, Yield, YieldNone, SwitchUnlock, AsyncNone
  <2>4. /\ UNCHANGED <<ready_list, current_thread, to_thread>>
        /\ \A d \in Cpu \ {c} : from_thread'[d] = from_thread[d]
      BY <1>0, <1>k, Zenon DEF SchedulerReady, WaitReady, SpinLock, ThreadEnter, SchedulerLeave,
         EnableInt, Yield, YieldNone, SwitchUnlock, AsyncNone, TimerInterrupt
  <2> QED
      BY <1>0, <2>2, <2>3, <2>4, QuietBar, Zenon
<1>h. ASSUME NEW c \in Cpu, LoadContext(c) \/ AsyncReturn(c)
      PROVE  UNCHANGED <<readyBar, runningBar>>
  <2>1. LoadContext(c) => context[to_thread[c]] \in {"run", "sti"}
      BY <1>0, SMTT(30) DEF LoadContext, ContextInv, LocalInv
  <2>0. AsyncReturn(c) => intr[c] \in {"run", "sti"}
      BY <1>0, Zenon DEF AsyncReturn, InterruptInv
  <2>2. PICK l : pc' = [pc EXCEPT ![c] = l] /\ pc[c] \notin Switching /\ l \notin Switching
      BY <1>h, <2>0, <2>1, Zenon DEF LoadContext, AsyncReturn
  <2>3. UNCHANGED <<ready_list, current_thread, from_thread, to_thread>>
      BY <1>h, Zenon DEF LoadContext, AsyncReturn
  <2> QED
      BY <1>0, <2>2, <2>3, QuietBar, Zenon
<1>i. ASSUME UNCHANGED vars \/ \E c \in Cpu : LoadSmashed(c)
      PROVE  UNCHANGED <<readyBar, runningBar>>
    BY <1>i, Zenon DEF vars, LoadSmashed, readyBar, runningBar, GivenUp
<1> QED
    BY <1>b, <1>c, <1>d, <1>e, <1>g, <1>h, <1>i, <1>j, <1>k, Zenon
    DEF Next, CpuStep, BootStep, RR!vars

\* The scheduler is a round robin over one FIFO, whatever yields, timer interrupts and
\* processors interleave: it implements RoundRobin under readyBar and runningBar.
THEOREM Refinement == Spec => ImplementsRoundRobin
<1>1. Init => RR!Init
    BY Zenon DEF Init, RR!Init, readyBar, runningBar, Switching
<1> QED
    BY <1>1, RefinementStep, Invariance, PTL DEF Spec, ImplementsRoundRobin, RR!Spec

-----------------------------------------------------------------------------
(***************************************************************************)
(* What the scheduler does with ready_list.                                *)
(***************************************************************************)
LC == INSTANCE ListContents WITH list <- ready_list, Data <- Thread

\* A step that changes the list is one linked_list_enqueue, of a thread that is not in
\* it, or one linked_list_pop, by a CPU that may.
ListCall(c) ==
    /\ UsesList(c)
    /\ \A d \in Cpu \ {c} : pc'[d] = pc[d] /\ intr'[d] = intr[d]
    /\ \/ \E t \in Thread : ~InReady(t) /\ ready_list' = Append(ready_list, t)
       \/ ready_list # << >> /\ ready_list' = Tail(ready_list)

LEMMA ListStep ==
    ASSUME IndInv, [Next]_vars
    PROVE  UNCHANGED ready_list \/ \E c \in Cpu : ListCall(c)
<1> USE DEF At, Goto, lockVars, threadVars, irqVars, procVars, stackVars
<1>0. pc \in [Cpu -> Pc]
    BY Zenon DEF IndInv, TypeOK
<1>1. ASSUME NEW c \in Cpu, NEW t \in Workers, CreateWorker(c, t)
      PROVE  ListCall(c)
  <2>1. t \in Thread /\ state[t] = "NONE" /\ ready_list' = Append(ready_list, t) /\ UsesList(c)
      BY <1>1, Zenon DEF CreateWorker, PushReadyThread, Workers, UsesList
  <2>2. ~InReady(t)
      BY <2>1 DEF IndInv, PlaceInv, ReadyState
  <2>3. UNCHANGED <<pc, intr>>
      BY <1>1, Zenon DEF CreateWorker
  <2> QED
      BY <2>1, <2>2, <2>3, Zenon DEF ListCall
<1>2. ASSUME NEW c \in Cpu, YieldPull(c) \/ AsyncPull(c)
      PROVE  ListCall(c)
  <2>1. pc[c] \in {"yield_pull", "async_pull"} /\ ready_list # << >>
        /\ ready_list' = Tail(ready_list)
      BY <1>2, Zenon DEF YieldPull, AsyncPull, PullNextRunnable
  <2>2. \A d \in Cpu \ {c} : pc'[d] = pc[d] /\ intr'[d] = intr[d]
      BY <1>0, <1>2, Zenon DEF YieldPull, AsyncPull, PullNextRunnable
  <2> QED
      BY <2>1, <2>2, Zenon DEF ListCall, UsesList, HoldsLock, CriticalPc
<1>3. ASSUME NEW c \in Cpu, LeaveAndQueue(c) \/ AsyncQueue(c)
      PROVE  UNCHANGED ready_list \/ ListCall(c)
  <2> DEFINE t == IF pc[c] = "sync_queue" THEN from_thread[c] ELSE current_thread[c]
  <2>1. pc[c] \in {"sync_queue", "async_queue"}
        /\ (UNCHANGED ready_list \/ ready_list' = Append(ready_list, t))
      BY <1>3 DEF LeaveAndQueue, AsyncQueue, PushReadyThread
  <2>2. t \in Thread /\ Holds(c, t)
    <3>1. CASE pc[c] = "sync_queue"
        BY <3>1, Zenon DEF IndInv, LocalInv, Holds, InTransit
    <3>2. CASE pc[c] = "async_queue"
      <4>1. current_thread[c] # NoThread /\ current_thread[c] \in Thread \cup {NoThread}
          BY <3>2 DEF IndInv, LocalInv, TypeOK, PreBootPc
      <4> QED
          BY <3>2, <4>1 DEF Holds
    <3> QED
        BY <2>1, <3>1, <3>2, Zenon
  <2> HIDE DEF t
  <2>3. ~InReady(t)
      BY <2>2 DEF IndInv, PlaceInv, ReadyState, RunningState
  <2>4. \A d \in Cpu \ {c} : pc'[d] = pc[d] /\ intr'[d] = intr[d]
      BY <1>0, <1>3, Zenon DEF LeaveAndQueue, AsyncQueue
  <2> QED
      BY <2>1, <2>2, <2>3, <2>4, Zenon DEF ListCall, UsesList, HoldsLock, CriticalPc
<1>4. ASSUME NEW c \in Cpu,
             \/ SchedulerReady(c) \/ WaitReady(c) \/ CreateIdle(c) \/ ThreadEnter(c)
             \/ SpinLock(c) \/ SchedulerLeave(c) \/ EnableInt(c) \/ Yield(c)
      PROVE  UNCHANGED ready_list
    BY <1>4, Zenon DEF SchedulerReady, WaitReady, CreateIdle, ThreadEnter, SpinLock,
       SchedulerLeave, EnableInt, Yield
<1>5. ASSUME NEW c \in Cpu,
             \/ YieldNone(c) \/ SyncSave(c) \/ SwitchUnlock(c) \/ LoadContext(c)
             \/ LoadSmashed(c) \/ AsyncNone(c) \/ AsyncReturn(c) \/ TimerInterrupt(c)
      PROVE  UNCHANGED ready_list
    BY <1>5, Zenon DEF YieldNone, SyncSave, SwitchUnlock, LoadContext, LoadSmashed, AsyncNone,
       AsyncReturn, TimerInterrupt
<1>6. UNCHANGED vars => UNCHANGED ready_list
    BY Zenon DEF vars
<1> QED
    BY <1>1, <1>2, <1>3, <1>4, <1>5, <1>6, Zenon DEF Next, CpuStep, BootStep

\* ready_list is used as linked_list.h describes it: from empty on, by linked_list_enqueue
\* and linked_list_pop of a list that is not empty, one whole call at a time.  With
\* ListImplementsSequence of the list itself, ready_list is the FIFO Scheduler takes it for.
THEOREM ListUsedAsPromised == Spec => LC!Spec
<1>1. Init => LC!Init
    BY Zenon DEF Init, LC!Init
<1>2. ASSUME IndInv, [Next]_vars
      PROVE  [LC!Next]_ready_list
  <2>1. ASSUME NEW c \in Cpu, ListCall(c)
        PROVE  LC!Next
    <3>1. ASSUME NEW t \in Thread, ready_list' = Append(ready_list, t)
          PROVE  LC!Next
        BY <3>1, Zenon DEF LC!Next, LC!Enqueue
    <3>2. ASSUME ready_list # << >>, ready_list' = Tail(ready_list)
          PROVE  LC!Next
      <4>1. ready_list \in Seq(Thread)
          BY <1>2, Zenon DEF IndInv, TypeOK
      <4>2. 0 \in 0 .. Len(ready_list) /\ 0 < Len(ready_list)
          BY <3>2, <4>1
      <4>3. Tail(ready_list) = SubSeq(ready_list, 1, 0) \o SubSeq(ready_list, 0 + 2, Len(ready_list))
          BY <3>2, <4>1
      <4>4. LC!RemoveIndex(0)
          BY <3>2, <4>2, <4>3, Zenon DEF LC!RemoveIndex
      <4> QED
          BY <4>2, <4>4, Zenon DEF LC!Next
    <3> QED
        BY <2>1, <3>1, <3>2, Zenon DEF ListCall
  <2> QED
      BY <1>2, <2>1, ListStep, Zenon
<1> QED
    BY <1>1, <1>2, Invariance, PTL DEF Spec, LC!Spec

\* No two calls on ready_list overlap: a CPU changes it only where it may, and no other
\* CPU may, before the step and after it.
CallsDoNotOverlap ==
    [][ready_list' # ready_list =>
          \E c \in Cpu : UsesList(c) /\ \A d \in Cpu \ {c} : ~UsesList(d) /\ ~UsesList(d)']_vars

\* sched_lock, and at boot scheduler_ready, make each call on ready_list one step.
THEOREM ListCallsExclude == Spec => CallsDoNotOverlap
<1>1. ASSUME MutualExclusion, NEW c \in Cpu, ListCall(c)
      PROVE  UsesList(c) /\ \A d \in Cpu \ {c} : ~UsesList(d) /\ ~UsesList(d)'
  <2>1. \A d \in Cpu \ {c} : ~UsesList(d)
      BY <1>1, Zenon DEF MutualExclusion, ListCall
  <2>2. \A d \in Cpu \ {c} : UsesList(d)' <=> UsesList(d)
      BY <1>1, Zenon DEF ListCall, UsesList, HoldsLock
  <2> QED
      BY <1>1, <2>1, <2>2, Zenon DEF ListCall
<1>2. IndInv /\ MutualExclusion /\ [Next]_vars => [ready_list' # ready_list =>
          \E c \in Cpu : UsesList(c) /\ \A d \in Cpu \ {c} : ~UsesList(d) /\ ~UsesList(d)']_vars
    BY <1>1, ListStep, Zenon
<1> QED
    BY <1>2, Invariance, LockExcludes, PTL DEF Spec, CallsDoNotOverlap

\* t is ahead of u in ready_list.
Ahead(t, u) ==
    \E i, j \in DOMAIN ready_list : i < j /\ ready_list[i] = t /\ ready_list[j] = u

\* No thread overtakes another: of two threads in ready_list, the one that is ahead stays
\* ahead until it is pulled, however many CPUs pull and push.
NoOvertaking ==
    [][\A t, u \in Thread : Ahead(t, u) /\ InReady(t)' /\ InReady(u)' => Ahead(t, u)']_vars

\* ready_list is first in, first out across all CPUs: what ReadyThreadRuns needs of safety.
THEOREM FirstInFirstOut == Spec => NoOvertaking
<1>1. ASSUME IndInv, [Next]_vars, NEW t \in Thread, NEW u \in Thread, Ahead(t, u), InReady(t)'
      PROVE  Ahead(t, u)'
  <2>1. PICK i \in DOMAIN ready_list, j \in DOMAIN ready_list :
            i < j /\ ready_list[i] = t /\ ready_list[j] = u
      BY <1>1, Zenon DEF Ahead
  <2>2. ready_list \in Seq(Thread)
      BY <1>1, Zenon DEF IndInv, TypeOK
  <2>3. CASE UNCHANGED ready_list
      BY <1>1, <2>3, Zenon DEF Ahead
  <2>4. ASSUME NEW x \in Thread, ready_list' = Append(ready_list, x)
        PROVE  Ahead(t, u)'
    <3>1. /\ i \in DOMAIN ready_list' /\ j \in DOMAIN ready_list'
          /\ ready_list'[i] = t /\ ready_list'[j] = u
        BY <2>1, <2>2, <2>4
    <3> QED
        BY <2>1, <3>1, Zenon DEF Ahead
  <2>5. ASSUME ready_list # << >>, ready_list' = Tail(ready_list)
        PROVE  Ahead(t, u)'
    <3>1. t # Head(ready_list)
        BY <1>1, <2>2, <2>5, TailReady, Zenon DEF IndInv, PlaceInv
    <3>2. i # 1
        BY <2>1, <2>2, <3>1
    <3>3. /\ i - 1 \in DOMAIN ready_list' /\ j - 1 \in DOMAIN ready_list' /\ i - 1 < j - 1
          /\ ready_list'[i - 1] = t /\ ready_list'[j - 1] = u
        BY <2>1, <2>2, <2>5, <3>2
    <3> QED
        BY <3>3, Zenon DEF Ahead
  <2> QED
      BY <1>1, <2>3, <2>4, <2>5, ListStep, Zenon DEF ListCall
<1>2. IndInv /\ [Next]_vars => [\A t, u \in Thread :
          Ahead(t, u) /\ InReady(t)' /\ InReady(u)' => Ahead(t, u)']_vars
    BY <1>1, Zenon
<1> QED
    BY <1>2, Invariance, PTL DEF Spec, NoOvertaking
=============================================================================
