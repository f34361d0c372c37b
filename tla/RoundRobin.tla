----------------------------- MODULE RoundRobin -----------------------------
(***************************************************************************)
(* What the scheduler promises (README.md: "Multi-core round-robin         *)
(* premptive scheduler"): runnable threads wait in one FIFO, and a CPU     *)
(* that gives up its thread takes the head of the FIFO and puts the thread *)
(* it gave up at the tail, in one step.                                    *)
(***************************************************************************)
EXTENDS Sequences

CONSTANTS Cpu, Thread, NoThread

VARIABLES ready,    \* the FIFO of waiting threads
          running   \* running[c] is the thread that CPU c has, or NoThread

vars == <<ready, running>>

Init == ready = << >> /\ running = [c \in Cpu |-> NoThread]

IsNew(t) ==
    /\ \A c \in Cpu : running[c] # t
    /\ \A i \in DOMAIN ready : ready[i] # t

\* A new thread starts to wait.
Admit(t) ==
    /\ IsNew(t)
    /\ ready' = Append(ready, t)
    /\ UNCHANGED running

\* A CPU joins with a new thread of its own.
Join(c, t) ==
    /\ running[c] = NoThread
    /\ IsNew(t)
    /\ running' = [running EXCEPT ![c] = t]
    /\ UNCHANGED ready

\* A CPU exchanges its thread for the one that has waited longest.
Rotate(c) ==
    /\ running[c] # NoThread
    /\ ready # << >>
    /\ running' = [running EXCEPT ![c] = Head(ready)]
    /\ ready' = Append(Tail(ready), running[c])

Next ==
    \/ \E t \in Thread : Admit(t)
    \/ \E c \in Cpu, t \in Thread : Join(c, t)
    \/ \E c \in Cpu : Rotate(c)

Spec == Init /\ [][Next]_vars
=============================================================================
