-------------------------------- MODULE Trap --------------------------------
(***************************************************************************)
(* Interrupts and exceptions on one processor: the gates of arch/idt.c,    *)
(* the stubs of arch/irq.s, the handlers of arch/irq_handle.c, and, as     *)
(* they see it, the local APIC: the interrupts requested (irr) and in      *)
(* service (isr), of which it delivers the highest request whose class, 16 *)
(* vectors wide, is above every class in service.  The gates are interrupt *)
(* gates, so a handler is not interrupted but by an exception.             *)
(***************************************************************************)
EXTENDS Integers

CONSTANT Sources        \* the vectors that devices and the timer raise

APIC_TIMER_IRQ == 252
APIC_IPI_IRQ == 253
APIC_ERR_IRQ == 254
APIC_SPURIOUS_IRQ == 255
Idle == -1

ASSUME TrapAssumption == Sources \subseteq 32 .. 254

VARIABLES
    irr, isr,
    vector,         \* the interrupt being handled, or Idle
    trap,           \* the exception being handled, or Idle
    interruptible,  \* the thread's interrupt flag
    halted

trapVars == <<irr, isr, vector, trap, interruptible, halted>>

TrapInit ==
    /\ irr = {} /\ isr = {}
    /\ vector = Idle /\ trap = Idle
    /\ interruptible = TRUE
    /\ halted = FALSE

-----------------------------------------------------------------------------
(* Gates, stubs and dispatch. *)

Stubs == (0 .. 8) \cup (10 .. 14) \cup (16 .. 20) \cup {30} \cup (32 .. 255)

\* The number that interrupt_handler finds on the stack: the gates that set_idt leaves
\* NULL are filled with the stub of 1.
int_num(v) == IF v \in Stubs THEN v ELSE 1

\* The exceptions whose handler stops the processor.
Fatal == {0, 4, 5, 6, 8} \cup (10 .. 14)

\* The handlers that end with lapic_eoi: irq0 to irq15, IPI, error, spurious.
Acknowledging == (32 .. 47) \cup {APIC_IPI_IRQ, APIC_ERR_IRQ, APIC_SPURIOUS_IRQ}

\* What is left to default_handler of the vectors that come from the APIC.
Unhandled == (32 .. 255) \ (Acknowledging \cup {APIC_TIMER_IRQ})

class(v) == v \div 16

-----------------------------------------------------------------------------
(* The local APIC and the thread. *)

Raise(v) ==
    /\ ~halted
    /\ irr' = irr \cup {v}
    /\ UNCHANGED <<isr, vector, trap, interruptible, halted>>

\* Faulty form: trap gates, which leave interrupts on in a handler.
Accepts_TrapGates == ~halted /\ interruptible /\ trap = Idle

\* TYPE_32_INT_GATE: interrupts are off in every handler.
Accepts == ~halted /\ interruptible /\ vector = Idle /\ trap = Idle

Deliver(v) ==
    /\ Accepts
    /\ v \in irr
    /\ \A w \in irr : w <= v
    /\ \A w \in isr : class(w) < class(v)
    /\ irr' = irr \ {v}
    /\ isr' = isr \cup {v}
    /\ vector' = v
    /\ UNCHANGED <<trap, interruptible, halted>>

\* An interrupt that is gone when the processor asks for its vector.
Spurious ==
    /\ Accepts
    /\ vector' = APIC_SPURIOUS_IRQ
    /\ UNCHANGED <<irr, isr, trap, interruptible, halted>>

disable_int ==
    /\ Accepts
    /\ interruptible' = FALSE
    /\ UNCHANGED <<irr, isr, vector, trap, halted>>

\* The end of a stretch with interrupts off.  In scheduler_yield it comes after
\* spin_lock(&sched_lock), and so possibly never.
enable_int ==
    /\ ~interruptible
    /\ trap = Idle
    /\ interruptible' = TRUE
    /\ UNCHANGED <<irr, isr, vector, trap, halted>>

-----------------------------------------------------------------------------
(* interrupt_handler *)

\* lapic_eoi names no vector: the highest in service is done.
lapic_eoi == isr' = isr \ {v \in isr : \A w \in isr : w <= v}

iret == vector' = Idle /\ UNCHANGED <<irr, trap, interruptible, halted>>

\* Faulty form: only the handlers of the first PIC end with lapic_eoi.
irq_handler_FirstPic ==
    /\ trap = Idle
    /\ int_num(vector) \in Acknowledging
    /\ IF int_num(vector) < 40 THEN lapic_eoi ELSE UNCHANGED isr
    /\ iret

irq_handler ==
    /\ trap = Idle
    /\ int_num(vector) \in Acknowledging
    /\ lapic_eoi
    /\ iret

\* Faulty form: the timer is left to default_handler.
lapic_timer_handler_Default ==
    /\ trap = Idle
    /\ int_num(vector) = APIC_TIMER_IRQ
    /\ UNCHANGED isr
    /\ iret

\* lapic_eoi comes before the scheduler, which may leave by another thread's iret, or
\* wait for sched_lock for ever.
lapic_timer_handler ==
    /\ trap = Idle
    /\ int_num(vector) = APIC_TIMER_IRQ
    /\ lapic_eoi
    /\ iret

default_handler ==
    /\ trap = Idle
    /\ int_num(vector) \in Unhandled
    /\ UNCHANGED isr
    /\ iret

Exception(e) ==
    /\ ~halted
    /\ trap = Idle
    /\ trap' = e
    /\ UNCHANGED <<irr, isr, vector, interruptible, halted>>

\* halt_system or PANIC; or the handler, or default_handler, returns.  (The stub of 17
\* pushes a number where the processor has pushed an error code, and those of 21 and 29
\* are the stub of 1: none of the three is raised in a kernel without alignment checks and
\* shadow stacks.)
exception_handler ==
    /\ ~halted
    /\ trap # Idle
    /\ IF int_num(trap) \in Fatal THEN halted' = TRUE /\ UNCHANGED trap
                                  ELSE trap' = Idle /\ UNCHANGED halted
    /\ UNCHANGED <<irr, isr, vector, interruptible>>

interrupt_handler ==
    irq_handler \/ lapic_timer_handler \/ default_handler \/ exception_handler

TrapNext ==
    \/ \E v \in Sources : Raise(v) \/ Deliver(v)
    \/ Spurious
    \/ disable_int \/ enable_int
    \/ \E e \in 0 .. 31 : Exception(e)
    \/ interrupt_handler

TrapSpec == TrapInit /\ [][TrapNext]_trapVars

-----------------------------------------------------------------------------
\* When a thread runs, the only interrupts still in service are those that
\* default_handler took, which sends no lapic_eoi: every other handler has dismissed
\* its own, although lapic_eoi does not say which one and spurious_handler sends one for
\* an interrupt that was never in service.
InServiceOnlyStale == vector = Idle => isr \subseteq Unhandled

\* What default_handler leaves in service never locks the timer out: a timer interrupt is
\* taken, unless from some time on the processor takes no interrupt at all.  It does not
\* when it is stopped, or spins on sched_lock, in scheduler_yield or in the timer's own
\* handler, and never wins it.
TimerSurvives ==
    \/ <>[]~Accepts
    \/ APIC_TIMER_IRQ \in irr ~> APIC_TIMER_IRQ \notin irr

\* lapic_eoi dismisses the interrupt of the handler that sends it.  spurious_handler,
\* which has none in service, dismisses nothing but what default_handler had left, since
\* no handler is interrupted.
EoiDismissesOwn ==
    [][\A v \in isr \ isr' :
          v = vector \/ (vector = APIC_SPURIOUS_IRQ /\ v \in Unhandled)]_trapVars
=============================================================================
