-------------------------- MODULE KernelPartsProofs --------------------------
(***************************************************************************)
(* Proofs about four parts of the kernel that do not share state: Trap,    *)
(* for every set of vectors that devices may raise; ContextSwitch, for any *)
(* processors and any threads; Terminal, for any printers and any screen;  *)
(* and CircBuf, for buffers of every size.                                 *)
(***************************************************************************)
EXTENDS Trap, ContextSwitch, Terminal, CircBuf, FiniteSetTheorems, TLAPS

\* The interrupt being handled is in service and its class is above all the others in
\* service, which default_handler left there: so lapic_eoi finds the right one.
HandledOnTop ==
    /\ irr \subseteq Sources
    /\ isr \subseteq Sources
    /\ vector \in Sources \cup {Idle, APIC_SPURIOUS_IRQ}
    /\ vector \in Sources =>
          /\ vector \in isr
          /\ \A w \in isr \ {vector} : w \in Unhandled /\ class(w) < class(vector)
    /\ vector \notin Sources => isr \subseteq Unhandled

\* A vector of a lower class is lower.
LEMMA ClassOrder ==
    ASSUME NEW v \in Nat, NEW w \in Nat, class(w) < class(v)
    PROVE  w < v
<1>1. v = 16 * (v \div 16) + (v % 16) /\ v % 16 \in 0 .. 15 /\ v \div 16 \in Nat
  OBVIOUS
<1>2. w = 16 * (w \div 16) + (w % 16) /\ w % 16 \in 0 .. 15 /\ w \div 16 \in Nat
  OBVIOUS
<1> QED BY <1>1, <1>2 DEF class

\* The vectors that are raised have a stub of their own.
LEMMA SourceNumbers ==
    ASSUME NEW v \in Sources
    PROVE  /\ v \in Nat /\ v >= 32 /\ v < 255
           /\ int_num(v) = v
BY TrapAssumption DEF int_num, Stubs

\* Nothing is in service at the start.
LEMMA TrapInitInv == TrapInit => HandledOnTop
BY TrapAssumption DEF TrapInit, HandledOnTop, Idle

\* lapic_eoi in the handler of a vector that is in service dismisses that vector.
LEMMA EoiOwn ==
    ASSUME HandledOnTop, vector \in Sources, lapic_eoi
    PROVE  isr' = isr \ {vector}
<1>1. \A w \in isr \ {vector} : w < vector
  BY SourceNumbers, ClassOrder DEF HandledOnTop
<1>2. vector \in Nat /\ \A w \in isr : w \in Nat
  BY SourceNumbers DEF HandledOnTop
<1>3. {v \in isr : \A w \in isr : w <= v} = {vector}
  <2>1. vector \in isr /\ \A w \in isr : w <= vector
    BY <1>1, <1>2 DEF HandledOnTop
  <2>2. ASSUME NEW v \in isr, \A w \in isr : w <= v PROVE v = vector
    BY <1>1, <1>2, <2>1, <2>2
  <2> QED BY <2>1, <2>2
<1> QED BY <1>3 DEF lapic_eoi

\* Every handler and every event of the APIC keeps the invariant.
LEMMA TrapNextInv == HandledOnTop /\ [TrapNext]_trapVars => HandledOnTop'
<1> SUFFICES ASSUME HandledOnTop, [TrapNext]_trapVars PROVE HandledOnTop'
  OBVIOUS
<1> USE DEF HandledOnTop
<1>0. Idle \notin Sources /\ APIC_SPURIOUS_IRQ \notin Sources
  BY TrapAssumption DEF Idle, APIC_SPURIOUS_IRQ
<1>1. ASSUME NEW v \in Sources, Raise(v) PROVE HandledOnTop'
  BY <1>1 DEF Raise
<1>2. ASSUME NEW v \in Sources, Deliver(v) PROVE HandledOnTop'
  BY <1>0, <1>2 DEF Deliver, Accepts
<1>3. CASE Spurious
  BY <1>0, <1>3 DEF Spurious, Accepts
<1>4. CASE disable_int \/ enable_int
  BY <1>4 DEF disable_int, enable_int
<1>5. CASE irq_handler \/ lapic_timer_handler
  <2>1. lapic_eoi /\ iret
    BY <1>5 DEF irq_handler, lapic_timer_handler
  <2>2. CASE vector \in Sources
    BY <1>0, <2>1, <2>2, EoiOwn DEF iret
  <2>3. CASE vector \notin Sources
    BY <1>0, <2>1, <2>3 DEF iret, lapic_eoi
  <2> QED BY <2>2, <2>3
<1>6. CASE default_handler
  <2>1. vector \notin {Idle, APIC_SPURIOUS_IRQ}
    BY <1>6 DEF default_handler, Unhandled, Acknowledging, int_num, Stubs, Idle, APIC_SPURIOUS_IRQ
  <2>2. vector \in Sources /\ vector \in Unhandled
    BY <1>6, <2>1, SourceNumbers DEF default_handler
  <2> QED BY <1>0, <1>6, <2>2 DEF default_handler, iret
<1>7. ASSUME NEW e \in 0 .. 31, Exception(e) PROVE HandledOnTop'
  BY <1>7 DEF Exception
<1>8. CASE exception_handler
  BY <1>8 DEF exception_handler
<1>9. CASE UNCHANGED trapVars
  BY <1>9 DEF trapVars
<1> QED BY <1>1, <1>2, <1>3, <1>4, <1>5, <1>6, <1>7, <1>8, <1>9 DEF TrapNext, interrupt_handler

\* Whatever interrupts arrive, and in whatever order, a thread never runs with an
\* interrupt in service but those of default_handler.
THEOREM OnlyDefaultLeavesInService == TrapSpec => []InServiceOnlyStale
<1>1. HandledOnTop => InServiceOnlyStale
  BY TrapAssumption DEF HandledOnTop, InServiceOnlyStale, Idle
<1> QED BY TrapInitInv, TrapNextInv, <1>1, PTL DEF TrapSpec

\* No handler ends the service of another's interrupt, but for spurious_handler, which may
\* end that of one that default_handler has left.
THEOREM EachHandlerItsOwn == TrapSpec => EoiDismissesOwn
<1>1. HandledOnTop /\ [TrapNext]_trapVars =>
        [\A v \in isr \ isr' :
            v = vector \/ (vector = APIC_SPURIOUS_IRQ /\ v \in Unhandled)]_trapVars
  <2> SUFFICES ASSUME HandledOnTop, TrapNext, NEW v \in isr \ isr'
               PROVE  v = vector \/ (vector = APIC_SPURIOUS_IRQ /\ v \in Unhandled)
    OBVIOUS
  <2>1. CASE irq_handler \/ lapic_timer_handler
    <3>1. lapic_eoi
      BY <2>1 DEF irq_handler, lapic_timer_handler
    <3>2. vector # Idle
      BY <2>1 DEF irq_handler, lapic_timer_handler, int_num, Stubs, Idle, Acknowledging,
                  APIC_TIMER_IRQ, APIC_IPI_IRQ, APIC_ERR_IRQ, APIC_SPURIOUS_IRQ
    <3>3. vector \in Sources => isr' = isr \ {vector}
      BY <3>1, EoiOwn
    <3>4. CASE vector \in Sources BY <3>3, <3>4
    <3>5. CASE vector \notin Sources BY <3>2, <3>5 DEF HandledOnTop
    <3> QED BY <3>4, <3>5
  <2>2. CASE ~(irq_handler \/ lapic_timer_handler)
    BY <2>2 DEF TrapNext, interrupt_handler, Raise, Deliver, Spurious, disable_int, enable_int,
                default_handler, Exception, exception_handler
  <2> QED BY <2>1, <2>2
<1> QED BY TrapInitInv, TrapNextInv, <1>1, PTL DEF TrapSpec, EoiDismissesOwn

-----------------------------------------------------------------------------
\* No thread is on two processors, or on one and ready.
OnePlace ==
    /\ current \in [Cpus -> Threads]
    /\ \A c, d \in Cpus : current[c] = current[d] => c = d
    /\ \A c \in Cpus : current[c] \notin ready
    /\ ready \subseteq Threads

\* What is saved is what a later switch needs.
SavedWhole ==
    /\ switch \in [Cpus -> {"none", "sync", "async"}]
    /\ left \in [Threads -> {"new", "preempted", "yielded"}]
    /\ saved \in [Threads -> [Registers -> {"own", "old"}]]
    /\ regs \in [Cpus -> [Registers -> {"own", "old", "other"}]]
    /\ \A t \in Threads :
          /\ left[t] = "preempted" => \A r \in Registers : saved[t][r] = "own"
          /\ \A r \in {"esp", "ebp", "eip"} : saved[t][r] = "own"

ContextInv == OnePlace /\ SavedWhole /\ PreemptedResumesIntact

\* Every processor starts in its first thread.
LEMMA ContextInitInv == ContextInit => ContextInv
<1> SUFFICES ASSUME ContextInit PROVE ContextInv
  OBVIOUS
<1> USE ContextSwitchAssumption DEF ContextInit, OwnValues
<1>1. OnePlace
  BY DEF OnePlace
<1>2. SavedWhole
  BY DEF SavedWhole, Registers
<1>3. PreemptedResumesIntact
  BY DEF PreemptedResumesIntact, Registers
<1> QED BY <1>1, <1>2, <1>3 DEF ContextInv

\* Leaving a thread with its frame saved, and with everything saved when it was
\* preempted, keeps the invariant.
LEMMA LeaveKeeps ==
    ASSUME ContextInv,
           NEW c \in Cpus, NEW to \in ready, NEW how \in {"preempted", "yielded"},
           NEW state \in [Registers -> {"own", "old"}],
           NEW kind \in {"sync", "async"},
           how = "preempted" => \A r \in Registers : state[r] = "own",
           \A r \in {"esp", "ebp", "eip"} : state[r] = "own",
           Leave(c, to, how, state),
           switch' = [switch EXCEPT ![c] = kind]
    PROVE  ContextInv'
<1> USE DEF ContextInv
<1>1. OnePlace'
  BY DEF OnePlace, Leave
<1>2. SavedWhole'
  <2>1. current[c] \in Threads
    BY DEF OnePlace
  <2>2. /\ saved' = [saved EXCEPT ![current[c]] = state]
        /\ left' = [left EXCEPT ![current[c]] = how]
        /\ regs' = regs
    BY DEF Leave
  <2>3. /\ switch' \in [Cpus -> {"none", "sync", "async"}]
        /\ left' \in [Threads -> {"new", "preempted", "yielded"}]
        /\ saved' \in [Threads -> [Registers -> {"own", "old"}]]
        /\ regs' \in [Cpus -> [Registers -> {"own", "old", "other"}]]
    BY <2>1, <2>2 DEF SavedWhole
  <2>4. ASSUME NEW t \in Threads
        PROVE  /\ left'[t] = "preempted" => \A r \in Registers : saved'[t][r] = "own"
               /\ \A r \in {"esp", "ebp", "eip"} : saved'[t][r] = "own"
    BY <2>1, <2>2 DEF SavedWhole
  <2> QED BY <2>3, <2>4 DEF SavedWhole
<1>3. PreemptedResumesIntact'
  <2> SUFFICES ASSUME NEW d \in Cpus, switch'[d] = "none"
               PROVE  /\ left'[current'[d]] = "preempted" =>
                            \A r \in Registers \ {"eflags", "esi"} : regs'[d][r] = "own"
                      /\ \A r \in {"esp", "ebp", "eip"} : regs'[d][r] = "own"
    BY DEF PreemptedResumesIntact
  <2>1. d # c /\ switch[d] = "none"
    BY DEF SavedWhole
  <2>2. current'[d] = current[d] /\ current[d] # current[c] /\ current[d] \in Threads
    BY <2>1 DEF OnePlace, Leave
  <2>3. left'[current'[d]] = left[current[d]] /\ regs' = regs
    BY <2>2 DEF Leave, SavedWhole
  <2> QED BY <2>1, <2>3 DEF PreemptedResumesIntact
<1> QED BY <1>1, <1>2, <1>3

\* Coming back with what was saved, esi and eflags aside, keeps the invariant.
LEMMA EnterKeeps ==
    ASSUME ContextInv, NEW c \in Cpus,
           NEW values \in [Registers -> {"own", "old", "other"}],
           \A r \in Registers \ {"eflags", "esi"} : values[r] = saved[current[c]][r],
           Enter(c, values)
    PROVE  ContextInv'
<1> USE DEF ContextInv, Enter
<1>1. OnePlace'
  BY DEF OnePlace
<1>2. SavedWhole'
  BY DEF SavedWhole
<1>3. PreemptedResumesIntact'
  <2> SUFFICES ASSUME NEW d \in Cpus, switch'[d] = "none"
               PROVE  /\ left[current[d]] = "preempted" =>
                            \A r \in Registers \ {"eflags", "esi"} : regs'[d][r] = "own"
                      /\ \A r \in {"esp", "ebp", "eip"} : regs'[d][r] = "own"
    BY DEF PreemptedResumesIntact
  <2>1. CASE d = c
    <3>1. regs'[d] = values /\ current[d] \in Threads
      BY <2>1 DEF SavedWhole, OnePlace
    <3> QED BY <2>1, <3>1 DEF SavedWhole, Registers
  <2>2. CASE d # c
    <3>1. regs'[d] = regs[d] /\ switch[d] = "none"
      BY <2>2 DEF SavedWhole
    <3> QED BY <3>1 DEF PreemptedResumesIntact
  <2> QED BY <2>1, <2>2
<1> QED BY <1>1, <1>2, <1>3

\* Every step of a switch keeps the invariant.
LEMMA ContextNextInv == ContextInv /\ [ContextNext]_contextVars => ContextInv'
<1> SUFFICES ASSUME ContextInv, [ContextNext]_contextVars PROVE ContextInv'
  OBVIOUS
<1>1. ASSUME NEW c \in Cpus, NEW to \in ready, scheduler_async_enter(c, to) PROVE ContextInv'
  <2>1. /\ OwnValues \in [Registers -> {"own", "old"}]
        /\ \A r \in Registers : OwnValues[r] = "own"
        /\ \A r \in {"esp", "ebp", "eip"} : OwnValues[r] = "own"
    BY DEF OwnValues, Registers
  <2>2. Leave(c, to, "preempted", OwnValues) /\ switch' = [switch EXCEPT ![c] = "async"]
    BY <1>1 DEF scheduler_async_enter, save_register_state
  <2> QED BY <2>1, <2>2, LeaveKeeps
<1>2. ASSUME NEW c \in Cpus, NEW to \in ready, scheduler_yield(c, to) PROVE ContextInv'
  <2> DEFINE state == [r \in Registers |->
                          IF r \in {"ebp", "esp", "eip", "eflags"} THEN "own" ELSE "old"]
  <2>1. /\ state \in [Registers -> {"own", "old"}]
        /\ \A r \in {"esp", "ebp", "eip"} : state[r] = "own"
    BY DEF Registers
  <2>2. Leave(c, to, "yielded", state) /\ switch' = [switch EXCEPT ![c] = "sync"]
    BY <1>2 DEF scheduler_yield
  <2> HIDE DEF state
  <2> QED BY <2>1, <2>2, LeaveKeeps
<1>3. ASSUME NEW c \in Cpus, thread_switch_sync(c) PROVE ContextInv'
  <2> DEFINE values == [saved[current[c]] EXCEPT !["eflags"] = "other"]
  <2>1. saved[current[c]] \in [Registers -> {"own", "old"}]
    BY DEF ContextInv, OnePlace, SavedWhole
  <2>2. /\ values \in [Registers -> {"own", "old", "other"}]
        /\ \A r \in Registers \ {"eflags", "esi"} : values[r] = saved[current[c]][r]
    BY <2>1
  <2>3. Enter(c, values)
    BY <1>3 DEF thread_switch_sync
  <2> HIDE DEF values
  <2> QED BY <2>2, <2>3, EnterKeeps
<1>4. ASSUME NEW c \in Cpus, thread_switch_async(c) PROVE ContextInv'
  <2> DEFINE values == [saved[current[c]] EXCEPT !["eflags"] = "other", !["esi"] = "other"]
  <2>1. saved[current[c]] \in [Registers -> {"own", "old"}]
    BY DEF ContextInv, OnePlace, SavedWhole
  <2>2. /\ values \in [Registers -> {"own", "old", "other"}]
        /\ \A r \in Registers \ {"eflags", "esi"} : values[r] = saved[current[c]][r]
    BY <2>1
  <2>3. Enter(c, values)
    BY <1>4 DEF thread_switch_async
  <2> HIDE DEF values
  <2> QED BY <2>2, <2>3, EnterKeeps
<1>5. CASE UNCHANGED contextVars
  BY <1>5 DEF contextVars, ContextInv, OnePlace, SavedWhole, PreemptedResumesIntact
<1> QED BY <1>1, <1>2, <1>3, <1>4, <1>5 DEF ContextNext

\* A preempted thread comes back with all its registers but eflags and esi, whichever
\* switches and processors lie between.
THEOREM RegistersComeBack == ContextSpec => []PreemptedResumesIntact
<1>1. ContextInv => PreemptedResumesIntact
  BY DEF ContextInv
<1> QED BY ContextInitInv, ContextNextInv, <1>1, PTL DEF ContextSpec

-----------------------------------------------------------------------------
(***************************************************************************)
(* Terminal: one printer at a time keeps the cursor on the screen.         *)
(***************************************************************************)
Places == {"number", "text", "newline", "out"} \X
          {"column", "store_column", "test_column", "row", "store_row", "test_row", "put",
           "done", "count", "out"}

\* Where a printer is in term_putchar says how far the cursor may have gone: it may be one
\* past the end between the store of ++terminal_column or ++terminal_row and its test.
Following(p) ==
    /\ IF at[p][2] = "test_column" THEN terminal_column <= VGA_WIDTH
       ELSE terminal_column < VGA_WIDTH
    /\ IF at[p][2] = "test_row" THEN terminal_row <= VGA_HEIGHT
       ELSE terminal_row < VGA_HEIGHT
    /\ at[p][2] = "store_column" => reg[p] = terminal_column
    /\ at[p][2] = "store_row" => reg[p] = terminal_row
    /\ at[p][1] = "number" => buff = number[p]

\* As long as no two printed at once, one printer at most is not out of kprint, and the
\* shared variables are where its steps left them.
ScreenInv ==
    /\ at \in [Printers -> Places]
    /\ reg \in [Printers -> Nat] /\ number \in [Printers -> Nat]
    /\ terminal_row \in Nat /\ terminal_column \in Nat /\ log_count \in Nat
    /\ garbled \in BOOLEAN /\ overlapped \in BOOLEAN
    /\ overlapped \/ (/\ ~garbled
                      /\ \A p, q \in Printers : at[p] # Out /\ at[q] # Out => p = q
                      /\ \A p \in Printers : at[p] # Out => Following(p)
                      /\ Quiet => terminal_row < VGA_HEIGHT /\ terminal_column < VGA_WIDTH)

\* A cursor in the last row and the last column is at the last character.
LEMMA OnScreen ==
    ASSUME NEW row \in Nat, NEW column \in Nat, row < VGA_HEIGHT, column < VGA_WIDTH
    PROVE  row * VGA_WIDTH + column < VGA_WIDTH * VGA_HEIGHT
<1> DEFINE w == VGA_WIDTH
           h == VGA_HEIGHT
<1>1. w \in Nat /\ h \in Nat /\ row < h /\ column < w
  BY TerminalAssumption
<1> HIDE DEF w, h
<1>2. PICK d \in Nat : h = row + 1 + d
  <2>1. h - (row + 1) \in Nat /\ h = row + 1 + (h - (row + 1))
    BY <1>1
  <2> QED BY <2>1
<1>3. w * (row + 1 + d) = row * w + w + w * d /\ w * d \in Nat /\ row * w \in Nat
  BY <1>1, Z3
<1>4. row * w + column < w * h
  BY <1>1, <1>2, <1>3
<1> QED BY <1>4 DEF w, h

\* A step of the one printer that is printing.
LEMMA AloneStep ==
    ASSUME ScreenInv, ~overlapped, NEW p \in Printers, at[p] # Out,
           NEW to \in Places, at' = [at EXCEPT ![p] = to],
           to # Out => Following(p)',
           to = Out => terminal_row' < VGA_HEIGHT /\ terminal_column' < VGA_WIDTH
    PROVE  /\ \A q, r \in Printers : at'[q] # Out /\ at'[r] # Out => q = r
           /\ \A q \in Printers : at'[q] # Out => Following(q)'
           /\ Quiet' => terminal_row' < VGA_HEIGHT /\ terminal_column' < VGA_WIDTH
<1>1. at'[p] = to /\ \A q \in Printers : q # p => at'[q] = Out
  BY DEF ScreenInv
<1>2. \A q \in Printers : at'[q] # Out => q = p /\ to # Out
  BY <1>1
<1>3. Quiet' => to = Out
  BY <1>1 DEF Quiet
<1> QED BY <1>2, <1>3

\* Every step of kprint and term_putchar keeps it.
LEMMA ScreenStep == ScreenInv /\ [TerminalNext]_screenVars => ScreenInv'
<1> SUFFICES ASSUME ScreenInv, [TerminalNext]_screenVars
             PROVE  ScreenInv'
  OBVIOUS
<1> USE TerminalAssumption
<1> DEFINE Types == /\ at \in [Printers -> Places]
                    /\ reg \in [Printers -> Nat] /\ number \in [Printers -> Nat]
                    /\ terminal_row \in Nat /\ terminal_column \in Nat /\ log_count \in Nat
                    /\ garbled \in BOOLEAN /\ overlapped \in BOOLEAN
           Order == /\ \A p, q \in Printers : at[p] # Out /\ at[q] # Out => p = q
                    /\ \A p \in Printers : at[p] # Out => Following(p)
                    /\ Quiet => terminal_row < VGA_HEIGHT /\ terminal_column < VGA_WIDTH
<1>0. Types /\ (overlapped \/ (~garbled /\ Order))
  BY DEF ScreenInv
<1>00. Types' /\ (overlapped' \/ (~garbled' /\ Order')) => ScreenInv'
  BY DEF ScreenInv
<1> HIDE DEF Types, Order
\* A step of p that is not the first of a message.
<1>1. ASSUME NEW p \in Printers, NEW from \in Places, NEW to \in Places, from # Out,
             Go(p, from, to), Types', overlapped' = overlapped,
             ~overlapped => /\ to # Out => Following(p)'
                            /\ to = Out => /\ terminal_row' < VGA_HEIGHT
                                           /\ terminal_column' < VGA_WIDTH
                            /\ ~garbled'
      PROVE  ScreenInv'
  <2>1. CASE overlapped
    BY <1>00, <1>1, <2>1
  <2>2. CASE ~overlapped
    <3>1. at[p] # Out /\ at' = [at EXCEPT ![p] = to]
      BY <1>1 DEF Go
    <3>2. Order'
      BY <1>1, <2>2, <3>1, AloneStep DEF Order
    <3> QED BY <1>00, <1>1, <2>2, <3>2
  <2> QED BY <2>1, <2>2
\* What is known of p before it.
<1>2. ASSUME NEW p \in Printers, at[p] # Out, ~overlapped
      PROVE  Following(p) /\ ~garbled
  BY <1>0, <1>2 DEF Order
<1>3. ASSUME NEW p \in Printers, kprint(p)
      PROVE  ScreenInv'
  <2>1. Types'
    BY <1>0, <1>3 DEF Types, kprint, Go, Places, Quiet
  <2>2. CASE overlapped'
    BY <1>00, <2>1, <2>2
  <2>3. CASE ~overlapped'
    <3>1. ~overlapped /\ Quiet
      BY <1>3, <2>3 DEF kprint
    <3>2. terminal_row < VGA_HEIGHT /\ terminal_column < VGA_WIDTH /\ ~garbled
      BY <1>0, <3>1 DEF Order
    <3>3. at'[p] = <<"number", "column">> /\ \A q \in Printers : q # p => at'[q] = Out
      BY <1>0, <1>3, <3>1 DEF kprint, Go, Quiet, Types
    <3>4. at'[p] # Out
      BY <3>3 DEF Out
    <3>5. Following(p)'
      BY <1>0, <1>3, <3>2, <3>3 DEF kprint, Following, Types
    <3>6. Order'
      BY <3>3, <3>4, <3>5 DEF Order, Quiet
    <3> QED BY <1>00, <1>3, <2>1, <3>2, <3>6 DEF kprint
  <2> QED BY <2>2, <2>3
<1>4. ASSUME NEW p \in Printers, load_log_count(p)
      PROVE  ScreenInv'
  <2> DEFINE from == <<"number", "done">>
             to == <<"number", "count">>
  <2>1. from \in Places /\ to \in Places /\ from # Out /\ to # Out /\ at[p] = from
    BY <1>4 DEF Places, Out, load_log_count, Go
  <2>2. Types' /\ at'[p] = to /\ Go(p, from, to)
    BY <1>0, <1>4, <2>1 DEF Types, load_log_count, Go, Load
  <2>3. ~overlapped => Following(p)' /\ ~garbled'
    BY <1>2, <1>4, <2>1, <2>2 DEF Following, load_log_count
  <2>4. overlapped' = overlapped
    BY <1>4 DEF load_log_count
  <2> HIDE DEF from, to
  <2> QED BY <1>1, <2>1, <2>2, <2>3, <2>4
<1>5. ASSUME NEW p \in Printers, store_log_count(p)
      PROVE  ScreenInv'
  <2> DEFINE from == <<"number", "count">>
             to == <<"text", "column">>
  <2>1. from \in Places /\ to \in Places /\ from # Out /\ to # Out /\ at[p] = from
    BY <1>5 DEF Places, Out, store_log_count, Go
  <2>2. Types' /\ at'[p] = to /\ Go(p, from, to)
    BY <1>0, <1>5, <2>1 DEF Types, store_log_count, Go
  <2>3. ~overlapped => Following(p)' /\ ~garbled'
    BY <1>2, <1>5, <2>1, <2>2 DEF Following, store_log_count
  <2>4. overlapped' = overlapped
    BY <1>5 DEF store_log_count
  <2> HIDE DEF from, to
  <2> QED BY <1>1, <2>1, <2>2, <2>3, <2>4
<1>6. ASSUME NEW p \in Printers, newline(p)
      PROVE  ScreenInv'
  <2> DEFINE from == <<"text", "done">>
             to == <<"newline", "row">>
  <2>1. from \in Places /\ to \in Places /\ from # Out /\ to # Out /\ at[p] = from
    BY <1>6 DEF Places, Out, newline, Go
  <2>2. Types' /\ at'[p] = to /\ Go(p, from, to)
    BY <1>0, <1>6, <2>1 DEF Types, newline, Go
  <2>3. ~overlapped => Following(p)' /\ ~garbled'
    BY <1>2, <1>6, <2>1, <2>2 DEF Following, newline
  <2>4. overlapped' = overlapped
    BY <1>6 DEF newline
  <2> HIDE DEF from, to
  <2> QED BY <1>1, <2>1, <2>2, <2>3, <2>4
<1>7. ASSUME NEW p \in Printers, NEW what \in {"number", "text", "newline"},
             term_putchar(p, what)
      PROVE  ScreenInv'
  <2>0. \A step \in {"column", "store_column", "test_column", "row", "store_row", "test_row",
                     "put", "done"} : <<what, step>> \in Places /\ <<what, step>> # Out
    BY DEF Places, Out
  <2>1. CASE load_column(p, what)
    <3> DEFINE from == <<what, "column">>
               to == <<what, "store_column">>
    <3>1. from \in Places /\ to \in Places /\ from # Out /\ to # Out /\ at[p] = from
      BY <2>0, <2>1 DEF load_column, Go
    <3>2. Types' /\ at'[p] = to /\ Go(p, from, to)
      BY <1>0, <2>1, <3>1 DEF Types, load_column, Go, Load
    <3>3. reg'[p] = terminal_column
      BY <1>0, <2>1 DEF Types, load_column, Load
    <3>4. ~overlapped => Following(p)' /\ ~garbled'
      BY <1>2, <2>1, <3>1, <3>2, <3>3 DEF Following, load_column
    <3>5. overlapped' = overlapped
      BY <2>1 DEF load_column
    <3> HIDE DEF from, to
    <3> QED BY <1>1, <3>1, <3>2, <3>4, <3>5
  <2>2. CASE store_column(p, what)
    <3> DEFINE from == <<what, "store_column">>
               to == <<what, "test_column">>
    <3>1. from \in Places /\ to \in Places /\ from # Out /\ to # Out /\ at[p] = from
      BY <2>0, <2>2 DEF store_column, Go
    <3>2. Types' /\ at'[p] = to /\ Go(p, from, to)
      BY <1>0, <2>2, <3>1 DEF Types, store_column, Go
    <3>3. ~overlapped => Following(p)' /\ ~garbled'
      BY <1>0, <1>2, <2>2, <3>1, <3>2 DEF Following, store_column, Types
    <3>4. overlapped' = overlapped
      BY <2>2 DEF store_column
    <3> HIDE DEF from, to
    <3> QED BY <1>1, <3>1, <3>2, <3>3, <3>4
  <2>3. CASE test_column(p, what)
    <3> DEFINE from == <<what, "test_column">>
    <3>1. PICK to \in {<<what, "row">>, <<what, "put">>} :
             /\ Go(p, from, to)
             /\ \/ terminal_column = VGA_WIDTH /\ terminal_column' = 0
                \/ terminal_column # VGA_WIDTH /\ terminal_column' = terminal_column
      BY <2>3 DEF test_column
    <3>2. from \in Places /\ to \in Places /\ from # Out /\ to # Out /\ at[p] = from
      BY <2>0, <3>1 DEF Go
    <3>3. Types' /\ at'[p] = to
      BY <1>0, <2>3, <3>1, <3>2 DEF Types, test_column, Go
    <3>4. ~overlapped => Following(p)' /\ ~garbled'
      BY <1>0, <1>2, <2>3, <3>1, <3>2, <3>3 DEF Following, test_column, Types
    <3>5. overlapped' = overlapped
      BY <2>3 DEF test_column
    <3> HIDE DEF from
    <3> QED BY <1>1, <3>1, <3>2, <3>3, <3>4, <3>5
  <2>4. CASE load_row(p, what)
    <3> DEFINE from == <<what, "row">>
               to == <<what, "store_row">>
    <3>1. from \in Places /\ to \in Places /\ from # Out /\ to # Out /\ at[p] = from
      BY <2>0, <2>4 DEF load_row, Go
    <3>2. Types' /\ at'[p] = to /\ Go(p, from, to)
      BY <1>0, <2>4, <3>1 DEF Types, load_row, Go, Load
    <3>3. reg'[p] = terminal_row
      BY <1>0, <2>4 DEF Types, load_row, Load
    <3>4. ~overlapped => Following(p)' /\ ~garbled'
      BY <1>2, <2>4, <3>1, <3>2, <3>3 DEF Following, load_row
    <3>5. overlapped' = overlapped
      BY <2>4 DEF load_row
    <3> HIDE DEF from, to
    <3> QED BY <1>1, <3>1, <3>2, <3>4, <3>5
  <2>5. CASE store_row(p, what)
    <3> DEFINE from == <<what, "store_row">>
               to == <<what, "test_row">>
    <3>1. from \in Places /\ to \in Places /\ from # Out /\ to # Out /\ at[p] = from
      BY <2>0, <2>5 DEF store_row, Go
    <3>2. Types' /\ at'[p] = to /\ Go(p, from, to)
      BY <1>0, <2>5, <3>1 DEF Types, store_row, Go
    <3>3. ~overlapped => Following(p)' /\ ~garbled'
      BY <1>0, <1>2, <2>5, <3>1, <3>2 DEF Following, store_row, Types
    <3>4. overlapped' = overlapped
      BY <2>5 DEF store_row
    <3> HIDE DEF from, to
    <3> QED BY <1>1, <3>1, <3>2, <3>3, <3>4
  <2>6. CASE test_row(p, what)
    <3> DEFINE from == <<what, "test_row">>
               to == AfterRow(what)
    <3>1. from \in Places /\ from # Out /\ at[p] = from
      BY <2>0, <2>6 DEF test_row, Go
    <3>2. to \in Places /\ (to # Out => to = <<what, "put">>)
      BY <2>0 DEF AfterRow, Places, Out
    <3>3. Types' /\ at'[p] = to /\ Go(p, from, to)
      BY <1>0, <2>6, <3>2 DEF Types, test_row, Go
    <3>4. ~overlapped => /\ terminal_row' < VGA_HEIGHT /\ terminal_column' < VGA_WIDTH
                         /\ ~garbled'
                         /\ what = "number" => buff' = number'[p]
      BY <1>0, <1>2, <2>6, <3>1 DEF Following, test_row, Types
    <3>5. ~overlapped => (to # Out => Following(p)')
      BY <3>2, <3>3, <3>4 DEF Following
    <3>6. overlapped' = overlapped
      BY <2>6 DEF test_row
    <3> HIDE DEF from, to
    <3> QED BY <1>1, <3>1, <3>2, <3>3, <3>4, <3>5, <3>6
  <2>7. CASE term_putentryat(p, what)
    <3> DEFINE from == <<what, "put">>
               to == <<what, "done">>
    <3>1. from \in Places /\ to \in Places /\ from # Out /\ to # Out /\ at[p] = from
      BY <2>0, <2>7 DEF term_putentryat, Go
    <3>2. Types' /\ at'[p] = to /\ Go(p, from, to)
      BY <1>0, <2>7, <3>1 DEF Types, term_putentryat, Go
    <3>3. ~overlapped => Following(p)' /\ ~garbled'
      <4> SUFFICES ASSUME ~overlapped
                   PROVE  Following(p)' /\ ~garbled'
        OBVIOUS
      <4>1. /\ Following(p) /\ ~garbled
            /\ terminal_row < VGA_HEIGHT /\ terminal_column < VGA_WIDTH
            /\ what = "number" => buff = number[p]
        BY <1>2, <3>1 DEF Following
      <4>2. ~(terminal_row * VGA_WIDTH + terminal_column >= VGA_WIDTH * VGA_HEIGHT)
        <5>1. terminal_row \in Nat /\ terminal_column \in Nat
          BY <1>0 DEF Types
        <5>2. terminal_row * VGA_WIDTH + terminal_column < VGA_WIDTH * VGA_HEIGHT
          BY <4>1, <5>1, OnScreen
        <5>3. /\ terminal_row * VGA_WIDTH + terminal_column \in Nat
              /\ VGA_WIDTH * VGA_HEIGHT \in Nat
          BY <5>1
        <5> QED BY <5>2, <5>3
      <4>3. ~garbled'
        BY <2>7, <4>1, <4>2 DEF term_putentryat
      <4>4. Following(p)'
        BY <2>7, <3>1, <3>2, <4>1 DEF term_putentryat, Following
      <4> QED BY <4>3, <4>4
    <3>4. overlapped' = overlapped
      BY <2>7 DEF term_putentryat
    <3> HIDE DEF from, to
    <3> QED BY <1>1, <3>1, <3>2, <3>3, <3>4
  <2> QED BY <1>7, <2>1, <2>2, <2>3, <2>4, <2>5, <2>6, <2>7 DEF term_putchar
<1>8. CASE UNCHANGED screenVars
  BY <1>8 DEF screenVars, ScreenInv, Following, Quiet
<1> QED BY <1>3, <1>4, <1>5, <1>6, <1>7, <1>8 DEF TerminalNext

\* Nobody prints at the start.
LEMMA ScreenInitInv == TerminalInit => ScreenInv
<1> SUFFICES ASSUME TerminalInit
             PROVE  ScreenInv
  OBVIOUS
<1>1. Out \in Places /\ {VGA_WIDTH, VGA_HEIGHT} \subseteq Nat \ {0}
  BY TerminalAssumption DEF Out, Places
<1>2. at \in [Printers -> Places] /\ \A p \in Printers : at[p] = Out
  BY <1>1 DEF TerminalInit
<1>3. reg \in [Printers -> Nat] /\ number \in [Printers -> Nat]
  BY DEF TerminalInit
<1>4. 0 < VGA_HEIGHT /\ 0 < VGA_WIDTH
  BY <1>1
<1>5. /\ terminal_row = 0 /\ terminal_column = 0 /\ log_count = 0
      /\ garbled = FALSE /\ overlapped = FALSE
  BY DEF TerminalInit
<1> QED BY <1>2, <1>3, <1>4, <1>5 DEF ScreenInv

\* kprint's messages stay on the screen and their numbers are right for as long as no two
\* printers were in kprint at once: nothing but the lock that is commented out is needed.
THEOREM OnlyOverlapGarbles == TerminalSpec => []GarbledOnlyAfterOverlap
<1>1. ScreenInv => GarbledOnlyAfterOverlap
  BY DEF ScreenInv, GarbledOnlyAfterOverlap
<1> QED BY <1>1, ScreenInitInv, ScreenStep, PTL DEF TerminalSpec

\* The printers that have not counted their message yet.
Numbering == {p \in Printers : at[p][1] = "number"}

\* What is counted and what is yet to be counted are messages that were started; the
\* increments that are lost when two printers load the same count only leave it behind.
CountInv ==
    /\ printed \in 0 .. Messages
    /\ IsFiniteSet(Numbering)
    /\ log_count + Cardinality(Numbering) <= printed
    /\ \A p \in Printers : at[p] = <<"number", "count">> =>
          reg[p] + Cardinality(Numbering) <= printed

\* The steps between the first of a message and log_count++.
LEMMA CountKept ==
    ASSUME ScreenInv, CountInv, NEW p \in Printers, NEW from, NEW to, Go(p, from, to),
           from[1] = "number" <=> to[1] = "number", to # <<"number", "count">>,
           printed' = printed, log_count' = log_count,
           \A q \in Printers : q # p => reg'[q] = reg[q]
    PROVE  CountInv'
<1>1. at[p] = from /\ at'[p] = to /\ \A q \in Printers : q # p => at'[q] = at[q]
  BY Zenon DEF Go, ScreenInv
<1>2. Numbering' = Numbering
  BY <1>1, Zenon DEF Numbering
<1>3. \A q \in Printers : at'[q] = <<"number", "count">> =>
          at[q] = <<"number", "count">> /\ reg'[q] = reg[q]
  BY <1>1, Zenon
<1> QED BY <1>2, <1>3, Zenon DEF CountInv

\* Every step of kprint and term_putchar keeps the count behind the messages.
LEMMA CountStep == ScreenInv /\ CountInv /\ [TerminalNext]_screenVars => CountInv'
<1> SUFFICES ASSUME ScreenInv, CountInv, [TerminalNext]_screenVars
             PROVE  CountInv'
  OBVIOUS
<1> DEFINE n == Cardinality(Numbering)
           count == <<"number", "count">>
<1>1. /\ n \in Nat /\ printed \in Nat /\ log_count \in Nat /\ Messages \in Nat
      /\ \A p \in Printers : reg[p] \in Nat
      /\ log_count + n <= printed /\ printed <= Messages
  BY FS_CardinalityType, TerminalAssumption DEF CountInv, ScreenInv
<1>2. ASSUME NEW p \in Printers, kprint(p)
      PROVE  CountInv'
  <2>1. /\ at[p] = Out /\ at'[p] = <<"number", "column">>
        /\ \A q \in Printers : q # p => at'[q] = at[q]
    BY <1>2, Zenon DEF kprint, Go, ScreenInv
  <2>2. Numbering' = Numbering \cup {p} /\ p \notin Numbering
    BY <2>1 DEF Numbering, Out
  <2>3. IsFiniteSet(Numbering') /\ Cardinality(Numbering') = n + 1
    BY <2>2, FS_AddElement DEF CountInv
  <2>4. printed' = printed + 1 /\ printed < Messages /\ log_count' = log_count /\ reg' = reg
    BY <1>2 DEF kprint
  <2>5. ASSUME NEW q \in Printers, at'[q] = count
        PROVE  reg'[q] + (n + 1) <= printed'
    <3>1. at[q] = count
      BY <2>1, <2>5
    <3>2. reg[q] + n <= printed
      BY <3>1, Zenon DEF CountInv
    <3> QED BY <1>1, <2>4, <3>2
  <2>6. printed' \in 0 .. Messages /\ log_count' + (n + 1) <= printed'
    BY <1>1, <2>4
  <2> HIDE DEF n
  <2> QED BY <2>3, <2>5, <2>6, Zenon DEF CountInv
<1>3. ASSUME NEW p \in Printers, load_log_count(p)
      PROVE  CountInv'
  <2>1. /\ at[p] = <<"number", "done">> /\ at'[p] = count
        /\ \A q \in Printers : q # p => at'[q] = at[q]
    BY <1>3, Zenon DEF load_log_count, Go, ScreenInv
  <2>2. at[p][1] = "number" /\ at'[p][1] = "number"
    BY <2>1
  <2>3. Numbering' = Numbering
    BY <2>1, <2>2, Zenon DEF Numbering
  <2>4. /\ printed' = printed /\ log_count' = log_count /\ reg'[p] = log_count
        /\ \A q \in Printers : q # p => reg'[q] = reg[q]
    BY <1>3, Zenon DEF load_log_count, Load, ScreenInv
  <2>5. ASSUME NEW q \in Printers, at'[q] = count
        PROVE  reg'[q] + n <= printed
    <3>1. CASE q = p
      BY <1>1, <2>4, <3>1, Zenon
    <3>2. CASE q # p
      BY <2>1, <2>4, <2>5, <3>2, Zenon DEF CountInv
    <3> QED BY <3>1, <3>2
  <2> QED BY <2>3, <2>4, <2>5, Zenon DEF CountInv
<1>4. ASSUME NEW p \in Printers, store_log_count(p)
      PROVE  CountInv'
  <2>1. /\ at[p] = count /\ at'[p] = <<"text", "column">>
        /\ \A q \in Printers : q # p => at'[q] = at[q]
    BY <1>4, Zenon DEF store_log_count, Go, ScreenInv
  <2>2. Numbering' = Numbering \ {p} /\ p \in Numbering
    BY <2>1 DEF Numbering
  <2>3. IsFiniteSet(Numbering') /\ Cardinality(Numbering') = n - 1
    BY <2>2, FS_RemoveElement DEF CountInv
  <2>4. printed' = printed /\ log_count' = reg[p] + 1 /\ reg' = reg
    BY <1>4 DEF store_log_count
  <2>5. ASSUME NEW q \in Printers, at[q] = count
        PROVE  reg[q] + n <= printed
    BY <2>5, Zenon DEF CountInv
  <2>6. ASSUME NEW q \in Printers, at'[q] = count
        PROVE  reg'[q] + (n - 1) <= printed'
    <3>1. at[q] = count
      BY <2>1, <2>6
    <3>2. reg[q] + n <= printed
      BY <2>5, <3>1, Zenon
    <3> QED BY <1>1, <2>4, <3>2
  <2>7. reg[p] + n <= printed
    BY <2>1, <2>5, Zenon
  <2>8. printed' \in 0 .. Messages /\ log_count' + (n - 1) <= printed'
    BY <1>1, <2>4, <2>7
  <2> HIDE DEF n
  <2> QED BY <2>3, <2>6, <2>8, Zenon DEF CountInv
<1>5. ASSUME NEW p \in Printers, newline(p)
      PROVE  CountInv'
  <2>1. Go(p, <<"text", "done">>, <<"newline", "row">>)
    BY <1>5, Zenon DEF newline
  <2>2. printed' = printed /\ log_count' = log_count /\ reg' = reg
    BY <1>5 DEF newline
  <2> DEFINE from == <<"text", "done">>
             to == <<"newline", "row">>
  <2>3. from[1] # "number" /\ to[1] # "number" /\ to # count
    OBVIOUS
  <2> HIDE DEF from, to
  <2> QED BY <2>1, <2>2, <2>3, CountKept, Zenon DEF from, to
<1>6. ASSUME NEW p \in Printers, NEW what \in {"number", "text", "newline"},
             term_putchar(p, what)
      PROVE  CountInv'
  <2> DEFINE Steps == {"column", "store_column", "test_column", "row", "store_row", "test_row",
                       "put", "done"}
  <2>1. /\ printed' = printed /\ log_count' = log_count
        /\ \A q \in Printers : q # p => reg'[q] = reg[q]
    <3>1. reg' = reg \/ \E x : Load(p, x)
      BY <1>6, Zenon DEF term_putchar, load_column, store_column, test_column, load_row, store_row,
                         test_row, term_putentryat
    <3>2. \A q \in Printers : q # p => reg'[q] = reg[q]
      BY <3>1, Zenon DEF Load, ScreenInv
    <3>3. printed' = printed /\ log_count' = log_count
      BY <1>6, Zenon DEF term_putchar, load_column, store_column, test_column, load_row, store_row,
                         test_row, term_putentryat
    <3> QED BY <3>2, <3>3
  <2>2. \/ \E step, then \in Steps : Go(p, <<what, step>>, <<what, then>>)
        \/ Go(p, <<what, "test_row">>, Out) /\ what = "newline"
    <3> DEFINE Moves == \E step, then \in Steps : Go(p, <<what, step>>, <<what, then>>)
    <3>1. ASSUME NEW step \in Steps, NEW then \in Steps, Go(p, <<what, step>>, <<what, then>>)
          PROVE  Moves
      BY <3>1, Zenon
    <3>2. "column" \in Steps /\ "store_column" \in Steps /\ "test_column" \in Steps /\ "row" \in Steps
          /\ "store_row" \in Steps /\ "test_row" \in Steps /\ "put" \in Steps /\ "done" \in Steps
      BY Zenon
    <3> HIDE DEF Moves, Steps
    <3>3. load_column(p, what) \/ store_column(p, what) \/ test_column(p, what) => Moves
      BY <3>1, <3>2, Zenon DEF load_column, store_column, test_column
    <3>4. load_row(p, what) \/ store_row(p, what) \/ term_putentryat(p, what) => Moves
      BY <3>1, <3>2, Zenon DEF load_row, store_row, term_putentryat
    <3>5. test_row(p, what) => Moves \/ (Go(p, <<what, "test_row">>, Out) /\ what = "newline")
      BY <3>1, <3>2, Zenon DEF test_row, AfterRow
    <3> QED BY <1>6, <3>3, <3>4, <3>5, Zenon DEF term_putchar, Moves
  <2>3. ASSUME NEW step \in Steps, NEW then \in Steps, Go(p, <<what, step>>, <<what, then>>)
        PROVE  CountInv'
    <3> DEFINE from == <<what, step>>
               to == <<what, then>>
    <3>1. from[1] = what /\ to[1] = what /\ to # count
      OBVIOUS
    <3>2. Go(p, from, to)
      BY <2>3, Zenon
    <3> HIDE DEF from, to, count
    <3> QED BY <2>1, <3>1, <3>2, CountKept, Zenon DEF count
  <2>4. ASSUME Go(p, <<what, "test_row">>, Out), what = "newline"
        PROVE  CountInv'
    <3> DEFINE from == <<what, "test_row">>
    <3>1. from[1] # "number" /\ Out[1] # "number" /\ Out # count
      BY <2>4 DEF Out
    <3>2. Go(p, from, Out)
      BY <2>4, Zenon
    <3> HIDE DEF from, count
    <3> QED BY <2>1, <3>1, <3>2, CountKept, Zenon DEF count
  <2> QED BY <2>2, <2>3, <2>4, Zenon
<1>7. CASE UNCHANGED screenVars
  <2>1. at' = at /\ reg' = reg /\ printed' = printed /\ log_count' = log_count
    BY <1>7, Zenon DEF screenVars
  <2> QED BY <2>1, Zenon DEF CountInv, Numbering
<1> QED BY <1>2, <1>3, <1>4, <1>5, <1>6, <1>7, Zenon DEF TerminalNext

\* The number of a message is never ahead of the messages, however the printers
\* interleave: log_count++ without the lock may lose a count and never makes one up.
THEOREM CountBehindMessages ==
    TerminalSpec => [](log_count \in 0 .. printed /\ printed \in 0 .. Messages)
<1>1. TerminalInit => CountInv
  <2> SUFFICES ASSUME TerminalInit
               PROVE  CountInv
    OBVIOUS
  <2>1. \A p \in Printers : at[p] = Out
    BY Zenon DEF TerminalInit
  <2>2. Out[1] # "number" /\ Out # <<"number", "count">>
    BY DEF Out
  <2>3. Numbering = {}
    BY <2>1, <2>2, Zenon DEF Numbering
  <2>4. IsFiniteSet(Numbering) /\ Cardinality(Numbering) = 0
    BY <2>3, FS_EmptySet, Zenon
  <2>5. log_count = 0 /\ printed = 0
    BY Zenon DEF TerminalInit
  <2>6. printed \in 0 .. Messages /\ log_count + 0 <= printed
    BY <2>5, TerminalAssumption
  <2> QED BY <2>1, <2>2, <2>4, <2>6, Zenon DEF CountInv
<1>2. ScreenInv /\ CountInv => log_count \in 0 .. printed /\ printed \in 0 .. Messages
  BY FS_CardinalityType, TerminalAssumption DEF ScreenInv, CountInv
<1> QED BY ScreenInitInv, ScreenStep, CountStep, <1>1, <1>2, PTL DEF TerminalSpec

-----------------------------------------------------------------------------
(***************************************************************************)
(* CircBuf: its indices, and the queue that it implements.                 *)
(***************************************************************************)
\* Sequences of the same length with the same elements are equal.
LEMMA SameElements ==
    ASSUME NEW S, NEW s \in Seq(S), NEW t \in Seq(S), Len(s) = Len(t),
           \A n \in 1 .. Len(s) : s[n] = t[n]
    PROVE  s = t
<1>1. s = [n \in 1 .. Len(s) |-> s[n]] /\ t = [n \in 1 .. Len(t) |-> t[n]]
    OBVIOUS
<1> QED
    BY <1>1

\* Tail drops the first element.
LEMMA TailElements ==
    ASSUME NEW S, NEW s \in Seq(S), s # <<>>
    PROVE  Tail(s) = [n \in 1 .. Len(s) - 1 |-> s[n + 1]]
<1> DEFINE rest == [n \in 1 .. Len(s) - 1 |-> s[n + 1]]
<1>1. Len(s) \in Nat \ {0}
    OBVIOUS
<1>2. rest \in Seq(S) /\ Len(rest) = Len(s) - 1
    BY <1>1
<1>3. Tail(s) \in Seq(S) /\ Len(Tail(s)) = Len(s) - 1
    BY <1>1
<1>4. \A n \in 1 .. Len(s) - 1 : Tail(s)[n] = s[n + 1]
    BY <1>1
<1>5. \A n \in 1 .. Len(s) - 1 : rest[n] = s[n + 1]
    OBVIOUS
<1> HIDE DEF rest
<1>6. Tail(s) = rest
    BY <1>2, <1>3, <1>4, <1>5, SameElements
<1> QED
    BY <1>6 DEF rest

CircType ==
    /\ buf \in [0 .. size - 1 -> Entries]
    /\ curr_index \in 0 .. size - 1
    /\ curr_size \in 0 .. size

\* A number below 2 * size, around the end of the array.
LEMMA Around ==
    ASSUME NEW a \in 0 .. size - 1, NEW n \in 0 .. size
    PROVE  (a + n) % size = IF a + n < size THEN a + n ELSE a + n - size
<1> DEFINE x == a + n
           q == x \div size
           r == x % size
<1>1. size \in Nat \ {0} /\ x \in Nat /\ x < 2 * size
  BY CircBufAssumption
<1>2. x = size * q + r /\ q \in Nat /\ r \in 0 .. size - 1
  BY <1>1
<1> HIDE DEF q, r
<1>3. q < 2
  <2>1. SUFFICES ASSUME q >= 2 PROVE FALSE
    BY <1>2
  <2>2. size * q >= size * 2
    BY <1>1, <1>2, <2>1
  <2> QED BY <1>1, <1>2, <2>2
<1>4. CASE q = 0
  <2>1. size * q = 0
    BY <1>1, <1>4
  <2>2. x = r
    BY <1>1, <1>2, <2>1
  <2> QED BY <1>1, <1>2, <2>2 DEF r
<1>5. CASE q = 1
  <2>1. size * q = size
    BY <1>1, <1>5
  <2>2. x = size + r
    BY <1>1, <1>2, <2>1
  <2> QED BY <1>1, <1>2, <2>2 DEF r
<1> QED BY <1>2, <1>3, <1>4, <1>5

\* An index of the buffer is its own remainder.
LEMMA Inside == ASSUME NEW k \in 0 .. size - 1 PROVE k % size = k
<1>1. 0 \in 0 .. size /\ k + 0 = k /\ k < size
  BY CircBufAssumption
<1>2. (k + 0) % size = IF k + 0 < size THEN k + 0 ELSE k + 0 - size
  BY <1>1, Around
<1> QED BY <1>1, <1>2

\* The slots of the array are indices, and two entries are in two slots.
LEMMA Slots ==
    ASSUME CircType
    PROVE  /\ \A n \in 0 .. size : (curr_index + n) % size \in 0 .. size - 1
           /\ \A n, m \in 0 .. size - 1 :
                 n # m => (curr_index + n) % size # (curr_index + m) % size
<1>1. \A n \in 0 .. size :
        (curr_index + n) % size = IF curr_index + n < size THEN curr_index + n
                                  ELSE curr_index + n - size
  BY Around DEF CircType
<1>2. size \in Nat \ {0} /\ curr_index \in 0 .. size - 1
  BY CircBufAssumption DEF CircType
<1>3. ASSUME NEW n \in 0 .. size PROVE (curr_index + n) % size \in 0 .. size - 1
  BY <1>1, <1>2
<1>4. ASSUME NEW n \in 0 .. size - 1, NEW m \in 0 .. size - 1, n # m
      PROVE  (curr_index + n) % size # (curr_index + m) % size
  BY <1>1, <1>2, <1>4
<1> QED BY <1>3, <1>4

\* init_circ_buf gives an empty buffer.
LEMMA CircInitType == init_circ_buf => CircType
BY CircBufAssumption DEF init_circ_buf, CircType

\* The calls keep the indices in the buffer.
LEMMA CircNextType == CircType /\ [CircBufNext]_circVars => CircType'
<1> SUFFICES ASSUME CircType, [CircBufNext]_circVars PROVE CircType'
  OBVIOUS
<1> USE CircBufAssumption
<1>1. \A n \in 0 .. size : (curr_index + n) % size \in 0 .. size - 1
  BY Slots
<1>2. ASSUME NEW v \in Entries, push_circ_buf(v) PROVE CircType'
  BY <1>1, <1>2 DEF push_circ_buf, CircType
<1>3. CASE pop_circ_buf
  <2>1. 1 \in 0 .. size
    OBVIOUS
  <2>2. (curr_index + 1) % size \in 0 .. size - 1
    BY <1>1, <2>1
  <2> QED BY <1>3, <2>2 DEF pop_circ_buf, CircType
<1>4. CASE renew_circ_buf
  BY <1>4 DEF renew_circ_buf, CircType
<1>5. CASE UNCHANGED circVars
  BY <1>5 DEF circVars, CircType
<1> QED BY <1>2, <1>3, <1>4, <1>5 DEF CircBufNext

-----------------------------------------------------------------------------
\* The contents are a sequence of as many entries as curr_size says.
LEMMA ContentsType == CircType => Contents \in Seq(Entries) /\ Len(Contents) = curr_size
<1> SUFFICES ASSUME CircType PROVE Contents \in Seq(Entries) /\ Len(Contents) = curr_size
  OBVIOUS
<1>1. ASSUME NEW n \in 1 .. curr_size PROVE buf[(curr_index + n - 1) % size] \in Entries
  <2>1. n - 1 \in 0 .. size /\ curr_index + n - 1 = curr_index + (n - 1)
    BY CircBufAssumption DEF CircType
  <2> QED BY <2>1, Slots DEF CircType
<1> QED BY <1>1, CircBufAssumption DEF Contents, CircType

\* push writes behind the last entry, and to no entry.
LEMMA PushAppends ==
    ASSUME CircType, NEW v \in Entries, curr_size # size, push_circ_buf(v)
    PROVE  Contents' = Append(Contents, v)
<1> USE CircBufAssumption DEF CircType
<1> DEFINE last == (curr_index + curr_size) % size
<1>1. /\ buf' = [buf EXCEPT ![last] = v]
      /\ curr_size' = curr_size + 1 /\ curr_index' = curr_index
  BY DEF push_circ_buf
<1>2. last \in 0 .. size - 1
  BY Slots
<1>3. ASSUME NEW n \in 1 .. curr_size
      PROVE  /\ (curr_index + n - 1) % size \in 0 .. size - 1
             /\ (curr_index + n - 1) % size # last
  <2>1. n - 1 \in 0 .. size - 1 /\ curr_size \in 0 .. size - 1 /\ n - 1 # curr_size
    OBVIOUS
  <2>2. curr_index + n - 1 = curr_index + (n - 1)
    OBVIOUS
  <2> QED BY <2>1, <2>2, Slots
<1> HIDE DEF last
<1>4. ASSUME NEW n \in 1 .. curr_size
      PROVE  buf'[(curr_index + n - 1) % size] = buf[(curr_index + n - 1) % size]
  BY <1>1, <1>2, <1>3
<1>5. (curr_index + (curr_size + 1) - 1) % size = last
  BY DEF last
<1>6. buf'[last] = v
  BY <1>1, <1>2
<1>7. Contents' = [n \in 1 .. curr_size + 1 |-> buf'[(curr_index + n - 1) % size]]
  BY <1>1 DEF Contents
<1>8. Contents \in Seq(Entries) /\ Len(Contents) = curr_size
  BY ContentsType
<1>9. ASSUME NEW n \in 1 .. curr_size + 1 PROVE Contents'[n] = Append(Contents, v)[n]
  <2>1. CASE n = curr_size + 1
    BY <1>5, <1>6, <1>7, <1>8, <2>1
  <2>2. CASE n # curr_size + 1
    <3>1. n \in 1 .. curr_size
      BY <2>2
    <3>2. Append(Contents, v)[n] = Contents[n]
      BY <1>8, <3>1
    <3>3. Contents[n] = buf[(curr_index + n - 1) % size]
      BY <3>1 DEF Contents
    <3>4. Contents'[n] = buf'[(curr_index + n - 1) % size]
      BY <1>7
    <3> QED BY <3>1, <3>2, <3>3, <3>4, <1>4
  <2> QED BY <2>1, <2>2
<1>10. Append(Contents, v) \in Seq(Entries) /\ Len(Append(Contents, v)) = curr_size + 1
  BY <1>8
<1>11. ASSUME NEW n \in 1 .. curr_size + 1
       PROVE  buf'[(curr_index + n - 1) % size] \in Entries
  <2>1. Append(Contents, v)[n] \in Entries
    BY <1>10
  <2>2. Contents'[n] = buf'[(curr_index + n - 1) % size]
    BY <1>7
  <2> QED BY <1>9, <2>1, <2>2
<1>12. Contents' \in Seq(Entries) /\ Len(Contents') = curr_size + 1
  BY <1>7, <1>11
<1> QED BY <1>9, <1>10, <1>12, SameElements

\* pop takes the first entry, and the others move up.
LEMMA PopTakesHead ==
    ASSUME CircType, curr_size # 0, pop_circ_buf
    PROVE  /\ Contents # <<>>
           /\ Head(Contents) = buf[curr_index]
           /\ Contents' = Tail(Contents)
<1> USE CircBufAssumption DEF CircType
<1>1. /\ buf' = buf /\ curr_size' = curr_size - 1
      /\ curr_index' = (curr_index + 1) % size
  BY DEF pop_circ_buf
<1>2. Contents \in Seq(Entries) /\ Len(Contents) = curr_size
  BY ContentsType
<1>3. Contents # <<>> /\ Head(Contents) = Contents[1]
  BY <1>2
<1>4. (curr_index + 1 - 1) % size = curr_index
  <2>0. \A n \in 0 .. size :
          (curr_index + n) % size = IF curr_index + n < size THEN curr_index + n
                                    ELSE curr_index + n - size
    BY Around
  <2>1. (curr_index + 0) % size = curr_index
    BY <2>0
  <2>2. curr_index + 1 - 1 = curr_index + 0
    OBVIOUS
  <2> QED BY <2>1, <2>2
<1>5. Contents[1] = buf[curr_index]
  BY <1>4 DEF Contents
<1>6. ASSUME NEW n \in 1 .. curr_size - 1
      PROVE  (curr_index' + n - 1) % size = (curr_index + (n + 1) - 1) % size
  <2>1. CASE curr_index + 1 < size
    <3>1. 1 \in 0 .. size /\ curr_index' = curr_index + 1
      BY <1>1, <2>1, Around
    <3>2. curr_index' + n - 1 = curr_index + (n + 1) - 1
      BY <3>1
    <3> QED BY <3>2
  <2>2. CASE curr_index + 1 = size
    <3>1. 1 \in 0 .. size
      OBVIOUS
    <3>2. curr_index' = 0
      BY <1>1, <2>2, <3>1, Around
    <3>3. n - 1 \in 0 .. size /\ n \in 0 .. size /\ 0 \in 0 .. size - 1
      OBVIOUS
    <3>4. n - 1 \in 0 .. size - 1 /\ (n - 1) % size = n - 1
      BY Inside
    <3>5. (curr_index + n) % size = n - 1
      BY <2>2, <3>3, Around
    <3>6. curr_index' + n - 1 = n - 1 /\ curr_index + (n + 1) - 1 = curr_index + n
      BY <3>2
    <3> QED BY <3>4, <3>5, <3>6
  <2> QED BY <2>1, <2>2
<1>7. Contents' = [n \in 1 .. curr_size - 1 |-> buf[(curr_index' + n - 1) % size]]
  BY <1>1 DEF Contents
<1>8. Tail(Contents) = [n \in 1 .. curr_size - 1 |-> Contents[n + 1]]
  BY <1>2, <1>3, TailElements
<1>9. ASSUME NEW n \in 1 .. curr_size - 1
      PROVE  buf[(curr_index' + n - 1) % size] = Contents[n + 1]
  <2>1. n + 1 \in 1 .. curr_size
    OBVIOUS
  <2>2. Contents[n + 1] = buf[(curr_index + (n + 1) - 1) % size]
    BY <2>1 DEF Contents
  <2> QED BY <1>6, <2>2
<1> QED BY <1>3, <1>5, <1>7, <1>8, <1>9

-----------------------------------------------------------------------------
\* A new buffer is an empty queue.
LEMMA CircInitQueue == init_circ_buf => Queue!Init
<1> SUFFICES ASSUME init_circ_buf PROVE Queue!Init
  OBVIOUS
<1>1. Contents \in Seq(Entries) /\ Len(Contents) = 0
  BY CircInitType, ContentsType DEF init_circ_buf
<1>2. Contents = <<>>
  BY <1>1
<1> QED BY <1>2 DEF init_circ_buf, Queue!Init

\* Every call is a call of the bounded queue.
LEMMA CircNextQueue ==
    CircType /\ [CircBufNext]_circVars => [Queue!Next]_<<Contents, returned>>
<1> SUFFICES ASSUME CircType, [CircBufNext]_circVars
             PROVE  [Queue!Next]_<<Contents, returned>>
  OBVIOUS
<1>0. CircType'
  BY CircNextType
<1>1. Contents \in Seq(Entries) /\ Len(Contents) = curr_size
  BY ContentsType
<1>2. ASSUME NEW v \in Entries, push_circ_buf(v) PROVE Queue!Push(v)
  <2>1. CASE curr_size # size
    <3>1. Len(Contents) < size
      BY <1>1, <2>1, CircBufAssumption DEF CircType
    <3>2. Contents' = Append(Contents, v) /\ returned' = <<"success">>
      BY <1>2, <2>1, PushAppends DEF push_circ_buf
    <3> QED BY <3>1, <3>2 DEF Queue!Push
  <2>2. CASE curr_size = size
    <3>1. returned' = <<"failure">> /\ Contents' = Contents
      BY <1>2, <2>2 DEF push_circ_buf, Contents
    <3> QED BY <1>1, <2>2, <3>1 DEF Queue!Push
  <2> QED BY <2>1, <2>2
<1>3. CASE pop_circ_buf
  <2>1. CASE curr_size # 0
    <3>1. returned' = <<"success", buf[curr_index]>>
      BY <1>3, <2>1 DEF pop_circ_buf
    <3> QED BY <1>3, <2>1, <3>1, PopTakesHead DEF Queue!Next, Queue!Pop
  <2>2. CASE curr_size = 0
    <3>1. returned' = <<"failure">> /\ Contents' = Contents
      BY <1>3, <2>2 DEF pop_circ_buf, Contents
    <3>2. Contents = <<>>
      BY <1>1, <2>2
    <3> QED BY <3>1, <3>2 DEF Queue!Next, Queue!Pop
  <2> QED BY <2>1, <2>2
<1>4. CASE renew_circ_buf
  <2>1. Contents' = [n \in 1 .. 0 |-> buf'[(curr_index' + n - 1) % size]]
    BY <1>4 DEF renew_circ_buf, Contents
  <2>2. Contents' = <<>> /\ returned' = <<"none">>
    BY <1>4, <2>1 DEF renew_circ_buf
  <2> QED BY <2>2 DEF Queue!Next, Queue!Clear
<1>5. CASE UNCHANGED circVars
  BY <1>5 DEF circVars, Contents
<1> QED BY <1>2, <1>3, <1>4, <1>5 DEF CircBufNext, Queue!Next

\* For every size and every kind of entry, the circular buffer is a bounded queue.
THEOREM CircBufIsQueue == CircBufSpec => ImplementsQueue
<1> QED BY CircInitType, CircNextType, CircInitQueue, CircNextQueue, PTL
        DEF CircBufSpec, ImplementsQueue, Queue!Spec
=============================================================================
