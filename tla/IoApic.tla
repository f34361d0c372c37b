------------------------------- MODULE IoApic -------------------------------
(***************************************************************************)
(* The I/O APIC part of arch/apic.c.  redir is the redirection table: one  *)
(* entry per pin, masked and without a vector after reset.  ioapic_init    *)
(* goes through the pins in order and, for each, through the overrides     *)
(* that ACPI listed.                                                       *)
(***************************************************************************)
EXTENDS Integers

CONSTANTS
    redirection_entry_count,
    IRQ_BASE

\* A vector is a byte, and 0 says that a pin has none.
ASSUME IoApicAssumption ==
    /\ redirection_entry_count \in Nat /\ IRQ_BASE \in Nat \ {0}
    /\ IRQ_BASE + redirection_entry_count <= 256

IoApicPins == 0 .. redirection_entry_count - 1

Entry(vector, active_low, level, masked) ==
    [vector |-> vector, active_low |-> active_low, level |-> level, masked |-> masked]

ResetTable == [pin \in IoApicPins |-> Entry(0, FALSE, FALSE, TRUE)]

-----------------------------------------------------------------------------
ioapic_identitymap_interrupts(redir, vector) ==
    [redir EXCEPT ![vector] = Entry(vector + IRQ_BASE, FALSE, FALSE, TRUE)]

\* Of the two bits of polarity and of trigger mode, 3 is low and level.
ioapic_override_interrupts(redir, override, gsi_base) ==
    [redir EXCEPT ![override.interrupt - gsi_base] =
        Entry(override.source + IRQ_BASE, override.polarity = 3, override.trigger = 3, TRUE)]

\* The overrides of this source, and the first of them.
OfSource(overrides, vector) == {i \in DOMAIN overrides : overrides[i].source = vector}
FirstOf(overrides, vector) ==
    LET own == OfSource(overrides, vector)
    IN  overrides[CHOOSE i \in own : \A j \in own : i <= j]

\* Faulty form: an entry that an override has set is set again.
map_redirection_interrupts_Again(redir, overrides, gsi_base, vector) ==
    IF OfSource(overrides, vector) # {}
    THEN ioapic_override_interrupts(redir, FirstOf(overrides, vector), gsi_base)
    ELSE ioapic_identitymap_interrupts(redir, vector)

\* The first override of this source, or the pin's own number unless an override of a
\* smaller source has already set the pin.
map_redirection_interrupts(redir, overrides, gsi_base, vector) ==
    IF OfSource(overrides, vector) # {}
    THEN ioapic_override_interrupts(redir, FirstOf(overrides, vector), gsi_base)
    ELSE IF redir[vector].vector = 0 THEN ioapic_identitymap_interrupts(redir, vector)
    ELSE redir

SetMask(redir, masked) == [pin \in IoApicPins |-> [redir[pin] EXCEPT !.masked = masked]]

ioapic_mask_all(redir) == SetMask(redir, TRUE)

ioapic_unmask_all(redir) == SetMask(redir, FALSE)

\* The table when the loop of ioapic_init has gone through the first k pins.
Mapped(redir, overrides, gsi_base, k) ==
    LET after[n \in 0 .. redirection_entry_count] ==
            IF n = 0 THEN redir
            ELSE map_redirection_interrupts(after[n - 1], overrides, gsi_base, n - 1)
    IN  after[k]

\* ioapic_init, after the page of the registers is mapped
ioapic_map_all(redir, overrides, gsi_base) ==
    ioapic_mask_all(Mapped(redir, overrides, gsi_base, redirection_entry_count))
=============================================================================
