-------------------------------- MODULE Acpi --------------------------------
(***************************************************************************)
(* kernel/acpi.c: what is found in the tables of the firmware.  A table is *)
(* a record of its signature, the page it lies in and whether its bytes    *)
(* add up; the MADT has the local APIC's address and its entries too.      *)
(***************************************************************************)
EXTENDS Sequences, Integers

CONSTANTS
    MAX_CPUS,               \* MAX_CPU_COUNT
    MAX_IOAPIC_OVERRIDES

NothingFound ==
    [cpus |-> <<>>, local_apic |-> 0, io_apic |-> 0, gsi_base |-> 0, overrides |-> <<>>]

\* Faulty form: the bound on the CPUs is left out.
parse_processor_table_Unbounded(found, entry) ==
    [found EXCEPT !.cpus = Append(@, entry.apic_id)]

\* What does not fit in apic_cpu_ids is left out.  The flags of the entry, which say
\* whether the CPU is there, are not read.
parse_processor_table(found, entry) ==
    IF Len(found.cpus) < MAX_CPUS
    THEN [found EXCEPT !.cpus = Append(@, entry.apic_id)]
    ELSE found

\* The last I/O APIC counts.
parse_io_table(found, entry) ==
    [found EXCEPT !.io_apic = entry.page, !.gsi_base = entry.base]

parse_interrupt_override(found, entry) ==
    IF Len(found.overrides) < MAX_IOAPIC_OVERRIDES
    THEN [found EXCEPT !.overrides = Append(@, entry)]
    ELSE found

parse_entry(found, entry) ==
    IF entry.type = "LOCAL_APIC" THEN parse_processor_table(found, entry)
    ELSE IF entry.type = "IO_APIC" THEN parse_io_table(found, entry)
    ELSE IF entry.type = "INTERRUPT_OVERRIDE" THEN parse_interrupt_override(found, entry)
    ELSE found

\* What is found when the loop of parse_apic_table has gone through the first k entries.
AfterEntries(start, entries, k) ==
    LET after[n \in 0 .. Len(entries)] ==
            IF n = 0 THEN start ELSE parse_entry(after[n - 1], entries[n])
    IN  after[k]

\* The ids and the overrides are cleared first, apic_cpu_count is not.
parse_apic_table(before, madt) ==
    LET start == [before EXCEPT !.cpus = [i \in DOMAIN @ |-> 0], !.overrides = <<>>,
                                !.local_apic = madt.local_apic]
    IN  AfterEntries(start, madt.entries, Len(madt.entries))

\* parse_acpi_tables stops at a table whose bytes do not add up (check_acpi_header), and
\* at one that it cannot read: init_acpi has mapped the page of the RSDT and no other.
Readable(tables, mapped) ==
    \A i \in DOMAIN tables : tables[i].page \in mapped /\ tables[i].sum = 0

parse_table(found, table) ==
    IF table.signature = "APIC" THEN parse_apic_table(found, table) ELSE found

parse_acpi_tables(tables) ==
    LET after[n \in 0 .. Len(tables)] ==
            IF n = 0 THEN NothingFound ELSE parse_table(after[n - 1], tables[n])
    IN  after[Len(tables)]
=============================================================================
