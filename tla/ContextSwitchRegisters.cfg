SPECIFICATION Spec
CONSTANTS
    c1 = c1
    c2 = c2
    t1 = t1
    t2 = t2
    t3 = t3
    PAGE_SIZE = 4
    early_heap_top = 36
    AddressSpace = 64
    Users <- BootUsers
    ENTRIES = 8
    KERN_PAGE = 32
    BITS = 8
    MAX_CPUS = 3
    MAX_IOAPIC_OVERRIDES = 2
    ApicIds = {0, 1, 2, 3}
    BSP = 0
    MAX_CPU_COUNT = 3
    redirection_entry_count = 4
    IRQ_BASE = 32
    Firmware <- MCFirmware
    THREAD_STACK_SIZE = 1
    Sources <- MCSources
    Cpus <- MCCpus
    Threads <- MCThreads
    first <- MCFirst
    Printers <- MCCpus
    VGA_WIDTH = 2
    VGA_HEIGHT = 2
    Messages = 2
    size = 3
    Entries = {1, 2}
INVARIANT ResumesAsFromInterrupt
CHECK_DEADLOCK FALSE
