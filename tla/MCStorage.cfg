SPECIFICATION StorageSpec
CONSTANTS
    heap_bottom = 4
    heap_top = 68
    HEAP_EXPAND_SIZE = 16
    list_size = 3
    Sizes = {4, 15}
    table_size = 3
    BYTE = 3
    RegionMax = 2
    Client = {p1, p2}
    FREE_ENTRY_SIZE = 2
    max_obj_num = 3
    Node = {n1, n2, n3, n4}
    Data = {d1, d2}
    Nil = Nil
INVARIANTS
    StorageTypeOK
    Tiled
    FreeListExact
    Coalesced
    NothingFreeBelow
    PanicOnlyWhenFull
    HeldIsMarked
    OneHolder
    ExclusiveOwnership
    OverrunOnlyAfterLostRace
    WellLinked
PROPERTIES
    ImplementsAllocator
    NullOnlyWhenTaken
    ImplementsSequence
CHECK_DEADLOCK FALSE
