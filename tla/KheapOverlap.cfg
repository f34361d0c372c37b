SPECIFICATION AnySpec
CONSTANTS
    heap_bottom = 4
    heap_top = 68
    HEAP_EXPAND_SIZE = 16
    list_size = 3
    Sizes = {4, 15}
INVARIANT BlocksDisjoint
CHECK_DEADLOCK FALSE
