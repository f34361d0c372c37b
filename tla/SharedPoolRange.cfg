SPECIFICATION PoolSpec
CONSTANTS
    Client = {p1, p2}
    FREE_ENTRY_SIZE = 2
    max_obj_num = 3
INVARIANT IndexInRange
