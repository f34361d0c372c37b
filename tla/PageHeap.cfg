SPECIFICATION Spec
CONSTANTS
    page_num = 3
    BYTE = 8
INVARIANT PagesInHeap
CHECK_DEADLOCK FALSE
