CONSTANTS
    c1 = c1
    c2 = c2
    i1 = i1
    i2 = i2
    w1 = w1
    w2 = w2
    none = none
    Cpu <- MCCpu
    Bsp = c1
    Thread <- MCOneWorker
    Idle <- MCIdle
    NoThread = none
SPECIFICATION Spec
INVARIANTS StackExclusive
CHECK_DEADLOCK FALSE
