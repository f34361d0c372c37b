CONSTANTS
    c1 = c1
    c2 = c2
    i1 = i1
    i2 = i2
    w1 = w1
    w2 = w2
    none = none
    Cpu <- MCCpu
    Bsp = c1
    Thread <- MCThread
    Idle <- MCIdle
    NoThread = none
SPECIFICATION FairSpec
INVARIANTS TypeOK MutualExclusion ThreadInOnePlace QueuedContextSaved NoPanic SelfDeadlockOnlyAtBoot StackSharedOnlyInSwitch
PROPERTIES ImplementsRoundRobin ReadyThreadRuns
CHECK_DEADLOCK FALSE
