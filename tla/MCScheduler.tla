---------------------------- MODULE MCScheduler ----------------------------
EXTENDS Scheduler

CONSTANTS c1, c2, i1, i2, w1, w2, none

MCCpu == {c1, c2}
MCThread == {i1, i2, w1, w2}
MCOneWorker == {i1, i2, w1}
MCIdle == [c \in MCCpu |-> IF c = c1 THEN i1 ELSE i2]
=============================================================================
