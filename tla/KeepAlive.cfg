SPECIFICATION Spec
CONSTANTS
    PingPeriod = 6
    PongWait = 12
    WriteWait = 2
INVARIANTS DeadPeerNoticed BrokenNoticed MarkedIsRepaired HealthyKept
CHECK_DEADLOCK FALSE
