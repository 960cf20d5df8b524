SPECIFICATION FairSpec
CONSTANTS
    Req = {r1, r2}
    Quota = 1
INVARIANTS PaidOrExcused SettledOnce BlockedIsSilent
PROPERTIES ImplementsGate GateProgresses
CHECK_DEADLOCK FALSE
