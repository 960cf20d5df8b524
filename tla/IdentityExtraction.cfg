SPECIFICATION Spec
CONSTANTS
    Places <- Place
    MaxPolicies = 2
INVARIANT BodyReachesHandler
CHECK_DEADLOCK FALSE
