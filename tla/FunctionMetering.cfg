SPECIFICATION FairSpec
INVARIANTS DeniedNeverRuns SettledWasGranted MeasuredWasReserved ChargedToRequest
PROPERTY CallEnds
