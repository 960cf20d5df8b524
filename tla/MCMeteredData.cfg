SPECIFICATION DataSpec
CONSTANTS
    Places <- MCPlaces
    MaxPolicies = 2
    Functions <- MCFunctions
    MaxCaptured = 3
    MaxText = 1
    MaxWrites = 3
    Responses <- MCResponses
    TrackedFields <- MCTrackedFields
    ResultValues <- MCResultValues
    BodyValues <- MCBodyValues
INVARIANTS BodyLostToBinding FirstTextIdentifies ChargedAsReturned KeptIsComplete ChargedAsSent
CHECK_DEADLOCK FALSE
