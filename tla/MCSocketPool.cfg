SPECIFICATION FairSpec
CONSTANTS
    Index <- MCIndex
    ConnId <- MCConnId
    MaxTries = 2
    MaxConnects = 1
    MaxCloses = 1
    MaxCloseFrames = 1
    MaxFaults = 2
INVARIANTS OnePerIndex NoOrphan ConnectedIsRead RelayKept RelaysAccounted
PROPERTIES SlotsRecover
CHECK_DEADLOCK FALSE
