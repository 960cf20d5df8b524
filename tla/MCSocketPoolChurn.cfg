SPECIFICATION FairSpec
CONSTANTS
    Index <- MCIndex
    ConnId <- MCConnId
    MaxTries = 2
    MaxConnects = 1
    MaxCloses = 0
    MaxCloseFrames = 1
    MaxFaults = 0
PROPERTIES StaysConnected
CHECK_DEADLOCK FALSE
