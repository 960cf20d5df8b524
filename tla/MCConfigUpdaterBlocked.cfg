SPECIFICATION Spec
CONSTANTS
    get = get
    api = api
    health = health
    Star = Star
    Blank = Blank
    MaxRev = 2
    Method <- MCMethod
    Url <- MCUrl
    AppAt <- MCAppAt
    BlocksAt <- MCBlocksAt
    NamesIdentity <- MCNamesIdentity
    Own <- MCOwn
PROPERTIES BlocksHonoured
CHECK_DEADLOCK FALSE
