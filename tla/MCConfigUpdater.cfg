SPECIFICATION FairSpec
CONSTANTS
    get = get
    api = api
    health = health
    Star = Star
    Blank = Blank
    MaxRev = 2
    Method <- MCMethod
    Url <- MCUrl
    AppAt <- MCAppAt
    BlocksAt <- MCBlocksAt
    NamesIdentity <- MCNamesIdentity
    Own <- MCOwn
INVARIANTS NoReplySplit WhitelistedBypasses
PROPERTIES NeverGoesBack Converges
CHECK_DEADLOCK FALSE
