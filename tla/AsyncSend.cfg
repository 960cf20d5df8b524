SPECIFICATION FairSpec
CONSTANTS
    Call = {k1, k2}
    Conn = {c1, c2}
    NoCall = NoCall
    Sender = Sender
INVARIANTS PendingExact HandlersInFlight NoReplyDropped AnswerableWhileConnected
PROPERTIES EveryCallReturns
CHECK_DEADLOCK FALSE
