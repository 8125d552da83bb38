SPECIFICATION FairSpec
CONSTANTS
    Conn = {c1, c2, c3}
    Request = {r1}
    MinDelay = 1
    MaxDelay = 3
    None = None
INVARIANT TypeOK OneConnection StopIsFinal AnsweredWhereAsked
PROPERTY StaysReachable
CHECK_DEADLOCK FALSE
