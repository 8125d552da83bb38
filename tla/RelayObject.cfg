SPECIFICATION FairSpec
CONSTANTS
    dashboard = dashboard
    manifest = manifest
    Resource = {dashboard}
    Socket = {a, b}
    Fetch = {f1, f2}
    Capability <- MCCapability
    MaxFailover = 2
    MaxRestarts = 1
    Gated = {"accept", "request"}
    None = None
INVARIANT TypeOK AnswersOwnRequest
PROPERTY ImplementsSingleFlight AckedIsKept SuccessRehabilitates EveryFetchAnswered
CHECK_DEADLOCK FALSE
