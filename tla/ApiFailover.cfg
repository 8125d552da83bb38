SPECIFICATION Spec
CONSTANTS
    MaxSlots = 3
    Healths = {"off", "tokenless", "well", "hangs", "denies", "errs"}
    Errors = {200, 404, 429, 503}
    Relays = {FALSE, TRUE}
    Prefers = {FALSE, TRUE}
    ApiTimeout = 40
    RelayTimeout = 88
    Budget = 240
    Floor = 20
    Delay = 3
    Attempts = 3
CHECK_DEADLOCK FALSE
INVARIANTS FetchSafety HealthyReached
