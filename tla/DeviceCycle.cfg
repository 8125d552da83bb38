SPECIFICATION LiveSpec
CONSTANTS
    Builds <- MCBuilds
    MaxAttempts = 2
    Throttle = 1
    MaxTroubles = 2
    MaxCount = 2
CHECK_DEADLOCK FALSE
INVARIANT CycleSafety
PROPERTIES FooterOnce BatterySleeps ReleaseSettles DashboardReturns
