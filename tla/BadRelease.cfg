SPECIFICATION LiveSpec
CONSTANTS
    Builds <- CrashingBuilds
    MaxAttempts = 2
    Throttle = 1
    MaxTroubles = 0
    MaxCount = 2
CHECK_DEADLOCK FALSE
PROPERTIES ReleaseCannotStop
