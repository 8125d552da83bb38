SPECIFICATION LiveSpec
CONSTANTS
    N = 2
    Strengths = {1, 2}
    MaxScans = 2
    MaxEvents = 2
INVARIANT RoamSafety
PROPERTIES CallEnds AddressIsJoined GaveUpProperly
