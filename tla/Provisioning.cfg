SPECIFICATION FairSpec
CONSTANTS
    Config = {c1}
    NoNetworks = NoNetworks
    Country = {nl, us}
    Absent = Absent
    DefaultCountry = nl
    Sites <- MCSites
CHECK_DEADLOCK FALSE
INVARIANT PortalSafety
PROPERTIES  EraseIsTheGestures
