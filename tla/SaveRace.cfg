SPECIFICATION Spec
CONSTANTS
    p1 = p1
    p2 = p2
    s1 = s1
    s2 = s2
    MaxNets = 1
    Profile <- MCProfile
    Setting <- MCSetting
    DefaultSetting = s1
    Submitted <- MCSubmitted
    Main = main
    Server = httpd
    Absent = Absent
    Bad = Bad
    NetCost = 3
    MetaCost = 1
    LegacyCost = 9
    DriverCost = 2
    MiscCost = 0
    Slack = 1
    Capacity = 24
    MaxFaults = 0
INVARIANT ReferencedPresent
