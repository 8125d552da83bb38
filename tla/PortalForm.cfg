SPECIFICATION FormSpec
CONSTANTS
    a = a
    b = b
    t1 = t1
    t2 = t2
    t3 = t3
    Name = {a, b}
    None = None
    Tab = {t1, t2, t3}
    MaxNets = 1
    MaxApis = 2
    Users <- MCUsers
    MaxSaves = 2
CHECK_DEADLOCK FALSE
SYMMETRY Pages
INVARIANTS FormSafety EditsSurvive
