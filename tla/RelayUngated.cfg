SPECIFICATION Spec
CONSTANTS
    dashboard = dashboard
    manifest = manifest
    Resource = {dashboard}
    Socket = {a, b, c}
    Fetch = {f1}
    Capability <- MCCapability
    MaxFailover = 2
    MaxRestarts = 1
    Gated = {"accept"}
    None = None
INVARIANT BlameDeserved
PROPERTY AskedOnce
SYMMETRY Symmetry
CHECK_DEADLOCK FALSE
