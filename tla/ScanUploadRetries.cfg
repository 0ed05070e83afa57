\* One run of two attempts over two plugins, with every decision of an administrator.
SPECIFICATION Spec
CONSTANTS
    Runs = {a1}
    Plugins = {p1, p2}
    MaxRetries = 2
    MaxScans = 2
INVARIANTS
    TypeOK
    DoneIsStored
    ScansAreComplete
PROPERTIES
    RunsEnd
CHECK_DEADLOCK FALSE
