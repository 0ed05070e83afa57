SPECIFICATION Spec
CONSTANTS
    n1 = n1
    n2 = n2
    n3 = n3
    Name = {n1, n2, n3}
    Admin = n2
    Sub = {g1}
    Tab = {t1}
    Google = {t1}
    Slot = {s1}
    None = None
    Entry = {"users"}
    Installed <- MCInstalled
    MaxId = 3
    MaxCalls = 3
    MaxFaults = 0
INVARIANTS
    LinkKeepsSession
CHECK_DEADLOCK FALSE
