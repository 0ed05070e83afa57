SPECIFICATION Spec
CONSTANTS
    n1 = n1
    n2 = n2
    n3 = n3
    Name = {n1, n2, n3}
    Admin = n2
    Sub = {g1}
    Tab = {t1, t2}
    Google = {t1}
    Slot = {s1, s2}
    None = None
    Entry = {"users"}
    Installed <- MCInstalled
    MaxId = 3
    MaxCalls = 2
    MaxFaults = 1
SYMMETRY Sym
INVARIANTS
    TypeOK
    AdminKept
    SessionShown
CHECK_DEADLOCK FALSE
