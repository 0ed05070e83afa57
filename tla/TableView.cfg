\* Two rows, one to a page, one of which another user may delete; two users.
SPECIFICATION TableSpec
CONSTANTS
    Row = {1, 2}
    Absent = {}
    Hit = {1}
    PageSize = 1
    User = {u1, u2}
    First = u1
    None = None
    MaxActs = 2
    MaxWrites = 1
    MaxFaults = 1
INVARIANTS
    TableTypeOK
    ControlsShown
PROPERTIES
    ViewsKept
    TableSettles
CHECK_DEADLOCK FALSE
