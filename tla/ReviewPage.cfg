\* Four entries, one to a page, the last of which others append.
SPECIFICATION Spec
CONSTANTS
    Entry = {1, 2, 3, 4}
    Deletes = {2}
    Later = {4}
    PageSize = 1
    None = None
    Slot = {s1}
    MaxActs = 3
    MaxWrites = 1
    MaxFaults = 1
INVARIANTS
    TypeOK
    ListShown
CHECK_DEADLOCK FALSE
