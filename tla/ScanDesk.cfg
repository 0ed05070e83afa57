\* Two installs of one record and an orphaned record.
SPECIFICATION DeskSpec
CONSTANTS
    Row = {1, 2, 3}
    Record = {1, 2}
    RecordOf <- RecordOfRow
    Orphan = {3}
    Stored = {1, 2}
    Renamed = {2}
    Confirmed = {2}
    Differing = {1}
    Key = {"all", "needs_review"}
    None = None
    MaxActs = 3
    MaxRuns = 2
    MaxFaults = 1
INVARIANTS
    DeskTypeOK
    OwnWritesShown
PROPERTIES
    DeskSettles
CHECK_DEADLOCK FALSE
