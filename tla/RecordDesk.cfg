\* Two rows, one of them not in use at the start; two bulk operations at a time; one
\* edit, two writes to a row and three in all, one fault.
SPECIFICATION Spec
CONSTANTS
    Record = {r1, r2}
    Spare = {r2}
    Slots = {s1}
    BulkSlots = {b1, b2}
    MaxEdits = 1
    MaxVersion = 2
    MaxWrites = 3
    MaxFaults = 1
    MaxUses = 2
    None = None
    Asked = Asked
    New = New
SYMMETRY Symmetry
CONSTRAINT PlainDeletes
INVARIANTS
    TypeOK
    OwnWritesShown
PROPERTIES
    SavesOwnChanges
    BulkKeepsOthers
CHECK_DEADLOCK FALSE
