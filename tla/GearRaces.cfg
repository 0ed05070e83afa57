\* Two requests race over a piece of gear and a type; four audit entries.
SPECIFICATION Spec
CONSTANTS
    Gear = {g1}
    Types = {t1}
    Names = {n1}
    Exts = {jpg, png}
    Requests = {p1, p2}
    Null = null
    MaxLog = 4
SYMMETRY Symmetric
INVARIANTS
    TypeOK
    OneDeletion
    NewestShowsRow
    OldExplained
