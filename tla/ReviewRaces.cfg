\* Two requests race over a brand and a row of each kind; three audit entries.
SPECIFICATION Spec
CONSTANTS
    Brands = {b1}
    Models = {m1}
    Workstations = {w1}
    Names = {n1}
    Requests = {p1, p2}
    Null = null
    MaxLog = 3
SYMMETRY Symmetric
INVARIANTS
    TypeOK
    CreationLogged
    DeletionAccounted
    NoDanglingBrand
PROPERTIES
    HistoryKept
    ChangesAudited
    OutcomeFinal
