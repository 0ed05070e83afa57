\* Permanent delete through a DELETE entry whose row is live again.
SPECIFICATION Spec
CONSTANTS
    Brands = {b1}
    Models = {m1}
    Workstations = {}
    Names = {n1}
    Requests = {p1}
    Null = null
    MaxLog = 3
PROPERTIES
    PurgeOnlyDeleted
