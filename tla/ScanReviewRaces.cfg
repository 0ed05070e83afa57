\* Two requests decide about two installs of one plugin and two records.
SPECIFICATION Spec
CONSTANTS
    Results = {r1, r2}
    d1 = d1
    Plugins = {d1}
    PluginOf <- OnePlugin
    Records = {c1, c2}
    Requests = {p1, p2}
    Null = null
    MaxOps = 3
INVARIANTS
    TypeOK
PROPERTIES
    PathsKept
    CopyKept
    PatternAgrees
SYMMETRY Symmetric
CHECK_DEADLOCK FALSE
