\* Two entries to find, one of them the record itself; one maintenance entry.
SPECIFICATION Spec
CONSTANTS
    Item = {a, b}
    Own = b
    Made = Made
    Null = {null}
    Omit = {omit}
    Junk = Junk
    Text = Text
    None = None
    Asked = Asked
    MaxEntries = 1
INVARIANTS
    TypeOK
    LogShown
PROPERTIES
    UntouchedKept
    EditsLand
    SearchSettles
CHECK_DEADLOCK FALSE
