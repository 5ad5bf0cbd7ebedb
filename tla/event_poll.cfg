SPECIFICATION PageSpec
CONSTANTS
    MaxLine = 4
    MaxHistory = 5
    Backend = "file"
    Window = 2
    Polls = {p1, p2}
    Details = {d1, d2}
    MaxRefresh = 1
SYMMETRY Symmetry
CHECK_DEADLOCK FALSE
INVARIANTS
    PageTypeOK
    NoHoles
