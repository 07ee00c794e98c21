SPECIFICATION Spec
CONSTANTS
    Procs = {p1, p2}
    Parts = {11, 12, 13, 14, 15}
    Rows = {11, 12, 13, 14, 15}
    RowsOf <- OneRowEach
    MinRows = 3
    MaxRows = 3
    None = None
    MaxNow = 4
    MaxRuns = 3
    MaxKills = 1
INVARIANTS NoRowLost RowsOnce
CHECK_DEADLOCK FALSE
