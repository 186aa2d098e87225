SPECIFICATION Spec
CONSTANTS
    NULL = NULL
    NaN = NaN
    Columns = {"p"}
    CellValues = {0, 1, NaN}
    Literals = {0, 1}
    StatCast <- Exact
    BindCast <- Exact
    NanFlag <- NotRecorded
    Transforms = {}
    Respec = FALSE
    Unset = FALSE
    MaxSnapshot = 3
    MaxRows = 2
INVARIANT UnreliableStatsAreKept
CHECK_DEADLOCK FALSE
