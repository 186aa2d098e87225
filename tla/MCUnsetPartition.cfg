SPECIFICATION Spec
CONSTANTS
    NULL = NULL
    NaN = NaN
    Columns = {"p"}
    CellValues = {0, 1}
    Literals = {0, 1}
    StatCast <- Exact
    BindCast <- Exact
    NanFlag <- Truthful
    Transforms = {"identity"}
    Respec = FALSE
    Unset = TRUE
    MaxSnapshot = 4
    MaxRows = 1
INVARIANT NullPartitionValuesAreKept
CHECK_DEADLOCK FALSE
