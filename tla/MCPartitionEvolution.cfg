SPECIFICATION Spec
CONSTANTS
    NULL = NULL
    NaN = NaN
    Columns = {"p", "q"}
    CellValues = {0, 1}
    Literals = {0, 1}
    StatCast <- Exact
    BindCast <- Exact
    NanFlag <- Truthful
    Transforms = {"identity"}
    Respec = TRUE
    Unset = FALSE
    MaxSnapshot = 4
    MaxRows = 1
INVARIANT PruningKeepsMatches
CHECK_DEADLOCK FALSE
