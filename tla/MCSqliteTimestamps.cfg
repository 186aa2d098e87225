SPECIFICATION Spec
CONSTANTS
    NULL = NULL
    NaN = NaN
    Columns = {"p"}
    CellValues = {0, 1, 2, 3}
    Literals = {0, 1, 2, 3}
    StatCast <- StatText
    BindCast <- BindText
    NanFlag <- Truthful
    Transforms = {}
    Respec = FALSE
    Unset = FALSE
    MaxSnapshot = 3
    MaxRows = 2
INVARIANT PruningKeepsMatches
CHECK_DEADLOCK FALSE
