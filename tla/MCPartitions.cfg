SPECIFICATION Spec
CONSTANTS
    NULL = NULL
    NaN = NaN
    Columns = {"p", "q"}
    CellValues = {0, 1, NULL}
    Literals = {0, 1}
    StatCast <- Exact
    BindCast <- Exact
    NanFlag <- Truthful
    Transforms = {"identity", "bucket"}
    Respec = FALSE
    Unset = FALSE
    MaxSnapshot = 3
    MaxRows = 2
INVARIANTS TypeOK PruningKeepsMatches DisjointFilesArePruned
CHECK_DEADLOCK FALSE
