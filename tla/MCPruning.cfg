SPECIFICATION Spec
CONSTANTS
    NULL = NULL
    NaN = NaN
    TableNames = {"t"}
    ColumnNames = {"a", "b"}
    CellValues = {0, 1, NULL, NaN}
    InitialColumns <- OneColumn
    Kinds = {"create", "append", "unmeasured", "add", "rename"}
    MaxSnapshot = 3
    MaxRows = 2
    Predicates <- Filters
INVARIANTS PrunedReadsMatchHistory
CHECK_DEADLOCK FALSE
