SPECIFICATION Spec
CONSTANTS
    NULL = NULL
    NaN = NaN
    TableNames = {"t", "u"}
    ColumnNames = {"a", "b", "c"}
    CellValues = {1, 2}
    InitialColumns <- TwoColumns
    Kinds = {"create", "append", "delete", "add", "drop", "rename", "dropfile", "compact", "inline", "flush", "droptable", "cleanup"}
    MaxSnapshot = 5
    MaxRows = 1
    Predicates = {}
INVARIANTS TypeOK ReadsMatchHistory FastPathIsThePlannedRead NamesResolveInHistory NothingLeftInTheCatalog
PROPERTY PastLayoutsAreStable
CHECK_DEADLOCK FALSE
