SPECIFICATION Spec
CONSTANTS
    NULL = NULL
    NaN = NaN
    TableNames = {"t"}
    ColumnNames = {"a", "b"}
    CellValues = {1, 2}
    InitialColumns <- OneColumn
    Kinds = {"create", "append", "delete", "rename", "compact", "cleanup"}
    MaxSnapshot = 5
    MaxRows = 1
    Requests <- EveryWay
    Queries <- AllQueries
    MaxCollects = 2
INVARIANTS ScanTypeOK CachedColumnsArePinned BatchesHaveTheSchema PlansCoverTheRest
PROPERTY ReadsOneSnapshot
CHECK_DEADLOCK FALSE
