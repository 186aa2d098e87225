SPECIFICATION FairSpec
CONSTANTS
    NULL = NULL
    NaN = NaN
    TableNames = {"t"}
    ColumnNames = {"a", "b"}
    CellValues = {1, 2}
    InitialColumns <- OneColumn
    Kinds = {"create", "append", "add", "inline", "flush", "droptable", "cleanup"}
    MaxSnapshot = 5
    MaxRows = 1
    Requests <- NewestOrThird
    Queries <- TwoColumnQueries
    MaxCollects = 1
PROPERTIES ReadsOneSnapshot CallsSettle CollectsSettle
CHECK_DEADLOCK FALSE
