SPECIFICATION Spec
CONSTANTS
    NULL = NULL
    TORN = TORN
    Backends = {"sqlite", "postgres"}
    CatalogFirst = {"sqlite"}
    Shapes <- TwoShapes
    MaxSeeds = 2
INVARIANTS MidSnapshotIsMid SeededLakesAreWhole SeededLakesAreFound CatalogsNameWhatIsThere
CHECK_DEADLOCK FALSE
