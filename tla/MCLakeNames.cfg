SPECIFICATION Spec
CONSTANTS
    NULL = NULL
    NoParent = NoParent
    ScalarMap <- Scalars
    SqlTypes = {"struct(a int32)"}
    SchemaNames <- SomeSchemaNames
    TableNames <- SomeTableNames
    SchemaPaths <- SomeSchemaPaths
    TablePaths <- SomeTablePaths
    FilePaths <- SomeFiles
    DataPaths <- LakePaths
    Declarations <- SomeDeclarations
    NewFields <- SomeFields
    MaxSnapshot = 4
INVARIANTS TypesMatchDeclared EveryTableCanBeNamed NearestAnchorWins OneSeparator
CHECK_DEADLOCK FALSE
