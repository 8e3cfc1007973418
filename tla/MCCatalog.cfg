CONSTANTS
    TableNames <- MCTableNames
    ColumnNames <- MCColumnNames
    IndexNames <- MCIndexNames
    BaseTypes <- MCBaseTypes
    CreateStatements <- MCCreateStatements
    ColumnDecls <- MCColumnDecls
    IndexDecls <- MCIndexDecls
    MaxActions = 2
    MaxCatalogSize = 5
SPECIFICATION Spec
CONSTRAINT SizeBound
INVARIANTS
    UniqueTables
    ReferencesResolve
    SerialInKey
    ColumnsOwned
PROPERTIES
    AtomicStatements
    ImplementsSchema
