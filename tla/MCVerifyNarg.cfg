CONSTANTS
    Tables <- MCTables
    Signatures <- MCSignatures
    Queries <- NargQueries
    Collation <- MCCollation
    ValidType <- validateConcreteOrNull
    ValidSignatureType <- validateSignatureType
    KnownFunction <- isKnownFunction
    TypeOf <- resolveExpression
    AnalyzeTabular <- analyzeTabular
    AnalyzeStatement <- analyzeDataStatement
    ReleasedName = "app"
    ReleasedIndex = 1
    Proposed <- SameProposed
SPECIFICATION VerifySpec
INVARIANT UnchangedVerifies
CHECK_DEADLOCK FALSE
