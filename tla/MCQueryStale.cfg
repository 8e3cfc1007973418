CONSTANTS
    Tables <- MCTables
    Signatures <- MCSignatures
    Queries <- StaleQueries
    Collation <- MCCollation
    ValidType <- validateConcreteOrNull
    ValidSignatureType <- validateSignatureType
    KnownFunction <- isKnownFunction
    TypeOf <- resolveExpression
    AnalyzeTabular <- analyzeTabular
    AnalyzeStatement <- analyzeDataStatement
    ReleasedName = "app"
    ReleasedIndex = 1
    Proposed <- SameProposed
SPECIFICATION VerifySpec
INVARIANT ResultTypesAreFinal
CHECK_DEADLOCK FALSE
