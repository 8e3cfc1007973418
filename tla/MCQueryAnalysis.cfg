CONSTANTS
    Tables <- MCTables
    Signatures <- MCSignatures
    Queries <- MCQueries
    Collation <- MCCollation
    ValidType <- validateConcreteOrNull
    ValidSignatureType <- validateSignatureType
    KnownFunction <- isKnownFunction
    TypeOf <- resolveExpression
    AnalyzeTabular <- analyzeTabular
    AnalyzeStatement <- analyzeDataStatement
    ReleasedName = "app"
    ReleasedIndex = 1
    Proposed <- MCProposed
SPECIFICATION VerifySpec
INVARIANTS
    NullsAreTyped
    ExpansionKeepsResult
    AssignmentsFit
    ResultTypesStable
    OverlapIsExact
    VerifiedIsSafe
    AdditionsVerify
CHECK_DEADLOCK FALSE
