SPECIFICATION Spec
CONSTANTS
    Tree <- MCTree
    Environment <- MCEnvironment
    SchemaSQL <- MCSchemaSQL
    QuerySQL <- MCQuerySQL
    Documents <- MCDocuments
    NoPlan = NoPlan
INVARIANTS
    VerdictIsComplete
    FindingsSurvive
    SchemasAreForward
    StartersAgree
\* The command ends.
CHECK_DEADLOCK FALSE
