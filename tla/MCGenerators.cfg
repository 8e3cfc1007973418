SPECIFICATION Spec
CONSTANTS
    Spelling <- MCSpelling
    Families = {"tables", "tablequery", "queries", "columns", "parameters", "items"}
    Analyses <- MCAnalyses
    Runtimes <- MCRuntimes
CHECK_DEADLOCK FALSE
INVARIANTS CollisionsAreRefused RowsFillTheirModels ParametersReachTheQuery
