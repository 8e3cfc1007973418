SPECIFICATION Spec
CONSTANTS
    Spelling <- MCSpelling
    Families = {"parameters"}
    Analyses <- MCAnalyses
    Runtimes <- MCRuntimes
CHECK_DEADLOCK FALSE
INVARIANT KotlinCollisionsAreErrors
