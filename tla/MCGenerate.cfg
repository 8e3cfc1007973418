SPECIFICATION MCSpec
CONSTANTS
    Inv1 = Inv1
    Inv2 = Inv2
    Inv3 = Inv3
    Invocations <- ThreeInvocations
    ConfigNames = {"pair", "renamed", "unsound", "schemaless", "database", "broken", "nogen", "clash", "overwrite", "nested", "inner", "under"}
    Configs <- MCConfigs
    Commands = {"generate", "diff", "compile"}
    SortedPaths <- MCSortedPaths
    Canonical <- MCCanonical
    Initial <- MCInitial
CHECK_DEADLOCK FALSE
INVARIANTS PreparedBeforeWrites SuccessIsExact InputsKept SameConfigAgrees
PROPERTIES NothingDeleted Ends
