SPECIFICATION MCSpec
CONSTANTS
    TableNames = {"t", "u"}
    ColumnNames = {"id", "v", "w"}
    Missing = Missing
    KnownTypes = {"Int64", "Utf8"}
    Lower <- MCLower
    Descriptions <- MCDescriptions
    Inputs <- MCInputs
    DescriptionNames = {"full", "reordered", "narrow", "retyped", "generated",
        "async", "rekeyed", "unindexed", "unknown", "literal",
        "mismatched", "silent", "vector"}
    InputNames = {"offline", "lacking", "compared", "compared2", "described",
        "described2", "configured", "misspelled", "duplicate", "unsound",
        "preamble", "macro", "syntax", "conflict", "dynamic",
        "local", "embedded"}
    MaxParts = 2
    ShiftingNames = {"full", "reordered", "narrow", "retyped", "unindexed"}
    MigratedInputNames = {"compared", "compared2", "described", "described2",
        "syntax", "conflict"}
    MaxMigrations = 2
CHECK_DEADLOCK FALSE
INVARIANTS SuccessWasChecked VerdictIsExact ErrorsSurface
