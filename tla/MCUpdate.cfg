CONSTANTS
    Updaters = {u1, u2}
    Installers = {i1}
    Inodes = {n1, n2, n3}
    Original = f0
    MaxVersion = 4
    Components <- MCComponents
SPECIFICATION MCSpec
CHECK_DEADLOCK FALSE
INVARIANTS
    LockDiscipline
    NothingLeftBehind
    InstalledComplete
PROPERTIES
    ReplacesOwnFile
    Finishes
