CONSTANTS
    Updaters = {u1, u2}
    Installers = {}
    Inodes = {n1, n2, n3}
    Original = f0
    MaxVersion = 3
    Components <- MCComponents
SPECIFICATION Spec
CHECK_DEADLOCK FALSE
PROPERTIES
    NoDowngrade
