SPECIFICATION Spec
CONSTANTS
    NCPU = 4
    MAXELEM = 2
    MAXVAL = 6
    Versions = {2}
INVARIANTS AllConsumed
