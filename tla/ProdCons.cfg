SPECIFICATION Spec
CONSTANTS
    NCPU = 5
    MAXELEM = 2
    MAXVAL = 6
    Versions = {1, 2}
INVARIANTS Locked Fifo WakeUps InOrder
PROPERTIES Terminates
