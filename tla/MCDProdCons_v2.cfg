SPECIFICATION Spec
CONSTANTS
    Proc = {0, 1, 2, 3}
    NoOp <- MCNoOp
    None <- MCNone
    Zero = 0
    MAXELEM = 2
    MAXVAL = 4
    Versions = {2}
INVARIANTS AllConsumed
