SPECIFICATION Spec
CONSTANTS
    X = 6
    Y = 3
    U16 = 32
    U32 = 1024
    LINK_BUFSZ = 4
    Data = {"0", "a"}
    Zero = "0"
    Prog <- TurnProg
INVARIANTS StrictRoundRobin
