SPECIFICATION Spec
CONSTANTS
    X = 3
    Y = 2
    U16 = 32
    U32 = 1024
    LINK_BUFSZ = 1
    Data = {"0", "a", "b", "c", "d"}
    Zero = "0"
    Prog <- MergeProg
INVARIANTS OneToken HopsExact
PROPERTIES Answered
