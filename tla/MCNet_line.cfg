SPECIFICATION Spec
CONSTANTS
    X = 1
    Y = 4
    U16 = 32
    U32 = 1024
    LINK_BUFSZ = 1
    Data = {"0", "a", "b", "c"}
    Zero = "0"
    Prog <- LineProg
INVARIANTS TypeOK MailboxFree RoundRobin
PROPERTIES NoAckTaken Refines Progress
