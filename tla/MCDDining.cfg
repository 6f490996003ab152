SPECIFICATION Spec
CONSTANTS
    Proc = {0, 1, 2, 3, 4, 5, 6}
    NoOp <- MCNoOp
    None <- MCNone
    Zero = "SITDOWN"
    PHILOS = 3
    IDEAS = 2
    philo <- MCPhilo
    fork <- MCFork
    FOOTMAN = 2
ACTION_CONSTRAINT LocalFirst
INVARIANTS Exclusive TableOK
PROPERTIES Terminates
