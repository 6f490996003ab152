SPECIFICATION Spec
CONSTANTS
    NSHR = 4
    MemSize = 4
    IO_ADDR = 12
    Image <- MCImage
    Instrs <- BusInstrs
    Stdin <- MCStdin
INVARIANTS TypeOK QueueOK AccessCost NoIdleCycle RunCount
PROPERTIES FirstCome
