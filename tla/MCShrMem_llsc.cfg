SPECIFICATION Spec
CONSTANTS
    NSHR = 2
    MemSize = 8
    IO_ADDR = 4
    Image <- MCImage
    Instrs <- LlscInstrs
    Stdin <- MCStdin
PROPERTIES ScAtomic
