SPECIFICATION MSpec
CONSTANTS
    NSHR = 3
    MemSize = 16
    IO_ADDR = 64
    Image <- MCImage
    Instrs <- MCInstrs
    Stdin <- MCStdin
    IDEAS = 2
    LAG = 2
INVARIANTS Exclusive
PROPERTIES Implements Terminates
