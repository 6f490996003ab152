SPECIFICATION RouteSpec
CONSTANTS
    X = 3
    Y = 4
    U16 = 64
    U32 = 4096
INVARIANTS Shortest
PROPERTIES Arrives
