SPECIFICATION Spec
CONSTANTS
    Procs = {p, q}
    Kernel = k
    Coords = {1, 2}
    Start = 1
INVARIANTS WritesReachRegisters NothingLeft WholePositions
