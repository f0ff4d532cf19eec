SPECIFICATION Spec
CONSTANTS
    Unit = 32
    Data = {3, 2047}
INVARIANTS ActiveRight SyncsRight DiscRight
