SPECIFICATION TopFairSpec
CONSTANTS
    Modulus = 16
    CountMod = 8
    RamWords = 4
    Starts = {0, 1, 2, 3, 6, 12}
    PowerUp = {0}
    Halting <- HaltingWords
    Terms <- HaltingTerms
    Switches = {0, 6, 12}
    DisplayMod = 8
    BLINK_TOGGLE_CYCLES = 2
    BLINK_DURATION_CYCLES = 5
INVARIANTS CountsRight ReadyMeansDone ShownCount
PROPERTIES ReadBack RangeShown BlinkEnds
