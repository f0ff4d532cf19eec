SPECIFICATION FairSpec
CONSTANTS
    Keys = {"inc", "dec", "clear"}
    DEBOUNCE_CYCLES = 2
    INITIAL_DELAY_CYCLES = 2
    REPEAT_CYCLES = 2
    MaxOffset = 2
    PowerUp <- AtRest
INVARIANT Follows
PROPERTIES NoGlitch PulsesDue HoldReachesEnd
