SPECIFICATION Spec
CONSTANTS
    Letters = {"a"}
    Symbols = {}
    FirstCap = 1
    RestCap = 2
    Chunks <- OneLine
    MaxChat = 1
    Pressed <- AllKeys
    KeysAstray = FALSE
INVARIANTS InputShown CursorShown TypeOK LockHeld EditInLine CursorNear
PROPERTIES ImplementsLineEditor CursorKept EditsUnderChat
