SPECIFICATION Spec
CONSTANTS
  Letters = {"a"}
  Symbols = {}
  FirstCap = 1
  RestCap = 1
  Chunks <- OneLine
  MaxChat = 1
  Pressed <- AllKeys
  KeysAstray = TRUE
INVARIANT InsertAtCursor
