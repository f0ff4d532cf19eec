SPECIFICATION FairSpec
CONSTANTS
  Letters = {}
  Symbols = {"1"}
  FirstCap = 1
  RestCap = 1
  Chunks <- TwoLines
  MaxChat = 1
  Pressed <- FewKeys
  KeysAstray = FALSE
PROPERTIES QuitEnds KeyAnswered ChunkPrinted CursorBlinks
