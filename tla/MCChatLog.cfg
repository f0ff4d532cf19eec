SPECIFICATION Spec
CONSTANTS
    Chars = {a, b}
    Cols = 2
    MaxChat = 3
    MaxRead = 4
    MaxHeard = 7
    Reads <- AllReads
INVARIANTS ShowsLatest RowsOfText
