SPECIFICATION ScreenSpec
CONSTANTS
    Cols = 8
    DIVIDER_ROW = 1
    FONT_WIDTH = 2
    FONT_HEIGHT = 2
    LineWords = 34
    Lines = 18
    xoffset = 1
    yoffset = 1
INVARIANTS AreaRight OneCellOff ScreenRight
