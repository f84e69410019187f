SPECIFICATION ConsoleSpec
CONSTANTS
    Columns = 4
    Rows = 3
    TabStop = 3
    FontHeight = 2
    MaxColumn = 9
    ShiftKeys = {lshift, rshift}
INVARIANTS
    ConsoleTypeOK
    GlyphsInFrame
    CursorAtRest
    ShiftIsHeld
