CONSTANTS
    Cols = 2
    Lines = 3
    MemLines = 4
    Cards = {TRUE, FALSE}
    TabStop = 2
    Seven = 1
    Eight = 2
    NPar = 2
    Width = 14
    Digits = {1, 3}
    MaxFirst = 1
    MaxMarks = 1
SPECIFICATION ConSpec
INVARIANT CursorInside
PROPERTY ImplementsScreen
