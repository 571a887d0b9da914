CONSTANTS
    red = red
    green = green
    black = black
    IntBits = 4
    LongBits = 8
    AddressBits = 5
    UserEnd = 15
    screen_x = 6
    screen_y = 4
    csize_x = 2
    csize_y = 2
    TabStop = 2
    MAX_LAYERS = 4
    NoLayer = NoLayer
    TRANSPARENT = TRANSPARENT
    INTRANSPARENT = INTRANSPARENT
    MOUSE_SIDELENGTH = 2
    CursorImage <- MCCursorImage
    TaskbarRows = 1
    BackColour = blue
    BarColour = grey
    Calls <- MCCalls
    Windows <- MCWindows
    Places <- MCPlaces
    Steps <- MCSteps
    Colours = {red, green}
    Garbage = {0, 3}
    Chars <- MCChars

SPECIFICATION Spec

INVARIANTS
    ScreenShowsTop
    LayersInOrder
    TextExact
PROPERTY
    ImplementsTerminal
