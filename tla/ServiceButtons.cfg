CONSTANTS
    DebounceMs = 1
    LongPressMs = 4
    DoublePressMs = 3
    ClockPeriod = 8
    MaxStep = 2
    MaxEdges = 6
SPECIFICATION ButtonSpec
INVARIANTS
    NoPhantomGesture
PROPERTIES
    ShortOnTime
    CleanChordCancels
