CONSTANTS
    DebounceMs = 3
    LongPressMs = 4
    DoublePressMs = 3
    ClockPeriod = 8
    MaxStep = 1
    MaxEdges = 6
SPECIFICATION ButtonSpec
PROPERTIES
    ChordCancels
