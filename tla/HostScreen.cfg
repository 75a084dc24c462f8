SPECIFICATION Spec
CONSTANTS
    ErrorTexts = {e1, e2}
    NoText = NoText
    LinkLost = LinkLost
    Timeout = 5
    MaxPass = 2
    ClockMod = 11
INVARIANTS AlarmIsRight LastRequestWins
PROPERTY PreviousScreenReturns
