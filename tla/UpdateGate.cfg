CONSTANTS
    Token = {1, 2}
    TokenTtl = 4
    RebootDelay = 1
    ClockPeriod = 14
    ClockWraps = FALSE
    MaxStep = 3
    MaxArms = 3
    Off = Off
    Amber = Amber
    Purple = Purple
    Colour = {Off, Red}
    FlashTime = {2}
    PurpleTime = 4
    LongestFlash = 5
SPECIFICATION LampSpec
INVARIANTS OneResetPerArm LampTellsGate
PROPERTIES ResetNeedsFreshToken FlashKeepsTime
CHECK_DEADLOCK FALSE
