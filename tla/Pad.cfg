SPECIFICATION MCSpec
CONSTANTS
    AdcMax = 6
    DeadZone = 1
    AxisMax = 127
    TriggerMax = 65535
    HidMax = 255
    Ratio = 257
    Calibrations <- MCCalibrations
    Buttons = {"A", "R4"}
    ReportPeriod = 2
    MaxPass = 2
    ClockMod = 6
    NoTest = NoTest
INVARIANTS ReportIsCurrent InputsAreTold
PROPERTY MovesKeepDirection
