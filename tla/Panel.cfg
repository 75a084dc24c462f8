SPECIFICATION MCSpec
CONSTANTS
    Hidden = Hidden
    AchievementTime = 5
    NotificationTime = 3
    MaxPass = 2
    ClockMod = 18
    SecondMs = 2
    MinuteLength = 2
    HourLength = 2
    HourLimit = 1
    Absent = Absent
    NA = NA
    Bad = Bad
    Empty = Empty
    Legal <- MCLegal
    Sent = {"RUNTIME_MIN", "VOLUME", "POWER", "TIME_HEX"}
    Ten = Ten
    Noon = Noon
INVARIANTS CardPopupIsCurrent PanelShowsReports TimerTellsSession
PROPERTY PopupsKeepTime
