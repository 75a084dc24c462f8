SPECIFICATION Spec
CONSTANTS
    MaxSessions = 3
    MaxFaults = 1
INVARIANTS EjectedMeansFree StateTellsOwners
PROPERTIES OwnersKeepViews ScanTellsSlot CardBecomesReady
