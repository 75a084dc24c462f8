CONSTANTS
    Command = {1, 2}
    MaxFaults = 2
    MaxDataLosses = 1
SPECIFICATION Spec
INVARIANTS
    AckMeansSettled
    RerunsNeedFaults
PROPERTIES
    CommandsSettle
    EndsRegistered
    ImplementsQueue
