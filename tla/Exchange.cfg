SPECIFICATION MCSpec
CONSTANTS
    service = service
    helper = helper
    Client = {service, helper}
    Service = service
    Free = Free
    NoPid = NoPid
    Dead = Dead
    Payload = {"SHORT"}
    Capacity = 2
    MaxEvents = 3
    Checks <- MCChecks
    MaxFaults = 2
INVARIANTS PortIsExclusive EventsReachService
PROPERTIES AnswersBelong DeadLockIsRemoved ImplementsFifo
