\* Two devices, two commands, two request threads and three leases: every interleaving
\* of creation, claims, completions, restarts and the clock, a lease lasting one tick.
CONSTANTS
    d1 = d1
    d2 = d2
    t1 = t1
    t2 = t2
    None = None
    Device <- TwoDevices
    CommandId <- TwoCommands
    Thread <- TwoThreads
    LeaseDuration = 1
    MaxClock = 2
    MaxGrants = 3
SPECIFICATION Spec
SYMMETRY Symmetry
INVARIANTS
    RunningUnderLatestLease
    ResultFromLatestLease
PROPERTIES
    ImplementsQueue
    LeaseHonoured
