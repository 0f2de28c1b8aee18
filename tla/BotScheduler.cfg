CONSTANTS
    Order <- Mixed
    Humans = {2}
    Interval = 2
    RecheckFloor = 2
    JitterWindow = 2
    MaxBotsPerPass = 1
SPECIFICATION SchedulerSpec
INVARIANTS
    SchedulerTypeOK
PROPERTIES
    NeverStuck
    ReachedUnlessPassedOver
