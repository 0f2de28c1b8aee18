CONSTANTS
    Order <- Scrambled
    Humans = {}
    Interval = 2
    RecheckFloor = 2
    JitterWindow = 2
    MaxBotsPerPass = 1
SPECIFICATION SchedulerSpec
PROPERTIES
    EvenCoverage
