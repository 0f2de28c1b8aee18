CONSTANTS
    a1 = a1
    Order <- TwoPlayers
    Humans = {2}
    Interval = 1
    RecheckFloor = 1
    JitterWindow = 0
    MaxBotsPerPass = 1
    Accounts = {a1}
    AccountOf <- OneAccount
    ClassOf <- Classes
    PolicyTable <- Table
    ExpandTiers <- Tiers
    MasteryCost <- Costs
    MaxRank = 1
    Catalyst <- TheCatalyst
    Reserve = 1
    MaxSpend = 2
    Cooldown = 2
    MasteryEnabled = TRUE
    ResidueEnabled = TRUE
    MaxCredits = 3
    MaxFaults = 1
    MaxRestarts = 1
    NoBot = NoBot
SPECIFICATION Spec
INVARIANTS
    SpendingTypeOK
    OneSpendPerVisit
PROPERTIES
    ReserveRetained
    CooldownKept
    RackBeforeCatalyst
