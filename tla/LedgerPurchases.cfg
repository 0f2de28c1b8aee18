SPECIFICATION Spec
CONSTANTS
    c1 = c1
    c2 = c2
    acc = acc
    NoChar = NoChar
    Char = {c1, c2}
    Account = {acc}
    AccountOf <- OneAccount
    MaxLevel = 2
    Price <- PriceDef
    Catalyst <- CatalystDef
    Reward <- RewardDef
    FragmentEssence = 1
    TollCap = 1
    OldTokens = {0, 1}
    MaxRewards = 2
    MaxFaults <- OneOfEach
CONSTRAINT OneFault
SYMMETRY Symmetry
INVARIANTS
    TypeOK
    SuccessMeansSpent
    
PROPERTIES
    ExchangeSpec
