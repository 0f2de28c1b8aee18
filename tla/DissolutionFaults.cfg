SPECIFICATION Spec
CONSTANTS
    c1 = c1
    c2 = c2
    acc = acc
    sword = sword
    shield = shield
    NoChar = NoChar
    NoItem = NoItem
    Char = {c1, c2}
    Account = {acc}
    Item = {sword, shield}
    AccountOf <- OneAccount
    Essence <- EssenceDef
    Gold <- GoldDef
    Residue <- ResidueDef
    Copies <- CopiesDef
    Attuned <- AttunedDef
    OlderBuild <- OlderDef
    MaxFaults <- OneOfEach
    MaxQueued = 1
CONSTRAINT TwoFaults
INVARIANTS
    TypeOK
    RewardNeedsRemoval
    PaidIsRecorded
    OncePerCharacter
    NoDuplication
    NoDanglingRow
    GoldKept
PROPERTIES
    EscrowNeverDropped
