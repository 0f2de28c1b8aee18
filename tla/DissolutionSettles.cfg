SPECIFICATION FairSpec
CONSTANTS
    c1 = c1
    c2 = c2
    acc = acc
    sword = sword
    shield = shield
    NoChar = NoChar
    NoItem = NoItem
    Char = {c1, c2}
    Account = {acc}
    Item = {sword, shield}
    AccountOf <- OneAccount
    Essence <- EssenceDef
    Gold <- GoldDef
    Residue <- ResidueDef
    Copies <- OneSword
    Attuned <- AttunedDef
    OlderBuild <- OlderDef
    MaxFaults <- Reported
    MaxQueued = 1
PROPERTIES
    EscrowSpec
    RowsSettle
