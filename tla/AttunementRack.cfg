SPECIFICATION Spec
CONSTANTS
    c1 = c1
    acc = acc
    sword = sword
    shield = shield
    NoChar = NoChar
    NoItem = NoItem
    Char = {c1}
    Account = {acc}
    Item = {sword, shield}
    AccountOf <- OneAccount
    BaseSlots = 1
    MaxSlots = 2
    Tiers = {2}
    Cap = 3
    MaxGain = 1
    MaxQueue = 2
    MaxFaults <- OneOfEach
CONSTRAINT Bounds
SYMMETRY Symmetry
INVARIANTS
    TypeOK
    OneSlotEach
    NothingHalfAttuned
PROPERTIES
    ProgressKept
