CONSTANTS
    p1 = p1
    p2 = p2
    gray = gray
    a1 = a1
    Players = {p1, p2}
    Creatures = {gray}
    Accounts = {a1}
    AccountOf <- OneAccount
    LevelOf <- MCLevels
    Points = {0, 1, 2}
    Saturation <- MCSaturation
    kMasteryRankCalculationCeiling = 0
    Damages = {1, 40}
    HealthPcts = {19, 20}
    Armors = {0, 9000}
    Missing = {0, 2}
    MaxHP = 9
    CacheTTL = 2
    MaxClock = 3
    MaxSinks = 2
SPECIFICATION Spec
INVARIANTS
    TypeOK
    ServedWithinTTL
    ReflectionIsPlain
    SpellsStillHit
    BlowsAtMostDouble
    EachSinkWorksAlone
