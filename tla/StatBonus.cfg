CONSTANTS
    c1 = c1
    c2 = c2
    a1 = a1
    Characters = {c1}
    Accounts = {a1}
    AccountOf <- OneAccount
    ClassOf <- OneClass
    Points = {0, 1, 2}
    Saturation <- MCSaturation
    kMasteryRankCalculationCeiling = 1
    Levels = {10, 80}
    RatingMultiplier <- MCRatingMultiplier
    Template <- MCTemplate
    Investable = {"crit_rating"}
    TalentIndices = {2}
    MaxRank = 2
    MaxTalent = 1
    Interval = 3
    Epsilon = 5
    NoRecord = NoRecord
SPECIFICATION FairSpec
INVARIANTS
    TypeOK
    ModifiersAreTheRecord
    StaleForLessThanTwoIntervals
PROPERTIES
    BonusConverges
