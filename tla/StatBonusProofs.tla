---------------------------- MODULE StatBonusProofs ----------------------------
(* The absorption bonus, for any players, accounts, item templates, curves and   *)
(* recheck period, in six parts: how long a bonus may be out of date (the proof  *)
(* never looks into BonusOf, only at who is recalculated when); what the         *)
(* calculation returns; that a player carries the recorded bonus exactly once;   *)
(* that what an account buys never makes the bonus smaller; that a recalculation *)
(* brings the modifiers to what the database calls for; and how far the doubles  *)
(* may be off the record.                                                        *)
EXTENDS StatBonus, FiniteSums

--------------------------------------------------------------------------------
(* How long a bonus may be out of date.                                          *)

TimingType ==
    /\ sinceRecalc \in [Characters -> 0..Interval]
    /\ sincePass \in 0..Interval
    /\ wrongFor \in [Characters -> Nat]
    /\ due \subseteq Characters

\* A player was last recalculated no later than its bonus went out of date (or
\* so long ago that the floor says nothing); a player the last pass left alone
\* was then less than a period out of date, and has grown older with the pass;
\* and a pass that is overdue means a disabled module, which owes nothing.
WaitBound(c) ==
    /\ wrongFor[c] <= sinceRecalc[c] \/ sinceRecalc[c] = Interval
    /\ c \notin due => wrongFor[c] < Interval + sincePass
    /\ c \in due => wrongFor[c] < 2 * Interval
    /\ sincePass = Interval => wrongFor[c] = 0

Inv == TimingType /\ \A c \in Characters : WaitBound(c)

LEMMA InitInv == Init => Inv
  BY StatBonusAssumption DEF Init, Inv, TimingType, WaitBound

\* A recalculation makes the bonus right, whatever it was started for.
LEMMA FinishInv ==
  ASSUME Inv, NEW c \in Characters, FinishRecalculation(c)
  PROVE  Inv'
  <1> USE StatBonusAssumption
  <1>1. TimingType'
    BY DEF FinishRecalculation, Inv, TimingType
  <1>2. ASSUME NEW d \in Characters PROVE WaitBound(d)'
    <2>1. CASE d = c
      <3>1. wrongFor'[d] = 0 /\ sincePass' = sincePass
        BY <2>1 DEF FinishRecalculation, Inv, TimingType
      <3>2. sincePass \in Nat /\ sinceRecalc'[d] \in Nat
        BY <1>1 DEF Inv, TimingType
      <3> QED
        BY <3>1, <3>2 DEF WaitBound
    <2>2. CASE d # c
      <3>1. /\ wrongFor'[d] = wrongFor[d] /\ sinceRecalc'[d] = sinceRecalc[d]
            /\ sincePass' = sincePass /\ (d \in due' <=> d \in due)
        BY <2>2 DEF FinishRecalculation, Inv, TimingType
      <3> QED
        BY <3>1 DEF Inv, WaitBound
    <2> QED
      BY <2>1, <2>2
  <1> QED
    BY <1>1, <1>2 DEF Inv

\* A second passes: either no pass is due, or the pass takes everybody who has
\* not been recalculated for a period.
LEMMA UpdateInv ==
  ASSUME Inv, OnUpdate
  PROVE  Inv'
  <1> USE StatBonusAssumption
  <1>1. /\ \A c \in Characters : sinceRecalc'[c] = Older(sinceRecalc[c])
        /\ \A c \in Characters : sinceRecalc[c] \in 0..Interval /\ wrongFor[c] \in Nat
        /\ sincePass \in 0..Interval /\ due = {}
    BY DEF OnUpdate, Inv, TimingType
  <1>2. \A c \in Characters :
           /\ wrongFor'[c] \in Nat /\ wrongFor'[c] <= wrongFor[c] + 1
           /\ ~(enabled /\ status[c] = "inWorld") => wrongFor'[c] = 0
    BY <1>1 DEF OnUpdate, OutOfDate
  <1>3. TimingType'
    <2>1. sinceRecalc' \in [Characters -> 0..Interval]
      BY <1>1 DEF OnUpdate, Older
    <2>2. wrongFor' \in [Characters -> Nat]
      BY <1>2 DEF OnUpdate
    <2>3. sincePass' \in 0..Interval /\ due' \subseteq Characters
      BY <1>1 DEF OnUpdate, Older
    <2> QED
      BY <2>1, <2>2, <2>3 DEF TimingType
  <1>4. ASSUME NEW c \in Characters PROVE WaitBound(c)'
    <2>1. /\ wrongFor[c] \in Nat /\ sinceRecalc[c] \in 0..Interval
          /\ wrongFor[c] <= sinceRecalc[c] \/ sinceRecalc[c] = Interval
          /\ wrongFor[c] < Interval + sincePass
          /\ sincePass = Interval => wrongFor[c] = 0
      BY <1>1 DEF Inv, WaitBound
    <2>2. wrongFor'[c] <= sinceRecalc'[c] \/ sinceRecalc'[c] = Interval
      BY <1>1, <1>2, <2>1 DEF Older
    <2>3. CASE enabled /\ Older(sincePass) >= Interval
      <3>1. sincePass' = 0 /\ due' = {d \in Characters : RecheckDue(d)}
        BY <2>3 DEF OnUpdate
      <3>2. wrongFor'[c] < 2 * Interval
        BY <1>1, <1>2, <2>1, <2>3 DEF Older
      <3>3. c \notin due' => wrongFor'[c] < Interval
        <4>1. c \notin due' => status[c] # "inWorld" \/ sinceRecalc'[c] < Interval
          BY <1>1, <3>1 DEF RecheckDue, Older
        <4> QED
          BY <1>2, <1>3, <2>2, <4>1 DEF TimingType
      <3> QED
        BY <2>2, <3>1, <3>2, <3>3 DEF WaitBound
    <2>4. CASE ~(enabled /\ Older(sincePass) >= Interval)
      <3>1. sincePass' = Older(sincePass) /\ due' = {}
        BY <2>4 DEF OnUpdate
      <3>2. sincePass' = Interval => wrongFor'[c] = 0
        BY <1>2, <2>4, <3>1
      <3>3. wrongFor'[c] < Interval + sincePass'
        BY <1>1, <1>2, <2>1, <3>1 DEF Older
      <3> QED
        BY <2>2, <3>1, <3>2, <3>3 DEF WaitBound
    <2> QED
      BY <2>3, <2>4
  <1> QED
    BY <1>3, <1>4 DEF Inv

LEMMA StepInv == Inv /\ [Next]_vars => Inv'
  <1> SUFFICES ASSUME Inv, [Next]_vars PROVE Inv'
    OBVIOUS
  <1> USE StatBonusAssumption
  <1> USE DEF timing
  <1>1. ASSUME LuaCommit PROVE Inv'
    <2>1. UNCHANGED <<timing, wrongFor>>
      BY <1>1 DEF LuaCommit, BuyMastery, BuyTalent, Attune, InvestSink, Unread
    <2> QED
      BY <2>1 DEF Inv, TimingType, WaitBound
  <1>2. ASSUME NEW c \in Characters,
               \/ OnPlayerLogin(c) \/ OnPlayerLevelChanged(c) \/ Teleport(c)
               \/ RecheckPlayer(c)
        PROVE  Inv'
    <2>1. UNCHANGED <<timing, wrongFor>>
      BY <1>2 DEF OnPlayerLogin, OnPlayerLevelChanged, Teleport, RecheckPlayer
    <2> QED
      BY <2>1 DEF Inv, TimingType, WaitBound
  <1>3. ASSUME NEW c \in Characters, OnPlayerLogout(c) PROVE Inv'
    <2>1. UNCHANGED <<sincePass, due, wrongFor>>
      BY <1>3 DEF OnPlayerLogout
    <2>2. /\ sinceRecalc' \in [Characters -> 0..Interval]
          /\ \A d \in Characters : sinceRecalc'[d] \in {sinceRecalc[d], Interval}
      BY <1>3 DEF OnPlayerLogout, Inv, TimingType
    <2> QED
      BY <2>1, <2>2 DEF Inv, TimingType, WaitBound
  <1>4. ASSUME NEW c \in Characters, FinishRecalculation(c) PROVE Inv'
    BY <1>4, FinishInv
  <1>5. ASSUME OnAfterConfigLoad PROVE Inv'
    BY <1>5 DEF OnAfterConfigLoad, Inv, TimingType, WaitBound
  <1>6. ASSUME OnUpdate PROVE Inv'
    BY <1>6, UpdateInv
  <1>7. ASSUME OnShutdown PROVE Inv'
    BY <1>7 DEF OnShutdown, Inv, TimingType, WaitBound
  <1>8. ASSUME UNCHANGED vars PROVE Inv'
    BY <1>8 DEF vars, Inv, TimingType, WaitBound
  <1> QED
    BY <1>1, <1>2, <1>3, <1>4, <1>5, <1>6, <1>7, <1>8 DEF Next

\* However logins, level changes, teleports, reloads of the configuration, passes
\* and commits fall, and whatever the period: a player in the world of an enabled
\* module waits less than two periods for a bonus that follows the database. The
\* second period is the price of the per-player floor in OnUpdate, which skips
\* who was recalculated since the last pass.
THEOREM StaleForLessThanTwoIntervalsAlways == Spec => []StaleForLessThanTwoIntervals
  <1>1. Inv => StaleForLessThanTwoIntervals
    <2> SUFFICES ASSUME Inv, NEW c \in Characters
                 PROVE  wrongFor[c] < 2 * Interval
      BY DEF StaleForLessThanTwoIntervals
    <2>1. /\ wrongFor[c] \in Nat /\ sincePass \in 0..Interval /\ WaitBound(c)
      BY DEF Inv, TimingType
    <2> QED
      BY <2>1, StatBonusAssumption DEF WaitBound
  <1> QED
    BY <1>1, InitInv, StepInv, PTL DEF Spec

--------------------------------------------------------------------------------
(* What the calculation returns.                                                 *)

Bonus == [BonusFields -> Int]
Amounts == [Channels -> Int]

\* The rank used for the calculation is one the curve is known for.
LEMMA RankOf ==
  ASSUME NEW rank \in Int
  PROVE  EchoesValidateMasteryRankForCalculation(rank) \in Points
  BY CalculatorAssumption DEF EchoesValidateMasteryRankForCalculation

\* A curve gives a natural number.
LEMMA SaturationType ==
  ASSUME NEW ceiling \in Nat, NEW n \in Points
  PROVE  SinkFraction(ceiling, n) \in Nat
  <1> DEFINE x == Saturation[n]
             p == ceiling * x
  <1>1. x \in 0..1000
    BY CalculatorAssumption
  <1> HIDE DEF x
  <1>2. p \in Nat
    BY <1>1
  <1> HIDE DEF p
  <1>3. p \div 100 \in Nat
    BY <1>2
  <1> QED
    BY <1>3 DEF SinkFraction, p, x

\* What the Talents do to an amount is an integer, whatever the ranks.
LEMMA TalentType ==
  ASSUME NEW ranks, \A i \in 0..4 : ranks[i] \in Nat, NEW i \in 0..4
  PROVE  TalentMultiplier(ranks, i) \in Nat /\ TalentDistinctPenalty(ranks) \in Nat
  <1>1. TalentMultiplier(ranks, i) \in Nat
    <2>1. ranks[i] \in Nat
      OBVIOUS
    <2> QED
      BY <2>1 DEF TalentMultiplier
  <1>2. TalentDistinctPenalty(ranks) \in Nat
    <2> DEFINE bought == {j \in 0..4 : ranks[j] > 0}
    <2>1. IsFiniteSet(0..4) /\ Cardinality(0..4) = 5
      <3>1. ASSUME NEW a \in Int, NEW b \in Int, a <= b
            PROVE  IsFiniteSet(a..b) /\ Cardinality(a..b) = b - a + 1
        <4>1. /\ IsFiniteSet(a..b)
              /\ Cardinality(a..b) = IF a > b THEN 0 ELSE b - a + 1
          BY FS_Interval, Zenon
        <4> QED
          BY <3>1, <4>1
      <3>2. 0 \in Int /\ 4 \in Int /\ 0 <= 4
        OBVIOUS
      <3>3. IsFiniteSet(0..4) /\ Cardinality(0..4) = 4 - 0 + 1
        BY <3>1, <3>2, Zenon
      <3> QED
        BY <3>3
    <2>2. Cardinality(bought) \in 0..5
      BY <2>1, FS_Subset, FS_CardinalityType
    <2> HIDE DEF bought
    <2>3. \A n \in 2..5 : <<10000, 8500, 7225, 6141, 5220>>[n] \in Nat
      OBVIOUS
    <2>4. (IF Cardinality(bought) <= 1 THEN 10000
           ELSE <<10000, 8500, 7225, 6141, 5220>>[Cardinality(bought)]) \in Nat
      BY <2>2, <2>3
    <2> QED
      BY <2>4 DEF TalentDistinctPenalty, bought
  <1> QED
    BY <1>1, <1>2

\* The index of each primary stat.
StatIndex(field) == (CHOOSE i \in 1..5 : StatOrder[i] = field) - 1

LEMMA StatIndexType == \A field \in PrimaryStats : StatIndex(field) \in 0..4
  <1> SUFFICES ASSUME NEW field \in PrimaryStats
               PROVE  \E i \in 1..5 : StatOrder[i] = field
    BY DEF StatIndex
  <1>1. /\ StatOrder[1] = "str" /\ StatOrder[2] = "agi" /\ StatOrder[3] = "sta"
        /\ StatOrder[4] = "int" /\ StatOrder[5] = "spi"
    BY DEF StatOrder
  <1> QED
    BY <1>1 DEF PrimaryStats

\* What one row adds to one field of the bonus, at a share of the item's stats.
AbsorbPct(rank, l) == EchoesMasteryAbsorbPct(rank) * EchoesLevelAbsorbScalar(l)
Eligible(rows, class) == {e \in DOMAIN rows : EchoesSnapshotRowEligible(rows[e], class)}
Absorbed(row, field, pct) == (row.stats[field] * pct) \div 71
Talented(ranks, i, amount) ==
    (((amount * TalentMultiplier(ranks, i)) \div 100)
        * TalentDistinctPenalty(ranks)) \div 10000
Contribution(row, field, pct, ranks) ==
    IF field \in PrimaryStats
    THEN Talented(ranks, StatIndex(field), Absorbed(row, field, pct))
    ELSE Absorbed(row, field, pct)
Contributions(rows, field, pct, class, ranks) ==
    [e \in Eligible(rows, class) |-> Contribution(rows[e], field, pct, ranks)]

\* The bonus is the sum of the contributions.
LEMMA AbsorptionIsASum ==
  ASSUME NEW rows, NEW rank, NEW l, NEW class, NEW ranks
  PROVE  EchoesCalculateAbsorption(rows, rank, l, class, ranks) =
            [field \in BonusFields |->
                SumFunctionOnSet(Contributions(rows, field, AbsorbPct(rank, l), class, ranks),
                                 Eligible(rows, class))]
  BY DEF EchoesCalculateAbsorption, AbsorbPct, Eligible, Absorbed, Talented,
         Contribution, Contributions, StatIndex

LEMMA AbsorbPctType ==
  ASSUME NEW rank \in Points, NEW l \in Nat
  PROVE  AbsorbPct(rank, l) \in Nat
  <1>1. EchoesMasteryAbsorbPct(rank) \in Nat
    BY SaturationType DEF EchoesMasteryAbsorbPct
  <1>2. EchoesLevelAbsorbScalar(l) \in Nat
    BY DEF EchoesLevelAbsorbScalar
  <1> QED
    BY <1>1, <1>2 DEF AbsorbPct

LEMMA ContributionType ==
  ASSUME NEW row \in SnapshotRow, NEW field \in BonusFields, NEW pct \in Nat,
         NEW ranks, \A i \in 0..4 : ranks[i] \in Nat
  PROVE  Contribution(row, field, pct, ranks) \in Int
  <1>1. row.stats[field] \in Int
    BY DEF SnapshotRow
  <1>2. Absorbed(row, field, pct) \in Int
    BY <1>1 DEF Absorbed
  <1>3. ASSUME NEW i \in 0..4, NEW amount \in Int PROVE Talented(ranks, i, amount) \in Int
    BY TalentType DEF Talented
  <1> QED
    BY <1>2, <1>3, StatIndexType DEF Contribution

LEMMA AbsorptionType ==
  ASSUME NEW rows, IsFiniteSet(DOMAIN rows),
         \A e \in DOMAIN rows : rows[e] \in SnapshotRow,
         NEW rank \in Points, NEW l \in Nat, NEW class,
         NEW ranks, \A i \in 0..4 : ranks[i] \in Nat
  PROVE  EchoesCalculateAbsorption(rows, rank, l, class, ranks) \in Bonus
  <1> DEFINE pct == AbsorbPct(rank, l)
             eligible == Eligible(rows, class)
  <1>1. IsFiniteSet(eligible)
    BY FS_Subset DEF Eligible
  <1>2. ASSUME NEW field \in BonusFields
        PROVE  SumFunctionOnSet(Contributions(rows, field, pct, class, ranks), eligible) \in Int
    <2>1. \A e \in eligible : Contributions(rows, field, pct, class, ranks)[e] \in Int
      BY AbsorbPctType, ContributionType DEF Contributions, Eligible
    <2> HIDE DEF pct, eligible
    <2> QED
      BY <1>1, <2>1, SumType
  <1> QED
    BY <1>2, AbsorptionIsASum DEF Bonus

LEMMA BonusOfType ==
  ASSUME NEW c \in Characters, level[c] \in Levels,
         NEW rank \in Int, NEW entries \in SUBSET DOMAIN Template,
         NEW ranks, \A i \in 0..4 : ranks[i] \in Nat,
         NEW sinks \in [Sinks -> Points]
  PROVE  BonusOf(c, rank, entries, ranks, sinks) \in Amounts
  <1> USE StatBonusAssumption
  <1> DEFINE absorbed == EchoesCalculateAbsorption(Rows(entries),
                            EchoesValidateMasteryRankForCalculation(rank),
                            level[c], ClassOf[c], ranks)
             bonus == EchoesApplyMeleeSpellPowerMultipliers(
                        EchoesApplyFortitudeMultiplier(absorbed, sinks["fortitude"]),
                        sinks["melee_power"], sinks["spell_power"])
  <1>1. absorbed \in Bonus
    <2>1. /\ DOMAIN Rows(entries) = entries /\ IsFiniteSet(entries)
          /\ \A e \in entries : Rows(entries)[e] \in SnapshotRow
      BY FS_Subset DEF Rows
    <2>2. level[c] \in Nat
      OBVIOUS
    <2> QED
      BY <2>1, <2>2, RankOf, AbsorptionType
  <1>2. ASSUME NEW b \in Bonus, NEW field \in BonusFields, NEW fraction \in Nat
        PROVE  Multiplied(b, field, fraction) \in Bonus
    BY DEF Multiplied, Bonus
  <1>3. bonus \in Bonus
    <2>1. /\ sinks["fortitude"] \in Points /\ sinks["melee_power"] \in Points
          /\ sinks["spell_power"] \in Points
      BY DEF Sinks
    <2>2. /\ EchoesFortitudeBonus(sinks["fortitude"]) \in Nat
          /\ EchoesMeleeSpellPowerBonus(sinks["melee_power"]) \in Nat
          /\ EchoesMeleeSpellPowerBonus(sinks["spell_power"]) \in Nat
      BY <2>1, SaturationType DEF EchoesFortitudeBonus, EchoesMeleeSpellPowerBonus
    <2> HIDE DEF absorbed
    <2>3. EchoesApplyFortitudeMultiplier(absorbed, sinks["fortitude"]) \in Bonus
      BY <1>1, <1>2, <2>2 DEF EchoesApplyFortitudeMultiplier, BonusFields, PrimaryStats
    <2> QED
      BY <1>2, <2>2, <2>3
         DEF EchoesApplyMeleeSpellPowerMultipliers, BonusFields, PrimaryStats
  <1>4. ASSUME NEW ch \in Ratings
        PROVE  EchoesRatingPointsForPercent(
                  EchoesRatingSinkFraction(ch, sinks[ch]), RatingMultiplier[level[c]]) \in Int
    <2>1. sinks[ch] \in Points /\ RatingCeiling[ch] \in Nat
      BY DEF Sinks, Ratings, RatingCeiling
    <2>2. EchoesRatingSinkFraction(ch, sinks[ch]) \in Nat
      BY <2>1, SaturationType DEF EchoesRatingSinkFraction
    <2>3. RatingMultiplier[level[c]] \in Nat
      OBVIOUS
    <2> QED
      BY <2>2, <2>3 DEF EchoesRatingPointsForPercent
  <1>5. EchoesWeaponDpsToAttackPower(bonus["weaponDps"]) \in Int
    <2> HIDE DEF bonus
    <2>1. bonus["weaponDps"] \in Int
      BY <1>3 DEF Bonus, BonusFields
    <2> QED
      BY <2>1 DEF EchoesWeaponDpsToAttackPower
  <1>6. ASSUME NEW ch \in FlatStats PROVE bonus[ch] \in Int
    <2> HIDE DEF bonus
    <2> QED
      BY <1>3 DEF Bonus, BonusFields, FlatStats
  <1>7. BonusOf(c, rank, entries, ranks, sinks) =
          [ch \in Channels |->
            IF ch \in Ratings
            THEN EchoesRatingPointsForPercent(
                    EchoesRatingSinkFraction(ch, sinks[ch]), RatingMultiplier[level[c]])
            ELSE IF ch = "attackPower"
            THEN EchoesWeaponDpsToAttackPower(bonus["weaponDps"])
            ELSE bonus[ch]]
    BY DEF BonusOf
  <1> HIDE DEF bonus
  <1> QED
    BY <1>4, <1>5, <1>6, <1>7 DEF Amounts, Channels

--------------------------------------------------------------------------------
(* A player carries the recorded bonus exactly once.                             *)

\* What a recalculation has read so far is what the database could have held, and
\* only the player of a live session is being recalculated.
ReadingOK ==
    \A c \in Characters : reading[c].why # "none" =>
        /\ reading[c].rank \in 0..MaxRank
        /\ reading[c].entries \in SUBSET DOMAIN Template
        /\ reading[c].ranks \in [0..4 -> 0..MaxTalent]
        /\ status[c] # "offline"

\* A periodic pass visits players in the world, and nobody leaves it meanwhile.
DueOnline == \A c \in due : status[c] # "offline"

\* A character that is not online has no record left over from its last session.
OfflineUnrecorded ==
    \A c \in Characters : status[c] = "offline" => appliedByGuid[c] = NoRecord

RecordInv == /\ TypeOK /\ ReadingOK /\ DueOnline /\ OfflineUnrecorded
        /\ ModifiersAreTheRecord

LEMMA DeltaType ==
  ASSUME NEW a \in Amounts, NEW old \in Amounts, NEW new \in Amounts
  PROVE  /\ EchoesApplyDelta(a, old, new) \in Amounts
         /\ \A ch \in WholeChannels : a[ch] = old[ch] => EchoesApplyDelta(a, old, new)[ch] = new[ch]
  <1>1. ASSUME NEW ch \in Channels
        PROVE  a[ch] - old[ch] + new[ch] \in Int /\ a[ch] \in Int
    BY DEF Amounts
  <1>2. EchoesApplyDelta(a, old, new) \in Amounts
    BY <1>1 DEF EchoesApplyDelta, Amounts
  <1>3. ASSUME NEW ch \in WholeChannels, a[ch] = old[ch]
        PROVE  EchoesApplyDelta(a, old, new)[ch] = new[ch]
    <2>1. ch \in Channels /\ Tolerance(ch) = 1
      BY DEF Tolerance, WholeChannels
    <2>2. old[ch] \in Int /\ new[ch] \in Int
      BY <2>1 DEF Amounts
    <2>3. new[ch] - old[ch] \in (1 - 1)..(1 - 1) => new[ch] = old[ch]
      BY <2>2
    <2> QED
      BY <1>3, <2>1, <2>2, <2>3 DEF EchoesApplyDelta
  <1> QED
    BY <1>2, <1>3

LEMMA InitRecord == Init => RecordInv
  <1> SUFFICES ASSUME Init PROVE RecordInv
    OBVIOUS
  <1> USE StatBonusAssumption
  <1>1. 0 \in Points
    BY CalculatorAssumption
  <1>2. TypeOK
    BY <1>1 DEF Init, TypeOK, Nothing, Idle
  <1>3. ReadingOK /\ DueOnline /\ OfflineUnrecorded
    BY DEF Init, ReadingOK, DueOnline, OfflineUnrecorded, Idle
  <1>4. ModifiersAreTheRecord
    BY DEF Init, ModifiersAreTheRecord, Nothing, WholeChannels
  <1> QED
    BY <1>2, <1>3, <1>4 DEF RecordInv

\* A commit of the database reaches no player and no recalculation.
LEMMA CommitRecord ==
  ASSUME RecordInv, LuaCommit
  PROVE  RecordInv'
  <1> USE StatBonusAssumption
  <1>1. UNCHANGED <<enabled, players, appliedByGuid, timing, reading, wrongFor>>
    BY DEF LuaCommit, BuyMastery, BuyTalent, Attune, InvestSink, Unread
  <1>2. ASSUME NEW c \in Characters, BuyMastery(c) PROVE TypeOK'
    BY <1>1, <1>2 DEF BuyMastery, RecordInv, TypeOK, players, timing
  <1>3. ASSUME NEW c \in Characters, NEW i \in TalentIndices, BuyTalent(c, i) PROVE TypeOK'
    <2>1. talents[c][i] + 1 \in 0..MaxTalent /\ talents[c] \in [0..4 -> 0..MaxTalent]
      <3>1. talents[c] \in [0..4 -> 0..MaxTalent] /\ i \in 0..4
        BY DEF RecordInv, TypeOK
      <3>2. talents[c][i] \in 0..MaxTalent /\ talents[c][i] < MaxTalent
        BY <1>3, <3>1 DEF BuyTalent
      <3> QED
        BY <3>1, <3>2
    <2>2. [talents[c] EXCEPT ![i] = talents[c][i] + 1] \in [0..4 -> 0..MaxTalent]
      BY <2>1
    <2>3. talents' = [talents EXCEPT ![c] = [talents[c] EXCEPT ![i] = talents[c][i] + 1]]
      BY <1>3 DEF BuyTalent, RecordInv, TypeOK
    <2>4. talents' \in [Characters -> [0..4 -> 0..MaxTalent]]
      BY <2>2, <2>3 DEF RecordInv, TypeOK
    <2> QED
      BY <1>1, <1>3, <2>4 DEF BuyTalent, RecordInv, TypeOK, players, timing
  <1>4. ASSUME NEW a \in Accounts, NEW e \in DOMAIN Template, Attune(a, e) PROVE TypeOK'
    <2>1. snapshots' \in [Accounts -> SUBSET DOMAIN Template]
      BY <1>4 DEF Attune, RecordInv, TypeOK
    <2> QED
      BY <1>1, <1>4, <2>1 DEF Attune, RecordInv, TypeOK, players, timing
  <1>5. ASSUME NEW a \in Accounts, NEW s \in Investable, NEW n \in Points, InvestSink(a, s, n)
        PROVE  TypeOK'
    <2>1. invested' \in [Accounts -> [Sinks -> Points]]
      BY <1>5 DEF InvestSink, RecordInv, TypeOK
    <2> QED
      BY <1>1, <1>5, <2>1 DEF InvestSink, RecordInv, TypeOK, players, timing
  <1>6. TypeOK'
    BY <1>2, <1>3, <1>4, <1>5 DEF LuaCommit
  <1>7. ReadingOK' /\ OfflineUnrecorded' /\ DueOnline' /\ ModifiersAreTheRecord'
    BY <1>1 DEF RecordInv, ReadingOK, OfflineUnrecorded, ModifiersAreTheRecord, Recorded, players, DueOnline, timing
  <1> QED
    BY <1>6, <1>7 DEF RecordInv

\* What a recalculation reads first is in the database.
LEMMA StartReading ==
  ASSUME RecordInv, NEW c \in Characters, NEW why \in Reasons, StartRecalculation(c, why)
  PROVE  /\ DOMAIN reading' = Characters
         /\ \A d \in Characters \ {c} : reading'[d] = reading[d]
         /\ reading'[c].why = why
         /\ reading'[c].rank \in 0..MaxRank
         /\ reading'[c].entries \in SUBSET DOMAIN Template
         /\ reading'[c].ranks \in [0..4 -> 0..MaxTalent]
  <1> USE StatBonusAssumption
  <1>1. /\ DOMAIN reading = Characters /\ AccountOf[c] \in Accounts
        /\ mastery[c] \in 0..MaxRank /\ talents[c] \in [0..4 -> 0..MaxTalent]
        /\ snapshots[AccountOf[c]] \in SUBSET DOMAIN Template
    BY DEF RecordInv, TypeOK
  <1>2. reading'[c] = [why |-> why, rank |-> mastery[c],
                       entries |-> snapshots[AccountOf[c]], ranks |-> talents[c]]
    BY <1>1 DEF StartRecalculation
  <1> QED
    BY <1>1, <1>2 DEF StartRecalculation

\* An online player's modifiers are the old record or nothing; the difference to
\* the new one makes them the new record.
LEMMA FinishRecord ==
  ASSUME RecordInv, NEW c \in Characters, FinishRecalculation(c)
  PROVE  RecordInv'
  <1> USE StatBonusAssumption
  <1> DEFINE new == BonusOf(c, reading[c].rank, reading[c].entries,
                            reading[c].ranks, invested[AccountOf[c]])
  <1>1. new \in Amounts
    <2>1. /\ level[c] \in Levels /\ invested[AccountOf[c]] \in [Sinks -> Points]
          /\ reading[c].rank \in Int /\ reading[c].entries \in SUBSET DOMAIN Template
          /\ \A i \in 0..4 : reading[c].ranks[i] \in Nat
      <3>1. reading[c].why # "none"
        BY DEF FinishRecalculation
      <3>2. /\ reading[c].rank \in 0..MaxRank /\ reading[c].entries \in SUBSET DOMAIN Template
            /\ reading[c].ranks \in [0..4 -> 0..MaxTalent]
        BY <3>1 DEF RecordInv, ReadingOK
      <3>3. level[c] \in Levels /\ invested[AccountOf[c]] \in [Sinks -> Points]
        BY DEF RecordInv, TypeOK
      <3> QED
        BY <3>2, <3>3
    <2> QED
      BY <2>1, BonusOfType
  <1>2. mods[c] \in Amounts /\ Recorded(c) \in Amounts
    BY DEF RecordInv, TypeOK, Recorded, Nothing, Amounts
  <1>3. /\ mods' = [mods EXCEPT ![c] = EchoesApplyDelta(mods[c], Recorded(c), new)]
        /\ appliedByGuid' = [appliedByGuid EXCEPT ![c] = new]
        /\ UNCHANGED <<database, enabled, status, level, sincePass>>
        /\ reading[c].why # "none"
    BY DEF FinishRecalculation, RecordInv, TypeOK
  <1> HIDE DEF new
  <1>4. TypeOK'
    <2>1. mods' \in [Characters -> [Channels -> Int]]
      BY <1>1, <1>2, <1>3, DeltaType DEF RecordInv, TypeOK, Amounts
    <2>2. appliedByGuid' \in [Characters -> [Channels -> Int] \union {NoRecord}]
      BY <1>1, <1>3 DEF RecordInv, TypeOK, Amounts
    <2>3. /\ sinceRecalc' \in [Characters -> 0..Interval] /\ due' \in SUBSET Characters
          /\ wrongFor' \in [Characters -> 0..(2 * Interval)]
          /\ DOMAIN reading' = Characters
          /\ \A d \in Characters : reading'[d].why \in Reasons \union {"none"}
      BY DEF FinishRecalculation, RecordInv, TypeOK, Idle
    <2> QED
      BY <1>3, <2>1, <2>2, <2>3 DEF RecordInv, TypeOK, database
  <1>5. ReadingOK'
    <2>1. \A d \in Characters : d # c => reading'[d] = reading[d]
      BY DEF FinishRecalculation, RecordInv, TypeOK
    <2>2. reading'[c].why = "none"
      BY DEF FinishRecalculation, RecordInv, TypeOK, Idle
    <2> QED
      BY <1>3, <2>1, <2>2 DEF RecordInv, ReadingOK
  <1>6. status[c] # "offline"
    BY <1>3 DEF RecordInv, ReadingOK
  <1>7. OfflineUnrecorded' /\ DueOnline'
    BY <1>3, <1>6 DEF RecordInv, OfflineUnrecorded, TypeOK, DueOnline, FinishRecalculation
  <1>8. ModifiersAreTheRecord'
    <2> SUFFICES ASSUME NEW d \in Characters, NEW ch \in WholeChannels
                 PROVE  mods'[d][ch] = IF status'[d] = "offline" THEN 0 ELSE Recorded(d)'[ch]
      BY DEF ModifiersAreTheRecord
    <2>1. CASE d = c
      <3>1. Recorded(c)' = new
        BY <1>1, <1>3 DEF Recorded, Amounts, RecordInv, TypeOK
      <3>2. mods[c][ch] = Recorded(c)[ch]
        BY <1>6 DEF RecordInv, ModifiersAreTheRecord
      <3>3. mods'[c][ch] = new[ch]
        BY <1>1, <1>2, <1>3, <3>2, DeltaType DEF RecordInv, TypeOK
      <3> QED
        BY <1>3, <1>6, <2>1, <3>1, <3>3
    <2>2. CASE d # c
      <3>1. mods'[d] = mods[d] /\ appliedByGuid'[d] = appliedByGuid[d]
        BY <1>3, <2>2 DEF RecordInv, TypeOK
      <3> QED
        BY <1>3, <3>1 DEF RecordInv, ModifiersAreTheRecord, Recorded
    <2> QED
      BY <2>1, <2>2
  <1> QED
    BY <1>4, <1>5, <1>7, <1>8 DEF RecordInv

LEMMA LoginRecord ==
  ASSUME RecordInv, NEW c \in Characters, OnPlayerLogin(c)
  PROVE  RecordInv'
  <1> USE StatBonusAssumption
  <1>1. /\ status[c] = "offline" /\ status' = [status EXCEPT ![c] = "inWorld"]
        /\ mods' = [mods EXCEPT ![c] = Nothing]
        /\ UNCHANGED <<database, enabled, level, appliedByGuid, timing, wrongFor>>
    BY DEF OnPlayerLogin
  <1>2. /\ DOMAIN reading' = Characters
        /\ \A d \in Characters \ {c} : reading'[d] = reading[d]
        /\ reading'[c].why \in Reasons \union {"none"}
        /\ reading'[c].why # "none" =>
              /\ reading'[c].rank \in 0..MaxRank
              /\ reading'[c].entries \in SUBSET DOMAIN Template
              /\ reading'[c].ranks \in [0..4 -> 0..MaxTalent]
    <2>1. CASE enabled
      BY <2>1, StartReading DEF OnPlayerLogin, Reasons
    <2>2. CASE ~enabled
      BY <2>2 DEF OnPlayerLogin, RecordInv, TypeOK, ReadingOK
    <2> QED
      BY <2>1, <2>2
  <1>3. TypeOK'
    <2>1. mods' \in [Characters -> [Channels -> Int]]
      BY <1>1 DEF RecordInv, TypeOK, Nothing
    <2>2. \A d \in Characters : reading'[d].why \in Reasons \union {"none"}
      BY <1>2 DEF RecordInv, TypeOK
    <2> QED
      BY <1>1, <1>2, <2>1, <2>2 DEF RecordInv, TypeOK, database, timing
  <1>4. ReadingOK' /\ OfflineUnrecorded' /\ DueOnline'
    BY <1>1, <1>2 DEF RecordInv, TypeOK, ReadingOK, OfflineUnrecorded, DueOnline, timing
  <1>5. ModifiersAreTheRecord'
    <2> SUFFICES ASSUME NEW d \in Characters, NEW ch \in WholeChannels
                 PROVE  mods'[d][ch] = IF status'[d] = "offline" THEN 0 ELSE Recorded(d)'[ch]
      BY DEF ModifiersAreTheRecord
    <2>1. CASE d = c
      <3>1. appliedByGuid'[c] = NoRecord
        BY <1>1 DEF RecordInv, OfflineUnrecorded
      <3>2. mods'[c] = Nothing
        BY <1>1 DEF RecordInv, TypeOK
      <3> QED
        BY <2>1, <3>1, <3>2 DEF Recorded, Nothing, WholeChannels
    <2>2. CASE d # c
      <3>1. mods'[d] = mods[d] /\ status'[d] = status[d]
        BY <1>1, <2>2 DEF RecordInv, TypeOK
      <3> QED
        BY <1>1, <3>1 DEF RecordInv, ModifiersAreTheRecord, Recorded
    <2> QED
      BY <2>1, <2>2
  <1> QED
    BY <1>3, <1>4, <1>5 DEF RecordInv

LEMMA LogoutRecord ==
  ASSUME RecordInv, NEW c \in Characters, OnPlayerLogout(c)
  PROVE  RecordInv'
  <1> USE StatBonusAssumption
  <1>1. /\ status[c] # "offline" /\ reading[c].why = "none" /\ due = {}
        /\ status' = [status EXCEPT ![c] = "offline"]
        /\ UNCHANGED <<database, enabled, level, sincePass, due, reading, wrongFor>>
    BY DEF OnPlayerLogout, WorldThreadFree
  <1>2. /\ mods' \in [Characters -> [Channels -> Int]]
        /\ \A d \in Characters \ {c} : mods'[d] = mods[d]
        /\ \A ch \in WholeChannels : mods'[c][ch] = 0
        /\ appliedByGuid' \in [Characters -> [Channels -> Int] \union {NoRecord}]
        /\ \A d \in Characters \ {c} : appliedByGuid'[d] = appliedByGuid[d]
        /\ appliedByGuid'[c] = NoRecord
        /\ sinceRecalc' \in [Characters -> 0..Interval]
    <2>1. \A ch \in WholeChannels : mods[c][ch] = Recorded(c)[ch] /\ Nothing[ch] = 0
      BY <1>1 DEF RecordInv, ModifiersAreTheRecord, Nothing, WholeChannels
    <2>2. CASE appliedByGuid[c] = NoRecord
      BY <2>1, <2>2 DEF OnPlayerLogout, RecordInv, TypeOK, Recorded
    <2>3. CASE appliedByGuid[c] # NoRecord
      <3>1. /\ mods[c] \in Amounts /\ appliedByGuid[c] \in Amounts /\ Nothing \in Amounts
            /\ Recorded(c) = appliedByGuid[c]
        BY <2>3 DEF RecordInv, TypeOK, Amounts, Nothing, Recorded
      <3>2. mods' = [mods EXCEPT ![c] = EchoesApplyDelta(mods[c], appliedByGuid[c], Nothing)]
        BY <2>3 DEF OnPlayerLogout
      <3>3. /\ EchoesApplyDelta(mods[c], appliedByGuid[c], Nothing) \in Amounts
            /\ \A ch \in WholeChannels :
                  EchoesApplyDelta(mods[c], appliedByGuid[c], Nothing)[ch] = 0
        BY <2>1, <3>1, DeltaType
      <3>4. /\ mods' \in [Characters -> [Channels -> Int]]
            /\ \A d \in Characters \ {c} : mods'[d] = mods[d]
            /\ \A ch \in WholeChannels : mods'[c][ch] = 0
        BY <3>2, <3>3 DEF RecordInv, TypeOK, Amounts
      <3>5. /\ appliedByGuid' = [appliedByGuid EXCEPT ![c] = NoRecord]
            /\ sinceRecalc' = [sinceRecalc EXCEPT ![c] = Interval]
        BY <2>3 DEF OnPlayerLogout
      <3> QED
        BY <3>4, <3>5 DEF RecordInv, TypeOK
    <2> QED
      BY <2>2, <2>3
  <1>3. TypeOK'
    BY <1>1, <1>2 DEF RecordInv, TypeOK, database
  <1>4. ReadingOK' /\ OfflineUnrecorded' /\ DueOnline'
    BY <1>1, <1>2 DEF RecordInv, TypeOK, ReadingOK, OfflineUnrecorded, DueOnline, timing
  <1>5. ModifiersAreTheRecord'
    <2> SUFFICES ASSUME NEW d \in Characters, NEW ch \in WholeChannels
                 PROVE  mods'[d][ch] = IF status'[d] = "offline" THEN 0 ELSE Recorded(d)'[ch]
      BY DEF ModifiersAreTheRecord
    <2>1. CASE d = c
      BY <1>1, <1>2, <2>1 DEF RecordInv, TypeOK
    <2>2. CASE d # c
      <3>1. mods'[d] = mods[d] /\ appliedByGuid'[d] = appliedByGuid[d] /\ status'[d] = status[d]
        BY <1>1, <1>2, <2>2 DEF RecordInv, TypeOK
      <3> QED
        BY <3>1 DEF RecordInv, ModifiersAreTheRecord, Recorded
    <2> QED
      BY <2>1, <2>2
  <1> QED
    BY <1>3, <1>4, <1>5 DEF RecordInv

LEMMA StepRecord == RecordInv /\ [Next]_vars => RecordInv'
  <1> SUFFICES ASSUME RecordInv, [Next]_vars PROVE RecordInv'
    OBVIOUS
  <1> USE StatBonusAssumption
  <1>1. ASSUME LuaCommit PROVE RecordInv'
    BY <1>1, CommitRecord
  <1>2. ASSUME NEW c \in Characters, OnPlayerLogin(c) PROVE RecordInv'
    BY <1>2, LoginRecord
  <1>3. ASSUME NEW c \in Characters, OnPlayerLogout(c) PROVE RecordInv'
    BY <1>3, LogoutRecord
  <1>4. ASSUME NEW c \in Characters, OnPlayerLevelChanged(c) PROVE RecordInv'
    <2>1. /\ UNCHANGED <<database, enabled, status, mods, appliedByGuid, timing, wrongFor>>
          /\ level' \in [Characters -> Levels] /\ status[c] = "inWorld"
      BY <1>4 DEF OnPlayerLevelChanged, RecordInv, TypeOK
    <2>2. /\ DOMAIN reading' = Characters
          /\ \A d \in Characters \ {c} : reading'[d] = reading[d]
          /\ reading'[c].why \in Reasons \union {"none"}
          /\ reading'[c].why # "none" =>
                /\ reading'[c].rank \in 0..MaxRank
                /\ reading'[c].entries \in SUBSET DOMAIN Template
                /\ reading'[c].ranks \in [0..4 -> 0..MaxTalent]
      <3>1. CASE enabled
        BY <1>4, <3>1, StartReading DEF OnPlayerLevelChanged, Reasons
      <3>2. CASE ~enabled
        BY <1>4, <3>2 DEF OnPlayerLevelChanged, RecordInv, TypeOK, ReadingOK
      <3> QED
        BY <3>1, <3>2
    <2>3. \A d \in Characters : reading'[d].why \in Reasons \union {"none"}
      BY <2>2 DEF RecordInv, TypeOK
    <2>4. TypeOK'
      BY <2>1, <2>2, <2>3 DEF RecordInv, TypeOK, database, timing
    <2>5. ReadingOK'
      BY <2>1, <2>2 DEF RecordInv, ReadingOK
    <2>6. OfflineUnrecorded' /\ DueOnline' /\ ModifiersAreTheRecord'
      BY <2>1 DEF RecordInv, OfflineUnrecorded, DueOnline, ModifiersAreTheRecord, Recorded, timing
    <2> QED
      BY <2>4, <2>5, <2>6 DEF RecordInv
  <1>5. ASSUME NEW c \in Characters, Teleport(c) PROVE RecordInv'
    <2>1. /\ UNCHANGED <<database, enabled, level, mods, appliedByGuid, timing, reading, wrongFor>>
          /\ status[c] # "offline"
          /\ status' \in [Characters -> {"offline", "inWorld", "teleporting"}]
          /\ \A d \in Characters : status'[d] = "offline" <=> status[d] = "offline"
      BY <1>5 DEF Teleport, RecordInv, TypeOK
    <2>2. TypeOK'
      BY <2>1 DEF RecordInv, TypeOK, database, timing
    <2>3. ReadingOK' /\ OfflineUnrecorded' /\ DueOnline' /\ ModifiersAreTheRecord'
      BY <2>1 DEF RecordInv, TypeOK, ReadingOK, OfflineUnrecorded, DueOnline,
                  ModifiersAreTheRecord, Recorded, timing
    <2> QED
      BY <2>2, <2>3 DEF RecordInv
  <1>6. ASSUME NEW c \in Characters, RecheckPlayer(c) PROVE RecordInv'
    <2>1. UNCHANGED <<database, enabled, players, appliedByGuid, timing, wrongFor>>
      BY <1>6 DEF RecheckPlayer
    <2>2. /\ DOMAIN reading' = Characters
          /\ \A d \in Characters \ {c} : reading'[d] = reading[d]
          /\ reading'[c].why = "pass"
          /\ reading'[c].rank \in 0..MaxRank
          /\ reading'[c].entries \in SUBSET DOMAIN Template
          /\ reading'[c].ranks \in [0..4 -> 0..MaxTalent]
      BY <1>6, StartReading DEF RecheckPlayer, Reasons
    <2>3. TypeOK'
      BY <2>1, <2>2 DEF RecordInv, TypeOK, database, players, timing, Reasons
    <2>4. status[c] # "offline" /\ due' = due /\ status' = status
      BY <1>6, <2>1 DEF RecheckPlayer, RecordInv, DueOnline, timing, players
    <2>5. ReadingOK'
      BY <2>1, <2>2, <2>4 DEF RecordInv, ReadingOK, players
    <2>6. OfflineUnrecorded' /\ DueOnline' /\ ModifiersAreTheRecord'
      BY <2>1 DEF RecordInv, OfflineUnrecorded, DueOnline, ModifiersAreTheRecord, Recorded,
                  players, timing
    <2> QED
      BY <2>3, <2>5, <2>6 DEF RecordInv
  <1>7. ASSUME NEW c \in Characters, FinishRecalculation(c) PROVE RecordInv'
    BY <1>7, FinishRecord
  <1>8. ASSUME OnAfterConfigLoad PROVE RecordInv'
    BY <1>8 DEF OnAfterConfigLoad, RecordInv, TypeOK, ReadingOK, DueOnline, OfflineUnrecorded,
                ModifiersAreTheRecord, Recorded, database, players, timing
  <1>9. ASSUME OnUpdate PROVE RecordInv'
    <2>1. UNCHANGED <<database, enabled, players, appliedByGuid, reading>>
      BY <1>9 DEF OnUpdate
    <2>2. sinceRecalc' \in [Characters -> 0..Interval] /\ sincePass' \in 0..Interval
      BY <1>9 DEF OnUpdate, Older, RecordInv, TypeOK
    <2>3. /\ due' \in SUBSET Characters
          /\ \A c \in due' : status[c] # "offline"
      BY <1>9 DEF OnUpdate, RecheckDue
    <2>4. wrongFor' \in [Characters -> 0..(2 * Interval)]
      <3>1. \A c \in Characters : wrongFor[c] \in 0..(2 * Interval) /\ 2 * Interval \in Nat
        BY DEF RecordInv, TypeOK
      <3> QED
        BY <1>9, <3>1 DEF OnUpdate
    <2>5. TypeOK'
      BY <2>1, <2>2, <2>3, <2>4 DEF RecordInv, TypeOK, database, players
    <2>6. ReadingOK' /\ DueOnline' /\ OfflineUnrecorded' /\ ModifiersAreTheRecord'
      BY <2>1, <2>3 DEF RecordInv, ReadingOK, DueOnline, OfflineUnrecorded,
                        ModifiersAreTheRecord, Recorded, players
    <2> QED
      BY <2>5, <2>6 DEF RecordInv
  <1>10. ASSUME OnShutdown PROVE RecordInv'
    <2>1. /\ UNCHANGED <<database, enabled, level, due, reading>>
          /\ status' = [c \in Characters |-> "offline"]
          /\ mods' = [c \in Characters |-> Nothing]
          /\ appliedByGuid' = [c \in Characters |-> NoRecord]
          /\ due = {} /\ \A c \in Characters : reading[c].why = "none"
      BY <1>10 DEF OnShutdown, WorldThreadFree
    <2>2. TypeOK'
      BY <1>10, <2>1 DEF OnShutdown, RecordInv, TypeOK, Nothing, database
    <2>3. ReadingOK' /\ DueOnline' /\ OfflineUnrecorded' /\ ModifiersAreTheRecord'
      BY <2>1 DEF RecordInv, ReadingOK, DueOnline, OfflineUnrecorded,
                  ModifiersAreTheRecord, Nothing, WholeChannels
    <2> QED
      BY <2>2, <2>3 DEF RecordInv
  <1>11. ASSUME UNCHANGED vars PROVE RecordInv'
    BY <1>11 DEF vars, RecordInv, TypeOK, ReadingOK, DueOnline, OfflineUnrecorded,
                 ModifiersAreTheRecord, Recorded, database, players, timing
  <1> QED
    BY <1>1, <1>2, <1>3, <1>4, <1>5, <1>6, <1>7, <1>8, <1>9, <1>10, <1>11 DEF Next

\* Every reachable state has the declared types, whatever the rows, the curves and
\* the number of items: the bonus is a sum over the snapshots of the account, and
\* every channel of it an integer.
THEOREM TypeCorrect == Spec => []TypeOK
  <1>1. RecordInv => TypeOK
    BY DEF RecordInv
  <1> QED
    BY <1>1, InitRecord, StepRecord, PTL DEF Spec

\* In every channel of whole points a player in a session carries what
\* appliedByGuid records, once, and a logged-out one nothing: EchoesApplyDelta
\* takes the old contribution off and puts the new one on, whoever is
\* recalculated, disabled, re-enabled, relogged or levelled in between.
THEOREM ModifiersAreTheRecordAlways == Spec => []ModifiersAreTheRecord
  <1>1. RecordInv => ModifiersAreTheRecord
    BY DEF RecordInv
  <1> QED
    BY <1>1, InitRecord, StepRecord, PTL DEF Spec

--------------------------------------------------------------------------------
(* What the bonus grows with.                                                    *)

LEMMA ProductGrows ==
  ASSUME NEW a \in Int, NEW b \in Int, a <= b, NEW k \in Nat
  PROVE  a * k <= b * k /\ k * a <= k * b /\ a * k \in Int /\ b * k \in Int
  <1>1. (b - a) * k >= 0
    OBVIOUS
  <1> QED
    BY <1>1

LEMMA QuotientGrows ==
  ASSUME NEW a \in Int, NEW b \in Int, a <= b, NEW k \in Nat \ {0}
  PROVE  a \div k <= b \div k /\ a \div k \in Int /\ b \div k \in Int
  <1>1. a = k * (a \div k) + (a % k) /\ a % k \in 0..(k - 1) /\ a \div k \in Int
    OBVIOUS
  <1>2. b = k * (b \div k) + (b % k) /\ b % k \in 0..(k - 1) /\ b \div k \in Int
    OBVIOUS
  <1>3. ASSUME a \div k > b \div k PROVE FALSE
    <2>1. k * (a \div k) >= k * (b \div k + 1)
      BY <1>1, <1>2, <1>3, ProductGrows
    <2>2. k * (b \div k + 1) = k * (b \div k) + k
      BY <1>2
    <2> QED
      BY <1>1, <1>2, <2>1, <2>2
  <1> QED
    BY <1>1, <1>2, <1>3

LEMMA CurveGrows ==
  ASSUME NEW ceiling \in Nat, NEW m \in Points, NEW n \in Points, m <= n
  PROVE  SinkFraction(ceiling, m) <= SinkFraction(ceiling, n)
  <1> DEFINE x == Saturation[m]
             y == Saturation[n]
             low == ceiling * x
             high == ceiling * y
  <1>1. x \in 0..1000 /\ y \in 0..1000 /\ x <= y
    BY CalculatorAssumption
  <1> HIDE DEF x, y
  <1>2. low \in Int /\ high \in Int /\ low <= high
    BY <1>1, ProductGrows
  <1> HIDE DEF low, high
  <1>3. low \div 100 <= high \div 100
    BY <1>2, QuotientGrows
  <1> QED
    BY <1>3 DEF SinkFraction, low, high, x, y

LEMMA RankGrows ==
  ASSUME NEW m \in Int, NEW n \in Int, m <= n
  PROVE  EchoesValidateMasteryRankForCalculation(m) <= EchoesValidateMasteryRankForCalculation(n)
  BY CalculatorAssumption DEF EchoesValidateMasteryRankForCalculation

\* A higher share of the same row.
LEMMA ContributionGrows ==
  ASSUME NEW row \in SnapshotRow, NEW field \in BonusFields, row.stats[field] >= 0,
         NEW p \in Nat, NEW q \in Nat, p <= q,
         NEW ranks, \A i \in 0..4 : ranks[i] \in Nat
  PROVE  /\ Contribution(row, field, p, ranks) \in Nat
         /\ Contribution(row, field, q, ranks) \in Nat
         /\ Contribution(row, field, p, ranks) <= Contribution(row, field, q, ranks)
  <1>1. row.stats[field] \in Nat
    BY DEF SnapshotRow
  <1>2. /\ row.stats[field] * p \in Nat /\ row.stats[field] * q \in Nat
        /\ row.stats[field] * p <= row.stats[field] * q
    BY <1>1, ProductGrows
  <1>3. /\ Absorbed(row, field, p) \in Nat /\ Absorbed(row, field, q) \in Nat
        /\ Absorbed(row, field, p) <= Absorbed(row, field, q)
    BY <1>2 DEF Absorbed
  <1>4. ASSUME NEW i \in 0..4, NEW a \in Nat, NEW b \in Nat, a <= b
        PROVE  /\ Talented(ranks, i, a) \in Nat /\ Talented(ranks, i, b) \in Nat
               /\ Talented(ranks, i, a) <= Talented(ranks, i, b)
    <2> DEFINE k == TalentMultiplier(ranks, i)
               d == TalentDistinctPenalty(ranks)
               x == (a * k) \div 100
               y == (b * k) \div 100
    <2>1. k \in Nat /\ d \in Nat
      BY TalentType
    <2>2. a * k <= b * k /\ a * k \in Nat /\ b * k \in Nat
      BY <1>4, <2>1, ProductGrows
    <2>3. x <= y /\ x \in Nat /\ y \in Nat
      BY <2>2
    <2>4. x * d <= y * d /\ x * d \in Nat /\ y * d \in Nat
      <3> HIDE DEF x, y, d
      <3> QED
        BY <2>1, <2>3, ProductGrows
    <2>5. (x * d) \div 10000 <= (y * d) \div 10000
          /\ (x * d) \div 10000 \in Nat /\ (y * d) \div 10000 \in Nat
      <3> HIDE DEF x, y, d
      <3> QED
        BY <2>4
    <2> QED
      BY <2>5 DEF Talented
  <1> QED
    BY <1>3, <1>4, StatIndexType DEF Contribution

\* Of rows that take nothing away, more rows at a higher rank absorb no less.
LEMMA AbsorptionGrows ==
  ASSUME NEW few, NEW many, IsFiniteSet(DOMAIN many), DOMAIN few \subseteq DOMAIN many,
         \A e \in DOMAIN few : few[e] = many[e],
         \A e \in DOMAIN many : many[e] \in SnapshotRow,
         \A e \in DOMAIN many : \A field \in BonusFields : many[e].stats[field] >= 0,
         NEW m \in Points, NEW n \in Points, m <= n,
         NEW l \in Nat, NEW class, NEW ranks, \A i \in 0..4 : ranks[i] \in Nat,
         NEW field \in BonusFields
  PROVE  /\ 0 <= EchoesCalculateAbsorption(few, m, l, class, ranks)[field]
         /\ EchoesCalculateAbsorption(few, m, l, class, ranks)[field]
              <= EchoesCalculateAbsorption(many, n, l, class, ranks)[field]
  <1> DEFINE p == AbsorbPct(m, l)
             q == AbsorbPct(n, l)
             E == Eligible(few, class)
             F == Eligible(many, class)
             f == Contributions(few, field, p, class, ranks)
             g == Contributions(many, field, q, class, ranks)
  <1>1. p \in Nat /\ q \in Nat /\ p <= q
    <2>1. /\ EchoesMasteryAbsorbPct(m) \in Int /\ EchoesMasteryAbsorbPct(n) \in Int
          /\ EchoesMasteryAbsorbPct(m) <= EchoesMasteryAbsorbPct(n)
      BY SaturationType, CurveGrows DEF EchoesMasteryAbsorbPct
    <2>2. EchoesLevelAbsorbScalar(l) \in Nat
      BY DEF EchoesLevelAbsorbScalar
    <2> QED
      BY <2>1, <2>2, AbsorbPctType, ProductGrows DEF AbsorbPct
  <1>2. E \subseteq F /\ IsFiniteSet(F) /\ IsFiniteSet(E)
    <2>1. E \subseteq F /\ F \subseteq DOMAIN many
      BY DEF Eligible
    <2> QED
      BY <2>1, FS_Subset
  <1>3. /\ \A e \in E : f[e] \in Nat /\ g[e] \in Nat /\ f[e] <= g[e]
        /\ \A e \in F : g[e] \in Nat
    <2>1. ASSUME NEW e \in F
          PROVE  /\ Contribution(many[e], field, p, ranks) \in Nat
                 /\ Contribution(many[e], field, q, ranks) \in Nat
                 /\ Contribution(many[e], field, p, ranks) <= Contribution(many[e], field, q, ranks)
      <3> HIDE DEF p, q
      <3> QED
        BY <1>1, ContributionGrows DEF Eligible
    <2>2. \A e \in F : g[e] = Contribution(many[e], field, q, ranks)
      BY DEF Contributions
    <2>3. \A e \in E : f[e] = Contribution(many[e], field, p, ranks)
      BY DEF Contributions, Eligible
    <2> HIDE DEF E, F, f, g, p, q
    <2> QED
      BY <1>2, <2>1, <2>2, <2>3
  <1>4. 0 <= SumFunctionOnSet(f, E) /\ SumFunctionOnSet(f, E) <= SumFunctionOnSet(g, F)
    <2> HIDE DEF E, F, f, g
    <2>1. SumFunctionOnSet(f, E) \in Nat
      BY <1>2, <1>3, SumOfMore
    <2>2. SumFunctionOnSet(f, E) <= SumFunctionOnSet(g, E)
      BY <1>2, <1>3, SumAtMost
    <2>3. /\ SumFunctionOnSet(g, E) \in Nat /\ SumFunctionOnSet(g, F) \in Nat
          /\ SumFunctionOnSet(g, E) <= SumFunctionOnSet(g, F)
      BY <1>2, <1>3, SumOfMore
    <2> QED
      BY <2>1, <2>2, <2>3
  <1>5. /\ EchoesCalculateAbsorption(few, m, l, class, ranks)[field] = SumFunctionOnSet(f, E)
        /\ EchoesCalculateAbsorption(many, n, l, class, ranks)[field] = SumFunctionOnSet(g, F)
    BY AbsorptionIsASum
  <1> QED
    BY <1>4, <1>5

LEMMA MultipliedGrows ==
  ASSUME NEW a \in Bonus, NEW b \in Bonus,
         \A field \in BonusFields : 0 <= a[field] /\ a[field] <= b[field],
         NEW x \in Nat, NEW y \in Nat, x <= y, NEW scaled \in BonusFields
  PROVE  /\ Multiplied(a, scaled, x) \in Bonus /\ Multiplied(b, scaled, y) \in Bonus
         /\ \A field \in BonusFields :
               /\ 0 <= Multiplied(a, scaled, x)[field]
               /\ Multiplied(a, scaled, x)[field] <= Multiplied(b, scaled, y)[field]
  <1> DEFINE u == a[scaled]
             v == b[scaled]
  <1>1. u \in Nat /\ v \in Nat /\ u <= v
    BY DEF Bonus
  <1>2. /\ u * (1000 + x) \in Nat /\ v * (1000 + x) \in Nat /\ v * (1000 + y) \in Nat
        /\ u * (1000 + x) <= v * (1000 + x) /\ v * (1000 + x) <= v * (1000 + y)
    BY <1>1, ProductGrows
  <1>3. /\ (u * (1000 + x)) \div 1000 \in Nat /\ (v * (1000 + y)) \div 1000 \in Nat
        /\ (u * (1000 + x)) \div 1000 <= (v * (1000 + y)) \div 1000
    BY <1>2
  <1>4. /\ Multiplied(a, scaled, x) = [a EXCEPT ![scaled] = (u * (1000 + x)) \div 1000]
        /\ Multiplied(b, scaled, y) = [b EXCEPT ![scaled] = (v * (1000 + y)) \div 1000]
    BY DEF Multiplied
  <1> HIDE DEF u, v
  <1> QED
    BY <1>3, <1>4 DEF Bonus

\* What a player of an unchanged level with unchanged Talents gains when nothing is
\* taken back: never less in any channel.
LEMMA BonusGrows ==
  ASSUME NEW c \in Characters, level[c] \in Levels,
         \A e \in DOMAIN Template : \A field \in BonusFields : Template[e].stats[field] >= 0,
         NEW m \in Int, NEW n \in Int, m <= n,
         NEW few \in SUBSET DOMAIN Template, NEW many \in SUBSET DOMAIN Template,
         few \subseteq many,
         NEW ranks, \A i \in 0..4 : ranks[i] \in Nat,
         NEW low \in [Sinks -> Points], NEW high \in [Sinks -> Points],
         \A s \in Sinks : low[s] <= high[s],
         NEW ch \in Channels
  PROVE  BonusOf(c, m, few, ranks, low)[ch] <= BonusOf(c, n, many, ranks, high)[ch]
  <1> USE StatBonusAssumption
  <1> DEFINE Absorption(rank, entries) ==
                EchoesCalculateAbsorption(Rows(entries),
                    EchoesValidateMasteryRankForCalculation(rank), level[c], ClassOf[c], ranks)
             Bonus1(rank, entries, sinks) ==
                EchoesApplyFortitudeMultiplier(Absorption(rank, entries), sinks["fortitude"])
             Bonus2(rank, entries, sinks) ==
                Multiplied(Bonus1(rank, entries, sinks), "weaponDps",
                           EchoesMeleeSpellPowerBonus(sinks["melee_power"]))
             Bonus3(rank, entries, sinks) ==
                EchoesApplyMeleeSpellPowerMultipliers(Bonus1(rank, entries, sinks),
                    sinks["melee_power"], sinks["spell_power"])
             Grows(a, b) == /\ a \in Bonus /\ b \in Bonus
                            /\ \A field \in BonusFields : 0 <= a[field] /\ a[field] <= b[field]
  <1>1. Grows(Absorption(m, few), Absorption(n, many))
    <2>1. \A entries \in SUBSET DOMAIN Template :
             /\ DOMAIN Rows(entries) = entries /\ IsFiniteSet(entries)
             /\ \A e \in entries : Rows(entries)[e] = Template[e]
      BY FS_Subset DEF Rows
    <2>2. level[c] \in Nat
      OBVIOUS
    <2>3. \A rank \in {m, n}, entries \in {few, many} : Absorption(rank, entries) \in Bonus
      BY <2>1, <2>2, RankOf, AbsorptionType
    <2>4. ASSUME NEW field \in BonusFields
          PROVE  /\ 0 <= Absorption(m, few)[field]
                 /\ Absorption(m, few)[field] <= Absorption(n, many)[field]
      <3>1. /\ DOMAIN Rows(few) \subseteq DOMAIN Rows(many) /\ IsFiniteSet(DOMAIN Rows(many))
            /\ \A e \in DOMAIN Rows(few) : Rows(few)[e] = Rows(many)[e]
            /\ \A e \in DOMAIN Rows(many) : Rows(many)[e] \in SnapshotRow
            /\ \A e \in DOMAIN Rows(many) : \A h \in BonusFields : Rows(many)[e].stats[h] >= 0
        BY <2>1
      <3> QED
        BY <2>2, <3>1, RankOf, RankGrows, AbsorptionGrows
    <2> HIDE DEF Absorption
    <2> QED
      BY <2>3, <2>4
  <1>2. ASSUME NEW s \in Sinks PROVE low[s] \in Points /\ high[s] \in Points /\ low[s] <= high[s]
    OBVIOUS
  <1>3. "fortitude" \in Sinks /\ "melee_power" \in Sinks /\ "spell_power" \in Sinks
    BY DEF Sinks
  <1>4. Grows(Bonus1(m, few, low), Bonus1(n, many, high))
    <2>1. /\ EchoesFortitudeBonus(low["fortitude"]) \in Nat
          /\ EchoesFortitudeBonus(high["fortitude"]) \in Nat
          /\ EchoesFortitudeBonus(low["fortitude"]) <= EchoesFortitudeBonus(high["fortitude"])
      BY <1>2, <1>3, SaturationType, CurveGrows DEF EchoesFortitudeBonus
    <2>2. "sta" \in BonusFields
      BY DEF BonusFields, PrimaryStats
    <2> HIDE DEF Absorption
    <2> QED
      BY <1>1, <2>1, <2>2, MultipliedGrows DEF EchoesApplyFortitudeMultiplier
  <1>5. ASSUME NEW s \in {"melee_power", "spell_power"}
        PROVE  /\ EchoesMeleeSpellPowerBonus(low[s]) \in Nat
               /\ EchoesMeleeSpellPowerBonus(high[s]) \in Nat
               /\ EchoesMeleeSpellPowerBonus(low[s]) <= EchoesMeleeSpellPowerBonus(high[s])
    BY <1>2, <1>3, SaturationType, CurveGrows DEF EchoesMeleeSpellPowerBonus
  <1>6. Grows(Bonus2(m, few, low), Bonus2(n, many, high))
    <2>1. "weaponDps" \in BonusFields
      BY DEF BonusFields
    <2> HIDE DEF Bonus1
    <2> QED
      BY <1>4, <1>5, <2>1, MultipliedGrows
  <1>7. Grows(Bonus3(m, few, low), Bonus3(n, many, high))
    <2>1. "int" \in BonusFields
      BY DEF BonusFields, PrimaryStats
    <2>2. /\ Bonus3(m, few, low) = Multiplied(Bonus2(m, few, low), "int",
                                        EchoesMeleeSpellPowerBonus(low["spell_power"]))
          /\ Bonus3(n, many, high) = Multiplied(Bonus2(n, many, high), "int",
                                        EchoesMeleeSpellPowerBonus(high["spell_power"]))
      BY DEF EchoesApplyMeleeSpellPowerMultipliers
    <2> HIDE DEF Bonus2, Bonus3
    <2> QED
      BY <1>5, <1>6, <2>1, <2>2, MultipliedGrows
  <1>8. ASSUME ch \in Ratings
        PROVE  EchoesRatingPointsForPercent(
                  EchoesRatingSinkFraction(ch, low[ch]), RatingMultiplier[level[c]])
               <= EchoesRatingPointsForPercent(
                  EchoesRatingSinkFraction(ch, high[ch]), RatingMultiplier[level[c]])
    <2>1. ch \in Sinks /\ RatingCeiling[ch] \in Nat
      BY <1>8 DEF Sinks, Ratings, RatingCeiling
    <2>2. /\ EchoesRatingSinkFraction(ch, low[ch]) \in Nat
          /\ EchoesRatingSinkFraction(ch, high[ch]) \in Nat
          /\ EchoesRatingSinkFraction(ch, low[ch]) <= EchoesRatingSinkFraction(ch, high[ch])
      BY <1>2, <2>1, SaturationType, CurveGrows DEF EchoesRatingSinkFraction
    <2>3. RatingMultiplier[level[c]] \in Nat
      OBVIOUS
    <2>4. ASSUME NEW x \in Nat, NEW y \in Nat, x <= y, NEW k \in Nat
          PROVE  EchoesRatingPointsForPercent(x, k) <= EchoesRatingPointsForPercent(y, k)
      <3>1. CASE k = 0
        BY <3>1 DEF EchoesRatingPointsForPercent
      <3>2. CASE k # 0
        <4>1. x \div k <= y \div k /\ y \div k >= 0 /\ x \div k \in Int /\ y \div k \in Int
          BY <2>4, <3>2, QuotientGrows
        <4> QED
          BY <2>4, <4>1 DEF EchoesRatingPointsForPercent
      <3> QED
        BY <3>1, <3>2
    <2> QED
      BY <2>2, <2>3, <2>4
  <1>9. \A rank, entries, sinks :
          BonusOf(c, rank, entries, ranks, sinks) =
            [k \in Channels |->
              IF k \in Ratings
              THEN EchoesRatingPointsForPercent(
                      EchoesRatingSinkFraction(k, sinks[k]), RatingMultiplier[level[c]])
              ELSE IF k = "attackPower"
              THEN EchoesWeaponDpsToAttackPower(Bonus3(rank, entries, sinks)["weaponDps"])
              ELSE Bonus3(rank, entries, sinks)[k]]
    BY DEF BonusOf
  <1>10. CASE ch \in Ratings
    BY <1>8, <1>9, <1>10
  <1>11. CASE ch \notin Ratings
    <2> HIDE DEF Bonus3
    <2>1. "weaponDps" \in BonusFields /\ (ch # "attackPower" => ch \in BonusFields)
      BY <1>11 DEF BonusFields, Channels, FlatStats
    <2>2. EchoesWeaponDpsToAttackPower(Bonus3(m, few, low)["weaponDps"])
            <= EchoesWeaponDpsToAttackPower(Bonus3(n, many, high)["weaponDps"])
      BY <1>7, <2>1 DEF EchoesWeaponDpsToAttackPower, Bonus
    <2> QED
      BY <1>7, <1>9, <1>11, <2>1, <2>2
  <1> QED
    BY <1>10, <1>11

\* A step after which nothing in the bonus that is asked for has become less.
GainsNothingTaken ==
    \A c \in Characters :
        level'[c] = level[c] /\ talents'[c] = talents[c]
            => \A ch \in Channels : Desired(c)[ch] <= Desired(c)'[ch]

LEMMA StepGains ==
  ASSUME \A e \in DOMAIN Template : \A field \in BonusFields : Template[e].stats[field] >= 0,
         TypeOK, TypeOK', [Next]_vars
  PROVE  GainsNothingTaken
  <1> USE StatBonusAssumption
  <1> DEFINE Kept == UNCHANGED database
             MoreRanks == \A c \in Characters : mastery[c] <= mastery'[c]
             MoreRows == \A a \in Accounts : snapshots[a] \subseteq snapshots'[a]
             MoreEssence == \A a \in Accounts : \A s \in Sinks : invested[a][s] <= invested'[a][s]
  <1>1. /\ \A c \in Characters : mastery[c] \in Int
        /\ \A a \in Accounts : \A s \in Sinks : invested[a][s] \in Nat
    <2>1. \A c \in Characters : mastery[c] \in 0..MaxRank
      BY DEF TypeOK
    <2>2. \A a \in Accounts : \A s \in Sinks : invested[a][s] \in Points
      BY DEF TypeOK
    <2>3. \A n \in Points : n \in Nat
      BY CalculatorAssumption
    <2>4. \A a \in Accounts : \A s \in Sinks : invested[a][s] \in Nat
      BY <2>2, <2>3
    <2> QED
      BY <2>1, <2>4
  <1>2. ASSUME Kept PROVE MoreRanks /\ MoreRows /\ MoreEssence
    BY <1>1, <1>2 DEF database
  <1>3. ASSUME NEW c \in Characters, BuyMastery(c) PROVE MoreRanks /\ MoreRows /\ MoreEssence
    BY <1>1, <1>3 DEF BuyMastery, TypeOK
  <1>4. ASSUME NEW c \in Characters, NEW i \in TalentIndices, BuyTalent(c, i)
        PROVE  MoreRanks /\ MoreRows /\ MoreEssence
    BY <1>1, <1>4 DEF BuyTalent
  <1>5. ASSUME NEW a \in Accounts, NEW e \in DOMAIN Template, Attune(a, e)
        PROVE  MoreRanks /\ MoreRows /\ MoreEssence
    BY <1>1, <1>5 DEF Attune, TypeOK
  <1>6. ASSUME NEW a \in Accounts, NEW s \in Investable, NEW n \in Points, InvestSink(a, s, n)
        PROVE  MoreRanks /\ MoreRows /\ MoreEssence
    <2>1. n \in Nat /\ s \in Sinks /\ invested[a][s] < n
      BY <1>6, CalculatorAssumption DEF InvestSink
    <2>2. \A b \in Accounts : \A r \in Sinks :
             invested'[b][r] = IF b = a /\ r = s THEN n ELSE invested[b][r]
      BY <1>6 DEF InvestSink, TypeOK
    <2> QED
      BY <1>1, <1>6, <2>1, <2>2 DEF InvestSink
  <1>7. MoreRanks /\ MoreRows /\ MoreEssence
    <2>1. ASSUME ~LuaCommit PROVE Kept
      BY <2>1 DEF Next, vars, OnPlayerLogin, OnPlayerLogout, OnPlayerLevelChanged, Teleport,
                  RecheckPlayer, FinishRecalculation, OnAfterConfigLoad, OnUpdate, OnShutdown
    <2> HIDE DEF Kept, MoreRanks, MoreRows, MoreEssence
    <2> QED
      BY <1>2, <1>3, <1>4, <1>5, <1>6, <2>1 DEF LuaCommit
  <1>8. SUFFICES ASSUME NEW c \in Characters, level'[c] = level[c], talents'[c] = talents[c],
                        NEW ch \in Channels
                 PROVE  Desired(c)[ch] <= Desired(c)'[ch]
    BY DEF GainsNothingTaken
  <1> DEFINE a == AccountOf[c]
  <1>9. /\ a \in Accounts /\ level[c] \in Levels
        /\ mastery[c] \in Int /\ mastery'[c] \in Int
        /\ snapshots[a] \in SUBSET DOMAIN Template /\ snapshots'[a] \in SUBSET DOMAIN Template
        /\ \A i \in 0..4 : talents[c][i] \in Nat
        /\ invested[a] \in [Sinks -> Points] /\ invested'[a] \in [Sinks -> Points]
    BY DEF TypeOK
  <1>10. Desired(c)' = BonusOf(c, mastery'[c], snapshots'[a], talents[c], invested'[a])
    BY <1>8 DEF Desired, BonusOf
  <1>11. BonusOf(c, mastery[c], snapshots[a], talents[c], invested[a])[ch]
          <= BonusOf(c, mastery'[c], snapshots'[a], talents[c], invested'[a])[ch]
    <2> HIDE DEF a
    <2> QED
      BY <1>7, <1>9, BonusGrows
  <1> QED
    BY <1>10, <1>11 DEF Desired

\* As long as no item takes a stat away, nothing an account does lowers the bonus
\* of a character of the same level and Talents in any channel: neither a rank of
\* Mastery (the curve rises, and the division of each row comes after the
\* multiplication), nor an attuned item (the class filter looks at each row
\* alone), nor Essence in a sink. Talents are left out because a third Talent may
\* well lower the bonus of the first two (the penalty for distinct Talents).
THEOREM PurchasesNeverLowerTheBonus ==
  ASSUME \A e \in DOMAIN Template : \A field \in BonusFields : Template[e].stats[field] >= 0
  PROVE  Spec => [][\A c \in Characters :
                        level'[c] = level[c] /\ talents'[c] = talents[c]
                            => \A ch \in Channels : Desired(c)[ch] <= Desired(c)'[ch]]_vars
  <1>1. ASSUME TypeOK, TypeOK', [Next]_vars PROVE GainsNothingTaken
    BY <1>1, StepGains
  <1> QED
    BY <1>1, TypeCorrect, PTL DEF Spec, GainsNothingTaken

--------------------------------------------------------------------------------
(* A recalculation brings the modifiers to what the database calls for.          *)

\* The whole-number modifiers of a player are what the database calls for.
Right(c) == \A ch \in WholeChannels : mods[c][ch] = Desired(c)[ch]

\* What a recalculation under way has read is still in the database.
Current(c) ==
    reading[c].why # "none" =>
        /\ reading[c].rank = mastery[c] /\ reading[c].ranks = talents[c]
        /\ reading[c].entries = snapshots[AccountOf[c]]

\* Nothing is bought, and the player stays online at the same level.
Undisturbed(c) ==
    /\ UNCHANGED database /\ level'[c] = level[c]
    /\ status[c] # "offline" /\ status'[c] # "offline"

\* What a step does towards the right modifiers while nothing new is bought.
Converges(c) ==
    Undisturbed(c) /\ Current(c) =>
        /\ Current(c)'
        /\ FinishRecalculation(c) \/ Right(c) => Right(c)'

LEMMA DesiredStands ==
  ASSUME NEW c \in Characters, Undisturbed(c)
  PROVE  Desired(c)' = Desired(c)
  BY DEF Undisturbed, database, Desired, BonusOf

LEMMA FinishMakesRight ==
  ASSUME RecordInv, NEW c \in Characters, FinishRecalculation(c), Undisturbed(c), Current(c)
  PROVE  Current(c)' /\ Right(c)'
  <1> USE StatBonusAssumption
  <1>1. reading[c].why # "none" /\ reading'[c].why = "none"
    BY DEF FinishRecalculation, RecordInv, TypeOK, Idle
  <1>2. BonusOf(c, reading[c].rank, reading[c].entries,
                reading[c].ranks, invested[AccountOf[c]]) = Desired(c)
    BY <1>1 DEF Current, Desired
  <1>3. Desired(c) \in Amounts
    <2>1. /\ level[c] \in Levels /\ invested[AccountOf[c]] \in [Sinks -> Points]
          /\ mastery[c] \in Int /\ snapshots[AccountOf[c]] \in SUBSET DOMAIN Template
          /\ \A i \in 0..4 : talents[c][i] \in Nat
      BY DEF RecordInv, TypeOK
    <2> QED
      BY <2>1, BonusOfType DEF Desired
  <1>4. mods'[c] = EchoesApplyDelta(mods[c], Recorded(c), Desired(c))
    BY <1>2 DEF FinishRecalculation, RecordInv, TypeOK
  <1>5. mods[c] \in Amounts /\ Recorded(c) \in Amounts
    BY DEF RecordInv, TypeOK, Recorded, Nothing, Amounts
  <1>6. \A ch \in WholeChannels : mods[c][ch] = Recorded(c)[ch]
    BY DEF RecordInv, ModifiersAreTheRecord, Undisturbed
  <1>7. \A ch \in WholeChannels : mods'[c][ch] = Desired(c)[ch]
    BY <1>3, <1>4, <1>5, <1>6, DeltaType
  <1> QED
    BY <1>1, <1>7, DesiredStands DEF Current, Right

LEMMA StepConverges ==
  ASSUME RecordInv, [Next]_vars, NEW c \in Characters
  PROVE  Converges(c)
  <1> SUFFICES ASSUME Undisturbed(c), Current(c), ~FinishRecalculation(c)
               PROVE  Current(c)' /\ (Right(c) => Right(c)')
    BY FinishMakesRight DEF Converges
  <1> USE StatBonusAssumption
  <1>1. DOMAIN reading = Characters /\ mods \in [Characters -> [Channels -> Int]]
    BY DEF RecordInv, TypeOK
  <1>2. mods'[c] = mods[c]
    <2>1. CASE LuaCommit
      BY <2>1 DEF LuaCommit, BuyMastery, BuyTalent, Attune, InvestSink, Unread, players
    <2>2. ASSUME NEW d \in Characters, OnPlayerLogin(d) PROVE mods'[c] = mods[c]
      BY <1>1, <2>2 DEF OnPlayerLogin, Undisturbed
    <2>3. ASSUME NEW d \in Characters, OnPlayerLogout(d) PROVE mods'[c] = mods[c]
      <3>1. d # c
        BY <2>3 DEF OnPlayerLogout, Undisturbed, RecordInv, TypeOK
      <3> QED
        BY <1>1, <2>3, <3>1 DEF OnPlayerLogout
    <2>4. ASSUME NEW d \in Characters, FinishRecalculation(d) PROVE mods'[c] = mods[c]
      BY <1>1, <2>4 DEF FinishRecalculation
    <2>5. CASE OnShutdown
      BY <2>5 DEF OnShutdown, Undisturbed
    <2> QED
      BY <2>1, <2>2, <2>3, <2>4, <2>5
      DEF Next, OnPlayerLevelChanged, Teleport, RecheckPlayer, OnAfterConfigLoad, OnUpdate,
          vars, players
  <1>3. reading'[c] = reading[c] \/ (\E why \in Reasons : StartRecalculation(c, why))
    <2>1. CASE LuaCommit
      BY <2>1 DEF LuaCommit, BuyMastery, BuyTalent, Attune, InvestSink, Unread
    <2>2. ASSUME NEW d \in Characters, NEW why, StartRecalculation(d, why), d # c
          PROVE  reading'[c] = reading[c]
      BY <1>1, <2>2 DEF StartRecalculation
    <2>3. ASSUME NEW d \in Characters, OnPlayerLogin(d) \/ OnPlayerLevelChanged(d) \/ RecheckPlayer(d)
          PROVE  reading'[c] = reading[c] \/ (\E why \in Reasons : StartRecalculation(c, why))
      BY <2>2, <2>3 DEF OnPlayerLogin, OnPlayerLevelChanged, RecheckPlayer, Reasons
    <2>4. ASSUME NEW d \in Characters, FinishRecalculation(d) PROVE reading'[c] = reading[c]
      BY <1>1, <2>4 DEF FinishRecalculation
    <2> QED
      BY <2>1, <2>3, <2>4
      DEF Next, OnPlayerLogout, Teleport, OnAfterConfigLoad, OnUpdate, OnShutdown, vars
  <1>4. Current(c)'
    <2>1. CASE reading'[c] = reading[c]
      BY <2>1 DEF Current, Undisturbed, database
    <2>2. ASSUME NEW why \in Reasons, StartRecalculation(c, why) PROVE Current(c)'
      BY <1>1, <2>2 DEF StartRecalculation, Current, Undisturbed, database
    <2> QED
      BY <1>3, <2>1, <2>2
  <1>5. Right(c) => Right(c)'
    BY <1>2, DesiredStands DEF Right
  <1> QED
    BY <1>4, <1>5

\* The record and its type hold in every behaviour.
LEMMA RecordAlways == Spec => []RecordInv
  BY InitRecord, StepRecord, PTL DEF Spec

\* What BonusConverges rests on besides time. While nothing is bought and a player
\* stays online at one level, a recalculation that has read the database of now keeps
\* it current, the step that finishes it brings the modifiers to exactly what the
\* database calls for, and no step of any player or timer spoils them afterwards.
THEOREM RecalculationConverges == Spec => [][\A c \in Characters : Converges(c)]_vars
  <1>1. RecordInv /\ [Next]_vars => [\A c \in Characters : Converges(c)]_vars
    BY StepConverges
  <1> QED
    BY <1>1, RecordAlways, PTL DEF Spec

--------------------------------------------------------------------------------
(* In the channels of doubles the record is exact up to one tolerance a change.  *)

\* By how much a channel of a player is off the record.
Drift(c, ch) == mods[c][ch] - Recorded(c)[ch]

\* What a step does to the drift of a player.
DriftHeld(c) ==
    status'[c] # "offline" =>
        \A ch \in Channels :
            /\ status[c] = "offline" => Drift(c, ch)' = 0
            /\ status[c] # "offline" =>
                  /\ Drift(c, ch)' - Drift(c, ch) \in (1 - Tolerance(ch))..(Tolerance(ch) - 1)
                  /\ Drift(c, ch)' # Drift(c, ch) => FinishRecalculation(c)

LEMMA ToleranceType == \A ch \in Channels : Tolerance(ch) \in Nat \ {0}
  BY StatBonusAssumption DEF Tolerance

\* A delta that is not applied, and one that is, leave the record this far off.
LEMMA DeltaDrift ==
  ASSUME NEW a \in Amounts, NEW old \in Amounts, NEW new \in Amounts, NEW ch \in Channels
  PROVE  (EchoesApplyDelta(a, old, new)[ch] - new[ch]) - (a[ch] - old[ch])
            \in (1 - Tolerance(ch))..(Tolerance(ch) - 1)
  <1>1. a[ch] \in Int /\ old[ch] \in Int /\ new[ch] \in Int /\ Tolerance(ch) \in Nat \ {0}
    BY ToleranceType DEF Amounts
  <1>2. EchoesApplyDelta(a, old, new)[ch]
          = IF new[ch] - old[ch] \in (1 - Tolerance(ch))..(Tolerance(ch) - 1)
            THEN a[ch] ELSE a[ch] - old[ch] + new[ch]
    BY DEF EchoesApplyDelta
  <1> DEFINE t == Tolerance(ch)
             b == EchoesApplyDelta(a, old, new)[ch]
  <1> HIDE DEF t, b
  <1>3. t \in Nat \ {0}
    BY <1>1 DEF t
  <1>4. b = IF new[ch] - old[ch] \in (1 - t)..(t - 1) THEN a[ch] ELSE a[ch] - old[ch] + new[ch]
    BY <1>2 DEF t, b
  <1>5. (b - new[ch]) - (a[ch] - old[ch]) \in (1 - t)..(t - 1)
    BY <1>1, <1>3, <1>4
  <1> QED
    BY <1>5 DEF t, b

LEMMA StepDrift ==
  ASSUME RecordInv, [Next]_vars, NEW c \in Characters
  PROVE  DriftHeld(c)
  <1> SUFFICES ASSUME status'[c] # "offline", NEW ch \in Channels
               PROVE  /\ status[c] = "offline" => Drift(c, ch)' = 0
                      /\ status[c] # "offline" =>
                            /\ Drift(c, ch)' - Drift(c, ch)
                                  \in (1 - Tolerance(ch))..(Tolerance(ch) - 1)
                            /\ Drift(c, ch)' # Drift(c, ch) => FinishRecalculation(c)
    BY DEF DriftHeld
  <1> USE StatBonusAssumption
  <1>1. /\ mods[c] \in Amounts /\ Recorded(c) \in Amounts
        /\ DOMAIN mods = Characters /\ DOMAIN status = Characters
        /\ DOMAIN appliedByGuid = Characters
    BY DEF RecordInv, TypeOK, Recorded, Nothing, Amounts
  <1>2. Drift(c, ch) \in Int /\ Drift(c, ch) - Drift(c, ch) = 0
    BY <1>1 DEF Drift, Amounts
  <1>3. 0 \in (1 - Tolerance(ch))..(Tolerance(ch) - 1)
    BY ToleranceType
  <1>4. CASE mods'[c] = mods[c] /\ appliedByGuid'[c] = appliedByGuid[c] /\ status[c] # "offline"
    <2>1. Drift(c, ch)' = Drift(c, ch)
      BY <1>4 DEF Drift, Recorded
    <2> QED
      BY <1>2, <1>3, <1>4, <2>1
  <1>5. CASE FinishRecalculation(c) /\ status[c] # "offline"
    <2>1. PICK new \in Amounts :
              /\ mods'[c] = EchoesApplyDelta(mods[c], Recorded(c), new)
              /\ appliedByGuid'[c] = new
      <3> DEFINE new == BonusOf(c, reading[c].rank, reading[c].entries,
                                reading[c].ranks, invested[AccountOf[c]])
      <3>1. new \in Amounts
        <4>1. /\ level[c] \in Levels /\ invested[AccountOf[c]] \in [Sinks -> Points]
              /\ reading[c].why \in Reasons \union {"none"}
          BY DEF RecordInv, TypeOK
        <4>2. /\ reading[c].rank \in 0..MaxRank
              /\ reading[c].entries \in SUBSET DOMAIN Template
              /\ reading[c].ranks \in [0..4 -> 0..MaxTalent]
          BY <1>5 DEF FinishRecalculation, RecordInv, ReadingOK
        <4> QED
          BY <4>1, <4>2, BonusOfType
      <3>2. /\ mods'[c] = EchoesApplyDelta(mods[c], Recorded(c), new)
            /\ appliedByGuid'[c] = new
        BY <1>1, <1>5 DEF FinishRecalculation
      <3> QED
        BY <3>1, <3>2
    <2>2. new # NoRecord
      BY <2>1 DEF Amounts
    <2>3. Drift(c, ch)' = EchoesApplyDelta(mods[c], Recorded(c), new)[ch] - new[ch]
      BY <2>1, <2>2 DEF Drift, Recorded
    <2> QED
      BY <1>1, <1>5, <2>1, <2>3, DeltaDrift DEF Drift
  <1>6. CASE OnPlayerLogin(c)
    <2>1. /\ status[c] = "offline" /\ mods'[c] = Nothing /\ appliedByGuid'[c] = NoRecord
      BY <1>1, <1>6 DEF OnPlayerLogin, RecordInv, OfflineUnrecorded
    <2> QED
      BY <2>1 DEF Drift, Recorded, Nothing
  <1>7. CASE ~OnPlayerLogin(c) /\ ~FinishRecalculation(c)
    <2>1. mods'[c] = mods[c] /\ appliedByGuid'[c] = appliedByGuid[c] /\ status[c] # "offline"
      <3>1. CASE LuaCommit
        BY <3>1 DEF LuaCommit, BuyMastery, BuyTalent, Attune, InvestSink, Unread, players
      <3>2. ASSUME NEW d \in Characters, d # c, OnPlayerLogin(d)
            PROVE  mods'[c] = mods[c] /\ appliedByGuid'[c] = appliedByGuid[c] /\ status[c] # "offline"
        BY <1>1, <3>2 DEF OnPlayerLogin
      <3>3. ASSUME NEW d \in Characters, OnPlayerLogout(d)
            PROVE  mods'[c] = mods[c] /\ appliedByGuid'[c] = appliedByGuid[c] /\ status[c] # "offline"
        <4>1. d # c
          BY <1>1, <3>3 DEF OnPlayerLogout
        <4> QED
          BY <1>1, <3>3, <4>1 DEF OnPlayerLogout
      <3>4. ASSUME NEW d \in Characters, d # c, FinishRecalculation(d)
            PROVE  mods'[c] = mods[c] /\ appliedByGuid'[c] = appliedByGuid[c] /\ status[c] # "offline"
        BY <1>1, <3>4 DEF FinishRecalculation
      <3>5. ASSUME NEW d \in Characters,
                   OnPlayerLevelChanged(d) \/ Teleport(d) \/ RecheckPlayer(d)
            PROVE  mods'[c] = mods[c] /\ appliedByGuid'[c] = appliedByGuid[c] /\ status[c] # "offline"
        BY <1>1, <3>5 DEF OnPlayerLevelChanged, Teleport, RecheckPlayer, players
      <3>6. CASE OnShutdown
        BY <3>6 DEF OnShutdown
      <3>7. CASE OnAfterConfigLoad \/ OnUpdate \/ UNCHANGED vars
        BY <3>7 DEF OnAfterConfigLoad, OnUpdate, vars, players
      <3> QED
        BY <1>7, <3>1, <3>2, <3>3, <3>4, <3>5, <3>6, <3>7 DEF Next
    <2> QED
      BY <1>4, <2>1
  <1>8. FinishRecalculation(c) => status[c] # "offline"
    BY DEF FinishRecalculation, RecordInv, ReadingOK
  <1> QED
    BY <1>5, <1>6, <1>7, <1>8

\* ModifiersAreTheRecord for the doubles, which EchoesApplyDelta leaves alone when they
\* change by less than its tolerance while the record is overwritten all the same: a
\* login starts without any drift from the record, nothing but the end of a
\* recalculation of that very player changes it, and none by a whole tolerance.
THEOREM DriftWithinTolerance == Spec => [][\A c \in Characters : DriftHeld(c)]_vars
  <1>1. RecordInv /\ [Next]_vars => [\A c \in Characters : DriftHeld(c)]_vars
    BY StepDrift
  <1> QED
    BY <1>1, RecordAlways, PTL DEF Spec
================================================================================
