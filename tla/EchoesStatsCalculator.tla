---------------------- MODULE EchoesStatsCalculator ----------------------
(* The pure functions of mod-echoes-stats (EchoesStatsCalculator.h): the    *)
(* bonus a character draws from the snapshots of its account, the Talent    *)
(* multipliers, and what each Aether Sink does to a bonus, a rating or a    *)
(* blow.                                                                    *)
(*                                                                          *)
(* The code computes in doubles; here a fraction is a number of thousandths *)
(* and a bonus a number of thousandths of a point, rounded down. All the    *)
(* diminishing curves share the shape ceiling * (1 - exp(-k * n)):          *)
(* Saturation[n] stands for 1 - exp(-k * n) in thousandths, rounded down,   *)
(* and is 0 for an investment that is small enough. The code's tests of a   *)
(* fraction for zero are tests of the investment: a double of that shape is *)
(* positive for every investment from 1 on.                                 *)
EXTENDS Integers, FiniteSets, FiniteSetsExt

CONSTANTS Points,                          \* Mastery ranks, Essence invested
          Saturation,                      \* [Points -> 0..1000]
          kMasteryRankCalculationCeiling

ASSUME CalculatorAssumption ==
    /\ Points \subseteq Nat
    /\ kMasteryRankCalculationCeiling \in Nat
    /\ 0..kMasteryRankCalculationCeiling \subseteq Points
    /\ Saturation \in [Points -> 0..1000]
    /\ Saturation[0] = 0
    /\ \A m, n \in Points : m <= n => Saturation[m] <= Saturation[n]

StatOrder == <<"str", "agi", "sta", "int", "spi">>   \* ap_talents.stat_index + 1
PrimaryStats == {"str", "agi", "sta", "int", "spi"}
BonusFields == PrimaryStats \union {"armor", "weaponDps"}

----------------------------------------------------------------------------
(* The curves, in thousandths.                                              *)

\* The ceiling in per cent.
SinkFraction(ceiling, invested) == (ceiling * Saturation[invested]) \div 100

EchoesSpellMitigationFraction(invested) == SinkFraction(25, invested)
EchoesFortitudeBonus(invested) == SinkFraction(50, invested)
EchoesMeleeSpellPowerBonus(invested) == SinkFraction(100, invested)
EchoesExecutePowerBonus(invested) == SinkFraction(40, invested)
EchoesArmorPenFraction(invested) == SinkFraction(30, invested)
EchoesLifeLeechFraction(invested) == SinkFraction(8, invested)

\* In hundred-thousandths: what the threshold makes of this one depends on more
\* than the thousandths.
EchoesReflectChanceFraction(invested) == 5 * Saturation[invested]

RatingCeiling == [crit_rating  |-> 15, haste_rating |-> 20,
                  dodge_rating |-> 15, parry_rating |-> 10]

EchoesRatingSinkFraction(rating, invested) ==
    SinkFraction(RatingCeiling[rating], invested)

\* multiplier: GetRatingMultiplier, in tenths of a per cent per rating point.
EchoesRatingPointsForPercent(fraction, multiplier) ==
    IF fraction <= 0 \/ multiplier <= 0 THEN 0 ELSE fraction \div multiplier

----------------------------------------------------------------------------
(* The absorption of snapshots.                                             *)

EchoesValidateMasteryRankForCalculation(rawRank) ==
    IF rawRank < 0 THEN 0
    ELSE IF rawRank > kMasteryRankCalculationCeiling
         THEN kMasteryRankCalculationCeiling ELSE rawRank

EchoesMasteryAbsorbPct(masteryRank) == 50 + SinkFraction(80, masteryRank)

\* In 71sts: nothing up to level 9, everything at level 80.
EchoesLevelAbsorbScalar(level) ==
    IF level <= 9 THEN 0 ELSE IF level - 9 > 71 THEN 71 ELSE level - 9

\* The armor subclasses a class absorbs: cloth 1, leather 2, mail 3, plate 4.
EchoesGetClassArmorRange(class) ==
    CASE class \in {"warrior", "paladin", "deathknight"} -> 3..4
      [] class \in {"hunter", "shaman"} -> 2..3
      [] class \in {"rogue", "druid"} -> 1..2
      [] class \in {"priest", "mage", "warlock"} -> {1}
      [] OTHER -> {}

EchoesSnapshotRowEligible(row, class) ==
    \/ ~row.isArmor
    \/ row.armorSubClass = 0
    \/ row.armorSubClass \in EchoesGetClassArmorRange(class)

\* The stat with the highest rank, the first one on a tie; -1 without a rank.
TalentPrimaryStat(ranks) ==
    LET best == {i \in 0..4 : /\ ranks[i] > 0
                              /\ \A j \in 0..4 : ranks[j] <= ranks[i]}
    IN  IF best = {} THEN -1 ELSE CHOOSE i \in best : \A j \in best : i <= j

\* Per cent: 12 a rank up to 3 ranks for the primary stat, 8 up to 2 others.
TalentMultiplier(ranks, i) ==
    LET AtMost(cap) == IF ranks[i] < cap THEN ranks[i] ELSE cap
    IN  IF ranks[i] <= 0 THEN 100
        ELSE IF i = TalentPrimaryStat(ranks) THEN 100 + 12 * AtMost(3)
        ELSE 100 + 8 * AtMost(2)

\* 0.85 ^ (distinct - 1), in ten-thousandths.
TalentDistinctPenalty(ranks) ==
    LET distinct == Cardinality({i \in 0..4 : ranks[i] > 0})
    IN  IF distinct <= 1 THEN 10000
        ELSE <<10000, 8500, 7225, 6141, 5220>>[distinct]

\* rows: [item entry -> snapshot row].
EchoesCalculateAbsorption(rows, masteryRank, level, class, ranks) ==
    LET absorbPct == EchoesMasteryAbsorbPct(masteryRank)
                        * EchoesLevelAbsorbScalar(level)
        eligible == {e \in DOMAIN rows : EchoesSnapshotRowEligible(rows[e], class)}
        Absorbed(field, e) == (rows[e].stats[field] * absorbPct) \div 71
        Talented(i, amount) ==
            (((amount * TalentMultiplier(ranks, i)) \div 100)
                * TalentDistinctPenalty(ranks)) \div 10000
        Contribution(field, e) ==
            IF field \in PrimaryStats
            THEN Talented((CHOOSE i \in 1..5 : StatOrder[i] = field) - 1,
                          Absorbed(field, e))
            ELSE Absorbed(field, e)
    IN  [field \in BonusFields |->
            SumFunctionOnSet([e \in eligible |-> Contribution(field, e)], eligible)]

\* bonus * (1 + fraction), on one field of it.
Multiplied(bonus, field, fraction) ==
    [bonus EXCEPT ![field] = (@ * (1000 + fraction)) \div 1000]

EchoesApplyFortitudeMultiplier(bonus, invested) ==
    Multiplied(bonus, "sta", EchoesFortitudeBonus(invested))

EchoesApplyMeleeSpellPowerMultipliers(bonus, melee, spell) ==
    Multiplied(Multiplied(bonus, "weaponDps", EchoesMeleeSpellPowerBonus(melee)),
               "int", EchoesMeleeSpellPowerBonus(spell))

\* Whole points of Attack Power from thousandths of absorbed damage per second.
EchoesWeaponDpsToAttackPower(weaponDps) ==
    IF weaponDps <= 0 THEN 0 ELSE (weaponDps * 7) \div 1000

----------------------------------------------------------------------------
(* A blow.                                                                  *)

\* Below a fifth of the victim's health, in per cent.
EchoesApplyExecutePowerBonus(damage, healthPct, invested) ==
    IF damage = 0 \/ invested <= 0 \/ healthPct >= 20 THEN damage
    ELSE damage + (damage * EchoesExecutePowerBonus(invested)) \div 1000

\* armor / (armor + 85 * levelModifier + 400), in thousandths.
EchoesArmorPenReductionFraction(armor, level) ==
    LET twiceModifier == IF level > 59 THEN 2 * level + 9 * (level - 59)
                         ELSE 2 * level
    IN  IF armor <= 0 THEN 0
        ELSE (2000 * armor) \div (2 * armor + 85 * twiceModifier + 800)

\* damage / (1 - penOfReduction), never less than damage.
EchoesApplyArmorPenBonus(damage, reduction, invested) ==
    LET pen == EchoesArmorPenFraction(invested) * reduction
        inflated == (damage * 1000000) \div (1000000 - pen)
    IN  IF damage = 0 \/ invested <= 0 \/ reduction <= 0 \/ pen >= 1000000
        THEN damage
        ELSE IF inflated > damage THEN inflated ELSE damage

EchoesComputeLifeLeechHeal(damage, invested) ==
    LET raw == (damage * EchoesLifeLeechFraction(invested)) \div 1000
    IN  IF damage = 0 \/ invested <= 0 THEN 0
        ELSE IF raw > 0 THEN raw ELSE 1

EchoesClampLifeLeechHeal(rawHeal, curHP, maxHP) ==
    IF rawHeal = 0 \/ curHP >= maxHP THEN 0
    ELSE IF rawHeal < maxHP - curHP THEN rawHeal ELSE maxHP - curHP

EchoesComputeSpellMitigationReduction(damage, invested) ==
    LET reduction == (damage * EchoesSpellMitigationFraction(invested)) \div 1000
    IN  IF damage <= 0 \/ invested <= 0 THEN 0
        ELSE IF reduction >= damage THEN damage - 1 ELSE reduction

\* In ten-thousandths of a chance, truncated: 0 for a fraction below one of them.
EchoesReflectChanceThreshold(fraction) ==
    IF fraction <= 0 THEN 0 ELSE fraction \div 10

EchoesReflectChanceRollTriggered(roll, threshold) == roll < threshold
============================================================================
