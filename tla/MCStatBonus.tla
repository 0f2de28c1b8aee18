----------------------------- MODULE MCStatBonus -----------------------------
(* Small instances of StatBonus: one account with two characters online at    *)
(* once (an owner and an alternate played as a bot), or a single character.   *)
EXTENDS StatBonus, TLC

CONSTANTS c1, c2, a1

BothAccounts == c1 :> a1 @@ c2 :> a1
OneAccount == c1 :> a1
BothClasses == c1 :> "warrior" @@ c2 :> "priest"
OneClass == c1 :> "warrior"

\* Of Essence, 2 stands for a middling investment.
MCSaturation == [n \in Points |-> <<0, 400, 800>>[n + 1]]
MCRatingMultiplier == 10 :> 10 @@ 80 :> 25

Stats(field, value) == [f \in BonusFields |-> IF f = field THEN value ELSE 0]
MCTemplate ==
    "sword" :> [isArmor |-> FALSE, armorSubClass |-> 0,
                stats |-> Stats("weaponDps", 9)]
============================================================================
