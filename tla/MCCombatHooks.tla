---------------------------- MODULE MCCombatHooks ----------------------------
(* A small instance of CombatHooks: two characters of one account and a creature *)
(* too weak to be worth amplifying for the higher of them.                     *)
EXTENDS CombatHooks, TLC

CONSTANTS p1, p2, gray, a1

OneAccount == p1 :> a1 @@ p2 :> a1
MCLevels == p1 :> 80 @@ p2 :> 75 @@ gray :> 69

\* Of Essence, 1 stands for a small investment, of a thousand at most, and 2 for a
\* vast one.
MCSaturation == [n \in Points |-> <<0, 1, 1000>>[n + 1]]
==============================================================================
