---------------------------- MODULE MCBotSpending -----------------------------
(* A small instance of BotSpending: one or two bots of one account.            *)
EXTENDS BotSpending, TLC

CONSTANTS a1

TwoPlayers == <<1, 2>>
OneAccount == [b \in Bots |-> a1]
Classes == [b \in Bots |-> IF b = 1 THEN "warrior" ELSE "mage"]
Table == << [name |-> "fortitude", classes |-> {}, weight |-> 1],
            [name |-> "melee_power", classes |-> {"warrior"}, weight |-> 2] >>
Tiers == << [essence |-> 1, residue |-> 0], [essence |-> 0, residue |-> 1] >>
Costs == [n \in 0..MaxRank |-> 1 + n]
TheCatalyst == [cost |-> 1, reward |-> 3]
================================================================================
