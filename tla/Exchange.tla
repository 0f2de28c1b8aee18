----------------------------- MODULE Exchange -----------------------------
(***************************************************************************)
(* What every purchase of the mod promises: the price and the good change  *)
(* hands in one step, at the price of the level the buyer has reached, and *)
(* apart from purchases only a death takes Essence and nothing takes       *)
(* Residue.                                                                *)
(***************************************************************************)
EXTENDS Integers

CONSTANTS
    Char, Account, AccountOf,
    Good,       \* what has levels: {"mastery", "talent", "invest", "rack"}
    MaxLevel,
    Price,      \* [Good \ {"invest"} -> [0..(MaxLevel - 1) -> [essence : Nat, residue : Nat]]]
    Catalyst,   \* [residue : Nat, yield : Nat]
    Reward,     \* a set of [essence : Nat, residue : Nat]
    TollCap

\* An investment is the account's; every other level is the character's.
Holder(c, k) == IF k = "invest" THEN AccountOf[c] ELSE c

VARIABLES aether, residue, level

vars == <<aether, residue, level>>

Init ==
    /\ aether = [c \in Char |-> 0]
    /\ residue = [a \in Account |-> 0]
    /\ level = [h \in Char \union Account |-> [k \in Good |-> 0]]

\* Rewards only add.
Grant(c, reward) ==
    /\ aether' = [aether EXCEPT ![c] = @ + reward.essence]
    /\ residue' = [residue EXCEPT ![AccountOf[c]] = @ + reward.residue]
    /\ UNCHANGED level

Toll(c, lost) ==
    /\ lost \in 1..TollCap /\ lost <= aether[c]
    /\ aether' = [aether EXCEPT ![c] = @ - lost]
    /\ UNCHANGED <<residue, level>>

Buy(c, k) ==
    LET h == Holder(c, k)  a == AccountOf[c]  n == level[h][k] IN
    /\ n < MaxLevel
    /\ aether[c] >= Price[k][n].essence /\ residue[a] >= Price[k][n].residue
    /\ aether' = [aether EXCEPT ![c] = @ - Price[k][n].essence]
    /\ residue' = [residue EXCEPT ![a] = @ - Price[k][n].residue]
    /\ level' = [level EXCEPT ![h][k] = n + 1]

\* An investment is worth what was paid for it.
Invest(c, amount) ==
    LET h == Holder(c, "invest") IN
    /\ level[h]["invest"] + amount <= MaxLevel
    /\ aether[c] >= amount
    /\ aether' = [aether EXCEPT ![c] = @ - amount]
    /\ level' = [level EXCEPT ![h]["invest"] = @ + amount]
    /\ UNCHANGED residue

\* The Catalyst turns Residue into Essence.
Convert(c) ==
    LET a == AccountOf[c] IN
    /\ residue[a] >= Catalyst.residue
    /\ residue' = [residue EXCEPT ![a] = @ - Catalyst.residue]
    /\ aether' = [aether EXCEPT ![c] = @ + Catalyst.yield]
    /\ UNCHANGED level

Next ==
    \E c \in Char :
        \/ \E reward \in Reward : Grant(c, reward)
        \/ \E lost \in 1..TollCap : Toll(c, lost)
        \/ \E k \in Good \ {"invest"} : Buy(c, k)
        \/ \E amount \in 1..MaxLevel : Invest(c, amount)
        \/ Convert(c)

Spec == Init /\ [][Next]_vars
=============================================================================
