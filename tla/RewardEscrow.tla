--------------------------- MODULE RewardEscrow ---------------------------
(***************************************************************************)
(* What a dissolution promises, with nothing said about rows, saves,       *)
(* handlers or crashes: an item is held, then escrowed against a reward,   *)
(* then paid.  The Essence and the Residue arrive together, in the step    *)
(* that ends the escrow, and every escrow ends.                            *)
(***************************************************************************)
EXTENDS Naturals

CONSTANTS Char, Account, Item, AccountOf, Essence, Residue,
          Escrowed \* the pairs <<c, i>> that start in escrow

VARIABLES stage, aether, residue

vars == <<stage, aether, residue>>

Init ==
    /\ stage = [c \in Char |-> [i \in Item |->
                  IF <<c, i>> \in Escrowed THEN "escrowed" ELSE "held"]]
    /\ aether = [c \in Char |-> 0]
    /\ residue = [a \in Account |-> 0]

\* The item is destroyed.
Deposit(c, i) ==
    /\ stage[c][i] = "held"
    /\ stage' = [stage EXCEPT ![c][i] = "escrowed"]
    /\ UNCHANGED <<aether, residue>>

\* The whole reward is paid, once.
Pay(c, i) ==
    /\ stage[c][i] = "escrowed"
    /\ stage' = [stage EXCEPT ![c][i] = "paid"]
    /\ aether' = [aether EXCEPT ![c] = @ + Essence[i]]
    /\ residue' = [residue EXCEPT ![AccountOf[c]] = @ + Residue[i]]

Next == \E c \in Char, i \in Item : Deposit(c, i) \/ Pay(c, i)

Safety == Init /\ [][Next]_vars

Spec == Safety /\ \A c \in Char, i \in Item : WF_vars(Pay(c, i))
=============================================================================
