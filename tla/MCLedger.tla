------------------------------ MODULE MCLedger ------------------------------
(* Instances of Ledger for TLC. *)
EXTENDS Ledger, TLC

CONSTANTS c1, c2, acc

OneAccount == [c \in Char |-> acc]
Symmetry == Permutations(Char)

\* The Rack's first tier is paid in Essence and its second in Residue.
PriceDef == [k \in Good \ {"invest"} |-> [n \in 0..(MaxLevel - 1) |->
    IF k = "rack" /\ n = 1 THEN [essence |-> 0, residue |-> 1]
    ELSE [essence |-> IF k \in {"mastery", "rack"} THEN n + 1 ELSE 2, residue |-> 0]]]
CatalystDef == [residue |-> 1, yield |-> 1]
RewardDef == {[essence |-> 1, residue |-> 0], [essence |-> 2, residue |-> 1]}

OneOf(kinds) == [kind \in FaultKind |-> IF kind \in kinds THEN 1 ELSE 0]
OneOfEach == OneOf(FaultKind)
OneFault == \A j, k \in FaultKind : j # k => faults[j] = 0 \/ faults[k] = 0
NoFaults == OneOf({})
=============================================================================
