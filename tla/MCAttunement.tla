---------------------------- MODULE MCAttunement ----------------------------
(* Instances of Attunement for TLC. *)
EXTENDS Attunement, TLC

CONSTANTS c1, acc, sword, shield

OneAccount == [c \in Char |-> acc]
Symmetry == Permutations(Item)

OneOf(kinds) == [kind \in FaultKind |-> IF kind \in kinds THEN 1 ELSE 0]
OneOfEach == OneOf(FaultKind)
OneFault == \A j, k \in FaultKind : j # k => faults[j] = 0 \/ faults[k] = 0
\* What follows a race, or a second fault, is not looked at.
Bounds == OneFault /\ raced = {}
NoFaults == OneOf({})
OneRead == OneOf({"read"})
=============================================================================
