--------------------------- MODULE MCDissolution ---------------------------
(* Instances of Dissolution for TLC. *)
EXTENDS Dissolution, FiniteSets

CONSTANTS c1, c2, acc, sword, shield

OneAccount == [c \in Char |-> acc]
EssenceDef == [i \in Item |-> 3]
GoldDef == [i \in Item |-> 2]
ResidueDef == [i \in Item |-> 1]
\* c1 carries two swords, whose template it has attuned.  c2 was upgraded from an older
\* build while its shield was destroyed and not yet paid for.
AttunedDef == {<<c1, sword>>}
OlderDef == {<<c2, shield>>}
CopiesDef == [c \in Char |-> [i \in Item |-> IF i = sword /\ c = c1 THEN 2 ELSE 0]]

\* Only c1 has a sword, and one; c2 has the row of its shield.
OneSword == [c \in Char |-> [i \in Item |-> IF i = sword /\ c = c1 THEN 1 ELSE 0]]

\* One fault of each of these kinds.
OneOf(kinds) == [kind \in FaultKind |-> IF kind \in kinds THEN 1 ELSE 0]

OneOfEach == OneOf(FaultKind)
\* A run suffers a crash and two other kinds of faults at most.
TwoFaults == Cardinality({kind \in FaultKind \ {"crash"} : faults[kind] > 0}) <= 2
Reported == OneOf({"crash", "write", "call"})
OneCrash == OneOf({"crash"})
OneCall == OneOf({"call"})
OneSilent == OneOf({"silent"})
=============================================================================
