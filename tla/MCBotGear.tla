------------------------------- MODULE MCBotGear -------------------------------
(* Instances of BotGear for TLC: a sword worth keeping, a slightly better one    *)
(* and one that is clearly better; and, for the run with copies, two swords of   *)
(* one template beside the better one.                                           *)
EXTENDS BotGear, TLC
CONSTANTS i1, i2, i3, plain, better, best

EachItsOwn == (i1 :> plain) @@ (i2 :> better) @@ (i3 :> best)
TwoCopies == (i1 :> plain) @@ (i2 :> plain) @@ (i3 :> best)
Scores == (plain :> 20) @@ (better :> 22) @@ (best :> 30)
Attunements == (plain :> 2) @@ (better :> 0) @@ (best :> 0)
AllFeatures == Features

\* What the rest of a behaviour, and a verdict on it, can depend on: not what an expired
\* entry of the cache says, and of the two histories only the shorter, and whether a read
\* has just failed.
Live == [e \in Entries |-> IF Hit(e) THEN cache[e] ELSE NotCached]
Reliable == IF knownFor < sinceFault THEN knownFor ELSE sinceFault
Distinguished == <<session, inventory, ledgers, tracker, Live, rack, clockVars,
                   Reliable, sinceFault = 0>>
================================================================================
