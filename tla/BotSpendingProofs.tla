--------------------------- MODULE BotSpendingProofs ---------------------------
(* Theorems about BotSpending, for any population in any order of the map, any *)
(* prices, reserve, cooldown, budget of a pass and number of faults; at the    *)
(* end, about the rotation of the scheduler, which BotSpending implements.     *)
EXTENDS BotSpending, SequenceTheorems, FiniteSetTheorems, WellFoundedInduction, TLAPS

-----------------------------------------------------------------------------
(* The positions of a pass.                                                  *)

LEMMA OrderFacts ==
  /\ Len(Order) \in Nat /\ DOMAIN Order = 1..Len(Order)
  /\ \A i \in DOMAIN Order : Order[i] \in Guids /\ Order[i] \in Nat \ {0}
  BY SchedulerAssumption DEF Guids, ToSet

LEMMA LessThan == \A k, i \in Nat : <<k, i>> \in OpToRel(<, Nat) <=> k < i
  <1>1. OpToRel(<, Nat) = {ss \in Nat \X Nat : ss[1] < ss[2]}
    BY DEF OpToRel
  <1> QED
    BY <1>1

LEMMA MinExists ==
  ASSUME NEW S, S \subseteq Nat, S # {}
  PROVE  Min(S) \in S /\ \A i \in S : Min(S) <= i
  <1>1. PICK i \in S : \A k \in S : ~ (<<k, i>> \in OpToRel(<, Nat))
    BY NatLessThanWellFounded, WFMin
  <1>2. \A k \in S : i <= k
    <2> TAKE k \in S
    <2>1. k \in Nat /\ i \in Nat /\ ~ (k < i)
      BY <1>1, LessThan
    <2> QED
      BY <2>1
  <1> QED
    BY <1>2 DEF Min

\* The last position is the one with the least distance to the end.
LEMMA MaxExists ==
  ASSUME NEW n \in Nat, NEW S, S \subseteq 1..n, S # {}
  PROVE  Max(S) \in S /\ \A k \in S : Max(S) >= k
  <1> DEFINE toEnd == {n - i : i \in S}
  <1>1. toEnd \subseteq Nat /\ toEnd # {}
    <2>1. \A i \in S : n - i \in Nat
      OBVIOUS
    <2>2. PICK i \in S : TRUE
      OBVIOUS
    <2>3. n - i \in toEnd
      OBVIOUS
    <2> QED
      BY <2>1, <2>3
  <1>2. Min(toEnd) \in toEnd /\ \A d \in toEnd : Min(toEnd) <= d
    BY <1>1, MinExists
  <1>3. PICK i \in S : Min(toEnd) = n - i
    BY <1>2
  <1>4. \A k \in S : i >= k
    <2> TAKE k \in S
    <2>1. n - i <= n - k
      BY <1>2, <1>3
    <2> QED
      BY <2>1
  <1> QED
    BY <1>4 DEF Max

-----------------------------------------------------------------------------
(* The inductive invariant.                                                  *)

Tasks == [at : Phases, bot : Bots \union {NoBot}, balance : Nat, buys : Purchases,
          cost : Nat, rackCost : Nat, expectedResidue : Nat, expectedEssence : Nat,
          bought : SUBSET Purchases]
Places == {i \in DOMAIN Order : Order[i] \in Bots}

TaskOK == /\ task \in Tasks
          /\ task.at = "idle" <=> task.bot = NoBot
TablesOK == /\ aether \in [Bots -> Nat] /\ mastery \in [Bots -> 0..MaxRank]
            /\ tier \in [Bots -> 0..Len(ExpandTiers)]
            /\ residue \in [Accounts -> Nat]
            /\ invested \in [Accounts -> [Categories -> Nat]]
LeasesOK == /\ lease \in [Bots -> [Resources -> 0..Cooldown]]
            /\ repeat \in [Bots -> [Resources -> [age : 0..Cooldown, known : BOOLEAN]]]
WorldOK == SchedulerTypeOK /\ loginPending \subseteq inWorld /\ queue \subseteq Places

\* Until something is bought, the balance the visit started from is still there:
\* others only add to it.
Open == {"sink", "mastery", "rack", "residue", "catalyst", "execute"}
BalanceStands ==
    /\ task.at \notin {"idle", "answer"} => task.bought = {}
    /\ task.at \in Open => aether[task.bot] >= task.balance

\* A tier of the bot's Rack that Residue buys.
RackPending(b) == tier[b] # Len(ExpandTiers) /\ ExpandTiers[tier[b] + 1].residue > 0

RackSeen == task.at = "catalyst" =>
    IF task.rackCost > 0 THEN RackPending(task.bot) ELSE ~RackPending(task.bot)

\* What was decided about a purchase still holds when it is executed.
Decided == task.at = "execute" =>
    /\ task.buys # "none"
    /\ lease[task.bot][ResourceOf[task.buys]] = Cooldown
    /\ task.buys \in {"sink", "mastery"} =>
          task.cost <= MaxSpend /\ task.balance - task.cost >= Reserve
    /\ task.buys = "mastery" => task.cost = MasteryCost[mastery[task.bot]]
    /\ task.buys = "residueRack" =>
          task.cost <= task.expectedResidue /\ RackPending(task.bot)
    /\ task.buys = "catalyst" =>
          Catalyst.cost <= task.expectedResidue /\ ~RackPending(task.bot)

AwaitsAnswer == task.at = "answer" =>
    /\ task.buys # "none" /\ task.bought = {task.buys}
    /\ aether[task.bot] >= task.balance - MaxSpend
    /\ repeat[task.bot][ResourceOf[task.buys]] = [age |-> 0, known |-> FALSE]

\* A lease is as old as the purchase the bot knows of.
KnownIsLeased ==
    \A b \in Bots, r \in Resources :
        repeat[b][r].known => lease[b][r] = repeat[b][r].age

VisitInv == BalanceStands /\ RackSeen /\ Decided /\ AwaitsAnswer
Inv == TaskOK /\ TablesOK /\ LeasesOK /\ WorldOK /\ VisitInv /\ KnownIsLeased

LEMMA InvTypes == Inv => SpendingTypeOK
  BY DEF Inv, TaskOK, TablesOK, LeasesOK, WorldOK, SpendingTypeOK, Tasks, Places

-----------------------------------------------------------------------------
(* What the steps have in common.                                            *)

\* Between two visits nothing is promised.
LEMMA AtStart ==
  ASSUME task'.at \in {"idle", "snapshot"}, task'.bought = {}
  PROVE  VisitInv'
  BY DEF VisitInv, BalanceStands, RackSeen, Decided, AwaitsAnswer, Open

LEMMA StartOK ==
  ASSUME NEW b \in Bots, task' = Start(b)
  PROVE  TaskOK' /\ VisitInv'
  <1>1. NoTask \in Tasks /\ NoTask.bought = {}
    BY DEF NoTask, Tasks, Phases, Purchases
  <1>3. /\ Start(b) \in Tasks
        /\ Start(b).at = "snapshot" /\ Start(b).bot = b /\ Start(b).bought = {}
    <2> HIDE DEF NoTask
    <2> QED
      BY <1>1 DEF Start, Tasks, Phases
  <1>2. b # NoBot
    BY SpendingAssumption DEF Bots
  <1> QED
    BY <1>2, <1>3, AtStart DEF TaskOK

LEMMA IdleOK == task' = NoTask => TaskOK' /\ VisitInv'
  BY AtStart DEF NoTask, TaskOK, Tasks, Phases, Purchases

LEMMA VisitNextOK ==
  ASSUME NEW rest, rest \subseteq Places, VisitNext(rest, NoTask)
  PROVE  TaskOK' /\ VisitInv' /\ queue' \subseteq Places
  <1>1. CASE rest = {}
    BY <1>1, IdleOK DEF VisitNext
  <1>2. CASE rest # {}
    <2>1. Min(rest) \in rest
      BY <1>2, MinExists, OrderFacts DEF Places
    <2>2. Order[Min(rest)] \in Bots /\ task' = Start(Order[Min(rest)])
      BY <1>2, <2>1 DEF VisitNext, Places
    <2> QED
      BY <1>2, <2>2, StartOK DEF VisitNext
  <1> QED
    BY <1>1, <1>2

LEMMA FinishOK ==
  ASSUME WorldOK, Finish, UNCHANGED <<schedVars, loginPending>>
  PROVE  TaskOK' /\ VisitInv' /\ WorldOK'
  BY VisitNextOK DEF Finish, WorldOK, SchedulerTypeOK, schedVars

\* A visit that ends without buying anything.
LEMMA GivesUp ==
  ASSUME Inv, Finish, UNCHANGED <<schedVars, loginPending, tables, lease, repeat>>
  PROVE  Inv'
  BY FinishOK DEF Inv, TablesOK, LeasesOK, KnownIsLeased, tables

\* A step within a visit, before anything is bought.
LEMMA GoesOn ==
  ASSUME Inv, TaskOK', VisitInv',
         UNCHANGED <<schedVars, loginPending, queue, tables, lease, repeat>>
  PROVE  Inv'
  BY DEF Inv, TablesOK, LeasesOK, KnownIsLeased, tables, WorldOK, SchedulerTypeOK, schedVars

LEMMA BotFacts ==
  ASSUME Inv, task.at # "idle"
  PROVE  /\ task.bot \in Bots /\ AccountOf[task.bot] \in Accounts
         /\ aether[task.bot] \in Nat /\ residue[AccountOf[task.bot]] \in Nat
         /\ mastery[task.bot] \in 0..MaxRank /\ tier[task.bot] \in 0..Len(ExpandTiers)
         /\ MasteryCost[mastery[task.bot]] \in Nat \ {0}
         /\ MaxSpend \in Nat /\ Reserve \in Nat /\ Cooldown \in Nat
         /\ \A r \in Resources : lease[task.bot][r] \in 0..Cooldown
  <1>1. task.bot \in Bots
    BY DEF Inv, TaskOK, Tasks
  <1> QED
    BY <1>1, SpendingAssumption DEF Inv, TablesOK, LeasesOK

-----------------------------------------------------------------------------
(* A visit: deciding.                                                        *)

LEMMA SnapshotOK == Inv /\ GetProgressionSnapshot => Inv'
  <1> SUFFICES ASSUME Inv, GetProgressionSnapshot PROVE Inv'
    OBVIOUS
  <1> USE DEF GetProgressionSnapshot, UnchangedOutside
  <1>1. CASE Finish
    BY <1>1, GivesUp
  <1>2. CASE /\ task' = [task EXCEPT !.at = "sink", !.balance = aether[task.bot]]
             /\ UNCHANGED queue
    <2>1. task \in Tasks /\ task.at = "snapshot" /\ task.bot # NoBot
      BY DEF Inv, TaskOK
    <2>2. aether[task.bot] \in Nat
      BY <2>1, BotFacts
    <2>3. TaskOK' /\ task'.at = "sink" /\ task'.bought = {}
          /\ task'.bot = task.bot /\ task'.balance = aether[task.bot]
      BY <1>2, <2>1, <2>2 DEF TaskOK, Tasks, Phases, Inv, VisitInv, BalanceStands
    <2>4. VisitInv'
      BY <2>2, <2>3 DEF tables, VisitInv, BalanceStands, RackSeen, Decided, AwaitsAnswer
    <2> QED
      BY <1>2, <2>3, <2>4, GoesOn
  <1> QED
    BY <1>1, <1>2

\* A candidate that passes the budget goes to execution, any other passes the
\* turn on.
LEMMA CandidateOK ==
  ASSUME Inv, NEW phase \in {"sink", "mastery", "rack"},
         NEW next \in {"mastery", "rack", "residue"},
         NEW buys \in {"sink", "mastery", "rack"}, NEW offered, NEW cost,
         offered => cost \in Nat,
         buys = "mastery" => cost = MasteryCost[mastery[task.bot]],
         Candidate(phase, next, offered, buys, cost)
  PROVE  Inv'
  <1>1. /\ task \in Tasks /\ task.at = phase /\ task.bot # NoBot
        /\ task.bought = {} /\ aether[task.bot] >= task.balance
    BY DEF Candidate, Inv, TaskOK, VisitInv, BalanceStands, Open
  <1>2. task.balance \in Nat /\ aether[task.bot] \in Nat /\ Cooldown \in Nat
        /\ \A r \in Resources : lease[task.bot][r] \in 0..Cooldown
    BY <1>1, BotFacts DEF Tasks
  <1>3. CASE Goto(next)
    <2>1. TaskOK' /\ task'.at = next /\ task'.bot = task.bot
          /\ task'.bought = {} /\ task'.balance = task.balance
      BY <1>1, <1>3 DEF Goto, TaskOK, Tasks, Phases
    <2>2. VisitInv'
      BY <1>1, <1>2, <2>1
         DEF Candidate, tables, VisitInv, BalanceStands, RackSeen, Decided, AwaitsAnswer
    <2> QED
      BY <2>1, <2>2, GoesOn DEF Candidate, UnchangedOutside
  <1>4. CASE /\ offered /\ EligibleToSpend(task.balance, cost,
                                           lease[task.bot][ResourceOf[buys]])
             /\ Execute(buys, cost)
    <2>1. TaskOK' /\ task'.at = "execute" /\ task'.bot = task.bot
          /\ task'.buys = buys /\ task'.cost = cost
          /\ task'.bought = {} /\ task'.balance = task.balance
      BY <1>1, <1>4 DEF Execute, TaskOK, Tasks, Phases, Purchases
    <2>2. ResourceOf[buys] \in Resources
      BY DEF ResourceOf, Resources
    <2>3. /\ lease[task.bot][ResourceOf[buys]] = Cooldown
          /\ cost <= MaxSpend /\ task.balance - cost >= Reserve
      BY <1>2, <1>4, <2>2 DEF EligibleToSpend
    <2>4. VisitInv'
      BY <1>1, <1>2, <2>1, <2>3
         DEF Candidate, tables, VisitInv, BalanceStands, RackSeen, Decided, AwaitsAnswer
    <2> QED
      BY <2>1, <2>4, GoesOn DEF Candidate, UnchangedOutside
  <1> QED
    BY <1>3, <1>4 DEF Candidate

LEMMA SinkOK == Inv /\ PreviewSinkInvest => Inv'
  BY CandidateOK, SpendingAssumption DEF PreviewSinkInvest

LEMMA MasteryOK == Inv /\ PreviewMasteryPurchase => Inv'
  <1> SUFFICES ASSUME Inv, PreviewMasteryPurchase PROVE Inv'
    OBVIOUS
  <1>1. MasteryCost[mastery[task.bot]] \in Nat
    BY BotFacts DEF PreviewMasteryPurchase, Candidate
  <1> QED
    BY <1>1, CandidateOK DEF PreviewMasteryPurchase

LEMMA TierFacts ==
  ASSUME NEW b \in Bots, TablesOK, ~AtMaxCapacity(b)
  PROVE  /\ tier[b] + 1 \in DOMAIN ExpandTiers /\ NextTier(b) = ExpandTiers[tier[b] + 1]
         /\ NextTier(b).essence \in Nat /\ NextTier(b).residue \in Nat
         /\ NextTier(b).essence = 0 <=> NextTier(b).residue # 0
  <1>1. tier[b] + 1 \in DOMAIN ExpandTiers
    BY SpendingAssumption, LenProperties DEF TablesOK, AtMaxCapacity
  <1>2. ExpandTiers[tier[b] + 1] \in [essence : Nat, residue : Nat]
    <2>1. DOMAIN ExpandTiers = 1..Len(ExpandTiers)
      BY SpendingAssumption, LenProperties
    <2> QED
      BY <1>1, <2>1, ElementOfSeq, SpendingAssumption
  <1> QED
    BY <1>1, <1>2, SpendingAssumption DEF NextTier

LEMMA RackOK == Inv /\ PreviewRackExpand => Inv'
  <1> SUFFICES ASSUME Inv, PreviewRackExpand PROVE Inv'
    OBVIOUS
  <1> DEFINE offered == /\ ~AtMaxCapacity(task.bot)
                        /\ NextTier(task.bot).essence > 0
                        /\ NextTier(task.bot).residue = 0
             cost == IF offered THEN NextTier(task.bot).essence ELSE 0
  <1>1. Candidate("rack", "residue", offered, "rack", cost)
    BY DEF PreviewRackExpand
  <1>2. task.bot \in Bots /\ TablesOK
    BY <1>1, BotFacts DEF Candidate, Inv
  <1>3. offered => cost \in Nat
    BY <1>2, TierFacts
  <1> HIDE DEF offered, cost
  <1> QED
    BY <1>1, <1>3, CandidateOK

\* Candidate 4: the Rack's price is seen, or the visit ends.
LEMMA ResidueRackOK == Inv /\ PreviewResidueRackExpand => Inv'
  <1> SUFFICES ASSUME Inv, PreviewResidueRackExpand PROVE Inv'
    OBVIOUS
  <1> DEFINE pending == /\ ~AtMaxCapacity(task.bot)
                        /\ NextTier(task.bot).essence = 0
                        /\ NextTier(task.bot).residue > 0
             price == IF pending THEN NextTier(task.bot).residue ELSE 0
  <1>1. CASE Finish
    BY <1>1, GivesUp DEF PreviewResidueRackExpand, UnchangedOutside
  <1>2. CASE /\ task' = [task EXCEPT !.at = "catalyst", !.rackCost = price,
                                     !.expectedResidue = residue[AccountOf[task.bot]]]
             /\ UNCHANGED queue
    <2>1. task \in Tasks /\ task.at = "residue" /\ task.bot \in Bots /\ TablesOK
          /\ residue[AccountOf[task.bot]] \in Nat /\ task.bot # NoBot
          /\ task.bought = {} /\ aether[task.bot] >= task.balance
      BY BotFacts DEF PreviewResidueRackExpand, Inv, TaskOK, VisitInv, BalanceStands, Open
    <2>2. price \in Nat /\ (price > 0 <=> RackPending(task.bot))
      BY <2>1, TierFacts DEF RackPending, AtMaxCapacity, NextTier
    <2> HIDE DEF price
    <2>3. TaskOK' /\ task'.at = "catalyst" /\ task'.bot = task.bot /\ task'.rackCost = price
          /\ task'.bought = {} /\ task'.balance = task.balance
      BY <1>2, <2>1, <2>2 DEF TaskOK, Tasks, Phases
    <2>4. VisitInv'
      BY <2>1, <2>2, <2>3
         DEF PreviewResidueRackExpand, tables, VisitInv, BalanceStands, RackSeen, RackPending,
             Decided, AwaitsAnswer
    <2> QED
      BY <1>2, <2>3, <2>4, GoesOn DEF PreviewResidueRackExpand, UnchangedOutside
  <1> QED
    BY <1>1, <1>2 DEF PreviewResidueRackExpand

LEMMA CatalystOK == Inv /\ PreviewCatalyst => Inv'
  <1> SUFFICES ASSUME Inv, PreviewCatalyst PROVE Inv'
    OBVIOUS
  <1> DEFINE seen == residue[AccountOf[task.bot]]
  <1>1. PICK ok \in BOOLEAN :
          LET action == ResidueAction(task.rackCost, task.expectedResidue, ok, seen)
          IN  IF action = "none" \/ lease[task.bot]["ResidueSpending"] < Cooldown
              THEN Finish
              ELSE /\ task' = [task EXCEPT !.at = "execute", !.buys = action,
                        !.cost = IF action = "catalyst" THEN Catalyst.cost ELSE task.rackCost,
                        !.expectedResidue = IF action = "catalyst" THEN seen ELSE @,
                        !.expectedEssence = aether[task.bot]]
                   /\ UNCHANGED queue
    BY DEF PreviewCatalyst
  <1> DEFINE action == ResidueAction(task.rackCost, task.expectedResidue, ok, seen)
  <1>2. CASE action = "none" \/ lease[task.bot]["ResidueSpending"] < Cooldown
    BY <1>1, <1>2, GivesUp DEF PreviewCatalyst, UnchangedOutside
  <1>3. CASE ~ (action = "none" \/ lease[task.bot]["ResidueSpending"] < Cooldown)
    <2>1. /\ task \in Tasks /\ task.at = "catalyst" /\ task.bot \in Bots /\ task.bot # NoBot
          /\ seen \in Nat /\ aether[task.bot] \in Nat /\ Cooldown \in Nat
          /\ \A r \in Resources : lease[task.bot][r] \in 0..Cooldown
          /\ task.balance \in Nat /\ task.bought = {} /\ aether[task.bot] >= task.balance
      BY BotFacts DEF Tasks, PreviewCatalyst, Inv, TaskOK, VisitInv, BalanceStands, Open
    <2>2. IF task.rackCost > 0 THEN RackPending(task.bot) ELSE ~RackPending(task.bot)
      BY <2>1 DEF Inv, VisitInv, RackSeen
    <2>3. /\ action \in {"residueRack", "catalyst"}
          /\ action = "residueRack" => task.rackCost <= task.expectedResidue
                                       /\ RackPending(task.bot)
          /\ action = "catalyst" => Catalyst.cost <= seen /\ ~RackPending(task.bot)
      BY <1>3, <2>1, <2>2, SpendingAssumption DEF ResidueAction, Tasks
    <2> HIDE DEF action, seen
    <2>4. /\ TaskOK' /\ task'.at = "execute" /\ task'.bot = task.bot /\ task'.buys = action
          /\ task'.bought = {} /\ task'.balance = task.balance
          /\ action = "residueRack" => /\ task'.cost = task.rackCost
                                       /\ task'.expectedResidue = task.expectedResidue
          /\ action = "catalyst" => task'.expectedResidue = seen
      <3>1. task' = [task EXCEPT !.at = "execute", !.buys = action,
                        !.cost = IF action = "catalyst" THEN Catalyst.cost ELSE task.rackCost,
                        !.expectedResidue = IF action = "catalyst" THEN seen ELSE @,
                        !.expectedEssence = aether[task.bot]]
        BY <1>1, <1>3 DEF action
      <3>2. Catalyst.cost \in Nat
        BY SpendingAssumption
      <3>3. CASE action = "residueRack"
        <4>1. task' = [task EXCEPT !.at = "execute", !.buys = "residueRack",
                          !.cost = task.rackCost, !.expectedEssence = aether[task.bot]]
          BY <2>1, <3>1, <3>3 DEF Tasks
        <4>2. task' \in Tasks
          BY <2>1, <4>1 DEF Tasks, Phases, Purchases
        <4>3. /\ task'.at = "execute" /\ task'.bot = task.bot /\ task'.buys = "residueRack"
              /\ task'.bought = task.bought /\ task'.balance = task.balance
              /\ task'.cost = task.rackCost /\ task'.expectedResidue = task.expectedResidue
          BY <2>1, <4>1 DEF Tasks
        <4> QED
          BY <2>1, <3>3, <4>2, <4>3 DEF TaskOK
      <3>4. CASE action = "catalyst"
        <4>1. task' = [task EXCEPT !.at = "execute", !.buys = "catalyst",
                          !.cost = Catalyst.cost, !.expectedResidue = seen,
                          !.expectedEssence = aether[task.bot]]
          BY <3>1, <3>4
        <4>2. task' \in Tasks
          BY <2>1, <3>2, <4>1 DEF Tasks, Phases, Purchases
        <4>3. /\ task'.at = "execute" /\ task'.bot = task.bot /\ task'.buys = "catalyst"
              /\ task'.bought = task.bought /\ task'.balance = task.balance
              /\ task'.expectedResidue = seen
          BY <2>1, <4>1 DEF Tasks
        <4> QED
          BY <2>1, <3>4, <4>2, <4>3 DEF TaskOK
      <3> QED
        BY <2>3, <3>3, <3>4
    <2>5. lease[task.bot]["ResidueSpending"] = Cooldown
          /\ ResourceOf[action] = "ResidueSpending"
      BY <1>3, <2>1, <2>3 DEF Resources, ResourceOf
    <2>6. UNCHANGED <<tables, lease, repeat>>
      BY DEF PreviewCatalyst
    <2>7. BalanceStands' /\ RackSeen' /\ AwaitsAnswer'
      <3>1. aether'[task'.bot] >= task'.balance
        BY <2>1, <2>4, <2>6 DEF tables
      <3> QED
        BY <2>4, <3>1 DEF BalanceStands, RackSeen, AwaitsAnswer
    <2>8. RackPending(task.bot)' <=> RackPending(task.bot)
      BY <2>4, <2>6 DEF tables, RackPending
    <2>9. Decided'
      <3>1. lease'[task'.bot][ResourceOf[task'.buys]] = Cooldown
        BY <2>4, <2>5, <2>6
      <3>2. CASE action = "residueRack"
        BY <2>3, <2>4, <2>8, <3>1, <3>2 DEF Decided
      <3>3. CASE action = "catalyst"
        BY <2>3, <2>4, <2>8, <3>1, <3>3 DEF Decided
      <3> QED
        BY <2>3, <3>2, <3>3
    <2>10. VisitInv'
      BY <2>7, <2>9 DEF VisitInv
    <2> QED
      BY <1>1, <1>3, <2>4, <2>10, GoesOn DEF PreviewCatalyst, UnchangedOutside, action, seen
  <1> QED
    BY <1>2, <1>3

\* A refusal ends the visit.
LEMMA RefusedOK == Inv /\ Refused => Inv'
  BY GivesUp DEF Refused, EndAttempt, UnchangedOutside

-----------------------------------------------------------------------------
(* A visit: buying.                                                          *)

LEMMA ResourceFacts == \A p \in Purchases \ {"none"} : ResourceOf[p] \in Resources
  BY DEF Purchases, ResourceOf, Resources

LEMMA BoughtOK ==
  ASSUME Inv, task.at = "execute", Bought, UnchangedOutside, TablesOK',
         aether'[task.bot] >= aether[task.bot] - MaxSpend
  PROVE  Inv'
  <1> DEFINE b == task.bot
             r == ResourceOf[task.buys]
  <1>1. /\ task \in Tasks /\ b \in Bots /\ b # NoBot /\ task.bought = {}
        /\ task.balance \in Nat /\ aether[b] \in Nat /\ MaxSpend \in Nat
        /\ aether[b] >= task.balance /\ task.buys \in Purchases \ {"none"}
    BY BotFacts DEF Inv, TaskOK, Tasks, VisitInv, BalanceStands, Decided, Open
  <1>2. aether'[b] \in Nat /\ residue'[AccountOf[b]] \in Nat
    BY <1>1, SpendingAssumption DEF TablesOK
  <1>3. /\ task' \in Tasks /\ task'.at = "answer" /\ task'.bot = b /\ task'.buys = task.buys
        /\ task'.balance = task.balance /\ task'.bought = {task.buys}
    <2>1. task' = [task EXCEPT !.at = "answer", !.bought = @ \union {task.buys},
                               !.expectedEssence = aether'[task.bot],
                               !.expectedResidue = residue'[AccountOf[task.bot]]]
      BY DEF Bought
    <2>2. task' \in Tasks
      BY <1>1, <1>2, <2>1 DEF Tasks, Phases
    <2> QED
      BY <1>1, <2>1, <2>2 DEF Tasks
  <1>4. r \in Resources
    BY <1>1, ResourceFacts
  <1>5. /\ repeat' = [repeat EXCEPT ![b][r] = [age |-> 0, known |-> FALSE]]
        /\ UNCHANGED <<queue, lease, schedVars, loginPending>>
    BY DEF Bought, UnchangedOutside
  <1> HIDE DEF b, r
  <1>6. LeasesOK
    BY DEF Inv
  <1>7. /\ repeat' \in [Bots -> [Resources -> [age : 0..Cooldown, known : BOOLEAN]]]
        /\ repeat'[b][r] = [age |-> 0, known |-> FALSE]
        /\ \A c \in Bots, q \in Resources :
              c # b \/ q # r => repeat'[c][q] = repeat[c][q]
    <2>1. [age |-> 0, known |-> FALSE] \in [age : 0..Cooldown, known : BOOLEAN]
      BY SpendingAssumption
    <2>2. repeat \in [Bots -> [Resources -> [age : 0..Cooldown, known : BOOLEAN]]]
      BY <1>6 DEF LeasesOK
    <2> QED
      BY <1>1, <1>4, <1>5, <2>1, <2>2
  <1>8. TaskOK' /\ LeasesOK'
    BY <1>1, <1>3, <1>5, <1>6, <1>7 DEF TaskOK, LeasesOK
  <1>9. WorldOK'
    BY <1>5 DEF Inv, WorldOK, SchedulerTypeOK, schedVars
  <1>10. VisitInv'
    <2>1. aether'[b] >= task.balance - MaxSpend
      BY <1>1, <1>2 DEF b
    <2>2. AwaitsAnswer'
      BY <1>1, <1>3, <1>7, <2>1 DEF AwaitsAnswer, r
    <2> QED
      BY <1>3, <2>2 DEF VisitInv, BalanceStands, RackSeen, Decided, Open
  <1>11. KnownIsLeased'
    <2> SUFFICES ASSUME NEW c \in Bots, NEW q \in Resources, repeat'[c][q].known
                 PROVE  lease'[c][q] = repeat'[c][q].age
      BY DEF KnownIsLeased
    <2>1. c # b \/ q # r
      BY <1>7
    <2>2. repeat'[c][q] = repeat[c][q]
      BY <1>7, <2>1
    <2> QED
      BY <1>5, <2>2 DEF Inv, KnownIsLeased
  <1> QED
    BY <1>8, <1>9, <1>10, <1>11 DEF Inv

LEMMA ExecuteSinkOK == Inv /\ ExecuteSinkInvest => Inv'
  <1> SUFFICES ASSUME Inv, ExecuteSinkInvest PROVE Inv'
    OBVIOUS
  <1>1. /\ task.at = "execute" /\ task.buys = "sink" /\ Bought /\ UnchangedOutside
        /\ aether[task.bot] >= task.cost
        /\ aether' = [aether EXCEPT ![task.bot] = @ - task.cost]
        /\ invested' = [invested EXCEPT ![AccountOf[task.bot]][SinkCategory(task.bot)] =
                            @ + task.cost]
        /\ UNCHANGED <<mastery, tier, residue>>
    BY DEF ExecuteSinkInvest
  <1>2. /\ task.bot \in Bots /\ aether[task.bot] \in Nat /\ MaxSpend \in Nat
        /\ AccountOf[task.bot] \in Accounts
    BY <1>1, BotFacts
  <1>3. task.cost \in Nat /\ task.cost <= MaxSpend
    BY <1>1 DEF Inv, TaskOK, Tasks, VisitInv, Decided
  <1>4. aether' \in [Bots -> Nat] /\ aether'[task.bot] = aether[task.bot] - task.cost
    BY <1>1, <1>2, <1>3 DEF Inv, TablesOK
  <1>5. invested' \in [Accounts -> [Categories -> Nat]]
    <2>1. invested \in [Accounts -> [Categories -> Nat]]
      BY DEF Inv, TablesOK
    <2> DEFINE c == SinkCategory(task.bot)
    <2> HIDE DEF c
    <2>2. invested' = [invested EXCEPT ![AccountOf[task.bot]][c] = @ + task.cost]
      BY <1>1 DEF c
    <2> DEFINE row == invested[AccountOf[task.bot]]
               credited == [row EXCEPT ![c] = @ + task.cost]
    <2>3. row \in [Categories -> Nat]
      BY <1>2, <2>1
    <2>4. credited \in [Categories -> Nat]
      <3> HIDE DEF row
      <3>1. CASE c \in Categories
        BY <1>3, <2>3, <3>1
      <3>2. CASE c \notin Categories
        BY <2>3, <3>2
      <3> QED
        BY <3>1, <3>2
    <2>5. invested' = [invested EXCEPT ![AccountOf[task.bot]] = credited]
      BY <2>2
    <2> HIDE DEF credited
    <2> QED
      BY <1>2, <2>1, <2>4, <2>5
  <1>6. TablesOK'
    BY <1>1, <1>4, <1>5 DEF Inv, TablesOK
  <1> QED
    BY <1>1, <1>2, <1>3, <1>4, <1>6, BoughtOK

LEMMA ExecuteMasteryOK == Inv /\ ExecuteMasteryPurchase => Inv'
  <1> SUFFICES ASSUME Inv, ExecuteMasteryPurchase PROVE Inv'
    OBVIOUS
  <1> DEFINE price == MasteryCost[mastery[task.bot]]
  <1>1. /\ task.at = "execute" /\ task.buys = "mastery" /\ Bought /\ UnchangedOutside
        /\ aether[task.bot] >= price
        /\ aether' = [aether EXCEPT ![task.bot] = @ - price]
        /\ mastery' = [mastery EXCEPT ![task.bot] = IF @ < MaxRank THEN @ + 1 ELSE @]
        /\ UNCHANGED <<tier, residue, invested>>
    BY DEF ExecuteMasteryPurchase
  <1>2. /\ task.bot \in Bots /\ aether[task.bot] \in Nat /\ MaxSpend \in Nat
        /\ price \in Nat /\ MaxRank \in Nat
    BY <1>1, BotFacts, SpendingAssumption
  <1>3. price <= MaxSpend
    BY <1>1 DEF Inv, VisitInv, Decided
  <1> HIDE DEF price
  <1>4. aether' \in [Bots -> Nat] /\ aether'[task.bot] = aether[task.bot] - price
    BY <1>1, <1>2 DEF Inv, TablesOK
  <1>5. mastery' \in [Bots -> 0..MaxRank]
    BY <1>1, <1>2 DEF Inv, TablesOK
  <1>6. TablesOK'
    BY <1>1, <1>4, <1>5 DEF Inv, TablesOK
  <1> QED
    BY <1>1, <1>2, <1>3, <1>4, <1>6, BoughtOK

LEMMA ExecuteResidueRackOK == Inv /\ ExecuteResidueRackExpand => Inv'
  <1> SUFFICES ASSUME Inv, ExecuteResidueRackExpand PROVE Inv'
    OBVIOUS
  <1> DEFINE a == AccountOf[task.bot]
  <1>1. /\ task.at = "execute" /\ task.buys = "residueRack" /\ Bought /\ UnchangedOutside
        /\ residue[a] = task.expectedResidue
        /\ residue' = [residue EXCEPT ![a] = @ - task.cost]
        /\ tier' = [tier EXCEPT ![task.bot] = @ + 1]
        /\ UNCHANGED <<aether, mastery, invested>>
    BY DEF ExecuteResidueRackExpand
  <1>2. /\ task.bot \in Bots /\ a \in Accounts /\ residue[a] \in Nat
        /\ aether[task.bot] \in Nat /\ MaxSpend \in Nat
    BY <1>1, BotFacts
  <1>3. task.cost \in Nat /\ task.cost <= residue[a] /\ tier[task.bot] # Len(ExpandTiers)
    BY <1>1 DEF Inv, TaskOK, Tasks, VisitInv, Decided, RackPending
  <1> HIDE DEF a
  <1>4. residue' \in [Accounts -> Nat]
    BY <1>1, <1>2, <1>3 DEF Inv, TablesOK
  <1>5. tier' \in [Bots -> 0..Len(ExpandTiers)]
    <2>1. Len(ExpandTiers) \in Nat
      BY SpendingAssumption, LenProperties
    <2> QED
      BY <1>1, <1>2, <1>3, <2>1 DEF Inv, TablesOK
  <1>6. TablesOK'
    BY <1>1, <1>4, <1>5 DEF Inv, TablesOK
  <1> QED
    BY <1>1, <1>2, <1>6, BoughtOK

LEMMA ExecuteCatalystOK == Inv /\ ExecuteCatalyst => Inv'
  <1> SUFFICES ASSUME Inv, ExecuteCatalyst PROVE Inv'
    OBVIOUS
  <1> DEFINE a == AccountOf[task.bot]
  <1>1. /\ task.at = "execute" /\ task.buys = "catalyst" /\ Bought /\ UnchangedOutside
        /\ residue[a] = task.expectedResidue
        /\ residue' = [residue EXCEPT ![a] = @ - Catalyst.cost]
        /\ aether' = [aether EXCEPT ![task.bot] = @ + Catalyst.reward]
        /\ UNCHANGED <<mastery, tier, invested>>
    BY DEF ExecuteCatalyst
  <1>2. /\ task.bot \in Bots /\ a \in Accounts /\ residue[a] \in Nat
        /\ aether[task.bot] \in Nat /\ MaxSpend \in Nat
        /\ Catalyst.cost \in Nat /\ Catalyst.reward \in Nat
    BY <1>1, BotFacts, SpendingAssumption
  <1>3. Catalyst.cost <= residue[a]
    BY <1>1 DEF Inv, VisitInv, Decided
  <1> HIDE DEF a
  <1>4. residue' \in [Accounts -> Nat]
    BY <1>1, <1>2, <1>3 DEF Inv, TablesOK
  <1>5. aether' \in [Bots -> Nat] /\ aether'[task.bot] = aether[task.bot] + Catalyst.reward
    BY <1>1, <1>2 DEF Inv, TablesOK
  <1>6. TablesOK'
    BY <1>1, <1>4, <1>5 DEF Inv, TablesOK
  <1> QED
    BY <1>1, <1>2, <1>5, <1>6, BoughtOK

\* The answer records a purchase that was verified; a failure records nothing.
LEMMA AnswerOK == Inv /\ AnswerSpend => Inv'
  <1> SUFFICES ASSUME Inv, AnswerSpend PROVE Inv'
    OBVIOUS
  <1> DEFINE b == task.bot
             r == ResourceOf[task.buys]
  <1>1. /\ Finish /\ UNCHANGED <<tables, schedVars, loginPending>>
        /\ \/ /\ lease' = [lease EXCEPT ![b][r] = 0]
              /\ repeat' = [repeat EXCEPT ![b][r].known = TRUE]
           \/ UNCHANGED <<lease, repeat>>
    BY DEF AnswerSpend, Recorded, EndAttempt, UnchangedOutside
  <1>2. CASE UNCHANGED <<lease, repeat>>
    BY <1>1, <1>2, GivesUp
  <1>3. CASE /\ lease' = [lease EXCEPT ![b][r] = 0]
             /\ repeat' = [repeat EXCEPT ![b][r].known = TRUE]
    <2>1. /\ task.at = "answer" /\ b \in Bots /\ repeat[b][r] = [age |-> 0, known |-> FALSE]
          /\ task.buys \in Purchases \ {"none"}
      BY BotFacts DEF AnswerSpend, Inv, TaskOK, Tasks, VisitInv, AwaitsAnswer
    <2>2. r \in Resources
      BY <2>1, ResourceFacts
    <2>3. LeasesOK /\ Cooldown \in Nat
      BY SpendingAssumption DEF Inv
    <2> HIDE DEF b, r
    <2> DEFINE answered == [repeat[b][r] EXCEPT !.known = TRUE]
    <2>4. /\ repeat' = [repeat EXCEPT ![b][r] = answered]
          /\ answered \in [age : 0..Cooldown, known : BOOLEAN]
          /\ answered.age = 0
      <3>1. repeat[b][r] \in [age : 0..Cooldown, known : BOOLEAN] /\ repeat[b][r].age = 0
        BY <2>1, <2>2, <2>3 DEF LeasesOK
      <3> QED
        BY <1>3, <3>1
    <2> HIDE DEF answered
    <2>5. LeasesOK'
      <3>2. lease' \in [Bots -> [Resources -> 0..Cooldown]]
        BY <1>3, <2>1, <2>2, <2>3 DEF LeasesOK
      <3>3. repeat' \in [Bots -> [Resources -> [age : 0..Cooldown, known : BOOLEAN]]]
        BY <2>1, <2>2, <2>3, <2>4 DEF LeasesOK
      <3> QED
        BY <3>2, <3>3 DEF LeasesOK
    <2>6. KnownIsLeased'
      <3> SUFFICES ASSUME NEW c \in Bots, NEW q \in Resources, repeat'[c][q].known
                   PROVE  lease'[c][q] = repeat'[c][q].age
        BY DEF KnownIsLeased
      <3>1. CASE c = b /\ q = r
        BY <1>3, <2>1, <2>2, <2>3, <2>4, <3>1 DEF LeasesOK
      <3>2. CASE c # b \/ q # r
        <4>1. lease'[c][q] = lease[c][q] /\ repeat'[c][q] = repeat[c][q]
          BY <1>3, <2>1, <2>2, <2>3, <2>4, <3>2 DEF LeasesOK
        <4> QED
          BY <4>1 DEF Inv, KnownIsLeased
      <3> QED
        BY <3>1, <3>2
    <2> QED
      BY <1>1, <2>5, <2>6, FinishOK DEF Inv, TablesOK, tables
  <1> QED
    BY <1>1, <1>2, <1>3

-----------------------------------------------------------------------------
(* The world around.                                                         *)

\* While no visit is under way, a step that starts none keeps all about it.
LEMMA QuietStep ==
  ASSUME Inv, Quiet, WorldOK', TablesOK', LeasesOK', KnownIsLeased', task' = task
  PROVE  Inv'
  <1>1. task'.at = "idle" /\ TaskOK
    BY DEF Quiet, Inv
  <1>2. TaskOK' /\ VisitInv'
    BY <1>1 DEF TaskOK, VisitInv, BalanceStands, RackSeen, Decided, AwaitsAnswer, Open
  <1> QED
    BY <1>2 DEF Inv

\* A step that leaves the tables, the leases and the history alone.
LEMMA SameTables ==
  ASSUME Inv, UNCHANGED <<tables, lease, repeat>>
  PROVE  TablesOK' /\ LeasesOK' /\ KnownIsLeased'
  BY DEF Inv, tables, TablesOK, LeasesOK, KnownIsLeased

LEMMA PopulationOK ==
  ASSUME Inv, NEW g \in Guids,
         \/ OnPlayerLogin(g) \/ OnPlayerLogout(g) \/ JoinOrLeaveParty(g)
  PROVE  Inv'
  <1> USE DEF Inv, WorldOK, SchedulerTypeOK, unchangedBySched
  <1>1. CASE OnPlayerLogin(g)
    <2>1. WorldOK'
      BY <1>1 DEF OnPlayerLogin, EnterWorld
    <2> QED
      BY <1>1, <2>1, SameTables, QuietStep DEF OnPlayerLogin
  <1>2. CASE OnPlayerLogout(g)
    <2>1. WorldOK'
      BY <1>2 DEF OnPlayerLogout, LeaveWorld
    <2> QED
      BY <1>2, <2>1, SameTables, QuietStep DEF OnPlayerLogout
  <1>3. CASE JoinOrLeaveParty(g)
    <2>1. WorldOK'
      BY <1>3 DEF JoinOrLeaveParty, ChangeMaster
    <2> QED
      BY <1>3, <2>1, SameTables, QuietStep DEF JoinOrLeaveParty
  <1> QED
    BY <1>1, <1>2, <1>3

LEMMA LoginEventOK ==
  ASSUME Inv, NEW g \in Guids, DeferredLoginReconcileEvent(g)
  PROVE  Inv'
  <1>1. WorldOK' /\ TablesOK' /\ LeasesOK' /\ KnownIsLeased'
    BY SameTables DEF DeferredLoginReconcileEvent, Inv, WorldOK, SchedulerTypeOK, schedVars
  <1>2. CASE g \in Bots
    BY <1>1, <1>2, StartOK DEF DeferredLoginReconcileEvent, Inv
  <1>3. CASE g \notin Bots
    BY <1>1, <1>3, QuietStep DEF DeferredLoginReconcileEvent
  <1> QED
    BY <1>2, <1>3

\* A pass leaves the cursor at a bot of the map, or at 0.
LEMMA PassOK == Inv /\ SchedulerPass => Inv'
  <1> SUFFICES ASSUME Inv, SchedulerPass PROVE Inv'
    OBVIOUS
  <1>1. Evaluated \subseteq Places
    BY DEF Evaluated, Considered, Autonomous, Places
  <1>2. Evaluated \subseteq 1..Len(Order) /\ Len(Order) \in Nat
    BY <1>1, OrderFacts DEF Places
  <1>3. CursorAfter(Evaluated) \in Guids \union {0}
    <2>1. CASE Evaluated = {}
      BY <2>1 DEF CursorAfter
    <2>2. CASE Evaluated # {}
      <3>1. Max(Evaluated) \in Evaluated
        BY <1>2, <2>2, MaxExists
      <3> QED
        BY <1>2, <2>2, <3>1, OrderFacts DEF CursorAfter
    <2> QED
      BY <2>1, <2>2
  <1>4. TaskOK' /\ VisitInv' /\ queue' \subseteq Places
    BY <1>1, VisitNextOK DEF SchedulerPass
  <1>5. Never \in Nat /\ Interval \in Nat
    BY SchedulerAssumption DEF Never
  <1>6. SchedulerTypeOK'
    BY <1>3, <1>5
       DEF SchedulerPass, RunProgressionSchedulerPass, Inv, WorldOK, SchedulerTypeOK
  <1>7. loginPending' \subseteq inWorld'
    BY DEF SchedulerPass, RunProgressionSchedulerPass, Inv, WorldOK
  <1> QED
    BY <1>4, <1>6, <1>7, SameTables DEF SchedulerPass, Inv, WorldOK

LEMMA OlderFacts ==
  ASSUME NEW limit \in Nat, NEW age \in 0..limit
  PROVE  Older(age, limit) \in 0..limit /\ (limit > 0 => Older(age, limit) > 0)
  BY DEF Older

\* A lease and the age of its purchase grow together.
LEMMA TickOK == Inv /\ Tick => Inv'
  <1> SUFFICES ASSUME Inv, Tick PROVE Inv'
    OBVIOUS
  <1>1. Never \in Nat /\ Interval \in Nat /\ Cooldown \in Nat
    BY SchedulerAssumption, SpendingAssumption DEF Never
  <1>2. WorldOK'
    <2>1. sincePass' \in 0..Interval
      BY <1>1, OlderFacts DEF Tick, SchedulerTick, Inv, WorldOK, SchedulerTypeOK
    <2>2. sinceCheck' \in [Guids -> 0..Never]
      BY <1>1, OlderFacts DEF Tick, SchedulerTick, Inv, WorldOK, SchedulerTypeOK
    <2> QED
      BY <2>1, <2>2 DEF Tick, SchedulerTick, Inv, WorldOK, SchedulerTypeOK
  <1>3. /\ lease' = [b \in Bots |-> [r \in Resources |-> Older(lease[b][r], Cooldown)]]
        /\ repeat' = [b \in Bots |-> [r \in Resources |->
                        [repeat[b][r] EXCEPT !.age = Older(@, Cooldown)]]]
    BY DEF Tick
  <1>4. ASSUME NEW b \in Bots, NEW r \in Resources
        PROVE  /\ lease'[b][r] = Older(lease[b][r], Cooldown)
               /\ lease'[b][r] \in 0..Cooldown
               /\ repeat'[b][r] \in [age : 0..Cooldown, known : BOOLEAN]
               /\ repeat'[b][r].age = Older(repeat[b][r].age, Cooldown)
               /\ repeat'[b][r].known = repeat[b][r].known
    <2>1. /\ lease[b][r] \in 0..Cooldown
          /\ repeat[b][r] \in [age : 0..Cooldown, known : BOOLEAN]
      BY DEF Inv, LeasesOK
    <2>2. Older(lease[b][r], Cooldown) \in 0..Cooldown
          /\ Older(repeat[b][r].age, Cooldown) \in 0..Cooldown
      BY <1>1, <2>1, OlderFacts
    <2>3. repeat'[b][r] = [repeat[b][r] EXCEPT !.age = Older(@, Cooldown)]
      BY <1>3
    <2> QED
      BY <1>3, <2>1, <2>2, <2>3
  <1>5. LeasesOK'
    <2>1. lease' \in [Bots -> [Resources -> 0..Cooldown]]
      BY <1>3, <1>4
    <2>2. repeat' \in [Bots -> [Resources -> [age : 0..Cooldown, known : BOOLEAN]]]
      BY <1>3, <1>4
    <2> QED
      BY <2>1, <2>2 DEF LeasesOK
  <1>6. KnownIsLeased'
    BY <1>4 DEF Inv, KnownIsLeased
  <1> QED
    BY <1>2, <1>5, <1>6, QuietStep DEF Tick, Inv, TablesOK, tables

\* A credit in the middle of a visit only adds to a balance.
LEMMA CreditOK == Inv /\ Credit => Inv'
  <1> SUFFICES ASSUME Inv, Credit PROVE Inv'
    OBVIOUS
  <1>0. TablesOK /\ UNCHANGED <<mastery, tier, invested>>
    BY DEF Credit, Inv
  <1>1. /\ TablesOK'
        /\ \A b \in Bots : aether[b] \in Nat /\ aether'[b] \in Nat /\ aether'[b] >= aether[b]
    <2>1. CASE \E b \in Bots : aether' = [aether EXCEPT ![b] = @ + 1] /\ UNCHANGED residue
      <3>1. PICK b \in Bots : aether' = [aether EXCEPT ![b] = @ + 1] /\ UNCHANGED residue
        BY <2>1
      <3> QED
        BY <1>0, <3>1 DEF TablesOK
    <2>2. CASE \E a \in Accounts : /\ residue' = [residue EXCEPT ![a] = @ + 1]
                                  /\ UNCHANGED aether
      <3>1. PICK a \in Accounts : /\ residue' = [residue EXCEPT ![a] = @ + 1]
                                  /\ UNCHANGED aether
        BY <2>2
      <3> QED
        BY <1>0, <3>1 DEF TablesOK
    <2> QED
      BY <2>1, <2>2 DEF Credit
  <1>2. \A b \in Bots : aether[b] \in Nat /\ aether'[b] \in Nat /\ aether'[b] >= aether[b]
    BY <1>1
  <1>3. /\ TaskOK' /\ TaskOK /\ LeasesOK' /\ WorldOK' /\ KnownIsLeased'
        /\ UNCHANGED <<task, tier, mastery, lease, repeat>>
    BY DEF Credit, Inv, TaskOK, LeasesOK, WorldOK, SchedulerTypeOK, schedVars, KnownIsLeased
  <1>4. task.at # "idle" => /\ task.bot \in Bots /\ task.balance \in Nat
                            /\ MaxSpend \in Nat
    BY <1>3, SpendingAssumption DEF TaskOK, Tasks
  <1>5. BalanceStands'
    BY <1>2, <1>3, <1>4 DEF Inv, VisitInv, BalanceStands, Open
  <1>6. AwaitsAnswer'
    BY <1>2, <1>3, <1>4 DEF Inv, VisitInv, AwaitsAnswer
  <1>7. RackSeen' /\ Decided'
    BY <1>3 DEF Inv, VisitInv, RackSeen, Decided, RackPending
  <1> QED
    BY <1>1, <1>3, <1>5, <1>6, <1>7 DEF Inv, VisitInv

LEMMA RestartOK == Inv /\ Restart => Inv'
  <1> SUFFICES ASSUME Inv, Restart PROVE Inv'
    OBVIOUS
  <1>1. TaskOK' /\ VisitInv'
    BY IdleOK DEF Restart
  <1>2. Never \in Nat /\ Interval \in Nat /\ Cooldown \in Nat
    BY SchedulerAssumption, SpendingAssumption DEF Never
  <1>3. WorldOK'
    BY <1>2 DEF Restart, OnShutdown, WorldOK, SchedulerTypeOK
  <1>4. ASSUME NEW b \in Bots, NEW r \in Resources
        PROVE  /\ repeat'[b][r] \in [age : 0..Cooldown, known : BOOLEAN]
               /\ ~repeat'[b][r].known
    <2>1. repeat'[b][r] = [repeat[b][r] EXCEPT !.known = FALSE]
      BY DEF Restart
    <2>2. repeat[b][r] \in [age : 0..Cooldown, known : BOOLEAN]
      BY DEF Inv, LeasesOK
    <2> QED
      BY <2>1, <2>2
  <1>5. LeasesOK'
    BY <1>2, <1>4 DEF Restart, LeasesOK
  <1>6. KnownIsLeased'
    BY <1>4 DEF KnownIsLeased
  <1> QED
    BY <1>1, <1>3, <1>5, <1>6 DEF Restart, Inv, TablesOK, tables

LEMMA InitOK == Init => Inv
  <1> SUFFICES ASSUME Init PROVE Inv
    OBVIOUS
  <1>1. Never \in Nat /\ Interval \in Nat /\ Cooldown \in Nat /\ MaxRank \in Nat
    BY SchedulerAssumption, SpendingAssumption DEF Never
  <1>2. task = NoTask /\ NoTask \in Tasks /\ NoTask.at = "idle" /\ NoTask.bot = NoBot
    BY DEF Init, NoTask, Tasks, Phases, Purchases
  <1>3. TaskOK /\ VisitInv
    BY <1>2 DEF TaskOK, VisitInv, BalanceStands, RackSeen, Decided, AwaitsAnswer, Open
  <1>4. TablesOK
    BY <1>1 DEF Init, TablesOK
  <1>5. LeasesOK /\ KnownIsLeased
    BY <1>1 DEF Init, LeasesOK, KnownIsLeased
  <1>6. WorldOK
    BY <1>1 DEF Init, SchedulerInit, WorldOK, SchedulerTypeOK
  <1> QED
    BY <1>3, <1>4, <1>5, <1>6 DEF Inv

LEMMA StutterOK == Inv /\ UNCHANGED vars => Inv'
  BY DEF vars, schedVars, tables, Inv, TaskOK, TablesOK, LeasesOK, WorldOK, SchedulerTypeOK,
         VisitInv, BalanceStands, RackSeen, RackPending, Decided, AwaitsAnswer, KnownIsLeased

LEMMA VisitOK == Inv /\ Visit => Inv'
  BY SnapshotOK, SinkOK, MasteryOK, RackOK, ResidueRackOK, CatalystOK, ExecuteSinkOK,
     ExecuteMasteryOK, ExecuteResidueRackOK, ExecuteCatalystOK, RefusedOK, AnswerOK DEF Visit

LEMMA StepOK == Inv /\ [Next]_vars => Inv'
  BY PopulationOK, LoginEventOK, PassOK, VisitOK, TickOK, CreditOK, RestartOK, StutterOK
     DEF Next

LEMMA InvAlways == Spec => []Inv
  <1> QED
    BY InitOK, StepOK, PTL DEF Spec

-----------------------------------------------------------------------------
(* Theorems.                                                                 *)

\* Types, with the cursor on a bot of the map, login events only for players in
\* the world, and no balance ever below zero (TryOneProgressionSpendForBot).
THEOREM SpendingTypeCorrect == Spec => []SpendingTypeOK
  <1> QED
    BY InvAlways, InvTypes, PTL

\* A visit makes one purchase at most and costs no more than MaxSpend, whatever
\* the bridge answers (spendAttemptedThisPass).
THEOREM OneSpendPerVisitAlways == Spec => []OneSpendPerVisit
  <1>1. Inv => OneSpendPerVisit
    <2> SUFFICES ASSUME Inv, task.at # "idle" PROVE OneSpendPerVisit
      BY DEF OneSpendPerVisit
    <2>1. /\ task.at \in Phases /\ MaxSpend \in Nat /\ task.balance \in Nat
          /\ aether[task.bot] \in Nat
      BY BotFacts DEF Inv, TaskOK, Tasks
    <2>2. CASE task.at = "answer"
      BY <2>1, <2>2 DEF Inv, VisitInv, AwaitsAnswer, OneSpendPerVisit
    <2>3. CASE task.at = "snapshot"
      BY <2>3 DEF Inv, VisitInv, BalanceStands, OneSpendPerVisit
    <2>4. CASE task.at \in Open
      BY <2>1, <2>4 DEF Inv, VisitInv, BalanceStands, OneSpendPerVisit, Open
    <2> QED
      BY <2>1, <2>2, <2>3, <2>4 DEF Phases, Open
  <1> QED
    BY <1>1, InvAlways, PTL

\* Only the two purchases paid in Essence lower a balance.
LEMMA BalanceFalls ==
  ASSUME Inv, Next, NEW b \in Bots, aether'[b] < aether[b]
  PROVE  ExecuteSinkInvest \/ ExecuteMasteryPurchase
  <1> SUFFICES ASSUME ~ExecuteSinkInvest, ~ExecuteMasteryPurchase
               PROVE  aether'[b] >= aether[b]
    <2>1. aether[b] \in Nat /\ aether'[b] \in Nat
      BY StepOK DEF Inv, TablesOK
    <2> QED
      BY <2>1
  <1>1. TablesOK /\ aether[b] \in Nat /\ Catalyst.reward \in Nat
    BY SpendingAssumption DEF Inv, TablesOK
  <1>2. UNCHANGED aether => aether'[b] >= aether[b]
    BY <1>1
  <1>3. CASE Visit
    <2>1. CASE ExecuteCatalyst
      BY <1>1, <2>1 DEF ExecuteCatalyst, TablesOK
    <2>2. CASE ~ExecuteCatalyst
      <3>1. UNCHANGED aether
        BY <1>3, <2>2
           DEF Visit, tables, GetProgressionSnapshot, PreviewSinkInvest,
               PreviewMasteryPurchase, PreviewRackExpand, Candidate,
               PreviewResidueRackExpand, PreviewCatalyst, Refused,
               ExecuteResidueRackExpand, AnswerSpend
      <3> QED
        BY <1>2, <3>1
    <2> QED
      BY <2>1, <2>2
  <1>4. CASE Credit
    BY <1>1, <1>4 DEF Credit, TablesOK
  <1>5. CASE ~Visit /\ ~Credit
    BY <1>2, <1>5
       DEF Next, OnPlayerLogin, OnPlayerLogout, DeferredLoginReconcileEvent,
           JoinOrLeaveParty, SchedulerPass, Tick, Restart, unchangedBySched, tables
  <1> QED
    BY <1>3, <1>4, <1>5

\* No purchase leaves a bot with less than the reserve, although it is decided on
\* a balance read several steps earlier (EvaluateProgressionSpend).
THEOREM ReserveRetainedAlways == Spec => ReserveRetained
  <1>1. ASSUME Inv, Next, NEW b \in Bots, aether'[b] < aether[b]
        PROVE  aether'[b] >= Reserve
    <2>0. TablesOK /\ TaskOK /\ BalanceStands /\ Decided
      BY <1>1 DEF Inv, VisitInv
    <2>1. TablesOK /\ aether[b] \in Nat /\ Reserve \in Nat
      BY <2>0, SpendingAssumption DEF TablesOK
    <2>2. CASE ExecuteSinkInvest
      <3>1. /\ task.at = "execute" /\ task.buys = "sink"
            /\ aether' = [aether EXCEPT ![task.bot] = @ - task.cost]
        BY <2>2 DEF ExecuteSinkInvest
      <3>2. /\ task.balance - task.cost >= Reserve /\ aether[task.bot] >= task.balance
            /\ task.balance \in Nat /\ task.cost \in Nat
        BY <2>0, <3>1 DEF TaskOK, Tasks, BalanceStands, Decided, Open
      <3>3. b = task.bot
        BY <1>1, <2>1, <3>1 DEF TablesOK
      <3> QED
        BY <2>1, <3>1, <3>2, <3>3 DEF TablesOK
    <2>3. CASE ExecuteMasteryPurchase
      <3>1. /\ task.at = "execute" /\ task.buys = "mastery"
            /\ aether' = [aether EXCEPT ![task.bot] = @ - MasteryCost[mastery[task.bot]]]
        BY <2>3 DEF ExecuteMasteryPurchase
      <3>2. /\ task.balance - task.cost >= Reserve /\ aether[task.bot] >= task.balance
            /\ task.balance \in Nat /\ task.cost \in Nat
            /\ task.cost = MasteryCost[mastery[task.bot]]
        BY <2>0, <3>1 DEF TaskOK, Tasks, BalanceStands, Decided, Open
      <3>3. aether' = [aether EXCEPT ![task.bot] = @ - task.cost]
        BY <3>1, <3>2
      <3>4. b = task.bot
        BY <1>1, <2>1, <3>3 DEF TablesOK
      <3> QED
        BY <2>1, <3>2, <3>3, <3>4 DEF TablesOK
    <2> QED
      BY <1>1, <2>2, <2>3, BalanceFalls
  <1>2. Inv /\ [Next]_vars =>
          [\A b \in Bots : aether'[b] < aether[b] => aether'[b] >= Reserve]_vars
    BY <1>1
  <1> QED
    BY <1>2, InvAlways, PTL DEF Spec, ReserveRetained

\* No Residue goes into the Catalyst while a tier of the bot's Rack waits that
\* Residue buys (EvaluateEchoesResidueSpending).
THEOREM RackBeforeCatalystAlways == Spec => RackBeforeCatalyst
  <1> DEFINE A == \A b \in Bots : aether'[b] = aether[b] + Catalyst.reward
                    /\ residue'[AccountOf[b]] < residue[AccountOf[b]]
                  => \/ tier[b] = Len(ExpandTiers)
                     \/ ExpandTiers[tier[b] + 1].residue = 0
  <1>1. ASSUME Inv, Next, NEW b \in Bots, aether'[b] = aether[b] + Catalyst.reward,
               residue'[AccountOf[b]] < residue[AccountOf[b]]
        PROVE  \/ tier[b] = Len(ExpandTiers)
               \/ ExpandTiers[tier[b] + 1].residue = 0
    <2>0. TablesOK /\ Decided
      BY <1>1 DEF Inv, VisitInv
    <2>1. /\ TablesOK /\ aether[b] \in Nat /\ AccountOf[b] \in Accounts
          /\ residue[AccountOf[b]] \in Nat /\ Catalyst.reward \in Nat \ {0}
      BY <2>0, SpendingAssumption DEF TablesOK
    <2>2. aether' # aether
      BY <1>1, <2>1
    <2>3. residue' # residue
      BY <1>1, <2>1
    <2>4. ExecuteCatalyst
      <3>1. CASE Visit
        BY <2>2, <2>3, <3>1
           DEF Visit, tables, GetProgressionSnapshot, PreviewSinkInvest,
               PreviewMasteryPurchase, PreviewRackExpand, Candidate,
               PreviewResidueRackExpand, PreviewCatalyst, Refused, ExecuteSinkInvest,
               ExecuteMasteryPurchase, ExecuteResidueRackExpand, AnswerSpend
      <3>2. CASE ~Visit
        BY <1>1, <2>2, <2>3, <3>2
           DEF Next, OnPlayerLogin, OnPlayerLogout, DeferredLoginReconcileEvent, Credit,
               JoinOrLeaveParty, SchedulerPass, Tick, Restart, unchangedBySched, tables
      <3> QED
        BY <3>1, <3>2
    <2>5. /\ task.at = "execute" /\ task.buys = "catalyst"
          /\ aether' = [aether EXCEPT ![task.bot] = @ + Catalyst.reward]
      BY <2>4 DEF ExecuteCatalyst
    <2>6. b = task.bot
      BY <1>1, <2>1, <2>5 DEF TablesOK
    <2>7. ~RackPending(b)
      BY <2>0, <2>5, <2>6 DEF Decided
    <2>8. tier[b] # Len(ExpandTiers) => ExpandTiers[tier[b] + 1].residue \in Nat
      BY <2>1, TierFacts DEF AtMaxCapacity, NextTier
    <2> QED
      BY <2>7, <2>8 DEF RackPending
  <1>2. Inv /\ [Next]_vars => [A]_vars
    BY <1>1
  <1> QED
    BY <1>2, InvAlways, PTL DEF Spec, RackBeforeCatalyst

RestartsCounted == restarts \in Nat

LEMMA RestartsType == Spec => []RestartsCounted
  <1>1. Init => RestartsCounted
    BY DEF Init, RestartsCounted
  <1>2. RestartsCounted /\ [Next]_vars => RestartsCounted'
    <2> SUFFICES ASSUME RestartsCounted, [Next]_vars PROVE restarts' \in Nat
      BY DEF RestartsCounted
    <2> USE DEF RestartsCounted
    <2>1. CASE Visit
      <3>1. UNCHANGED restarts
        BY <2>1
           DEF Visit, UnchangedOutside, GetProgressionSnapshot, PreviewSinkInvest,
               PreviewMasteryPurchase, PreviewRackExpand, Candidate,
               PreviewResidueRackExpand, PreviewCatalyst, Refused, ExecuteSinkInvest,
               ExecuteMasteryPurchase, ExecuteResidueRackExpand, ExecuteCatalyst, AnswerSpend
      <3> QED
        BY <3>1
    <2>2. CASE Restart
      BY <2>2 DEF Restart
    <2>3. CASE ~Visit /\ ~Restart
      <3>1. UNCHANGED restarts
        BY <2>3
           DEF Next, vars, counts, OnPlayerLogin, OnPlayerLogout, DeferredLoginReconcileEvent,
               Credit, JoinOrLeaveParty, SchedulerPass, Tick, unchangedBySched
      <3> QED
        BY <3>1
    <2> QED
      BY <2>1, <2>2, <2>3
  <1> QED
    BY <1>1, <1>2, PTL DEF Spec

\* A purchase starts only where the lease has run out.
LEMMA BoughtAfterCooldown ==
  ASSUME Inv, Next, NEW b \in Bots, NEW r \in Resources,
         restarts \in Nat, restarts' = restarts,
         repeat'[b][r].age = 0, ~repeat'[b][r].known, repeat[b][r].known
  PROVE  lease[b][r] = Cooldown
  <1>1. repeat \in [Bots -> [Resources -> [age : 0..Cooldown, known : BOOLEAN]]]
    BY DEF Inv, LeasesOK
  <1>2. repeat' # repeat
    OBVIOUS
  <1>3. ~Tick
    <2> SUFFICES ASSUME Tick PROVE FALSE
      OBVIOUS
    <2>1. repeat'[b][r] = [repeat[b][r] EXCEPT !.age = Older(@, Cooldown)]
      BY DEF Tick
    <2>2. repeat[b][r] \in [age : 0..Cooldown, known : BOOLEAN]
      BY <1>1
    <2> QED
      BY <2>1, <2>2
  <1>4. ~Restart
    BY DEF Restart
  <1>5. ~AnswerSpend
    <2> SUFFICES ASSUME AnswerSpend PROVE FALSE
      OBVIOUS
    <2>1. repeat' = [repeat EXCEPT ![task.bot][ResourceOf[task.buys]].known = TRUE]
      BY <1>2 DEF AnswerSpend
    <2>2. repeat'[b][r].known
      BY <1>1, <2>1
    <2> QED
      BY <2>2
  <1>6. task.at = "execute" /\ Bought
    <2>1. CASE Visit
      BY <1>2, <1>5, <2>1
         DEF Visit, GetProgressionSnapshot, PreviewSinkInvest,
             PreviewMasteryPurchase, PreviewRackExpand, Candidate,
             PreviewResidueRackExpand, PreviewCatalyst, Refused, ExecuteSinkInvest,
             ExecuteMasteryPurchase, ExecuteResidueRackExpand, ExecuteCatalyst
    <2>2. CASE ~Visit
      BY <1>2, <1>3, <1>4, <2>2
         DEF Next, OnPlayerLogin, OnPlayerLogout, DeferredLoginReconcileEvent, Credit,
             JoinOrLeaveParty, SchedulerPass, unchangedBySched
    <2> QED
      BY <2>1, <2>2
  <1>7. repeat' = [repeat EXCEPT ![task.bot][ResourceOf[task.buys]] =
                      [age |-> 0, known |-> FALSE]]
    BY <1>6 DEF Bought
  <1>8. b = task.bot /\ r = ResourceOf[task.buys]
    <2> SUFFICES ASSUME b # task.bot \/ r # ResourceOf[task.buys] PROVE FALSE
      OBVIOUS
    <2>1. repeat'[b][r] = repeat[b][r]
      BY <1>1, <1>7
    <2> QED
      BY <2>1
  <1> QED
    BY <1>6, <1>8 DEF Inv, VisitInv, Decided

\* A bot that knows of a purchase waits for the cooldown before it buys with the
\* same resource again, at login as from the scheduler (lastSpendSecondsByKey).
THEOREM CooldownKeptAlways == Spec => CooldownKept
  <1> DEFINE A == \A b \in Bots, r \in Resources :
          repeat'[b][r].age = 0 /\ ~repeat'[b][r].known /\ repeat[b][r].known
              => repeat[b][r].age >= Cooldown \/ restarts' # restarts
  <1>1. ASSUME Inv, Next, NEW b \in Bots, NEW r \in Resources,
               restarts \in Nat, restarts' = restarts,
               repeat'[b][r].age = 0, ~repeat'[b][r].known, repeat[b][r].known
        PROVE  repeat[b][r].age >= Cooldown
    <2>1. lease[b][r] = Cooldown /\ Cooldown \in Nat
      BY <1>1, BoughtAfterCooldown, SpendingAssumption
    <2>2. lease[b][r] = repeat[b][r].age
      BY <1>1 DEF Inv, KnownIsLeased
    <2> QED
      BY <2>1, <2>2
  <1>2. Inv /\ RestartsCounted /\ [Next]_vars => [A]_vars
    BY <1>1 DEF RestartsCounted
  <1> QED
    BY <1>2, InvAlways, RestartsType, PTL DEF Spec, CooldownKept

--------------------------------------------------------------------------------
(* The rotation of the scheduler.                                            *)

\* The guids of the map: finitely many, positive, each at one position.
LEMMA GuidFacts ==
  /\ IsFiniteSet(Guids) /\ Guids \subseteq Nat \ {0} /\ Bots \subseteq Guids
  /\ \A g \in Guids : \E j \in DOMAIN Order : Order[j] = g
  /\ \A i, j \in DOMAIN Order : Order[i] = Order[j] => i = j
  /\ IsFiniteSet(DOMAIN Order)
  <1>1. IsFiniteSet(DOMAIN Order)
    BY OrderFacts, FS_Interval
  <1>2. Guids = {Order[i] : i \in DOMAIN Order}
    BY SchedulerAssumption DEF Guids, ToSet
  <1>3. IsFiniteSet(Guids)
    <2> DEFINE h == [i \in DOMAIN Order |-> Order[i]]
    <2>1. h \in Surjection(DOMAIN Order, Guids)
      BY <1>2 DEF Surjection
    <2> HIDE DEF h
    <2> QED
      BY <1>1, <2>1, FS_Surjection
  <1> QED
    BY <1>1, <1>2, <1>3, OrderFacts, SchedulerAssumption DEF IsInjective, Bots

\* A pass serves somebody unless nobody ahead of the cursor has his turn.
LEMMA EvaluatedFacts ==
  /\ Considered \subseteq DOMAIN Order /\ Evaluated \subseteq Considered
  /\ IsFiniteSet(Considered) /\ IsFiniteSet(Evaluated)
  /\ Considered # {} => Evaluated # {}
  <1>1. Considered \subseteq DOMAIN Order /\ Evaluated \subseteq Considered
    BY DEF Considered, Evaluated
  <1>2. IsFiniteSet(Considered) /\ IsFiniteSet(Evaluated)
    BY <1>1, GuidFacts, FS_Subset
  <1>3. ASSUME Considered # {} PROVE Evaluated # {}
    <2> DEFINE m == Min(Considered)
    <2>1. m \in Considered /\ \A i \in Considered : m <= i
      BY <1>1, <1>3, OrderFacts, MinExists
    <2>2. {j \in Considered : j < m} = {}
      BY <1>1, <2>1, OrderFacts
    <2>3. Cardinality({j \in Considered : j < m}) = 0
      BY <2>2, FS_EmptySet
    <2>4. MaxBotsPerPass > 0
      BY SchedulerAssumption
    <2> HIDE DEF m
    <2>5. m \in Evaluated
      BY <2>1, <2>3, <2>4 DEF Evaluated
    <2> QED
      BY <2>5
  <1> QED
    BY <1>1, <1>2, <1>3

\* A pass never serves more bots than its budget.
LEMMA BudgetOfAPass == Cardinality(Evaluated) <= MaxBotsPerPass
  <1>1. CASE Evaluated = {}
    BY <1>1, FS_EmptySet, SchedulerAssumption
  <1>2. CASE Evaluated # {}
    <2> DEFINE m == Max(Evaluated)
               before == {j \in Considered : j < m}
    <2>1. m \in Evaluated /\ \A i \in Evaluated : m >= i
      BY <1>2, EvaluatedFacts, OrderFacts, MaxExists
    <2>2. IsFiniteSet(before) /\ m \notin before
      BY <2>1, EvaluatedFacts, OrderFacts, FS_Subset
    <2>3. Evaluated \subseteq before \union {m}
      BY <2>1, EvaluatedFacts, OrderFacts
    <2>4. Cardinality(before) < MaxBotsPerPass
      BY <2>1 DEF Evaluated
    <2> HIDE DEF m, before
    <2>5. /\ IsFiniteSet(before \union {m})
          /\ Cardinality(before \union {m}) = Cardinality(before) + 1
      BY <2>2, FS_AddElement
    <2>6. Cardinality(Evaluated) <= Cardinality(before \union {m})
      BY <2>3, <2>5, FS_Subset
    <2>7. /\ Cardinality(Evaluated) \in Nat /\ Cardinality(before) \in Nat
          /\ MaxBotsPerPass \in Nat
      BY <2>2, EvaluatedFacts, FS_CardinalityType, SchedulerAssumption
    <2> QED
      BY <2>4, <2>5, <2>6, <2>7
  <1> QED
    BY <1>1, <1>2

LEMMA SchedulerInitType == SchedulerInit => SchedulerTypeOK
  <1>1. Never \in Nat
    BY SchedulerAssumption DEF Never
  <1> QED
    BY <1>1, SchedulerAssumption DEF SchedulerInit, SchedulerTypeOK

\* A pass leaves the cursor at the last bot it served, at the start of the map if
\* it served none.
LEMMA CursorFacts ==
  ASSUME SchedulerTypeOK, RunProgressionSchedulerPass
  PROVE  /\ Evaluated = {} => cursor' = 0
         /\ Evaluated # {} => \E i \in Evaluated : cursor' = Order[i]
         /\ \A i \in Evaluated : sinceCheck'[Order[i]] = 0
  <1>1. ASSUME Evaluated # {} PROVE \E i \in Evaluated : cursor' = Order[i]
    <2>1. Max(Evaluated) \in Evaluated
      BY <1>1, EvaluatedFacts, OrderFacts, MaxExists
    <2> QED
      BY <1>1, <2>1 DEF RunProgressionSchedulerPass, CursorAfter
  <1>2. \A i \in Evaluated : Order[i] \in Guids
    BY EvaluatedFacts, OrderFacts
  <1> QED
    BY <1>1, <1>2 DEF RunProgressionSchedulerPass, CursorAfter

LEMMA SchedulerStepType == SchedulerTypeOK /\ [SchedulerNext]_schedVars => SchedulerTypeOK'
  <1> SUFFICES ASSUME SchedulerTypeOK, [SchedulerNext]_schedVars PROVE SchedulerTypeOK'
    OBVIOUS
  <1> USE SchedulerAssumption
  <1>1. Never \in Nat /\ Interval \in Nat
    BY DEF Never
  <1>2. ASSUME NEW g \in Guids, EnterWorld(g) \/ LeaveWorld(g) \/ ChangeMaster(g)
        PROVE  SchedulerTypeOK'
    BY <1>2 DEF EnterWorld, LeaveWorld, ChangeMaster, SchedulerTypeOK
  <1>3. ASSUME SchedulerTick PROVE SchedulerTypeOK'
    <2>1. sinceCheck' \in [Guids -> 0..Never]
      BY <1>1, <1>3 DEF SchedulerTick, Older, SchedulerTypeOK
    <2>2. sincePass' \in 0..Interval
      BY <1>1, <1>3 DEF SchedulerTick, Older, SchedulerTypeOK
    <2> QED
      BY <1>3, <2>1, <2>2 DEF SchedulerTick, SchedulerTypeOK
  <1>4. ASSUME RunProgressionSchedulerPass PROVE SchedulerTypeOK'
    <2>1. cursor' \in Guids \union {0}
      BY <1>4, CursorFacts, EvaluatedFacts, OrderFacts
    <2>2. sinceCheck' \in [Guids -> 0..Never]
      BY <1>1, <1>4 DEF RunProgressionSchedulerPass, SchedulerTypeOK
    <2> QED
      BY <1>4, <2>1, <2>2 DEF RunProgressionSchedulerPass, SchedulerTypeOK
  <1>5. ASSUME OnShutdown PROVE SchedulerTypeOK'
    BY <1>1, <1>5 DEF OnShutdown, SchedulerTypeOK
  <1>6. ASSUME UNCHANGED schedVars PROVE SchedulerTypeOK'
    BY <1>6 DEF schedVars, SchedulerTypeOK
  <1> QED
    BY <1>2, <1>3, <1>4, <1>5, <1>6 DEF SchedulerNext

\* The distance of the cursor to a bot: the guids still ahead of it, and once the
\* cursor is past the bot, those it passes before it starts again.
Distance(g) ==
    IF cursor < g THEN Cardinality({h \in Guids : cursor < h /\ h < g})
    ELSE Cardinality(Guids) + Cardinality({h \in Guids : h > cursor})

\* A smaller set of guids has fewer of them.
LEMMA FewerGuids ==
  ASSUME NEW S \in SUBSET Guids, NEW T \in SUBSET S, NEW x \in S, x \notin T
  PROVE  Cardinality(T) < Cardinality(S) /\ Cardinality(S) \in Nat /\ Cardinality(T) \in Nat
  <1>1. IsFiniteSet(S)
    BY GuidFacts, FS_Subset
  <1>2. IsFiniteSet(T) /\ Cardinality(T) <= Cardinality(S)
        /\ (Cardinality(T) = Cardinality(S) => T = S)
    BY <1>1, FS_Subset
  <1>3. Cardinality(S) \in Nat /\ Cardinality(T) \in Nat
    BY <1>1, <1>2, FS_CardinalityType
  <1> QED
    BY <1>2, <1>3

\* While the cursor is short of a bot whose turn it could be, what the pass serves
\* is the bot itself or lies before it.
LEMMA ServedBefore ==
  ASSUME SchedulerTypeOK, NEW g \in Bots, cursor < g, Autonomous(g), ~ShouldSkipRecheck(g),
         ~PassedOver(g), \A i \in Evaluated : Order[i] # g
  PROVE  /\ Evaluated # {}
         /\ \A i \in Evaluated : cursor < Order[i] /\ Order[i] < g
  <1>1. PICK j \in DOMAIN Order : Order[j] = g
    BY GuidFacts
  <1>2. j \in Considered
    BY <1>1 DEF Considered, PastCursor
  <1>3. j \notin Evaluated
    BY <1>1
  <1>4. ~(Cardinality({k \in Considered : k < j}) < MaxBotsPerPass)
    BY <1>2, <1>3 DEF Evaluated
  <1>5. ASSUME NEW i \in Evaluated PROVE i < j
    <2>1. i \in Nat /\ j \in Nat /\ i # j
      BY <1>1, <1>3, EvaluatedFacts, OrderFacts
    <2>2. CASE j < i
      <3> DEFINE S == {k \in Considered : k < i}
                 T == {k \in Considered : k < j}
      <3>1. T \subseteq S
        BY <2>1, <2>2, EvaluatedFacts, OrderFacts
      <3>2. IsFiniteSet(S) /\ IsFiniteSet(T)
        BY EvaluatedFacts, FS_Subset
      <3>3. Cardinality(T) <= Cardinality(S) /\ Cardinality(T) \in Nat /\ Cardinality(S) \in Nat
        BY <3>1, <3>2, FS_Subset, FS_CardinalityType
      <3>4. Cardinality(S) < MaxBotsPerPass
        BY DEF Evaluated
      <3> QED
        BY <1>4, <3>3, <3>4, SchedulerAssumption
    <2> QED
      BY <2>1, <2>2
  <1>6. ASSUME NEW i \in Evaluated PROVE cursor < Order[i] /\ Order[i] < g
    <2>1. i \in Considered /\ i \in DOMAIN Order
      BY EvaluatedFacts
    <2>2. cursor < Order[i]
      BY <2>1, GuidFacts, OrderFacts DEF Considered, PastCursor, SchedulerTypeOK
    <2>3. ~(Order[i] > g)
      BY <1>1, <1>5, <2>1 DEF PassedOver
    <2>4. Order[i] # g
      OBVIOUS
    <2>5. Order[i] \in Nat /\ g \in Nat
      BY <2>1, OrderFacts, GuidFacts
    <2> QED
      BY <2>2, <2>3, <2>4, <2>5
  <1> QED
    BY <1>2, <1>6, EvaluatedFacts

\* One pass, for a bot that has its turn and is not passed over.
LEMMA PassBringsNearer ==
  ASSUME SchedulerTypeOK, RunProgressionSchedulerPass,
         NEW g \in Bots, Autonomous(g), ~ShouldSkipRecheck(g), ~PassedOver(g)
  PROVE  sinceCheck'[g] = 0 \/ Distance(g)' < Distance(g)
  <1> SUFFICES ASSUME \A i \in Evaluated : Order[i] # g
               PROVE  Distance(g)' < Distance(g)
    BY CursorFacts
  <1>1. g \in Guids /\ g \in Nat /\ cursor \in Nat /\ g > 0
    BY GuidFacts DEF SchedulerTypeOK
  <1>2. CASE cursor < g
    <2>1. cursor < cursor' /\ cursor' < g /\ cursor' \in Guids
      BY <1>2, ServedBefore, CursorFacts, EvaluatedFacts, OrderFacts
    <2> DEFINE S == {h \in Guids : cursor < h /\ h < g}
               T == {h \in Guids : cursor' < h /\ h < g}
    <2>2. T \in SUBSET S /\ S \in SUBSET Guids /\ cursor' \in S /\ cursor' \notin T
      <3>1. \A h \in Guids : h \in Nat
        BY GuidFacts
      <3>2. \A h \in T : h \in S
        BY <1>1, <2>1, <3>1
      <3>3. cursor' \in S /\ cursor' \notin T
        BY <2>1, <3>1
      <3> QED
        BY <3>2, <3>3
    <2>3. Cardinality(T) < Cardinality(S)
      BY <2>2, FewerGuids
    <2> QED
      BY <1>2, <2>1, <2>3 DEF Distance
  <1>3. CASE ~(cursor < g)
    <2> DEFINE S == {h \in Guids : h > cursor}
    <2>1. CASE Evaluated = {}
      <3>1. cursor' = 0
        BY <2>1, CursorFacts
      <3> DEFINE T == {h \in Guids : 0 < h /\ h < g}
      <3>2. Cardinality(T) < Cardinality(Guids) /\ Cardinality(Guids) \in Nat
            /\ Cardinality(T) \in Nat
        <4>1. T \in SUBSET Guids /\ g \notin T
          BY <1>1
        <4> QED
          BY <1>1, <4>1, FewerGuids
      <3>3. Cardinality(S) \in Nat
        BY GuidFacts, FS_Subset, FS_CardinalityType
      <3> QED
        BY <1>1, <1>3, <3>1, <3>2, <3>3 DEF Distance
    <2>2. CASE Evaluated # {}
      <3>1. cursor' \in Guids /\ cursor < cursor'
        BY <2>2, CursorFacts, EvaluatedFacts, OrderFacts DEF Considered, PastCursor
      <3> DEFINE T == {h \in Guids : h > cursor'}
      <3>2. T \in SUBSET S /\ S \in SUBSET Guids /\ cursor' \in S /\ cursor' \notin T
        <4>1. \A h \in Guids : h \in Nat
          BY GuidFacts
        <4>2. \A h \in T : h \in S
          BY <1>1, <3>1, <4>1
        <4>3. cursor' \in S /\ cursor' \notin T
          BY <3>1, <4>1
        <4> QED
          BY <4>2, <4>3
      <3>3. Cardinality(T) < Cardinality(S) /\ Cardinality(S) \in Nat /\ Cardinality(T) \in Nat
        BY <3>2, FewerGuids
      <3>4. ~(cursor' < g)
        BY <1>1, <1>3, <3>1, GuidFacts
      <3>5. Cardinality(Guids) \in Nat
        BY GuidFacts, FS_CardinalityType
      <3> QED
        BY <1>3, <3>3, <3>4, <3>5 DEF Distance
    <2> QED
      BY <2>1, <2>2
  <1> QED
    BY <1>2, <1>3

LEMMA DistanceBounded ==
  ASSUME SchedulerTypeOK, NEW g \in Bots
  PROVE  Distance(g) \in 0..(2 * Cardinality(Guids))
  <1>1. \A S \in SUBSET Guids : Cardinality(S) \in Nat /\ Cardinality(S) <= Cardinality(Guids)
    BY GuidFacts, FS_Subset, FS_CardinalityType
  <1>2. /\ {h \in Guids : cursor < h /\ h < g} \in SUBSET Guids
        /\ {h \in Guids : h > cursor} \in SUBSET Guids /\ Guids \in SUBSET Guids
    OBVIOUS
  <1> QED
    BY <1>1, <1>2 DEF Distance

\* Of a bot that has its turn coming: this pass serves it or the cursor draws nearer.
PassTowards(g) ==
    RunProgressionSchedulerPass /\ Autonomous(g) /\ ~ShouldSkipRecheck(g) /\ ~PassedOver(g)
        => sinceCheck'[g] = 0 \/ Distance(g)' < Distance(g)

\* Only a pass and a restart move the cursor.
CursorRests(g) ==
    ~RunProgressionSchedulerPass /\ ~OnShutdown => Distance(g)' = Distance(g)

\* A pass that serves nobody starts again from the front, and a pass from the front
\* serves somebody unless nobody has his turn.
RotationMoves ==
    RunProgressionSchedulerPass =>
        \/ \E g \in Bots : Autonomous(g) /\ ~ShouldSkipRecheck(g) /\ sinceCheck'[g] = 0
        \/ cursor' = 0 /\ (cursor = 0 => \A g \in Bots : Autonomous(g) => ShouldSkipRecheck(g))

\* A pass resets the timers of no more bots than its budget.
BudgetKept ==
    RunProgressionSchedulerPass =>
        Cardinality({g \in Guids : sinceCheck'[g] # sinceCheck[g]}) <= MaxBotsPerPass

LEMMA PassMoves ==
  ASSUME SchedulerTypeOK, RunProgressionSchedulerPass
  PROVE  RotationMoves
  <1>1. CASE Evaluated # {}
    <2>1. PICK i \in Evaluated : TRUE
      BY <1>1
    <2>2. i \in Considered /\ Order[i] \in Bots
      BY <2>1, EvaluatedFacts DEF Considered, Autonomous
    <2> QED
      BY <2>1, <2>2, CursorFacts DEF RotationMoves, Considered
  <1>2. CASE Evaluated = {}
    <2>1. cursor' = 0 /\ Considered = {}
      BY <1>2, CursorFacts, EvaluatedFacts
    <2>2. ASSUME cursor = 0, NEW g \in Bots, Autonomous(g) PROVE ShouldSkipRecheck(g)
      <3>1. PICK j \in DOMAIN Order : Order[j] = g
        BY GuidFacts
      <3>2. Order[j] > 0
        BY OrderFacts
      <3> QED
        BY <2>1, <2>2, <3>1, <3>2 DEF Considered, PastCursor
    <2> QED
      BY <2>1, <2>2 DEF RotationMoves
  <1> QED
    BY <1>1, <1>2

LEMMA PassKeepsBudget ==
  ASSUME SchedulerTypeOK, RunProgressionSchedulerPass
  PROVE  BudgetKept
  <1> DEFINE served == {Order[i] : i \in Evaluated}
             changed == {g \in Guids : sinceCheck'[g] # sinceCheck[g]}
             h == [i \in Evaluated |-> Order[i]]
  <1>1. changed \subseteq served
    BY DEF RunProgressionSchedulerPass
  <1>2. h \in Surjection(Evaluated, served)
    BY DEF Surjection
  <1>3. IsFiniteSet(served) /\ Cardinality(served) <= Cardinality(Evaluated)
    <2> HIDE DEF h, served
    <2> QED
      BY <1>2, EvaluatedFacts, FS_Surjection
  <1>4. IsFiniteSet(changed) /\ Cardinality(changed) <= Cardinality(served)
    <2> HIDE DEF changed, served
    <2> QED
      BY <1>1, <1>3, FS_Subset
  <1>5. /\ Cardinality(served) \in Nat /\ Cardinality(changed) \in Nat
        /\ Cardinality(Evaluated) \in Nat /\ MaxBotsPerPass \in Nat
    BY <1>3, <1>4, EvaluatedFacts, FS_CardinalityType, SchedulerAssumption
  <1> HIDE DEF changed, served
  <1>6. Cardinality(changed) <= MaxBotsPerPass
    BY <1>3, <1>4, <1>5, BudgetOfAPass
  <1> QED
    BY <1>6 DEF BudgetKept, changed

LEMMA SchedulerSteps ==
  ASSUME SchedulerTypeOK, [SchedulerNext]_schedVars
  PROVE  /\ \A g \in Bots : PassTowards(g) /\ CursorRests(g)
         /\ RotationMoves /\ BudgetKept
  <1>1. ASSUME NEW g \in Bots PROVE PassTowards(g)
    BY PassBringsNearer DEF PassTowards
  <1>2. ASSUME NEW g \in Bots PROVE CursorRests(g)
    <2>1. ~RunProgressionSchedulerPass /\ ~OnShutdown => cursor' = cursor
      BY DEF SchedulerNext, EnterWorld, LeaveWorld, ChangeMaster, SchedulerTick, schedVars
    <2> QED
      BY <2>1 DEF CursorRests, Distance
  <1>3. RotationMoves /\ BudgetKept
    <2>1. CASE RunProgressionSchedulerPass
      BY <2>1, PassMoves, PassKeepsBudget
    <2>2. CASE ~RunProgressionSchedulerPass
      BY <2>2 DEF RotationMoves, BudgetKept
    <2> QED
      BY <2>1, <2>2
  <1> QED
    BY <1>1, <1>2, <1>3

\* The scheduler without its fairness.
SchedulerSafety == SchedulerInit /\ [][SchedulerNext]_schedVars

LEMMA SafetyOfSpec == SchedulerSpec => SchedulerSafety
  BY PTL DEF SchedulerSpec, SchedulerSafety

LEMMA SafetyType == SchedulerSafety => []SchedulerTypeOK
  BY SchedulerInitType, SchedulerStepType, PTL DEF SchedulerSafety

\* Type correctness of the scheduler: the cursor is at a bot of the map or before all.
THEOREM SchedulerTypeCorrect == SchedulerSpec => []SchedulerTypeOK
  BY SafetyOfSpec, SafetyType, PTL

\* What ReachedUnlessPassedOver rests on besides fairness. RunProgressionSchedulerPass
\* walks the map from the cursor: of every autonomous bot whose recheck is due and that
\* the map's order does not pass over, a pass either serves the bot or brings the cursor
\* strictly nearer to it, and nothing but a pass or a restart moves the cursor. Between
\* two restarts, a bot of which all that stays true is thus served after at most twice
\* as many passes as there are characters.
THEOREM ReachedWithinItsDistance ==
  SchedulerSafety =>
    /\ [](\A g \in Bots : Distance(g) \in 0..(2 * Cardinality(Guids)))
    /\ [][\A g \in Bots : PassTowards(g) /\ CursorRests(g)]_schedVars
  <1>1. SchedulerTypeOK => \A g \in Bots : Distance(g) \in 0..(2 * Cardinality(Guids))
    BY DistanceBounded
  <1>2. SchedulerTypeOK /\ [SchedulerNext]_schedVars
          => [\A g \in Bots : PassTowards(g) /\ CursorRests(g)]_schedVars
    BY SchedulerSteps
  <1> QED
    BY <1>1, <1>2, SafetyType, PTL DEF SchedulerSafety

\* What NeverStuck rests on besides fairness, and the budget. A pass serves a bot that
\* has its turn, or puts the cursor back to the front; from the front it serves nobody
\* only when no autonomous bot has its turn. No pass serves more than MaxBotsPerPass.
THEOREM RotationNeverStuck == SchedulerSafety => [][RotationMoves /\ BudgetKept]_schedVars
  <1>1. SchedulerTypeOK /\ [SchedulerNext]_schedVars => [RotationMoves /\ BudgetKept]_schedVars
    BY SchedulerSteps
  <1> QED
    BY <1>1, SafetyType, PTL DEF SchedulerSafety

\* The agent with its economy implements the scheduler on its own: every step of the
\* logins, visits, purchases, credits and restarts of BotSpending is a step of
\* BotScheduler or leaves its variables alone, so the two theorems above hold of it.
THEOREM ImplementsScheduler == Spec => SchedulerSafety
  <1>1. Init => SchedulerInit
    BY DEF Init
  <1>2. ASSUME [Next]_vars PROVE [SchedulerNext]_schedVars
    <2>1. ASSUME NEW g \in Guids, OnPlayerLogin(g) PROVE SchedulerNext
      BY <2>1 DEF OnPlayerLogin, SchedulerNext
    <2>2. ASSUME NEW g \in Guids, OnPlayerLogout(g) PROVE SchedulerNext
      BY <2>2 DEF OnPlayerLogout, SchedulerNext
    <2>3. ASSUME NEW g \in Guids, JoinOrLeaveParty(g) PROVE SchedulerNext
      BY <2>3 DEF JoinOrLeaveParty, SchedulerNext
    <2>4. ASSUME NEW g \in Guids, DeferredLoginReconcileEvent(g) PROVE UNCHANGED schedVars
      BY <2>4 DEF DeferredLoginReconcileEvent
    <2>5. ASSUME SchedulerPass PROVE SchedulerNext
      BY <2>5 DEF SchedulerPass, SchedulerNext
    <2>6. ASSUME Visit PROVE UNCHANGED schedVars
      BY <2>6 DEF Visit, GetProgressionSnapshot, PreviewSinkInvest, PreviewMasteryPurchase,
                  PreviewRackExpand, Candidate, PreviewResidueRackExpand, PreviewCatalyst,
                  ExecuteSinkInvest, ExecuteMasteryPurchase, ExecuteResidueRackExpand,
                  ExecuteCatalyst, Refused, AnswerSpend, UnchangedOutside
    <2>7. ASSUME Tick PROVE SchedulerNext
      BY <2>7 DEF Tick, SchedulerNext
    <2>8. ASSUME Credit PROVE UNCHANGED schedVars
      BY <2>8 DEF Credit
    <2>9. ASSUME Restart PROVE SchedulerNext
      BY <2>9 DEF Restart, SchedulerNext
    <2>10. ASSUME UNCHANGED vars PROVE UNCHANGED schedVars
      BY <2>10 DEF vars
    <2> QED
      BY <1>2, <2>1, <2>2, <2>3, <2>4, <2>5, <2>6, <2>7, <2>8, <2>9, <2>10 DEF Next
  <1> QED
    BY <1>1, <1>2, PTL DEF Spec, SchedulerSafety
================================================================================
