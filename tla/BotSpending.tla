----------------------------- MODULE BotSpending ------------------------------
(* What a Playerbot buys with its Essence and its account's Residue          *)
(* (TryOneProgressionSpendForBot): at login, and when the scheduler of       *)
(* BotScheduler comes by, at most one purchase through the action bridge.    *)
(*                                                                           *)
(* The bridge takes the Lua lock for each call by itself, so a visit is a    *)
(* series of steps: snapshot, previews, execution, answer. The login event   *)
(* runs in a map update and the scheduler in the world update that follows,  *)
(* so visits do not overlap; what moves meanwhile is the database's queue of *)
(* asynchronous writes, which credits Essence and Residue. A bridge call can *)
(* fail: no Lua state, no such function, a Lua error, a result that is no    *)
(* table. The switches of the configuration are fixed, spending is enabled   *)
(* and the module is present.                                                *)
EXTENDS BotScheduler, Integers

CONSTANTS
    Accounts, AccountOf, ClassOf,
    PolicyTable,         \* EchoesCrucibleCategoryPolicyTable
    ExpandTiers,         \* prices of the Rack's tiers, in order
    MasteryCost,         \* [0..MaxRank -> Nat]
    MaxRank,             \* bound: all later ranks cost alike
    Catalyst,            \* [cost |-> residue, reward |-> essence]
    Reserve,             \* progressionReserveEssence
    MaxSpend,            \* progressionMaxSpendPerDecision
    Cooldown,            \* progressionSpendCooldownSeconds
    MasteryEnabled, ResidueEnabled,
    MaxCredits, MaxFaults, MaxRestarts,   \* bounds of a run
    NoBot

Resources == {"SinkInvestment", "RackExpansion", "MasteryPurchase", "ResidueSpending"}
Categories == {PolicyTable[i].name : i \in DOMAIN PolicyTable}
Purses == Bots \union Accounts

ASSUME SpendingAssumption ==
    /\ Accounts \intersect Guids = {} /\ NoBot \notin Guids
    /\ AccountOf \in [Bots -> Accounts]
    /\ \A i \in DOMAIN PolicyTable : PolicyTable[i].weight \in Nat \ {0}
    /\ \E i \in DOMAIN PolicyTable : PolicyTable[i].classes = {}
    /\ ExpandTiers \in Seq([essence : Nat, residue : Nat])
    /\ \A i \in DOMAIN ExpandTiers :
          ExpandTiers[i].essence = 0 <=> ExpandTiers[i].residue # 0
    /\ MaxRank \in Nat /\ MasteryCost \in [0..MaxRank -> Nat \ {0}]
    /\ Catalyst \in [cost : Nat \ {0}, reward : Nat \ {0}]
    /\ Reserve \in Nat /\ MaxSpend \in Nat \ {0} /\ Cooldown \in Nat \ {0}
    /\ MasteryEnabled \in BOOLEAN /\ ResidueEnabled \in BOOLEAN
    /\ MaxCredits \in Nat /\ MaxFaults \in Nat /\ MaxRestarts \in Nat

VARIABLES
    aether, mastery, tier,   \* ap_mastery: Essence, rank, tiers of the Rack bought
    residue, invested,       \* ap_residue, ap_aether_sinks
    lease,         \* age of lastSpendSecondsByKey, Cooldown if there is none
    loginPending,  \* bots whose DeferredLoginReconcileEvent is in their queue
    queue,         \* bots the scheduler's pass has yet to visit, by position
    task,          \* the visit under way
    repeat,        \* age of the last purchase, and whether the bot knows of it
    credits, faults, restarts   \* how many there were

tables == <<aether, mastery, tier, residue, invested>>
counts == <<credits, faults, restarts>>
vars == <<schedVars, tables, lease, loginPending, queue, task, repeat, counts>>

Phases == {"idle", "snapshot", "sink", "mastery", "rack", "residue", "catalyst",
           "execute", "answer"}
Purchases == {"sink", "mastery", "rack", "residueRack", "catalyst", "none"}
ResourceOf == [sink |-> "SinkInvestment", mastery |-> "MasteryPurchase",
               rack |-> "RackExpansion", residueRack |-> "ResidueSpending",
               catalyst |-> "ResidueSpending"]

NoTask == [at |-> "idle", bot |-> NoBot, balance |-> 0, buys |-> "none", cost |-> 0,
           rackCost |-> 0, expectedResidue |-> 0, expectedEssence |-> 0, bought |-> {}]

SpendingTypeOK ==
    /\ SchedulerTypeOK
    /\ aether \in [Bots -> Nat] /\ mastery \in [Bots -> 0..MaxRank]
    /\ tier \in [Bots -> 0..Len(ExpandTiers)]
    /\ residue \in [Accounts -> Nat] /\ invested \in [Accounts -> [Categories -> Nat]]
    /\ lease \in [Bots -> [Resources -> 0..Cooldown]]
    /\ loginPending \subseteq inWorld
    /\ queue \subseteq {i \in DOMAIN Order : Order[i] \in Bots}
    /\ task \in [at : Phases, bot : Bots \union {NoBot}, balance : Nat, buys : Purchases,
                 cost : Nat, rackCost : Nat, expectedResidue : Nat, expectedEssence : Nat,
                 bought : SUBSET Purchases]
    /\ task.at = "idle" <=> task.bot = NoBot
    /\ repeat \in [Bots -> [Resources -> [age : 0..Cooldown, known : BOOLEAN]]]

--------------------------------------------------------------------------------
(* The policies.                                                               *)

\* EchoesSelectSinkCategoryForGuidClassAware: each category the class may use,
\* as often as it weighs; no classes means all of them.
SinkCategory(guid) ==
    LET usable == SelectSeq(PolicyTable,
            LAMBDA e : e.classes = {} \/ ClassOf[guid] \in e.classes)
        pool == FlattenSeq([i \in DOMAIN usable |->
                    [n \in 1..usable[i].weight |-> usable[i].name]])
    IN  pool[(guid % Len(pool)) + 1]

\* EvaluateProgressionSpend
\* Mutant: the reserve is compared with the balance before the purchase.
ReserveBefore(balance, cost, sinceSpend) ==
    /\ cost > 0 /\ sinceSpend >= Cooldown
    /\ cost <= MaxSpend /\ cost <= balance
    /\ balance >= Reserve
EligibleToSpend(balance, cost, sinceSpend) ==
    /\ cost > 0 /\ sinceSpend >= Cooldown
    /\ cost <= MaxSpend /\ cost <= balance
    /\ balance - cost >= Reserve

AtMaxCapacity(bot) == tier[bot] = Len(ExpandTiers)
NextTier(bot) == ExpandTiers[tier[bot] + 1]

\* EvaluateEchoesResidueSpending, for a Rack preview that did not fail:
\* rackCost is the Residue a pending tier costs, 0 if none does.
\* Mutant: the Catalyst before the Rack.
CatalystFirst(rackCost, rackResidue, catalystOk, catalystResidue) ==
    IF catalystOk /\ catalystResidue >= Catalyst.cost THEN "catalyst"
    ELSE IF rackCost > 0 /\ rackResidue >= rackCost THEN "residueRack" ELSE "none"
ResidueAction(rackCost, rackResidue, catalystOk, catalystResidue) ==
    IF rackCost > 0 THEN IF rackResidue >= rackCost THEN "residueRack" ELSE "none"
    ELSE IF catalystOk /\ catalystResidue >= Catalyst.cost THEN "catalyst" ELSE "none"

--------------------------------------------------------------------------------
(* A visit.                                                                    *)

Goto(phase) == task' = [task EXCEPT !.at = phase]

Start(bot) == [NoTask EXCEPT !.at = "snapshot", !.bot = bot]
\* The scheduler turns to the next bot of its pass.
VisitNext(rest, otherwise) ==
    /\ task' = IF rest = {} THEN otherwise ELSE Start(Order[Min(rest)])
    /\ queue' = IF rest = {} THEN {} ELSE rest \ {Min(rest)}
\* Mutant: what is left of the last visit stays behind.
FinishKeepsBot == VisitNext(queue, [task EXCEPT !.at = "idle"])
Finish == VisitNext(queue, NoTask)

\* spendAttemptedThisPass: whatever comes of an execution, the visit is over.
\* Mutant: an attempt that was reported as failed gives the next candidate its
\* turn, with the balance as it was.
TryNextIfFailed(ok) ==
    IF ok \/ task.buys \in {"residueRack", "catalyst"} THEN Finish
    ELSE Goto([sink |-> "mastery", mastery |-> "rack", rack |-> "residue"][task.buys])
            /\ UNCHANGED queue
EndAttempt(ok) == Finish

Fault == faults < MaxFaults /\ faults' = faults + 1
Calm == UNCHANGED faults

UnchangedOutside == UNCHANGED <<schedVars, loginPending, credits, restarts>>

\* Without a snapshot the visit ends: "never guess a balance".
GetProgressionSnapshot ==
    /\ task.at = "snapshot"
    /\ \/ /\ Calm
          /\ task' = [task EXCEPT !.at = "sink", !.balance = aether[task.bot]]
          /\ UNCHANGED queue
       \/ Fault /\ Finish
    /\ UNCHANGED <<tables, lease, repeat>> /\ UnchangedOutside

Execute(buys, cost) ==
    task' = [task EXCEPT !.at = "execute", !.buys = buys, !.cost = cost]

\* One candidate of those paid in Essence: a preview that fails, offers nothing
\* or is over budget passes the turn to the next candidate.
Candidate(phase, next, offered, buys, cost) ==
    /\ task.at = phase
    /\ \/ /\ Calm
          /\ IF offered /\ EligibleToSpend(task.balance, cost,
                                           lease[task.bot][ResourceOf[buys]])
             THEN Execute(buys, cost) ELSE Goto(next)
       \/ offered /\ Fault /\ Goto(next)
    /\ UNCHANGED <<tables, lease, queue, repeat>> /\ UnchangedOutside

\* The preview asks for the whole of MaxSpendPerDecision, and that is its cost.
PreviewSinkInvest == Candidate("sink", "mastery", TRUE, "sink", MaxSpend)

PreviewMasteryPurchase ==
    Candidate("mastery", "rack", MasteryEnabled, "mastery", MasteryCost[mastery[task.bot]])

PreviewRackExpand ==
    LET offered == /\ ~AtMaxCapacity(task.bot)
                   /\ NextTier(task.bot).essence > 0 /\ NextTier(task.bot).residue = 0
    IN  Candidate("rack", "residue", offered, "rack",
                  IF offered THEN NextTier(task.bot).essence ELSE 0)

\* Candidate 4 looks at the Rack, then at the Catalyst. Without a Rack preview
\* neither is bought.
PreviewResidueRackExpand ==
    LET pending == /\ ~AtMaxCapacity(task.bot)
                   /\ NextTier(task.bot).essence = 0 /\ NextTier(task.bot).residue > 0
    IN  /\ task.at = "residue"
        /\ \/ /\ ResidueEnabled /\ Calm
              /\ task' = [task EXCEPT !.at = "catalyst",
                            !.rackCost = IF pending THEN NextTier(task.bot).residue ELSE 0,
                            !.expectedResidue = residue[AccountOf[task.bot]]]
              /\ UNCHANGED queue
           \/ ResidueEnabled /\ Fault /\ Finish
           \/ ~ResidueEnabled /\ Calm /\ Finish
        /\ UNCHANGED <<tables, lease, repeat>> /\ UnchangedOutside

PreviewCatalyst ==
    /\ task.at = "catalyst"
    /\ \E ok \in BOOLEAN :
          LET seen == residue[AccountOf[task.bot]]
              action == ResidueAction(task.rackCost, task.expectedResidue, ok, seen)
          IN  /\ IF ok THEN Calm ELSE Fault
              /\ IF action = "none" \/ lease[task.bot]["ResidueSpending"] < Cooldown
                 THEN Finish
                 ELSE /\ task' = [task EXCEPT !.at = "execute", !.buys = action,
                            !.cost = IF action = "catalyst" THEN Catalyst.cost
                                     ELSE task.rackCost,
                            !.expectedResidue = IF action = "catalyst" THEN seen ELSE @,
                            !.expectedEssence = aether[task.bot]]
                      /\ UNCHANGED queue
    /\ UNCHANGED <<tables, lease, repeat>> /\ UnchangedOutside

\* The purchase is in the tables; whether the bot hears of it is still open.
Bought ==
    /\ task' = [task EXCEPT !.at = "answer", !.bought = @ \union {task.buys},
                            !.expectedEssence = aether'[task.bot],
                            !.expectedResidue = residue'[AccountOf[task.bot]]]
    /\ repeat' = [repeat EXCEPT ![task.bot][ResourceOf[task.buys]] =
                    [age |-> 0, known |-> FALSE]]
    /\ Calm
    /\ UNCHANGED <<queue, lease>>

\* What a service that compares finds changed, or cannot be paid any more.
Stale ==
    LET b == task.bot
    IN  CASE task.buys = "sink" -> aether[b] < task.cost
          [] task.buys = "mastery" -> aether[b] < MasteryCost[mastery[b]]
          [] task.buys = "rack" -> TRUE
          [] task.buys = "residueRack" -> residue[AccountOf[b]] # task.expectedResidue
          [] OTHER -> \/ residue[AccountOf[b]] # task.expectedResidue
                      \/ aether[b] # task.expectedEssence

\* A refusal, or a write that failed: nothing was spent and nothing is recorded.
Refused ==
    /\ task.at = "execute"
    /\ \/ Stale /\ Calm
       \/ Fault
    /\ EndAttempt(FALSE)
    /\ UNCHANGED <<tables, lease, repeat>> /\ UnchangedOutside

\* AP.Sinks.Invest takes the amount the bot decided on.
ExecuteSinkInvest ==
    /\ task.at = "execute" /\ task.buys = "sink"
    /\ aether[task.bot] >= task.cost
    /\ aether' = [aether EXCEPT ![task.bot] = @ - task.cost]
    /\ invested' = [invested EXCEPT ![AccountOf[task.bot]][SinkCategory(task.bot)] =
                        @ + task.cost]
    /\ UNCHANGED <<mastery, tier, residue>>
    /\ Bought /\ UnchangedOutside

\* AP.Mastery.Purchase computes the price itself.
ExecuteMasteryPurchase ==
    LET price == MasteryCost[mastery[task.bot]]
    IN  /\ task.at = "execute" /\ task.buys = "mastery"
        /\ aether[task.bot] >= price
        /\ aether' = [aether EXCEPT ![task.bot] = @ - price]
        /\ mastery' = [mastery EXCEPT ![task.bot] = IF @ < MaxRank THEN @ + 1 ELSE @]
        /\ UNCHANGED <<tier, residue, invested>>
        /\ Bought /\ UnchangedOutside

\* ExecuteRackExpand passes only the player, without the expectations that
\* PurchaseEssenceExpand insists on: it is always Refused.

ExecuteResidueRackExpand ==
    LET a == AccountOf[task.bot]
    IN  /\ task.at = "execute" /\ task.buys = "residueRack"
        /\ residue[a] = task.expectedResidue
        /\ residue' = [residue EXCEPT ![a] = @ - task.cost]
        /\ tier' = [tier EXCEPT ![task.bot] = @ + 1]
        /\ UNCHANGED <<aether, mastery, invested>>
        /\ Bought /\ UnchangedOutside

ExecuteCatalyst ==
    LET a == AccountOf[task.bot]
    IN  /\ task.at = "execute" /\ task.buys = "catalyst"
        /\ residue[a] = task.expectedResidue /\ aether[task.bot] = task.expectedEssence
        /\ residue' = [residue EXCEPT ![a] = @ - Catalyst.cost]
        /\ aether' = [aether EXCEPT ![task.bot] = @ + Catalyst.reward]
        /\ UNCHANGED <<mastery, tier, invested>>
        /\ Bought /\ UnchangedOutside

\* The service reads back what it wrote; a credit that came in between looks
\* like a failure.
Verified ==
    /\ task.buys \in {"sink", "mastery", "catalyst"} => aether[task.bot] = task.expectedEssence
    /\ task.buys \in {"residueRack", "catalyst"}
          => residue[AccountOf[task.bot]] = task.expectedResidue

\* Which purchases the bridge's ok records in the lease.
\* Mutant: an investment only if the snapshot after it shows the new balance,
\* which an asynchronous write has not reached yet.
RecordedAfterSnapshot(buys) == buys # "sink"
Recorded(buys) == TRUE

\* The bot hears of its purchase, or hears of a failure.
AnswerSpend ==
    /\ task.at = "answer"
    /\ LET resource == ResourceOf[task.buys]
       IN  \/ /\ Calm /\ Verified
              /\ lease' = IF Recorded(task.buys)
                          THEN [lease EXCEPT ![task.bot][resource] = 0] ELSE lease
              /\ repeat' = [repeat EXCEPT ![task.bot][resource].known = TRUE]
              /\ EndAttempt(TRUE)
           \/ /\ \/ ~Verified /\ Calm
                 \/ Fault
              /\ EndAttempt(FALSE)
              /\ UNCHANGED <<lease, repeat>>
    /\ UNCHANGED tables /\ UnchangedOutside

--------------------------------------------------------------------------------
(* The world around.                                                           *)

Quiet == task.at = "idle"
unchangedBySched == <<tables, repeat, task, counts>>

\* A character logs in with its event 1.5 s ahead; if it leaves earlier, the
\* event goes with it.
OnPlayerLogin(g) ==
    /\ Quiet /\ EnterWorld(g)
    /\ loginPending' = loginPending \union {g}
    /\ UNCHANGED <<lease, queue, unchangedBySched>>

OnPlayerLogout(g) ==
    /\ Quiet /\ LeaveWorld(g)
    /\ loginPending' = loginPending \ {g}
    /\ UNCHANGED <<lease, queue, unchangedBySched>>

\* A human has no Playerbot AI: the event does nothing. A controlled bot's does.
DeferredLoginReconcileEvent(g) ==
    /\ Quiet /\ g \in loginPending
    /\ loginPending' = loginPending \ {g}
    /\ task' = IF g \in Bots THEN Start(g) ELSE task
    /\ UNCHANGED <<schedVars, tables, lease, queue, repeat, counts>>

JoinOrLeaveParty(g) ==
    /\ Quiet /\ ChangeMaster(g)
    /\ UNCHANGED <<lease, queue, loginPending, unchangedBySched>>

SchedulerPass ==
    /\ Quiet /\ RunProgressionSchedulerPass
    /\ VisitNext(Evaluated, NoTask)
    /\ UNCHANGED <<tables, lease, loginPending, repeat, counts>>

\* Game time stands still during a world update.
Tick ==
    /\ Quiet /\ SchedulerTick
    /\ lease' = [b \in Bots |-> [r \in Resources |-> Older(lease[b][r], Cooldown)]]
    /\ repeat' = [b \in Bots |-> [r \in Resources |->
                    [repeat[b][r] EXCEPT !.age = Older(@, Cooldown)]]]
    /\ UNCHANGED <<tables, queue, loginPending, task, counts>>

\* A reward reaches a table out of the asynchronous queue.
Credit ==
    /\ credits < MaxCredits /\ credits' = credits + 1
    /\ \/ \E b \in Bots : aether' = [aether EXCEPT ![b] = @ + 1] /\ UNCHANGED residue
       \/ \E a \in Accounts : residue' = [residue EXCEPT ![a] = @ + 1] /\ UNCHANGED aether
    /\ UNCHANGED <<schedVars, mastery, tier, invested, lease, loginPending, queue, task,
                   repeat, faults, restarts>>

\* The process ends, in the middle of a visit or not. The leases die with it.
Restart ==
    /\ restarts < MaxRestarts /\ restarts' = restarts + 1
    /\ OnShutdown
    /\ lease' = [b \in Bots |-> [r \in Resources |-> Cooldown]]
    /\ repeat' = [b \in Bots |-> [r \in Resources |-> [repeat[b][r] EXCEPT !.known = FALSE]]]
    /\ loginPending' = {} /\ queue' = {} /\ task' = NoTask
    /\ UNCHANGED <<tables, credits, faults>>

--------------------------------------------------------------------------------
Init ==
    /\ SchedulerInit
    /\ aether = [b \in Bots |-> 0] /\ mastery = [b \in Bots |-> 0]
    /\ tier \in [Bots -> 0..Len(ExpandTiers)]
    /\ residue = [a \in Accounts |-> 0]
    /\ invested = [a \in Accounts |-> [c \in Categories |-> 0]]
    /\ lease = [b \in Bots |-> [r \in Resources |-> Cooldown]]
    /\ loginPending = {} /\ queue = {} /\ task = NoTask
    /\ repeat = [b \in Bots |-> [r \in Resources |-> [age |-> Cooldown, known |-> FALSE]]]
    /\ credits = 0 /\ faults = 0 /\ restarts = 0

Visit ==
    \/ GetProgressionSnapshot \/ PreviewSinkInvest \/ PreviewMasteryPurchase
    \/ PreviewRackExpand \/ PreviewResidueRackExpand \/ PreviewCatalyst
    \/ ExecuteSinkInvest \/ ExecuteMasteryPurchase \/ ExecuteResidueRackExpand
    \/ ExecuteCatalyst \/ Refused \/ AnswerSpend

Next ==
    \/ \E g \in Guids : \/ OnPlayerLogin(g) \/ OnPlayerLogout(g)
                        \/ DeferredLoginReconcileEvent(g) \/ JoinOrLeaveParty(g)
    \/ SchedulerPass \/ Visit \/ Tick \/ Credit \/ Restart

Spec == Init /\ [][Next]_vars

--------------------------------------------------------------------------------
(* Properties.                                                                 *)

\* "Minimum Essence balance a bot will never spend below - always retained":
\* the decision uses a balance read several lock holds earlier.
ReserveRetained ==
    [][\A b \in Bots : aether'[b] < aether[b] => aether'[b] >= Reserve]_vars

\* "Never two back-to-back": a visit makes one purchase at most and costs the
\* bot no more than MaxSpendPerDecision, even if it is told that its purchase
\* failed when it did not.
OneSpendPerVisit ==
    task.at # "idle" =>
        /\ \A p, q \in task.bought : p = q
        /\ task.at # "snapshot" => aether[task.bot] >= task.balance - MaxSpend

\* A resource is not bought twice within the cooldown by a bot that knows of
\* its purchase, whichever of login and scheduler comes by. (A purchase that
\* was reported as a failure, or that an earlier process made, is not known.)
CooldownKept ==
    [][\A b \in Bots, r \in Resources :
          repeat'[b][r].age = 0 /\ ~repeat'[b][r].known /\ repeat[b][r].known
              => repeat[b][r].age >= Cooldown \/ restarts' # restarts]_vars

\* "Rack is the permanent foundational choice": no Residue goes into the
\* Catalyst while the bot has a tier of its Rack pending that Residue buys.
RackBeforeCatalyst ==
    [][\A b \in Bots : aether'[b] = aether[b] + Catalyst.reward
            /\ residue'[AccountOf[b]] < residue[AccountOf[b]]
          => \/ tier[b] = Len(ExpandTiers)
             \/ ExpandTiers[tier[b] + 1].residue = 0]_vars
================================================================================
