------------------------------ MODULE Ledger ------------------------------
(***************************************************************************)
(* Essence and Residue and what they buy: Mastery ranks (ap_core.lua),     *)
(* talent ranks (ap_botapi.lua), Crucible investments (ap_sinks.lua), Rack *)
(* slots (ap_rack.lua) and the Catalyst (ap_forge.lua).  Each purchase     *)
(* looks at the balances, writes a guarded UPDATE bound to exactly what it *)
(* saw, reads the result back and answers; one paid in Residue then brings *)
(* item 900011 of every online character of the account to the ledger.     *)
(*                                                                         *)
(* Handlers run one at a time.  What moves under a handler is the queue of *)
(* asynchronous writes: the Essence of an absorbed Echo Fragment is applied *)
(* by the database's own worker.  A failed read or write changes nothing,  *)
(* and whether a failed write was reported is left open.                   *)
(*                                                                         *)
(* Left out: the audit rows and messages after an answer, the zero rows    *)
(* that a purchase makes sure exist before it writes, and the commands of  *)
(* a game master.  The one talent and the one investment a character may   *)
(* buy stand for all of them.                                              *)
(***************************************************************************)
EXTENDS Integers

CONSTANTS
    Char, Account, NoChar,
    AccountOf,        \* [Char -> Account]
    MaxLevel,         \* levels of a good; for the uncapped ones a bound
    Price,            \* [Good \ {"invest"} -> [0..(MaxLevel - 1) -> Cost]]
    Catalyst,         \* what the Catalyst takes and yields
    Reward,           \* what a quest, kill or dissolution pays
    FragmentEssence,  \* what an Echo Fragment pays
    TollCap,          \* the most Essence a death costs
    OldTokens,        \* how many items 900011 an earlier save may have held
    MaxRewards,       \* bound: rewards, fragments and tolls of a run
    MaxFaults         \* [FaultKind -> Nat], bound: the faults of a run

\* What has levels; the level of an investment is the Essence put into it.
Good == {"mastery", "talent", "invest", "rack"}
Kind == Good \union {"catalyst"}
Cost == [essence : Nat, residue : Nat]
FaultKind == {"crash", "read", "write", "call"}

\* Only the Rack has prices in Residue, and each of its tiers has one price.
ASSUME LedgerAssumption ==
    /\ NoChar \notin Char /\ Char \intersect Account = {}
    /\ AccountOf \in [Char -> Account]
    /\ MaxLevel \in Nat
    /\ Price \in [Good \ {"invest"} -> [0..(MaxLevel - 1) -> Cost]]
    /\ \A k \in Good \ {"invest"}, n \in 0..(MaxLevel - 1) :
          /\ k # "rack" => Price[k][n].residue = 0
          /\ Price[k][n].residue > 0 => Price[k][n].essence = 0
    /\ Catalyst \in [residue : Nat \ {0}, yield : Nat]
    /\ Reward \subseteq Cost
    /\ FragmentEssence \in Nat /\ [essence |-> FragmentEssence, residue |-> 0] \in Reward
    /\ TollCap \in Nat
    /\ OldTokens \subseteq Nat
    /\ MaxRewards \in Nat
    /\ MaxFaults \in [FaultKind -> Nat]

VARIABLES
    aether,  \* ap_mastery.aether: [Char -> Nat]
    residue, \* ap_residue.amount: [Account -> Nat]
    level,   \* ap_mastery.mastery and rack_slots, ap_talents.rank, ap_aether_sinks.invested
    queued,  \* fragment rewards in the asynchronous queue: [Char -> Nat]
    token,   \* item 900011 each character holds: [Char -> Nat]
    online,  \* the characters in the world
    task,    \* the purchase under way
    rewards, \* how many rewards, fragments and tolls there were
    faults   \* how many faults of each kind there were

tables == <<aether, residue, level>>
vars == <<tables, queued, token, online, task, rewards, faults>>

-----------------------------------------------------------------------------
\* What a purchase looks at.  The Catalyst has no level.
Holder(c, k) == IF k = "invest" THEN AccountOf[c] ELSE c

View(c, k) ==
    [essence |-> aether[c], residue |-> residue[AccountOf[c]],
     level |-> IF k = "catalyst" THEN 0 ELSE level[Holder(c, k)][k]]

Seen == [essence : Nat, residue : Nat, level : 0..MaxLevel]
NoSeen == [essence |-> 0, residue |-> 0, level |-> 0]

Status == {"NONE", "SUCCESS", "STALE_PREVIEW", "DATABASE_FAILURE", "POST_VERIFY_FAILURE",
           "SERVICE_UNAVAILABLE"}

TaskType == [at : {"idle", "checking", "writing", "verifying", "syncing", "answering"},
             kind : Kind \union {"none"}, char : Char \union {NoChar}, seen : Seen,
             by : 0..MaxLevel, spent : BOOLEAN, status : Status]

Idle == [at |-> "idle", kind |-> "none", char |-> NoChar, seen |-> NoSeen,
         by |-> 0, spent |-> FALSE, status |-> "NONE"]

TypeOK ==
    /\ aether \in [Char -> Nat]
    /\ residue \in [Account -> Nat]
    /\ level \in [Char \union Account -> [Good -> 0..MaxLevel]]
    /\ queued \in [Char -> Nat]
    /\ token \in [Char -> Nat]
    /\ online \subseteq Char
    /\ task \in TaskType
    /\ task.at # "idle" => task.char \in online /\ task.kind \in Kind
    /\ rewards \in Nat
    /\ faults \in [FaultKind -> Nat]

NoFault == UNCHANGED faults
Fault(kind) == /\ faults[kind] < MaxFaults[kind]
               /\ faults' = [faults EXCEPT ![kind] = @ + 1]
Clean(kind) == faults[kind] = 0

\* How far one purchase of kind k may go: by one level, or by the amount invested.
Steps(k) == IF k = "invest" THEN 1..MaxLevel ELSE IF k = "catalyst" THEN {0} ELSE {1}

\* What it costs one who is at level n.
CostOf(k, n, by) ==
    CASE k = "catalyst" -> [essence |-> 0, residue |-> Catalyst.residue]
      [] k = "invest" -> [essence |-> by, residue |-> 0]
      [] OTHER -> Price[k][n]

Affordable(k, seen, by) ==
    /\ seen.level + by <= MaxLevel
    /\ seen.essence >= CostOf(k, seen.level, by).essence
    /\ seen.residue >= CostOf(k, seen.level, by).residue

\* The columns the UPDATE and its verification compare: the level, and the balances the
\* price is taken from; the Catalyst compares both balances.
Compared(k, n, by) ==
    IF k = "catalyst" THEN {"essence", "residue"}
    ELSE {"level"} \union (IF CostOf(k, n, by).residue > 0 THEN {"residue"} ELSE {"essence"})

Matches(now, want, columns) == \A f \in columns : now[f] = want[f]

\* What the verification expects to read.
Target(k, seen, by) ==
    [essence |-> seen.essence - CostOf(k, seen.level, by).essence
                  + (IF k = "catalyst" THEN Catalyst.yield ELSE 0),
     residue |-> seen.residue - CostOf(k, seen.level, by).residue,
     level |-> seen.level + by]

\* The same of the purchase under way.
TaskColumns == Compared(task.kind, task.seen.level, task.by)
TaskTarget == Target(task.kind, task.seen, task.by)
TaskView == View(task.char, task.kind)

Answer(status) == task' = [task EXCEPT !.at = "answering", !.status = status]

-----------------------------------------------------------------------------
Init ==
    /\ aether = [c \in Char |-> 0]
    /\ residue = [a \in Account |-> 0]
    /\ level = [h \in Char \union Account |-> [k \in Good |-> 0]]
    /\ queued = [c \in Char |-> 0]
    /\ token = [c \in Char |-> 0]
    /\ online = {}
    /\ task = Idle
    /\ rewards = 0
    /\ faults = [kind \in FaultKind |-> 0]

-----------------------------------------------------------------------------
\* A purchase starts from the balances and the level it reads (PreviewCatalyst,
\* PreviewExpand, LoadMastery).  One that cannot be afforded is refused here, as is one
\* whose first read fails, and changes nothing.
Start(c, k, by) ==
    /\ task.at = "idle" /\ c \in online
    /\ Affordable(k, View(c, k), by)
    /\ task' = [at |-> IF k = "rack" THEN "checking" ELSE "writing", kind |-> k,
                char |-> c, seen |-> View(c, k), by |-> by,
                spent |-> FALSE, status |-> "NONE"]
    /\ UNCHANGED <<tables, queued, token, online, rewards, faults>>

\* The Rack compares the preview with the row once more before it writes.
Check ==
    /\ task.at = "checking"
    /\ \/ /\ IF Matches(TaskView, task.seen, TaskColumns)
             THEN task' = [task EXCEPT !.at = "writing"]
             ELSE Answer("STALE_PREVIEW")
          /\ NoFault
       \/ Answer("SERVICE_UNAVAILABLE") /\ Fault("read")
    /\ UNCHANGED <<tables, queued, token, online, rewards>>

\* The guarded UPDATE sets relative amounts ...
Apply ==
    LET c == task.char  k == task.kind  a == AccountOf[c]
        cost == CostOf(k, task.seen.level, task.by)
    IN  /\ aether' = [aether EXCEPT ![c] = @ - cost.essence +
                        (IF k = "catalyst" THEN Catalyst.yield ELSE 0)]
        /\ residue' = [residue EXCEPT ![a] = @ - cost.residue]
        /\ level' = IF k = "catalyst" THEN level
                    ELSE [level EXCEPT ![Holder(c, k)][k] = task.seen.level + task.by]

\* Mutant: the UPDATE writes the amounts computed from what was seen, unguarded.
WriteOverwriting ==
    /\ task.at = "writing"
    /\ aether' = [aether EXCEPT ![task.char] = TaskTarget.essence]
    /\ residue' = [residue EXCEPT ![AccountOf[task.char]] = TaskTarget.residue]
    /\ level' = IF task.kind = "catalyst" THEN level
                ELSE [level EXCEPT ![Holder(task.char, task.kind)][task.kind] = TaskTarget.level]
    /\ task' = [task EXCEPT !.at = "verifying", !.spent = TRUE]
    /\ UNCHANGED <<queued, token, online, rewards, faults>>

\* ... and matches only the row that was seen.
Write ==
    /\ task.at = "writing"
    /\ \/ /\ IF Matches(TaskView, task.seen, TaskColumns)
             THEN Apply /\ task' = [task EXCEPT !.at = "verifying", !.spent = TRUE]
             ELSE UNCHANGED tables /\ task' = [task EXCEPT !.at = "verifying"]
          /\ NoFault
       \/ /\ UNCHANGED tables
          /\ Answer("DATABASE_FAILURE") \/ task' = [task EXCEPT !.at = "verifying"]
          /\ Fault("write")
    /\ UNCHANGED <<queued, token, online, rewards>>

\* Mutant: a call that did not fail is taken for a purchase.
VerdictTrusting == "SUCCESS"

\* The read-back decides what is answered.
Verdict ==
    IF Matches(TaskView, TaskTarget, TaskColumns)
    THEN "SUCCESS" ELSE "STALE_PREVIEW"

PaidInResidue == "residue" \in TaskColumns

Verify ==
    /\ task.at = "verifying"
    /\ \/ /\ task' = [task EXCEPT !.at = IF PaidInResidue THEN "syncing" ELSE "answering",
                                  !.status = Verdict]
          /\ NoFault
       \/ Answer("POST_VERIFY_FAILURE") /\ Fault("read")
    /\ UNCHANGED <<tables, queued, token, online, rewards>>

\* Mutant: only the buyer's bags are brought to the ledger.
LevelledBuyer(c) == {c}

\* SyncResidueAccountRepresentations levels every online character of the account.
Levelled(c) == {d \in online : AccountOf[d] = AccountOf[c]}

Sync ==
    /\ task.at = "syncing"
    /\ LET levelled == Levelled(task.char) IN
       \/ /\ token' = [d \in Char |-> IF d \in levelled THEN residue[AccountOf[d]] ELSE token[d]]
          /\ NoFault
       \/ \E failed \in levelled :     \* the core refuses one of them
             /\ token' = [d \in Char |-> IF d \in levelled \ {failed}
                                         THEN residue[AccountOf[d]] ELSE token[d]]
             /\ Fault("call")
    /\ Answer(task.status)
    /\ UNCHANGED <<tables, queued, online, rewards>>

\* The caller shows the answer.
Return ==
    /\ task.at = "answering"
    /\ task' = Idle
    /\ UNCHANGED <<tables, queued, token, online, rewards, faults>>

-----------------------------------------------------------------------------
\* Income and losses, each a handler of its own.
CountReward == rewards < MaxRewards /\ rewards' = rewards + 1

\* GrantAether and GrantMilestoneAether add at once; the payment of a dissolution adds
\* Residue too and puts as many items in the bags, unless the core refuses.
Pay(c, reward) ==
    /\ task.at = "idle" /\ c \in online
    /\ CountReward
    /\ aether' = [aether EXCEPT ![c] = @ + reward.essence]
    /\ residue' = [residue EXCEPT ![AccountOf[c]] = @ + reward.residue]
    /\ \/ token' = [token EXCEPT ![c] = @ + reward.residue] /\ NoFault
       \/ token' = token /\ reward.residue > 0 /\ Fault("call")
    /\ UNCHANGED <<level, queued, online, task>>

\* OnEchoFragmentUse (and a PvP reward) leaves the Essence to the asynchronous queue ...
UseFragment(c) ==
    /\ task.at = "idle" /\ c \in online
    /\ CountReward
    /\ queued' = [queued EXCEPT ![c] = @ + 1]
    /\ UNCHANGED <<tables, token, online, task, faults>>

\* ... whose worker applies it at any time, whatever handler runs.
ApplyQueued(c) ==
    /\ queued[c] > 0
    /\ queued' = [queued EXCEPT ![c] = @ - 1]
    /\ aether' = [aether EXCEPT ![c] = @ + FragmentEssence]
    /\ UNCHANGED <<residue, level, token, online, task, rewards, faults>>

\* Mutant: the toll is not limited to what the character has.
DeathTollUnlimited(c) ==
    /\ task.at = "idle" /\ c \in online
    /\ CountReward
    /\ \E lost \in 1..TollCap : aether' = [aether EXCEPT ![c] = @ - lost]
    /\ UNCHANGED <<residue, level, queued, token, online, task, faults>>

\* A death under World Threat.
DeathToll(c) ==
    /\ task.at = "idle" /\ c \in online
    /\ CountReward
    /\ \E lost \in 1..TollCap :
          /\ lost <= aether[c]
          /\ aether' = [aether EXCEPT ![c] = @ - lost]
    /\ UNCHANGED <<residue, level, queued, token, online, task, faults>>

\* The login handler levels the items with the ledger, unless a read or the core fails.
LoginLevel(c) ==
    \/ token' = [token EXCEPT ![c] = residue[AccountOf[c]]] /\ NoFault
    \/ token' = token /\ Fault("read")
    \/ token' = token /\ token[c] # residue[AccountOf[c]] /\ Fault("call")

Login(c) ==
    /\ task.at = "idle" /\ c \notin online
    /\ online' = online \union {c}
    /\ LoginLevel(c)
    /\ UNCHANGED <<tables, queued, task, rewards>>

Logout(c) ==
    /\ task.at = "idle" /\ c \in online
    /\ online' = online \ {c}
    /\ UNCHANGED <<tables, queued, token, task, rewards, faults>>

\* A crash empties the queue and brings back the inventory of an earlier save.
Crash ==
    /\ online # {}
    /\ Fault("crash")
    /\ token' \in [Char -> OldTokens]
    /\ queued' = [c \in Char |-> 0]
    /\ online' = {}
    /\ task' = Idle
    /\ UNCHANGED <<tables, rewards>>

-----------------------------------------------------------------------------
PurchaseStep == Check \/ Write \/ Verify \/ Sync \/ Return

PlayerStep ==
    \E c \in Char :
        \/ \E k \in Kind : \E by \in Steps(k) : Start(c, k, by)
        \/ \E reward \in Reward : Pay(c, reward)
        \/ UseFragment(c) \/ DeathToll(c) \/ Login(c) \/ Logout(c)

Next == PurchaseStep \/ PlayerStep \/ (\E c \in Char : ApplyQueued(c)) \/ Crash

Spec == Init /\ [][Next]_vars

-----------------------------------------------------------------------------
\* Properties.

\* A buyer who is told SUCCESS has paid and has the good, however the write failed and
\* whatever moved the balances meanwhile (ap04_db.lua:225: a call that completed "does
\* not prove that a guarded statement matched or changed a row").
SuccessMeansSpent ==
    task.at \in {"syncing", "answering"} /\ task.status = "SUCCESS" => task.spent

\* While reads and the core work, no character in the world carries more Residue than the
\* account owns, even when it is in the world next to the character that spent it.
NoExcessTokens ==
    task.at = "idle" /\ Clean("read") /\ Clean("call") =>
        \A c \in online : token[c] <= residue[AccountOf[c]]

\* Asynchronous rewards, lost writes and crashes notwithstanding, the three tables change
\* only as the abstract exchange does: never a price without its
\* good, a good without its price, or a reward undone.
ExchangeOf == INSTANCE Exchange
ExchangeSpec == ExchangeOf!Spec
=============================================================================
