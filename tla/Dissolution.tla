--------------------------- MODULE Dissolution ---------------------------
(***************************************************************************)
(* The dissolution transaction of the Legacy Forge (ap_forge.lua): a       *)
(* fully attuned item is destroyed and its owner is paid Essence, gold and *)
(* Worldsoul Residue.  A durable row of ap_dissolution_pending moves       *)
(*                                                                         *)
(*    PENDING_REMOVAL -> REMOVED -> COMPLETE                               *)
(*                                                                         *)
(* around the removal and the payment, and a pass at every login resolves  *)
(* the rows an earlier session left behind.                                *)
(*                                                                         *)
(* All Lua handlers run in one thread, so at most one of them is under     *)
(* way: `task' is that handler and the point it has reached.  What may     *)
(* happen between two of its points is a crash of the server.  A durable   *)
(* write, a read, a call into the core and a save of the character may     *)
(* each fail; a failed write leaves the database as it was.  A write that  *)
(* the server rejects is a "silent" fault: CharDBDirectExecute returns     *)
(* nothing, so ExecuteCritical reports success; a "write" fault is one it  *)
(* does report.                                                            *)
(*                                                                         *)
(* The module's own rows, and the UPDATE that pays, are written at once.   *)
(* A save of the character is only queued by the core (Player::SaveToDB):  *)
(* a worker applies the saves of a character in their order, at any later  *)
(* time, so the UPDATE may run ahead of a save that was queued before it,  *)
(* which then writes the old amount of gold over the payment.              *)
(*                                                                         *)
(* Left out: the wording of the pages, and the clearing of the Rack slot   *)
(* that holds the item, which touches only ap_rack and follows the last    *)
(* point modelled here.                                                    *)
(***************************************************************************)
EXTENDS Integers, Sequences

CONSTANTS
    Char, Account, Item,    \* characters (guid), their accounts, item entries
    NoChar, NoItem,
    AccountOf,              \* [Char -> Account]
    Essence, Gold, Residue, \* [Item -> Nat], the reward of an item
    Copies,                 \* [Char -> [Item -> Nat]], what the bags hold at first
    Attuned,                \* the pairs <<c, i>> with attuned = 1, which is permanent
    OlderBuild,             \* the pairs an older build left with a RECORDED row
    MaxFaults,              \* [FaultKind -> Nat], the bound on the faults of a run
    MaxQueued               \* the bound on the saves of a character that wait

FaultKind == {"crash", "write", "silent", "read", "call", "save"}

ASSUME ConstantsAssumption ==
    /\ NoChar \notin Char
    /\ NoItem \notin Item
    /\ AccountOf \in [Char -> Account]
    /\ Essence \in [Item -> Nat]
    /\ Gold \in [Item -> Nat]
    /\ Residue \in [Item -> Nat]
    /\ Copies \in [Char -> [Item -> Nat]]
    /\ Attuned \subseteq Char \X Item
    /\ OlderBuild \subseteq Char \X Item
    /\ MaxFaults \in [FaultKind -> Nat]
    /\ MaxQueued \in Nat \ {0}

VARIABLES
    pending,   \* ap_dissolution_pending: [Char -> [Item -> Status]]
    dissolved, \* ap_dissolved_items: a set of pairs <<account, item>>
    aether,    \* ap_mastery.aether: [Char -> Nat]
    residue,   \* ap_residue.amount: [Account -> Nat]
    saved,     \* the core's tables for each character: inventory and money
    queued,    \* the saves of each character that wait for the core's worker
    live,      \* the character in memory; Absent while it is offline
    online,    \* the characters in the world
    confirm,   \* AP.Forge.Pending: the item of the open confirmation page
    task,      \* the handler under way
    faults,    \* how many faults of each kind have happened
    removed,   \* history: how often RemoveItem took the item from the character
    credited,  \* history: how often the character was paid for the item
    earned,    \* history: the gold those payments brought
    overtaken  \* history: the characters a payment of whom ran ahead of a queued save

durable == <<pending, dissolved, aether, residue, saved>>
volatile == <<queued, live, online, confirm, task>>
history == <<removed, credited, earned, overtaken>>
vars == <<durable, volatile, faults, history>>

-----------------------------------------------------------------------------
\* A missing row is "NONE".  RECORDED is written by older builds only.
Status == {"NONE", "PENDING_REMOVAL", "REMOVED", "RECORDED", "COMPLETE"}

\* The points of a handler.  The reconciliation pass is at "reconciling" between
\* two rows; the others have an item in hand.
ItemPoint == {"removing", "saving", "marking", "preparing", "crediting", "syncing"}
Point == ItemPoint \union {"idle", "reconciling"}

Character == [bag : [Item -> Nat], coin : Nat, token : Nat]

QueuedType == [Char -> Seq(Character)]

\* What memory holds of a character that is not in the world: nothing.
Absent == [bag |-> [i \in Item |-> 0], coin |-> 0, token |-> 0]

TaskType == [at : Point, via : {"none", "gossip", "direct", "login"},
             char : Char \union {NoChar}, item : Item \union {NoItem},
             rows : SUBSET Item]

Idle == [at |-> "idle", via |-> "none", char |-> NoChar, item |-> NoItem, rows |-> {}]

TypeOK ==
    /\ pending \in [Char -> [Item -> Status]]
    /\ dissolved \subseteq Account \X Item
    /\ aether \in [Char -> Nat]
    /\ residue \in [Account -> Nat]
    /\ saved \in [Char -> Character]
    /\ queued \in QueuedType
    /\ live \in [Char -> Character]
    /\ online \subseteq Char
    /\ confirm \in [Char -> Item \union {NoItem}]
    /\ task \in TaskType
    /\ task.at # "idle" => task.char \in online
    /\ task.at \in ItemPoint => task.item \in Item
    /\ faults \in [FaultKind -> Nat]
    /\ removed \in [Char -> [Item -> Nat]]
    /\ credited \in [Char -> [Item -> Nat]]
    /\ earned \in [Char -> Nat]
    /\ overtaken \subseteq Char

\* Mutant: a bare reservation counts as recoverable.
RecoverableTooWide == {"PENDING_REMOVAL", "REMOVED", "RECORDED"}

\* The rows a dissolution may be paid from.
Recoverable == {"REMOVED", "RECORDED"}

Row == pending[task.char][task.item]
SetRow(status) == pending' = [pending EXCEPT ![task.char][task.item] = status]

NoFault == UNCHANGED faults
Fault(kind) == /\ faults[kind] < MaxFaults[kind]
               /\ faults' = [faults EXCEPT ![kind] = @ + 1]
Clean(kind) == faults[kind] = 0

\* A write that changes nothing, reported or not.
WriteLost == Fault("write") \/ Fault("silent")

Goto(point) == task' = [task EXCEPT !.at = point]

\* The end of work on an item: the reconciliation pass goes on to its next row, a
\* call of Dissolve closes the confirmation.
EndItem ==
    /\ task' = IF task.via = "login"
               THEN [task EXCEPT !.at = "reconciling", !.item = NoItem,
                                 !.rows = @ \ {task.item}]
               ELSE Idle
    /\ confirm' = IF task.via = "gossip"
                  THEN [confirm EXCEPT ![task.char] = NoItem]
                  ELSE confirm

\* Player::SaveToDB hands the character to the worker of the character database.
Enqueue(c, state) ==
    /\ Len(queued[c]) < MaxQueued
    /\ queued' = [queued EXCEPT ![c] = Append(@, state)]

\* SavePlayerToDB saves the character as it is in memory.  The result is ignored or
\* only logged; a save that fails is never queued.
SavePlayerToDB(c, state) ==
    \/ Enqueue(c, state) /\ NoFault
    \/ queued' = queued /\ Fault("save")

\* What the tables hold once the worker has caught up.
Landed(c) == IF queued[c] = <<>> THEN saved[c] ELSE queued[c][Len(queued[c])]

-----------------------------------------------------------------------------
InitCharacter(c) == [bag |-> Copies[c], coin |-> 0, token |-> 0]

Init ==
    /\ pending = [c \in Char |-> [i \in Item |->
                    IF <<c, i>> \in OlderBuild THEN "RECORDED" ELSE "NONE"]]
    /\ dissolved = {<<AccountOf[p[1]], p[2]>> : p \in OlderBuild}
    /\ aether = [c \in Char |-> 0]
    /\ residue = [a \in Account |-> 0]
    /\ saved = [c \in Char |-> InitCharacter(c)]
    /\ queued = [c \in Char |-> <<>>]
    /\ live = [c \in Char |-> Absent]
    /\ online = {}
    /\ confirm = [c \in Char |-> NoItem]
    /\ task = Idle
    /\ faults = [kind \in FaultKind |-> 0]
    /\ removed = [c \in Char |-> [i \in Item |-> IF <<c, i>> \in OlderBuild THEN 1 ELSE 0]]
    /\ credited = [c \in Char |-> [i \in Item |-> 0]]
    /\ earned = [c \in Char |-> 0]
    /\ overtaken = {}

-----------------------------------------------------------------------------
\* The player opens the confirmation page of an item the Forge lists ...
ShowConfirm(c, i) ==
    /\ task.at = "idle" /\ c \in online
    /\ <<c, i>> \in Attuned
    /\ confirm' = [confirm EXCEPT ![c] = i]
    /\ UNCHANGED <<durable, queued, live, online, task, faults, history>>

\* ... and leaves it with "Keep this item", or presses "Dissolve" and fails one of the
\* checks (the item is worn or gone, a row or a read is missing, the insert fails).
CloseConfirm(c) ==
    /\ task.at = "idle" /\ c \in online
    /\ confirm[c] # NoItem
    /\ confirm' = [confirm EXCEPT ![c] = NoItem]
    /\ UNCHANGED <<durable, queued, live, online, task, faults, history>>

\* Mutant: the insert overwrites a row that is in flight.
ReservableTooWide == Status

\* A row that does not stop a new reservation of the same item.
Reservable == {"NONE", "COMPLETE"}

\* Mutant: the check of the permanent ledger is missing.
PassesGuardsNoLedger(c, i, ledgerLost, rowLost) ==
    /\ pending[c][i] \notin Reservable => rowLost = 1
    /\ <<c, i>> \in Attuned
    /\ live[c].bag[i] > 0

\* Whether the checks before the removal let the item through.  A failed read and an
\* absent row look the same, so a lost read of ap_dissolved_items or of the pending
\* row lets it through, while a lost read of ap_item_attune turns it away.
PassesGuards(c, i, ledgerLost, rowLost) ==
    /\ <<AccountOf[c], i>> \in dissolved => ledgerLost = 1
    /\ pending[c][i] \notin Reservable => rowLost = 1
    /\ <<c, i>> \in Attuned
    /\ live[c].bag[i] > 0

\* Every check of Dissolve ("gossip") or DissolveDirect ("direct") passes and
\* CreatePendingRecord reserves the row, or believes it has.
Reserve(c, i, via) ==
    /\ task.at = "idle" /\ c \in online
    /\ via = "gossip" => confirm[c] = i
    /\ \E ledgerLost, rowLost, unwritten \in 0..1 :
          /\ faults["read"] + ledgerLost + rowLost <= MaxFaults["read"]
          /\ faults["silent"] + unwritten <= MaxFaults["silent"]
          /\ PassesGuards(c, i, ledgerLost, rowLost)
          /\ faults' = [faults EXCEPT !["read"] = @ + ledgerLost + rowLost,
                                      !["silent"] = @ + unwritten]
          /\ pending' = IF unwritten = 1 THEN pending
                        ELSE [pending EXCEPT ![c][i] = "PENDING_REMOVAL"]
    /\ task' = [at |-> "removing", via |-> via, char |-> c, item |-> i, rows |-> {}]
    /\ UNCHANGED <<dissolved, aether, residue, saved, queued, live, online, confirm, history>>

\* The core takes one copy from the bags.
RemoveItem ==
    /\ task.at = "removing"
    /\ live[task.char].bag[task.item] > 0
    /\ live' = [live EXCEPT ![task.char].bag[task.item] = @ - 1]
    /\ removed' = [removed EXCEPT ![task.char][task.item] = @ + 1]
    /\ Goto("saving")
    /\ UNCHANGED <<durable, queued, online, confirm, faults, credited, earned, overtaken>>

\* The core refuses; the reservation is deleted unless that write fails too.
RemoveFails ==
    /\ task.at = "removing"
    /\ \/ SetRow("NONE") /\ Fault("call")
       \/ \E lost \in {"write", "silent"} :
             /\ pending' = pending
             /\ \A kind \in {"call", lost} : faults[kind] < MaxFaults[kind]
             /\ faults' = [faults EXCEPT !["call"] = @ + 1, ![lost] = @ + 1]
    /\ EndItem
    /\ UNCHANGED <<dissolved, aether, residue, saved, queued, live, online, history>>

\* Mutant: the removal is left to the next periodic save.
SaveRemovalSkipped ==
    /\ task.at = "saving"
    /\ Goto("marking")
    /\ UNCHANGED <<durable, queued, live, online, confirm, faults, history>>

\* The save of the removal is queued before the row says REMOVED.
SaveRemoval ==
    /\ task.at = "saving"
    /\ SavePlayerToDB(task.char, live[task.char])
    /\ Goto("marking")
    /\ UNCHANGED <<durable, live, online, confirm, history>>

\* MarkPendingStatus updates the row, if there is one; its result is ignored.
MarkRemoved ==
    /\ task.at = "marking"
    /\ \/ Row # "NONE" /\ SetRow("REMOVED") /\ NoFault
       \/ Row = "NONE" /\ pending' = pending /\ NoFault
       \/ pending' = pending /\ WriteLost
    /\ Goto("preparing")
    /\ UNCHANGED <<dissolved, aether, residue, saved, queued, live, online, confirm, history>>

-----------------------------------------------------------------------------
\* GrantDissolutionRewards, called by the dissolution and by the recovery.

\* Mutant: the permanent ledger is not written before the payment.
PrepareGrantUnrecorded ==
    /\ task.at = "preparing"
    /\ Row \in Recoverable
    /\ Goto("crediting")
    /\ UNCHANGED <<durable, queued, live, online, confirm, faults, history>>

\* It reads the status back, and makes sure the reward rows and the row of the
\* permanent ledger exist before anything is paid.
PrepareGrant ==
    /\ task.at = "preparing"
    /\ Row \in Recoverable
    /\ \/ dissolved' = dissolved \union {<<AccountOf[task.char], task.item>>} /\ NoFault
       \/ dissolved' = dissolved /\ Fault("silent")
    /\ Goto("crediting")
    /\ UNCHANGED <<pending, aether, residue, saved, queued, live, online, confirm, history>>

\* The row is not in a state to be paid, or the read or one of the writes failed.
GrantDeferred ==
    /\ task.at = "preparing"
    /\ \/ Row \notin Recoverable /\ NoFault
       \/ Fault("read")
       \/ Fault("write")
    /\ EndItem
    /\ UNCHANGED <<durable, queued, live, online, history>>

\* One UPDATE over four tables pays Essence, Residue and gold and completes the row.  It
\* is executed at once, whatever saves of the character are still queued.
CreditRewards ==
    /\ task.at = "crediting"
    /\ Row \in Recoverable
    /\ LET c == task.char  i == task.item  a == AccountOf[c] IN
          /\ aether' = [aether EXCEPT ![c] = @ + Essence[i]]
          /\ residue' = [residue EXCEPT ![a] = @ + Residue[i]]
          /\ saved' = [saved EXCEPT ![c].coin = @ + Gold[i]]
          /\ credited' = [credited EXCEPT ![c][i] = @ + 1]
          /\ earned' = [earned EXCEPT ![c] = @ + Gold[i]]
          /\ overtaken' = IF queued[c] = <<>> THEN overtaken ELSE overtaken \union {c}
    /\ SetRow("COMPLETE")
    /\ \/ Goto("syncing") /\ UNCHANGED confirm /\ NoFault
       \/ EndItem /\ Fault("read")             \* "reward_write_unconfirmed"
    /\ UNCHANGED <<dissolved, queued, live, online, removed>>

\* The UPDATE fails, or the read-back finds that it did.
CreditFails ==
    /\ task.at = "crediting"
    /\ WriteLost
    /\ EndItem
    /\ UNCHANGED <<durable, queued, live, online, history>>

\* Mutant: the gold is left out of the amount in memory.
CoinAfterStale(coin, gold, got, set) == coin

\* What SetCoinage leaves in memory: the amount read before the UPDATE plus the gold.
\* GetCoinage that fails reads 0, SetCoinage that fails changes nothing.
CoinAfter(coin, gold, got, set) ==
    IF ~set THEN coin ELSE IF got THEN coin + gold ELSE gold

\* The character in memory is brought up to date (AddItem brings the Residue) and saved.
SyncRepresentations ==
    /\ task.at = "syncing"
    /\ \E got, set, added, stored \in BOOLEAN :
          LET c == task.char  i == task.item
              bad(ok) == IF ok THEN 0 ELSE 1
              calls == bad(got) + bad(set) + bad(added)
              state == [live[c] EXCEPT !.coin = CoinAfter(@, Gold[i], got, set),
                                       !.token = IF added THEN @ + Residue[i] ELSE @]
          IN  /\ faults["call"] + calls <= MaxFaults["call"]
              /\ stored \/ faults["save"] < MaxFaults["save"]
              /\ faults' = [faults EXCEPT !["call"] = @ + calls, !["save"] = @ + bad(stored)]
              /\ live' = [live EXCEPT ![c] = state]
              /\ IF stored THEN Enqueue(c, state) ELSE queued' = queued
    /\ EndItem
    /\ UNCHANGED <<durable, online, history>>

-----------------------------------------------------------------------------
\* Mutant: the recovery does not look for rows of older builds.
OpenRowsCurrentBuild(c) == {i \in Item : pending[c][i] \in {"PENDING_REMOVAL", "REMOVED"}}

\* The core loads the character, by a query that waits behind its saves in the queue, and
\* ReconcilePendingDissolutions reads its open rows; a failed read finds none.
OpenRows(c) == {i \in Item : pending[c][i] \notin {"NONE", "COMPLETE"}}

Login(c) ==
    /\ task.at = "idle" /\ c \notin online
    /\ queued[c] = <<>>
    /\ online' = online \union {c}
    /\ live' = [live EXCEPT ![c] = saved[c]]
    /\ \E rows \in {OpenRows(c), {}} :
          /\ IF rows = OpenRows(c) THEN NoFault ELSE Fault("read")
          /\ task' = [at |-> "reconciling", via |-> "login", char |-> c,
                      item |-> NoItem, rows |-> rows]
    /\ UNCHANGED <<durable, queued, confirm, history>>

\* A reservation whose item is taken to be untouched is deleted ...
DiscardReservation(i) ==
    /\ task.at = "reconciling" /\ i \in task.rows
    /\ pending[task.char][i] = "PENDING_REMOVAL"
    /\ \/ pending' = [pending EXCEPT ![task.char][i] = "NONE"] /\ NoFault
       \/ pending' = pending /\ WriteLost
    /\ task' = [task EXCEPT !.rows = @ \ {i}]
    /\ UNCHANGED <<dissolved, aether, residue, saved, queued, live, online, confirm, history>>

\* Mutant: the pass forgets which row it pays.
RecoverRewardNoItem(i) ==
    /\ task.at = "reconciling" /\ i \in task.rows
    /\ pending[task.char][i] \in Recoverable
    /\ task' = [task EXCEPT !.at = "preparing"]
    /\ UNCHANGED <<durable, queued, live, online, confirm, faults, history>>

\* ... and a row whose item is gone is paid.
RecoverReward(i) ==
    /\ task.at = "reconciling" /\ i \in task.rows
    /\ pending[task.char][i] \in Recoverable
    /\ task' = [task EXCEPT !.at = "preparing", !.item = i]
    /\ UNCHANGED <<durable, queued, live, online, confirm, faults, history>>

\* Then the login handler levels item 900011 with the ledger, if it can read both and
\* the core moves the items.
LevelResidue ==
    /\ task.at = "reconciling" /\ task.rows = {}
    /\ LET c == task.char
           exact == [live[c] EXCEPT !.token = residue[AccountOf[c]]]
       IN  \/ /\ live[c] # exact
              /\ live' = [live EXCEPT ![c] = exact]
              /\ SavePlayerToDB(c, exact)
           \/ live[c] = exact /\ UNCHANGED <<live, queued, faults>>
           \/ Fault("read") /\ UNCHANGED <<live, queued>>
           \/ live[c] # exact /\ Fault("call") /\ UNCHANGED <<live, queued>>
    /\ task' = Idle
    /\ UNCHANGED <<durable, online, confirm, history>>

-----------------------------------------------------------------------------
\* The core saves a character now and then and when it leaves.
AutoSave(c) ==
    /\ task.at = "idle" /\ c \in online
    /\ Enqueue(c, live[c])
    /\ UNCHANGED <<durable, live, online, confirm, task, faults, history>>

Logout(c) ==
    /\ task.at = "idle" /\ c \in online
    /\ SavePlayerToDB(c, live[c])
    /\ live' = [live EXCEPT ![c] = Absent]
    /\ online' = online \ {c}
    /\ UNCHANGED <<durable, confirm, task, history>>

\* The worker of the character database executes the oldest save of a character.
ApplyQueued(c) ==
    /\ queued[c] # <<>>
    /\ saved' = [saved EXCEPT ![c] = Head(queued[c])]
    /\ queued' = [queued EXCEPT ![c] = Tail(@)]
    /\ UNCHANGED <<pending, dissolved, aether, residue, live, online, confirm, task,
                   faults, history>>

\* A crash loses whatever is only in memory.  When that includes queued saves it counts as
\* a failed save, too, beyond what MaxFaults allows of those.
Crash ==
    /\ online # {} \/ \E c \in Char : queued[c] # <<>>
    /\ faults["crash"] < MaxFaults["crash"]
    /\ faults' = [faults EXCEPT !["crash"] = @ + 1,
                                !["save"] = IF \A c \in Char : queued[c] = <<>>
                                            THEN @ ELSE @ + 1]
    /\ queued' = [c \in Char |-> <<>>]
    /\ live' = [c \in Char |-> Absent]
    /\ online' = {}
    /\ confirm' = [c \in Char |-> NoItem]
    /\ task' = Idle
    /\ UNCHANGED <<durable, history>>

-----------------------------------------------------------------------------
\* A handler that has started runs to its end.
HandlerStep ==
    \/ RemoveItem \/ RemoveFails \/ SaveRemoval \/ MarkRemoved
    \/ PrepareGrant \/ GrantDeferred \/ CreditRewards \/ CreditFails \/ SyncRepresentations
    \/ \E i \in Item : DiscardReservation(i) \/ RecoverReward(i)
    \/ LevelResidue

PlayerStep ==
    \E c \in Char :
        \/ Login(c) \/ Logout(c) \/ AutoSave(c) \/ CloseConfirm(c)
        \/ \E i \in Item : \/ ShowConfirm(c, i)
                           \/ \E via \in {"gossip", "direct"} : Reserve(c, i, via)

Next == HandlerStep \/ PlayerStep \/ (\E c \in Char : ApplyQueued(c)) \/ Crash

Spec == Init /\ [][Next]_vars

\* Handlers are not abandoned, the worker goes on, and the player of a character with an
\* open row comes back to it: it logs out in the end, and in again.
Fairness ==
    /\ WF_vars(HandlerStep)
    /\ \A c \in Char : WF_vars(ApplyQueued(c)) /\ SF_vars(Login(c)) /\ SF_vars(Logout(c))

FairSpec == Spec /\ Fairness

-----------------------------------------------------------------------------
\* Properties.  Those that a fault of some kind would break say so.

PaymentDue == {"REMOVED", "RECORDED"}
Resolved == {"NONE", "COMPLETE"}
Owed(c, i) == IF pending[c][i] \in PaymentDue THEN 1 ELSE 0

\* A character is paid for an item, or owed a payment by a row the recovery will honour,
\* at most as often as RemoveItem took it from the bags: no fault or crash creates value.
RewardNeedsRemoval ==
    \A c \in Char, i \in Item : credited[c][i] + Owed(c, i) <= removed[c][i]

\* Whatever was paid for is in the permanent ledger of the account, so that a crash right
\* after the payment cannot reopen the item (Dissolve: "Record in ap_dissolved_items
\* BEFORE any reward grants"), as long as a write that is reported done is done.
PaidIsRecorded ==
    Clean("silent") => \A c \in Char, i \in Item :
        credited[c][i] > 0 \/ pending[c][i] = "COMPLETE" => <<AccountOf[c], i>> \in dissolved

\* However often a dissolution is interrupted and recovered, a character is paid once
\* for an item, as long as no guard read failed and no write was lost silently.
OncePerCharacter ==
    Clean("read") /\ Clean("silent") => \A c \in Char, i \in Item : credited[c][i] <= 1

\* As long as no save is lost, an item that was paid for, or is owed a payment, is gone
\* from the inventory the worker will have written: nobody logs in to both the item and
\* its reward.
NoDuplication ==
    Clean("save") =>
        \A c \in Char, i \in Item :
            Landed(c).bag[i] + credited[c][i] + Owed(c, i)
                <= Copies[c][i] + (IF <<c, i>> \in OlderBuild THEN 1 ELSE 0)

\* With reads and writes that work, the login pass leaves no open row behind, and no
\* finished handler does: whatever crashes happened, a character in the world has none.
NoDanglingRow ==
    Clean("read") /\ Clean("write") /\ Clean("silent") /\ task.at = "idle" =>
        \A c \in online, i \in Item : pending[c][i] \in Resolved

\* A row that owes a payment stays until it is paid: neither a retry of the player nor
\* the recovery overwrites or deletes it, as long as no guard read failed.
EscrowNeverDropped ==
    [][Clean("read")' => \A c \in Char, i \in Item :
         pending[c][i] \in PaymentDue => pending'[c][i] \in {pending[c][i], "COMPLETE"}]_vars

\* A payment of the character ran ahead of a save that still holds the old amount of gold,
\* and the save that ends the same handler, which repairs that, is to come or may be lost.
GoldAtRisk(c) ==
    /\ c \in overtaken
    /\ \/ ~Clean("crash") \/ ~Clean("save")
       \/ task.at = "syncing" /\ task.char = c

\* Otherwise the gold of every payment is in the money the worker will have written, and
\* no save takes it back, as long as the calls into the core and the read that confirms
\* the payment work.
GoldKept ==
    Clean("read") /\ Clean("call") =>
        \A c \in Char : ~GoldAtRisk(c) => Landed(c).coin = earned[c]

\* Every open row is resolved in the end.
RowsSettle ==
    \A c \in Char, i \in Item :
        pending[c][i] \notin Resolved ~> pending[c][i] \in Resolved

-----------------------------------------------------------------------------
\* The promise of the transaction: a reward is escrowed and then paid, whole and once.
StageOf(status) == CASE status \in PaymentDue -> "escrowed"
                     [] status = "COMPLETE" -> "paid"
                     [] OTHER -> "held"

Escrow == INSTANCE RewardEscrow WITH
    Escrowed <- OlderBuild,
    stage <- [c \in Char |-> [i \in Item |-> StageOf(pending[c][i])]]

EscrowSpec == Escrow!Spec
=============================================================================
