# Echoes of the Worldsoul: specifications

TLA+ models of *Echoes of the Worldsoul*, a progression mod for an AzerothCore
(WotLK) server, with the TLC runs that check them and the TLAPS proofs about
them. Paths are relative to the repository root as `src/...`; `ap_forge:716` is
line 716 of `src/lua_scripts/ap_forge.lua`, and so on.

## 1. Inventory of the system

The mod has four programs. The **Lua scripts** run inside the world server (one
Lua state, one thread, handlers called by the core) and own the rules and the
database tables `ap_*`. Two **C++ modules** are compiled into the server: one
drives playerbots through the same rules, one adds stats in the core's hooks.
The **client AddOn** shows state and sends requests. The **installer** puts it
all on a server.

| component | state | operations | talks to | hard part | what makes it correct |
|---|---|---|---|---|---|
| Legacy Forge, dissolution (`ap_forge`) | `ap_dissolution_pending`, `ap_dissolved_items`, confirmation pages in memory | confirm, dissolve, bot dissolve, recovery at login | core inventory and money, Rack, Essence, Residue | the core's tables and the mod's cannot be written in one transaction: crash and failed call between any two steps | no reward without a removal, no removal without a reward, paid once |
| Legacy Forge, Residue (`ap_forge`) | `ap_residue` per account, item 900011 per character | catalyst purchase, levelling at login | Essence (`ap_mastery`), inventory | stale preview, unconfirmed write, two characters online | the ledger is the truth and items follow it; a purchase is whole or not at all |
| Database layer (`ap04_db`) | none | Query, Execute (asynchronous), ExecuteCritical (synchronous) | MySQL through the server | a failed query looks like no row | callers that must tell the difference do |
| Runtime adapter (`ap01`, `ap02`, `ap00`, `ap03`) | which host functions exist | item, money, save, events | the core | each call may fail and says so in its own way | failure is reported, never taken for success |
| Core (`ap_core`, `ap_items`) | Essence, Mastery, attunement progress, snapshots | grant, purchase Mastery, absorb, attune | all | read, compare and write against other writers; asynchronous grants | no level without its cost, no lost Essence |
| Echo Rack (`ap_rack`) | `ap_rack` slots, cache in memory, expansions | load, add, remove, expand, equip | inventory, Forge, Core | cache against asynchronous writes; an item worn and racked | a slot holds one item, an item one slot |
| Crucible (`ap_sinks`) | talent ranks, cache | invest, respec, load | Essence | compare-and-swap, stale cache after a failure | ranks match what was paid |
| Events (`ap_events`) | quest, milestone, threat and fragment rows, maps in memory | kill, quest, login, death, equip hooks | Core, Rack, Items | claim and grant in two writes, single fragment slot | claimed once, granted once |
| Protocol and Visage (`ap_protocol`, `ap_visage`, `ap_auralab`) | preview tokens, aura state | hello, preview, commit, snapshot | AddOn, Core, Rack | stale tokens, reconnect | a commit does what the preview showed |
| Bot API and bridge (`ap_botapi`, `EchoesActionBridge`) | action results, bounded to 200 | preview, validate, execute | Forge, Rack, Core | every call takes the Lua lock by itself and may fail after it has done its work | what is reported as done was done; what failed is not taken for done |
| Playerbot agent (`EchoesHooks`, `ProgressionBudgetPolicy`, `ProgressionSchedulerPolicy`, `ResidueSpendingPolicy`) | check times, rotating cursor, spending leases per bot and resource | pass of the scheduler, visit of a bot at login and in a pass | bridge | a visit is seven or more separate lock holds; the population changes under the cursor; a purchase that is reported as failed | reserve and budget kept, one purchase a visit, cooldown kept, no bot forgotten |
| Playerbot gear (`EchoesHooks`, `Awareness`, `Disposition`, `Protection`, `DissolutionPolicy`, `BotCache`, `Presence`) | cache of attunement per bot, list of protected items, presence state | equip hook, sell hook, login scan, handshake | bridge, database, core inventory | decisions of hooks far apart in time about the same item, on facts up to 60 s old | nothing protected is dissolved, nothing but what is obsolete is, the lists stay bounded |
| Stats module: bonus (`EchoesStatsHooks`) | what was added to each player, when it was last computed | login, level change, logout, recheck, configuration | database, core stats | nobody signals a purchase; a difference is applied to a record in memory | the record is what was added; a bonus is out of date for a bounded time |
| Stats module: blows (`EchoesStatsHooks`, `EchoesStatsCalculator`) | four caches per account | OnDamage, ModifySpellDamageTaken | database, core combat | caches hit by every blow; a reflected spell calls the damage hook again; truncation | no entry outlives its lifetime; blows stay within the ceilings |
| Gossip UI, commands, tutorial, texts | pages | dispatch | all | none | none of their own |
| PvP, GM, doctor, extension API | hooks registered | dispatch | all | a hook that fails | the others still run |
| Client AddOn | state store, screens | apply message, request | protocol | out of order messages | the newest state wins |
| Installer | files, manifest, backups | install, upgrade, repair, uninstall | file system, SQL | failure in the middle | user files survive |
| DBC and MPQ tools, SQL schema | files, tables | build, migrate | installer | formats | not modelled |

## 2. Plan

In order of importance, each with its abstract specification where one exists:

| | module | abstract specification | state |
|---|---|---|---|
| 1 | `Dissolution`: reserve, remove, pay, recover | `RewardEscrow` | modelled, checked, proved |
| 2 | `Ledger`: the guarded purchases, the asynchronous credits that race them, the items that follow the account | `Exchange` | modelled, checked, proved |
| 3 | `Attunement`: the Rack's slots, cache and asynchronous rows, the equip hook; progress, attunement and snapshots through kills, quests, deaths and logins | none: the invariants say it | modelled, checked, proved |
| 4 | `StatBonus` over `EchoesStatsCalculator`: the bonus of a player through purchases, relogs, levels and passes | the bonus converges to what the database asks for | modelled, checked, proved |
| 5 | `CombatHooks` over `EchoesStatsCalculator`: blows, spells, caches | none: bounds on what a blow becomes | modelled, checked, proved |
| 6 | `BotScheduler`, composed with the visit of a bot in `BotSpending`: snapshot, previews, execution and answer as steps of their own | the comments of the budget policy | modelled, checked, proved |
| 7 | `BotGear`: equip, sell and login hooks, tracker, cache, offers, presence | the comments of the policies | modelled, checked, proved |
| 8 | `Events`: claim then pay, quest timer, fragment slot, debt | a claim is paid at most once | not modelled (section 6) |
| 9 | `Protocol` with `Visage`: draft, commit, timer, reconnect | what is committed is what was previewed last | not modelled |
| 10 | `Installer` and `ClientState` | files of the user survive; the newest snapshot wins | not modelled |

Every safety property of the passing runs is a theorem; what the provers cannot reach,
liveness under fairness, is named at the end of section 5 with what is proved of it.

## 3. How the model is laid out

    RewardEscrow <--implements-- Dissolution --- DissolutionProofs
                                       \-- MCDissolution + Dissolution*.cfg
    Exchange     <--implements-- Ledger ------- LedgerProofs
                                       \-- MCLedger + Ledger*.cfg
    Attunement --- AttunementProofs
              \-- MCAttunement + Attunement*.cfg
    EchoesStatsCalculator <-- StatBonus --- StatBonusProofs --> FiniteSums
                          |       \-- MCStatBonus + StatBonus.cfg
                          <-- CombatHooks --- CombatHooksProofs
                                  \-- MCCombatHooks + CombatHooks.cfg
    BotScheduler <-- BotSpending --- BotSpendingProofs
           |               \-- MCBotSpending + BotSpending.cfg
           \-- MCBotScheduler + BotScheduler*.cfg
    BotGear --- BotGearProofs
        \-- MCBotGear + BotGear*.cfg

`PROJECT.json` names, for every definition, the lines it stands for.

### Handlers, faults and time, in the modules of the Lua scripts

* The Lua state is one thread: the core calls a handler and waits for it, and the
  playerbots module takes the same lock (`LOCK_ALE`). So at most one handler is
  under way. `task` is that handler with the point it has reached; an action takes
  it to the next point. Between two points the model allows what the code cannot
  exclude: a crash of the server and the database's own worker, which applies what was
  queued at any later time: the module's asynchronous writes in `Ledger` and
  `Attunement`, the core's saves of a character in `Dissolution`.
* A *fault* is one of a few kinds, counted in `faults` and bounded by `MaxFaults`.
  `crash`: the process dies. `read`: a query fails, which the code cannot tell from
  an empty result (`ap04_db:175-180`). `write`: `ExecuteCritical` fails and says so,
  or (in `Ledger`, where it is left open) does not. `silent`: in `Dissolution`, the
  write that fails and is reported done, because `CharDBDirectExecute` returns
  nothing. `call`: the core refuses (`RemoveItem`, `AddItem`, `GetCoinage`,
  `SetCoinage`). `save`: `SavePlayerToDB` returns false and nothing is queued, or a
  crash finds saves in the queue, which are lost with it. The second kind comes with any
  crash, so `MaxFaults["save"]` does not bound it; it is counted all the same, and
  `Clean("save")` means that no save was lost in either way.
* A write that fails leaves the database as it was: a statement, or a
  multi-table UPDATE, is one transaction of MySQL.
* A property that a kind of fault would break starts with `Clean(kind) =>`. The
  runs still contain those faults, because the other properties have to survive
  them.

### `Dissolution` (`ap_forge`, with `ap02` and `ap04_db`)

| variable | code |
|---|---|
| `pending` | `ap_dissolution_pending.status`, one row per character and item entry, `"NONE"` when there is none |
| `dissolved` | `ap_dissolved_items`, per account |
| `aether`, `residue` | `ap_mastery.aether`, `ap_residue.amount` |
| `saved`, `live` | the core's tables of a character, and the character in memory: copies in the bags, money, items 900011; `Absent` while it is offline |
| `queued` | the saves of a character that `Player::SaveToDB` has handed to the worker of the character database, oldest first |
| `confirm` | `AP.Forge.Pending`, the open confirmation |
| `task`, `online`, `faults` | as above |
| `removed`, `credited`, `earned`, `overtaken` | history, for the properties only: removals, payments, the gold they brought, and whose payment ran ahead of a queued save |

| action | code |
|---|---|
| `ShowConfirm`, `CloseConfirm` | the page, and every way to leave it without a reservation |
| `Reserve` | the checks of `Dissolve` (a page) or `DissolveDirect` (a bot) and `CreatePendingRecord` |
| `RemoveItem`, `RemoveFails`, `SaveRemoval`, `MarkRemoved` | `Dissolve` from `RemoveItem` to `REMOVED` |
| `PrepareGrant`, `CreditRewards`, `SyncRepresentations`, `GrantDeferred`, `CreditFails` | `GrantDissolutionRewards`: record and make the rows exist, the one UPDATE that pays, money and items in memory; and its error exits |
| `Login`, `DiscardReservation`, `RecoverReward`, `LevelResidue` | player event 3: `ReconcilePendingDissolutions`, then the Residue items |
| `AutoSave`, `Logout`, `ApplyQueued`, `Crash` | the core; `ApplyQueued` is its worker, which writes the oldest save of a character into the tables |

A save takes the character as it is in memory and is queued; the rows of the module and the
UPDATE that pays are executed at once. So the save of the removal (`ap_forge:716`) may land
after the UPDATE that pays (161-173) and write the old money over the payment, until the
save that ends the handler (188) lands; a crash in between makes the loss final, or, before
the removal has landed, brings the item back beside a row that owes. `Landed` is what the
tables will hold when the worker has caught up. The core is external: assumed are a worker
that takes the saves of one character in their order, which is what the default of one
worker thread gives, and a login whose queries wait behind them in the same queue.

The payment is one UPDATE over four tables (`ap_forge:161-172`), which is why
`CreditRewards` pays Essence, gold and Residue and completes the row in one step.
The comparison of the item being worn is one more way for `CloseConfirm` to happen.
A `RECORDED` row is written by no line of this version; it is what an upgrade may
find, so `OlderBuild` puts some in the initial state.

### `Ledger` (`ap_core`, `ap_botapi`, `ap_sinks`, `ap_rack`, `ap_forge`, `ap_items`, `ap_events`)

Five purchases share one shape: read, check, one guarded UPDATE that compares the
balances and the level it saw, read back, answer. They differ in what they compare
(`Compared`), in the price (`CostOf`) and in who owns the level (`Holder`). The
model has one set of actions for them and keeps those differences:

| kind | code | paid in | checked twice before the write | level |
|---|---|---|---|---|
| `mastery` | `Mastery.Purchase` (`ap_core:484`) | Essence | no | character |
| `talent` | `ExecuteTalentPurchase` (`ap_botapi:513`) | Essence | no | character |
| `invest` | `Sinks.Invest` (`ap_sinks:351`), any amount | Essence | no | account |
| `rack` | `PurchaseEssenceExpand`, `PurchaseExpand` (`ap_rack:105`) | Essence or Residue, by tier | yes (`Check`) | character |
| `catalyst` | `PurchaseCatalyst` (`ap_forge:338`) | Residue, yields Essence | no | none |

| action | code |
|---|---|
| `Start` | the preview and the first read; a refusal there changes nothing and is left out |
| `Check`, `Write`, `Verify` | the second comparison, the UPDATE, the read-back |
| `Sync` | `SyncResidueAccountRepresentations`, after a purchase in Residue that was verified or came out stale, but not after a failed read-back |
| `Return` | the answer is shown |
| `Pay`, `UseFragment`, `ApplyQueued`, `DeathToll` | income at once, income through the asynchronous queue, the loss at a death |
| `Login`, `Logout`, `Crash` | `Login` levels item 900011 with the ledger; a crash empties the queue and brings back an inventory saved earlier |

Simplifications: one talent and one category of investments stand for all;
`UseFragment` also stands for the Essence of a PvP kill, which takes the same path; the
preview and the purchase are one handler, which is true of the gossip pages (a bot's
two calls take the lock separately, which is `BotSpending`); a payment whose write is lost
is no step at all; `AddResidue` and `SpendResidue` (`ap_forge:397-424`) have no
caller and are left out, and so are the game master's commands. Balances are unbounded
naturals, so the 32-bit reads listed under the hazards are not seen.

### `Attunement` (`ap_rack`, `ap_events`, `ap_core`)

| variable | code |
|---|---|
| `rack`, `cache`, `queue` | `ap_rack`; `AP.Rack.Cache`; the writes to `ap_rack` that `ExecuteAsync` has taken and the worker has not applied |
| `slots` | `ap_mastery.rack_slots` |
| `place` | whether the character wears an item, has it in the bags or bank, or not at all |
| `progress`, `attuned`, `snapshot` | `ap_item_attune` per character, and the account's items in `ap_item_snapshot` |
| `task` | the handler under way: the loop it is in, the items it has still to visit, the snapshot it takes next |
| `raced` | history: whose Rack was loaded, or emptied by an equip, ahead of a queued write |

| action | code |
|---|---|
| `AddItem`, `RemoveItem`, `Expand` | `ap_rack:288`, `389`, `516` |
| `Dissolve` | what a paid dissolution does to the Rack (`ap_forge:737`, and the same lines in `DissolveDirect`) |
| `Equip` | player event 29 |
| `Kill`, `CreditWorn`, `CreditRacked`, `CheckAttuned`, `Capture` | player event 12: the first look, the two loops, `CheckAttuned`, the snapshot |
| `Quest`, `AttuneReward` | player event 54: snapshot, then row |
| `Death`, `Weaken` | player event 8 under World Threat: what is worn and unfinished loses some progress |
| `Login`, `Migrate`, `Recapture`, `Load` | player event 3: the two migrations of `ap_events`, then `Rack.Load` |
| `ApplyQueued`, `Move`, `Logout`, `Crash` | the core and its database |

Simplifications: an item entry that sits in two slots is credited once per kill; how
much progress a kill gives, or a death takes, is any amount the formula allows; a
quest has one reward at a time, and its 500 ms timer and claim are not modelled; the
price of a slot is in `Ledger`; a deferred dissolution reward, which clears no slot,
is a `Move`; a reload of the scripts, which empties the cache, is left out; so is a failed
read in `GetScaledCap` (`ap_core:581-599`), after which a kill is credited against the
unscaled cap.

### `EchoesStatsCalculator`, `StatBonus` (`EchoesStatsCalculator.h`, `EchoesStatsHooks.cpp`)

`EchoesStatsCalculator` holds the pure functions, one operator for each. The code
computes in doubles; the model counts thousandths and rounds down. Every diminishing
curve has the shape `ceiling * (1 - exp(-k * n))`; `Saturation` gives the second factor
in thousandths and is a constant of which only monotony, the range and "0 at 0" are
assumed: a small investment may have a factor of 0 at this precision, as it has in the code
wherever the result is truncated. The chance to reflect is compared with a roll as the code
does it, cut down to a whole number of ten-thousandths (`uint32`), which is 0 up to about
1000 Essence. What depends on a finer value of a double is out of sight.

| variable of `StatBonus` | code |
|---|---|
| `mastery`, `talents`, `snapshots`, `invested` | the tables the queries read, written by the Lua scripts |
| `enabled` | `EchoesStats.Enable` |
| `status`, `level`, `mods` | the Player object: offline, in the world or between two maps; `mods` is what the module added to it |
| `appliedByGuid`, `sinceRecalc`, `sincePass` | the maps of the same names, timestamps kept as ages |
| `due` | the players the running periodic pass has still to visit |
| `reading` | a recalculation between its first queries and its last: what it has read |
| `wrongFor` | history: for how many world updates the database has been ahead |

| action | code |
|---|---|
| `BuyMastery`, `BuyTalent`, `Attune`, `InvestSink` | commits of the Lua scripts, of which the module is told nothing |
| `OnPlayerLogin`, `OnPlayerLevelChanged`, `OnPlayerLogout`, `Teleport` | the player hooks; `FinishRecalculation` is the second half of the first two |
| `OnUpdate`, `RecheckPlayer`, `FinishRecalculation` | the periodic pass, player by player |
| `OnAfterConfigLoad`, `OnShutdown` | the world hooks |

A recalculation is two steps, because commits of the database's worker fall between
its queries. The recheck period is counted in world updates.

### `CombatHooks`

`cache` is the four per-account caches (`Kinds`), `now` the clock of their entries,
`invested` the table, `overtaken` a history variable: for how long an entry has been
behind the table. `Strike` is a blow (`OnDamage`), `CastSpell` a spell: the core calls
`ModifySpellDamageTaken`, which may reflect, and then deals the damage, which calls
`OnDamage`. A blow is one step and leaves behind only what it looked up, so the properties
about damage are stated for every blow that could be struck in a state, with what
its caches would serve. The caches are those of a server with one map-update thread.

### `BotScheduler`, `BotSpending` (`EchoesHooks.cpp` and the policies)

| variable | code |
|---|---|
| `inWorld`, `controlled` | the players `ObjectAccessor` yields, and the bots that have a master |
| `sinceCheck`, `cursor`, `sincePass` | `lastSchedulerCheckSecsByGuid`, `schedulerCursorGuid`, `schedulerLastPassSecs` |
| `aether`, `mastery`, `tier`, `residue`, `invested` | the tables a purchase moves |
| `lease` | `lastSpendSecondsByKey`, per bot and resource |
| `loginPending`, `queue`, `task` | login events still queued; bots of the pass still to be visited; the visit under way |
| `repeat`, `credits`, `faults`, `restarts` | history and bounds |

`BotScheduler` is the pass with its order of the map, floors, jitter, budget and
cursor. `BotSpending` extends it: `SchedulerPass` and `DeferredLoginReconcileEvent` start
visits, and a visit (`TryOneProgressionSpendForBot`) goes through
`GetProgressionSnapshot`, `PreviewSinkInvest`, `PreviewMasteryPurchase`,
`PreviewRackExpand`, `PreviewResidueRackExpand`, `PreviewCatalyst`, one of the executions or
`Refused`, and `AnswerSpend`. Each is one hold of the Lua lock and may fail.
Between them `Credit` lets an asynchronous reward arrive and `Restart` ends the process.

Assumed: visits do not overlap (the login event runs in a map update, the scheduler in
the world update after it); spending is enabled, the module present, and neither
changes; a purchase that was committed and reported as failed starts no lease, and a
restart forgets leases, as in the code; `lastSpendSecondsByKey` is used by one thread.

### `BotGear` (`EchoesHooks.cpp`, `EchoesBotCache.cpp`, `EchoesProtection.cpp`, the policies)

| variable | code |
|---|---|
| `online`, `scanDue` | the session, and its `DeferredLoginReconcileEvent` |
| `worn`, `bag`, `gone` | the equipment slot, the slots of the bags, items dissolved |
| `attune`, `dissolved`, `rackRows`, `rack` | the tables, and `AP.Rack.Cache` |
| `tracker`, `cache` | `EchoesProtectionTracker` and `EchoesBotCache` of this bot |
| `presence`, `sinceRecheck` | `EchoesPresence` |
| `knownFor`, `sinceFault` | history: how long the row has been meaningful, how long reads have worked |

| action | code |
|---|---|
| `OnPlayerCanEquipItem` | the equip hook: awareness, veto, and for a clear upgrade the chain of bag protection, Rack and Dissolution; then the core swaps, or only asked; what is put on leaves the Rack (player event 29) |
| `OnPlayerCanSellItem` | Layer 2: veto of a sale, or release of the least valued item |
| `MaybeReconcileLoginInventory` | the scan of the bags, with at most one dissolution |
| `OnPlayerLogin`, `OnPlayerLogout`, `Restart`, `MaybeRecheck` | sessions, startup and handshake |
| `Gain`, `Lose`, `Attune`, `ApplyQueued`, `Tick` | the core, the scripts, the database and time |

A read of the attunement and the query of `ap_rack` (`IsItemRackTracked`, 1220-1226) may each
fail, and the code takes the failure for "not attuned" and "not racked": `read` and `unread`
of the hooks say which reads fail in a step.

Assumed: one bot and one equipment slot (every map of the module is keyed by the bot,
and the hooks look at one slot); a hook is one step, with the equip event of the
scripts that follows it, since a bot's hooks run on its map's thread; that event overtakes no
queued row (`Attunement` has the case); a login waits for the queue (`rack = rackRows`); the queue and the
inventory are not lost in a restart (crashes of that kind are in `Dissolution` and
`Attunement`); a dissolution that starts pays; the switches
`dissolutionRequiresFullAttunement` and `dissolutionRejectsRackProtected` have their
default, true.

## 4. The runs

| run | specification | faults | what it shows |
|---|---|---|---|
| `dissolution_faults` | `Spec`, two swords of one character and an old `RECORDED` shield of the other, in one account | one of each kind, at most two kinds in a run beside a crash | `TypeOK`, `RewardNeedsRemoval`, `PaidIsRecorded`, `OncePerCharacter`, `NoDuplication`, `NoDanglingRow`, `EscrowNeverDropped`, `GoldKept` |
| `dissolution_settles` | `FairSpec`, a sword of one character and an old `RECORDED` shield of the other | a crash, a reported write, a call | it implements `RewardEscrow`, liveness included, and no row stays open (`RowsSettle`) |
| `ledger_purchases` | `Spec`, two characters of one account, two levels, two rewards | one of any kind | `TypeOK`, `SuccessMeansSpent`, `NoExcessTokens`, and it implements `Exchange` |
| `attunement_rack` | `Spec`, one character, two items, a Rack of one or two slots | one of any kind | `TypeOK`, `OneSlotEach`, `NothingHalfAttuned`, `ProgressKept` |
| `attunement_lost` | `Spec` | a read | a comment is not kept (section 7) |
| `stat_bonus` | `FairSpec`, one character, two levels, one piece of gear | none to have | `TypeOK`, `ModifiersAreTheRecord`, `StaleForLessThanTwoIntervals`, `BonusConverges` |
| `combat_damage` | `Spec`, two characters of one account and a weak creature | none to have | `TypeOK`, `ServedWithinTTL`, `ReflectionIsPlain`, `SpellsStillHit`, `BlowsAtMostDouble`, `EachSinkWorksAlone` |
| `bot_scheduler` | `SchedulerSpec`, four bots and a human in a mixed order | logouts, restarts | `SchedulerTypeOK`, `NeverStuck`, `ReachedUnlessPassedOver` |
| `scheduler_uneven` | `SchedulerSpec`, three bots | as above | a comment is not kept (section 7) |
| `bot_spending` | `Spec`, a bot and a human, three credits | a failed bridge call, a restart | `SpendingTypeOK`, `OneSpendPerVisit`, `ReserveRetained`, `CooldownKept`, `RackBeforeCatalyst` |
| `bot_gear` | `Spec`, three items of three templates | failed reads and bridge calls, restarts | `GearTypeOK`, `ProtectedNeverDissolved`, `DissolvedIsObsolete`, `VetoBlindOnlyBriefly` |
| `gear_copies` | `Spec`, two of the items share a template | as above | a comment is not kept (section 7) |

What the properties say, beyond types (their comments give the lines):

* `RewardNeedsRemoval`: payments made and payments owed never exceed the copies the
  core took away, under every fault.
* `PaidIsRecorded`: a payment is in the permanent ledger first.
* `OncePerCharacter`: retries, second copies, relogs and recoveries pay a character once.
* `NoDuplication`: while no save is lost, the inventory that will have been written never holds
  an item whose reward was paid or is owed.
* `NoDanglingRow`, `RowsSettle`: the login pass leaves nothing open, and gets there.
* `EscrowNeverDropped`: a row that owes is never overwritten or deleted before it pays.
* `GoldKept`: the gold of every payment is in the money that will have been written, however
  late saves land, while the core's calls and the confirming read work. The exception is
  stated in `GoldAtRisk`: a payment that ran ahead of a queued save, from the UPDATE to the
  save that ends its handler, and for good once a crash or a failed save may have taken that
  save. TLC shows each of the four conditions and the window to be needed.
* `EscrowSpec`: the whole state machine with its recovery is an escrow that pays
  Essence and Residue together, once, in the end.
* `SuccessMeansSpent`: a call that did not fail is never taken for a purchase.
* `NoExcessTokens`: with several characters of an account in the world, none carries
  more Residue than the account owns, as long as reads and calls work.
* `ExchangeSpec`: asynchronous credits, lost writes and crashes notwithstanding, the
  tables move by whole exchanges only.
* `OneSlotEach`: additions, removals, equips, dissolutions, relogs and crashes never
  put one item into two slots, while reads and writes work and nothing overtakes the
  queue. The last condition is needed: without it TLC shows an item that is racked in
  the second slot and put on before that row is written, then racked again in the
  first; the late row brings it back to the second as well, where a relog finds it.
* `NothingHalfAttuned`: wherever a crash cuts a kill or a quest, the next login
  finishes the flag and the snapshot.
* `ProgressKept`: while reads work, only a death takes progress, only from what is
  worn, and never from what is attuned.

* `ModifiersAreTheRecord`: no order of logins, levels, passes, switches and commits
  doubles a bonus or leaves a rest of it.
* `StaleForLessThanTwoIntervals`, `BonusConverges`: a player in the world of an enabled
  module is out of date for less than two recheck periods, and ends up right.
* `ServedWithinTTL`: no use keeps an entry of a cache alive.
* `ReflectionIsPlain`, `SpellsStillHit`, `BlowsAtMostDouble`, `EachSinkWorksAlone`: what the
  sinks make of a blow, at their ceilings and at the last point. `EachSinkWorksAlone`
  includes the floor of one sink: a lucky roll reflects a spell just when the investment in
  `reflect_chance` is worth a ten-thousandth (`EnoughToReflect`), about 1000 Essence;
  `Sinks.Invest` takes less than that and it never reflects.
* `NeverStuck`, `ReachedUnlessPassedOver`: while a bot stays autonomous somebody is
  visited again and again, and so is every bot that no larger guid precedes in the map.
* `ReserveRetained`, `OneSpendPerVisit`, `CooldownKept`, `RackBeforeCatalyst`: the budget's
  promises hold against balances that move during a visit and failures that were none.
* `ProtectedNeverDissolved`, `DissolvedIsObsolete`, `VetoBlindOnlyBriefly`: three layers and
  a stale cache never agree on the wrong item, while no two items share a template. What
  `DissolvedIsObsolete` says of the Rack, that a dissolved item is not in `ap_rack`, it says
  while no read has failed: a failed query counts as "not racked", and TLC shows the
  condition to be needed.

### Bounds, and why they are enough

* Two characters of one account: the account's tables are shared, so every
  interference between accounts' own data needs two characters and one account;
  different accounts share no row.
* Two items, of which one has two copies: a second copy and a second row are the
  only ways in which one row meets another.
* Faults: one of each kind. `TwoFaults` (a `CONSTRAINT`) keeps runs of
  `dissolution_faults` to a crash and two other kinds of faults, `OneFault` runs of
  `ledger_purchases` to one fault; the recovery of a dissolution is the place where two
  faults meet (a crash in a recovery), a purchase has none. The proofs need
  neither bound.
* `MaxQueued = 1` lets one save of a character wait; a second one waits for the worker, so
  runs in which the save of the removal and the save after the payment are both queued are
  not explored by TLC. The late save that overwrites a payment needs only one. The proofs
  hold for every bound.
* `MaxLevel = 2` gives the Rack an Essence tier and a Residue tier, and an investment
  of one or two; `MaxRewards = 2` gives enough to buy one good and to race it with
  one credit.
* `OldTokens = {0, 1}`: a crash may restore fewer or more items than the ledger has.
* `Permutations(Char)` is a symmetry of `Ledger`: characters occur in it only as
  equal members of one account, and the checked refinement is a safety property.
* `Attunement` has one character: racks and rows of different characters never meet,
  and an account's snapshot is only ever added. Two items and two slots are what a
  duplicate needs; `Cap = 3` with a gain of 1 gives a row that a death can weaken and
  a kill complete; `MaxQueue = 2` lets one write wait behind another. `Bounds` looks no
  further after a second fault or an overtaken write.

* `stat_bonus` has one character: two share only rows the module reads.
  `Interval = 3` is the smallest period in which a floor, a pass and a purchase take three
  different places. One sink, one talent and a level below 80 give every factor a second value.
* `combat_damage`: damages 1 and 40 (the last point, and enough for each share to be
  whole), health on both sides of the execution limit, no armor and much, a clock
  of one lifetime and its renewal; an investment that is worth nothing to the roll and one that
  is worth the ceiling; at most two sinks are invested in at once, so every pair is met.
* `bot_scheduler` uses `MaxBotsPerPass = 1`, so that bots compete for the budget; the order
  `1, 4, 2, 3, 5` has a bot that is passed over (3) and three that are not.
* `bot_spending`: three credits let one visit buy and two rewards arrive in it or
  make the next one possible; one fault, one restart. The table of prices has an
  Essence tier and a Residue tier.
* `bot_gear`: one item worn, one protected, one better is the smallest case in which
  all layers speak of different items; `TTL = 2` lets an entry be used at two ages;
  `MaxScanned = 1` cuts a scan of two slots short (two in `gear_copies`). Its `VIEW`
  identifies states that no step and no property tells apart: an expired entry of the
  cache counts as none, since `Hit` is asked before its content is, and of the two
  histories `knownFor` and `sinceFault`, which age together and are only asked for
  whether both have reached `TTL`, the shorter counts, with whether a read has just
  failed (which `DissolvedIsObsolete` asks).

### Fairness

`FairSpec` assumes weak fairness of `HandlerStep`: a handler that was called runs to
its end, since nothing preempts the Lua thread. It assumes strong fairness of `Login`
and `Logout` for each character: the player comes back and leaves again, which is the
schedule the recovery was written for (it runs at login and nowhere else). Strong,
because a crash or another handler disables both again and again. Faults are
bounded, so recovery is not starved for ever; without that bound nothing could
settle. Weak fairness of `ApplyQueued` says that the worker goes on; a login and a full queue wait
for it. No fairness is assumed of a player's choices or of a fault.

`FairSpec` of `StatBonus` assumes strong fairness of `OnUpdate` (the world's loop calls it
in every turn; strong, because hooks that run before it disable it for a moment) and
weak fairness of `RecheckPlayer` and `FinishRecalculation`, which are the rest of a call
that has begun. `SchedulerSpec` assumes weak fairness of `SchedulerTick` and
`RunProgressionSchedulerPass`: the clock goes on and the loop calls the pass when it is
due. Nothing is assumed of players and masters.

## 5. What is proved

TLAPS checks every obligation of the eight proof modules. The theorems about the Lua
scripts hold for all characters, accounts, items, prices, rewards and bounds on faults that meet
`ConstantsAssumption`, `LedgerAssumption` and `AttunementAssumption` (typing of the constants, `NoChar` and
`NoItem` are no character and no item, characters and accounts differ, a Catalyst
costs at least one Residue, only the Rack has prices in Residue, and a tier has one
price; a fragment's Essence is among the rewards; a Rack has at least one slot). TLC evaluates the assumptions on every run.

`DissolutionProofs`

* `TypeCorrect`; `RewardNeedsRemovalAlways`, `PaidIsRecordedAlways`,
  `OncePerCharacterAlways`; `EscrowNeverDroppedAlways`.
* The inductive invariant is `Inv`: `TypeOK`, `PaidIsRecorded` and three parts the
  properties do not say. `RowOfTask` ties the point of the handler to its row: the
  properties are about rows between handlers, and a step from `marking` to `REMOVED`
  keeps them only if the row was the handler's reservation. `Accounted` adds to what
  is paid and owed the copy *in hand*, which is removed but not yet owed; without it
  the step that turns a copy into a debt cannot be justified. `PaidOnce` says that a
  paid item's row is `COMPLETE`, which is what stops a second payment.
* `FaultsGrow` (a fault is never forgotten) carries the condition `Clean(kind)'` of a
  step back to its first state. `RowSteps` says that every step quietly reserves,
  releases, escrows or pays one row; the last two theorems follow from it.
* `NoDanglingRowAlways`: `Followed` adds to the property what holds while a handler runs:
  an open row of a character in the world is in the handler's hands or still in
  `task.rows` of that character's login pass. It holds while reads and writes work, whatever
  crashes happen, so it is carried with that condition (`FollowedReliable`).
* `GoldKeptAlways`: `PurseKept` follows the gold through memory, queue and tables. The memory of
  a character in the world has all it earned, but for the reward just paid at the one point
  `syncing`; where no payment ran ahead of a queued save, every queued save and the table have
  it all, so that a crash loses nothing; where one did, the save that ends the handler repairs
  it (`InWindow`), unless a crash or a failed save may have prevented that (`Repaired`).
  `LandedAfterEnqueue` and `LandedAfterApply` say what a new save and the worker make of
  `Landed`.
* `NoDuplicationAlways`: `BagsCounted` bounds the copies in memory and those in `Landed`
  separately by what is not yet paid or owed. The copy in hand counts as spent in memory
  from its removal and in the saves from the one that is queued next; that is the order in which
  `Dissolve` calls `RemoveItem`, `SaveToDB` and the UPDATE to `REMOVED`. A crash that loses
  no save finds the queue empty.
* `ImplementsEscrow`: with no failed reads and no silent writes
  (`MaxFaults["read"] = 0`, `MaxFaults["silent"] = 0`, the assumptions of the
  theorem) every behaviour is one of the escrow's safety part, whatever the number
  of crashes, failed writes, calls and saves. Both assumptions are needed: a failed
  read of the guards, or an INSERT that never happened, breaks the claim.
* `HandlersEnd` is the part of `RowsSettle` that needs no fairness. `Variant` counts eight for
  every row a login pass has yet to finish and the points left of the item in hand. Each
  step under way lowers it, a refused call, a failed write and a crash included, because no path
  leads back to a row (`RowInHand`: the row in hand is one of those not finished); the worker
  that applies saves leaves the handler where it is. It assumes finitely many items. Fairness adds only that the steps are taken.

`LedgerProofs`

* `TypeCorrect` (above all: no balance goes below zero), `SuccessMeansSpentAlways`,
  `NoExcessTokensAlways`, `ImplementsExchange` (the whole of `ExchangeSpec`, which is
  a safety property).
* The inductive invariant is `TypeOK`, `SeenHolds`, `SuccessMeansSpent` and
  `TokensBounded`. `SeenHolds`: what a purchase saw was affordable, and until it has
  written, the level and the Residue it saw still hold, because only the queue moves
  meanwhile and the queue moves Essence alone. It is what makes a guard on some
  columns (`Compared`) enough for a whole exchange: `ApplyIsPurchase` shows that the
  UPDATE is a step of `Exchange` at the level now reached. `TypeOK` is not inductive
  without it. `TokensBounded` weakens `NoExcessTokens` in the window between the
  UPDATE and `Sync`, in which the account's items lag behind (`Lagging`).
* `UnspentIsStale`: a purchase that has not been written cannot pass the read-back,
  because at least one compared column (level, or Residue for the Catalyst) would have
  to have moved. The Essence column alone would not do, since a credit can move it.

`AttunementProofs`

* `TypeCorrect`, `ProgressKeptAlways`, `NothingHalfAttunedAlways`, `OneSlotEachAlways`:
  every property of `attunement_rack`.
* `HandlerOK` ties the item whose snapshot comes next to the phases that attune, and what a
  death has still to weaken to what is worn; with it the types are inductive. `FaultsGrow`, as
  in `DissolutionProofs`, carries "nothing has failed yet" back over a step.
* `NothingHalfAttuned` speaks of the time between handlers. Its invariant, `Accounted`, says
  where an unfinished item waits while one runs: a complete one that is not attuned is on
  the Rack of a character whose Rack is being credited, or still to be visited by
  the check or the login; an attuned one without a snapshot is the next to be captured, or
  still to be visited. A quest captures first, so its reward has its snapshot by then.
  A crash needs nothing: nobody is in the world after it, and the login begins with
  exactly the items that wait.
* `OneSlotEach` is not inductive: `AddItem` looks at the memory and the table changes
  later, one write at a time. `Orderly` judges the table as it will be after each
  prefix of the queue (`Holds`): after none of them does an item have two slots, and the
  memory of a character whose login is done is the table after the last. `WriteOrdered`,
  `ApplyOrdered`, `EquipOrdered`, `LoadOrdered` and `CrashOrdered` say that of each kind
  of step. An equip that empties a slot ahead of a write to it, or a login that reads
  before a write has landed, breaks the last part, and that is what `raced` records.

`FiniteSums`

* What `SumFunctionOnSet` of the community modules returns on a finite set, for any whole
  numbers: it is the sum of the set without an element plus that element (`SumStep`), a whole
  number (`SumType`), and monotone in the numbers (`SumAtMost`) and, if none is negative, in
  the set (`SumOfMore`). The operator is defined through `CHOOSE` of a recursive function, and the
  library's induction theorems cannot be instantiated, so each proof takes a smallest
  counterexample by size (`WFMin` on the naturals) and removes one element of it.

`StatBonusProofs`

* `TypeCorrect`, for any finite set of templates whose stats are whole
  numbers (`StatBonusAssumption`): what `EchoesCalculateAbsorption` adds up over the snapshot's
  rows is a whole number by `SumType`, and every step from there to the delta keeps the type.
* `ModifiersAreTheRecordAlways`, by the invariant `RecordInv`: a recalculation under way touches
  neither the modifiers nor the record, and when it ends `EchoesApplyDelta` moves the modifiers
  from the old record to the new one. A change of a double below `Tolerance` is not applied
  though the record is overwritten, which is why the statement is about whole points only
  (`WholeChannels`). `DriftWithinTolerance` says what is true of the doubles: a login starts
  on the record, and each recalculation moves a player off it by less than a tolerance.
* `PurchasesNeverLowerTheBonus`: Mastery, an attuned item and Essence in a sink each leave every
  channel of `Desired` at least where it was. It needs that no item takes a stat away (a
  hypothesis of the theorem: AzerothCore's templates may hold negative stats) and says nothing of
  Talents, since a third Talent may lower the first two (`TalentDistinctPenalty`).
* `RecalculationConverges` is the part of `BonusConverges` that needs no fairness. While nothing is
  bought and the player stays in the world at one level, a recalculation that has read the
  current tables keeps them current, the step that ends it makes the modifiers of whole points
  what the tables ask for, and no later step, of any player, undoes that.
* `StaleForLessThanTwoIntervalsAlways`: the proof never looks into the calculation. The
  inductive invariant is `TimingType` and `WaitBound`,
  which says three things of a player: a wait is no older than the last recalculation,
  unless that was a period ago or more; a player the last pass left alone had then been
  waiting for less than a period; and a pass that is overdue means a disabled module.

`CombatHooksProofs`

* All six properties of the run, `TypeCorrect` first. `ServedWithinTTLAlways` needs
  an entry's age beside the time it has been behind; the four about damage hold in every
  typed state, and their proofs are arithmetic about the ceilings: `SinkRange` bounds what a
  sink gives, `Share` a share of the damage, and a lemma each what execution,
  penetration and mitigation make of a blow.

`BotGearProofs`

* `GearTypeCorrect`, `ProtectedNeverDissolvedAlways`, `DissolvedIsObsoleteAlways`,
  `VetoBlindOnlyBrieflyAlways`, for any items, templates, scores, limits and switches that
  meet `GearAssumption`. The second also assumes that no two items share a template,
  which `gear_copies` shows to be needed.
* `DissolvedIsObsolete` makes its claim about the Rack for the time since the last failed read
  (`sinceFault`), the others in spite of one. It and `ProtectedNeverDissolved` rest on the lemma
  `EquipDissolvesNothing`: the equip hook never dissolves anything, since it offers the item
  while it is still worn. `VetoBlindOnlyBriefly` needs an invariant that ties an entry of the cache to
  how long the row has said "meaningful".

`BotSpendingProofs`

* All five properties of the run, from `SchedulerAssumption` and `SpendingAssumption`:
  `SpendingTypeCorrect`, `OneSpendPerVisitAlways`, `ReserveRetainedAlways`,
  `CooldownKeptAlways`, `RackBeforeCatalystAlways`.
* The inductive invariant `Inv` says what a decision taken at an earlier step is still
  worth. `BalanceStands`: until the visit buys, the bot has at least the Essence it had at
  the snapshot, since others only credit it; so the reserve and the price, compared with the old
  balance, still hold. `Decided`: at execution the lease has run out, the price of a Mastery
  rank is the one that was previewed, a tier bought with Residue is still pending and the
  Catalyst finds none. `AwaitsAnswer`: a purchase whose answer is out has
  started no lease yet. `KnownIsLeased`: a lease is as old as the purchase it records, which
  turns the code's test of the lease into a statement about purchases.
* The positions of a pass are sets, and `MinExists` and `MaxExists`, from the well-ordering of the
  naturals, say that it has a first and a last one; hence the cursor is always 0 or a guid of the map.
  `SinkCategory` is a fold, of which nothing is used: whichever category it names, the
  table of investments keeps its type.

* The rotation of the scheduler, from `SchedulerAssumption` alone: `SchedulerTypeCorrect`,
  `ReachedWithinItsDistance` and `RotationNeverStuck`. `Distance(g)` counts the characters
  between the cursor and `g`, and once the cursor is past `g` those it has still to
  pass before it starts again. `ServedBefore` is the step that matters: if a pass misses a bot whose
  turn it is and that no larger guid precedes in the map, it spent its budget on bots that lie
  between the cursor and that bot, so the cursor moved towards it and not over it. `BudgetOfAPass`
  bounds the served positions by `MaxBotsPerPass`.
* `ImplementsScheduler`: every behaviour of `BotSpending` is one of `BotScheduler` without its
  fairness, so those theorems hold of the agent with its economy too.

Only model-checked, because they depend on fairness: `RowsSettle`, the liveness part
of `EscrowSpec`, `BonusConverges`, `NeverStuck` and `ReachedUnlessPassedOver`. What is
proved of each is its safety core: `HandlersEnd`, `ImplementsEscrow`, `RecalculationConverges`
with `StaleForLessThanTwoIntervals`, `RotationNeverStuck` and `ReachedWithinItsDistance`; what is
left to TLC is that the steps named there are taken.

## 6. What is not modelled

Section 1 and the components of `PROJECT.json` list every part. Of the parts with state:

* Events: the claim of a milestone before its payment, the quest timer, the single
  fragment slot and the debt saved asynchronously. Each is one handler with one or
  two writes whose losses no text rules out; the hazards name the lines.
* Protocol and Visage: drafts bound to tokens and a 30 s timer between client and server.
* The ledger of the last 200 action results in `ap_botapi`, which only remembers answers.
* The installer and the AddOn: programs of their own.
* Threads: caches used by several map-update threads at once, and a cache miss that
  overlaps an invalidation on another thread. The first is a data race on an
  `unordered_map`, which has no set of outcomes to choose from.
* Item leases of the adapter factory, which are taken and returned within one handler.
* Exact doubles: `exp` and the rounding of the calculator's intermediate results.

Left out for good: texts, pages and layout (they are dispatch to the modelled parts);
counters, reports, logs and throttled notifications of the C++ modules; the test
harness of the bots; the DBC and MPQ writers and the SQL migrations (conversions
between formats, run offline); probing of the host for its functions; the diagnostic and
game master commands; the AddOn's widgets.

## 7. Where the code and its texts disagree

The first three are runs that end in a violation; the others were read in the code.

* `attunement_lost`, `AttunedForGood`: "attuned=1 is permanent" (`ap_forge:721`), but a
  failed read in the kill handler looks like a row without progress and is written back
  (`ap_core:720-748`).
* `scheduler_uneven`, `EvenCoverage`: "a large population is covered evenly"
  (`EchoesHooks.cpp:600-601`), but the cursor compares guids in a map that is in hash
  order, and a bot may be passed over for ever. `ReachedUnlessPassedOver` is what holds.
* `gear_copies`, `ProtectedNeverDissolved`: "Dissolution must never contradict them"
  (`EchoesDissolutionPolicy.cpp:73-75`), but Lua dissolves by template: the first copy
  found goes, which may be the protected one.
* "once per account" (`ap_forge:441`) fails for two characters of one
  account after a crash, since the account's ledger is written only at the payment.
* A `PENDING_REMOVAL` row is taken for an item "never actually
  touched" (`ap_forge:954`), but the removal is saved (716) before the row says so (717).
* "The database credit is authoritative" (`ap_forge:180`), but saves write over its gold: the
  one that follows a failed `GetCoinage` or `SetCoinage` (183-188), and, until that one lands, the
  save of the removal (716), which may land after the UPDATE.
* "The item is genuinely gone" (`ap_forge:960`) is said of a removal whose save was only
  queued; a crash that loses it leaves the item and a row that the recovery pays.
* "Dissolution must never contradict" the Rack's protection (`EchoesDissolutionPolicy.cpp:73-75`),
  but a failed query of `ap_rack` counts as "not racked" (`EchoesHooks.cpp:1225`).
* `Sinks.Invest` takes any amount from 1 (`ap_sinks:366`); the threshold of `reflect_chance` is
  cut down to 0 (`EchoesStatsCalculator.h:769-774`) until about 1000 Essence are invested.
* The reservation is trusted because the call completed
  (`ap_forge:681`), which proves nothing about the statement (`ap04_db:223`).
* "Nothing was spent" (`ap_rack:553`) is said of a purchase that
  was committed, when a fragment's Essence lands before the read-back.
* Removal at equip is called the "clean structural fix" of double
  crediting (`ap_events:913`), but a worn item may be racked afterwards
  (`ap_rack:323-330`).
* The bonus is said to be correct "within one recheck interval"
  (`EchoesStatsHooks.cpp:36-37`); it may take almost two, which is what is proved.
* The offer of a replaced item is said to see "formerly-equipped bag items"
  (`EchoesHooks.cpp:1332`); it sees the item while it is worn and never dissolves it.
* The tracker "has no way to hold a stale GUID" (`EchoesProtection.h:45-46`); items
  that are traded, destroyed or dissolved stay in it.
* `CheckAttuned` saves a snapshot without armor and weapon damage
  (`ap_rack:450-475`); `ExecuteDissolve` calls a deferred reward a "clean rejection"
  (`ap_botapi:353`); `ExecuteRackExpand` of the bridge passes no preview, so a bot's
  Essence expansion always fails (`EchoesActionBridge.cpp:617`); `GM_TalentsReset`
  refunds every talent at the primary price (`ap_commands:439`).

## 8. Running it

    tlc -workers 2 -config DissolutionFaults.cfg MCDissolution.tla
    tlc -workers 2 -config LedgerPurchases.cfg MCLedger.tla
    tlc -workers 2 -config AttunementRack.cfg MCAttunement.tla
    tlc -workers 2 -config StatBonus.cfg MCStatBonus.tla
    tlc -workers 2 -config CombatHooks.cfg MCCombatHooks.tla
    tlc -workers 2 -config BotScheduler.cfg MCBotScheduler.tla
    tlc -workers 2 -config BotSpending.cfg MCBotSpending.tla
    tlc -workers 2 -config BotGear.cfg MCBotGear.tla
    tlapm FiniteSums.tla
    tlapm DissolutionProofs.tla
    tlapm LedgerProofs.tla
    tlapm AttunementProofs.tla
    tlapm StatBonusProofs.tla
    tlapm CombatHooksProofs.tla
    tlapm BotGearProofs.tla
    tlapm BotSpendingProofs.tla

`dissolution_faults` explores about 0.95 million states in about a minute on two workers,
`ledger_purchases` about 0.6 million and `attunement_rack` about 1.1 million in about a
minute and a half each, `bot_gear` 0.4 million in a little more. No run turns deadlock
checking off: there is always a player, a bot or a reload that may come next.
