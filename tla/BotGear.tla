-------------------------------- MODULE BotGear --------------------------------
(* What mod-echoes-playerbots does with a bot's gear: the equip and the sell    *)
(* hook (Layers 1 and 2), the protection tracker, the attunement cache, the     *)
(* offers to the Rack and to Dissolution, the scan of the bags after a login,   *)
(* and the presence handshake that switches all of it on.                       *)
(*                                                                              *)
(* One bot, one equipment slot, items that all fit it. A bot's hooks and its    *)
(* login event run on the thread of its map, one after the other, so a handler  *)
(* is one step; between two handlers the Lua scripts attune, the database's     *)
(* worker applies queued rows, and the core moves items. Timestamps are kept    *)
(* as ages that stop growing where no comparison tells them apart. The item     *)
(* leases of EchoesAdapterFactory are taken and returned inside one handler     *)
(* and never seen by another one.                                               *)
EXTENDS Naturals, Sequences, FiniteSets

CONSTANTS
    Items, Entries, None,
    Entry,           \* Items -> Entries: several items may share a template
    Score,           \* StatsWeightCalculator's score of a template
    Unfit,           \* unique, conjured or temporary templates
    Enabled,         \* which of Features the configuration turns on
    Full,            \* attunement of a completed item, in the model's units
    Meaningful,      \* meaningfulAttunementPct, layer2MinAttunementForRetention
    ClearMargin,     \* clearUpgradeMarginPct
    MaxProtected,    \* layer2MaxProtectedItemsPerBot
    BagSlots, Reserve, \* bag slots not taken by other things; BagFreeSlotReserve
    MaxScanned,      \* loginReconciliationMaxItemsPerLogin
    RackSlots,       \* capacity of the bot's Rack
    TTL,             \* EchoesBotCache::TTL_SECONDS
    RecheckInterval, \* presenceRecheckMinutes
    HandshakeResults, \* what RunHandshake may find
    MostAttuned      \* bound of the exploration: how far a template attunes

Features == {"layer2", "bridge", "rack", "dissolve", "dryRun", "execute", "loginScan"}

ASSUME GearAssumption ==
    /\ IsFiniteSet(Items) /\ None \notin Items
    /\ Entry \in [Items -> Entries]
    /\ Score \in [Entries -> Nat] /\ Unfit \subseteq Entries
    /\ Enabled \subseteq Features
    /\ Full \in Nat \ {0} /\ Meaningful \in 1..Full /\ None \notin 0..Full
    /\ {ClearMargin, Reserve, RackSlots, BagSlots} \subseteq Nat
    /\ HandshakeResults \subseteq {"ACTIVE", "ECHOES_ABSENT", "SCHEMA_ABSENT", "VERSION_INCOMPATIBLE"}
    /\ MostAttuned \in [Entries -> 0..Full]
    /\ {MaxProtected, MaxScanned, TTL, RecheckInterval} \subseteq Nat \ {0}

VARIABLES
    online, scanDue,  \* in the world; DeferredLoginReconcileEvent is queued
    worn, bag,        \* the item in the slot; the bags' slots (both may be None)
    gone,             \* items dissolved: they never come back
    attune,           \* ap_item_attune, Full meaning attuned = 1
    dissolved,        \* entries in the account's ap_dissolved_items
    tracker,          \* EchoesProtectionTracker's list for this bot
    cache,            \* EchoesBotCache: attunement as read, and its age
    rack, rackRows,   \* AP.Rack.Cache; ap_rack
    presence,         \* EchoesPresence's state
    sinceRecheck,     \* age of lastRecheckSeconds, which matters while active
    knownFor,         \* history: how long a row has said "meaningful"
    sinceFault        \* history: age of the last failed read

vars == <<online, scanDue, worn, bag, gone, attune, dissolved, tracker, cache,
          rack, rackRows, presence, sinceRecheck, knownFor, sinceFault>>
inventory == <<worn, bag, gone>>
ledgers == <<attune, dissolved, rackRows>>
session == <<online, scanDue>>
clockVars == <<presence, sinceRecheck>>

Slots == 1..BagSlots
Filled == {n \in Slots : bag[n] # None}
Possessed == {bag[n] : n \in Filled} \cup ({worn} \ {None})
FreeSlots == BagSlots - Cardinality(Filled)
Tracked == {tracker[n].item : n \in DOMAIN tracker}

(* ---------------------------------- presence -------------------------------- *)
Active == presence \in {"ACTIVE", "DEGRADED"}

RunHandshake == presence' \in HandshakeResults

MaybeRecheck ==
    /\ Active /\ sinceRecheck >= RecheckInterval
    /\ sinceRecheck' = 0
    /\ RunHandshake
    /\ UNCHANGED <<session, inventory, ledgers, tracker, cache, rack, knownFor, sinceFault>>

(* ------------------------------ attunement cache ---------------------------- *)
\* How a miss fares: the row is read, the query fails (which looks like no
\* row), or the cap cannot be had from Lua.
Reads == {"row", "noRow", "noCap"}
NotCached == [pct |-> 0, age |-> TTL]
Hit(e) == cache[e].age < TTL
RowAsRead(e, read) == IF read = "row" THEN attune[e] ELSE 0

\* The std::optional that Get returns.
Info(e, read) ==
    IF Hit(e) THEN cache[e].pct
    ELSE IF read = "noCap" THEN None ELSE RowAsRead(e, read)

\* A broken form, for the mutants: a hit renews the entry.
LoadedSliding(es, read) ==
    [e \in Entries |-> IF e \notin es \/ (~Hit(e) /\ read = "noCap") THEN cache[e]
                       ELSE [pct |-> Info(e, read), age |-> 0]]
Loaded(es, read) ==
    [e \in Entries |-> IF e \in es /\ ~Hit(e) /\ read # "noCap"
                       THEN [pct |-> RowAsRead(e, read), age |-> 0] ELSE cache[e]]

\* A query fails only where there is one, a call only where one is made.
NoQuery(read) == read = "row"
NoRackQuery(unread) == unread = {}
NoCall(bridge) == bridge

\* Of a handler that looked up es: what it leaves in the cache, and whether a
\* read failed on the way, this one or that of the Rack rows of unread.
Get(es, read, unread) ==
    /\ NoQuery(read) \/ \E e \in es : ~Hit(e)
    /\ cache' = Loaded(es, read)
    /\ sinceFault' = IF read = "row" /\ unread = {} THEN sinceFault ELSE 0

(* --------------------------------- decisions -------------------------------- *)
ClearUpgrade(old, new) == (Score[new] - Score[old]) * 100 >= ClearMargin * Score[old]
IsMeaningful(pct) == pct >= Meaningful

EvaluateAwareness(old, new, info) ==
    IF info = None THEN "FALLBACK_STATE_UNAVAILABLE"
    ELSE IF Score[old] = 0 THEN "DEFAULT_PLAYERBOTS_DECISION"
    ELSE IF ClearUpgrade(old, new) THEN "ACCEPT_CLEAR_UPGRADE"
    ELSE IF IsMeaningful(info) THEN "KEEP_ATTUNED_ITEM"
    ELSE "DEFAULT_PLAYERBOTS_DECISION"

EvaluateProtectionCandidate(pct) == IsMeaningful(pct) /\ Len(tracker) < MaxProtected

\* Protecting an item again only renews its attunement.
Protect(item, pct) ==
    IF item \in Tracked
    THEN [n \in DOMAIN tracker |-> IF tracker[n].item = item
                                   THEN [tracker[n] EXCEPT !.pct = pct] ELSE tracker[n]]
    ELSE Append(tracker, [item |-> item, pct |-> pct])

\* std::min_element takes the first of the smallest.
IsLeastValued(item) ==
    \E n \in DOMAIN tracker :
        /\ tracker[n].item = item
        /\ \A k \in DOMAIN tracker : tracker[n].pct <= tracker[k].pct
        /\ \A k \in 1..(n - 1) : tracker[n].pct < tracker[k].pct

\* No item is tracked twice, so one entry goes.
Release(item) ==
    \E n \in DOMAIN tracker :
        /\ tracker[n].item = item
        /\ tracker' = [k \in 1..(Len(tracker) - 1) |->
                        IF k < n THEN tracker[k] ELSE tracker[k + 1]]

BagPressureCritical == FreeSlots <= Reserve
ReleasedForSale(item) == BagPressureCritical /\ IsLeastValued(item)
EvaluateSellVeto(item) ==
    IF ReleasedForSale(item) THEN "RELEASE_PROTECTION" ELSE "PROTECT_IN_BAG"

DissolutionEnabled == {"bridge", "dissolve", "dryRun"} \subseteq Enabled
RackEnabled == {"bridge", "rack"} \subseteq Enabled

\* unread: the rows of ap_rack whose query fails, which looks like no row. (Where
\* there is none, a failure changes nothing.)
IsItemRackTracked(e, unread) == e \in rackRows \ unread

\* EvaluateLocalPolicy with the facts the two call sites fill in; all others
\* (owner, equipped, locked, fresh, ...) are constants there.
EvaluateDissolutionEligibility(e, keepInBagProtected, pct, replacementProven, unread) ==
    /\ DissolutionEnabled
    /\ e \notin Unfit
    /\ ~keepInBagProtected
    /\ ~IsItemRackTracked(e, unread)
    /\ pct = Full
    /\ replacementProven

(* ----------------------------- the Lua side, by entry ----------------------- *)
WornEntry == IF worn = None THEN None ELSE Entry[worn]

ValidateRackStore(e) ==
    /\ \E i \in Possessed : Entry[i] = e
    /\ e \notin rack /\ Cardinality(rack) < RackSlots

\* A broken form, for the mutants: worn items are not looked at.
ValidateDissolveWorn(e) ==
    /\ e \notin dissolved /\ attune[e] = Full
    /\ \E i \in Possessed : Entry[i] = e
ValidateDissolve(e) ==
    /\ e \notin dissolved /\ attune[e] = Full
    /\ \E i \in Possessed : Entry[i] = e
    /\ e # WornEntry

\* GetItemByEntry: the first in slot order, the worn one last.
IsFirst(n, places) == n \in places /\ \A k \in places : n <= k
Holding(e) == {n \in Filled : Entry[bag[n]] = e}
FoundByEntry(item, e) ==
    \/ \E n \in Holding(e) : IsFirst(n, Holding(e)) /\ item = bag[n]
    \/ Holding(e) = {} /\ item = worn

\* DissolveDirect: the item is removed, the entry recorded.
DissolveDirect(e) ==
    /\ dissolved' = dissolved \cup {e}
    /\ \E item \in Possessed : FoundByEntry(item, e) /\ gone' = gone \cup {item}
NotDissolved == UNCHANGED <<dissolved, gone>>

\* The Rack takes what it is offered and loses what is dissolved and, by the
\* equip event of the scripts, what is put on. The first two write their row
\* through the queue, the third at once (Attunement has a row it overtakes).
RackAfter(offered, puton) ==
    /\ rack' = ((rack \cup offered) \ (dissolved' \ dissolved)) \ puton
    /\ rackRows' = rackRows \ puton

\* The bags without what a step dissolved.
Remaining == [n \in Slots |-> IF bag[n] \in gone' THEN None ELSE bag[n]]

(* --------------------------------- equip hook ------------------------------- *)
\* MaybeOfferToRack: dry run, then AddItem, which queues its row.
OfferedToRack(e, bridge) == RackEnabled /\ bridge /\ ValidateRackStore(e)

\* MaybeOfferToDissolution, which takes the item for one that is in the bags
\* already and for one that the tracker does not know.
OfferedToDissolution(e, pct, bridge, unread) ==
    /\ EvaluateDissolutionEligibility(e, FALSE, pct, TRUE, unread)
    /\ bridge /\ ValidateDissolve(e) /\ "execute" \in Enabled

\* The chain KEEP_IN_BAG, Rack, Dissolution for the item about to be replaced:
\* at most one of the three gets it.
Protects(pct) == "layer2" \in Enabled /\ EvaluateProtectionCandidate(pct)

ClearUpgradeChain(item, pct, bridge, unread) ==
    LET e == Entry[item]
        asked == {a \in {e} : ~Protects(pct) /\ ~OfferedToRack(e, bridge) /\ DissolutionEnabled}
    IN
    /\ unread \subseteq asked
    /\ IF Protects(pct)
       THEN tracker' = Protect(item, pct) /\ NotDissolved /\ NoCall(bridge)
       ELSE /\ UNCHANGED tracker
            /\ IF asked # {} /\ OfferedToDissolution(e, pct, bridge, unread)
               THEN DissolveDirect(e) ELSE NotDissolved
RackOffer(item, pct, bridge) ==
    {e \in {Entry[item]} : ~Protects(pct) /\ OfferedToRack(e, bridge)}

Unopinionated == NotDissolved /\ UNCHANGED tracker

\* The core swaps the item of the n-th bag slot with the worn one, or only asked.
Swap(n, swaps) ==
    LET left == IF worn \in gone' THEN None ELSE worn
    IN  IF swaps
        THEN worn' = bag[n] /\ bag' = [Remaining EXCEPT ![n] = left]
        ELSE worn' = left /\ bag' = Remaining

PutOn(n, swaps) == {e \in {Entry[bag[n]]} : swaps}

OnPlayerCanEquipItem(n, swaps, read, bridge, unread) ==
    /\ online /\ n \in Filled
    /\ IF ~Active \/ worn = None
       THEN /\ NoQuery(read) /\ NoCall(bridge) /\ NoRackQuery(unread)
            /\ Unopinionated /\ UNCHANGED <<cache, sinceFault>>
            /\ Swap(n, swaps) /\ RackAfter({}, PutOn(n, swaps))
       ELSE LET info == Info(Entry[worn], read)
                decision == EvaluateAwareness(Entry[worn], Entry[bag[n]], info)
                allowed == swaps /\ decision # "KEEP_ATTUNED_ITEM"
            IN  /\ Get({Entry[worn]}, read, unread)
                /\ IF decision = "ACCEPT_CLEAR_UPGRADE"
                   THEN /\ ClearUpgradeChain(worn, info, bridge, unread)
                        /\ RackAfter(RackOffer(worn, info, bridge), PutOn(n, allowed))
                   ELSE /\ Unopinionated /\ NoCall(bridge) /\ NoRackQuery(unread)
                        /\ RackAfter({}, PutOn(n, allowed))
                /\ Swap(n, allowed)
    /\ knownFor' = IF worn' = worn THEN knownFor ELSE 0
    /\ UNCHANGED <<session, attune, clockVars>>

(* --------------------------------- sell hook -------------------------------- *)
OnPlayerCanSellItem(n, sells) ==
    LET item == bag[n]
        opines == "layer2" \in Enabled /\ Active /\ item \in Tracked
        allowed == opines => EvaluateSellVeto(item) = "RELEASE_PROTECTION"
    IN  /\ online /\ n \in Filled
        /\ IF opines /\ allowed THEN Release(item) ELSE UNCHANGED tracker
        /\ bag' = IF allowed /\ sells THEN [bag EXCEPT ![n] = None] ELSE bag
        /\ UNCHANGED <<session, worn, gone, ledgers, cache, rack, clockVars, knownFor, sinceFault>>

(* ------------------------------- scan at login ------------------------------ *)
\* The slots the scan reaches: it counts items, not slots.
Scanned == {n \in Filled : Cardinality({k \in Filled : k < n}) < MaxScanned}
Obsolete(e) == worn # None /\ Score[e] > 0 /\ ClearUpgrade(e, Entry[worn])
\* A broken form, for the mutants: the tracker is not asked.
ReconcileUnasked(n, read, bridge, unread) ==
    LET e == Entry[bag[n]] IN
    /\ n \in Scanned
    /\ Info(e, read) = Full
    /\ EvaluateDissolutionEligibility(e, FALSE, Full, Obsolete(e), unread)
    /\ bridge /\ ValidateDissolve(e)

\* ReconcileOneBagItem, up to its execution.
ReconcileOneBagItem(n, read, bridge, unread) ==
    LET e == Entry[bag[n]] IN
    /\ n \in Scanned
    /\ Info(e, read) = Full
    /\ EvaluateDissolutionEligibility(e, bag[n] \in Tracked, Full, Obsolete(e), unread)
    /\ bridge /\ ValidateDissolve(e)
ScanEnabled == Active /\ "loginScan" \in Enabled /\ DissolutionEnabled

\* At most one execution: the first item whose dry run succeeds.
MaybeReconcileLoginInventory(read, bridge, unread) ==
    LET scanned == {Entry[bag[n]] : n \in Scanned}
        ready == {n \in Filled : ReconcileOneBagItem(n, read, bridge, unread)}
    IN  /\ online /\ scanDue /\ scanDue' = FALSE
        /\ unread \subseteq {e \in scanned : ScanEnabled /\ Info(e, read) = Full}
        /\ IF ScanEnabled THEN Get(scanned, read, unread)
           ELSE NoQuery(read) /\ NoCall(bridge) /\ UNCHANGED <<cache, sinceFault>>
        /\ IF ScanEnabled /\ ready # {} /\ "execute" \in Enabled
           THEN \E n \in ready : IsFirst(n, ready) /\ DissolveDirect(Entry[bag[n]])
           ELSE NotDissolved
        /\ RackAfter({}, {}) /\ bag' = Remaining
        /\ UNCHANGED <<online, worn, attune, tracker, clockVars, knownFor>>

(* ------------------------- sessions, and the rest of the world --------------- *)
OnPlayerLogin ==
    \* The character is loaded through the queue that holds the Rack's rows.
    /\ ~online /\ rack = rackRows
    /\ online' = TRUE /\ scanDue' = TRUE
    /\ UNCHANGED <<inventory, ledgers, tracker, cache, rack, clockVars, knownFor, sinceFault>>

\* A broken form, for the mutants: the protections outlive the session.
OnPlayerLogoutKeeping ==
    /\ online
    /\ online' = FALSE /\ scanDue' = FALSE
    /\ cache' = [e \in Entries |-> NotCached]
    /\ UNCHANGED <<inventory, ledgers, tracker, rack, clockVars, knownFor, sinceFault>>
OnPlayerLogout ==
    /\ online
    /\ online' = FALSE /\ scanDue' = FALSE
    /\ tracker' = <<>> /\ cache' = [e \in Entries |-> NotCached]
    /\ UNCHANGED <<inventory, ledgers, rack, clockVars, knownFor, sinceFault>>

\* OnShutdown clears everything in memory; OnStartup runs InitialCheck.
Restart ==
    /\ ~online /\ rack = rackRows
    /\ tracker' = <<>> /\ cache' = [e \in Entries |-> NotCached]
    /\ sinceRecheck' = 0 /\ RunHandshake
    /\ UNCHANGED <<session, inventory, ledgers, rack, knownFor, sinceFault>>

Gain(i) ==
    /\ online /\ i \notin Possessed \cup gone
    /\ \E n \in Slots : IsFirst(n, Slots \ Filled) /\ bag' = [bag EXCEPT ![n] = i]
    /\ UNCHANGED <<session, worn, gone, ledgers, tracker, cache, rack, clockVars, knownFor, sinceFault>>

\* Traded, mailed or destroyed: no hook of the module sees it.
Lose(n) ==
    /\ online /\ n \in Filled
    /\ bag' = [bag EXCEPT ![n] = None]
    /\ UNCHANGED <<session, worn, gone, ledgers, tracker, cache, rack, clockVars, knownFor, sinceFault>>

Attune(e) ==
    /\ online /\ e \in rack \cup {WornEntry} /\ attune[e] < MostAttuned[e]
    /\ attune' = [attune EXCEPT ![e] = @ + 1]
    /\ UNCHANGED <<session, inventory, dissolved, rackRows, tracker, cache, rack, clockVars, knownFor, sinceFault>>

ApplyQueued ==
    /\ rack # rackRows /\ rackRows' = rack
    /\ UNCHANGED <<session, inventory, attune, dissolved, tracker, cache, rack, clockVars, knownFor, sinceFault>>

Older(age, limit) == IF age < limit THEN age + 1 ELSE age
Tick ==
    /\ cache' = [e \in Entries |-> [cache[e] EXCEPT !.age = Older(@, TTL)]]
    /\ sinceRecheck' = IF Active THEN Older(sinceRecheck, RecheckInterval) ELSE sinceRecheck
    /\ knownFor' = IF worn # None /\ IsMeaningful(attune[Entry[worn]]) THEN Older(knownFor, TTL) ELSE 0
    /\ sinceFault' = Older(sinceFault, TTL)
    /\ UNCHANGED <<session, inventory, ledgers, tracker, rack, presence>>

Init ==
    /\ online = FALSE /\ scanDue = FALSE
    /\ worn \in Items \cup {None} /\ bag = [n \in Slots |-> None] /\ gone = {}
    /\ attune = [e \in Entries |-> 0] /\ dissolved = {}
    /\ tracker = <<>> /\ cache = [e \in Entries |-> NotCached]
    /\ rack = {} /\ rackRows = {}
    /\ presence \in HandshakeResults /\ sinceRecheck = 0
    /\ knownFor = 0 /\ sinceFault = TTL

BotStep ==
    \/ \E n \in Slots, swaps, bridge \in BOOLEAN, read \in Reads, unread \in SUBSET rackRows :
            OnPlayerCanEquipItem(n, swaps, read, bridge, unread)
    \/ \E n \in Slots, sells \in BOOLEAN : OnPlayerCanSellItem(n, sells)
    \/ \E bridge \in BOOLEAN, read \in Reads, unread \in SUBSET rackRows :
            MaybeReconcileLoginInventory(read, bridge, unread)

Next ==
    \/ BotStep
    \/ OnPlayerLogin \/ OnPlayerLogout \/ Restart \/ MaybeRecheck
    \/ \E i \in Items : Gain(i)
    \/ \E n \in Slots : Lose(n)
    \/ \E e \in Entries : Attune(e)
    \/ ApplyQueued \/ Tick

Spec == Init /\ [][Next]_vars

(* --------------------------------- properties ------------------------------- *)
Typed ==
    /\ online \in BOOLEAN /\ scanDue \in BOOLEAN
    /\ attune \in [Entries -> 0..Full] /\ dissolved \subseteq Entries
    /\ cache \in [Entries -> [pct : 0..Full, age : 0..TTL]]
    /\ rack \subseteq Entries /\ rackRows \subseteq Entries
    /\ presence \in HandshakeResults /\ sinceRecheck \in 0..RecheckInterval
    /\ knownFor \in 0..TTL /\ sinceFault \in 0..TTL

\* An item is in one place.
InOnePlace ==
    /\ worn \in Items \cup {None} /\ bag \in [Slots -> Items \cup {None}] /\ gone \subseteq Items
    /\ \A k, n \in Filled : bag[k] = bag[n] => k = n
    /\ worn # None => \A n \in Slots : bag[n] # worn
    /\ Possessed \cap gone = {}

TrackerOK ==
    /\ tracker \in Seq([item : Items, pct : 0..Full])
    /\ Len(tracker) <= MaxProtected
    /\ \A k, n \in DOMAIN tracker : tracker[k].item = tracker[n].item => k = n

NothingOffline == ~online => tracker = <<>> /\ ~scanDue /\ \A e \in Entries : ~Hit(e)

\* Types, and the tracker's own promise: no item twice, never more than the
\* configured number, whatever is re-equipped, sold, lost or bought back, and
\* nothing of it, of the cache or of the login event outlives the session.
GearTypeOK == Typed /\ InOnePlace /\ TrackerOK /\ NothingOffline

\* "Layer 1 / Layer 2 / Rack protection - each an independent, earlier decision
\* this module already made about the same item. Dissolution must never
\* contradict them." (EchoesDissolutionPolicy.cpp:73-75): no item the tracker
\* holds is ever dissolved, whether it was protected in the bags or is worn
\* again. It holds while no two items share a template.
ProtectedNeverDissolved == [][\A i \in gone' \ gone : i \notin Tracked]_vars

\* Whatever stale reading, hook or scan led to it, a dissolved item was in the
\* bags, completely attuned and clearly worse than the item worn at that moment,
\* which is of another template; and it was off the Rack as the table has it,
\* unless a read failed: of a Rack row that cannot be read, IsItemRackTracked
\* says that there is none, and the racked item is dissolved.
DissolvedIsObsolete ==
    [][\A i \in gone' \ gone :
        /\ worn # None /\ Entry[i] # Entry[worn] /\ ClearUpgrade(Entry[i], Entry[worn])
        /\ attune[Entry[i]] = Full
        /\ sinceFault' > 0 => Entry[i] \notin rackRows]_vars

\* The veto of Layer 1 is blind for at most one TTL: an item whose row has said
\* "meaningfully attuned" for that long, with no failed read in that time, is
\* only ever replaced by a clear upgrade while the module is active.
VetoBlindOnlyBriefly ==
    [][/\ Active /\ worn # None /\ worn' \notin {worn, None} /\ Score[Entry[worn]] > 0
       /\ knownFor >= TTL /\ sinceFault' >= TTL
       => ClearUpgrade(Entry[worn], Entry[worn'])]_vars
================================================================================
