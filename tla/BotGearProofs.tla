----------------------------- MODULE BotGearProofs -----------------------------
(* Theorems about BotGear, for any items, templates, scores, limits and features. *)
EXTENDS BotGear, SequenceTheorems, TLAPS

-----------------------------------------------------------------------------
(* The hooks.                                                                *)

LEMMA SlotsType == \A n \in Slots : n \in Nat
  BY GearAssumption DEF Slots

\* Who dissolves an item has it.
LEMMA DissolvedWasPossessed ==
  ASSUME NEW e, DissolveDirect(e) \/ NotDissolved
  PROVE  gone' \ gone \subseteq Possessed
  BY DEF DissolveDirect, NotDissolved

\* The offer of the equip hook is for the item about to be replaced, which is
\* still worn, and the Lua side dissolves no worn template.
LEMMA EquipDissolvesNothing ==
  ASSUME NEW n \in Slots, NEW swaps \in BOOLEAN, NEW bridge \in BOOLEAN, NEW read \in Reads,
         NEW unread \in SUBSET rackRows, OnPlayerCanEquipItem(n, swaps, read, bridge, unread)
  PROVE  gone' = gone /\ dissolved' = dissolved
  <1>1. CASE ~Active \/ worn = None
    BY <1>1 DEF OnPlayerCanEquipItem, Unopinionated, NotDissolved
  <1>2. CASE ~(~Active \/ worn = None)
    <2> DEFINE info == Info(Entry[worn], read)
               decision == EvaluateAwareness(Entry[worn], Entry[bag[n]], info)
    <2>1. CASE decision # "ACCEPT_CLEAR_UPGRADE"
      BY <1>2, <2>1 DEF OnPlayerCanEquipItem, Unopinionated, NotDissolved
    <2>2. CASE decision = "ACCEPT_CLEAR_UPGRADE"
      <3>1. ClearUpgradeChain(worn, info, bridge, unread)
        BY <1>2, <2>2 DEF OnPlayerCanEquipItem
      <3>2. ~OfferedToDissolution(Entry[worn], info, bridge, unread)
        BY <1>2 DEF OfferedToDissolution, ValidateDissolve, WornEntry
      <3> QED
        BY <3>1, <3>2 DEF ClearUpgradeChain, NotDissolved
    <2> QED
      BY <2>1, <2>2
  <1> QED
    BY <1>1, <1>2

\* What the scan dissolves was in the bags, and passed every gate.
LEMMA ScanDissolves ==
  ASSUME NEW read \in Reads, NEW bridge \in BOOLEAN,
         NEW unread \in SUBSET rackRows,
         MaybeReconcileLoginInventory(read, bridge, unread), NEW i \in gone' \ gone
  PROVE  \E n \in Filled, m \in Filled :
            /\ i = bag[m] /\ Entry[bag[m]] = Entry[bag[n]]
            /\ ReconcileOneBagItem(n, read, bridge, unread)
  <1> DEFINE ready == {n \in Filled : ReconcileOneBagItem(n, read, bridge, unread)}
  <1>1. PICK n \in ready : DissolveDirect(Entry[bag[n]])
    BY DEF MaybeReconcileLoginInventory, NotDissolved
  <1>2. n \in Filled /\ n \in Holding(Entry[bag[n]])
    BY <1>1 DEF Holding
  <1>3. FoundByEntry(i, Entry[bag[n]])
    BY <1>1 DEF DissolveDirect
  <1>4. PICK m \in Holding(Entry[bag[n]]) : i = bag[m]
    BY <1>2, <1>3 DEF FoundByEntry
  <1>5. m \in Filled /\ Entry[bag[m]] = Entry[bag[n]]
    BY <1>4 DEF Holding
  <1> QED
    BY <1>1, <1>2, <1>4, <1>5

\* Nothing else removes an item for good.
LEMMA OthersDissolveNothing ==
  ASSUME [Next]_vars, gone' # gone
  PROVE  \E read \in Reads, bridge \in BOOLEAN, unread \in SUBSET rackRows :
            MaybeReconcileLoginInventory(read, bridge, unread)
  <1>1. ASSUME NEW n \in Slots, NEW sells \in BOOLEAN, OnPlayerCanSellItem(n, sells)
        PROVE  FALSE
    BY <1>1 DEF OnPlayerCanSellItem
  <1>2. ASSUME \/ OnPlayerLogin \/ OnPlayerLogout \/ Restart \/ MaybeRecheck
               \/ \E i \in Items : Gain(i)
               \/ \E n \in Slots : Lose(n)
               \/ \E e \in Entries : Attune(e)
               \/ ApplyQueued \/ Tick \/ UNCHANGED vars
        PROVE  FALSE
    BY <1>2 DEF OnPlayerLogin, OnPlayerLogout, Restart, MaybeRecheck, Gain, Lose,
                Attune, ApplyQueued, Tick, vars, inventory
  <1> QED
    BY <1>1, <1>2, EquipDissolvesNothing DEF Next, BotStep

-----------------------------------------------------------------------------
\* Whatever stale reading, hook or scan led to it, a dissolved item lay in the
\* bags, was completely attuned and clearly worse than the worn one, and off the
\* Rack unless a read failed: the dry run repeats on the Lua side what the policy
\* was told of attunement and gear, and the execution follows it in the same
\* handler, but of the Rack there is only the policy's own query, whose failure
\* looks like no row.
THEOREM DissolvedIsObsoleteAlways == Spec => DissolvedIsObsolete
  <1> DEFINE Sound == \A i \in gone' \ gone :
                        /\ worn # None /\ Entry[i] # Entry[worn] /\ ClearUpgrade(Entry[i], Entry[worn])
                        /\ attune[Entry[i]] = Full
                        /\ sinceFault' > 0 => Entry[i] \notin rackRows
  <1>1. [Next]_vars => [Sound]_vars
    <2> SUFFICES ASSUME [Next]_vars, NEW i \in gone' \ gone
                 PROVE  /\ worn # None /\ Entry[i] # Entry[worn] /\ ClearUpgrade(Entry[i], Entry[worn])
                        /\ attune[Entry[i]] = Full
                        /\ sinceFault' > 0 => Entry[i] \notin rackRows
      OBVIOUS
    <2>1. PICK read \in Reads, bridge \in BOOLEAN, unread \in SUBSET rackRows :
             MaybeReconcileLoginInventory(read, bridge, unread)
      BY OthersDissolveNothing
    <2>2. PICK n \in Filled, m \in Filled :
             /\ i = bag[m] /\ Entry[bag[m]] = Entry[bag[n]]
             /\ ReconcileOneBagItem(n, read, bridge, unread)
      BY <2>1, ScanDissolves
    <2>3. unread # {} => sinceFault' = 0
      <3>1. ScanEnabled
        BY <2>1 DEF MaybeReconcileLoginInventory, NotDissolved
      <3> QED
        BY <2>1, <3>1 DEF MaybeReconcileLoginInventory, Get
    <2>4. sinceFault' > 0 => Entry[i] \notin rackRows
      BY <2>2, <2>3 DEF ReconcileOneBagItem, EvaluateDissolutionEligibility, IsItemRackTracked
    <2> QED
      BY <2>2, <2>4 DEF ReconcileOneBagItem, EvaluateDissolutionEligibility, ValidateDissolve,
                        Obsolete, WornEntry
  <1> QED
    BY <1>1, PTL DEF Spec, DissolvedIsObsolete

-----------------------------------------------------------------------------
(* The type invariant: where an item is.                                     *)

LEMMA FilledType ==
  ASSUME InOnePlace, NEW n \in Filled
  PROVE  bag[n] \in Items /\ bag[n] # None /\ bag[n] \in Possessed /\ n \in Slots
  BY DEF InOnePlace, Filled, Possessed

LEMMA SamePlaces == InOnePlace /\ UNCHANGED inventory => InOnePlace'
  BY DEF InOnePlace, inventory, Filled, Possessed

\* One slot emptied, whatever becomes of the item.
LEMMA Emptied ==
  ASSUME InOnePlace, NEW n \in Filled, bag' = [bag EXCEPT ![n] = None],
         worn' = worn, gone' = gone \/ gone' = gone \cup {bag[n]}
  PROVE  InOnePlace'
  <1>1. bag[n] \in Items /\ bag[n] # None /\ n \in Slots
    BY FilledType
  <1>2. bag' \in [Slots -> Items \cup {None}] /\ gone' \subseteq Items
    BY <1>1 DEF InOnePlace
  <1>3. Filled' = Filled \ {n} /\ \A k \in Filled' : bag'[k] = bag[k] /\ k # n
    BY <1>1 DEF Filled, InOnePlace
  <1>4. \A k, m \in Filled' : bag'[k] = bag'[m] => k = m
    BY <1>3 DEF InOnePlace
  <1>5. worn' # None => \A k \in Slots : bag'[k] # worn'
    BY <1>1 DEF InOnePlace
  <1>6. Possessed' \cap gone' = {}
    <2>1. Possessed' \subseteq Possessed
      BY <1>3 DEF Possessed
    <2>2. bag[n] \notin Possessed'
      <3>1. \A k \in Filled' : bag'[k] # bag[n]
        BY <1>3 DEF InOnePlace
      <3>2. worn # bag[n]
        BY <1>1 DEF InOnePlace
      <3> QED
        BY <3>1, <3>2 DEF Possessed
    <2> QED
      BY <2>1, <2>2 DEF InOnePlace
  <1> QED
    BY <1>2, <1>4, <1>5, <1>6 DEF InOnePlace

\* The core swaps the worn item with one of the bags, or does nothing.
LEMMA EquipMoves ==
  ASSUME InOnePlace, NEW n \in Slots, NEW swaps \in BOOLEAN, NEW bridge \in BOOLEAN,
         NEW read \in Reads, NEW unread \in SUBSET rackRows,
         OnPlayerCanEquipItem(n, swaps, read, bridge, unread)
  PROVE  /\ n \in Filled
         /\ \/ UNCHANGED <<worn, bag>>
            \/ worn' = bag[n] /\ bag' = [bag EXCEPT ![n] = worn]
  <1>1. gone' = gone
    BY EquipDissolvesNothing
  <1>2. n \in Filled /\ \E does \in BOOLEAN : Swap(n, does)
    BY DEF OnPlayerCanEquipItem
  <1>3. worn \notin gone' \/ worn = None
    BY <1>1 DEF InOnePlace, Possessed
  <1>4. Remaining = bag
    <2>1. \A k \in Slots : (IF bag[k] \in gone' THEN None ELSE bag[k]) = bag[k]
      BY <1>1 DEF InOnePlace, Possessed, Filled
    <2>2. bag = [k \in Slots |-> bag[k]]
      BY DEF InOnePlace
    <2> QED
      BY <2>1, <2>2 DEF Remaining
  <1> QED
    BY <1>2, <1>3, <1>4 DEF Swap

LEMMA EquipPlaces ==
  ASSUME InOnePlace, NEW n \in Slots, NEW swaps \in BOOLEAN, NEW bridge \in BOOLEAN,
         NEW read \in Reads, NEW unread \in SUBSET rackRows,
         OnPlayerCanEquipItem(n, swaps, read, bridge, unread)
  PROVE  InOnePlace'
  <1>1. gone' = gone
    BY EquipDissolvesNothing
  <1>2. CASE UNCHANGED <<worn, bag>>
    BY <1>1, <1>2, SamePlaces DEF inventory
  <1>3. CASE worn' = bag[n] /\ bag' = [bag EXCEPT ![n] = worn]
    <2>1. n \in Filled /\ bag[n] \in Items /\ bag[n] # None /\ bag[n] \in Possessed
      BY EquipMoves, FilledType
    <2>2. worn' \in Items \cup {None} /\ bag' \in [Slots -> Items \cup {None}]
      BY <1>3, <2>1 DEF InOnePlace
    <2>3. /\ bag'[n] = worn
          /\ \A k \in Slots \ {n} : bag'[k] = bag[k]
          /\ Filled' \subseteq Filled
      BY <1>3, <2>1 DEF InOnePlace, Filled
    <2>4. \A k, m \in Filled' : bag'[k] = bag'[m] => k = m
      BY <2>1, <2>3 DEF InOnePlace, Filled
    <2>5. \A k \in Slots : bag'[k] # worn'
      BY <1>3, <2>1, <2>3 DEF InOnePlace, Filled
    <2>6. Possessed' \subseteq Possessed
      BY <1>3, <2>1, <2>3 DEF Possessed, Filled
    <2> QED
      BY <1>1, <2>2, <2>4, <2>5, <2>6 DEF InOnePlace
  <1> QED
    BY <1>2, <1>3, EquipMoves

\* The scan takes the dissolved item, and no other, out of the bags.
LEMMA ScanPlaces ==
  ASSUME InOnePlace, NEW read \in Reads, NEW bridge \in BOOLEAN,
         NEW unread \in SUBSET rackRows,
         MaybeReconcileLoginInventory(read, bridge, unread)
  PROVE  InOnePlace'
  <1>1. worn' = worn /\ bag' = Remaining
    BY DEF MaybeReconcileLoginInventory
  <1>2. CASE gone' = gone
    <2>1. \A k \in Slots : (IF bag[k] \in gone' THEN None ELSE bag[k]) = bag[k]
      BY <1>2 DEF InOnePlace, Possessed, Filled
    <2>2. bag = [k \in Slots |-> bag[k]]
      BY DEF InOnePlace
    <2>3. bag' = bag
      BY <1>1, <2>1, <2>2 DEF Remaining
    <2> QED
      BY <1>1, <1>2, <2>3, SamePlaces DEF inventory
  <1>3. CASE gone' # gone
    <2>1. PICK i : gone' = gone \cup {i} /\ i \notin gone
      BY <1>3 DEF MaybeReconcileLoginInventory, DissolveDirect, NotDissolved
    <2>2. PICK m \in Filled : i = bag[m]
      BY <2>1, ScanDissolves
    <2>3. bag' = [bag EXCEPT ![m] = None]
      <3>1. \A k \in Slots : (IF bag[k] \in gone' THEN None ELSE bag[k])
                              = (IF k = m THEN None ELSE bag[k])
        BY <2>1, <2>2 DEF InOnePlace, Possessed, Filled
      <3>2. [bag EXCEPT ![m] = None] = [k \in Slots |-> IF k = m THEN None ELSE bag[k]]
        BY DEF InOnePlace
      <3> QED
        BY <1>1, <3>1, <3>2 DEF Remaining
    <2> QED
      BY <1>1, <2>1, <2>2, <2>3, Emptied
  <1> QED
    BY <1>2, <1>3

LEMMA GainPlaces ==
  ASSUME InOnePlace, NEW i \in Items, Gain(i)
  PROVE  InOnePlace'
  <1>1. PICK n \in Slots \ Filled : bag' = [bag EXCEPT ![n] = i]
    BY DEF Gain, IsFirst
  <1>2. worn' = worn /\ gone' = gone /\ i \notin Possessed /\ i \notin gone /\ i # None
    BY GearAssumption DEF Gain
  <1>3. bag'[n] = i /\ \A k \in Slots \ {n} : bag'[k] = bag[k]
    BY <1>1 DEF InOnePlace
  <1>4. bag' \in [Slots -> Items \cup {None}]
    BY <1>1 DEF InOnePlace
  <1>5. Filled' = Filled \cup {n}
    BY <1>2, <1>3 DEF Filled
  <1>6. \A k, m \in Filled' : bag'[k] = bag'[m] => k = m
    BY <1>2, <1>3, <1>5 DEF InOnePlace, Possessed, Filled
  <1>7. worn' # None => \A k \in Slots : bag'[k] # worn'
    BY <1>2, <1>3 DEF InOnePlace, Possessed
  <1>8. Possessed' = Possessed \cup {i}
    BY <1>2, <1>3, <1>5 DEF Possessed, Filled
  <1> QED
    BY <1>2, <1>4, <1>6, <1>7, <1>8 DEF InOnePlace

LEMMA PlacesStep == InOnePlace /\ [Next]_vars => InOnePlace'
  <1> SUFFICES ASSUME InOnePlace, [Next]_vars PROVE InOnePlace'
    OBVIOUS
  <1>1. ASSUME NEW n \in Slots, NEW swaps \in BOOLEAN, NEW bridge \in BOOLEAN,
               NEW read \in Reads, NEW unread \in SUBSET rackRows,
               OnPlayerCanEquipItem(n, swaps, read, bridge, unread)
        PROVE  InOnePlace'
    BY <1>1, EquipPlaces
  <1>2. ASSUME NEW n \in Slots, NEW sells \in BOOLEAN, OnPlayerCanSellItem(n, sells)
        PROVE  InOnePlace'
    <2>1. n \in Filled /\ UNCHANGED <<worn, gone>>
          /\ (bag' = bag \/ bag' = [bag EXCEPT ![n] = None])
      BY <1>2 DEF OnPlayerCanSellItem
    <2> QED
      BY <2>1, Emptied, SamePlaces DEF inventory
  <1>3. ASSUME NEW read \in Reads, NEW bridge \in BOOLEAN,
               NEW unread \in SUBSET rackRows,
               MaybeReconcileLoginInventory(read, bridge, unread)
        PROVE  InOnePlace'
    BY <1>3, ScanPlaces
  <1>4. ASSUME NEW i \in Items, Gain(i) PROVE InOnePlace'
    BY <1>4, GainPlaces
  <1>5. ASSUME NEW n \in Slots, Lose(n) PROVE InOnePlace'
    BY <1>5, Emptied DEF Lose
  <1>6. ASSUME \/ OnPlayerLogin \/ OnPlayerLogout \/ Restart \/ MaybeRecheck
               \/ \E e \in Entries : Attune(e)
               \/ ApplyQueued \/ Tick \/ UNCHANGED vars
        PROVE  InOnePlace'
    BY <1>6, SamePlaces DEF OnPlayerLogin, OnPlayerLogout, Restart, MaybeRecheck,
            Attune, ApplyQueued, Tick, vars, inventory
  <1> QED
    BY <1>1, <1>2, <1>3, <1>4, <1>5, <1>6 DEF Next, BotStep

LEMMA PlacesAlways == Spec => []InOnePlace
  <1>1. Init => InOnePlace
    BY GearAssumption DEF Init, InOnePlace, Filled, Possessed
  <1> QED
    BY <1>1, PlacesStep, PTL DEF Spec

-----------------------------------------------------------------------------
\* "Dissolution must never contradict" an earlier protection
\* (EchoesDissolutionPolicy.cpp:76-78), for any number of items and protections -
\* under the assumption that no two items of the bot share a template, which the
\* run with copies shows to be needed: the scan asks the tracker about one item
\* and the Lua side takes the first of its template.
THEOREM ProtectedNeverDissolvedAlways ==
  ASSUME \A i, j \in Items : Entry[i] = Entry[j] => i = j
  PROVE  Spec => ProtectedNeverDissolved
  <1> DEFINE Spared == \A i \in gone' \ gone : i \notin Tracked
  <1>1. InOnePlace /\ [Next]_vars => [Spared]_vars
    <2> SUFFICES ASSUME InOnePlace, [Next]_vars, NEW i \in gone' \ gone
                 PROVE  i \notin Tracked
      OBVIOUS
    <2>1. PICK read \in Reads, bridge \in BOOLEAN, unread \in SUBSET rackRows :
             MaybeReconcileLoginInventory(read, bridge, unread)
      BY OthersDissolveNothing
    <2>2. PICK n \in Filled, m \in Filled :
             /\ i = bag[m] /\ Entry[bag[m]] = Entry[bag[n]]
             /\ ReconcileOneBagItem(n, read, bridge, unread)
      BY <2>1, ScanDissolves
    <2>3. i = bag[n]
      BY <2>2, FilledType
    <2>4. bag[n] \notin Tracked
      BY <2>2 DEF ReconcileOneBagItem, EvaluateDissolutionEligibility
    <2> QED
      BY <2>3, <2>4
  <1> QED
    BY <1>1, PlacesAlways, PTL DEF Spec, ProtectedNeverDissolved

-----------------------------------------------------------------------------
(* The type invariant: the tracker, the cache and the session.               *)

Protection == [item : Items, pct : 0..Full]

LEMMA TrackerFacts ==
  ASSUME TrackerOK
  PROVE  /\ tracker \in Seq(Protection) /\ Len(tracker) \in Nat /\ MaxProtected \in Nat
         /\ DOMAIN tracker = 1..Len(tracker)
         /\ \A n \in DOMAIN tracker : tracker[n] \in Protection
  <1>1. tracker \in Seq(Protection)
    BY DEF TrackerOK, Protection
  <1> QED
    BY <1>1, LenProperties, ElementOfSeq, GearAssumption

LEMMA SeqOfFunction ==
  ASSUME NEW S, NEW n \in Nat, NEW f \in [1..n -> S]
  PROVE  f \in Seq(S) /\ Len(f) = n /\ DOMAIN f = 1..n
  <1>1. f \in Seq(S)
    BY SeqDef
  <1> QED
    BY <1>1, LenProperties

\* Protecting an item renews its entry, or adds one where there is room.
LEMMA ProtectOK ==
  ASSUME TrackerOK, NEW item \in Items, NEW pct \in 0..Full,
         Len(tracker) < MaxProtected, tracker' = Protect(item, pct)
  PROVE  TrackerOK'
  <1>0. MaxProtected \in Nat /\ Len(tracker) \in Nat
    BY TrackerFacts
  <1>1. CASE item \in Tracked
    <2>1. tracker' = [n \in DOMAIN tracker |-> IF tracker[n].item = item
                        THEN [tracker[n] EXCEPT !.pct = pct] ELSE tracker[n]]
      BY <1>1 DEF Protect
    <2>2. DOMAIN tracker = 1..Len(tracker)
      BY TrackerFacts
    <2>3. ASSUME NEW n \in DOMAIN tracker
          PROVE  /\ tracker'[n] \in Protection
                 /\ tracker'[n].item = tracker[n].item
      <3>1. tracker[n] \in Protection
        BY TrackerFacts
      <3> QED
        BY <2>1, <3>1 DEF Protection
    <2>4. DOMAIN tracker' = DOMAIN tracker
      BY <2>1
    <2>5. tracker' \in [1..Len(tracker) -> Protection]
      <3>1. tracker' = [n \in 1..Len(tracker) |-> tracker'[n]]
        BY <2>1, <2>2
      <3> QED
        BY <2>2, <2>3, <3>1
    <2>6. tracker' \in Seq(Protection) /\ Len(tracker') = Len(tracker)
      BY <1>0, <2>5, SeqOfFunction
    <2> QED
      BY <2>3, <2>4, <2>6 DEF TrackerOK, Protection
  <1>2. CASE item \notin Tracked
    <2> DEFINE entry == [item |-> item, pct |-> pct]
    <2>1. tracker' = Append(tracker, entry) /\ entry \in Protection
      BY <1>2 DEF Protect, Protection
    <2>2. \A n \in DOMAIN tracker : tracker[n].item # entry.item
      BY <1>2 DEF Tracked
    <2> HIDE DEF entry
    <2>3. /\ tracker' \in Seq(Protection) /\ Len(tracker') = Len(tracker) + 1
          /\ \A n \in DOMAIN tracker : tracker'[n] = tracker[n]
          /\ tracker'[Len(tracker) + 1] = entry
          /\ DOMAIN tracker' = DOMAIN tracker \cup {Len(tracker) + 1}
      BY <2>1, TrackerFacts
    <2> QED
      BY <1>0, <2>2, <2>3 DEF TrackerOK, Protection
  <1> QED
    BY <1>1, <1>2

LEMMA ReleaseOK ==
  ASSUME TrackerOK, NEW item, Release(item)
  PROVE  TrackerOK'
  <1>1. PICK n \in DOMAIN tracker :
           tracker' = [k \in 1..(Len(tracker) - 1) |->
                          IF k < n THEN tracker[k] ELSE tracker[k + 1]]
    BY DEF Release
  <1> DEFINE size == Len(tracker) - 1
             From(k) == IF k < n THEN k ELSE k + 1
  <1>2. /\ Len(tracker) \in Nat /\ MaxProtected \in Nat /\ DOMAIN tracker = 1..Len(tracker)
        /\ n \in 1..Len(tracker) /\ size \in Nat
    BY TrackerFacts
  <1>3. ASSUME NEW k \in 1..size
        PROVE  /\ From(k) \in DOMAIN tracker /\ tracker'[k] = tracker[From(k)]
               /\ tracker'[k] \in Protection
    <2>1. From(k) \in 1..Len(tracker)
      BY <1>2
    <2>2. tracker'[k] = tracker[From(k)]
      BY <1>1
    <2>3. tracker[From(k)] \in Protection
      <3> HIDE DEF From
      <3> QED
        BY <2>1, TrackerFacts
    <2> QED
      BY <1>2, <2>1, <2>2, <2>3
  <1>4. DOMAIN tracker' = 1..size /\ tracker' = [k \in 1..size |-> tracker'[k]]
    BY <1>1
  <1>5. tracker' \in [1..size -> Protection]
    BY <1>3, <1>4
  <1>6. tracker' \in Seq(Protection) /\ Len(tracker') = size
    <2> HIDE DEF size
    <2> QED
      BY <1>2, <1>5, SeqOfFunction
  <1>7. ASSUME NEW k \in 1..size, NEW m \in 1..size, From(k) = From(m) PROVE k = m
    BY <1>2, <1>7
  <1>8. ASSUME NEW k \in 1..size, NEW m \in 1..size, tracker'[k].item = tracker'[m].item
        PROVE  k = m
    <2>1. From(k) \in DOMAIN tracker /\ From(m) \in DOMAIN tracker
          /\ tracker'[k] = tracker[From(k)] /\ tracker'[m] = tracker[From(m)]
      BY <1>3
    <2> HIDE DEF From
    <2>2. From(k) = From(m)
      BY <1>8, <2>1 DEF TrackerOK
    <2> QED
      BY <1>7, <2>2
  <1>9. Len(tracker') <= MaxProtected
    <2>1. Len(tracker) <= MaxProtected
      BY DEF TrackerOK
    <2> QED
      BY <1>2, <1>6, <2>1
  <1>10. \A k, m \in DOMAIN tracker' : tracker'[k].item = tracker'[m].item => k = m
    <2> HIDE DEF size, From
    <2> QED
      BY <1>4, <1>8
  <1>11. tracker' \in Seq([item : Items, pct : 0..Full])
    BY <1>6 DEF Protection
  <1> HIDE DEF size, From
  <1> QED
    BY <1>9, <1>10, <1>11 DEF TrackerOK

LEMMA EmptyTracker == tracker' = <<>> => TrackerOK'
  BY EmptySeq, GearAssumption DEF TrackerOK

LEMMA SameTracker == TrackerOK /\ UNCHANGED tracker => TrackerOK'
  BY DEF TrackerOK

-----------------------------------------------------------------------------
\* What a lookup returns and what it leaves.
LEMMA CacheStep ==
  ASSUME Typed, NEW es, NEW read, NEW unread, Get(es, read, unread)
  PROVE  /\ cache' \in [Entries -> [pct : 0..Full, age : 0..TTL]]
         /\ sinceFault' \in 0..TTL
  <1>1. \A e \in Entries : /\ cache[e] \in [pct : 0..Full, age : 0..TTL]
                           /\ [pct |-> RowAsRead(e, read), age |-> 0]
                                \in [pct : 0..Full, age : 0..TTL]
    BY GearAssumption DEF Typed, RowAsRead
  <1> QED
    BY <1>1, GearAssumption DEF Get, Loaded, Typed

LEMMA InfoType ==
  ASSUME Typed, NEW e \in Entries, NEW read, Info(e, read) # None
  PROVE  Info(e, read) \in 0..Full
  BY GearAssumption DEF Typed, Info, RowAsRead

\* The equip hook touches the tracker, the Rack and the cache.
LEMMA EquipStep ==
  ASSUME GearTypeOK, NEW n \in Slots, NEW swaps \in BOOLEAN, NEW bridge \in BOOLEAN,
         NEW read \in Reads, NEW unread \in SUBSET rackRows,
         OnPlayerCanEquipItem(n, swaps, read, bridge, unread)
  PROVE  GearTypeOK'
  <1>1. InOnePlace'
    BY EquipPlaces DEF GearTypeOK
  <1>2. dissolved' = dissolved
    BY EquipDissolvesNothing
  <1>3. /\ UNCHANGED <<session, attune, clockVars>> /\ online
        /\ rackRows' \subseteq rackRows
    BY DEF OnPlayerCanEquipItem, RackAfter
  <1>4. knownFor' \in 0..TTL
    BY GearAssumption DEF OnPlayerCanEquipItem, GearTypeOK, Typed
  <1>5. /\ cache' \in [Entries -> [pct : 0..Full, age : 0..TTL]]
        /\ sinceFault' \in 0..TTL
        /\ rack' \subseteq Entries
        /\ TrackerOK'
    <2>1. CASE ~Active \/ worn = None
      BY <2>1, SameTracker
         DEF OnPlayerCanEquipItem, Unopinionated, RackAfter, GearTypeOK, Typed
    <2>2. CASE ~(~Active \/ worn = None)
      <3> DEFINE info == Info(Entry[worn], read)
                 decision == EvaluateAwareness(Entry[worn], Entry[bag[n]], info)
      <3>1. worn \in Items /\ Entry[worn] \in Entries
        BY <2>2, GearAssumption DEF GearTypeOK, InOnePlace
      <3>2. /\ cache' \in [Entries -> [pct : 0..Full, age : 0..TTL]]
            /\ sinceFault' \in 0..TTL
        BY <2>2, CacheStep DEF OnPlayerCanEquipItem, GearTypeOK
      <3>3. CASE decision # "ACCEPT_CLEAR_UPGRADE"
        BY <2>2, <3>2, <3>3, SameTracker
           DEF OnPlayerCanEquipItem, Unopinionated, RackAfter, GearTypeOK, Typed
      <3>4. CASE decision = "ACCEPT_CLEAR_UPGRADE"
        <4>1. ClearUpgradeChain(worn, info, bridge, unread)
          BY <2>2, <3>4 DEF OnPlayerCanEquipItem
        <4>2. info # None
          BY <3>4 DEF EvaluateAwareness
        <4>3. info \in 0..Full
          BY <3>1, <4>2, InfoType DEF GearTypeOK
        <4> HIDE DEF info
        <4>4. rack' \subseteq Entries
          BY <2>2, <3>1, <3>4 DEF OnPlayerCanEquipItem, RackAfter, RackOffer, GearTypeOK, Typed
        <4>5. TrackerOK'
          <5>1. CASE Protects(info)
            BY <3>1, <4>1, <4>3, <5>1, ProtectOK
               DEF ClearUpgradeChain, Protects, EvaluateProtectionCandidate, GearTypeOK
          <5>2. CASE ~Protects(info)
            BY <4>1, <5>2, SameTracker DEF ClearUpgradeChain, GearTypeOK
          <5> QED
            BY <5>1, <5>2
        <4> QED
          BY <3>2, <4>4, <4>5
      <3> QED
        BY <3>3, <3>4
    <2> QED
      BY <2>1, <2>2
  <1>6. Typed' /\ NothingOffline'
    BY <1>2, <1>3, <1>4, <1>5 DEF GearTypeOK, Typed, NothingOffline, session, clockVars
  <1> QED
    BY <1>1, <1>5, <1>6 DEF GearTypeOK

LEMMA ScanStep ==
  ASSUME GearTypeOK, NEW read \in Reads, NEW bridge \in BOOLEAN,
         NEW unread \in SUBSET rackRows,
         MaybeReconcileLoginInventory(read, bridge, unread)
  PROVE  GearTypeOK'
  <1>1. InOnePlace'
    BY ScanPlaces DEF GearTypeOK
  <1>2. /\ cache' \in [Entries -> [pct : 0..Full, age : 0..TTL]]
        /\ sinceFault' \in 0..TTL
    BY CacheStep DEF MaybeReconcileLoginInventory, GearTypeOK, Typed
  <1>3. /\ rack' \subseteq Entries /\ rackRows' \subseteq Entries
        /\ dissolved' \subseteq Entries
    <2>1. \A n \in Filled : Entry[bag[n]] \in Entries
      BY FilledType, GearAssumption DEF GearTypeOK
    <2> DEFINE ready == {n \in Filled : ReconcileOneBagItem(n, read, bridge, unread)}
    <2>2. NotDissolved \/ \E n \in ready : DissolveDirect(Entry[bag[n]])
      BY DEF MaybeReconcileLoginInventory
    <2>3. dissolved' \subseteq Entries
      BY <2>1, <2>2 DEF NotDissolved, DissolveDirect, GearTypeOK, Typed
    <2> QED
      BY <2>3 DEF MaybeReconcileLoginInventory, RackAfter, GearTypeOK, Typed
  <1>4. /\ UNCHANGED <<online, attune, tracker, clockVars, knownFor>>
        /\ online /\ scanDue' = FALSE
    BY DEF MaybeReconcileLoginInventory
  <1>5. TrackerOK'
    BY <1>4, SameTracker DEF GearTypeOK
  <1> QED
    BY <1>1, <1>2, <1>3, <1>4, <1>5 DEF GearTypeOK, Typed, NothingOffline, clockVars

LEMMA NewCache ==
  ASSUME cache' = [e \in Entries |-> NotCached]
  PROVE  /\ cache' \in [Entries -> [pct : 0..Full, age : 0..TTL]]
         /\ \A e \in Entries : ~Hit(e)'
  BY GearAssumption DEF NotCached, Hit

LEMMA GearInit == Init => GearTypeOK
  <1> SUFFICES ASSUME Init PROVE GearTypeOK
    OBVIOUS
  <1>0. /\ Full \in Nat /\ TTL \in Nat /\ RecheckInterval \in Nat
        /\ 0 \in 0..Full /\ TTL \in 0..TTL /\ 0 \in 0..TTL /\ 0 \in 0..RecheckInterval
    BY GearAssumption
  <1>1. Typed
    <2>1. cache \in [Entries -> [pct : 0..Full, age : 0..TTL]]
      BY <1>0 DEF Init, NotCached
    <2>2. attune \in [Entries -> 0..Full]
      BY <1>0 DEF Init
    <2> QED
      BY <1>0, <2>1, <2>2 DEF Init, Typed
  <1>2. InOnePlace
    BY GearAssumption DEF Init, InOnePlace, Filled, Possessed
  <1>3. TrackerOK
    BY EmptySeq, GearAssumption DEF Init, TrackerOK
  <1>4. NothingOffline
    BY GearAssumption DEF Init, NothingOffline, NotCached, Hit
  <1> QED
    BY <1>1, <1>2, <1>3, <1>4 DEF GearTypeOK

LEMMA GearStep == GearTypeOK /\ [Next]_vars => GearTypeOK'
  <1> SUFFICES ASSUME GearTypeOK, [Next]_vars PROVE GearTypeOK'
    OBVIOUS
  <1> USE GearAssumption
  <1> USE DEF session, inventory, ledgers, clockVars
  <1>1. InOnePlace'
    BY PlacesStep DEF GearTypeOK
  <1>2. ASSUME NEW n \in Slots, NEW swaps \in BOOLEAN, NEW bridge \in BOOLEAN,
               NEW read \in Reads, NEW unread \in SUBSET rackRows,
               OnPlayerCanEquipItem(n, swaps, read, bridge, unread)
        PROVE  GearTypeOK'
    BY <1>2, EquipStep
  <1>3. ASSUME NEW n \in Slots, NEW sells \in BOOLEAN, OnPlayerCanSellItem(n, sells)
        PROVE  GearTypeOK'
    <2>1. UNCHANGED <<session, ledgers, cache, rack, clockVars, knownFor, sinceFault>> /\ online
      BY <1>3 DEF OnPlayerCanSellItem
    <2>2. TrackerOK'
      BY <1>3, ReleaseOK, SameTracker DEF OnPlayerCanSellItem, GearTypeOK
    <2>3. Typed' /\ NothingOffline'
      BY <2>1 DEF GearTypeOK, Typed, NothingOffline
    <2> QED
      BY <1>1, <2>2, <2>3 DEF GearTypeOK
  <1>4. ASSUME NEW read \in Reads, NEW bridge \in BOOLEAN,
               NEW unread \in SUBSET rackRows,
               MaybeReconcileLoginInventory(read, bridge, unread)
        PROVE  GearTypeOK'
    BY <1>4, ScanStep
  <1>5. ASSUME OnPlayerLogin PROVE GearTypeOK'
    BY <1>1, <1>5, SameTracker DEF OnPlayerLogin, GearTypeOK, Typed, NothingOffline
  <1>6. ASSUME OnPlayerLogout PROVE GearTypeOK'
    BY <1>1, <1>6, EmptyTracker, NewCache DEF OnPlayerLogout, GearTypeOK, Typed, NothingOffline
  <1>7. ASSUME Restart PROVE GearTypeOK'
    BY <1>1, <1>7, EmptyTracker, NewCache DEF Restart, RunHandshake, GearTypeOK, Typed, NothingOffline
  <1>8. ASSUME MaybeRecheck PROVE GearTypeOK'
    <2>1. Typed' /\ NothingOffline' /\ TrackerOK'
      BY <1>8, SameTracker
         DEF MaybeRecheck, RunHandshake, GearTypeOK, Typed, NothingOffline, Hit
    <2> QED
      BY <1>1, <2>1 DEF GearTypeOK
  <1>9. ASSUME \/ \E i \in Items : Gain(i)
               \/ \E n \in Slots : Lose(n)
               \/ ApplyQueued \/ UNCHANGED vars
        PROVE  GearTypeOK'
    <2>1. UNCHANGED <<session, attune, dissolved, tracker, cache, rack, clockVars,
                      knownFor, sinceFault>>
      BY <1>9 DEF Gain, Lose, ApplyQueued, vars
    <2>2. rackRows' \in {rackRows, rack}
      BY <1>9 DEF Gain, Lose, ApplyQueued, vars
    <2>3. Typed' /\ NothingOffline' /\ TrackerOK'
      BY <2>1, <2>2, SameTracker DEF GearTypeOK, Typed, NothingOffline, Hit
    <2> QED
      BY <1>1, <2>3 DEF GearTypeOK
  <1>10. ASSUME NEW e \in Entries, Attune(e) PROVE GearTypeOK'
    <2>1. attune' \in [Entries -> 0..Full]
      <3>1. attune[e] \in 0..Full /\ MostAttuned[e] \in 0..Full /\ attune[e] < MostAttuned[e]
        BY <1>10 DEF Attune, GearTypeOK, Typed
      <3>2. attune[e] + 1 \in 0..Full
        BY <3>1
      <3> QED
        BY <1>10, <3>2 DEF Attune, GearTypeOK, Typed
    <2>2. Typed' /\ NothingOffline' /\ TrackerOK'
      BY <1>10, <2>1, SameTracker DEF Attune, GearTypeOK, Typed, NothingOffline, Hit
    <2> QED
      BY <1>1, <2>2 DEF GearTypeOK
  <1>11. ASSUME Tick PROVE GearTypeOK'
    <2>1. \A age \in 0..TTL : Older(age, TTL) \in 0..TTL /\ (age = TTL => Older(age, TTL) = TTL)
      BY DEF Older
    <2>2. ASSUME NEW e \in Entries
          PROVE  /\ cache'[e] \in [pct : 0..Full, age : 0..TTL]
                 /\ ~Hit(e) => ~Hit(e)'
      <3>1. cache[e] \in [pct : 0..Full, age : 0..TTL]
            /\ cache'[e] = [cache[e] EXCEPT !.age = Older(@, TTL)]
        BY <1>11 DEF Tick, GearTypeOK, Typed
      <3> QED
        BY <2>1, <3>1 DEF Hit
    <2>3. cache' \in [Entries -> [pct : 0..Full, age : 0..TTL]]
      <3>1. cache' = [e \in Entries |-> cache'[e]]
        BY <1>11 DEF Tick
      <3> QED
        BY <2>2, <3>1
    <2>4. sinceRecheck' \in 0..RecheckInterval /\ knownFor' \in 0..TTL /\ sinceFault' \in 0..TTL
      BY <1>11 DEF Tick, Older, GearTypeOK, Typed
    <2>5. Typed'
      BY <1>11, <2>3, <2>4 DEF Tick, GearTypeOK, Typed
    <2>6. NothingOffline' /\ TrackerOK'
      BY <1>11, <2>2, SameTracker DEF Tick, GearTypeOK, NothingOffline
    <2> QED
      BY <1>1, <2>5, <2>6 DEF GearTypeOK
  <1> QED
    BY <1>2, <1>3, <1>4, <1>5, <1>6, <1>7, <1>8, <1>9, <1>10, <1>11 DEF Next, BotStep

\* An item is in one place; the tracker holds no item twice and never more than
\* layer2MaxProtectedItemsPerBot; no protection, cached reading or login event
\* outlives its session - for any configuration and any order of the hooks.
THEOREM GearTypeCorrect == Spec => []GearTypeOK
  BY GearInit, GearStep, PTL DEF Spec

-----------------------------------------------------------------------------
(* The veto.                                                                 *)

\* A row that has been meaningful for a while still is (attunement only grows),
\* and a cached reading that says otherwise is older than that, or a read has
\* failed since it was made.
Remembered ==
    /\ knownFor > 0 => worn # None /\ IsMeaningful(attune[Entry[worn]])
    /\ worn # None /\ Hit(Entry[worn]) /\ ~IsMeaningful(cache[Entry[worn]].pct)
          => knownFor <= cache[Entry[worn]].age \/ sinceFault <= cache[Entry[worn]].age

VetoInv == GearTypeOK /\ Remembered

\* The ages as numbers.
LEMMA Ages ==
  ASSUME GearTypeOK
  PROVE  /\ knownFor \in Nat /\ sinceFault \in Nat /\ TTL \in Nat \ {0} /\ Meaningful \in Nat \ {0}
         /\ worn # None => /\ Entry[worn] \in Entries /\ attune[Entry[worn]] \in Nat
                           /\ cache[Entry[worn]].age \in Nat /\ cache[Entry[worn]].pct \in Nat
  <1>1. worn # None => Entry[worn] \in Entries
    BY GearAssumption DEF GearTypeOK, InOnePlace
  <1>2. \A e \in Entries : /\ attune[e] \in 0..Full
                           /\ cache[e] \in [pct : 0..Full, age : 0..TTL]
    BY DEF GearTypeOK, Typed
  <1>3. Full \in Nat /\ TTL \in Nat \ {0} /\ Meaningful \in Nat \ {0}
    BY GearAssumption
  <1>4. knownFor \in 0..TTL /\ sinceFault \in 0..TTL
    BY DEF GearTypeOK, Typed
  <1> QED
    BY <1>1, <1>2, <1>3, <1>4

\* A handler that looks up templates, the worn one among them or not, and keeps
\* the worn item.
LEMMA LookUpRemembers ==
  ASSUME VetoInv, NEW es, NEW read \in Reads, NEW unread,
         Get(es, read, unread) \/ UNCHANGED <<cache, sinceFault>>,
         worn' = worn, UNCHANGED <<attune, knownFor>>
  PROVE  Remembered'
  <1>1. knownFor' > 0 => worn' # None /\ IsMeaningful(attune'[Entry[worn']])
    BY DEF VetoInv, Remembered
  <1>2. ASSUME worn # None, Hit(Entry[worn])', ~IsMeaningful(cache'[Entry[worn]].pct)
        PROVE  knownFor <= cache'[Entry[worn]].age \/ sinceFault' <= cache'[Entry[worn]].age
    <2> DEFINE e == Entry[worn]
    <2>1. /\ e \in Entries /\ knownFor \in Nat /\ sinceFault \in Nat
          /\ cache[e].age \in Nat /\ attune[e] \in Nat
      BY <1>2, Ages DEF VetoInv
    <2>2. CASE cache'[e] = cache[e]
      <3>1. knownFor <= cache[e].age \/ sinceFault <= cache[e].age
        BY <1>2, <2>2 DEF Hit, VetoInv, Remembered
      <3>2. sinceFault' \in {0, sinceFault}
        BY DEF Get
      <3> QED
        BY <2>1, <2>2, <3>1, <3>2
    <2>3. CASE cache'[e] # cache[e]
      <3>1. Get(es, read, unread) /\ e \in es /\ ~Hit(e)
            /\ cache'[e] = [pct |-> RowAsRead(e, read), age |-> 0]
        BY <2>1, <2>3 DEF Get, Loaded
      <3>2. CASE read = "row"
        <4>1. ~IsMeaningful(attune[e])
          BY <1>2, <3>1, <3>2 DEF RowAsRead
        <4>2. knownFor = 0
          BY <2>1, <4>1 DEF VetoInv, Remembered
        <4> QED
          BY <3>1, <4>2
      <3>3. CASE read # "row"
        <4>1. sinceFault' = 0
          BY <3>1, <3>3 DEF Get
        <4> QED
          BY <3>1, <4>1
      <3> QED
        BY <3>2, <3>3
    <2> QED
      BY <2>2, <2>3
  <1> QED
    BY <1>1, <1>2 DEF Remembered

LEMMA NewcomerRemembered ==
  ASSUME knownFor' = 0, GearTypeOK'
  PROVE  Remembered'
  <1>1. worn' # None => cache'[Entry[worn']].age \in Nat
    BY GearAssumption DEF GearTypeOK, Typed, InOnePlace
  <1> QED
    BY <1>1 DEF Remembered

LEMMA VetoStep == VetoInv /\ [Next]_vars => VetoInv'
  <1> SUFFICES ASSUME VetoInv, [Next]_vars PROVE Remembered'
    BY GearStep DEF VetoInv
  <1>0. GearTypeOK'
    BY GearStep DEF VetoInv
  <1> USE DEF session, inventory, ledgers, clockVars
  <1>1. ASSUME NEW n \in Slots, NEW swaps \in BOOLEAN, NEW bridge \in BOOLEAN,
               NEW read \in Reads, NEW unread \in SUBSET rackRows,
               OnPlayerCanEquipItem(n, swaps, read, bridge, unread)
        PROVE  Remembered'
    <2>1. CASE worn' = worn
      <3>1. knownFor' = knownFor /\ attune' = attune
        BY <1>1, <2>1 DEF OnPlayerCanEquipItem
      <3>2. UNCHANGED <<cache, sinceFault>> \/ Get({Entry[worn]}, read, unread)
        BY <1>1 DEF OnPlayerCanEquipItem
      <3> QED
        BY <2>1, <3>1, <3>2, LookUpRemembers
    <2>2. CASE worn' # worn
      BY <1>0, <1>1, <2>2, NewcomerRemembered DEF OnPlayerCanEquipItem
    <2> QED
      BY <2>1, <2>2
  <1>2. ASSUME NEW read \in Reads, NEW bridge \in BOOLEAN,
               NEW unread \in SUBSET rackRows,
               MaybeReconcileLoginInventory(read, bridge, unread)
        PROVE  Remembered'
    <2>1. /\ worn' = worn /\ UNCHANGED <<attune, knownFor>>
          /\ UNCHANGED <<cache, sinceFault>> \/ Get({Entry[bag[n]] : n \in Scanned}, read, unread)
      BY <1>2 DEF MaybeReconcileLoginInventory
    <2> QED
      BY <2>1, LookUpRemembers
  <1>3. ASSUME OnPlayerLogout \/ Restart PROVE Remembered'
    <2>1. UNCHANGED <<worn, attune, knownFor>> /\ cache' = [e \in Entries |-> NotCached]
      BY <1>3 DEF OnPlayerLogout, Restart
    <2>2. worn # None => ~Hit(Entry[worn])'
      BY <2>1, Ages, NewCache DEF VetoInv
    <2> QED
      BY <2>1, <2>2 DEF VetoInv, Remembered
  <1>4. ASSUME NEW e \in Entries, Attune(e) PROVE Remembered'
    <2>1. UNCHANGED <<worn, cache, knownFor, sinceFault>> /\ attune' = [attune EXCEPT ![e] = @ + 1]
      BY <1>4 DEF Attune
    <2>2. \A d \in Entries : IsMeaningful(attune[d]) => IsMeaningful(attune'[d])
      <3>1. \A d \in Entries : attune[d] \in Nat /\ attune'[d] \in {attune[d], attune[d] + 1}
        BY <2>1, GearAssumption DEF VetoInv, GearTypeOK, Typed
      <3>2. Meaningful \in Nat
        BY Ages DEF VetoInv
      <3> QED
        BY <3>1, <3>2 DEF IsMeaningful
    <2>3. worn # None => Entry[worn] \in Entries
      BY Ages DEF VetoInv
    <2> QED
      BY <2>1, <2>2, <2>3 DEF VetoInv, Remembered, Hit
  <1>5. ASSUME Tick PROVE Remembered'
    <2>1. /\ worn' = worn /\ attune' = attune
          /\ sinceFault' = Older(sinceFault, TTL)
          /\ knownFor' = IF worn # None /\ IsMeaningful(attune[Entry[worn]])
                         THEN Older(knownFor, TTL) ELSE 0
          /\ \A e \in Entries : cache'[e] = [cache[e] EXCEPT !.age = Older(@, TTL)]
      BY <1>5 DEF Tick
    <2>2. knownFor' > 0 => worn' # None /\ IsMeaningful(attune'[Entry[worn']])
      BY <2>1
    <2>3. ASSUME worn # None, Hit(Entry[worn])', ~IsMeaningful(cache'[Entry[worn]].pct)
          PROVE  knownFor' <= cache'[Entry[worn]].age \/ sinceFault' <= cache'[Entry[worn]].age
      <3> DEFINE e == Entry[worn]
      <3>1. /\ e \in Entries /\ cache[e].age \in Nat /\ knownFor \in Nat /\ sinceFault \in Nat
            /\ TTL \in Nat
        BY <2>3, Ages DEF VetoInv
      <3>2. cache[e] \in [pct : 0..Full, age : 0..TTL]
        BY <3>1 DEF VetoInv, GearTypeOK, Typed
      <3>3. cache'[e].pct = cache[e].pct /\ cache'[e].age = Older(cache[e].age, TTL)
        BY <2>1, <3>1, <3>2
      <3>4. cache[e].age < TTL /\ cache'[e].age = cache[e].age + 1
        BY <2>1, <2>3, <3>1, <3>3 DEF Hit, Older
      <3>5. knownFor <= cache[e].age \/ sinceFault <= cache[e].age
        BY <2>3, <3>3, <3>4 DEF Hit, VetoInv, Remembered
      <3>6. /\ knownFor' \in {0} \cup {knownFor} \cup {knownFor + 1}
            /\ sinceFault' \in {sinceFault} \cup {sinceFault + 1}
        BY <2>1, <3>1 DEF Older
      <3> HIDE DEF e
      <3>7. knownFor' <= cache'[e].age \/ sinceFault' <= cache'[e].age
        BY <3>1, <3>4, <3>5, <3>6
      <3> QED
        BY <3>7 DEF e
    <2> QED
      BY <2>1, <2>2, <2>3 DEF Remembered
  <1>6. ASSUME \/ \E n \in Slots, sells \in BOOLEAN : OnPlayerCanSellItem(n, sells)
               \/ OnPlayerLogin \/ MaybeRecheck
               \/ \E i \in Items : Gain(i)
               \/ \E n \in Slots : Lose(n)
               \/ ApplyQueued \/ UNCHANGED vars
        PROVE  Remembered'
    <2>1. UNCHANGED <<worn, attune, cache, knownFor, sinceFault>>
      BY <1>6 DEF OnPlayerCanSellItem, OnPlayerLogin, MaybeRecheck, Gain, Lose, ApplyQueued, vars
    <2> QED
      BY <2>1 DEF VetoInv, Remembered, Hit
  <1> QED
    BY <1>1, <1>2, <1>3, <1>4, <1>5, <1>6 DEF Next, BotStep

LEMMA VetoAlways == Spec => []VetoInv
  <1>1. Init => Remembered
    BY GearAssumption DEF Init, Remembered, NotCached, Hit
  <1> QED
    BY <1>1, GearInit, VetoStep, PTL DEF Spec, VetoInv

\* Only the equip hook replaces a worn item by another.
LEMMA ReplacedByEquip ==
  ASSUME [Next]_vars, worn' \notin {worn, None}
  PROVE  \E n \in Slots, swaps, bridge \in BOOLEAN, read \in Reads, unread \in SUBSET rackRows :
            OnPlayerCanEquipItem(n, swaps, read, bridge, unread)
  <1> USE DEF session, inventory, ledgers, clockVars
  <1>1. ASSUME \/ \E n \in Slots, sells \in BOOLEAN : OnPlayerCanSellItem(n, sells)
               \/ \E bridge \in BOOLEAN, read \in Reads, unread \in SUBSET rackRows :
                     MaybeReconcileLoginInventory(read, bridge, unread)
               \/ OnPlayerLogin \/ OnPlayerLogout \/ Restart \/ MaybeRecheck
               \/ \E i \in Items : Gain(i)
               \/ \E n \in Slots : Lose(n)
               \/ \E e \in Entries : Attune(e)
               \/ ApplyQueued \/ Tick \/ UNCHANGED vars
        PROVE  worn' = worn
    BY <1>1 DEF OnPlayerCanSellItem, MaybeReconcileLoginInventory, OnPlayerLogin, OnPlayerLogout,
            Restart, MaybeRecheck, Gain, Lose, Attune, ApplyQueued, Tick, vars
  <1> QED
    BY <1>1 DEF Next, BotStep

\* The veto of Layer 1 is blind for at most one TTL of the cache, whatever the
\* hooks, the scan, the sessions and the failed reads do meanwhile.
THEOREM VetoBlindOnlyBrieflyAlways == Spec => VetoBlindOnlyBriefly
  <1> DEFINE Kept ==
               /\ Active /\ worn # None /\ worn' \notin {worn, None} /\ Score[Entry[worn]] > 0
               /\ knownFor >= TTL /\ sinceFault' >= TTL
               => ClearUpgrade(Entry[worn], Entry[worn'])
  <1>1. VetoInv /\ [Next]_vars => [Kept]_vars
    <2> SUFFICES ASSUME VetoInv, [Next]_vars,
                        Active, worn # None, worn' \notin {worn, None}, Score[Entry[worn]] > 0,
                        knownFor >= TTL, sinceFault' >= TTL
                 PROVE  ClearUpgrade(Entry[worn], Entry[worn'])
      OBVIOUS
    <2>1. PICK n \in Slots, swaps \in BOOLEAN, bridge \in BOOLEAN, read \in Reads,
              unread \in SUBSET rackRows :
             OnPlayerCanEquipItem(n, swaps, read, bridge, unread)
      BY ReplacedByEquip
    <2> DEFINE e == Entry[worn]
               info == Info(e, read)
    <2>2. /\ e \in Entries /\ cache[e].age \in Nat /\ TTL \in Nat \ {0}
          /\ knownFor \in Nat /\ sinceFault \in Nat
      BY Ages DEF VetoInv
    <2>3. Get({e}, read, unread)
      BY <2>1 DEF OnPlayerCanEquipItem
    <2>4. sinceFault >= TTL /\ (~Hit(e) => read = "row")
      BY <2>2, <2>3 DEF Get
    <2>5. IsMeaningful(info) /\ info \in 0..Full
      <3>1. /\ cache[e].pct \in 0..Full /\ attune[e] \in 0..Full
            /\ knownFor > 0
        BY <2>2 DEF VetoInv, GearTypeOK, Typed
      <3>2. CASE Hit(e)
        <4>1. ~(knownFor <= cache[e].age) /\ ~(sinceFault <= cache[e].age)
          BY <2>2, <2>4, <3>2 DEF Hit
        <4>2. IsMeaningful(cache[e].pct)
          BY <3>2, <4>1 DEF VetoInv, Remembered
        <4> QED
          BY <3>1, <3>2, <4>2 DEF Info
      <3>3. CASE ~Hit(e)
        <4>1. info = attune[e]
          BY <2>4, <3>3 DEF Info, RowAsRead
        <4> QED
          BY <3>1, <4>1 DEF VetoInv, Remembered
      <3> QED
        BY <3>2, <3>3
    <2>6. info # None
      BY <2>5, GearAssumption
    <2> DEFINE decision == EvaluateAwareness(e, Entry[bag[n]], info)
    <2>7. Swap(n, swaps /\ decision # "KEEP_ATTUNED_ITEM")
      BY <2>1 DEF OnPlayerCanEquipItem
    <2>8. decision # "KEEP_ATTUNED_ITEM" /\ worn' = bag[n]
      BY <2>7 DEF Swap
    <2>9. Score[e] # 0
      BY <2>2, GearAssumption
    <2> QED
      BY <2>5, <2>6, <2>8, <2>9 DEF EvaluateAwareness
  <1> QED
    BY <1>1, VetoAlways, PTL DEF Spec, VetoBlindOnlyBriefly
================================================================================
