---------------------------- MODULE Attunement ----------------------------
(***************************************************************************)
(* How items attune and where they do it: worn, or on the Echo Rack        *)
(* (ap_rack.lua, the kill, quest, equip and login handlers of ap_events.lua*)
(* and the tables ap_rack, ap_item_attune and ap_item_snapshot).           *)
(*                                                                         *)
(* The Rack is a table and a copy of it in memory.  Slots are filled and   *)
(* emptied through the asynchronous queue, but emptied synchronously when  *)
(* the item is put on, and the copy is read from the table at login.       *)
(*                                                                         *)
(* A kill credits what is worn, then what is racked, then looks for racked *)
(* items that are complete.  The login completes what an earlier session   *)
(* left undone.  Between two steps of a handler the server may crash and   *)
(* the worker of the queue may write; reads and writes may fail.           *)
(*                                                                         *)
(* Left out: how much a kill is worth, the price of a slot (see Ledger),   *)
(* pages and messages, and the commands of a game master.                  *)
(***************************************************************************)
EXTENDS Naturals, Sequences

CONSTANTS
    Char, Account, Item, NoChar, NoItem,
    AccountOf,   \* [Char -> Account]
    BaseSlots,   \* the slots of a new character, and of one whose row cannot be read
    MaxSlots,    \* MAX_SLOTS
    Tiers,       \* the sizes a Rack can be expanded to
    Cap,         \* the progress at which an item is attuned
    MaxGain,     \* bound: the most progress one kill gives
    MaxQueue,    \* bound: the writes that wait for the worker
    MaxFaults    \* [FaultKind -> Nat], bound: the faults of a run

FaultKind == {"crash", "read", "write"}

ASSUME AttunementAssumption ==
    /\ NoChar \notin Char /\ NoItem \notin Item
    /\ AccountOf \in [Char -> Account]
    /\ MaxSlots \in Nat /\ BaseSlots \in 1..MaxSlots /\ Tiers \subseteq 1..MaxSlots
    /\ Cap \in Nat \ {0} /\ MaxGain \in Nat \ {0}
    /\ MaxQueue \in Nat
    /\ MaxFaults \in [FaultKind -> Nat]

Slot == 1..MaxSlots

VARIABLES
    rack,     \* ap_rack: [Char -> [Slot -> Item or NoItem]]
    cache,    \* AP.Rack.Cache
    queue,    \* the writes to ap_rack that wait for the worker
    slots,    \* ap_mastery.rack_slots: [Char -> Nat]
    place,    \* where the character has the item: "none", "bag" or "worn"
    progress, \* ap_item_attune.progress: [Char -> [Item -> 0..Cap]]
    attuned,  \* the pairs <<c, i>> with ap_item_attune.attuned = 1
    snapshot, \* ap_item_snapshot: pairs <<account, i>>
    online,
    task,     \* the handler under way
    raced,    \* history: whose Rack was read, or emptied at once, before a write still queued
    faults

shelf == <<rack, cache, queue, slots, raced>>
growth == <<progress, attuned, snapshot>>
vars == <<shelf, growth, place, online, task, faults>>

-----------------------------------------------------------------------------
Empty == [s \in Slot |-> NoItem]
RackWrite == [char : Char, slot : Slot, item : Item \union {NoItem}]

Phase == {"idle", "worn", "racked", "checking", "rewarding", "migrating", "recapturing",
          "loading", "weakening"}

\* The items a phase has still to visit, and the one whose snapshot comes first.
TaskType == [at : Phase, char : Char \union {NoChar}, left : SUBSET Item,
             capture : Item \union {NoItem}]

Idle == [at |-> "idle", char |-> NoChar, left |-> {}, capture |-> NoItem]

TypeOK ==
    /\ rack \in [Char -> [Slot -> Item \union {NoItem}]]
    /\ cache \in [Char -> [Slot -> Item \union {NoItem}]]
    /\ queue \in Seq(RackWrite) /\ Len(queue) <= MaxQueue
    /\ slots \in [Char -> Slot]
    /\ place \in [Char -> [Item -> {"none", "bag", "worn"}]]
    /\ progress \in [Char -> [Item -> 0..Cap]]
    /\ attuned \subseteq Char \X Item
    /\ snapshot \subseteq Account \X Item
    /\ online \subseteq Char
    /\ task \in TaskType
    /\ task.at # "idle" => task.char \in online
    /\ raced \subseteq Char
    /\ faults \in [FaultKind -> Nat]

NoFault == UNCHANGED faults
Fault(kind) == /\ faults[kind] < MaxFaults[kind]
               /\ faults' = [faults EXCEPT ![kind] = @ + 1]
Clean(kind) == faults[kind] = 0

Racked(c) == {i \in Item : \E s \in Slot : cache[c][s] = i}
Waiting(c) == {n \in 1..Len(queue) : queue[n].char = c}

\* A handler of c starts; it visits the items of `left'; one is done.
Begin(c, at, left) == task' = [at |-> at, char |-> c, left |-> left, capture |-> NoItem]
Visits(at, i) == task.at = at /\ task.capture = NoItem /\ i \in task.left
Done(i, capture) == task' = [task EXCEPT !.left = @ \ {i}, !.capture = capture]

-----------------------------------------------------------------------------
Init ==
    /\ rack = [c \in Char |-> Empty]
    /\ cache = [c \in Char |-> Empty]
    /\ queue = <<>>
    /\ slots = [c \in Char |-> BaseSlots]
    /\ place = [c \in Char |-> [i \in Item |-> "none"]]
    /\ progress = [c \in Char |-> [i \in Item |-> 0]]
    /\ attuned = {}
    /\ snapshot = {}
    /\ online = {}
    /\ task = Idle
    /\ raced = {}
    /\ faults = [kind \in FaultKind |-> 0]

-----------------------------------------------------------------------------
\* The Rack.

Write(c, s, i) == /\ Len(queue) < MaxQueue
                  /\ queue' = Append(queue, [char |-> c, slot |-> s, item |-> i])
                  /\ cache' = [cache EXCEPT ![c][s] = i]

\* Mutant: the item that is already on the Rack is put there again.
AcceptsAgain(c, i) == place[c][i] # "none"

\* Possession means anywhere: GetItemCount also counts what is worn.
Accepts(c, i) == place[c][i] # "none" /\ i \notin Racked(c)

\* The first empty slot of the Rack; a failed read of its size means the smallest.
AddItem(c, i) ==
    /\ task.at = "idle" /\ c \in online
    /\ Accepts(c, i)
    /\ \E size \in {slots[c], BaseSlots} :
          /\ IF size = slots[c] THEN NoFault ELSE Fault("read")
          /\ \E s \in 1..size : /\ cache[c][s] = NoItem
                                /\ \A r \in 1..(s - 1) : cache[c][r] # NoItem
                                /\ Write(c, s, i)
    /\ UNCHANGED <<rack, slots, raced, growth, place, online, task>>

RemoveItem(c, s) ==
    /\ task.at = "idle" /\ c \in online
    /\ cache[c][s] # NoItem
    /\ Write(c, s, NoItem)
    /\ UNCHANGED <<rack, slots, raced, growth, place, online, task, faults>>

\* A paid dissolution empties the slot of the item it destroyed.
Dissolve(c, i) ==
    /\ task.at = "idle" /\ c \in online
    /\ place[c][i] = "bag" /\ <<c, i>> \in attuned
    /\ place' = [place EXCEPT ![c][i] = "none"]
    /\ IF i \in Racked(c)
       THEN \E s \in Slot : cache[c][s] = i /\ Write(c, s, NoItem)
       ELSE UNCHANGED <<queue, cache>>
    /\ UNCHANGED <<rack, slots, raced, growth, online, task, faults>>

Expand(c) ==
    /\ task.at = "idle" /\ c \in online
    /\ \E size \in Tiers : /\ size > slots[c]
                           /\ \A n \in Tiers : n > slots[c] => size <= n
                           /\ slots' = [slots EXCEPT ![c] = size]
    /\ UNCHANGED <<rack, cache, queue, raced, growth, place, online, task, faults>>

\* The worker applies a write whatever handler runs, in the order they were queued.
ApplyQueued ==
    /\ queue # <<>>
    /\ queue' = Tail(queue)
    /\ LET w == Head(queue) IN
       \/ rack' = [rack EXCEPT ![w.char][w.slot] = w.item] /\ NoFault
       \/ rack' = rack /\ Fault("write")
    /\ UNCHANGED <<cache, slots, raced, growth, place, online, task>>

-----------------------------------------------------------------------------
\* The bags.

\* An item that is put on leaves the Rack at once, ahead of what is queued.
Equip(c, i) ==
    /\ task.at = "idle" /\ c \in online
    /\ place[c][i] = "bag"
    /\ place' = [place EXCEPT ![c][i] = "worn"]
    /\ IF i \in Racked(c)
       THEN \E s \in Slot :
              /\ cache[c][s] = i
              /\ cache' = [cache EXCEPT ![c][s] = NoItem]
              /\ \/ rack' = [rack EXCEPT ![c][s] = NoItem] /\ NoFault
                 \/ rack' = rack /\ Fault("write")
              /\ raced' = IF \E n \in Waiting(c) : queue[n].slot = s
                          THEN raced \union {c} ELSE raced
       ELSE UNCHANGED <<rack, cache, raced, faults>>
    /\ UNCHANGED <<queue, slots, growth, online, task>>

\* Items come and go without any word to the Rack: loot, trade, sale, a deferred reward.
Move(c, i) ==
    /\ task.at = "idle" /\ c \in online
    /\ \E where \in {"none", "bag"} \ {place[c][i]} : place' = [place EXCEPT ![c][i] = where]
    /\ UNCHANGED <<shelf, growth, online, task, faults>>

-----------------------------------------------------------------------------
\* Progress.

\* Mutant: the progress is not held at the cap.
GrownUnbounded(now, gain) == now + gain

Grown(now, gain) == IF now + gain > Cap THEN Cap ELSE now + gain

\* A kill that gives experience.  When the first look finds every worn item attuned, the
\* worn items are not visited; a failed read makes one look like an item without a row.
Kill(c) ==
    /\ task.at = "idle" /\ c \in online
    /\ LET worn == {i \in Item : place[c][i] = "worn"}
           grown == \A i \in worn : <<c, i>> \in attuned
       IN  \/ ~grown /\ Begin(c, "worn", worn) /\ NoFault
           \/ grown /\ Begin(c, "racked", Racked(c)) /\ NoFault
           \/ grown /\ worn # {} /\ Begin(c, "worn", worn) /\ Fault("read")
    /\ UNCHANGED <<shelf, growth, place, online>>

\* Each worn item that is not attuned, by a second look.  SaveItemAttune writes both columns.
CreditWorn(i) ==
    /\ Visits("worn", i)
    /\ LET c == task.char IN
       \/ <<c, i>> \in attuned /\ Done(i, NoItem) /\ UNCHANGED <<progress, attuned>> /\ NoFault
       \/ \E gain \in 1..MaxGain, read, written \in BOOLEAN :
             LET new == Grown(IF read THEN progress[c][i] ELSE 0, gain) IN
             /\ read => <<c, i>> \notin attuned
             /\ CASE read /\ written -> NoFault
                  [] ~read /\ written -> Fault("read")
                  [] read /\ ~written -> Fault("write")
                  [] OTHER -> FALSE
             /\ IF written
                THEN /\ progress' = [progress EXCEPT ![c][i] = new]
                     /\ attuned' = IF new = Cap THEN attuned \union {<<c, i>>}
                                   ELSE attuned \ {<<c, i>>}
                ELSE UNCHANGED <<progress, attuned>>
             /\ Done(i, IF new = Cap THEN i ELSE NoItem)
    /\ UNCHANGED <<shelf, snapshot, place, online>>

\* Each racked item that is not attuned.  The upsert leaves the flag of its row alone.
CreditRacked(i) ==
    /\ Visits("racked", i)
    /\ LET c == task.char IN
       \/ <<c, i>> \in attuned /\ UNCHANGED progress /\ NoFault
       \/ \E gain \in 1..MaxGain :
             \/ /\ <<c, i>> \notin attuned
                /\ progress' = [progress EXCEPT ![c][i] = Grown(@, gain)]
                /\ NoFault
             \/ progress' = [progress EXCEPT ![c][i] = Grown(0, gain)] /\ Fault("read")
       \/ <<c, i>> \notin attuned /\ UNCHANGED progress /\ Fault("write")
    /\ Done(i, NoItem)
    /\ UNCHANGED <<shelf, attuned, snapshot, place, online>>

\* The racked items that have become complete, each followed by its snapshot, whether or
\* not the flag was written.
CheckAttuned(i) ==
    /\ Visits("checking", i)
    /\ LET c == task.char  complete == progress[c][i] = Cap /\ <<c, i>> \notin attuned IN
       \/ ~complete /\ Done(i, NoItem) /\ UNCHANGED attuned /\ NoFault
       \/ complete /\ Done(i, i) /\ attuned' = attuned \union {<<c, i>>} /\ NoFault
       \/ complete /\ Done(i, i) /\ UNCHANGED attuned /\ Fault("write")
       \/ Done(i, NoItem) /\ UNCHANGED attuned /\ Fault("read")
    /\ UNCHANGED <<shelf, progress, snapshot, place, online>>

\* CaptureSnapshot and SaveSnapshotAccountWide: once per account, from the template.  A
\* template that cannot be read leaves out the snapshot of a kill, and makes a snapshot of
\* zeros for a quest or a login.
Capture ==
    /\ task.capture # NoItem
    /\ LET kept == snapshot \union {<<AccountOf[task.char], task.capture>>} IN
       \/ snapshot' = kept /\ NoFault
       \/ UNCHANGED snapshot /\ Fault("write")
       \/ /\ snapshot' = IF task.at \in {"worn", "checking"} THEN snapshot ELSE kept
          /\ Fault("read")
    /\ task' = [task EXCEPT !.capture = NoItem]
    /\ UNCHANGED <<shelf, progress, attuned, place, online>>

\* A quest attunes its rewards: the snapshot first, then the row.
Quest(c, i) ==
    /\ task.at = "idle" /\ c \in online
    /\ task' = [at |-> "rewarding", char |-> c, left |-> {i}, capture |-> i]
    /\ UNCHANGED <<shelf, growth, place, online, faults>>

AttuneReward(i) ==
    /\ Visits("rewarding", i)
    /\ \/ /\ progress' = [progress EXCEPT ![task.char][i] = Cap]
          /\ attuned' = attuned \union {<<task.char, i>>}
          /\ NoFault
       \/ UNCHANGED <<progress, attuned>> /\ Fault("write")
    /\ Done(i, NoItem)
    /\ UNCHANGED <<shelf, snapshot, place, online>>

\* A death under World Threat weakens what is worn and not attuned: the row loses at most
\* a fifth of its progress, rounded down, so some of it is left.
Death(c) ==
    /\ task.at = "idle" /\ c \in online
    /\ Begin(c, "weakening", {i \in Item : place[c][i] = "worn"})
    /\ UNCHANGED <<shelf, growth, place, online, faults>>

\* Mutant: an attuned item is weakened too.
WeakenAny(i) ==
    /\ Visits("weakening", i)
    /\ \E rest \in 1..progress[task.char][i] :
          progress' = [progress EXCEPT ![task.char][i] = rest]
    /\ Done(i, NoItem)
    /\ UNCHANGED <<shelf, attuned, snapshot, place, online, faults>>

Weaken(i) ==
    /\ Visits("weakening", i)
    /\ LET c == task.char IN
       \/ UNCHANGED progress /\ NoFault
       \/ /\ <<c, i>> \notin attuned
          /\ \E rest \in 1..(progress[c][i] - 1) :
                progress' = [progress EXCEPT ![c][i] = rest]
          /\ NoFault
       \/ UNCHANGED progress /\ (Fault("read") \/ Fault("write"))
    /\ Done(i, NoItem)
    /\ UNCHANGED <<shelf, attuned, snapshot, place, online>>

-----------------------------------------------------------------------------
\* The login completes the flags, then the snapshots, then reads the Rack.

Unfinished(c) == {i \in Item : progress[c][i] = Cap /\ <<c, i>> \notin attuned}

\* Mutant: the snapshots are not completed.
NoUncaptured(c) == {}

Uncaptured(c) == {i \in Item : <<c, i>> \in attuned /\ <<AccountOf[c], i>> \notin snapshot}

\* A failed query finds nothing to do.
BeginOrLost(c, at, left) == \/ Begin(c, at, left) /\ NoFault
                            \/ Begin(c, at, {}) /\ left # {} /\ Fault("read")

Login(c) ==
    /\ task.at = "idle" /\ c \notin online
    /\ online' = online \union {c}
    /\ BeginOrLost(c, "migrating", Unfinished(c))
    /\ UNCHANGED <<shelf, growth, place>>

Migrate(i) ==
    /\ Visits("migrating", i)
    /\ \/ attuned' = attuned \union {<<task.char, i>>} /\ NoFault
       \/ UNCHANGED attuned /\ Fault("write")
    /\ Done(i, NoItem)
    /\ UNCHANGED <<shelf, progress, snapshot, place, online>>

Recapture(i) ==
    /\ Visits("recapturing", i)
    /\ Done(i, i)
    /\ UNCHANGED <<shelf, growth, place, online, faults>>

Load ==
    /\ task.at = "loading"
    /\ LET c == task.char IN
       /\ \/ cache' = [cache EXCEPT ![c] = rack[c]] /\ NoFault
          \/ cache' = [cache EXCEPT ![c] = Empty] /\ rack[c] # Empty /\ Fault("read")
       /\ raced' = IF Waiting(c) = {} THEN raced ELSE raced \union {c}
    /\ task' = Idle
    /\ UNCHANGED <<rack, queue, slots, growth, place, online>>

\* A phase with nothing left gives way to the next, or ends the handler.
NextPhase ==
    /\ task.left = {} /\ task.capture = NoItem
    /\ LET c == task.char IN
       \/ task.at = "worn" /\ Begin(c, "racked", Racked(c)) /\ NoFault
       \/ task.at = "racked" /\ Begin(c, "checking", Racked(c)) /\ NoFault
       \/ task.at \in {"checking", "rewarding", "weakening"} /\ task' = Idle /\ NoFault
       \/ task.at = "migrating" /\ BeginOrLost(c, "recapturing", Uncaptured(c))
       \/ task.at = "recapturing" /\ Begin(c, "loading", {}) /\ NoFault
    /\ UNCHANGED <<shelf, growth, place, online>>

Logout(c) ==
    /\ task.at = "idle" /\ c \in online
    /\ online' = online \ {c}
    /\ UNCHANGED <<shelf, growth, place, task, faults>>

\* A crash loses the memory and the queue, and brings back the bags of an earlier save.
Crash ==
    /\ online # {} \/ queue # <<>>
    /\ Fault("crash")
    /\ cache' = [c \in Char |-> Empty]
    /\ queue' = <<>>
    /\ online' = {}
    /\ task' = Idle
    /\ place' \in [Char -> [Item -> {"none", "bag", "worn"}]]
    /\ UNCHANGED <<rack, slots, raced, growth>>

-----------------------------------------------------------------------------
HandlerStep ==
    \/ \E i \in Item : \/ CreditWorn(i) \/ CreditRacked(i) \/ CheckAttuned(i)
                       \/ AttuneReward(i) \/ Weaken(i) \/ Migrate(i) \/ Recapture(i)
    \/ Capture \/ NextPhase \/ Load

PlayerStep ==
    \E c \in Char :
        \/ \E i \in Item : AddItem(c, i) \/ Dissolve(c, i) \/ Equip(c, i) \/ Move(c, i)
                           \/ Quest(c, i)
        \/ \E s \in Slot : RemoveItem(c, s)
        \/ Expand(c) \/ Kill(c) \/ Death(c) \/ Login(c) \/ Logout(c)

Next == HandlerStep \/ PlayerStep \/ ApplyQueued \/ Crash

Spec == Init /\ [][Next]_vars

-----------------------------------------------------------------------------
\* Properties.

\* While reads and writes work, and no Load or Equip has overtaken a queued write, an item
\* has one slot of the Rack, in memory and in the table, across relogs and crashes.
OneSlotEach ==
    Clean("read") /\ Clean("write") =>
        \A c \in Char \ raced, r, s \in Slot :
            /\ cache[c][r] = cache[c][s] /\ r # s => cache[c][r] = NoItem
            /\ rack[c][r] = rack[c][s] /\ r # s => rack[c][r] = NoItem

\* While reads and writes work, no crash leaves a character in the world with an item that
\* is complete and not attuned, or attuned and without the snapshot the Forge lists it by.
NothingHalfAttuned ==
    Clean("read") /\ Clean("write") /\ task.at = "idle" =>
        \A c \in online, i \in Item :
            /\ progress[c][i] = Cap => <<c, i>> \in attuned
            /\ <<c, i>> \in attuned => <<AccountOf[c], i>> \in snapshot

\* As long as reads work, an item that is attuned stays so with its progress (ap_forge.lua:
\* 721: "attuned=1 is permanent"), and only a death takes progress, from what is worn.
ProgressKept ==
    [][Clean("read")' =>
         /\ attuned \subseteq attuned'
         /\ \A c \in Char, i \in Item :
               \/ progress'[c][i] >= progress[c][i]
               \/ /\ task.at = "weakening" /\ task.char = c
                  /\ place[c][i] = "worn" /\ <<c, i>> \notin attuned]_vars

-----------------------------------------------------------------------------
\* What comments say and the code does not keep.

\* ap_forge.lua:721: "attuned=1 is permanent".
AttunedForGood == [][attuned \subseteq attuned']_vars
=============================================================================
