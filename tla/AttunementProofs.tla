--------------------------- MODULE AttunementProofs ---------------------------
(* Theorems about Attunement, for any characters, items and accounts, any size *)
(* of the Rack and of the queue, and any number of faults.                     *)
EXTENDS Attunement, SequenceTheorems, TLAPS

-----------------------------------------------------------------------------
(* Types.                                                                    *)

ShelfOK ==
    /\ rack \in [Char -> [Slot -> Item \union {NoItem}]]
    /\ cache \in [Char -> [Slot -> Item \union {NoItem}]]
    /\ queue \in Seq(RackWrite) /\ Len(queue) <= MaxQueue
    /\ slots \in [Char -> Slot] /\ raced \subseteq Char
GrowthOK ==
    /\ progress \in [Char -> [Item -> 0..Cap]]
    /\ attuned \subseteq Char \X Item
    /\ snapshot \subseteq Account \X Item
TaskOK ==
    /\ place \in [Char -> [Item -> {"none", "bag", "worn"}]]
    /\ online \subseteq Char
    /\ task \in TaskType
    /\ task.at # "idle" => task.char \in online
FaultsOK == faults \in [FaultKind -> Nat]

\* A snapshot is pending only in the phases that attune, and a death weakens what
\* is worn until it is done.
HandlerOK ==
    /\ task.at = "idle" => task = Idle
    /\ task.capture # NoItem =>
          task.at \in {"worn", "checking", "rewarding", "recapturing"}
    /\ task.at = "weakening" => \A i \in task.left : place[task.char][i] = "worn"

LEMMA TypeParts == TypeOK <=> ShelfOK /\ GrowthOK /\ TaskOK /\ FaultsOK
  BY DEF TypeOK, ShelfOK, GrowthOK, TaskOK, FaultsOK

LEMMA FaultsStep ==
  ASSUME FaultsOK, NoFault \/ \E kind \in FaultKind : Fault(kind)
  PROVE  FaultsOK'
  BY DEF FaultsOK, NoFault, Fault

\* Every step has its faults counted.
LEMMA NextCounts == Next => NoFault \/ \E kind \in FaultKind : Fault(kind)
  <1> SUFFICES ASSUME Next PROVE NoFault \/ \E kind \in FaultKind : Fault(kind)
    OBVIOUS
  <1> USE DEF NoFault, FaultKind
  <1>1. ASSUME NEW i \in Item, CreditWorn(i) PROVE NoFault \/ \E kind \in FaultKind : Fault(kind)
    BY <1>1 DEF CreditWorn
  <1>2. ASSUME NEW i \in Item, CreditRacked(i) \/ CheckAttuned(i) \/ Weaken(i)
        PROVE  NoFault \/ \E kind \in FaultKind : Fault(kind)
    BY <1>2 DEF CreditRacked, CheckAttuned, Weaken
  <1>3. ASSUME NEW i \in Item, AttuneReward(i) \/ Migrate(i) \/ Recapture(i)
        PROVE  NoFault \/ \E kind \in FaultKind : Fault(kind)
    BY <1>3 DEF AttuneReward, Migrate, Recapture
  <1>4. CASE Capture \/ Load
    <2>1. NoFault \/ Fault("write") \/ Fault("read")
      BY <1>4, ZenonT(60) DEF Capture, Load
    <2> QED
      BY <2>1
  <1>5. CASE NextPhase
    <2>1. NoFault \/ Fault("read")
      BY <1>5, ZenonT(60) DEF NextPhase, BeginOrLost
    <2> QED
      BY <2>1
  <1>6. CASE PlayerStep
    BY <1>6
       DEF PlayerStep, AddItem, Dissolve, Equip, Move, Quest, RemoveItem, Expand, Kill,
           Death, Login, BeginOrLost, Logout
  <1>7. CASE ApplyQueued \/ Crash
    BY <1>7 DEF ApplyQueued, Crash
  <1> QED
    BY <1>1, <1>2, <1>3, <1>4, <1>5, <1>6, <1>7 DEF Next, HandlerStep

LEMMA BeginOK ==
  ASSUME NEW c \in Char, NEW at \in Phase, NEW left \in SUBSET Item, Begin(c, at, left)
  PROVE  task' \in TaskType /\ task' = [at |-> at, char |-> c, left |-> left, capture |-> NoItem]
  BY DEF Begin, TaskType

LEMMA DoneOK ==
  ASSUME task \in TaskType, NEW i \in Item, NEW capture \in Item \union {NoItem},
         Done(i, capture)
  PROVE  /\ task' \in TaskType /\ task'.at = task.at /\ task'.char = task.char
         /\ task'.left = task.left \ {i} /\ task'.capture = capture
  BY DEF Done, TaskType

LEMMA RackedItems == \A c \in Char : Racked(c) \subseteq Item
  BY DEF Racked

\* A write of the Rack, in memory and in the queue.
LEMMA WriteOK ==
  ASSUME ShelfOK, NEW c \in Char, NEW s \in Slot, NEW i \in Item \union {NoItem},
         Write(c, s, i), UNCHANGED <<rack, slots, raced>>
  PROVE  ShelfOK'
  <1>1. [char |-> c, slot |-> s, item |-> i] \in RackWrite
    BY DEF RackWrite
  <1>2. queue' \in Seq(RackWrite) /\ Len(queue') = Len(queue) + 1
    BY <1>1, AppendProperties DEF Write, ShelfOK
  <1>3. Len(queue) \in Nat /\ MaxQueue \in Nat
    BY LenProperties, AttunementAssumption DEF ShelfOK
  <1>4. Len(queue') <= MaxQueue
    BY <1>2, <1>3 DEF Write
  <1>5. cache' \in [Char -> [Slot -> Item \union {NoItem}]]
    BY DEF Write, ShelfOK
  <1> QED
    BY <1>2, <1>4, <1>5 DEF ShelfOK

LEMMA GrownOK ==
  ASSUME NEW now \in 0..Cap, NEW gain \in 1..MaxGain
  PROVE  Grown(now, gain) \in 0..Cap /\ Grown(now, gain) >= now
  BY AttunementAssumption DEF Grown

-----------------------------------------------------------------------------
LEMMA ShelfStep == TypeOK /\ Next => ShelfOK'
  <1> SUFFICES ASSUME TypeOK, Next PROVE ShelfOK'
    OBVIOUS
  <1>1. ShelfOK /\ task \in TaskType /\ BaseSlots \in Slot /\ Slot \subseteq Nat
        /\ MaxSlots \in Nat /\ \A n \in Slot : 1..n \subseteq Slot
    BY AttunementAssumption DEF TypeOK, ShelfOK, Slot
  <1>2. UNCHANGED shelf => ShelfOK'
    BY <1>1 DEF shelf, ShelfOK
  <1>3. CASE HandlerStep /\ ~Load
    BY <1>2, <1>3
       DEF HandlerStep, CreditWorn, CreditRacked, CheckAttuned, AttuneReward, Weaken,
           Migrate, Recapture, Capture, NextPhase
  <1>4. CASE Load
    <2>1. task.char \in Char
      BY <1>4 DEF TypeOK, Load
    <2>2. Empty \in [Slot -> Item \union {NoItem}]
      BY DEF Empty
    <2> QED
      BY <1>1, <1>4, <2>1, <2>2 DEF Load, ShelfOK
  <1>5. ASSUME NEW c \in Char, NEW i \in Item, AddItem(c, i) PROVE ShelfOK'
    <2>1. PICK size \in {slots[c], BaseSlots} : \E s \in 1..size : Write(c, s, i)
      BY <1>5 DEF AddItem
    <2>2. PICK s \in 1..size : Write(c, s, i)
      BY <2>1
    <2>3. s \in Slot
      BY <1>1, <2>1, <2>2 DEF ShelfOK
    <2> QED
      BY <1>1, <1>5, <2>2, <2>3, WriteOK DEF AddItem
  <1>6. ASSUME NEW c \in Char, NEW s \in Slot, RemoveItem(c, s) PROVE ShelfOK'
    BY <1>1, <1>6, WriteOK DEF RemoveItem
  <1>7. ASSUME NEW c \in Char, NEW i \in Item, Dissolve(c, i) PROVE ShelfOK'
    BY <1>1, <1>7, WriteOK DEF Dissolve, ShelfOK
  <1>8. ASSUME NEW c \in Char, NEW i \in Item, Equip(c, i) PROVE ShelfOK'
    <2>1. CASE i \notin Racked(c)
      BY <1>2, <1>8, <2>1 DEF Equip, shelf
    <2>2. CASE i \in Racked(c)
      <3>1. PICK s \in Slot :
              /\ cache' = [cache EXCEPT ![c][s] = NoItem]
              /\ \/ rack' = [rack EXCEPT ![c][s] = NoItem]
                 \/ rack' = rack
              /\ raced' \in {raced, raced \union {c}}
        BY <1>8, <2>2 DEF Equip
      <3>2. UNCHANGED <<queue, slots>>
        BY <1>8 DEF Equip
      <3>3. cache' \in [Char -> [Slot -> Item \union {NoItem}]]
        BY <1>1, <3>1 DEF ShelfOK
      <3>4. rack' \in [Char -> [Slot -> Item \union {NoItem}]]
        <4>1. CASE rack' = rack
          BY <1>1, <4>1 DEF ShelfOK
        <4>2. CASE rack' = [rack EXCEPT ![c][s] = NoItem]
          BY <1>1, <3>1, <4>2 DEF ShelfOK
        <4> QED
          BY <3>1, <4>1, <4>2
      <3> QED
        BY <1>1, <3>1, <3>2, <3>3, <3>4 DEF ShelfOK
    <2> QED
      BY <2>1, <2>2
  <1>9. ASSUME NEW c \in Char, Expand(c) PROVE ShelfOK'
    <2>1. Tiers \subseteq Slot
      BY AttunementAssumption DEF Slot
    <2> QED
      BY <1>1, <1>9, <2>1 DEF Expand, ShelfOK
  <1>10. ASSUME NEW c \in Char, \/ Kill(c) \/ Death(c) \/ Login(c) \/ Logout(c)
                                \/ \E i \in Item : Move(c, i) \/ Quest(c, i)
         PROVE  ShelfOK'
    BY <1>2, <1>10 DEF Kill, Death, Login, Logout, Move, Quest
  <1>11. CASE ApplyQueued
    <2>1. Head(queue) \in RackWrite /\ queue' \in Seq(RackWrite)
          /\ Len(queue') = Len(queue) - 1 /\ Len(queue) \in Nat
      BY <1>1, <1>11, HeadTailProperties, LenProperties DEF ApplyQueued, ShelfOK
    <2>2. Head(queue).char \in Char /\ Head(queue).slot \in Slot
          /\ Head(queue).item \in Item \union {NoItem}
      BY <2>1 DEF RackWrite
    <2>3. rack' \in [Char -> [Slot -> Item \union {NoItem}]]
      <3>1. CASE rack' = rack
        BY <1>1, <3>1 DEF ShelfOK
      <3>2. CASE rack' = [rack EXCEPT ![Head(queue).char][Head(queue).slot] = Head(queue).item]
        <4> DEFINE c == Head(queue).char
                   s == Head(queue).slot
                   i == Head(queue).item
        <4>1. c \in Char /\ s \in Slot /\ i \in Item \union {NoItem}
              /\ rack' = [rack EXCEPT ![c][s] = i]
          BY <2>2, <3>2
        <4> HIDE DEF c, s, i
        <4> QED
          BY <1>1, <4>1 DEF ShelfOK
      <3> QED
        BY <1>11, <3>1, <3>2 DEF ApplyQueued
    <2>4. Len(queue') <= MaxQueue
      BY <1>1, <2>1, AttunementAssumption DEF ShelfOK
    <2> QED
      BY <1>1, <1>11, <2>1, <2>3, <2>4 DEF ApplyQueued, ShelfOK
  <1>12. CASE Crash
    <2>1. queue' \in Seq(RackWrite) /\ Len(queue') = 0
      BY <1>12, EmptySeq DEF Crash
    <2> QED
      BY <1>1, <1>12, <2>1, AttunementAssumption DEF Crash, Empty, ShelfOK
  <1> QED
    BY <1>3, <1>4, <1>5, <1>6, <1>7, <1>8, <1>9, <1>10, <1>11, <1>12 DEF Next, PlayerStep

LEMMA GrowthStep == TypeOK /\ HandlerOK /\ Next => GrowthOK'
  <1> SUFFICES ASSUME TypeOK, HandlerOK, Next PROVE GrowthOK'
    OBVIOUS
  <1>1. GrowthOK /\ task \in TaskType /\ Cap \in Nat \ {0} /\ MaxGain \in Nat \ {0}
    BY AttunementAssumption DEF TypeOK, GrowthOK
  <1>2. UNCHANGED growth => GrowthOK'
    BY <1>1 DEF growth, GrowthOK
  <1>3. task.at # "idle" => task.char \in Char /\ AccountOf[task.char] \in Account
    BY AttunementAssumption DEF TypeOK
  <1>4. CASE PlayerStep
    BY <1>2, <1>4
       DEF PlayerStep, AddItem, Dissolve, Equip, Move, Quest, RemoveItem, Expand, Kill,
           Death, Login, Logout
  <1>5. CASE ApplyQueued \/ Crash \/ NextPhase \/ Load \/ \E i \in Item : Recapture(i)
    BY <1>2, <1>5 DEF ApplyQueued, Crash, NextPhase, Load, Recapture
  <1>6. ASSUME NEW i \in Item, CreditWorn(i) PROVE GrowthOK'
    <2>1. task.char \in Char /\ UNCHANGED snapshot
      BY <1>3, <1>6 DEF CreditWorn, Visits
    <2>2. CASE UNCHANGED <<progress, attuned>>
      BY <1>1, <2>1, <2>2 DEF GrowthOK
    <2>3. CASE \E gain \in 1..MaxGain, read \in BOOLEAN :
                  LET new == Grown(IF read THEN progress[task.char][i] ELSE 0, gain) IN
                  /\ progress' = [progress EXCEPT ![task.char][i] = new]
                  /\ attuned' = IF new = Cap THEN attuned \union {<<task.char, i>>}
                                ELSE attuned \ {<<task.char, i>>}
      <3>1. PICK gain \in 1..MaxGain, read \in BOOLEAN :
                  LET new == Grown(IF read THEN progress[task.char][i] ELSE 0, gain) IN
                  /\ progress' = [progress EXCEPT ![task.char][i] = new]
                  /\ attuned' = IF new = Cap THEN attuned \union {<<task.char, i>>}
                                ELSE attuned \ {<<task.char, i>>}
        BY <2>3
      <3> DEFINE new == Grown(IF read THEN progress[task.char][i] ELSE 0, gain)
      <3>2. new \in 0..Cap
        <4>1. progress[task.char][i] \in 0..Cap /\ 0 \in 0..Cap
          BY <1>1, <2>1 DEF GrowthOK
        <4> QED
          BY <4>1, GrownOK
      <3> HIDE DEF new
      <3>3. /\ progress' = [progress EXCEPT ![task.char][i] = new]
            /\ attuned' \subseteq attuned \union {<<task.char, i>>}
        BY <3>1 DEF new
      <3> QED
        BY <1>1, <2>1, <3>2, <3>3 DEF GrowthOK
    <2> QED
      BY <1>6, <2>2, <2>3 DEF CreditWorn
  <1>7. ASSUME NEW i \in Item, CreditRacked(i) PROVE GrowthOK'
    <2>1. task.char \in Char /\ UNCHANGED <<attuned, snapshot>>
      BY <1>3, <1>7 DEF CreditRacked, Visits
    <2>2. progress[task.char][i] \in 0..Cap /\ 0 \in 0..Cap
      BY <1>1, <2>1 DEF GrowthOK
    <2>3. CASE UNCHANGED progress
      BY <1>1, <2>1, <2>3 DEF GrowthOK
    <2>4. ASSUME NEW now \in 0..Cap, NEW gain \in 1..MaxGain,
                 progress' = [progress EXCEPT ![task.char][i] = Grown(now, gain)]
          PROVE  GrowthOK'
      <3>1. Grown(now, gain) \in 0..Cap
        BY GrownOK
      <3> QED
        BY <1>1, <2>1, <2>4, <3>1 DEF GrowthOK
    <2>5. CASE \E gain \in 1..MaxGain :
                  \/ progress' = [progress EXCEPT ![task.char][i] =
                                    Grown(progress[task.char][i], gain)]
                  \/ progress' = [progress EXCEPT ![task.char][i] = Grown(0, gain)]
      BY <2>2, <2>4, <2>5
    <2> QED
      BY <1>7, <2>3, <2>5 DEF CreditRacked
  <1>8. ASSUME NEW i \in Item, CheckAttuned(i) \/ Migrate(i) PROVE GrowthOK'
    BY <1>1, <1>3, <1>8 DEF CheckAttuned, Migrate, Visits, GrowthOK
  <1>9. ASSUME NEW i \in Item, AttuneReward(i) PROVE GrowthOK'
    BY <1>1, <1>3, <1>9 DEF AttuneReward, Visits, GrowthOK
  <1>10. ASSUME NEW i \in Item, Weaken(i) PROVE GrowthOK'
    <2>1. task.char \in Char /\ UNCHANGED <<attuned, snapshot>>
      BY <1>3, <1>10 DEF Weaken, Visits
    <2>2. progress[task.char][i] \in 0..Cap
      BY <1>1, <2>1 DEF GrowthOK
    <2>3. CASE UNCHANGED progress
      BY <1>1, <2>1, <2>3 DEF GrowthOK
    <2>4. CASE \E rest \in 1..(progress[task.char][i] - 1) :
                  progress' = [progress EXCEPT ![task.char][i] = rest]
      <3>1. PICK rest \in 1..(progress[task.char][i] - 1) :
                  progress' = [progress EXCEPT ![task.char][i] = rest]
        BY <2>4
      <3>2. rest \in 0..Cap
        BY <1>1, <2>2, <3>1
      <3> QED
        BY <1>1, <2>1, <3>1, <3>2 DEF GrowthOK
    <2> QED
      BY <1>10, <2>3, <2>4 DEF Weaken
  <1>11. CASE Capture
    <2>1. task.capture \in Item
      BY <1>1, <1>11 DEF Capture, TaskType
    <2>2. <<AccountOf[task.char], task.capture>> \in Account \X Item
      BY <1>3, <1>11, <2>1 DEF Capture, HandlerOK
    <2> QED
      BY <1>1, <1>11, <2>2 DEF Capture, GrowthOK
  <1> QED
    BY <1>4, <1>5, <1>6, <1>7, <1>8, <1>9, <1>10, <1>11 DEF Next, HandlerStep

LEMMA BeginStep ==
  ASSUME TaskOK, NEW c \in Char, NEW at \in Phase \ {"idle"}, NEW left \in SUBSET Item,
         at = "weakening" => \A i \in left : place[c][i] = "worn",
         Begin(c, at, left), c \in online', online' \subseteq Char, UNCHANGED place
  PROVE  TaskOK' /\ HandlerOK'
  <1>1. /\ task' \in TaskType /\ task'.at = at /\ task'.char = c
        /\ task'.left = left /\ task'.capture = NoItem
    BY BeginOK
  <1> QED
    BY <1>1 DEF TaskOK, HandlerOK

LEMMA DoneStep ==
  ASSUME TaskOK, HandlerOK, NEW i \in Item, NEW capture \in Item \union {NoItem},
         capture # NoItem => task.at \in {"worn", "checking", "rewarding", "recapturing"},
         task.at # "idle", Done(i, capture), UNCHANGED <<place, online>>
  PROVE  TaskOK' /\ HandlerOK'
  <1>1. /\ task' \in TaskType /\ task'.at = task.at /\ task'.char = task.char
        /\ task'.left \subseteq task.left /\ task'.capture = capture
    BY DoneOK DEF TaskOK
  <1> QED
    BY <1>1 DEF TaskOK, HandlerOK

LEMMA IdleStep ==
  ASSUME task' = Idle, online' \subseteq Char,
         place' \in [Char -> [Item -> {"none", "bag", "worn"}]]
  PROVE  TaskOK' /\ HandlerOK'
  <1>1. Idle \in TaskType /\ Idle.at = "idle" /\ Idle.capture = NoItem
    BY DEF Idle, TaskType, Phase
  <1> QED
    BY <1>1 DEF TaskOK, HandlerOK

LEMMA TaskStep == TypeOK /\ HandlerOK /\ Next => TaskOK' /\ HandlerOK'
  <1> SUFFICES ASSUME TypeOK, HandlerOK, Next PROVE TaskOK' /\ HandlerOK'
    OBVIOUS
  <1>1. /\ TaskOK /\ task \in TaskType /\ task.at \in Phase /\ NoItem \in Item \union {NoItem}
        /\ online \subseteq Char /\ task.left \subseteq Item
        /\ place \in [Char -> [Item -> {"none", "bag", "worn"}]]
        /\ task.at # "idle" => task.char \in online
    BY DEF TypeOK, TaskOK, TaskType
  <1>2. UNCHANGED <<place, online, task>> => TaskOK' /\ HandlerOK'
    BY <1>1 DEF TaskOK, HandlerOK
  <1>3. task.at = "idle" => task = Idle
    BY DEF HandlerOK
  <1>4. ASSUME NEW c \in Char,
               \/ \E i \in Item : AddItem(c, i)
               \/ \E s \in Slot : RemoveItem(c, s)
               \/ Expand(c)
        PROVE  TaskOK' /\ HandlerOK'
    BY <1>2, <1>4 DEF AddItem, RemoveItem, Expand
  <1>5. ASSUME NEW c \in Char, NEW i \in Item, Dissolve(c, i) \/ Equip(c, i) \/ Move(c, i)
        PROVE  TaskOK' /\ HandlerOK'
    <2>1. task' = Idle /\ UNCHANGED online
      BY <1>3, <1>5 DEF Dissolve, Equip, Move
    <2>2. place' \in [Char -> [Item -> {"none", "bag", "worn"}]]
      BY <1>1, <1>5 DEF Dissolve, Equip, Move
    <2> QED
      BY <1>1, <2>1, <2>2, IdleStep
  <1>6. ASSUME NEW c \in Char, Logout(c) PROVE TaskOK' /\ HandlerOK'
    BY <1>1, <1>3, <1>6, IdleStep DEF Logout
  <1>7. ASSUME NEW c \in Char, Kill(c) PROVE TaskOK' /\ HandlerOK'
    <2>1. \E at \in {"worn", "racked"} : \E left \in SUBSET Item : Begin(c, at, left)
      BY <1>7, RackedItems DEF Kill
    <2>2. c \in online' /\ online' \subseteq Char /\ UNCHANGED place
      BY <1>1, <1>7 DEF Kill
    <2> QED
      BY <1>1, <2>1, <2>2, BeginStep DEF Phase
  <1>8. ASSUME NEW c \in Char, Death(c) PROVE TaskOK' /\ HandlerOK'
    BY <1>1, <1>8, BeginStep DEF Death, Phase
  <1>9. ASSUME NEW c \in Char, Login(c) PROVE TaskOK' /\ HandlerOK'
    <2>1. \E left \in SUBSET Item : Begin(c, "migrating", left)
      BY <1>9 DEF Login, BeginOrLost, Unfinished
    <2>2. c \in online' /\ online' \subseteq Char /\ UNCHANGED place
      BY <1>1, <1>9 DEF Login
    <2> QED
      BY <1>1, <2>1, <2>2, BeginStep DEF Phase
  <1>10. ASSUME NEW c \in Char, NEW i \in Item, Quest(c, i) PROVE TaskOK' /\ HandlerOK'
    <2>1. task' = [at |-> "rewarding", char |-> c, left |-> {i}, capture |-> i]
          /\ c \in online /\ UNCHANGED <<place, online>>
      BY <1>10 DEF Quest
    <2> QED
      BY <1>1, <2>1 DEF TaskOK, HandlerOK, TaskType, Phase
  <1>11. ASSUME NEW i \in Item,
                \/ CreditWorn(i) \/ CreditRacked(i) \/ CheckAttuned(i) \/ AttuneReward(i)
                \/ Weaken(i) \/ Migrate(i) \/ Recapture(i)
         PROVE  TaskOK' /\ HandlerOK'
    <2>1. task.at # "idle" /\ UNCHANGED <<place, online>>
      BY <1>11
         DEF CreditWorn, CreditRacked, CheckAttuned, AttuneReward, Weaken, Migrate, Recapture,
             Visits
    <2>2. \E capture \in {i, NoItem} :
            /\ Done(i, capture)
            /\ capture # NoItem => task.at \in {"worn", "checking", "rewarding", "recapturing"}
      BY <1>11
         DEF CreditWorn, CreditRacked, CheckAttuned, AttuneReward, Weaken, Migrate, Recapture,
             Visits
    <2> QED
      BY <1>1, <2>1, <2>2, DoneStep
  <1>12. CASE Capture
    <2>1. /\ task' = [task EXCEPT !.capture = NoItem] /\ UNCHANGED <<place, online>>
      BY <1>12 DEF Capture
    <2>2. task' \in TaskType /\ task'.at = task.at /\ task'.char = task.char
          /\ task'.left = task.left /\ task'.capture = NoItem
      BY <1>1, <2>1 DEF TaskType
    <2>3. task.at # "idle"
      BY <1>12 DEF Capture, HandlerOK
    <2> QED
      BY <1>1, <2>1, <2>2, <2>3 DEF TaskOK, HandlerOK
  <1>13. CASE NextPhase
    <2>1. CASE task' = Idle
      BY <1>1, <1>13, <2>1, IdleStep DEF NextPhase
    <2>2. CASE task' # Idle
      <3>1. task.at # "idle" /\ UNCHANGED <<place, online>>
        BY <1>13 DEF NextPhase
      <3>2. task.char \in Char /\ task.char \in online'
        BY <1>1, <3>1
      <3>3. \E at \in {"racked", "checking", "recapturing", "loading"} :
              \E left \in SUBSET Item : Begin(task.char, at, left)
        BY <1>13, <2>2, <3>2, RackedItems DEF NextPhase, BeginOrLost, Uncaptured
      <3> QED
        BY <1>1, <3>1, <3>2, <3>3, BeginStep DEF Phase
    <2> QED
      BY <2>1, <2>2
  <1>14. CASE Load \/ Crash
    BY <1>1, <1>14, IdleStep DEF Load, Crash
  <1>15. CASE ApplyQueued
    BY <1>2, <1>15 DEF ApplyQueued
  <1> QED
    BY <1>4, <1>5, <1>6, <1>7, <1>8, <1>9, <1>10, <1>11, <1>12, <1>13, <1>14, <1>15
       DEF Next, HandlerStep, PlayerStep

Typed == TypeOK /\ HandlerOK

LEMMA InitTyped == Init => Typed
  <1> SUFFICES ASSUME Init PROVE Typed
    OBVIOUS
  <1>1. ShelfOK
    BY AttunementAssumption, EmptySeq DEF Init, ShelfOK, Empty, Slot
  <1>2. GrowthOK /\ FaultsOK
    BY AttunementAssumption DEF Init, GrowthOK, FaultsOK
  <1>3. TaskOK /\ HandlerOK
    BY DEF Init, TaskOK, HandlerOK, Idle, TaskType, Phase
  <1> QED
    BY <1>1, <1>2, <1>3, TypeParts DEF Typed

LEMMA SameTyped == Typed /\ UNCHANGED vars => Typed'
  BY DEF vars, shelf, growth, Typed, TypeOK, HandlerOK

LEMMA TypedStep == Typed /\ [Next]_vars => Typed'
  <1> SUFFICES ASSUME Typed, Next PROVE Typed'
    BY SameTyped
  <1>1. ShelfOK' /\ GrowthOK' /\ TaskOK' /\ HandlerOK'
    BY ShelfStep, GrowthStep, TaskStep DEF Typed
  <1>2. FaultsOK'
    BY NextCounts, FaultsStep, TypeParts DEF Typed
  <1>3. TypeOK'
    BY <1>1, <1>2 DEF TypeOK, ShelfOK, GrowthOK, TaskOK, FaultsOK
  <1> QED
    BY <1>1, <1>3 DEF Typed

LEMMA TypedAlways == Spec => []Typed
  <1> QED
    BY InitTyped, TypedStep, PTL DEF Spec

-----------------------------------------------------------------------------
(* Faults.                                                                   *)

\* A fault is not forgotten: a step after which a kind has not failed did not fail.
LEMMA FaultsGrow ==
  ASSUME Typed, Next, NEW kind \in FaultKind, Clean(kind)'
  PROVE  Clean(kind) /\ ~Fault(kind)
  <1>1. faults \in [FaultKind -> Nat]
    BY DEF Typed, TypeOK
  <1>2. CASE NoFault
    <2>1. Clean(kind)
      BY <1>2 DEF NoFault, Clean
    <2> QED
      BY <1>1, <1>2, <2>1 DEF NoFault, Fault
  <1>3. ASSUME NEW k \in FaultKind, Fault(k) PROVE Clean(kind) /\ k # kind
    BY <1>1, <1>3 DEF Fault, Clean
  <1>4. ~Fault(kind)
    BY <1>3
  <1> QED
    BY <1>2, <1>3, <1>4, NextCounts

-----------------------------------------------------------------------------
(* Progress.                                                                 *)

ProgressStep ==
    /\ attuned \subseteq attuned'
    /\ \A c \in Char, i \in Item :
          \/ progress'[c][i] >= progress[c][i]
          \/ /\ task.at = "weakening" /\ task.char = c
             /\ place[c][i] = "worn" /\ <<c, i>> \notin attuned

LEMMA NoLoss ==
  ASSUME Typed, attuned \subseteq attuned', UNCHANGED progress
  PROVE  ProgressStep
  BY DEF Typed, TypeOK, ProgressStep

LEMMA NoneLost ==
  ASSUME Typed, attuned \subseteq attuned', NEW c \in Char, NEW i \in Item, NEW new \in 0..Cap,
         progress' = [progress EXCEPT ![c][i] = new], new >= progress[c][i]
  PROVE  ProgressStep
  <1> SUFFICES ASSUME NEW d \in Char, NEW j \in Item PROVE progress'[d][j] >= progress[d][j]
    BY DEF ProgressStep
  <1>1. progress \in [Char -> [Item -> 0..Cap]]
    BY DEF Typed, TypeOK
  <1>2. Cap \in Nat
    BY AttunementAssumption
  <1>3. CASE d = c /\ j = i
    BY <1>1, <1>3
  <1>4. CASE d # c \/ j # i
    <2>1. progress'[d][j] = progress[d][j] /\ progress[d][j] \in 0..Cap
      BY <1>1, <1>4
    <2> QED
      BY <1>2, <2>1
  <1> QED
    BY <1>3, <1>4

LEMMA ProgressKeptStep ==
  ASSUME Typed, Next, Clean("read")'
  PROVE  ProgressStep
  <1>1. Clean("read") /\ ~Fault("read")
    BY FaultsGrow DEF FaultKind
  <1>2. /\ progress \in [Char -> [Item -> 0..Cap]] /\ Cap \in Nat \ {0}
        /\ attuned \subseteq Char \X Item
        /\ \A i \in Item : task.at # "idle" => progress[task.char][i] \in 0..Cap
        /\ task.at # "idle" => task.char \in Char
    BY AttunementAssumption DEF Typed, TypeOK
  <1>3. CASE PlayerStep
    BY <1>3, NoLoss
       DEF PlayerStep, AddItem, Dissolve, Equip, Move, Quest, RemoveItem, Expand, Kill,
           Death, Login, Logout, growth
  <1>4. CASE ApplyQueued \/ Crash \/ NextPhase \/ Load \/ Capture
             \/ \E i \in Item : Recapture(i) \/ CheckAttuned(i) \/ Migrate(i)
    BY <1>4, NoLoss
       DEF ApplyQueued, Crash, NextPhase, Load, Recapture, CheckAttuned, Migrate, Capture,
           growth
  <1>5. ASSUME NEW i \in Item, CreditWorn(i) PROVE ProgressStep
    <2>1. task.char \in Char /\ progress[task.char][i] \in 0..Cap
      BY <1>2, <1>5 DEF CreditWorn, Visits
    <2>2. CASE UNCHANGED <<progress, attuned>>
      BY <2>2, NoLoss
    <2>3. CASE \E gain \in 1..MaxGain :
                  LET new == Grown(progress[task.char][i], gain) IN
                  /\ <<task.char, i>> \notin attuned
                  /\ progress' = [progress EXCEPT ![task.char][i] = new]
                  /\ attuned' = IF new = Cap THEN attuned \union {<<task.char, i>>}
                                ELSE attuned \ {<<task.char, i>>}
      <3>1. PICK gain \in 1..MaxGain :
                  LET new == Grown(progress[task.char][i], gain) IN
                  /\ <<task.char, i>> \notin attuned
                  /\ progress' = [progress EXCEPT ![task.char][i] = new]
                  /\ attuned' = IF new = Cap THEN attuned \union {<<task.char, i>>}
                                ELSE attuned \ {<<task.char, i>>}
        BY <2>3
      <3> DEFINE new == Grown(progress[task.char][i], gain)
      <3>2. new \in 0..Cap /\ new >= progress[task.char][i]
        BY <2>1, GrownOK
      <3> HIDE DEF new
      <3>3. /\ progress' = [progress EXCEPT ![task.char][i] = new]
            /\ attuned \subseteq attuned'
        BY <3>1 DEF new
      <3> QED
        BY <2>1, <3>2, <3>3, NoneLost
    <2> QED
      BY <1>1, <1>5, <2>2, <2>3 DEF CreditWorn
  <1>6. ASSUME NEW i \in Item, CreditRacked(i) PROVE ProgressStep
    <2>1. /\ task.char \in Char /\ progress[task.char][i] \in 0..Cap /\ UNCHANGED attuned
      BY <1>2, <1>6 DEF CreditRacked, Visits
    <2>2. CASE UNCHANGED progress
      BY <2>1, <2>2, NoLoss
    <2>3. ASSUME NEW gain \in 1..MaxGain,
                 progress' = [progress EXCEPT ![task.char][i] =
                                Grown(progress[task.char][i], gain)]
          PROVE  ProgressStep
      <3> DEFINE new == Grown(progress[task.char][i], gain)
      <3>1. new \in 0..Cap /\ new >= progress[task.char][i]
        BY <2>1, GrownOK
      <3> HIDE DEF new
      <3>2. progress' = [progress EXCEPT ![task.char][i] = new]
        BY <2>3 DEF new
      <3> QED
        BY <2>1, <3>1, <3>2, NoneLost
    <2>4. \/ UNCHANGED progress \/ Fault("read")
          \/ \E gain \in 1..MaxGain :
                progress' = [progress EXCEPT ![task.char][i] =
                               Grown(progress[task.char][i], gain)]
      BY <1>6, ZenonT(60) DEF CreditRacked
    <2> QED
      BY <1>1, <2>2, <2>3, <2>4
  <1>7. ASSUME NEW i \in Item, AttuneReward(i) PROVE ProgressStep
    <2>1. task.char \in Char /\ progress[task.char][i] \in 0..Cap
      BY <1>2, <1>7 DEF AttuneReward, Visits
    <2>2. CASE UNCHANGED <<progress, attuned>>
      BY <2>2, NoLoss
    <2>3. CASE /\ progress' = [progress EXCEPT ![task.char][i] = Cap]
               /\ attuned' = attuned \union {<<task.char, i>>}
      <3>1. Cap \in 0..Cap /\ Cap >= progress[task.char][i] /\ attuned \subseteq attuned'
        BY <1>2, <2>1, <2>3
      <3> QED
        BY <2>1, <2>3, <3>1, NoneLost
    <2> QED
      BY <1>7, <2>2, <2>3 DEF AttuneReward
  <1>8. ASSUME NEW i \in Item, Weaken(i) PROVE ProgressStep
    <2>1. /\ task.char \in Char /\ UNCHANGED attuned
          /\ task.at = "weakening" /\ place[task.char][i] = "worn"
      BY <1>2, <1>8 DEF Weaken, Visits, Typed, HandlerOK
    <2>2. CASE UNCHANGED progress
      BY <2>1, <2>2, NoLoss
    <2>3. ASSUME <<task.char, i>> \notin attuned, NEW rest,
                 progress' = [progress EXCEPT ![task.char][i] = rest]
          PROVE  ProgressStep
      <3> SUFFICES ASSUME NEW d \in Char, NEW j \in Item, ~ (d = task.char /\ j = i)
                   PROVE  progress'[d][j] >= progress[d][j]
        BY <2>1, <2>3 DEF ProgressStep
      <3>1. progress'[d][j] = progress[d][j] /\ progress[d][j] \in 0..Cap
        BY <1>2, <2>1, <2>3
      <3> QED
        BY <1>2, <3>1
    <2> QED
      BY <1>8, <2>2, <2>3 DEF Weaken
  <1> QED
    BY <1>3, <1>4, <1>5, <1>6, <1>7, <1>8 DEF Next, HandlerStep

\* The types of the Rack, of the progress and of the handler under way hold in every state
\* of ap_rack.lua and ap_events.lua, whatever fails and whenever the server crashes.
THEOREM TypeCorrect == Spec => []TypeOK
  <1>1. Typed => TypeOK
    BY DEF Typed
  <1> QED
    BY <1>1, TypedAlways, PTL

\* As long as reads work, an attuned item stays attuned and nothing but a death under World
\* Threat takes progress, through every handler, failed write and crash.
THEOREM ProgressKeptAlways == Spec => ProgressKept
  <1>1. Typed /\ [Next]_vars => [Clean("read")' => ProgressStep]_vars
    BY ProgressKeptStep
  <1> QED
    BY <1>1, TypedAlways, PTL DEF Spec, ProgressKept, ProgressStep

-----------------------------------------------------------------------------
(* Nothing half attuned.  What a handler has yet to attune or to capture is   *)
(* among the items it has still to visit, so nothing is left when it is done. *)

Awaits(c, i) ==
    /\ task.char = c
    /\ \/ task.at = "racked" /\ i \in Racked(c)
       \/ task.at \in {"checking", "migrating"} /\ i \in task.left

AwaitsSnapshot(c, i) ==
    /\ task.char = c
    /\ \/ task.capture = i
       \/ task.at = "migrating"
       \/ task.at = "recapturing" /\ i \in task.left

NothingForgotten ==
    \A c \in online, i \in Item :
        /\ progress[c][i] = Cap /\ <<c, i>> \notin attuned => Awaits(c, i)
        /\ <<c, i>> \in attuned /\ <<AccountOf[c], i>> \notin snapshot => AwaitsSnapshot(c, i)
RewardsCaptured ==
    task.at = "rewarding" =>
        \A i \in task.left : task.capture = i \/ <<AccountOf[task.char], i>> \in snapshot
RackedVisited == task.at = "racked" => task.left \subseteq Racked(task.char)

Accounted == NothingForgotten /\ RewardsCaptured /\ RackedVisited

\* Between handlers nothing waits, and a character that stays leaves nothing waiting.
Settled ==
    \A c \in online, i \in Item :
        /\ progress[c][i] = Cap => <<c, i>> \in attuned
        /\ <<c, i>> \in attuned => <<AccountOf[c], i>> \in snapshot

LEMMA NothingWaits ==
  ASSUME Typed, Accounted, task.capture = NoItem,
         \/ task.at \in {"idle", "loading", "worn", "rewarding", "weakening"}
         \/ task.at \in {"checking", "recapturing"} /\ task.left = {}
  PROVE  Settled
  <1>1. \A i \in Item : task.capture # i
    BY AttunementAssumption
  <1> QED
    BY <1>1 DEF Accounted, NothingForgotten, Awaits, AwaitsSnapshot, Settled

LEMMA StaySettled ==
  ASSUME Settled, online' \subseteq online, UNCHANGED growth, RewardsCaptured', RackedVisited'
  PROVE  Accounted'
  BY DEF Settled, growth, Accounted, NothingForgotten

LEMMA AccountedStep ==
  ASSUME Typed, Accounted, Next, Clean("read")', Clean("write")'
  PROVE  Accounted'
  <1>1. ~Fault("read") /\ ~Fault("write")
    BY FaultsGrow DEF FaultKind
  <1>2. /\ task \in TaskType /\ online \subseteq Char /\ Cap \in Nat \ {0}
        /\ progress \in [Char -> [Item -> 0..Cap]] /\ attuned \subseteq Char \X Item
        /\ NoItem \notin Item /\ NoChar \notin Char
        /\ task.at # "idle" => task.char \in online
    BY AttunementAssumption DEF Typed, TypeOK
  <1>3. task.at = "idle" => task = Idle /\ task.capture = NoItem /\ Settled
    BY NothingWaits DEF Typed, HandlerOK, Idle
  <1>4. task' = Idle => RewardsCaptured' /\ RackedVisited'
    BY DEF Idle, RewardsCaptured, RackedVisited
  <1>5. ASSUME NEW c \in Char,
               \/ \E i \in Item : AddItem(c, i) \/ Dissolve(c, i) \/ Equip(c, i) \/ Move(c, i)
               \/ \E s \in Slot : RemoveItem(c, s)
               \/ Expand(c) \/ Logout(c)
        PROVE  Accounted'
    <2>1. task.at = "idle" /\ UNCHANGED <<growth, task>> /\ online' \subseteq online
      BY <1>5 DEF AddItem, Dissolve, Equip, Move, RemoveItem, Expand, Logout
    <2> QED
      BY <1>3, <1>4, <2>1, StaySettled
  <1>6. ASSUME NEW c \in Char, Kill(c) \/ Death(c) PROVE Accounted'
    <2>1. task.at = "idle" /\ UNCHANGED <<growth, online, cache>>
      BY <1>6 DEF Kill, Death, shelf
    <2>2. \/ \E at \in {"worn", "weakening"} : \E left \in SUBSET Item : Begin(c, at, left)
          \/ Begin(c, "racked", Racked(c))
      BY <1>1, <1>6 DEF Kill, Death
    <2>3. RewardsCaptured' /\ RackedVisited'
      BY <2>1, <2>2 DEF Begin, RewardsCaptured, RackedVisited, Racked
    <2> QED
      BY <1>3, <2>1, <2>3, StaySettled
  <1>7. ASSUME NEW c \in Char, NEW i \in Item, Quest(c, i) PROVE Accounted'
    <2>1. task.at = "idle" /\ UNCHANGED <<growth, online>>
          /\ task' = [at |-> "rewarding", char |-> c, left |-> {i}, capture |-> i]
      BY <1>7 DEF Quest
    <2>2. RewardsCaptured' /\ RackedVisited'
      BY <2>1 DEF RewardsCaptured, RackedVisited
    <2> QED
      BY <1>3, <2>1, <2>2, StaySettled
  <1>8. ASSUME NEW c \in Char, Login(c) PROVE Accounted'
    <2>1. /\ task.at = "idle" /\ UNCHANGED growth /\ online' = online \union {c}
          /\ task' = [at |-> "migrating", char |-> c, left |-> Unfinished(c),
                      capture |-> NoItem]
      BY <1>1, <1>8 DEF Login, BeginOrLost, Begin
    <2>2. RewardsCaptured' /\ RackedVisited'
      BY <2>1 DEF RewardsCaptured, RackedVisited
    <2>3. NothingForgotten'
      BY <1>3, <2>1
         DEF Settled, NothingForgotten, Awaits, AwaitsSnapshot, Unfinished, growth
    <2> QED
      BY <2>2, <2>3 DEF Accounted
  <1>9. CASE ApplyQueued
    BY <1>9 DEF ApplyQueued, Accounted, NothingForgotten, RewardsCaptured, RackedVisited,
                Awaits, AwaitsSnapshot, Racked, growth
  <1>10. CASE Crash
    BY <1>4, <1>10 DEF Crash, Accounted, NothingForgotten
  <1>11. CASE Load
    <2>1. task.at = "loading" /\ task' = Idle /\ UNCHANGED <<growth, online>>
      BY <1>11 DEF Load
    <2>2. task.capture = NoItem
      BY <2>1 DEF Typed, HandlerOK
    <2> QED
      BY <1>4, <2>1, <2>2, NothingWaits, StaySettled
  <1>12. CASE Capture
    <2>1. /\ task.capture # NoItem /\ task' = [task EXCEPT !.capture = NoItem]
          /\ UNCHANGED <<progress, attuned, online, cache>>
          /\ snapshot' = snapshot \union {<<AccountOf[task.char], task.capture>>}
      BY <1>1, <1>12 DEF Capture, shelf
    <2>2. /\ task'.at = task.at /\ task'.char = task.char /\ task'.left = task.left
          /\ task'.capture = NoItem
      BY <1>2, <2>1 DEF TaskType
    <2>3. NothingForgotten'
      <3> SUFFICES ASSUME NEW d \in online, NEW j \in Item
                   PROVE  /\ progress[d][j] = Cap /\ <<d, j>> \notin attuned => Awaits(d, j)'
                          /\ /\ <<d, j>> \in attuned
                             /\ <<AccountOf[d], j>> \notin snapshot'
                             => AwaitsSnapshot(d, j)'
        BY <2>1 DEF NothingForgotten
      <3>1. Awaits(d, j) => Awaits(d, j)'
        BY <2>1, <2>2 DEF Awaits, Racked
      <3>2. AwaitsSnapshot(d, j) =>
              AwaitsSnapshot(d, j)' \/ <<AccountOf[d], j>> \in snapshot'
        BY <2>1, <2>2 DEF AwaitsSnapshot
      <3> QED
        BY <2>1, <3>1, <3>2 DEF Accounted, NothingForgotten
    <2>4. RewardsCaptured'
      BY <2>1, <2>2 DEF Accounted, RewardsCaptured
    <2>5. RackedVisited'
      BY <2>1, <2>2 DEF Accounted, RackedVisited, Racked
    <2> QED
      BY <2>3, <2>4, <2>5 DEF Accounted
  <1>13. CASE NextPhase
    <2>1. /\ task.left = {} /\ task.capture = NoItem
          /\ UNCHANGED <<progress, attuned, snapshot, growth, online, cache>>
      BY <1>13 DEF NextPhase, growth, shelf
    <2>2. CASE task.at = "worn" /\ Begin(task.char, "racked", Racked(task.char))
      <3>1. RewardsCaptured' /\ RackedVisited'
        BY <2>1, <2>2 DEF Begin, RewardsCaptured, RackedVisited, Racked
      <3> QED
        BY <2>1, <2>2, <3>1, NothingWaits, StaySettled
    <2>3. CASE task.at = "racked" /\ Begin(task.char, "checking", Racked(task.char))
      <3>1. task' = [at |-> "checking", char |-> task.char, left |-> Racked(task.char),
                     capture |-> NoItem]
        BY <2>3 DEF Begin
      <3>2. RewardsCaptured' /\ RackedVisited'
        BY <3>1 DEF RewardsCaptured, RackedVisited
      <3>3. NothingForgotten'
        BY <1>2, <2>1, <2>3, <3>1 DEF Accounted, NothingForgotten, Awaits, AwaitsSnapshot
      <3> QED
        BY <3>2, <3>3 DEF Accounted
    <2>4. CASE task.at \in {"checking", "rewarding", "weakening"} /\ task' = Idle
      BY <1>4, <2>1, <2>4, NothingWaits, StaySettled
    <2>5. CASE task.at = "migrating" /\ Begin(task.char, "recapturing", Uncaptured(task.char))
      <3>1. task' = [at |-> "recapturing", char |-> task.char,
                     left |-> Uncaptured(task.char), capture |-> NoItem]
        BY <2>5 DEF Begin
      <3>2. RewardsCaptured' /\ RackedVisited'
        BY <3>1 DEF RewardsCaptured, RackedVisited
      <3>3. NothingForgotten'
        BY <1>2, <2>1, <2>5, <3>1
           DEF Accounted, NothingForgotten, Awaits, AwaitsSnapshot, Uncaptured
      <3> QED
        BY <3>2, <3>3 DEF Accounted
    <2>6. CASE task.at = "recapturing" /\ Begin(task.char, "loading", {})
      <3>1. RewardsCaptured' /\ RackedVisited'
        BY <2>6 DEF Begin, RewardsCaptured, RackedVisited
      <3> QED
        BY <2>1, <2>6, <3>1, NothingWaits, StaySettled
    <2> QED
      BY <1>1, <1>13, <2>2, <2>3, <2>4, <2>5, <2>6 DEF NextPhase, BeginOrLost
  <1>14. ASSUME NEW i \in Item, CreditWorn(i) PROVE Accounted'
    <2>1. /\ task.at = "worn" /\ task.capture = NoItem /\ i \in task.left
          /\ UNCHANGED <<snapshot, online>> /\ task.char \in online
      BY <1>2, <1>14 DEF CreditWorn, Visits
    <2>2. Settled
      BY <2>1, NothingWaits
    <2>3. CASE UNCHANGED <<progress, attuned>> /\ Done(i, NoItem)
      <3>1. task'.at = "worn"
        BY <1>2, <2>1, <2>3, DoneOK
      <3>2. RewardsCaptured' /\ RackedVisited'
        BY <3>1 DEF RewardsCaptured, RackedVisited
      <3> QED
        BY <2>1, <2>2, <2>3, <3>2, StaySettled DEF growth
    <2>4. ASSUME NEW new,
                 <<task.char, i>> \notin attuned,
                 progress' = [progress EXCEPT ![task.char][i] = new],
                 attuned' = IF new = Cap THEN attuned \union {<<task.char, i>>}
                            ELSE attuned \ {<<task.char, i>>},
                 Done(i, IF new = Cap THEN i ELSE NoItem)
          PROVE  Accounted'
      <3>1. /\ task'.at = "worn" /\ task'.char = task.char
            /\ task'.capture = IF new = Cap THEN i ELSE NoItem
        BY <1>2, <2>1, <2>4, DoneOK
      <3>2. RewardsCaptured' /\ RackedVisited'
        BY <3>1 DEF RewardsCaptured, RackedVisited
      <3>3. NothingForgotten'
        <4> SUFFICES ASSUME NEW d \in online, NEW j \in Item
                     PROVE  /\ progress'[d][j] = Cap => <<d, j>> \in attuned'
                            /\ /\ <<d, j>> \in attuned'
                               /\ <<AccountOf[d], j>> \notin snapshot
                               => AwaitsSnapshot(d, j)'
          BY <2>1 DEF NothingForgotten
        <4>1. CASE d = task.char /\ j = i
          BY <1>2, <2>1, <2>4, <3>1, <4>1 DEF AwaitsSnapshot
        <4>2. CASE d # task.char \/ j # i
          BY <1>2, <2>1, <2>2, <2>4, <4>2 DEF Settled
        <4> QED
          BY <4>1, <4>2
      <3> QED
        BY <3>2, <3>3 DEF Accounted
    <2> QED
      BY <1>1, <1>14, <2>3, <2>4 DEF CreditWorn
  <1>15. ASSUME NEW i \in Item, CreditRacked(i) PROVE Accounted'
    <2>1. /\ task.at = "racked" /\ task.capture = NoItem /\ i \in task.left
          /\ Done(i, NoItem) /\ UNCHANGED <<attuned, snapshot, online, cache>>
          /\ task.char \in online
      BY <1>2, <1>15 DEF CreditRacked, Visits, shelf
    <2>2. /\ task'.at = "racked" /\ task'.char = task.char /\ task'.capture = NoItem
          /\ task'.left = task.left \ {i}
      BY <1>2, <2>1, DoneOK
    <2>3. \/ UNCHANGED progress
          \/ \E gain \in 1..MaxGain :
                progress' = [progress EXCEPT ![task.char][i] =
                               Grown(progress[task.char][i], gain)]
      BY <1>1, <1>15, ZenonT(60) DEF CreditRacked
    <2>4. RewardsCaptured' /\ RackedVisited'
      BY <2>1, <2>2 DEF Accounted, RewardsCaptured, RackedVisited, Racked
    <2>5. NothingForgotten'
      <3> SUFFICES ASSUME NEW d \in online, NEW j \in Item
                   PROVE  /\ progress'[d][j] = Cap /\ <<d, j>> \notin attuned
                                => Awaits(d, j)'
                          /\ /\ <<d, j>> \in attuned
                             /\ <<AccountOf[d], j>> \notin snapshot
                             => AwaitsSnapshot(d, j)'
        BY <2>1 DEF NothingForgotten
      <3>1. Awaits(d, j) => Awaits(d, j)'
        BY <2>1, <2>2 DEF Awaits, Racked
      <3>2. AwaitsSnapshot(d, j) => FALSE
        BY <1>2, <2>1 DEF AwaitsSnapshot
      <3>3. Awaits(task.char, i)'
        BY <2>1, <2>2 DEF Awaits, Accounted, RackedVisited, Racked
      <3>4. d # task.char \/ j # i => progress'[d][j] = progress[d][j]
        <4>1. \/ UNCHANGED progress
              \/ \E new : progress' = [progress EXCEPT ![task.char][i] = new]
          BY <2>3
        <4>2. ASSUME NEW new, progress' = [progress EXCEPT ![task.char][i] = new]
              PROVE  d # task.char \/ j # i => progress'[d][j] = progress[d][j]
          <5>1. progress[d] \in [Item -> 0..Cap] /\ d \in Char /\ task.char \in Char
            BY <1>2, <2>1
          <5>2. CASE d = task.char
            BY <1>2, <4>2, <5>1, <5>2
          <5>3. CASE d # task.char
            BY <1>2, <4>2, <5>1, <5>3
          <5> QED
            BY <5>2, <5>3
        <4> QED
          BY <4>1, <4>2
      <3>5. CASE d = task.char /\ j = i
        <4>1. Awaits(d, j)'
          BY <3>3, <3>5, <2>1, <2>2 DEF Awaits, Racked
        <4> QED
          BY <3>2, <4>1 DEF Accounted, NothingForgotten
      <3>6. CASE d # task.char \/ j # i
        BY <3>1, <3>2, <3>4, <3>6 DEF Accounted, NothingForgotten
      <3> QED
        BY <3>5, <3>6
    <2> QED
      BY <2>4, <2>5 DEF Accounted
  <1>16. ASSUME NEW i \in Item, CheckAttuned(i) \/ Migrate(i) PROVE Accounted'
    <2>1. /\ task.at \in {"checking", "migrating"} /\ task.capture = NoItem
          /\ i \in task.left /\ UNCHANGED <<progress, snapshot, online, cache>>
          /\ task.char \in online
      BY <1>2, <1>16 DEF CheckAttuned, Migrate, Visits, shelf
    <2>2. \E capture \in {i, NoItem} :
            /\ Done(i, capture)
            /\ \/ attuned' = attuned \union {<<task.char, i>>}
                  /\ (task.at = "checking" => capture = i)
               \/ /\ attuned' = attuned
                  /\ progress[task.char][i] = Cap => <<task.char, i>> \in attuned
      BY <1>1, <1>16 DEF CheckAttuned, Migrate, Visits
    <2>3. PICK capture \in {i, NoItem} :
            /\ Done(i, capture)
            /\ \/ attuned' = attuned \union {<<task.char, i>>}
                  /\ (task.at = "checking" => capture = i)
               \/ /\ attuned' = attuned
                  /\ progress[task.char][i] = Cap => <<task.char, i>> \in attuned
      BY <2>2
    <2>4. /\ task'.at = task.at /\ task'.char = task.char /\ task'.capture = capture
          /\ task'.left = task.left \ {i}
      BY <1>2, <2>1, <2>3, DoneOK
    <2>5. RewardsCaptured' /\ RackedVisited'
      BY <2>1, <2>4 DEF RewardsCaptured, RackedVisited
    <2>6. NothingForgotten'
      <3> SUFFICES ASSUME NEW d \in online, NEW j \in Item
                   PROVE  /\ progress[d][j] = Cap /\ <<d, j>> \notin attuned'
                                => Awaits(d, j)'
                          /\ /\ <<d, j>> \in attuned'
                             /\ <<AccountOf[d], j>> \notin snapshot
                             => AwaitsSnapshot(d, j)'
        BY <2>1 DEF NothingForgotten
      <3>1. CASE d = task.char /\ j = i
        <4>1. progress[d][j] = Cap => <<d, j>> \in attuned'
          BY <2>3, <3>1
        <4>2. AwaitsSnapshot(d, j) => AwaitsSnapshot(d, j)'
          BY <1>2, <2>1, <2>4 DEF AwaitsSnapshot
        <4>3. CASE attuned' = attuned
          BY <4>1, <4>2, <4>3 DEF Accounted, NothingForgotten
        <4>4. CASE task.at = "checking" => capture = i
          BY <2>1, <2>4, <3>1, <4>1, <4>4 DEF AwaitsSnapshot
        <4> QED
          BY <2>3, <4>3, <4>4
      <3>2. CASE d # task.char \/ j # i
        <4>1. <<d, j>> \in attuned' <=> <<d, j>> \in attuned
          BY <2>3, <3>2
        <4>2. Awaits(d, j) => Awaits(d, j)'
          BY <2>1, <2>4, <3>2 DEF Awaits
        <4>3. AwaitsSnapshot(d, j) => AwaitsSnapshot(d, j)'
          BY <1>2, <2>1, <2>4 DEF AwaitsSnapshot
        <4> QED
          BY <4>1, <4>2, <4>3 DEF Accounted, NothingForgotten
      <3> QED
        BY <3>1, <3>2
    <2> QED
      BY <2>5, <2>6 DEF Accounted
  <1>17. ASSUME NEW i \in Item, AttuneReward(i) PROVE Accounted'
    <2>1. /\ task.at = "rewarding" /\ task.capture = NoItem /\ i \in task.left
          /\ Done(i, NoItem) /\ UNCHANGED <<snapshot, online>> /\ task.char \in online
          /\ progress' = [progress EXCEPT ![task.char][i] = Cap]
          /\ attuned' = attuned \union {<<task.char, i>>}
      BY <1>1, <1>2, <1>17 DEF AttuneReward, Visits
    <2>2. /\ task'.at = "rewarding" /\ task'.char = task.char
          /\ task'.left = task.left \ {i}
      BY <1>2, <2>1, DoneOK
    <2>3. \A j \in task.left : <<AccountOf[task.char], j>> \in snapshot
      BY <1>2, <2>1 DEF Accounted, RewardsCaptured, TaskType
    <2>4. Settled
      BY <2>1, NothingWaits
    <2>5. RewardsCaptured' /\ RackedVisited'
      BY <2>1, <2>2, <2>3 DEF RewardsCaptured, RackedVisited
    <2>6. Settled'
      <3> SUFFICES ASSUME NEW d \in online, NEW j \in Item
                   PROVE  /\ progress'[d][j] = Cap => <<d, j>> \in attuned'
                          /\ <<d, j>> \in attuned' => <<AccountOf[d], j>> \in snapshot
        BY <2>1 DEF Settled
      <3>1. CASE d = task.char /\ j = i
        BY <2>1, <2>3, <3>1
      <3>2. CASE d # task.char \/ j # i
        BY <1>2, <2>1, <2>4, <3>2 DEF Settled
      <3> QED
        BY <3>1, <3>2
    <2> QED
      BY <2>5, <2>6 DEF Accounted, NothingForgotten, Settled
  <1>18. ASSUME NEW i \in Item, Weaken(i) PROVE Accounted'
    <2>1. /\ task.at = "weakening" /\ Done(i, NoItem) /\ task.char \in online
          /\ UNCHANGED <<attuned, snapshot, online>>
      BY <1>2, <1>18 DEF Weaken, Visits
    <2>2. task'.at = "weakening"
      BY <1>2, <2>1, DoneOK
    <2>3. RewardsCaptured' /\ RackedVisited'
      BY <2>2 DEF RewardsCaptured, RackedVisited
    <2>4. Settled
      <3>1. task.capture = NoItem
        BY <2>1 DEF Typed, HandlerOK
      <3> QED
        BY <2>1, <3>1, NothingWaits
    <2>5. \A d \in online, j \in Item : progress'[d][j] = Cap => progress[d][j] = Cap
      <3>1. CASE UNCHANGED progress
        BY <3>1
      <3>2. ASSUME NEW rest \in 1..(progress[task.char][i] - 1),
                   progress' = [progress EXCEPT ![task.char][i] = rest]
            PROVE  \A d \in online, j \in Item : progress'[d][j] = Cap => progress[d][j] = Cap
        <4>1. progress[task.char][i] \in 0..Cap /\ rest # Cap
          BY <1>2, <2>1
        <4> QED
          BY <1>2, <2>1, <3>2, <4>1
      <3> QED
        BY <1>18, <3>1, <3>2 DEF Weaken
    <2> QED
      BY <2>1, <2>3, <2>4, <2>5 DEF Settled, Accounted, NothingForgotten
  <1>19. ASSUME NEW i \in Item, Recapture(i) PROVE Accounted'
    <2>1. /\ task.at = "recapturing" /\ task.capture = NoItem /\ Done(i, i)
          /\ UNCHANGED <<growth, online>>
      BY <1>19 DEF Recapture, Visits
    <2>2. /\ task'.at = "recapturing" /\ task'.char = task.char
          /\ task'.left = task.left \ {i} /\ task'.capture = i
      BY <1>2, <2>1, DoneOK
    <2>3. RewardsCaptured' /\ RackedVisited'
      BY <2>2 DEF RewardsCaptured, RackedVisited
    <2>4. NothingForgotten'
      <3> SUFFICES ASSUME NEW d \in online, NEW j \in Item
                   PROVE  /\ progress[d][j] = Cap => <<d, j>> \in attuned
                          /\ /\ <<d, j>> \in attuned
                             /\ <<AccountOf[d], j>> \notin snapshot
                             => AwaitsSnapshot(d, j)'
        BY <2>1 DEF NothingForgotten, growth
      <3>1. ~Awaits(d, j)
        BY <2>1 DEF Awaits
      <3>2. AwaitsSnapshot(d, j) => AwaitsSnapshot(d, j)'
        BY <1>2, <2>1, <2>2 DEF AwaitsSnapshot
      <3> QED
        BY <3>1, <3>2 DEF Accounted, NothingForgotten
    <2> QED
      BY <2>3, <2>4 DEF Accounted
  <1> QED
    BY <1>5, <1>6, <1>7, <1>8, <1>9, <1>10, <1>11, <1>12, <1>13, <1>14, <1>15, <1>16, <1>17,
       <1>18, <1>19
       DEF Next, HandlerStep, PlayerStep

\* While nothing fails, every item a handler has begun is accounted for.
AccountedFlawless == Clean("read") /\ Clean("write") => Accounted

LEMMA AccountedAlways == Spec => []AccountedFlawless
  <1>1. Init => AccountedFlawless
    BY DEF Init, AccountedFlawless, Accounted, NothingForgotten, RewardsCaptured,
           RackedVisited, Idle
  <1>2. Typed /\ AccountedFlawless /\ [Next]_vars => AccountedFlawless'
    <2> SUFFICES ASSUME Typed, AccountedFlawless, [Next]_vars, Clean("read")', Clean("write")'
                 PROVE  Accounted'
      BY DEF AccountedFlawless
    <2>1. CASE Next
      <3>1. Clean("read") /\ Clean("write")
        BY <2>1, FaultsGrow DEF FaultKind
      <3> QED
        BY <2>1, <3>1, AccountedStep DEF AccountedFlawless
    <2>2. CASE UNCHANGED vars
      BY <2>2 DEF AccountedFlawless, Clean, Accounted, NothingForgotten, RewardsCaptured,
                  RackedVisited, Awaits, AwaitsSnapshot, Racked, vars, shelf, growth
    <2> QED
      BY <2>1, <2>2
  <1> QED
    BY <1>1, <1>2, TypedAlways, PTL DEF Spec

\* While reads and writes work, a character that is in the world and not in a handler has
\* every complete item attuned and every attuned item captured: ap_events.lua completes at
\* login what a crash left undone.
THEOREM NothingHalfAttunedAlways == Spec => []NothingHalfAttuned
  <1>1. Typed /\ AccountedFlawless => NothingHalfAttuned
    <2> SUFFICES ASSUME Typed, AccountedFlawless, Clean("read"), Clean("write"),
                        task.at = "idle"
                 PROVE  Settled
      BY DEF NothingHalfAttuned, Settled
    <2>1. task.capture = NoItem
      BY DEF Typed, HandlerOK, Idle
    <2> QED
      BY <2>1, NothingWaits DEF AccountedFlawless
  <1> QED
    BY <1>1, TypedAlways, AccountedAlways, PTL

-----------------------------------------------------------------------------
(* One slot for each item.  The table is judged as it will be after each of   *)
(* the writes that wait, and memory holds what it will be after the last.     *)

\* The n-th write of q is to slot s of c.
Hits(q, n, c, s) == q[n].char = c /\ q[n].slot = s

\* After the first n writes of q to table t, slot s of c holds i.
Holds(t, q, c, s, n, i) ==
    \/ \E m \in 1..n : /\ Hits(q, m, c, s) /\ q[m].item = i
                       /\ \A k \in (m + 1)..n : ~Hits(q, k, c, s)
    \/ t[c][s] = i /\ \A k \in 1..n : ~Hits(q, k, c, s)

\* The login of c has read its Rack.
Loaded(c) ==
    /\ c \in online
    /\ ~(task.char = c /\ task.at \in {"migrating", "recapturing", "loading"})

TableDistinct(c) ==
    \A n \in 0..Len(queue), r, s \in Slot, i \in Item :
        Holds(rack, queue, c, r, n, i) /\ Holds(rack, queue, c, s, n, i) => r = s
MemoryDistinct(c) ==
    \A r, s \in Slot : cache[c][r] = cache[c][s] /\ r # s => cache[c][r] = NoItem
MemoryAhead(c) == Loaded(c) => \A s \in Slot : Holds(rack, queue, c, s, Len(queue), cache[c][s])

Orderly == \A c \in Char \ raced : TableDistinct(c) /\ MemoryDistinct(c) /\ MemoryAhead(c)

LEMMA HoldsOne ==
  ASSUME NEW c \in Char, NEW s \in Slot, NEW n \in Nat, NEW i, NEW j,
         Holds(rack, queue, c, s, n, i), Holds(rack, queue, c, s, n, j)
  PROVE  i = j
  <1>1. CASE rack[c][s] = i /\ \A k \in 1..n : ~Hits(queue, k, c, s)
    BY <1>1 DEF Holds
  <1>2. CASE rack[c][s] = j /\ \A k \in 1..n : ~Hits(queue, k, c, s)
    BY <1>2 DEF Holds
  <1>3. ASSUME NEW a \in 1..n, NEW b \in 1..n,
               Hits(queue, a, c, s), queue[a].item = i, \A k \in (a + 1)..n : ~Hits(queue, k, c, s),
               Hits(queue, b, c, s), queue[b].item = j, \A k \in (b + 1)..n : ~Hits(queue, k, c, s)
        PROVE  i = j
    <2>1. b \notin (a + 1)..n /\ a \notin (b + 1)..n
      BY <1>3
    <2>2. a = b
      BY <2>1
    <2> QED
      BY <1>3, <2>2
  <1> QED
    BY <1>1, <1>2, <1>3 DEF Holds

LEMMA QueueKnown ==
  ASSUME Typed
  PROVE  /\ queue \in Seq(RackWrite) /\ Len(queue) \in Nat
         /\ cache \in [Char -> [Slot -> Item \union {NoItem}]]
         /\ rack \in [Char -> [Slot -> Item \union {NoItem}]]
         /\ NoItem \notin Item /\ NoChar \notin Char /\ online \subseteq Char
         /\ raced \subseteq Char
  BY LenProperties, AttunementAssumption DEF Typed, TypeOK

\* A step that leaves the Rack alone, and finishes no login.
LEMMA SameShelf ==
  ASSUME Orderly, UNCHANGED <<rack, cache, queue>>, raced \subseteq raced',
         \A c \in Char : Loaded(c)' => Loaded(c)
  PROVE  Orderly'
  BY DEF Orderly, TableDistinct, MemoryDistinct, MemoryAhead, Holds, Hits

\* A write joins the queue and is done in memory.
LEMMA WriteOrdered ==
  ASSUME Typed, Orderly, NEW c \in Char, NEW s \in Slot, NEW i \in Item \union {NoItem},
         Write(c, s, i), i \in Item => i \notin Racked(c),
         c \in online, task.at = "idle", UNCHANGED <<rack, raced, online, task>>
  PROVE  Orderly'
  <1> DEFINE w == [char |-> c, slot |-> s, item |-> i]
             len == Len(queue)
  <1>1. /\ queue \in Seq(RackWrite) /\ w \in RackWrite /\ len \in Nat
        /\ cache \in [Char -> [Slot -> Item \union {NoItem}]] /\ NoItem \notin Item
    BY QueueKnown DEF RackWrite
  <1>2. /\ Len(queue') = len + 1 /\ queue'[len + 1] = w
        /\ \A n \in 1..len : queue'[n] = queue[n]
    BY <1>1, AppendProperties DEF Write
  <1>3. w.char = c /\ w.slot = s /\ w.item = i
    OBVIOUS
  <1> HIDE DEF w, len
  <1>4. /\ \A n \in 1..len, d \in Char, r \in Slot : Hits(queue', n, d, r) <=> Hits(queue, n, d, r)
        /\ \A d \in Char, r \in Slot : Hits(queue', len + 1, d, r) <=> d = c /\ r = s
    BY <1>2, <1>3 DEF Hits
  <1>5. ASSUME NEW d \in Char, NEW r \in Slot, NEW n \in 0..len, NEW j,
               Holds(rack', queue', d, r, n, j)
        PROVE  Holds(rack, queue, d, r, n, j)
    <2>1. \A k \in 1..n : k \in 1..len
      BY <1>1
    <2>2. \A m \in 1..n : \A k \in (m + 1)..n : k \in 1..len
      BY <1>1
    <2>3. CASE rack'[d][r] = j /\ \A k \in 1..n : ~Hits(queue', k, d, r)
      BY <1>4, <2>1, <2>3 DEF Holds
    <2>4. ASSUME NEW m \in 1..n, Hits(queue', m, d, r), queue'[m].item = j,
                 \A k \in (m + 1)..n : ~Hits(queue', k, d, r)
          PROVE  Holds(rack, queue, d, r, n, j)
      <3>1. Hits(queue, m, d, r) /\ queue[m].item = j
        BY <1>2, <1>4, <2>1, <2>4
      <3>2. \A k \in (m + 1)..n : ~Hits(queue, k, d, r)
        BY <1>4, <2>2, <2>4
      <3> QED
        BY <3>1, <3>2 DEF Holds
    <2> QED
      BY <1>5, <2>3, <2>4 DEF Holds
  <1>6. ASSUME NEW d \in Char, NEW r \in Slot, NEW j, d # c \/ r # s
        PROVE  Holds(rack', queue', d, r, len + 1, j) <=> Holds(rack, queue, d, r, len, j)
    <2>1. \A k \in 1..(len + 1) : k \in 1..len \/ k = len + 1
      BY <1>1
    <2>2. \A k \in 1..(len + 1) :
            Hits(queue', k, d, r) <=> k \in 1..len /\ Hits(queue, k, d, r)
      <3>1. ~Hits(queue', len + 1, d, r) /\ len + 1 \notin 1..len
        BY <1>1, <1>4, <1>6
      <3> QED
        BY <1>4, <2>1, <3>1
    <2>3. \A k \in 1..len : k \in 1..(len + 1)
      BY <1>1
    <2>4. \A m \in 1..len : /\ \A k \in (m + 1)..(len + 1) : k \in 1..(len + 1)
                            /\ \A k \in (m + 1)..(len + 1) : k \in 1..len => k \in (m + 1)..len
                            /\ \A k \in (m + 1)..len : k \in (m + 1)..(len + 1) /\ k \in 1..len
      BY <1>1
    <2>5. (\A k \in 1..(len + 1) : ~Hits(queue', k, d, r))
            <=> \A k \in 1..len : ~Hits(queue, k, d, r)
      BY <2>2, <2>3
    <2>6. ASSUME NEW m \in 1..len
          PROVE  (\A k \in (m + 1)..(len + 1) : ~Hits(queue', k, d, r))
                    <=> \A k \in (m + 1)..len : ~Hits(queue, k, d, r)
      BY <2>2, <2>4
    <2>7. \A m \in 1..len : /\ m \in 1..(len + 1) /\ queue'[m] = queue[m]
                            /\ Hits(queue', m, d, r) <=> Hits(queue, m, d, r)
      BY <1>2, <1>4, <2>3
    <2>8. (\E m \in 1..(len + 1) : /\ Hits(queue', m, d, r) /\ queue'[m].item = j
                                   /\ \A k \in (m + 1)..(len + 1) : ~Hits(queue', k, d, r))
          <=> \E m \in 1..len : /\ Hits(queue, m, d, r) /\ queue[m].item = j
                                /\ \A k \in (m + 1)..len : ~Hits(queue, k, d, r)
      BY <2>2, <2>6, <2>7
    <2> QED
      BY <2>5, <2>8 DEF Holds
  <1>7. \A j : Holds(rack', queue', c, s, len + 1, j) <=> j = i
    <2>1. Hits(queue', len + 1, c, s) /\ queue'[len + 1].item = i
      BY <1>2, <1>3, <1>4
    <2> QED
      BY <1>1, <2>1 DEF Holds
  <1>8. /\ cache'[c][s] = i
        /\ \A d \in Char, r \in Slot : d # c \/ r # s => cache'[d][r] = cache[d][r]
    BY <1>1 DEF Write
  <1>9. Loaded(c) /\ \A d \in Char : Loaded(d)' <=> Loaded(d)
    BY DEF Loaded
  <1> SUFFICES ASSUME NEW d \in Char \ raced
               PROVE  TableDistinct(d)' /\ MemoryDistinct(d)' /\ MemoryAhead(d)'
    BY DEF Orderly
  <1>10. TableDistinct(d) /\ MemoryDistinct(d) /\ MemoryAhead(d)
    BY DEF Orderly
  <1>11. TableDistinct(d)'
    <2> SUFFICES ASSUME NEW n \in 0..(len + 1), NEW r \in Slot, NEW q \in Slot, NEW j \in Item,
                        Holds(rack', queue', d, r, n, j), Holds(rack', queue', d, q, n, j)
                 PROVE  r = q
      BY <1>2 DEF TableDistinct
    <2>1. CASE n \in 0..len
      BY <1>5, <1>10, <2>1 DEF TableDistinct, len
    <2>2. CASE n = len + 1
      <3>1. ASSUME NEW p \in Slot, d = c, p # s, i \in Item, Holds(rack, queue, d, p, len, i)
            PROVE  FALSE
        <4>1. Holds(rack, queue, d, p, len, cache[c][p])
          BY <1>9, <1>10, <3>1 DEF MemoryAhead, len
        <4>2. cache[c][p] = i
          BY <1>1, <3>1, <4>1, HoldsOne
        <4> QED
          BY <3>1, <4>2 DEF Racked
      <3>2. CASE d = c /\ (r = s \/ q = s)
        BY <1>6, <1>7, <2>2, <3>1, <3>2
      <3>3. CASE d # c \/ (r # s /\ q # s)
        <4>1. Holds(rack, queue, d, r, len, j) /\ Holds(rack, queue, d, q, len, j)
          BY <1>6, <2>2, <3>3
        <4> QED
          BY <1>1, <1>10, <4>1 DEF TableDistinct, len
      <3> QED
        BY <3>2, <3>3
    <2> QED
      BY <1>1, <2>1, <2>2
  <1>12. MemoryDistinct(d)'
    <2> SUFFICES ASSUME NEW r \in Slot, NEW q \in Slot, cache'[d][r] = cache'[d][q], r # q
                 PROVE  cache'[d][r] = NoItem
      BY DEF MemoryDistinct
    <2>1. \A p \in Slot : i \in Item => cache[c][p] # i
      BY DEF Racked
    <2> QED
      BY <1>1, <1>8, <1>10, <2>1 DEF MemoryDistinct
  <1>13. MemoryAhead(d)'
    <2> SUFFICES ASSUME Loaded(d), NEW r \in Slot
                 PROVE  Holds(rack', queue', d, r, len + 1, cache'[d][r])
      BY <1>2, <1>9 DEF MemoryAhead
    <2>1. CASE d = c /\ r = s
      BY <1>7, <1>8, <2>1
    <2>2. CASE d # c \/ r # s
      BY <1>6, <1>8, <1>10, <2>2 DEF MemoryAhead, len
    <2> QED
      BY <2>1, <2>2
  <1> QED
    BY <1>11, <1>12, <1>13

\* The worker applies the first write, which does not fail.
LEMMA ApplyOrdered ==
  ASSUME Typed, Orderly, ApplyQueued, ~Fault("write")
  PROVE  Orderly'
  <1> DEFINE w == Head(queue)
             len == Len(queue)
  <1>1. /\ queue \in Seq(RackWrite) /\ len \in Nat /\ NoItem \notin Item
        /\ rack \in [Char -> [Slot -> Item \union {NoItem}]]
    BY QueueKnown
  <1>2. /\ queue # <<>> /\ queue' = Tail(queue) /\ UNCHANGED <<cache, raced, online, task>>
        /\ rack' = [rack EXCEPT ![w.char][w.slot] = w.item]
    BY DEF ApplyQueued
  <1>3. /\ w \in RackWrite /\ w = queue[1] /\ len >= 1 /\ Len(queue') = len - 1
        /\ \A n \in 1..(len - 1) : queue'[n] = queue[n + 1]
    BY <1>1, <1>2, HeadTailProperties, EmptySeq
  <1>4. w.char \in Char /\ w.slot \in Slot
    BY <1>3 DEF RackWrite
  <1> HIDE DEF w, len
  <1>5. \A n \in 1..(len - 1), d \in Char, r \in Slot :
          Hits(queue', n, d, r) <=> Hits(queue, n + 1, d, r)
    BY <1>3 DEF Hits
  <1>6. \A d \in Char, r \in Slot :
          rack'[d][r] = IF Hits(queue, 1, d, r) THEN queue[1].item ELSE rack[d][r]
    BY <1>1, <1>2, <1>3, <1>4 DEF Hits
  <1>7. ASSUME NEW d \in Char, NEW r \in Slot, NEW n \in 0..(len - 1), NEW j
        PROVE  Holds(rack', queue', d, r, n, j) <=> Holds(rack, queue, d, r, n + 1, j)
    <2>1. ASSUME NEW a \in 1..(n + 1)
          PROVE  (\A k \in a..n : ~Hits(queue', k, d, r))
                    <=> \A k \in (a + 1)..(n + 1) : ~Hits(queue, k, d, r)
      <3>1. \A k \in a..n : k \in 1..(len - 1) /\ k + 1 \in (a + 1)..(n + 1)
        BY <1>1
      <3>2. \A k \in (a + 1)..(n + 1) : k - 1 \in a..n /\ (k - 1) + 1 = k
        BY <1>1
      <3> QED
        BY <1>5, <3>1, <3>2
    <2>2. ASSUME NEW m \in 1..n, Hits(queue', m, d, r), queue'[m].item = j,
                 \A k \in (m + 1)..n : ~Hits(queue', k, d, r)
          PROVE  Holds(rack, queue, d, r, n + 1, j)
      <3>1. m \in 1..(len - 1) /\ m + 1 \in 1..(n + 1)
        BY <1>1
      <3>2. Hits(queue, m + 1, d, r) /\ queue[m + 1].item = j
        BY <1>3, <1>5, <2>2, <3>1
      <3>3. \A k \in ((m + 1) + 1)..(n + 1) : ~Hits(queue, k, d, r)
        BY <2>1, <2>2, <3>1
      <3> QED
        BY <3>1, <3>2, <3>3 DEF Holds
    <2>3. ASSUME rack'[d][r] = j, \A k \in 1..n : ~Hits(queue', k, d, r)
          PROVE  Holds(rack, queue, d, r, n + 1, j)
      <3>1. 1 \in 1..(n + 1)
        BY <1>1
      <3>2. \A k \in (1 + 1)..(n + 1) : ~Hits(queue, k, d, r)
        BY <2>1, <2>3, <3>1
      <3>3. CASE Hits(queue, 1, d, r)
        BY <1>6, <2>3, <3>1, <3>2, <3>3 DEF Holds
      <3>4. CASE ~Hits(queue, 1, d, r)
        <4>1. \A k \in 1..(n + 1) : k = 1 \/ k \in (1 + 1)..(n + 1)
          BY <1>1
        <4> QED
          BY <1>6, <2>3, <3>2, <3>4, <4>1 DEF Holds
      <3> QED
        BY <3>3, <3>4
    <2>4. ASSUME NEW m \in 1..(n + 1), Hits(queue, m, d, r), queue[m].item = j,
                 \A k \in (m + 1)..(n + 1) : ~Hits(queue, k, d, r)
          PROVE  Holds(rack', queue', d, r, n, j)
      <3>1. \A k \in m..n : ~Hits(queue', k, d, r)
        BY <2>1, <2>4
      <3>2. CASE m = 1
        BY <1>6, <2>4, <3>1, <3>2 DEF Holds
      <3>3. CASE m # 1
        <4>1. m - 1 \in 1..n /\ m - 1 \in 1..(len - 1) /\ (m - 1) + 1 = m
          BY <1>1, <3>3
        <4>2. Hits(queue', m - 1, d, r) /\ queue'[m - 1].item = j
          BY <1>3, <1>5, <2>4, <4>1
        <4> QED
          BY <3>1, <4>1, <4>2 DEF Holds
      <3> QED
        BY <3>2, <3>3
    <2>5. ASSUME rack[d][r] = j, \A k \in 1..(n + 1) : ~Hits(queue, k, d, r)
          PROVE  Holds(rack', queue', d, r, n, j)
      <3>1. 1 \in 1..(n + 1) /\ \A k \in (1 + 1)..(n + 1) : k \in 1..(n + 1)
        BY <1>1
      <3>2. \A k \in 1..n : ~Hits(queue', k, d, r)
        BY <2>1, <2>5, <3>1
      <3> QED
        BY <1>6, <2>5, <3>1, <3>2 DEF Holds
    <2> QED
      BY <2>2, <2>3, <2>4, <2>5 DEF Holds
  <1> SUFFICES ASSUME NEW d \in Char \ raced
               PROVE  TableDistinct(d)' /\ MemoryDistinct(d)' /\ MemoryAhead(d)'
    BY <1>2 DEF Orderly
  <1>8. TableDistinct(d) /\ MemoryDistinct(d) /\ MemoryAhead(d)
    BY DEF Orderly
  <1>9. TableDistinct(d)'
    <2> SUFFICES ASSUME NEW n \in 0..(len - 1), NEW r \in Slot, NEW q \in Slot, NEW j \in Item,
                        Holds(rack', queue', d, r, n, j), Holds(rack', queue', d, q, n, j)
                 PROVE  r = q
      BY <1>3 DEF TableDistinct
    <2>1. n + 1 \in 0..len
      BY <1>1
    <2> QED
      BY <1>7, <1>8, <2>1 DEF TableDistinct, len
  <1>10. MemoryDistinct(d)'
    BY <1>2, <1>8 DEF MemoryDistinct
  <1>11. MemoryAhead(d)'
    <2> SUFFICES ASSUME Loaded(d), NEW r \in Slot
                 PROVE  Holds(rack', queue', d, r, len - 1, cache[d][r])
      BY <1>2, <1>3 DEF MemoryAhead, Loaded
    <2>1. len - 1 \in 0..(len - 1) /\ (len - 1) + 1 = len
      BY <1>1, <1>3
    <2>2. Holds(rack, queue, d, r, len, cache[d][r])
      BY <1>8 DEF MemoryAhead, len
    <2> QED
      BY <1>7, <2>1, <2>2
  <1> QED
    BY <1>9, <1>10, <1>11

\* An item put on leaves its slot at once; no write waits for that slot, or c has raced.
LEMMA EquipOrdered ==
  ASSUME Typed, Orderly, NEW c \in Char, NEW i \in Item, Equip(c, i), i \in Racked(c),
         ~Fault("write")
  PROVE  Orderly'
  <1>1. /\ queue \in Seq(RackWrite) /\ Len(queue) \in Nat
        /\ cache \in [Char -> [Slot -> Item \union {NoItem}]]
        /\ rack \in [Char -> [Slot -> Item \union {NoItem}]]
        /\ NoItem \notin Item
    BY QueueKnown
  <1>2. PICK s \in Slot :
          /\ cache' = [cache EXCEPT ![c][s] = NoItem]
          /\ rack' = [rack EXCEPT ![c][s] = NoItem]
          /\ raced' = IF \E n \in Waiting(c) : queue[n].slot = s
                      THEN raced \union {c} ELSE raced
    BY DEF Equip
  <1>3. UNCHANGED <<queue, online, task>>
    BY DEF Equip
  <1> SUFFICES ASSUME NEW d \in Char \ raced'
               PROVE  TableDistinct(d)' /\ MemoryDistinct(d)' /\ MemoryAhead(d)'
    BY DEF Orderly
  <1>4. TableDistinct(d) /\ MemoryDistinct(d) /\ MemoryAhead(d)
    BY <1>2 DEF Orderly
  <1>5. \A r \in Slot : d # c \/ r # s =>
          rack'[d][r] = rack[d][r] /\ cache'[d][r] = cache[d][r]
    BY <1>1, <1>2
  <1>6. cache'[c][s] = NoItem /\ rack'[c][s] = NoItem
    BY <1>1, <1>2
  <1>7. d = c => \A n \in 1..Len(queue) : ~Hits(queue, n, c, s)
    BY <1>2 DEF Waiting, Hits
  <1>8. \A r \in Slot : \A n, j : d # c \/ r # s =>
          (Holds(rack', queue, d, r, n, j) <=> Holds(rack, queue, d, r, n, j))
    BY <1>5 DEF Holds
  <1>9. ASSUME d = c, NEW n \in 0..Len(queue), NEW j
        PROVE  Holds(rack', queue, c, s, n, j) <=> j = NoItem
    <2>1. \A k \in 1..n : k \in 1..Len(queue)
      BY <1>1
    <2> QED
      BY <1>6, <1>7, <1>9, <2>1 DEF Holds
  <1>10. TableDistinct(d)'
    <2> SUFFICES ASSUME NEW n \in 0..Len(queue), NEW r \in Slot, NEW q \in Slot, NEW j \in Item,
                        Holds(rack', queue, d, r, n, j), Holds(rack', queue, d, q, n, j)
                 PROVE  r = q
      BY <1>3 DEF TableDistinct
    <2>1. (d # c \/ r # s) /\ (d # c \/ q # s)
      BY <1>1, <1>9
    <2> QED
      BY <1>4, <1>8, <2>1 DEF TableDistinct
  <1>11. MemoryDistinct(d)'
    BY <1>1, <1>4, <1>5, <1>6 DEF MemoryDistinct
  <1>12. MemoryAhead(d)'
    <2> SUFFICES ASSUME Loaded(d), NEW r \in Slot
                 PROVE  Holds(rack', queue, d, r, Len(queue), cache'[d][r])
      BY <1>3 DEF MemoryAhead, Loaded
    <2>1. CASE d = c /\ r = s
      BY <1>1, <1>6, <1>9, <2>1
    <2>2. CASE d # c \/ r # s
      BY <1>4, <1>5, <1>8, <2>2 DEF MemoryAhead
    <2> QED
      BY <2>1, <2>2
  <1> QED
    BY <1>10, <1>11, <1>12

\* The login reads the Rack; no write of c waits, or c has raced.
LEMMA LoadOrdered ==
  ASSUME Typed, Orderly, Load, ~Fault("read")
  PROVE  Orderly'
  <1> DEFINE c == task.char
  <1>1. /\ c \in Char /\ c \in online /\ UNCHANGED <<rack, queue, online>> /\ task' = Idle
        /\ cache' = [cache EXCEPT ![c] = rack[c]]
        /\ raced' = IF Waiting(c) = {} THEN raced ELSE raced \union {c}
        /\ task.at = "loading"
    BY DEF Load, Typed, TypeOK
  <1>2. /\ cache \in [Char -> [Slot -> Item \union {NoItem}]] /\ Len(queue) \in Nat
        /\ rack \in [Char -> [Slot -> Item \union {NoItem}]]
    BY QueueKnown
  <1> HIDE DEF c
  <1> SUFFICES ASSUME NEW d \in Char \ raced'
               PROVE  TableDistinct(d)' /\ MemoryDistinct(d)' /\ MemoryAhead(d)'
    BY DEF Orderly
  <1>3. TableDistinct(d) /\ MemoryDistinct(d) /\ MemoryAhead(d)
    BY <1>1 DEF Orderly
  <1>4. TableDistinct(d)'
    BY <1>1, <1>3 DEF TableDistinct
  <1>5. CASE d = c
    <2>1. cache'[d] = rack[d] /\ \A n \in 1..Len(queue) : queue[n].char # d
      BY <1>1, <1>2, <1>5 DEF Waiting
    <2>2. \A r \in Slot, n \in 0..Len(queue) : Holds(rack, queue, d, r, n, rack[d][r])
      <3>1. \A n \in 0..Len(queue) : \A k \in 1..n : k \in 1..Len(queue)
        BY <1>2
      <3> QED
        BY <2>1, <3>1 DEF Holds, Hits
    <2>3. 0 \in 0..Len(queue) /\ Len(queue) \in 0..Len(queue)
      BY <1>2
    <2>4. MemoryDistinct(d)'
      <3> SUFFICES ASSUME NEW r \in Slot, NEW q \in Slot, rack[d][r] = rack[d][q], r # q,
                          rack[d][r] # NoItem
                   PROVE  FALSE
        BY <2>1 DEF MemoryDistinct
      <3>1. rack[d][r] \in Item
        BY <1>2
      <3>2. Holds(rack, queue, d, r, 0, rack[d][r]) /\ Holds(rack, queue, d, q, 0, rack[d][r])
        BY <2>2, <2>3
      <3> QED
        BY <1>3, <2>3, <3>1, <3>2 DEF TableDistinct
    <2>5. MemoryAhead(d)'
      BY <1>1, <2>1, <2>2, <2>3 DEF MemoryAhead
    <2> QED
      BY <1>4, <2>4, <2>5
  <1>6. CASE d # c
    <2>1. cache'[d] = cache[d]
      BY <1>1, <1>2, <1>6
    <2>2. Loaded(d)' => Loaded(d)
      BY <1>1, <1>6 DEF Loaded, c
    <2> QED
      BY <1>1, <1>3, <1>4, <2>1, <2>2 DEF MemoryDistinct, MemoryAhead
  <1> QED
    BY <1>5, <1>6

LEMMA CrashOrdered ==
  ASSUME Typed, Orderly, Crash
  PROVE  Orderly'
  <1>1. /\ queue' = <<>> /\ Len(queue') = 0 /\ UNCHANGED <<rack, raced>> /\ online' = {}
        /\ cache' = [d \in Char |-> Empty]
    BY EmptySeq DEF Crash
  <1>2. Len(queue) \in Nat
    BY QueueKnown
  <1> SUFFICES ASSUME NEW d \in Char \ raced
               PROVE  TableDistinct(d)' /\ MemoryDistinct(d)' /\ MemoryAhead(d)'
    BY <1>1 DEF Orderly
  <1>3. TableDistinct(d)
    BY DEF Orderly
  <1>4. TableDistinct(d)'
    <2> SUFFICES ASSUME NEW r \in Slot, NEW q \in Slot, NEW j \in Item,
                        Holds(rack, <<>>, d, r, 0, j), Holds(rack, <<>>, d, q, 0, j)
                 PROVE  r = q
      BY <1>1 DEF TableDistinct
    <2>1. \A k \in 1..0 : FALSE
      OBVIOUS
    <2>2. Holds(rack, queue, d, r, 0, j) /\ Holds(rack, queue, d, q, 0, j)
      BY <2>1 DEF Holds
    <2>3. 0 \in 0..Len(queue)
      BY <1>2
    <2> QED
      BY <1>3, <2>2, <2>3 DEF TableDistinct
  <1>5. MemoryDistinct(d)' /\ MemoryAhead(d)'
    BY <1>1 DEF MemoryDistinct, MemoryAhead, Loaded, Empty
  <1> QED
    BY <1>4, <1>5

LEMMA OrderlyStep ==
  ASSUME Typed, Orderly, Next, Clean("read")', Clean("write")'
  PROVE  Orderly'
  <1>1. ~Fault("read") /\ ~Fault("write")
    BY FaultsGrow DEF FaultKind
  <1>2. /\ task \in TaskType /\ online \subseteq Char /\ NoChar \notin Char
        /\ MaxSlots \in Nat /\ Slot \subseteq Nat /\ BaseSlots \in Slot
        /\ slots \in [Char -> Slot] /\ \A n \in Slot : 1..n \subseteq Slot
    BY AttunementAssumption DEF Typed, TypeOK, Slot
  <1>3. task.at = "idle" => task = Idle
    BY DEF Typed, HandlerOK
  <1>4. ASSUME NEW c \in Char, NEW i \in Item, AddItem(c, i) PROVE Orderly'
    <2>1. PICK size \in {slots[c], BaseSlots} : \E s \in 1..size : Write(c, s, i)
      BY <1>4 DEF AddItem
    <2>2. PICK s \in 1..size : Write(c, s, i)
      BY <2>1
    <2>3. s \in Slot
      BY <1>2, <2>1, <2>2
    <2>4. i \notin Racked(c) /\ c \in online /\ task.at = "idle"
          /\ UNCHANGED <<rack, raced, online, task>>
      BY <1>4 DEF AddItem, Accepts
    <2> QED
      BY <2>2, <2>3, <2>4, WriteOrdered
  <1>5. ASSUME NEW c \in Char, NEW s \in Slot, Write(c, s, NoItem), c \in online,
               task.at = "idle", UNCHANGED <<rack, raced, online, task>>
        PROVE  Orderly'
    <2>1. NoItem \notin Item
      BY QueueKnown
    <2> QED
      BY <1>5, <2>1, WriteOrdered
  <1>6. ASSUME NEW c \in Char, NEW s \in Slot, RemoveItem(c, s) PROVE Orderly'
    BY <1>5, <1>6 DEF RemoveItem
  <1>7. ASSUME NEW c \in Char, NEW i \in Item, Dissolve(c, i) PROVE Orderly'
    <2>1. CASE i \in Racked(c)
      BY <1>5, <1>7, <2>1 DEF Dissolve
    <2>2. CASE i \notin Racked(c)
      BY <1>7, <2>2, SameShelf DEF Dissolve, Loaded
    <2> QED
      BY <2>1, <2>2
  <1>8. ASSUME NEW c \in Char, NEW i \in Item, Equip(c, i) PROVE Orderly'
    <2>1. CASE i \in Racked(c)
      BY <1>1, <1>8, <2>1, EquipOrdered
    <2>2. CASE i \notin Racked(c)
      BY <1>8, <2>2, SameShelf DEF Equip, Loaded
    <2> QED
      BY <2>1, <2>2
  <1>9. ASSUME UNCHANGED <<rack, cache, queue, raced>>, \A c \in Char : Loaded(c)' => Loaded(c)
        PROVE  Orderly'
    BY <1>9, SameShelf
  <1>10. ASSUME NEW c \in Char, \/ Expand(c) \/ Kill(c) \/ Death(c) \/ Logout(c)
                                \/ \E i \in Item : Move(c, i) \/ Quest(c, i)
         PROVE  Orderly'
    <2>1. UNCHANGED <<rack, cache, queue, raced>> /\ task.at = "idle" /\ online' \subseteq online
      BY <1>10 DEF Expand, Kill, Death, Logout, Move, Quest, shelf
    <2>2. \A d \in Char : Loaded(d)' => Loaded(d)
      BY <2>1 DEF Loaded
    <2> QED
      BY <1>9, <2>1, <2>2
  <1>11. ASSUME NEW c \in Char, Login(c) PROVE Orderly'
    <2>1. /\ UNCHANGED <<rack, cache, queue, raced>> /\ task.at = "idle"
          /\ online' = online \union {c}
          /\ task'.char = c /\ task'.at = "migrating"
      BY <1>1, <1>11 DEF Login, BeginOrLost, Begin, shelf
    <2>2. \A d \in Char : Loaded(d)' => Loaded(d)
      BY <2>1 DEF Loaded
    <2> QED
      BY <1>9, <2>1, <2>2
  <1>12. ASSUME NEW i \in Item,
                \/ CreditWorn(i) \/ CreditRacked(i) \/ CheckAttuned(i) \/ AttuneReward(i)
                \/ Weaken(i) \/ Migrate(i) \/ Recapture(i)
         PROVE  Orderly'
    <2>1. /\ UNCHANGED <<rack, cache, queue, raced, online>>
          /\ \E capture \in {i, NoItem} : Done(i, capture)
      BY <1>12 DEF CreditWorn, CreditRacked, CheckAttuned, AttuneReward, Weaken, Migrate,
                   Recapture, shelf
    <2>2. task'.at = task.at /\ task'.char = task.char
      BY <1>2, <2>1 DEF Done, TaskType
    <2> QED
      BY <1>9, <2>1, <2>2 DEF Loaded
  <1>13. CASE Capture
    <2>1. /\ UNCHANGED <<rack, cache, queue, raced, online>>
          /\ task' = [task EXCEPT !.capture = NoItem]
      BY <1>13 DEF Capture, shelf
    <2>2. task'.at = task.at /\ task'.char = task.char
      BY <1>2, <2>1 DEF TaskType
    <2> QED
      BY <1>9, <2>1, <2>2 DEF Loaded
  <1>14. CASE NextPhase
    <2>1. UNCHANGED <<rack, cache, queue, raced, online>>
      BY <1>14 DEF NextPhase, shelf
    <2>2. \/ task.at \in {"worn", "racked", "checking", "rewarding", "weakening"}
          \/ task'.char = task.char /\ task'.at \in {"recapturing", "loading"}
      BY <1>14 DEF NextPhase, BeginOrLost, Begin
    <2> QED
      BY <1>9, <2>1, <2>2 DEF Loaded
  <1> QED
    BY <1>1, <1>4, <1>6, <1>7, <1>8, <1>10, <1>11, <1>12, <1>13, <1>14, ApplyOrdered,
       LoadOrdered, CrashOrdered
       DEF Next, HandlerStep, PlayerStep

\* While nothing fails, the Rack is orderly but for those whose writes were overtaken.
OrderlyFlawless == Clean("read") /\ Clean("write") => Orderly

LEMMA OrderlyAlways == Spec => []OrderlyFlawless
  <1>1. Init => OrderlyFlawless
    <2> SUFFICES ASSUME Init, NEW c \in Char
                 PROVE  TableDistinct(c) /\ MemoryDistinct(c) /\ MemoryAhead(c)
      BY DEF OrderlyFlawless, Orderly
    <2>1. /\ rack[c] = Empty /\ cache[c] = Empty /\ Len(queue) = 0 /\ online = {}
          /\ NoItem \notin Item
      BY EmptySeq, AttunementAssumption DEF Init
    <2>2. \A s \in Slot, i \in Item : ~Holds(rack, queue, c, s, 0, i)
      BY <2>1 DEF Holds, Empty
    <2> QED
      BY <2>1, <2>2 DEF TableDistinct, MemoryDistinct, MemoryAhead, Loaded, Empty
  <1>2. Typed /\ OrderlyFlawless /\ [Next]_vars => OrderlyFlawless'
    <2> SUFFICES ASSUME Typed, OrderlyFlawless, [Next]_vars, Clean("read")', Clean("write")'
                 PROVE  Orderly'
      BY DEF OrderlyFlawless
    <2>1. CASE Next
      <3>1. Clean("read") /\ Clean("write")
        BY <2>1, FaultsGrow DEF FaultKind
      <3> QED
        BY <2>1, <3>1, OrderlyStep DEF OrderlyFlawless
    <2>2. CASE UNCHANGED vars
      <3>1. Orderly
        BY <2>2 DEF OrderlyFlawless, Clean, vars
      <3> QED
        BY <2>2, <3>1, SameShelf DEF vars, shelf, Loaded
    <2> QED
      BY <2>1, <2>2
  <1> QED
    BY <1>1, <1>2, TypedAlways, PTL DEF Spec

\* While reads and writes work, an item has one slot of the Rack, in memory and in the
\* table, for every character whose queued writes no login and no equip has overtaken:
\* ap_rack.lua checks the memory only, and the table follows it.
THEOREM OneSlotEachAlways == Spec => []OneSlotEach
  <1>1. Typed /\ OrderlyFlawless => OneSlotEach
    <2> SUFFICES ASSUME Typed, OrderlyFlawless, Clean("read"), Clean("write"),
                        NEW c \in Char \ raced, NEW r \in Slot, NEW s \in Slot, r # s
                 PROVE  /\ cache[c][r] = cache[c][s] => cache[c][r] = NoItem
                        /\ rack[c][r] = rack[c][s] => rack[c][r] = NoItem
      BY DEF OneSlotEach
    <2>1. TableDistinct(c) /\ MemoryDistinct(c)
      BY DEF OrderlyFlawless, Orderly
    <2>2. 0 \in 0..Len(queue) /\ rack[c][r] \in Item \union {NoItem}
      BY QueueKnown
    <2>3. \A q \in Slot : Holds(rack, queue, c, q, 0, rack[c][q])
      BY DEF Holds
    <2> QED
      BY <2>1, <2>2, <2>3 DEF TableDistinct, MemoryDistinct
  <1> QED
    BY <1>1, TypedAlways, OrderlyAlways, PTL
================================================================================
