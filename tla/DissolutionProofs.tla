------------------------- MODULE DissolutionProofs -------------------------
(* Theorems about Dissolution, for any characters, items, rewards and numbers of faults. *)
EXTENDS Dissolution, FiniteSetTheorems, SequenceTheorems, TLAPS

-----------------------------------------------------------------------------
(* Updating a table of rows keyed by character and item. *)

LEMMA SetPendingType ==
  ASSUME TypeOK, NEW c \in Char, NEW i \in Item, NEW v \in Status,
         pending' = [pending EXCEPT ![c][i] = v]
  PROVE  pending' \in [Char -> [Item -> Status]]
  BY DEF TypeOK

LEMMA CharacterUpdate ==
  ASSUME NEW r \in Character, NEW n \in Nat
  PROVE  /\ [r EXCEPT !.coin = n] \in Character
         /\ [r EXCEPT !.token = n] \in Character
         /\ \A i \in Item : [r EXCEPT !.bag[i] = n] \in Character
  BY DEF Character

LEMMA FaultType ==
  ASSUME TypeOK, NEW kind \in FaultKind, Fault(kind)
  PROVE  faults' \in [FaultKind -> Nat]
  BY DEF TypeOK, Fault

LEMMA WriteLostType ==
  ASSUME TypeOK, WriteLost
  PROVE  faults' \in [FaultKind -> Nat]
  BY FaultType DEF WriteLost, FaultKind

LEMMA EnqueueType ==
  ASSUME TypeOK, NEW c \in Char, NEW state \in Character, Enqueue(c, state)
  PROVE  queued' \in QueuedType
  <1>1. queued \in QueuedType /\ queued[c] \in Seq(Character)
    BY DEF TypeOK, QueuedType
  <1>2. Append(queued[c], state) \in Seq(Character)
    BY <1>1
  <1> QED
    BY <1>1, <1>2 DEF QueuedType, Enqueue

LEMMA SaveType ==
  ASSUME TypeOK, NEW c \in Char, NEW state \in Character, SavePlayerToDB(c, state)
  PROVE  queued' \in QueuedType /\ faults' \in [FaultKind -> Nat]
  BY FaultType, EnqueueType DEF TypeOK, SavePlayerToDB, NoFault, FaultKind

LEMMA AbsentType == Absent \in Character
  BY DEF Absent, Character

\* What CreditRewards does to the balances and the rows.
LEMMA CreditEffects ==
  ASSUME CreditRewards
  PROVE  /\ aether' = [aether EXCEPT ![task.char] = aether[task.char] + Essence[task.item]]
         /\ residue' = [residue EXCEPT ![AccountOf[task.char]] =
                          residue[AccountOf[task.char]] + Residue[task.item]]
         /\ saved' = [saved EXCEPT ![task.char].coin = @ + Gold[task.item]]
         /\ credited' = [credited EXCEPT ![task.char][task.item] = @ + 1]
         /\ earned' = [earned EXCEPT ![task.char] = earned[task.char] + Gold[task.item]]
         /\ overtaken' = IF queued[task.char] = <<>> THEN overtaken
                         ELSE overtaken \union {task.char}
         /\ pending' = [pending EXCEPT ![task.char][task.item] = "COMPLETE"]
  BY DEF CreditRewards, SetRow

LEMMA TaskFacts ==
  ASSUME TypeOK, task.at # "idle"
  PROVE  task.char \in Char /\ task.char \in online
  BY DEF TypeOK

LEMMA ItemFacts ==
  ASSUME TypeOK, task.at \in ItemPoint
  PROVE  task.item \in Item /\ task.char \in Char /\ task.char \in online
  BY DEF TypeOK, ItemPoint

LEMMA GotoType ==
  ASSUME TypeOK, NEW p \in Point, Goto(p)
  PROVE  task' \in TaskType /\ task'.at = p /\ task'.char = task.char
         /\ task'.item = task.item /\ task'.via = task.via
  BY DEF TypeOK, Goto, TaskType

LEMMA IdleType == Idle \in TaskType /\ Idle.at = "idle"
  BY DEF Idle, TaskType, Point

\* What EndItem leaves: the pass at its next row, or no handler.
LEMMA EndItemType ==
  ASSUME TypeOK, task.at \in ItemPoint, EndItem
  PROVE  /\ task' \in TaskType
         /\ task'.at # "idle" => task'.char = task.char
         /\ task'.at \in {"idle", "reconciling"}
         /\ confirm' \in [Char -> Item \union {NoItem}]
  <1>1. ASSUME task.via = "login"
        PROVE  task' \in TaskType /\ task'.at = "reconciling" /\ task'.char = task.char
    <2>1. task' = [at |-> "reconciling", via |-> task.via, char |-> task.char,
                   item |-> NoItem, rows |-> task.rows \ {task.item}]
      BY <1>1 DEF EndItem, TypeOK, TaskType
    <2> QED
      BY <2>1 DEF TypeOK, TaskType, Point
  <1>2. ASSUME task.via # "login" PROVE task' = Idle
    BY <1>2 DEF EndItem
  <1>3. confirm' \in [Char -> Item \union {NoItem}]
    BY DEF EndItem, TypeOK
  <1> QED
    BY <1>1, <1>2, <1>3, IdleType

LEMMA InitType == Init => TypeOK
  <1> SUFFICES ASSUME Init PROVE TypeOK
    OBVIOUS
  <1> USE ConstantsAssumption
  <1>1. pending \in [Char -> [Item -> Status]]
    BY DEF Init, Status
  <1>2. dissolved \subseteq Account \X Item
    BY DEF Init
  <1>3. /\ saved \in [Char -> Character] /\ live \in [Char -> Character]
        /\ queued \in QueuedType
    BY AbsentType DEF Init, InitCharacter, Character, QueuedType
  <1> QED
    BY <1>1, <1>2, <1>3, IdleType DEF Init, TypeOK, ItemPoint

-----------------------------------------------------------------------------
LEMMA TypeStep == TypeOK /\ [Next]_vars => TypeOK'
  <1> SUFFICES ASSUME TypeOK, [Next]_vars PROVE TypeOK'
    OBVIOUS
  <1> USE ConstantsAssumption
  <1> USE DEF durable, volatile, history
  <1>1. ASSUME RemoveItem PROVE TypeOK'
    <2>1. task.char \in Char /\ task.item \in Item /\ task.char \in online
      BY <1>1, ItemFacts DEF RemoveItem, ItemPoint
    <2>2. removed' \in [Char -> [Item -> Nat]]
      BY <1>1, <2>1 DEF RemoveItem, TypeOK
    <2>3. live' \in [Char -> Character]
      <3>1. live[task.char] \in Character
        BY <2>1 DEF TypeOK
      <3>2. live[task.char].bag[task.item] - 1 \in Nat
        BY <1>1, <2>1, <3>1 DEF RemoveItem, Character
      <3> DEFINE state == [live[task.char] EXCEPT
                             !.bag[task.item] = live[task.char].bag[task.item] - 1]
      <3>3. state \in Character
        BY <2>1, <3>1, <3>2, CharacterUpdate
      <3>4. live' = [live EXCEPT ![task.char] = state]
        BY <1>1 DEF RemoveItem
      <3> QED
        BY <2>1, <3>3, <3>4 DEF TypeOK
    <2>4. task' \in TaskType /\ task'.at = "saving" /\ task'.char = task.char
          /\ task'.item = task.item
      BY <1>1, GotoType DEF RemoveItem, Point, ItemPoint
    <2> QED
      BY <1>1, <2>1, <2>2, <2>3, <2>4 DEF RemoveItem, TypeOK
  <1>2. ASSUME RemoveFails PROVE TypeOK'
    <2>1. task.at \in ItemPoint /\ task.char \in Char /\ task.item \in Item
          /\ task.char \in online
      BY <1>2, ItemFacts DEF RemoveFails, ItemPoint
    <2>2. pending' \in [Char -> [Item -> Status]]
      <3>1. CASE SetRow("NONE")
        BY <2>1, <3>1, SetPendingType DEF SetRow, Status
      <3>2. CASE pending' = pending
        BY <3>2 DEF TypeOK
      <3> QED
        BY <1>2, <3>1, <3>2 DEF RemoveFails
    <2>3. faults' \in [FaultKind -> Nat]
      <3>1. CASE Fault("call")
        BY <3>1, FaultType DEF FaultKind
      <3>2. ASSUME NEW lost \in {"write", "silent"},
                   faults' = [faults EXCEPT !["call"] = @ + 1, ![lost] = @ + 1]
            PROVE  faults' \in [FaultKind -> Nat]
        <4>1. faults \in [FaultKind -> Nat]
          BY DEF TypeOK
        <4> QED
          BY <3>2, <4>1 DEF FaultKind
      <3> QED
        BY <1>2, <3>1, <3>2 DEF RemoveFails
    <2> QED
      BY <1>2, <2>1, <2>2, <2>3, EndItemType DEF RemoveFails, TypeOK, ItemPoint
  <1>3. ASSUME SaveRemoval PROVE TypeOK'
    <2>1. task.char \in Char /\ task.item \in Item /\ task.char \in online
      BY <1>3, ItemFacts DEF SaveRemoval, ItemPoint
    <2>2. live[task.char] \in Character
      BY <2>1 DEF TypeOK
    <2>3. task' \in TaskType /\ task'.at = "marking" /\ task'.char = task.char
          /\ task'.item = task.item
      BY <1>3, GotoType DEF SaveRemoval, Point, ItemPoint
    <2> QED
      BY <1>3, <2>1, <2>2, <2>3, SaveType DEF SaveRemoval, TypeOK
  <1>4. ASSUME MarkRemoved PROVE TypeOK'
    <2>1. task.char \in Char /\ task.item \in Item /\ task.char \in online
      BY <1>4, ItemFacts DEF MarkRemoved, ItemPoint
    <2>2. pending' \in [Char -> [Item -> Status]]
      <3>1. CASE Row # "NONE" /\ SetRow("REMOVED")
        BY <2>1, <3>1, SetPendingType DEF SetRow, Status
      <3>2. CASE pending' = pending
        BY <3>2 DEF TypeOK
      <3> QED
        BY <1>4, <3>1, <3>2 DEF MarkRemoved
    <2>3. faults' \in [FaultKind -> Nat]
      BY <1>4, WriteLostType DEF MarkRemoved, TypeOK, NoFault
    <2>4. task' \in TaskType /\ task'.at = "preparing" /\ task'.char = task.char
          /\ task'.item = task.item
      BY <1>4, GotoType DEF MarkRemoved, Point, ItemPoint
    <2> QED
      BY <1>4, <2>1, <2>2, <2>3, <2>4 DEF MarkRemoved, TypeOK
  <1>5. ASSUME PrepareGrant PROVE TypeOK'
    <2>1. task.char \in Char /\ task.item \in Item /\ task.char \in online
      BY <1>5, ItemFacts DEF PrepareGrant, ItemPoint
    <2>2. dissolved' \subseteq Account \X Item
      BY <1>5, <2>1 DEF PrepareGrant, TypeOK
    <2>3. task' \in TaskType /\ task'.at = "crediting" /\ task'.char = task.char
          /\ task'.item = task.item
      BY <1>5, GotoType DEF PrepareGrant, Point, ItemPoint
    <2>4. faults' \in [FaultKind -> Nat]
      BY <1>5, FaultType DEF PrepareGrant, TypeOK, FaultKind, NoFault
    <2> QED
      BY <1>5, <2>1, <2>2, <2>3, <2>4 DEF PrepareGrant, TypeOK
  <1>6. ASSUME GrantDeferred PROVE TypeOK'
    <2>1. task.at \in ItemPoint /\ task.char \in online
      BY <1>6, ItemFacts DEF GrantDeferred, ItemPoint
    <2>2. faults' \in [FaultKind -> Nat]
      BY <1>6, FaultType DEF GrantDeferred, TypeOK, FaultKind, NoFault
    <2> QED
      BY <1>6, <2>1, <2>2, EndItemType DEF GrantDeferred, TypeOK, ItemPoint
  <1>7. ASSUME CreditRewards PROVE TypeOK'
    <2>1. task.at \in ItemPoint /\ task.char \in Char /\ task.item \in Item
          /\ task.char \in online
      BY <1>7, ItemFacts DEF CreditRewards, ItemPoint
    <2>2. pending' \in [Char -> [Item -> Status]]
      BY <1>7, <2>1, SetPendingType DEF CreditRewards, SetRow, Status
    <2>3. aether' \in [Char -> Nat] /\ residue' \in [Account -> Nat]
      <3>1. /\ aether' = [aether EXCEPT ![task.char] = aether[task.char] + Essence[task.item]]
            /\ residue' = [residue EXCEPT ![AccountOf[task.char]] =
                             residue[AccountOf[task.char]] + Residue[task.item]]
        BY <1>7, CreditEffects
      <3>2. /\ aether \in [Char -> Nat] /\ residue \in [Account -> Nat]
            /\ aether[task.char] + Essence[task.item] \in Nat
            /\ residue[AccountOf[task.char]] + Residue[task.item] \in Nat
        BY <2>1 DEF TypeOK
      <3> QED
        BY <3>1, <3>2
    <2>4. saved' \in [Char -> Character]
      <3>1. saved[task.char] \in Character
        BY <2>1 DEF TypeOK
      <3>2. saved[task.char].coin + Gold[task.item] \in Nat
        BY <2>1, <3>1 DEF Character
      <3> DEFINE state == [saved[task.char] EXCEPT
                             !.coin = saved[task.char].coin + Gold[task.item]]
      <3>3. state \in Character
        BY <3>1, <3>2, CharacterUpdate
      <3>4. saved' = [saved EXCEPT ![task.char] = state]
        BY <1>7 DEF CreditRewards
      <3> QED
        BY <2>1, <3>3, <3>4 DEF TypeOK
    <2>5. /\ credited' \in [Char -> [Item -> Nat]] /\ earned' \in [Char -> Nat]
          /\ overtaken' \subseteq Char
      <3>1. /\ credited' = [credited EXCEPT ![task.char][task.item] = @ + 1]
            /\ earned' = [earned EXCEPT ![task.char] = earned[task.char] + Gold[task.item]]
            /\ overtaken' \in {overtaken, overtaken \union {task.char}}
        BY <1>7, CreditEffects
      <3>2. /\ credited \in [Char -> [Item -> Nat]] /\ earned \in [Char -> Nat]
            /\ earned[task.char] + Gold[task.item] \in Nat /\ overtaken \subseteq Char
        BY <2>1 DEF TypeOK
      <3> QED
        BY <2>1, <3>1, <3>2
    <2>6. faults' \in [FaultKind -> Nat]
      BY <1>7, FaultType DEF CreditRewards, TypeOK, FaultKind, NoFault
    <2>7. CASE Goto("syncing") /\ UNCHANGED confirm
      <3>1. task' \in TaskType /\ task'.at = "syncing" /\ task'.char = task.char
            /\ task'.item = task.item
        BY <2>7, GotoType DEF Point, ItemPoint
      <3> QED
        BY <1>7, <2>1, <2>2, <2>3, <2>4, <2>5, <2>6, <2>7, <3>1 DEF CreditRewards, TypeOK
    <2>8. CASE EndItem
      BY <1>7, <2>1, <2>2, <2>3, <2>4, <2>5, <2>6, <2>8, EndItemType
      DEF CreditRewards, TypeOK, ItemPoint
    <2> QED
      BY <1>7, <2>7, <2>8 DEF CreditRewards
  <1>8. ASSUME CreditFails PROVE TypeOK'
    <2>1. task.at \in ItemPoint /\ task.char \in online
      BY <1>8, ItemFacts DEF CreditFails, ItemPoint
    <2>2. faults' \in [FaultKind -> Nat]
      BY <1>8, WriteLostType DEF CreditFails
    <2> QED
      BY <1>8, <2>1, <2>2, EndItemType DEF CreditFails, TypeOK, ItemPoint
  <1>9. ASSUME SyncRepresentations PROVE TypeOK'
    <2>1. task.at \in ItemPoint /\ task.char \in Char /\ task.item \in Item
          /\ task.char \in online
      BY <1>9, ItemFacts DEF SyncRepresentations, ItemPoint
    <2>2. PICK got, set, added, stored \in BOOLEAN :
             LET c == task.char  i == task.item
                 bad(ok) == IF ok THEN 0 ELSE 1
                 calls == bad(got) + bad(set) + bad(added)
                 state == [live[c] EXCEPT !.coin = CoinAfter(@, Gold[i], got, set),
                                          !.token = IF added THEN @ + Residue[i] ELSE @]
             IN  /\ faults["call"] + calls <= MaxFaults["call"]
                 /\ stored \/ faults["save"] < MaxFaults["save"]
                 /\ faults' = [faults EXCEPT !["call"] = @ + calls, !["save"] = @ + bad(stored)]
                 /\ live' = [live EXCEPT ![c] = state]
                 /\ IF stored THEN Enqueue(c, state) ELSE queued' = queued
      BY <1>9 DEF SyncRepresentations
    <2>3. faults' \in [FaultKind -> Nat]
      <3>1. \A n, m \in Nat : [faults EXCEPT !["call"] = n, !["save"] = m] \in [FaultKind -> Nat]
        BY DEF TypeOK, FaultKind
      <3> DEFINE bad(ok) == IF ok THEN 0 ELSE 1
      <3>2. /\ faults["call"] + (bad(got) + bad(set) + bad(added)) \in Nat
            /\ faults["save"] + bad(stored) \in Nat
        BY DEF TypeOK, FaultKind
      <3> QED
        BY <2>2, <3>1, <3>2
    <2> DEFINE state == [live[task.char] EXCEPT
                           !.coin = CoinAfter(@, Gold[task.item], got, set),
                           !.token = IF added THEN @ + Residue[task.item] ELSE @]
    <2>4. state \in Character
      <3>1. CoinAfter(live[task.char].coin, Gold[task.item], got, set) \in Nat
        BY <2>1 DEF CoinAfter, TypeOK, Character
      <3>2. live[task.char] \in Character
        BY <2>1 DEF TypeOK
      <3>3. (IF added THEN live[task.char].token + Residue[task.item]
                      ELSE live[task.char].token) \in Nat
        BY <2>1, <3>2 DEF Character
      <3> QED
        BY <3>1, <3>2, <3>3 DEF Character
    <2>5. live' \in [Char -> Character]
      BY <2>1, <2>2, <2>4 DEF TypeOK
    <2>6. IF stored THEN Enqueue(task.char, state) ELSE queued' = queued
      BY <2>2
    <2> HIDE DEF state
    <2>7. queued' \in QueuedType
      BY <2>1, <2>4, <2>6, EnqueueType DEF TypeOK
    <2> QED
      BY <1>9, <2>1, <2>3, <2>5, <2>7, EndItemType DEF SyncRepresentations, TypeOK, ItemPoint
  <1>10. ASSUME NEW i \in Item, DiscardReservation(i) PROVE TypeOK'
    <2>1. task.char \in Char /\ task.char \in online
      BY <1>10, TaskFacts DEF DiscardReservation
    <2>2. pending' \in [Char -> [Item -> Status]]
      <3>1. CASE pending' = [pending EXCEPT ![task.char][i] = "NONE"]
        BY <2>1, <3>1, SetPendingType DEF Status
      <3>2. CASE pending' = pending
        BY <3>2 DEF TypeOK
      <3> QED
        BY <1>10, <3>1, <3>2 DEF DiscardReservation
    <2>3. faults' \in [FaultKind -> Nat]
      BY <1>10, WriteLostType DEF DiscardReservation, TypeOK, NoFault
    <2>4. task' \in TaskType /\ task'.at = "reconciling" /\ task'.char = task.char
      BY <1>10 DEF DiscardReservation, TypeOK, TaskType
    <2> QED
      BY <1>10, <2>1, <2>2, <2>3, <2>4 DEF DiscardReservation, TypeOK, ItemPoint
  <1>11. ASSUME NEW i \in Item, RecoverReward(i) PROVE TypeOK'
    <2>1. task.char \in Char /\ task.char \in online
      BY <1>11, TaskFacts DEF RecoverReward
    <2>2. task' \in TaskType /\ task'.at = "preparing" /\ task'.char = task.char
          /\ task'.item = i
      BY <1>11 DEF RecoverReward, TypeOK, TaskType, Point, ItemPoint
    <2> QED
      BY <1>11, <2>1, <2>2 DEF RecoverReward, TypeOK
  <1>12. ASSUME LevelResidue PROVE TypeOK'
    <2>1. task.char \in Char
      BY <1>12, TaskFacts DEF LevelResidue
    <2> DEFINE exact == [live[task.char] EXCEPT !.token = residue[AccountOf[task.char]]]
    <2>2. exact \in Character
      <3>1. live[task.char] \in Character /\ residue[AccountOf[task.char]] \in Nat
        BY <2>1 DEF TypeOK
      <3> QED
        BY <3>1, CharacterUpdate
    <2>3. faults' \in [FaultKind -> Nat] /\ queued' \in QueuedType
      <3>1. CASE SavePlayerToDB(task.char, exact)
        BY <2>1, <2>2, <3>1, SaveType
      <3>2. CASE UNCHANGED <<live, queued, faults>>
        BY <3>2 DEF TypeOK
      <3>3. CASE Fault("read") /\ UNCHANGED <<live, queued>>
        BY <3>3, FaultType DEF TypeOK, FaultKind
      <3>4. CASE Fault("call") /\ UNCHANGED <<live, queued>>
        BY <3>4, FaultType DEF TypeOK, FaultKind
      <3> QED
        BY <1>12, <3>1, <3>2, <3>3, <3>4 DEF LevelResidue
    <2>4. live' \in [Char -> Character]
      BY <1>12, <2>1, <2>2 DEF LevelResidue, TypeOK
    <2> QED
      BY <1>12, <2>3, <2>4, IdleType DEF LevelResidue, TypeOK, ItemPoint
  <1>13. ASSUME NEW c \in Char, Login(c) PROVE TypeOK'
    <2>1. PICK rows \in {OpenRows(c), {}} :
             /\ IF rows = OpenRows(c) THEN NoFault ELSE Fault("read")
             /\ task' = [at |-> "reconciling", via |-> "login", char |-> c,
                         item |-> NoItem, rows |-> rows]
      BY <1>13 DEF Login
    <2>2. task' \in TaskType
      BY <2>1 DEF TaskType, Point, OpenRows
    <2>3. faults' \in [FaultKind -> Nat]
      BY <2>1, FaultType DEF TypeOK, FaultKind, NoFault
    <2>4. live' \in [Char -> Character]
      BY <1>13 DEF Login, TypeOK
    <2> QED
      BY <1>13, <2>1, <2>2, <2>3, <2>4 DEF Login, TypeOK, ItemPoint
  <1>14. ASSUME NEW c \in Char, Logout(c) PROVE TypeOK'
    <2>1. queued' \in QueuedType /\ faults' \in [FaultKind -> Nat]
      BY <1>14, SaveType DEF Logout, TypeOK
    <2>2. live' \in [Char -> Character]
      BY <1>14, AbsentType DEF Logout, TypeOK
    <2> QED
      BY <1>14, <2>1, <2>2 DEF Logout, TypeOK, ItemPoint
  <1>15. ASSUME NEW c \in Char, AutoSave(c) PROVE TypeOK'
    <2>1. queued' \in QueuedType
      BY <1>15, EnqueueType DEF AutoSave, TypeOK
    <2> QED
      BY <1>15, <2>1 DEF AutoSave, TypeOK
  <1>16. ASSUME NEW c \in Char, CloseConfirm(c) PROVE TypeOK'
    BY <1>16 DEF CloseConfirm, TypeOK
  <1>17. ASSUME NEW c \in Char, NEW i \in Item, ShowConfirm(c, i) PROVE TypeOK'
    BY <1>17 DEF ShowConfirm, TypeOK
  <1>18. ASSUME NEW c \in Char, NEW i \in Item, NEW via \in {"gossip", "direct"},
                Reserve(c, i, via)
         PROVE  TypeOK'
    <2> PICK ledgerLost, rowLost, unwritten \in 0..1 :
           /\ faults' = [faults EXCEPT !["read"] = @ + ledgerLost + rowLost,
                                       !["silent"] = @ + unwritten]
           /\ pending' = IF unwritten = 1 THEN pending
                         ELSE [pending EXCEPT ![c][i] = "PENDING_REMOVAL"]
      BY <1>18 DEF Reserve
    <2>1. pending' \in [Char -> [Item -> Status]]
      BY SetPendingType DEF Status, TypeOK
    <2>2. faults' \in [FaultKind -> Nat]
      <3>1. faults \in [FaultKind -> Nat]
        BY DEF TypeOK
      <3>2. \A n, m \in Nat : [faults EXCEPT !["read"] = n, !["silent"] = m] \in [FaultKind -> Nat]
        BY <3>1 DEF FaultKind
      <3>3. faults["read"] + ledgerLost + rowLost \in Nat /\ faults["silent"] + unwritten \in Nat
        BY <3>1 DEF FaultKind
      <3> QED
        BY <3>2, <3>3
    <2>3. task' \in TaskType /\ task'.at = "removing" /\ task'.char = c /\ task'.item = i
      BY <1>18 DEF Reserve, TaskType, Point, ItemPoint
    <2> QED
      BY <1>18, <2>1, <2>2, <2>3 DEF Reserve, TypeOK
  <1>19. ASSUME Crash PROVE TypeOK'
    <2>1. faults' \in [FaultKind -> Nat]
      <3>1. \A n, m \in Nat : [faults EXCEPT !["crash"] = n, !["save"] = m] \in [FaultKind -> Nat]
        BY DEF TypeOK, FaultKind
      <3>2. faults["crash"] + 1 \in Nat /\ faults["save"] \in Nat /\ faults["save"] + 1 \in Nat
        BY DEF TypeOK, FaultKind
      <3> QED
        BY <1>19, <3>1, <3>2 DEF Crash
    <2>2. queued' \in QueuedType /\ live' \in [Char -> Character]
      BY <1>19, AbsentType DEF Crash, QueuedType
    <2> QED
      BY <1>19, <2>1, <2>2, IdleType DEF Crash, TypeOK, ItemPoint
  <1>20. CASE UNCHANGED vars
    BY <1>20 DEF vars, TypeOK
  <1>21. ASSUME NEW c \in Char, ApplyQueued(c) PROVE TypeOK'
    <2>1. queued[c] \in Seq(Character) /\ queued[c] # <<>>
      BY <1>21 DEF ApplyQueued, TypeOK, QueuedType
    <2>2. Head(queued[c]) \in Character /\ Tail(queued[c]) \in Seq(Character)
      BY <2>1
    <2>3. saved' \in [Char -> Character]
      BY <1>21, <2>2 DEF ApplyQueued, TypeOK
    <2>4. queued' \in QueuedType
      BY <1>21, <2>2 DEF ApplyQueued, TypeOK, QueuedType
    <2> QED
      BY <1>21, <2>3, <2>4 DEF ApplyQueued, TypeOK
  <1> QED
    BY <1>1, <1>2, <1>3, <1>4, <1>5, <1>6, <1>7, <1>8, <1>9, <1>10, <1>11, <1>12, <1>13,
       <1>14, <1>15, <1>16, <1>17, <1>18, <1>19, <1>20, <1>21
    DEF Next, HandlerStep, PlayerStep

\* Every variable keeps its type, whatever faults and crashes happen.
THEOREM TypeCorrect == Spec => []TypeOK
  BY InitType, TypeStep, PTL DEF Spec

-----------------------------------------------------------------------------
(***************************************************************************)
(* The inductive invariant.  RewardNeedsRemoval alone is not inductive:    *)
(* between RemoveItem and MarkPendingStatus the removed item is accounted  *)
(* for by the handler only (InHand), and what the handler knows of its row *)
(* has to be part of the argument (RowOfTask).                             *)
(***************************************************************************)

InHand(c, i) ==
    IF task.at \in {"saving", "marking"} /\ task.char = c /\ task.item = i THEN 1 ELSE 0

RowOfTask ==
    /\ task.at \in {"removing", "saving", "marking"} =>
          /\ Clean("silent") => Row = "PENDING_REMOVAL"
          /\ Clean("read") => Row \notin PaymentDue
    /\ task.at = "crediting" /\ Clean("silent") =>
          <<AccountOf[task.char], task.item>> \in dissolved

Accounted ==
    \A c \in Char, i \in Item : credited[c][i] + Owed(c, i) + InHand(c, i) <= removed[c][i]

PaidOnce ==
    Clean("read") /\ Clean("silent") => \A c \in Char, i \in Item :
        credited[c][i] = 0 \/ (credited[c][i] = 1 /\ pending[c][i] = "COMPLETE")

Inv == TypeOK /\ RowOfTask /\ Accounted /\ PaidIsRecorded /\ PaidOnce

\* A fault is never forgotten.
NoneForgotten == \A kind \in FaultKind : Clean(kind)' => Clean(kind)

RowUnchanged == UNCHANGED <<pending, dissolved, credited, removed>>

LEMMA InvInit == Init => Inv
  <1> SUFFICES ASSUME Init PROVE Inv
    OBVIOUS
  <1> USE ConstantsAssumption
  <1>1. TypeOK
    BY InitType
  <1>2. task.at = "idle"
    BY DEF Init, Idle
  <1>3. \A c \in Char, i \in Item :
           /\ credited[c][i] = 0
           /\ pending[c][i] = IF <<c, i>> \in OlderBuild THEN "RECORDED" ELSE "NONE"
           /\ removed[c][i] = IF <<c, i>> \in OlderBuild THEN 1 ELSE 0
    BY DEF Init
  <1>4. RowOfTask
    BY <1>2 DEF RowOfTask
  <1>5. Accounted
    <2> SUFFICES ASSUME NEW c \in Char, NEW i \in Item
                 PROVE  credited[c][i] + Owed(c, i) + InHand(c, i) <= removed[c][i]
      BY DEF Accounted
    <2> QED
      <3>1. InHand(c, i) = 0
        BY <1>2 DEF InHand
      <3>2. Owed(c, i) = removed[c][i] /\ removed[c][i] \in 0..1
        <4>1. CASE <<c, i>> \in OlderBuild
          BY <1>3, <4>1 DEF Owed, PaymentDue
        <4>2. CASE <<c, i>> \notin OlderBuild
          BY <1>3, <4>2 DEF Owed, PaymentDue
        <4> QED
          BY <4>1, <4>2
      <3>3. credited[c][i] = 0
        BY <1>3
      <3> QED
        BY <3>1, <3>2, <3>3
  <1>6. PaidIsRecorded /\ PaidOnce
    <2> \A c \in Char, i \in Item : credited[c][i] = 0 /\ pending[c][i] # "COMPLETE"
      BY <1>3
    <2> QED
      BY DEF PaidIsRecorded, PaidOnce
  <1> QED
    BY <1>1, <1>4, <1>5, <1>6 DEF Inv

\* A step that leaves the rows alone and does not take an item in hand.
LEMMA QuietStep ==
  ASSUME Inv, TypeOK', RowUnchanged,
         NoneForgotten,
         task'.at \notin {"removing", "saving", "marking", "crediting"}
  PROVE  Inv'
  <1>1. RowOfTask'
    BY DEF RowOfTask
  <1>2. Accounted'
    <2> SUFFICES ASSUME NEW c \in Char, NEW i \in Item
                 PROVE  (credited[c][i] + Owed(c, i) + InHand(c, i) <= removed[c][i])'
      BY DEF Accounted
    <2>1. credited[c][i] + Owed(c, i) + InHand(c, i) <= removed[c][i]
      BY DEF Inv, Accounted
    <2>2. credited[c][i] \in Nat /\ removed[c][i] \in Nat
      BY DEF Inv, TypeOK
    <2>3. Owed(c, i) \in 0..1 /\ InHand(c, i) \in 0..1
      BY DEF Owed, InHand
    <2>4. Owed(c, i)' = Owed(c, i) /\ InHand(c, i)' = 0
      BY DEF Owed, InHand, RowUnchanged
    <2> QED
      BY <2>1, <2>2, <2>3, <2>4 DEF RowUnchanged
  <1>3. PaidIsRecorded'
    BY DEF Inv, PaidIsRecorded, RowUnchanged, NoneForgotten, FaultKind
  <1>4. PaidOnce'
    BY DEF Inv, PaidOnce, RowUnchanged, NoneForgotten, FaultKind
  <1> QED
    BY <1>1, <1>2, <1>3, <1>4 DEF Inv

\* The counts of faults only grow, up to their bounds.  A crash that loses queued saves
\* counts as a failed save beyond the bound of those.
FaultsBounded == \A kind \in FaultKind \ {"save"} : faults[kind] <= MaxFaults[kind]
FaultsCounted == NoneForgotten /\ (FaultsBounded => FaultsBounded')

LEMMA MoreFaults ==
  ASSUME TypeOK, NEW more \in [FaultKind -> Nat],
         \A kind \in FaultKind \ {"save"} :
            faults[kind] + more[kind] <= MaxFaults[kind] \/ more[kind] = 0,
         \A kind \in FaultKind : faults'[kind] = faults[kind] + more[kind]
  PROVE  FaultsCounted
  <1> SUFFICES ASSUME NEW kind \in FaultKind
               PROVE  /\ faults'[kind] = 0 => faults[kind] = 0
                      /\ kind # "save" /\ faults[kind] <= MaxFaults[kind]
                           => faults'[kind] <= MaxFaults[kind]
    BY DEF FaultsCounted, NoneForgotten, FaultsBounded, Clean
  <1>1. faults[kind] \in Nat /\ more[kind] \in Nat /\ MaxFaults[kind] \in Nat
    BY ConstantsAssumption DEF TypeOK
  <1>2. faults'[kind] = faults[kind] + more[kind]
    OBVIOUS
  <1> HIDE DEF FaultKind
  <1> QED
    BY <1>1, <1>2

LEMMA FaultsGrow == ASSUME TypeOK, [Next]_vars PROVE FaultsCounted
  <1>a. faults \in [FaultKind -> Nat] /\ MaxFaults \in [FaultKind -> Nat]
    BY ConstantsAssumption DEF TypeOK
  <1>1. ASSUME NEW kind \in FaultKind, Fault(kind) PROVE FaultsCounted
    <2> DEFINE more == [k \in FaultKind |-> IF k = kind THEN 1 ELSE 0]
    <2>1. \A k \in FaultKind : faults'[k] = faults[k] + more[k]
      BY <1>a, <1>1 DEF Fault
    <2>2. more \in [FaultKind -> Nat]
      OBVIOUS
    <2>3. \A k \in FaultKind \ {"save"} : faults[k] + more[k] <= MaxFaults[k] \/ more[k] = 0
      <3>1. faults[kind] + 1 <= MaxFaults[kind]
        <4>1. faults[kind] \in Nat /\ MaxFaults[kind] \in Nat
          BY <1>a
        <4>2. faults[kind] < MaxFaults[kind]
          BY <1>1 DEF Fault
        <4> QED
          BY <4>1, <4>2
      <3> QED
        BY <3>1
    <2> HIDE DEF more
    <2> QED
      BY <2>1, <2>2, <2>3, MoreFaults
  <1>2. ASSUME NoFault PROVE FaultsCounted
    BY <1>2 DEF NoFault, FaultsCounted, NoneForgotten, FaultsBounded, Clean
  <1>3. ASSUME WriteLost PROVE FaultsCounted
    BY <1>1, <1>3 DEF WriteLost, FaultKind
  <1>4. ASSUME NEW c, NEW state, SavePlayerToDB(c, state) PROVE FaultsCounted
    BY <1>1, <1>2, <1>4 DEF SavePlayerToDB, FaultKind
  <1>5. ASSUME UNCHANGED faults PROVE FaultsCounted
    BY <1>2, <1>5 DEF NoFault
  <1>6. ASSUME HandlerStep PROVE FaultsCounted
    <2>1. CASE RemoveItem BY <1>5, <2>1 DEF RemoveItem
    <2>2. CASE RemoveFails
      <3>1. CASE Fault("call") BY <1>1, <3>1 DEF FaultKind
      <3>2. ASSUME NEW lost \in {"write", "silent"},
                   \A kind \in {"call", lost} : faults[kind] < MaxFaults[kind],
                   faults' = [faults EXCEPT !["call"] = @ + 1, ![lost] = @ + 1]
            PROVE  FaultsCounted
        <4> DEFINE more == [k \in FaultKind |-> IF k \in {"call", lost} THEN 1 ELSE 0]
        <4>1. \A k \in FaultKind : faults'[k] = faults[k] + more[k]
          BY <1>a, <3>2 DEF FaultKind
        <4>2. more \in [FaultKind -> Nat]
          OBVIOUS
        <4>3. \A k \in FaultKind \ {"save"} : faults[k] + more[k] <= MaxFaults[k] \/ more[k] = 0
          <5>1. \A n, m \in Nat : n < m => n + 1 <= m
            OBVIOUS
          <5>2. \A k \in {"call", lost} : faults[k] + 1 <= MaxFaults[k]
            BY <1>a, <3>2, <5>1 DEF FaultKind
          <5> QED
            BY <5>2
        <4> HIDE DEF more
        <4> QED
          BY <4>1, <4>2, <4>3, MoreFaults
      <3> QED
        BY <2>2, <3>1, <3>2 DEF RemoveFails
    <2>3. CASE SaveRemoval BY <1>4, <2>3 DEF SaveRemoval
    <2>4. CASE MarkRemoved BY <1>2, <1>3, <2>4 DEF MarkRemoved
    <2>5. CASE PrepareGrant BY <1>1, <1>2, <2>5 DEF PrepareGrant, FaultKind
    <2>6. CASE GrantDeferred BY <1>1, <1>2, <2>6 DEF GrantDeferred, FaultKind
    <2>7. CASE CreditRewards BY <1>1, <1>2, <2>7 DEF CreditRewards, FaultKind
    <2>8. CASE CreditFails BY <1>3, <2>8 DEF CreditFails
    <2>9. CASE SyncRepresentations
      <3> DEFINE bad(ok) == IF ok THEN 0 ELSE 1
      <3>1. PICK got, set, added, stored \in BOOLEAN :
             LET c == task.char  i == task.item
                 calls == bad(got) + bad(set) + bad(added)
                 state == [live[c] EXCEPT !.coin = CoinAfter(@, Gold[i], got, set),
                                          !.token = IF added THEN @ + Residue[i] ELSE @]
             IN  /\ faults["call"] + calls <= MaxFaults["call"]
                 /\ stored \/ faults["save"] < MaxFaults["save"]
                 /\ faults' = [faults EXCEPT !["call"] = @ + calls, !["save"] = @ + bad(stored)]
                 /\ live' = [live EXCEPT ![c] = state]
                 /\ IF stored THEN Enqueue(c, state) ELSE queued' = queued
        BY <2>9 DEF SyncRepresentations
      <3> DEFINE more == [k \in FaultKind |->
                            CASE k = "call" -> bad(got) + bad(set) + bad(added)
                              [] k = "save" -> bad(stored)
                              [] OTHER -> 0]
      <3>2. \A k \in FaultKind : faults'[k] = faults[k] + more[k]
        BY <1>a, <3>1 DEF FaultKind
      <3>3. more \in [FaultKind -> Nat]
        BY DEF FaultKind
      <3>4. \A k \in FaultKind \ {"save"} : faults[k] + more[k] <= MaxFaults[k] \/ more[k] = 0
        BY <1>a, <3>1 DEF FaultKind
      <3> HIDE DEF more
      <3> QED
        BY <3>2, <3>3, <3>4, MoreFaults
    <2>10. ASSUME NEW i \in Item, DiscardReservation(i) PROVE FaultsCounted
      BY <1>2, <1>3, <2>10 DEF DiscardReservation
    <2>11. ASSUME NEW i \in Item, RecoverReward(i) PROVE FaultsCounted
      BY <1>5, <2>11 DEF RecoverReward
    <2>12. CASE LevelResidue BY <1>1, <1>4, <1>5, <2>12 DEF LevelResidue, FaultKind
    <2> QED
      BY <1>6, <2>1, <2>2, <2>3, <2>4, <2>5, <2>6, <2>7, <2>8, <2>9, <2>10, <2>11, <2>12
      DEF HandlerStep
  <1>7. ASSUME PlayerStep PROVE FaultsCounted
    <2> PICK c \in Char :
          \/ Login(c) \/ Logout(c) \/ AutoSave(c) \/ CloseConfirm(c)
          \/ \E i \in Item : \/ ShowConfirm(c, i)
                             \/ \E via \in {"gossip", "direct"} : Reserve(c, i, via)
      BY <1>7 DEF PlayerStep
    <2>1. CASE Login(c)
      BY <1>1, <1>2, <2>1 DEF Login, FaultKind
    <2>2. CASE Logout(c) BY <1>4, <2>2 DEF Logout
    <2>3. CASE AutoSave(c) BY <1>5, <2>3 DEF AutoSave
    <2>4. CASE CloseConfirm(c) BY <1>5, <2>4 DEF CloseConfirm
    <2>5. ASSUME NEW i \in Item, ShowConfirm(c, i) PROVE FaultsCounted
      BY <1>5, <2>5 DEF ShowConfirm
    <2>6. ASSUME NEW i \in Item, NEW via \in {"gossip", "direct"}, Reserve(c, i, via)
          PROVE  FaultsCounted
      <3>1. PICK ledgerLost, rowLost, unwritten \in 0..1 :
               /\ faults["read"] + ledgerLost + rowLost <= MaxFaults["read"]
               /\ faults["silent"] + unwritten <= MaxFaults["silent"]
               /\ faults' = [faults EXCEPT !["read"] = @ + ledgerLost + rowLost,
                                           !["silent"] = @ + unwritten]
        BY <2>6 DEF Reserve
      <3> DEFINE more == [k \in FaultKind |-> CASE k = "read" -> ledgerLost + rowLost
                                                [] k = "silent" -> unwritten
                                                [] OTHER -> 0]
      <3>2. \A k \in FaultKind : faults'[k] = faults[k] + more[k]
        BY <1>a, <3>1 DEF FaultKind
      <3>3. more \in [FaultKind -> Nat]
        BY DEF FaultKind
      <3>4. \A k \in FaultKind \ {"save"} : faults[k] + more[k] <= MaxFaults[k] \/ more[k] = 0
        BY <1>a, <3>1 DEF FaultKind
      <3> HIDE DEF more
      <3> QED
        BY <3>2, <3>3, <3>4, MoreFaults
    <2> QED
      BY <2>1, <2>2, <2>3, <2>4, <2>5, <2>6
  <1>8. CASE Crash
    <2> DEFINE lost == IF \A c \in Char : queued[c] = <<>> THEN 0 ELSE 1
               more == [k \in FaultKind |-> CASE k = "crash" -> 1
                                              [] k = "save" -> lost
                                              [] OTHER -> 0]
    <2>1. \A k \in FaultKind : faults'[k] = faults[k] + more[k]
      <3>1. CASE \A c \in Char : queued[c] = <<>>
        <4>1. faults' = [faults EXCEPT !["crash"] = @ + 1, !["save"] = @] /\ lost = 0
          BY <1>8, <3>1 DEF Crash
        <4> HIDE DEF lost
        <4> QED
          BY <1>a, <4>1 DEF FaultKind
      <3>2. CASE ~(\A c \in Char : queued[c] = <<>>)
        <4>1. faults' = [faults EXCEPT !["crash"] = @ + 1, !["save"] = @ + 1] /\ lost = 1
          BY <1>8, <3>2 DEF Crash
        <4> HIDE DEF lost
        <4> QED
          BY <1>a, <4>1 DEF FaultKind
      <3> QED
        BY <3>1, <3>2
    <2>2. more \in [FaultKind -> Nat]
      BY DEF FaultKind
    <2>3. \A k \in FaultKind \ {"save"} : faults[k] + more[k] <= MaxFaults[k] \/ more[k] = 0
      BY <1>a, <1>8 DEF Crash, FaultKind
    <2> HIDE DEF more
    <2> QED
      BY <2>1, <2>2, <2>3, MoreFaults
  <1>9. CASE UNCHANGED vars
    BY <1>5, <1>9 DEF vars
  <1>10. ASSUME NEW c \in Char, ApplyQueued(c) PROVE FaultsCounted
    BY <1>5, <1>10 DEF ApplyQueued
  <1> QED
    BY <1>6, <1>7, <1>8, <1>9, <1>10 DEF Next

LEMMA InvStep == Inv /\ [Next]_vars => Inv'
  <1> SUFFICES ASSUME Inv, [Next]_vars PROVE Inv'
    OBVIOUS
  <1> USE ConstantsAssumption
  <1> USE DEF durable, volatile, history
  <1>a. TypeOK /\ TypeOK' /\ NoneForgotten
    BY TypeStep, FaultsGrow DEF Inv, FaultsCounted
  <1>d. /\ Clean("read")' => Clean("read")
        /\ Clean("silent")' => Clean("silent")
    BY <1>a DEF NoneForgotten, FaultKind
  <1>b. ASSUME task.at \in ItemPoint, EndItem PROVE task'.at \in {"idle", "reconciling"}
    BY <1>a, <1>b, EndItemType
  <1>c. ASSUME task.at \in ItemPoint
        PROVE task.char \in Char /\ task.item \in Item
    BY <1>a, <1>c, ItemFacts
  <1>1. ASSUME RemoveItem PROVE Inv'
    <2>1. task.char \in Char /\ task.item \in Item
      BY <1>1, <1>c DEF RemoveItem, ItemPoint
    <2>2. task'.at = "saving" /\ task'.char = task.char /\ task'.item = task.item
      BY <1>1, <1>a, GotoType DEF RemoveItem, Point, ItemPoint
    <2>3. RowOfTask'
      BY <1>1, <2>2 DEF RemoveItem, Inv, RowOfTask, Row, Clean
    <2>4. Accounted'
      <3> SUFFICES ASSUME NEW c \in Char, NEW i \in Item
                   PROVE  (credited[c][i] + Owed(c, i) + InHand(c, i) <= removed[c][i])'
        BY DEF Accounted
      <3>1. removed'[c][i] = IF c = task.char /\ i = task.item THEN removed[c][i] + 1
                                                               ELSE removed[c][i]
        BY <1>1, <1>a, <2>1 DEF RemoveItem, TypeOK
      <3>2. credited[c][i] + Owed(c, i) <= removed[c][i]
        <4>1. credited[c][i] + Owed(c, i) + InHand(c, i) <= removed[c][i]
          BY DEF Inv, Accounted
        <4>2. InHand(c, i) = 0
          BY <1>1 DEF RemoveItem, InHand
        <4>3. credited[c][i] \in Nat /\ Owed(c, i) \in 0..1
          BY <1>a DEF TypeOK, Owed
        <4> QED
          BY <4>1, <4>2, <4>3
      <3>3. Owed(c, i)' = Owed(c, i) /\ credited'[c][i] = credited[c][i]
        BY <1>1 DEF RemoveItem, Owed
      <3>4. InHand(c, i)' = IF c = task.char /\ i = task.item THEN 1 ELSE 0
        BY <2>2 DEF InHand
      <3>5. credited[c][i] \in Nat /\ removed[c][i] \in Nat /\ Owed(c, i) \in 0..1
        BY <1>a DEF TypeOK, Owed
      <3> QED
        BY <3>1, <3>2, <3>3, <3>4, <3>5
    <2>5. PaidIsRecorded' /\ PaidOnce'
      BY <1>1, <1>d DEF RemoveItem, Inv, PaidIsRecorded, PaidOnce
    <2> QED
      BY <1>a, <2>3, <2>4, <2>5 DEF Inv
  <1>2. ASSUME RemoveFails PROVE Inv'
    <2>1. task.char \in Char /\ task.item \in Item /\ task'.at \in {"idle", "reconciling"}
      BY <1>2, <1>b, <1>c DEF RemoveFails, ItemPoint
    <2>2. CASE pending' = pending
      BY <1>2, <1>a, <2>1, <2>2, QuietStep DEF RemoveFails, RowUnchanged
    <2>3. CASE SetRow("NONE")
      <3>1. \A d \in Char, j \in Item : pending'[d][j] =
              IF d = task.char /\ j = task.item THEN "NONE" ELSE pending[d][j]
        BY <1>a, <2>1, <2>3 DEF SetRow, TypeOK
      <3>2. Clean("silent") => Row = "PENDING_REMOVAL"
        BY <1>2 DEF RemoveFails, Inv, RowOfTask
      <3>3. RowOfTask'
        BY <2>1 DEF RowOfTask
      <3>4. Accounted'
        <4> SUFFICES ASSUME NEW d \in Char, NEW j \in Item
                     PROVE  (credited[d][j] + Owed(d, j) + InHand(d, j) <= removed[d][j])'
          BY DEF Accounted
        <4>1. credited[d][j] + Owed(d, j) + InHand(d, j) <= removed[d][j]
          BY DEF Inv, Accounted
        <4>2. credited[d][j] \in Nat /\ removed[d][j] \in Nat
          BY <1>a DEF TypeOK
        <4>3. InHand(d, j)' = 0 /\ InHand(d, j) \in 0..1 /\ Owed(d, j) \in 0..1
          BY <2>1 DEF InHand, Owed
        <4>4. Owed(d, j)' \in 0..1 /\ Owed(d, j)' <= Owed(d, j)
          BY <3>1 DEF Owed, PaymentDue
        <4> QED
          BY <1>2, <4>1, <4>2, <4>3, <4>4 DEF RemoveFails
      <3>5. PaidIsRecorded'
        BY <1>2, <1>d, <3>1 DEF RemoveFails, Inv, PaidIsRecorded
      <3>6. PaidOnce'
        BY <1>2, <1>d, <3>1, <3>2 DEF RemoveFails, Inv, PaidOnce, Row
      <3> QED
        BY <1>a, <3>3, <3>4, <3>5, <3>6 DEF Inv
    <2> QED
      BY <1>2, <2>2, <2>3 DEF RemoveFails
  <1>3. ASSUME SaveRemoval PROVE Inv'
    <2>1. task'.at = "marking" /\ task'.char = task.char /\ task'.item = task.item
      BY <1>3, <1>a, GotoType DEF SaveRemoval, Point, ItemPoint
    <2>2. RowOfTask'
      BY <1>3, <1>d, <2>1 DEF SaveRemoval, Inv, RowOfTask, Row
    <2>3. Accounted'
      BY <1>3, <2>1 DEF SaveRemoval, Inv, Accounted, Owed, InHand
    <2>4. PaidIsRecorded' /\ PaidOnce'
      BY <1>3, <1>d DEF SaveRemoval, Inv, PaidIsRecorded, PaidOnce
    <2> QED
      BY <1>a, <2>2, <2>3, <2>4 DEF Inv
  <1>4. ASSUME MarkRemoved PROVE Inv'
    <2>1. task.char \in Char /\ task.item \in Item
      BY <1>4, <1>c DEF MarkRemoved, ItemPoint
    <2>2. task'.at = "preparing" /\ task'.char = task.char /\ task'.item = task.item
      BY <1>4, <1>a, GotoType DEF MarkRemoved, Point, ItemPoint
    <2>3. CASE pending' = pending
      BY <1>4, <1>a, <2>2, <2>3, QuietStep DEF MarkRemoved, RowUnchanged
    <2>4. CASE SetRow("REMOVED")
      <3>1. \A d \in Char, j \in Item : pending'[d][j] =
              IF d = task.char /\ j = task.item THEN "REMOVED" ELSE pending[d][j]
        BY <1>a, <2>1, <2>4 DEF SetRow, TypeOK
      <3>2. Clean("silent") => Row = "PENDING_REMOVAL"
        BY <1>4 DEF MarkRemoved, Inv, RowOfTask
      <3>3. RowOfTask'
        BY <2>2 DEF RowOfTask
      <3>4. Accounted'
        <4> SUFFICES ASSUME NEW c \in Char, NEW i \in Item
                     PROVE  (credited[c][i] + Owed(c, i) + InHand(c, i) <= removed[c][i])'
          BY DEF Accounted
        <4>1. credited[c][i] + Owed(c, i) + InHand(c, i) <= removed[c][i]
          BY DEF Inv, Accounted
        <4>2. credited[c][i] \in Nat /\ removed[c][i] \in Nat
          BY <1>a DEF TypeOK
        <4>3. CASE c = task.char /\ i = task.item
          BY <1>4, <2>2, <3>1, <4>1, <4>2, <4>3 DEF MarkRemoved, Owed, InHand, PaymentDue
        <4>4. CASE ~(c = task.char /\ i = task.item)
          BY <1>4, <2>2, <3>1, <4>1, <4>2, <4>4 DEF MarkRemoved, Owed, InHand
        <4> QED
          BY <4>3, <4>4
      <3>5. PaidIsRecorded'
        BY <1>4, <1>d, <3>1 DEF MarkRemoved, Inv, PaidIsRecorded
      <3>6. PaidOnce'
        BY <1>4, <1>d, <3>1, <3>2 DEF MarkRemoved, Inv, PaidOnce, Row
      <3> QED
        BY <1>a, <3>3, <3>4, <3>5, <3>6 DEF Inv
    <2> QED
      BY <1>4, <2>3, <2>4 DEF MarkRemoved
  <1>5. ASSUME PrepareGrant PROVE Inv'
    <2>1. task'.at = "crediting" /\ task'.char = task.char /\ task'.item = task.item
      BY <1>5, <1>a, GotoType DEF PrepareGrant, Point, ItemPoint
    <2>2. RowOfTask'
      <3>1. CASE dissolved' = dissolved \union {<<AccountOf[task.char], task.item>>}
        BY <2>1, <3>1 DEF RowOfTask
      <3>2. CASE Fault("silent")
        BY <1>a, <2>1, <3>2 DEF RowOfTask, Fault, Clean, TypeOK, FaultKind
      <3> QED
        BY <1>5, <3>1, <3>2 DEF PrepareGrant
    <2>3. Accounted'
      BY <1>5, <2>1 DEF PrepareGrant, Inv, Accounted, Owed, InHand
    <2>4. PaidIsRecorded' /\ PaidOnce'
      BY <1>5, <1>d DEF PrepareGrant, Inv, PaidIsRecorded, PaidOnce
    <2> QED
      BY <1>a, <2>2, <2>3, <2>4 DEF Inv
  <1>6. ASSUME GrantDeferred PROVE Inv'
    <2>1. task'.at \in {"idle", "reconciling"}
      BY <1>6, <1>b DEF GrantDeferred, ItemPoint
    <2> QED
      BY <1>6, <1>a, <2>1, QuietStep DEF GrantDeferred, RowUnchanged
  <1>7. ASSUME CreditRewards PROVE Inv'
    <2>1. task.char \in Char /\ task.item \in Item
      BY <1>7, <1>c DEF CreditRewards, ItemPoint
    <2>2. task'.at \in {"idle", "reconciling", "syncing"}
      BY <1>7, <1>a, <1>b, GotoType DEF CreditRewards, Point, ItemPoint
    <2>3. \A d \in Char, j \in Item :
            /\ pending'[d][j] = IF d = task.char /\ j = task.item THEN "COMPLETE"
                                                                  ELSE pending[d][j]
            /\ credited'[d][j] = IF d = task.char /\ j = task.item THEN credited[d][j] + 1
                                                                   ELSE credited[d][j]
      <3>1. /\ pending' = [pending EXCEPT ![task.char][task.item] = "COMPLETE"]
            /\ credited' = [credited EXCEPT ![task.char][task.item] = @ + 1]
        BY <1>7, CreditEffects
      <3>2. pending \in [Char -> [Item -> Status]] /\ credited \in [Char -> [Item -> Nat]]
        BY <1>a DEF TypeOK
      <3> QED
        BY <2>1, <3>1, <3>2
    <2>4. Row \in {"REMOVED", "RECORDED"}
      BY <1>7 DEF CreditRewards, Recoverable
    <2>5. RowOfTask'
      BY <2>2 DEF RowOfTask
    <2>6. Accounted'
      <3> SUFFICES ASSUME NEW c \in Char, NEW i \in Item
                   PROVE  (credited[c][i] + Owed(c, i) + InHand(c, i) <= removed[c][i])'
        BY DEF Accounted
      <3>1. credited[c][i] + Owed(c, i) + InHand(c, i) <= removed[c][i]
        BY DEF Inv, Accounted
      <3>2. credited[c][i] \in Nat /\ removed[c][i] \in Nat
        BY <1>a DEF TypeOK
      <3> QED
        BY <1>7, <2>2, <2>3, <2>4, <3>1, <3>2 DEF CreditRewards, Owed, InHand, PaymentDue, Row
    <2>7. PaidIsRecorded'
      <3> SUFFICES ASSUME Clean("silent")', NEW c \in Char, NEW i \in Item,
                          credited'[c][i] > 0 \/ pending'[c][i] = "COMPLETE"
                   PROVE  <<AccountOf[c], i>> \in dissolved'
        BY DEF PaidIsRecorded
      <3>1. dissolved' = dissolved
        BY <1>7 DEF CreditRewards
      <3>2. CASE c = task.char /\ i = task.item
        BY <1>7, <1>d, <3>1, <3>2 DEF CreditRewards, Inv, RowOfTask
      <3>3. CASE ~(c = task.char /\ i = task.item)
        BY <1>d, <2>3, <3>1, <3>3 DEF Inv, PaidIsRecorded
      <3> QED
        BY <3>2, <3>3
    <2>8. PaidOnce'
      <3> SUFFICES ASSUME Clean("read")', Clean("silent")', NEW c \in Char, NEW i \in Item
                   PROVE  credited'[c][i] = 0 \/ (credited'[c][i] = 1 /\ pending'[c][i] = "COMPLETE")
        BY DEF PaidOnce
      <3>1. credited[c][i] = 0 \/ (credited[c][i] = 1 /\ pending[c][i] = "COMPLETE")
        BY <1>d DEF Inv, PaidOnce
      <3>2. CASE c = task.char /\ i = task.item
        BY <2>3, <2>4, <3>1, <3>2 DEF Row
      <3>3. CASE ~(c = task.char /\ i = task.item)
        BY <2>3, <3>1, <3>3
      <3> QED
        BY <3>2, <3>3
    <2> QED
      BY <1>a, <2>5, <2>6, <2>7, <2>8 DEF Inv
  <1>8. ASSUME CreditFails PROVE Inv'
    <2>1. task'.at \in {"idle", "reconciling"}
      BY <1>8, <1>b DEF CreditFails, ItemPoint
    <2> QED
      BY <1>8, <1>a, <2>1, QuietStep DEF CreditFails, RowUnchanged
  <1>9. ASSUME SyncRepresentations PROVE Inv'
    <2>1. task'.at \in {"idle", "reconciling"}
      BY <1>9, <1>b DEF SyncRepresentations, ItemPoint
    <2> QED
      BY <1>9, <1>a, <2>1, QuietStep DEF SyncRepresentations, RowUnchanged
  <1>10. ASSUME NEW i \in Item, DiscardReservation(i) PROVE Inv'
    <2>1. task.char \in Char /\ task'.at = "reconciling"
      BY <1>10, <1>a, TaskFacts DEF DiscardReservation, TypeOK, TaskType
    <2>2. CASE pending' = pending
      BY <1>10, <1>a, <2>1, <2>2, QuietStep DEF DiscardReservation, RowUnchanged
    <2>3. CASE pending' = [pending EXCEPT ![task.char][i] = "NONE"]
      <3>1. \A d \in Char, j \in Item : pending'[d][j] =
              IF d = task.char /\ j = i THEN "NONE" ELSE pending[d][j]
        BY <1>a, <2>1, <2>3 DEF TypeOK
      <3>2. RowOfTask'
        BY <2>1 DEF RowOfTask
      <3>3. Accounted'
        BY <1>10, <2>1, <3>1 DEF DiscardReservation, Inv, Accounted, Owed, InHand, PaymentDue
      <3>4. PaidIsRecorded'
        BY <1>10, <1>d, <3>1 DEF DiscardReservation, Inv, PaidIsRecorded
      <3>5. PaidOnce'
        <4> SUFFICES ASSUME Clean("read")', Clean("silent")', NEW d \in Char, NEW j \in Item
                     PROVE  credited'[d][j] = 0 \/ (credited'[d][j] = 1 /\ pending'[d][j] = "COMPLETE")
          BY DEF PaidOnce
        <4>1. credited[d][j] = 0 \/ (credited[d][j] = 1 /\ pending[d][j] = "COMPLETE")
          BY <1>d DEF Inv, PaidOnce
        <4> QED
          BY <1>10, <3>1, <4>1 DEF DiscardReservation
      <3> QED
        BY <1>a, <3>2, <3>3, <3>4, <3>5 DEF Inv
    <2> QED
      BY <1>10, <2>2, <2>3 DEF DiscardReservation
  <1>11. ASSUME NEW i \in Item, RecoverReward(i) PROVE Inv'
    <2>1. task'.at = "preparing"
      BY <1>11, <1>a DEF RecoverReward, TypeOK, TaskType
    <2> QED
      BY <1>11, <1>a, <2>1, QuietStep DEF RecoverReward, RowUnchanged
  <1>12. ASSUME LevelResidue PROVE Inv'
    BY <1>12, <1>a, IdleType, QuietStep DEF LevelResidue, RowUnchanged
  <1>13. ASSUME NEW c \in Char, Login(c) PROVE Inv'
    <2>1. task'.at = "reconciling"
      BY <1>13 DEF Login
    <2> QED
      BY <1>13, <1>a, <2>1, QuietStep DEF Login, RowUnchanged
  <1>14. ASSUME NEW c \in Char, Logout(c) PROVE Inv'
    BY <1>14, <1>a, QuietStep DEF Logout, RowUnchanged
  <1>15. ASSUME NEW c \in Char, AutoSave(c) PROVE Inv'
    BY <1>15, <1>a, QuietStep DEF AutoSave, RowUnchanged
  <1>16. ASSUME NEW c \in Char, CloseConfirm(c) PROVE Inv'
    BY <1>16, <1>a, QuietStep DEF CloseConfirm, RowUnchanged
  <1>17. ASSUME NEW c \in Char, NEW i \in Item, ShowConfirm(c, i) PROVE Inv'
    BY <1>17, <1>a, QuietStep DEF ShowConfirm, RowUnchanged
  <1>18. ASSUME NEW c \in Char, NEW i \in Item, NEW via \in {"gossip", "direct"},
                Reserve(c, i, via)
         PROVE  Inv'
    <2>1. task'.at = "removing" /\ task'.char = c /\ task'.item = i
      BY <1>18 DEF Reserve
    <2>2. PICK ledgerLost, rowLost, unwritten \in 0..1 :
             /\ PassesGuards(c, i, ledgerLost, rowLost)
             /\ faults' = [faults EXCEPT !["read"] = @ + ledgerLost + rowLost,
                                         !["silent"] = @ + unwritten]
             /\ pending' = IF unwritten = 1 THEN pending
                           ELSE [pending EXCEPT ![c][i] = "PENDING_REMOVAL"]
      BY <1>18 DEF Reserve
    <2>3. \A d \in Char, j \in Item : pending'[d][j] =
            IF d = c /\ j = i /\ unwritten = 0 THEN "PENDING_REMOVAL" ELSE pending[d][j]
      BY <1>a, <2>2 DEF TypeOK
    <2>4. /\ Clean("silent")' => unwritten = 0
          /\ Clean("read")' => ledgerLost = 0 /\ rowLost = 0
      <3>1. \A n \in Nat, a, b \in 0..1 : n + a + b = 0 => a = 0 /\ b = 0
        OBVIOUS
      <3>2. \A n \in Nat, a \in 0..1 : n + a = 0 => a = 0
        OBVIOUS
      <3>3. faults["read"] \in Nat /\ faults["silent"] \in Nat
        BY <1>a DEF TypeOK, FaultKind
      <3>4. /\ faults'["read"] = faults["read"] + ledgerLost + rowLost
            /\ faults'["silent"] = faults["silent"] + unwritten
        BY <1>a, <2>2 DEF TypeOK, FaultKind
      <3> QED
        BY <3>1, <3>2, <3>3, <3>4 DEF Clean
    <2>5. Clean("read")' => pending[c][i] \in Reservable /\ <<AccountOf[c], i>> \notin dissolved
      BY <2>2, <2>4 DEF PassesGuards
    <2>6. RowOfTask'
      <3>1. Clean("silent")' => Row' = "PENDING_REMOVAL"
        BY <2>1, <2>3, <2>4 DEF Row
      <3>2. Clean("read")' => Row' \notin PaymentDue
        BY <2>1, <2>3, <2>5 DEF Row, Reservable, PaymentDue
      <3> QED
        BY <2>1, <3>1, <3>2 DEF RowOfTask, PaymentDue
    <2>7. Accounted'
      <3> SUFFICES ASSUME NEW d \in Char, NEW j \in Item
                   PROVE  (credited[d][j] + Owed(d, j) + InHand(d, j) <= removed[d][j])'
        BY DEF Accounted
      <3>1. credited[d][j] + Owed(d, j) + InHand(d, j) <= removed[d][j]
        BY DEF Inv, Accounted
      <3>2. credited[d][j] \in Nat /\ removed[d][j] \in Nat
        BY <1>a DEF TypeOK
      <3>3. InHand(d, j) = 0 /\ InHand(d, j)' = 0
        BY <1>18, <2>1 DEF Reserve, InHand
      <3>4. Owed(d, j) \in 0..1 /\ Owed(d, j)' \in 0..1 /\ Owed(d, j)' <= Owed(d, j)
        BY <2>3 DEF Owed, PaymentDue
      <3> QED
        BY <1>18, <3>1, <3>2, <3>3, <3>4 DEF Reserve
    <2>8. PaidIsRecorded'
      BY <1>18, <1>d, <2>3 DEF Reserve, Inv, PaidIsRecorded
    <2>9. PaidOnce'
      BY <1>18, <1>d, <2>3, <2>5 DEF Reserve, Inv, PaidIsRecorded, PaidOnce
    <2> QED
      BY <1>a, <2>6, <2>7, <2>8, <2>9 DEF Inv
  <1>19. ASSUME Crash PROVE Inv'
    BY <1>19, <1>a, IdleType, QuietStep DEF Crash, RowUnchanged
  <1>20. ASSUME UNCHANGED <<pending, dissolved, credited, removed, faults, task>> PROVE Inv'
    BY <1>20, <1>a DEF Inv, RowOfTask, Accounted, PaidIsRecorded, PaidOnce, Owed, InHand,
       Row, Clean
  <1>21. CASE UNCHANGED vars
    BY <1>20, <1>21 DEF vars
  <1>22. ASSUME NEW c \in Char, ApplyQueued(c) PROVE Inv'
    BY <1>20, <1>22 DEF ApplyQueued
  <1> QED
    BY <1>1, <1>2, <1>3, <1>4, <1>5, <1>6, <1>7, <1>8, <1>9, <1>10, <1>11, <1>12, <1>13,
       <1>14, <1>15, <1>16, <1>17, <1>18, <1>19, <1>21, <1>22
    DEF Next, HandlerStep, PlayerStep

LEMMA InvAlways == Spec => []Inv
  BY InvInit, InvStep, PTL DEF Spec

\* No fault or crash creates value: payments and payments due never outnumber removals.
THEOREM RewardNeedsRemovalAlways == Spec => []RewardNeedsRemoval
  <1>1. Inv => RewardNeedsRemoval
    <2> SUFFICES ASSUME Inv, NEW c \in Char, NEW i \in Item
                 PROVE  credited[c][i] + Owed(c, i) <= removed[c][i]
      BY DEF RewardNeedsRemoval
    <2>1. credited[c][i] + Owed(c, i) + InHand(c, i) <= removed[c][i]
      BY DEF Inv, Accounted
    <2>2. credited[c][i] \in Nat /\ removed[c][i] \in Nat
      BY DEF Inv, TypeOK
    <2>3. Owed(c, i) \in 0..1 /\ InHand(c, i) \in 0..1
      BY DEF Owed, InHand
    <2> QED
      BY <2>1, <2>2, <2>3
  <1> QED
    BY <1>1, InvAlways, PTL

\* Whatever was paid for is in the permanent ledger of the account, unless a write was
\* lost silently.
THEOREM PaidIsRecordedAlways == Spec => []PaidIsRecorded
  <1>1. Inv => PaidIsRecorded
    BY DEF Inv
  <1> QED
    BY <1>1, InvAlways, PTL

\* Unless a guard read failed or a write was lost silently, a character is paid at most
\* once for an item.
THEOREM OncePerCharacterAlways == Spec => []OncePerCharacter
  <1>1. Inv => OncePerCharacter
    BY DEF Inv, PaidOnce, OncePerCharacter
  <1> QED
    BY <1>1, InvAlways, PTL

-----------------------------------------------------------------------------
(* What a step does to the rows and the two balances, whoever takes it. *)

\* The row is one that the step may take over or drop.
Free(c, i) ==
    /\ Clean("read") => pending[c][i] \notin PaymentDue
    /\ Clean("read") /\ Clean("silent") => pending[c][i] \in {"NONE", "PENDING_REMOVAL"}

Reserves(c, i) ==
    /\ Clean("read")' => pending[c][i] \notin PaymentDue
    /\ Clean("read")' /\ Clean("silent")' => pending[c][i] = "NONE"
    /\ pending' = [pending EXCEPT ![c][i] = "PENDING_REMOVAL"]
    /\ UNCHANGED <<aether, residue>>

Releases(c, i) ==
    /\ Free(c, i)
    /\ pending' = [pending EXCEPT ![c][i] = "NONE"]
    /\ UNCHANGED <<aether, residue>>

Escrows(c, i) ==
    /\ Free(c, i)
    /\ pending' = [pending EXCEPT ![c][i] = "REMOVED"]
    /\ UNCHANGED <<aether, residue>>

Pays(c, i) ==
    /\ pending[c][i] \in PaymentDue
    /\ pending' = [pending EXCEPT ![c][i] = "COMPLETE"]
    /\ aether' = [aether EXCEPT ![c] = @ + Essence[i]]
    /\ residue' = [residue EXCEPT ![AccountOf[c]] = @ + Residue[i]]

LEMMA RowSteps ==
  ASSUME Inv, [Next]_vars
  PROVE  \/ UNCHANGED <<pending, aether, residue>>
         \/ \E c \in Char, i \in Item :
               Reserves(c, i) \/ Releases(c, i) \/ Escrows(c, i) \/ Pays(c, i)
  <1> DEFINE Moved == \E c \in Char, i \in Item :
                         Reserves(c, i) \/ Releases(c, i) \/ Escrows(c, i) \/ Pays(c, i)
             Still == UNCHANGED <<pending, aether, residue>>
  <1> SUFFICES Still \/ Moved
    OBVIOUS
  <1> HIDE DEF Moved, Still
  <1> USE DEF durable
  <1>a. TypeOK
    BY DEF Inv
  <1>b. ASSUME task.at \in ItemPoint
        PROVE task.char \in Char /\ task.item \in Item
    BY <1>a, <1>b, ItemFacts
  <1>1. CASE RemoveFails
    <2>1. task.char \in Char /\ task.item \in Item /\ Free(task.char, task.item)
      BY <1>1, <1>b DEF RemoveFails, ItemPoint, Inv, RowOfTask, Free, Row
    <2>2. CASE pending' = pending
      BY <1>1, <2>2 DEF RemoveFails, Still
    <2>3. CASE SetRow("NONE")
      <3>1. Releases(task.char, task.item)
        BY <1>1, <2>1, <2>3 DEF RemoveFails, Releases, SetRow
      <3> QED
        BY <2>1, <3>1 DEF Moved
    <2> QED
      BY <1>1, <2>2, <2>3 DEF RemoveFails
  <1>2. CASE MarkRemoved
    <2>1. task.char \in Char /\ task.item \in Item /\ Free(task.char, task.item)
      BY <1>2, <1>b DEF MarkRemoved, ItemPoint, Inv, RowOfTask, Free, Row
    <2>2. CASE pending' = pending
      BY <1>2, <2>2 DEF MarkRemoved, Still
    <2>3. CASE SetRow("REMOVED")
      <3>1. Escrows(task.char, task.item)
        BY <1>2, <2>1, <2>3 DEF MarkRemoved, Escrows, SetRow
      <3> QED
        BY <2>1, <3>1 DEF Moved
    <2> QED
      BY <1>2, <2>2, <2>3 DEF MarkRemoved
  <1>3. CASE CreditRewards
    <2>1. task.char \in Char /\ task.item \in Item
      BY <1>3, <1>b DEF CreditRewards, ItemPoint
    <2>2. Pays(task.char, task.item)
      BY <1>3 DEF CreditRewards, Pays, SetRow, Row, Recoverable, PaymentDue
    <2> QED
      BY <2>1, <2>2 DEF Moved
  <1>4. ASSUME NEW i \in Item, DiscardReservation(i) PROVE Still \/ Moved
    <2>1. task.char \in Char
      BY <1>4, <1>a, TaskFacts DEF DiscardReservation
    <2>2. CASE pending' = pending
      BY <1>4, <2>2 DEF DiscardReservation, Still
    <2>3. CASE pending' = [pending EXCEPT ![task.char][i] = "NONE"]
      <3>1. Releases(task.char, i)
        BY <1>4, <2>3 DEF DiscardReservation, Releases, Free, PaymentDue
      <3> QED
        BY <2>1, <3>1 DEF Moved
    <2> QED
      BY <1>4, <2>2, <2>3 DEF DiscardReservation
  <1>5. ASSUME NEW c \in Char, NEW i \in Item, NEW via \in {"gossip", "direct"},
               Reserve(c, i, via)
        PROVE  Still \/ Moved
    <2>1. PICK ledgerLost, rowLost, unwritten \in 0..1 :
             /\ PassesGuards(c, i, ledgerLost, rowLost)
             /\ faults' = [faults EXCEPT !["read"] = @ + ledgerLost + rowLost,
                                         !["silent"] = @ + unwritten]
             /\ pending' = IF unwritten = 1 THEN pending
                           ELSE [pending EXCEPT ![c][i] = "PENDING_REMOVAL"]
      BY <1>5 DEF Reserve
    <2>2. CASE pending' = pending
      BY <1>5, <2>2 DEF Reserve, Still
    <2>3. CASE pending' = [pending EXCEPT ![c][i] = "PENDING_REMOVAL"]
      <3>1. Clean("read")' => /\ pending[c][i] \in Reservable
                              /\ <<AccountOf[c], i>> \notin dissolved
        <4> SUFFICES ASSUME Clean("read")'
                     PROVE  pending[c][i] \in Reservable /\ <<AccountOf[c], i>> \notin dissolved
          OBVIOUS
        <4>1. faults["read"] \in Nat /\ faults'["read"] = faults["read"] + ledgerLost + rowLost
          BY <1>a, <2>1 DEF TypeOK, FaultKind
        <4>2. \A f \in Nat, a, b \in 0..1 : f + a + b = 0 => a = 0 /\ b = 0
          OBVIOUS
        <4>3. ledgerLost = 0 /\ rowLost = 0
          BY <4>1, <4>2 DEF Clean
        <4> QED
          BY <2>1, <4>3 DEF PassesGuards
      <3>2. Clean("silent")' => Clean("silent")
        BY <1>a, FaultsGrow DEF FaultsCounted, NoneForgotten, FaultKind
      <3>3. Reserves(c, i)
        BY <1>5, <2>3, <3>1, <3>2
        DEF Reserve, Reserves, Reservable, PaymentDue, Inv, PaidIsRecorded
      <3> QED
        BY <3>3 DEF Moved
    <2> QED
      BY <2>1, <2>2, <2>3
  <1>6. CASE UNCHANGED vars
    BY <1>6 DEF vars, Still
  <1>7. ASSUME \/ RemoveItem \/ SaveRemoval \/ PrepareGrant \/ GrantDeferred \/ CreditFails
               \/ SyncRepresentations \/ LevelResidue \/ Crash
               \/ \E i \in Item : RecoverReward(i)
        PROVE  Still
    BY <1>7 DEF Still, RemoveItem, SaveRemoval, PrepareGrant, GrantDeferred, CreditFails,
       SyncRepresentations, LevelResidue, Crash, RecoverReward
  <1>8. ASSUME NEW c \in Char,
               \/ Login(c) \/ Logout(c) \/ AutoSave(c) \/ CloseConfirm(c)
               \/ \E i \in Item : ShowConfirm(c, i)
               \/ ApplyQueued(c)
        PROVE  Still
    BY <1>8 DEF Still, Login, Logout, AutoSave, CloseConfirm, ShowConfirm, ApplyQueued
  <1> QED
    BY <1>1, <1>2, <1>3, <1>4, <1>5, <1>6, <1>7, <1>8 DEF Next, HandlerStep, PlayerStep

\* A row that owes a payment stays until it is paid, unless a guard read failed.
THEOREM EscrowNeverDroppedAlways == Spec => EscrowNeverDropped
  <1> DEFINE Kept == Clean("read")' => \A c \in Char, i \in Item :
                        pending[c][i] \in PaymentDue =>
                          pending'[c][i] \in {pending[c][i], "COMPLETE"}
  <1>1. Inv /\ [Next]_vars => [Kept]_vars
    <2> SUFFICES ASSUME Inv, [Next]_vars, Clean("read")',
                        NEW c \in Char, NEW i \in Item, pending[c][i] \in PaymentDue
                 PROVE  pending'[c][i] \in {pending[c][i], "COMPLETE"}
      OBVIOUS
    <2>1. CASE UNCHANGED <<pending, aether, residue>>
      BY <2>1
    <2>2. ASSUME NEW d \in Char, NEW j \in Item,
                 Reserves(d, j) \/ Releases(d, j) \/ Escrows(d, j)
          PROVE  pending'[c][i] = pending[c][i]
      <3>1. pending[d][j] \notin PaymentDue
        <4>1. Clean("read")
          BY FaultsGrow DEF Inv, FaultsCounted, NoneForgotten, FaultKind
        <4> QED
          BY <2>2, <4>1 DEF Reserves, Releases, Escrows, Free
      <3>2. PICK v : pending' = [pending EXCEPT ![d][j] = v]
        BY <2>2 DEF Reserves, Releases, Escrows
      <3> QED
        BY <3>1, <3>2 DEF Inv, TypeOK
    <2>3. ASSUME NEW d \in Char, NEW j \in Item, Pays(d, j)
          PROVE  pending'[c][i] \in {pending[c][i], "COMPLETE"}
      BY <2>3 DEF Pays, Inv, TypeOK
    <2> QED
      BY RowSteps, <2>1, <2>2, <2>3
  <1> QED
    BY <1>1, InvAlways, PTL DEF Spec, EscrowNeverDropped

-----------------------------------------------------------------------------
(* Refinement: while no read fails and no write is lost silently, the rows implement the *)
(* escrow.                                                                                *)

LEMMA FaultsBoundedAlways == Spec => [](TypeOK /\ FaultsBounded)
  <1>1. Init => TypeOK /\ FaultsBounded
    BY InitType, ConstantsAssumption DEF Init, FaultsBounded
  <1>2. TypeOK /\ FaultsBounded /\ [Next]_vars => (TypeOK /\ FaultsBounded)'
    BY TypeStep, FaultsGrow DEF FaultsCounted
  <1> QED
    BY <1>1, <1>2, PTL DEF Spec

LEMMA EscrowInit == Init => Escrow!Init
  BY ConstantsAssumption DEF Init, Escrow!Init, StageOf, PaymentDue

LEMMA EscrowStep ==
  ASSUME Inv, [Next]_vars, Clean("read")', Clean("silent")'
  PROVE  [Escrow!Next]_(Escrow!vars)
  <1> DEFINE Stage == [c \in Char |-> [i \in Item |-> StageOf(pending[c][i])]]
  <1>a. TypeOK
    BY DEF Inv
  <1>b. Clean("read") /\ Clean("silent")
    BY <1>a, FaultsGrow DEF FaultsCounted, NoneForgotten, FaultKind
  <1>1. CASE UNCHANGED <<pending, aether, residue>>
    BY <1>1 DEF Escrow!vars
  <1>2. ASSUME NEW c \in Char, NEW i \in Item, Reserves(c, i) \/ Releases(c, i)
        PROVE  UNCHANGED Escrow!vars
    <2>1. PICK v \in {"NONE", "PENDING_REMOVAL"} : pending' = [pending EXCEPT ![c][i] = v]
      BY <1>2 DEF Reserves, Releases
    <2>2. pending[c][i] \in {"NONE", "PENDING_REMOVAL"}
      BY <1>2, <1>b DEF Reserves, Releases, Free
    <2>3. \A d \in Char, j \in Item : StageOf(pending'[d][j]) = StageOf(pending[d][j])
      BY <1>a, <2>1, <2>2 DEF TypeOK, StageOf, PaymentDue
    <2>4. Stage' = Stage
      BY <2>3
    <2> QED
      BY <1>2, <2>4 DEF Reserves, Releases, Escrow!vars
  <1>3. ASSUME NEW c \in Char, NEW i \in Item, Escrows(c, i)
        PROVE  Escrow!Deposit(c, i)
    <2>1. Stage[c][i] = "held"
      BY <1>3, <1>b DEF Escrows, Free, StageOf, PaymentDue
    <2>2. \A d \in Char, j \in Item : StageOf(pending'[d][j]) =
             IF d = c /\ j = i THEN "escrowed" ELSE StageOf(pending[d][j])
      BY <1>a, <1>3 DEF TypeOK, Escrows, StageOf, PaymentDue
    <2>3. Stage' = [Stage EXCEPT ![c][i] = "escrowed"]
      BY <2>2
    <2> QED
      BY <1>3, <2>1, <2>3 DEF Escrows, Escrow!Deposit
  <1>4. ASSUME NEW c \in Char, NEW i \in Item, Pays(c, i)
        PROVE  Escrow!Pay(c, i)
    <2>1. Stage[c][i] = "escrowed"
      BY <1>4 DEF Pays, StageOf, PaymentDue
    <2>2. \A d \in Char, j \in Item : StageOf(pending'[d][j]) =
             IF d = c /\ j = i THEN "paid" ELSE StageOf(pending[d][j])
      BY <1>a, <1>4 DEF TypeOK, Pays, StageOf, PaymentDue
    <2>3. Stage' = [Stage EXCEPT ![c][i] = "paid"]
      BY <2>2
    <2> QED
      BY <1>4, <2>1, <2>3 DEF Pays, Escrow!Pay
  <1> QED
    BY RowSteps, <1>1, <1>2, <1>3, <1>4 DEF Escrow!Next

\* While no read fails and no write is lost silently, every behaviour of the dissolution
\* is one of the escrow: the reward is paid whole, from an escrow, and once.  (That it is
\* paid in the end is EscrowSpec, which TLC checks.)
THEOREM ImplementsEscrow ==
  ASSUME MaxFaults["read"] = 0, MaxFaults["silent"] = 0
  PROVE  Spec => Escrow!Safety
  <1>1. Inv /\ Clean("read")' /\ Clean("silent")' /\ [Next]_vars => [Escrow!Next]_(Escrow!vars)
    BY EscrowStep
  <1>2. TypeOK /\ FaultsBounded => Clean("read") /\ Clean("silent")
    BY DEF TypeOK, FaultsBounded, Clean, FaultKind
  <1> QED
    BY <1>1, <1>2, FaultsBoundedAlways, EscrowInit, InvAlways, PTL DEF Spec, Escrow!Safety

-----------------------------------------------------------------------------
(* No dangling row.  While nothing but a crash happens, an open row of a character *)
(* in the world is in the hands of the handler, or waits for its login pass.       *)

Reliable == Clean("read") /\ Clean("write") /\ Clean("silent")

Attended(c, i) ==
    /\ task.char = c
    /\ \/ task.at = "reconciling" /\ i \in task.rows
       \/ /\ task.at \in ItemPoint
          /\ task.item = i \/ (task.via = "login" /\ i \in task.rows)

OpenAttended == \A c \in online, i \in Item : pending[c][i] \notin Resolved => Attended(c, i)

\* The row of the handler is where the handler believes it to be.
RowInStep ==
    /\ task.at \in {"removing", "saving", "marking"} => Row = "PENDING_REMOVAL"
    /\ task.at \in {"preparing", "crediting"} => Row \in Recoverable
    /\ task.at = "syncing" => Row = "COMPLETE"
    /\ task.at = "reconciling" => task.via = "login"

Followed == OpenAttended /\ RowInStep

\* A kind that has not failed by the end of a step did not fail in it, nor before.
LEMMA NoFailure ==
  ASSUME TypeOK, [Next]_vars, NEW kind \in FaultKind, Clean(kind)'
  PROVE  Clean(kind) /\ ~Fault(kind)
  <1>1. Clean(kind)
    BY FaultsGrow DEF FaultsCounted, NoneForgotten
  <1>2. ASSUME Fault(kind) PROVE FALSE
    BY <1>2 DEF Fault, Clean, TypeOK
  <1> QED
    BY <1>1, <1>2

LEMMA EndFollowed ==
  ASSUME TypeOK, task.at \in ItemPoint, EndItem, UNCHANGED online,
         \A c \in online, i \in Item : pending'[c][i] \notin Resolved =>
            task.char = c /\ i # task.item /\ task.via = "login" /\ i \in task.rows
  PROVE  Followed'
  <1>1. CASE task.via = "login"
    <2>1. task' = [at |-> "reconciling", via |-> "login", char |-> task.char,
                   item |-> NoItem, rows |-> task.rows \ {task.item}]
      BY <1>1 DEF EndItem, TypeOK, TaskType
    <2> QED
      BY <2>1 DEF Followed, OpenAttended, RowInStep, Attended
  <1>2. CASE task.via # "login"
    BY <1>2 DEF EndItem, Idle, Followed, OpenAttended, RowInStep
  <1> QED
    BY <1>1, <1>2

\* A step of the handler to its next point that leaves the rows of the others alone.
LEMMA GotoFollowed ==
  ASSUME TypeOK, OpenAttended, NEW p \in ItemPoint, task.at \in ItemPoint, Goto(p),
         UNCHANGED online, RowInStep',
         \A c \in online, i \in Item :
            c # task.char \/ i # task.item => pending'[c][i] = pending[c][i]
  PROVE  Followed'
  <1>1. task'.at = p /\ task'.char = task.char /\ task'.item = task.item
        /\ task'.via = task.via /\ task'.rows = task.rows
    BY DEF Goto, TypeOK, TaskType
  <1>2. task.at # "reconciling" /\ p # "reconciling"
    BY DEF ItemPoint
  <1>3. \A c \in online, i \in Item : Attended(c, i) => Attended(c, i)'
    BY <1>1, <1>2 DEF Attended
  <1>4. \A c \in online, i \in Item : c = task.char /\ i = task.item => Attended(c, i)'
    BY <1>1 DEF Attended
  <1> QED
    BY <1>3, <1>4 DEF Followed, OpenAttended

LEMMA FollowedStep ==
  ASSUME TypeOK, [Next]_vars, Followed, Reliable'
  PROVE  Followed'
  <1> USE DEF durable, volatile, history
  <1>1. ~Fault("read") /\ ~Fault("write") /\ ~Fault("silent") /\ ~WriteLost
    BY NoFailure DEF FaultKind, Reliable, WriteLost
  <1>2. /\ task \in TaskType /\ online \subseteq Char
        /\ pending \in [Char -> [Item -> Status]]
        /\ task.at # "idle" => task.char \in Char /\ task.char \in online
        /\ task.at \in ItemPoint => task.item \in Item
    BY DEF TypeOK
  <1>3. OpenAttended /\ RowInStep
    BY DEF Followed
  <1>4. ASSUME task.at = "idle"
        PROVE  \A c \in online, i \in Item : pending[c][i] \in Resolved
    BY <1>3, <1>4 DEF OpenAttended, Attended, ItemPoint
  <1>5. ASSUME task.at = "idle", UNCHANGED <<pending, task>>, online' \subseteq online
        PROVE  Followed'
    BY <1>4, <1>5 DEF Followed, OpenAttended, RowInStep
  <1>6. ASSUME NEW c \in Char, \/ Logout(c) \/ AutoSave(c) \/ CloseConfirm(c)
                               \/ \E i \in Item : ShowConfirm(c, i)
        PROVE  Followed'
    BY <1>5, <1>6 DEF Logout, AutoSave, CloseConfirm, ShowConfirm
  <1>7. ASSUME NEW c \in Char, Login(c) PROVE Followed'
    <2>1. /\ task.at = "idle" /\ online' = online \union {c} /\ UNCHANGED pending
          /\ task' = [at |-> "reconciling", via |-> "login", char |-> c,
                      item |-> NoItem, rows |-> OpenRows(c)]
      BY <1>1, <1>7 DEF Login
    <2>2. RowInStep'
      BY <2>1 DEF RowInStep
    <2>3. OpenAttended'
      BY <1>4, <2>1 DEF OpenAttended, Attended, OpenRows, Resolved
    <2> QED
      BY <2>2, <2>3 DEF Followed
  <1>8. ASSUME NEW c \in Char, NEW i \in Item, NEW via \in {"gossip", "direct"},
               Reserve(c, i, via)
        PROVE  Followed'
    <2>1. /\ task.at = "idle" /\ c \in online /\ UNCHANGED online
          /\ task' = [at |-> "removing", via |-> via, char |-> c, item |-> i, rows |-> {}]
      BY <1>8 DEF Reserve
    <2>2. PICK unwritten \in 0..1 :
             /\ faults'["silent"] = faults["silent"] + unwritten
             /\ pending' = IF unwritten = 1 THEN pending
                           ELSE [pending EXCEPT ![c][i] = "PENDING_REMOVAL"]
      BY <1>8 DEF Reserve, TypeOK, FaultKind
    <2>3. unwritten = 0
      <3>1. faults["silent"] \in Nat /\ faults'["silent"] = 0
        BY DEF TypeOK, FaultKind, Reliable, Clean
      <3> QED
        BY <2>2, <3>1
    <2>4. /\ pending'[c][i] = "PENDING_REMOVAL"
          /\ \A d \in Char, j \in Item : d # c \/ j # i => pending'[d][j] = pending[d][j]
      BY <1>2, <2>2, <2>3
    <2>5. RowInStep'
      BY <2>1, <2>4 DEF RowInStep, Row
    <2>6. OpenAttended'
      BY <1>2, <1>4, <2>1, <2>4 DEF OpenAttended, Attended, ItemPoint
    <2> QED
      BY <2>5, <2>6 DEF Followed
  <1>9. CASE Crash
    BY <1>9 DEF Crash, Idle, Followed, OpenAttended, RowInStep
  <1>10. CASE LevelResidue
    <2>1. /\ task.at = "reconciling" /\ task.rows = {} /\ task' = Idle
          /\ UNCHANGED <<pending, online>>
      BY <1>10 DEF LevelResidue
    <2> QED
      BY <1>3, <2>1 DEF Idle, Followed, OpenAttended, RowInStep, Attended, ItemPoint
  <1>11. ASSUME NEW i \in Item, DiscardReservation(i) PROVE Followed'
    <2>1. /\ task.at = "reconciling" /\ task.char \in Char /\ UNCHANGED online
          /\ pending' = [pending EXCEPT ![task.char][i] = "NONE"]
          /\ task' = [task EXCEPT !.rows = task.rows \ {i}]
      BY <1>1, <1>2, <1>11 DEF DiscardReservation
    <2>2. /\ task'.at = "reconciling" /\ task'.char = task.char
          /\ task'.rows = task.rows \ {i} /\ task'.via = task.via
      BY <1>2, <2>1 DEF TaskType
    <2>3. RowInStep'
      BY <1>3, <2>1, <2>2 DEF RowInStep
    <2>4. OpenAttended'
      <3>1. \A d \in Char, j \in Item : pending'[d][j] =
              IF d = task.char /\ j = i THEN "NONE" ELSE pending[d][j]
        BY <1>2, <2>1
      <3> QED
        <4> SUFFICES ASSUME NEW d \in online, NEW j \in Item, pending'[d][j] \notin Resolved
                     PROVE  Attended(d, j)'
          BY <2>1 DEF OpenAttended
        <4>1. d \in Char /\ ~(d = task.char /\ j = i) /\ pending[d][j] \notin Resolved
          BY <1>2, <3>1 DEF Resolved
        <4>2. Attended(d, j)
          BY <1>3, <4>1 DEF OpenAttended
        <4> QED
          BY <2>1, <2>2, <4>1, <4>2 DEF Attended, ItemPoint
    <2> QED
      BY <2>3, <2>4 DEF Followed
  <1>12. ASSUME NEW i \in Item, RecoverReward(i) PROVE Followed'
    <2>1. /\ task.at = "reconciling" /\ UNCHANGED <<pending, online>>
          /\ pending[task.char][i] \in Recoverable /\ i \in task.rows
          /\ task' = [task EXCEPT !.at = "preparing", !.item = i]
      BY <1>12 DEF RecoverReward
    <2>2. /\ task'.at = "preparing" /\ task'.char = task.char /\ task'.item = i
          /\ task'.via = task.via /\ task'.rows = task.rows
      BY <1>2, <2>1 DEF TaskType
    <2>3. RowInStep'
      BY <2>1, <2>2 DEF RowInStep, Row
    <2>4. OpenAttended'
      <3>1. task.via = "login"
        BY <1>3, <2>1 DEF RowInStep
      <3>2. \A d \in online, j \in Item : Attended(d, j) => Attended(d, j)'
        BY <2>1, <2>2, <3>1 DEF Attended, ItemPoint
      <3> QED
        BY <1>3, <2>1, <3>2 DEF OpenAttended
    <2> QED
      BY <2>3, <2>4 DEF Followed
  <1>13. CASE RemoveItem
    <2>1. task.at = "removing" /\ Goto("saving") /\ UNCHANGED <<pending, online>>
      BY <1>13 DEF RemoveItem
    <2>2. RowInStep'
      BY <1>3, <2>1, GotoType DEF RowInStep, Row, Point, ItemPoint
    <2> QED
      BY <1>3, <2>1, <2>2, GotoFollowed DEF ItemPoint
  <1>14. CASE SaveRemoval
    <2>1. task.at = "saving" /\ Goto("marking") /\ UNCHANGED <<pending, online>>
      BY <1>14 DEF SaveRemoval
    <2>2. RowInStep'
      BY <1>3, <2>1, GotoType DEF RowInStep, Row, Point, ItemPoint
    <2> QED
      BY <1>3, <2>1, <2>2, GotoFollowed DEF ItemPoint
  <1>15. CASE MarkRemoved
    <2>1. task.at = "marking" /\ Goto("preparing") /\ UNCHANGED online
          /\ task.char \in Char /\ task.item \in Item /\ Row = "PENDING_REMOVAL"
      BY <1>2, <1>3, <1>15 DEF MarkRemoved, ItemPoint, RowInStep
    <2>2. SetRow("REMOVED")
      BY <1>1, <1>15, <2>1 DEF MarkRemoved
    <2>3. \A d \in Char, j \in Item : pending'[d][j] =
            IF d = task.char /\ j = task.item THEN "REMOVED" ELSE pending[d][j]
      BY <1>2, <2>1, <2>2 DEF SetRow
    <2>4. RowInStep'
      BY <2>1, <2>3, GotoType DEF RowInStep, Row, Point, ItemPoint, Recoverable
    <2> QED
      BY <1>2, <1>3, <2>1, <2>3, <2>4, GotoFollowed DEF ItemPoint
  <1>16. CASE PrepareGrant
    <2>1. task.at = "preparing" /\ Goto("crediting") /\ UNCHANGED <<pending, online>>
      BY <1>16 DEF PrepareGrant
    <2>2. RowInStep'
      BY <1>3, <2>1, GotoType DEF RowInStep, Row, Point, ItemPoint
    <2> QED
      BY <1>3, <2>1, <2>2, GotoFollowed DEF ItemPoint
  <1>17. CASE GrantDeferred \/ CreditFails
    BY <1>1, <1>3, <1>17 DEF GrantDeferred, CreditFails, RowInStep
  <1>18. CASE CreditRewards
    <2>1. /\ task.at = "crediting" /\ Goto("syncing") /\ UNCHANGED online
          /\ task.char \in Char /\ task.item \in Item /\ SetRow("COMPLETE")
      BY <1>1, <1>2, <1>18 DEF CreditRewards, ItemPoint
    <2>2. \A d \in Char, j \in Item : pending'[d][j] =
            IF d = task.char /\ j = task.item THEN "COMPLETE" ELSE pending[d][j]
      BY <1>2, <2>1 DEF SetRow
    <2>3. RowInStep'
      BY <2>1, <2>2, GotoType DEF RowInStep, Row, Point, ItemPoint
    <2> QED
      BY <1>2, <1>3, <2>1, <2>2, <2>3, GotoFollowed DEF ItemPoint
  <1>19. CASE RemoveFails
    <2>1. /\ task.at = "removing" /\ EndItem /\ UNCHANGED online
          /\ task.char \in Char /\ task.item \in Item
      BY <1>2, <1>19 DEF RemoveFails, ItemPoint
    <2>2. SetRow("NONE")
      <3>1. ASSUME NEW lost \in {"write", "silent"},
                   faults' = [faults EXCEPT !["call"] = @ + 1, ![lost] = @ + 1]
            PROVE  FALSE
        <4>1. faults \in [FaultKind -> Nat] /\ lost \in FaultKind /\ lost # "call"
          BY DEF TypeOK, FaultKind
        <4>2. faults'[lost] = faults[lost] + 1 /\ faults[lost] \in Nat
          BY <3>1, <4>1
        <4> QED
          BY <4>2 DEF Reliable, Clean
      <3> QED
        BY <1>19, <3>1 DEF RemoveFails
    <2>3. \A d \in Char, j \in Item : pending'[d][j] =
            IF d = task.char /\ j = task.item THEN "NONE" ELSE pending[d][j]
      BY <1>2, <2>1, <2>2 DEF SetRow
    <2>4. \A d \in online, j \in Item : pending'[d][j] \notin Resolved =>
             task.char = d /\ j # task.item /\ task.via = "login" /\ j \in task.rows
      BY <1>2, <1>3, <2>1, <2>3 DEF OpenAttended, Attended, Resolved
    <2> QED
      BY <2>1, <2>4, EndFollowed DEF ItemPoint
  <1>20. CASE SyncRepresentations
    <2>1. task.at = "syncing" /\ EndItem /\ UNCHANGED <<pending, online>>
      BY <1>20 DEF SyncRepresentations
    <2>2. \A d \in online, j \in Item : pending[d][j] \notin Resolved =>
             task.char = d /\ j # task.item /\ task.via = "login" /\ j \in task.rows
      BY <1>2, <1>3, <2>1 DEF OpenAttended, Attended, RowInStep, Row, Resolved
    <2> QED
      BY <2>1, <2>2, EndFollowed DEF ItemPoint
  <1>21. CASE UNCHANGED vars
    BY <1>3, <1>21 DEF vars, Followed, OpenAttended, RowInStep, Row, Attended
  <1>22. ASSUME NEW c \in Char, ApplyQueued(c) PROVE Followed'
    BY <1>3, <1>22 DEF ApplyQueued, Followed, OpenAttended, RowInStep, Row, Attended
  <1> QED
    BY <1>6, <1>7, <1>8, <1>9, <1>10, <1>11, <1>12, <1>13, <1>14, <1>15, <1>16, <1>17,
       <1>18, <1>19, <1>20, <1>21, <1>22
       DEF Next, HandlerStep, PlayerStep

FollowedReliable == Reliable => Followed

LEMMA FollowedAlways == Spec => [](TypeOK /\ FollowedReliable)
  <1>1. Init => TypeOK /\ FollowedReliable
    BY InitType DEF Init, Idle, FollowedReliable, Followed, OpenAttended, RowInStep
  <1>2. TypeOK /\ FollowedReliable /\ [Next]_vars => (TypeOK /\ FollowedReliable)'
    <2> SUFFICES ASSUME TypeOK, FollowedReliable, [Next]_vars, Reliable'
                 PROVE  Followed'
      BY TypeStep DEF FollowedReliable
    <2>1. Reliable
      BY NoFailure DEF Reliable, FaultKind
    <2> QED
      BY <2>1, FollowedStep DEF FollowedReliable
  <1> QED
    BY <1>1, <1>2, PTL DEF Spec

\* While reads and writes work, whatever crashes happen, ReconcilePendingDissolutions and
\* the handlers leave no open row to a character in the world.
THEOREM NoDanglingRowAlways == Spec => []NoDanglingRow
  <1>1. TypeOK /\ FollowedReliable => NoDanglingRow
    BY DEF FollowedReliable, Reliable, Followed, OpenAttended, Attended, NoDanglingRow,
           ItemPoint
  <1> QED
    BY <1>1, FollowedAlways, PTL

-----------------------------------------------------------------------------
(* What the worker will have written.  Only a new save, and a crash that loses saves,    *)
(* change it; applying a save does not.                                                   *)

LEMMA LandedType == ASSUME TypeOK, NEW c \in Char PROVE Landed(c) \in Character
  <1>1. queued[c] \in Seq(Character) /\ saved[c] \in Character
    BY DEF TypeOK, QueuedType
  <1>2. queued[c] # <<>> => queued[c][Len(queued[c])] \in Character
    BY <1>1
  <1> QED
    BY <1>1, <1>2 DEF Landed

LEMMA LandedAfterEnqueue ==
  ASSUME TypeOK, NEW c \in Char, NEW state \in Character, Enqueue(c, state),
         UNCHANGED saved, NEW d \in Char
  PROVE  Landed(d)' = IF d = c THEN state ELSE Landed(d)
  <1>1. queued[c] \in Seq(Character) /\ queued \in [Char -> Seq(Character)]
    BY DEF TypeOK, QueuedType
  <1>2. queued'[d] = IF d = c THEN Append(queued[c], state) ELSE queued[d]
    BY <1>1 DEF Enqueue
  <1>3. /\ Append(queued[c], state) # <<>>
        /\ Append(queued[c], state)[Len(Append(queued[c], state))] = state
    BY <1>1
  <1> QED
    BY <1>2, <1>3 DEF Landed

\* Taking the first entry of a sequence leaves its last one.
LEMMA TailLast ==
  ASSUME NEW S, NEW q \in Seq(S), q # <<>>
  PROVE  /\ Tail(q) = <<>> => Head(q) = q[Len(q)]
         /\ Tail(q) # <<>> => Tail(q)[Len(Tail(q))] = q[Len(q)]
  <1>1. /\ Len(q) \in Nat \ {0} /\ Tail(q) \in Seq(S) /\ Len(Tail(q)) = Len(q) - 1
        /\ \A n \in 1..Len(Tail(q)) : Tail(q)[n] = q[n + 1]
    BY EmptySeq, HeadTailProperties
  <1>2. Tail(q) = <<>> => Len(q) = 1
    BY <1>1, EmptySeq
  <1>3. Head(q) = q[1]
    OBVIOUS
  <1>4. Tail(q) # <<>> => Len(Tail(q)) \in 1..Len(Tail(q))
    BY <1>1, EmptySeq
  <1> QED
    BY <1>1, <1>2, <1>3, <1>4

LEMMA LandedAfterApply ==
  ASSUME TypeOK, NEW c \in Char, ApplyQueued(c), NEW d \in Char
  PROVE  Landed(d)' = Landed(d)
  <1>1. /\ queued[c] \in Seq(Character) /\ queued[c] # <<>>
        /\ queued \in [Char -> Seq(Character)] /\ saved \in [Char -> Character]
    BY DEF TypeOK, ApplyQueued, QueuedType
  <1>2. CASE d # c
    BY <1>1, <1>2 DEF ApplyQueued, Landed
  <1>3. CASE d = c
    <2>1. saved'[c] = Head(queued[c]) /\ queued'[c] = Tail(queued[c])
      BY <1>1 DEF ApplyQueued
    <2>2. /\ Tail(queued[c]) = <<>> => Head(queued[c]) = queued[c][Len(queued[c])]
          /\ Tail(queued[c]) # <<>> =>
                Tail(queued[c])[Len(Tail(queued[c]))] = queued[c][Len(queued[c])]
      BY <1>1, TailLast
    <2> QED
      BY <1>1, <1>3, <2>1, <2>2 DEF Landed
  <1> QED
    BY <1>2, <1>3

\* The gold in the saves that wait, after a new one and after the worker applied one.
AllHold(saves, gold) == \A n \in 1..Len(saves) : saves[n].coin = gold

LEMMA NoneHeld == \A g : AllHold(<<>>, g)
  BY DEF AllHold

LEMMA GoldAfterEnqueue ==
  ASSUME TypeOK, NEW c \in Char, NEW state \in Character, Enqueue(c, state),
         NEW d \in Char, NEW g, AllHold(queued[d], g), d = c => state.coin = g
  PROVE  AllHold(queued'[d], g)
  <1> USE DEF AllHold
  <1>1. queued[c] \in Seq(Character) /\ queued \in [Char -> Seq(Character)]
    BY DEF TypeOK, QueuedType
  <1>2. queued'[d] = IF d = c THEN Append(queued[c], state) ELSE queued[d]
    BY <1>1 DEF Enqueue
  <1>3. CASE d # c
    BY <1>2, <1>3
  <1>4. CASE d = c
    <2>1. /\ Len(Append(queued[d], state)) = Len(queued[d]) + 1
          /\ \A n \in 1..Len(queued[d]) : Append(queued[d], state)[n] = queued[d][n]
          /\ Append(queued[d], state)[Len(queued[d]) + 1] = state
          /\ Len(queued[d]) \in Nat
      BY <1>1, <1>4, AppendProperties
    <2>2. \A n \in 1..(Len(queued[d]) + 1) : n \in 1..Len(queued[d]) \/ n = Len(queued[d]) + 1
      BY <2>1
    <2> QED
      BY <1>2, <1>4, <2>1, <2>2
  <1> QED
    BY <1>3, <1>4

LEMMA GoldAfterApply ==
  ASSUME TypeOK, NEW c \in Char, ApplyQueued(c), NEW d \in Char, NEW g,
         saved[d].coin = g, AllHold(queued[d], g)
  PROVE  saved'[d].coin = g /\ AllHold(queued'[d], g)
  <1> USE DEF AllHold
  <1>1. /\ queued[c] \in Seq(Character) /\ queued[c] # <<>>
        /\ queued \in [Char -> Seq(Character)] /\ saved \in [Char -> Character]
    BY DEF TypeOK, ApplyQueued, QueuedType
  <1>2. CASE d # c
    BY <1>1, <1>2 DEF ApplyQueued
  <1>3. CASE d = c
    <2>1. saved'[d] = Head(queued[d]) /\ queued'[d] = Tail(queued[d])
      BY <1>1, <1>3 DEF ApplyQueued
    <2>2. /\ Len(queued[d]) \in Nat \ {0} /\ Len(Tail(queued[d])) = Len(queued[d]) - 1
          /\ \A n \in 1..Len(Tail(queued[d])) : Tail(queued[d])[n] = queued[d][n + 1]
      BY <1>1, <1>3, EmptySeq, HeadTailProperties
    <2>3. Head(queued[d]) = queued[d][1]
      BY <1>1, <1>3
    <2>4. \A n \in 1..Len(Tail(queued[d])) : n + 1 \in 1..Len(queued[d])
      BY <2>2
    <2> QED
      BY <2>1, <2>2, <2>3, <2>4
  <1> QED
    BY <1>2, <1>3

-----------------------------------------------------------------------------
(***************************************************************************)
(* Gold.  A character in the world has all the gold it earned, or is about *)
(* to get it from the handler that paid it (GoldDue); so has what the      *)
(* worker will have written, but for the window between a payment that ran *)
(* ahead of a queued save and the save that ends its handler.  Where no    *)
(* payment ever did, each queued save and the table itself have it all,    *)
(* so that a crash loses nothing.                                          *)
(***************************************************************************)

GoldDue(c) == IF task.at = "syncing" /\ task.char = c THEN Gold[task.item] ELSE 0

\* No crash or failed save can have lost the save that repairs an overtaken one.
Repaired(c) == c \in overtaken => Clean("crash") /\ Clean("save")

InWindow(c) == c \in overtaken /\ task.at = "syncing" /\ task.char = c

PurseKept ==
    Clean("read") /\ Clean("call") => \A c \in Char : Repaired(c) =>
        /\ c \in online => live[c].coin + GoldDue(c) = earned[c]
        /\ ~InWindow(c) => Landed(c).coin = earned[c]
        /\ c \notin overtaken => saved[c].coin = earned[c] /\ AllHold(queued[c], earned[c])

LEMMA GoldStep ==
  ASSUME TypeOK, TypeOK', [Next]_vars, PurseKept, Clean("read")', Clean("call")'
  PROVE  PurseKept'
  <1> DEFINE Kept(c) ==
        /\ c \in online => live[c].coin + GoldDue(c) = earned[c]
        /\ ~InWindow(c) => Landed(c).coin = earned[c]
        /\ c \notin overtaken => saved[c].coin = earned[c] /\ AllHold(queued[c], earned[c])
  <1> SUFFICES ASSUME NEW d \in Char, Repaired(d)' PROVE Kept(d)'
    BY DEF PurseKept
  <1> USE DEF durable, volatile, history
  <1>1. /\ ~Fault("read") /\ ~Fault("call")
        /\ Clean("read") /\ Clean("call")
        /\ Clean("crash")' => Clean("crash")
        /\ Clean("save")' => Clean("save") /\ ~Fault("save")
    BY NoFailure DEF FaultKind
  <1>2. /\ saved \in [Char -> Character] /\ live \in [Char -> Character]
        /\ queued \in QueuedType /\ earned \in [Char -> Nat]
        /\ task.at # "idle" => task.char \in Char /\ task.char \in online
        /\ task.at \in ItemPoint => task.item \in Item
        /\ Gold \in [Item -> Nat] /\ faults \in [FaultKind -> Nat]
    BY ConstantsAssumption DEF TypeOK
  <1>3. overtaken \subseteq overtaken'
    <2>1. CASE CreditRewards
      BY <2>1 DEF CreditRewards
    <2>2. CASE ~CreditRewards
      BY <2>2 DEF Next, HandlerStep, PlayerStep, vars, RemoveItem, RemoveFails, SaveRemoval,
         MarkRemoved, PrepareGrant, GrantDeferred, CreditFails, SyncRepresentations,
         DiscardReservation, RecoverReward, LevelResidue, Login, Logout, AutoSave,
         CloseConfirm, ShowConfirm, Reserve, ApplyQueued, Crash
    <2> QED
      BY <2>1, <2>2
  <1>4. Repaired(d) /\ Kept(d)
    BY <1>1, <1>3 DEF Repaired, PurseKept
  <1>5. d \in overtaken => ~Fault("save")
    BY <1>1, <1>3 DEF Repaired
  <1>6. live[d].coin \in Nat /\ earned[d] \in Nat
    BY <1>2 DEF Character
  <1> HIDE DEF Kept
  \* A step that changes none of the gold.
  <1>7. ASSUME UNCHANGED <<saved, queued, earned, overtaken>>, d \in online' => d \in online,
               live'[d].coin = live[d].coin \/ d \notin online',
               task.at # "syncing", task'.at # "syncing"
        PROVE  Kept(d)'
    BY <1>4, <1>7 DEF Kept, GoldDue, InWindow, Landed
  \* A step that saves a character with all its gold, or fails to.
  <1>8. ASSUME NEW c \in Char, NEW state \in Character, SavePlayerToDB(c, state),
               c = d /\ Repaired(d) => state.coin = earned[d],
               UNCHANGED <<saved, earned, overtaken>>, d \in online' => d \in online,
               live'[d].coin = live[d].coin \/ d \notin online',
               task.at # "syncing", task'.at # "syncing"
        PROVE  Kept(d)'
    <2>1. CASE Enqueue(c, state)
      <3>1. Landed(d)' = IF d = c THEN state ELSE Landed(d)
        BY <1>8, <2>1, LandedAfterEnqueue
      <3>2. Landed(d)'.coin = earned'[d]
        BY <1>4, <1>8, <3>1 DEF Kept, InWindow
      <3>3. ASSUME d \notin overtaken
            PROVE  AllHold(queued'[d], earned[d])
        <4>1. AllHold(queued[d], earned[d])
          BY <1>4, <3>3 DEF Kept
        <4>2. d = c => state.coin = earned[d]
          BY <1>4, <1>8
        <4> QED
          BY <1>8, <2>1, <4>1, <4>2, GoldAfterEnqueue
      <3> QED
        BY <1>4, <1>8, <3>2, <3>3 DEF Kept, GoldDue, InWindow
    <2>2. CASE queued' = queued
      BY <1>7, <1>8, <2>2
    <2> QED
      BY <1>8, <2>1, <2>2 DEF SavePlayerToDB
  <1>9. ASSUME task.at \in ItemPoint, EndItem PROVE task'.at # "syncing"
    BY <1>9, EndItemType
  <1>10. CASE RemoveItem
    <2>1. /\ task.at = "removing" /\ task.char \in Char /\ Goto("saving")
          /\ live' = [live EXCEPT ![task.char].bag[task.item] = @ - 1]
      BY <1>2, <1>10 DEF RemoveItem
    <2>2. live'[d].coin = live[d].coin
      BY <1>2, <2>1 DEF Character
    <2>3. task'.at = "saving"
      BY <2>1, GotoType DEF Point, ItemPoint
    <2> QED
      BY <1>7, <1>10, <2>1, <2>2, <2>3 DEF RemoveItem
  <1>11. CASE MarkRemoved \/ PrepareGrant
    <2>1. task'.at # "syncing"
      BY <1>11, GotoType DEF MarkRemoved, PrepareGrant, Point, ItemPoint
    <2> QED
      BY <1>7, <1>11, <2>1 DEF MarkRemoved, PrepareGrant
  <1>12. CASE RemoveFails \/ GrantDeferred \/ CreditFails
    <2>1. task'.at # "syncing" /\ task.at # "syncing"
      BY <1>9, <1>12 DEF RemoveFails, GrantDeferred, CreditFails, ItemPoint
    <2> QED
      BY <1>7, <1>12, <2>1 DEF RemoveFails, GrantDeferred, CreditFails
  <1>13. ASSUME NEW i \in Item, DiscardReservation(i) \/ RecoverReward(i) PROVE Kept(d)'
    <2>1. task.at = "reconciling" /\ task'.at # "syncing"
      BY <1>13 DEF DiscardReservation, RecoverReward, TypeOK, TaskType
    <2> QED
      BY <1>7, <1>13, <2>1 DEF DiscardReservation, RecoverReward
  <1>14. CASE SaveRemoval
    <2>1. /\ task.at = "saving" /\ task.char \in Char /\ task.char \in online
          /\ SavePlayerToDB(task.char, live[task.char]) /\ Goto("marking")
      BY <1>2, <1>14 DEF SaveRemoval
    <2>2. task'.at = "marking"
      BY <2>1, GotoType DEF Point, ItemPoint
    <2>3. task.char = d /\ Repaired(d) => live[task.char].coin = earned[d]
      BY <1>4, <1>6, <2>1 DEF Kept, GoldDue
    <2> QED
      BY <1>2, <1>8, <1>14, <2>1, <2>2, <2>3 DEF SaveRemoval
  <1>15. CASE CreditRewards
    <2>1. /\ task.at = "crediting" /\ UNCHANGED <<live, queued, online>> /\ Goto("syncing")
          /\ task.char \in Char /\ task.item \in Item
          /\ saved' = [saved EXCEPT ![task.char].coin = @ + Gold[task.item]]
          /\ earned' = [earned EXCEPT ![task.char] = @ + Gold[task.item]]
          /\ overtaken' = IF queued[task.char] = <<>> THEN overtaken
                          ELSE overtaken \union {task.char}
      BY <1>1, <1>2, <1>15 DEF CreditRewards, ItemPoint
    <2>2. task'.at = "syncing" /\ task'.char = task.char /\ task'.item = task.item
      BY <2>1, GotoType DEF Point, ItemPoint
    <2>3. Gold[task.item] \in Nat
      BY <1>2, <2>1
    <2>4. GoldDue(d) = 0 /\ GoldDue(d)' = IF d = task.char THEN Gold[task.item] ELSE 0
      BY <2>1, <2>2 DEF GoldDue
    <2>5. CASE d # task.char
      <3>1. /\ saved'[d] = saved[d] /\ earned'[d] = earned[d]
            /\ d \in overtaken' <=> d \in overtaken
        BY <1>2, <2>1, <2>5
      <3>2. Landed(d)' = Landed(d) /\ ~InWindow(d)
        BY <2>1, <3>1 DEF Landed, InWindow
      <3> QED
        BY <1>4, <2>1, <2>4, <2>5, <3>1, <3>2 DEF Kept
    <2>6. CASE d = task.char
      <3>1. /\ saved'[d].coin = saved[d].coin + Gold[task.item]
            /\ earned'[d] = earned[d] + Gold[task.item]
        BY <1>2, <2>1, <2>6 DEF Character
      <3>2. d \in online => live'[d].coin + GoldDue(d)' = earned'[d]
        BY <1>4, <1>6, <2>1, <2>3, <2>4, <2>6, <3>1 DEF Kept
      <3>3. CASE queued[d] = <<>>
        <4>1. Landed(d) = saved[d] /\ Landed(d)' = saved'[d] /\ ~InWindow(d)
          BY <2>1, <3>3 DEF Landed, InWindow
        <4>2. saved[d].coin = earned[d]
          BY <1>4, <4>1 DEF Kept
        <4>3. saved'[d].coin = earned'[d]
          BY <3>1, <4>2
        <4>4. AllHold(queued'[d], earned'[d])
          BY <2>1, <3>3, NoneHeld
        <4>5. online' = online
          BY <2>1
        <4> QED
          BY <3>2, <4>1, <4>3, <4>4, <4>5 DEF Kept
      <3>4. CASE queued[d] # <<>>
        <4>1. d \in overtaken' /\ InWindow(d)'
          BY <2>1, <2>2, <2>6, <3>4 DEF InWindow
        <4> QED
          BY <2>1, <3>2, <4>1 DEF Kept
      <3> QED
        BY <3>3, <3>4
    <2> QED
      BY <2>5, <2>6
  <1>16. CASE SyncRepresentations
    <2>1. /\ task.at = "syncing" /\ task.char \in Char /\ task.item \in Item /\ EndItem
          /\ task.char \in online /\ UNCHANGED <<saved, online, earned, overtaken>>
      BY <1>2, <1>16 DEF SyncRepresentations, ItemPoint
    <2>2. PICK got, set, added, stored \in BOOLEAN :
             LET c == task.char  i == task.item
                 bad(ok) == IF ok THEN 0 ELSE 1
                 calls == bad(got) + bad(set) + bad(added)
                 state == [live[c] EXCEPT !.coin = CoinAfter(@, Gold[i], got, set),
                                          !.token = IF added THEN @ + Residue[i] ELSE @]
             IN  /\ faults["call"] + calls <= MaxFaults["call"]
                 /\ stored \/ faults["save"] < MaxFaults["save"]
                 /\ faults' = [faults EXCEPT !["call"] = @ + calls, !["save"] = @ + bad(stored)]
                 /\ live' = [live EXCEPT ![c] = state]
                 /\ IF stored THEN Enqueue(c, state) ELSE queued' = queued
      BY <1>16 DEF SyncRepresentations
    <2>3. got /\ set /\ (d \in overtaken => stored)
      <3> DEFINE bad(ok) == IF ok THEN 0 ELSE 1
      <3>1. faults'["call"] = 0 /\ (d \in overtaken => faults'["save"] = 0)
        BY <2>1 DEF Clean, Repaired
      <3>2. /\ faults'["call"] = faults["call"] + (bad(got) + bad(set) + bad(added))
            /\ faults'["save"] = faults["save"] + bad(stored)
        BY <1>2, <2>2 DEF FaultKind
      <3>3. faults["call"] \in Nat /\ faults["save"] \in Nat
        BY <1>2 DEF FaultKind
      <3> QED
        BY <3>1, <3>2, <3>3
    <2> DEFINE c == task.char
               state == [live[c] EXCEPT !.coin = CoinAfter(@, Gold[task.item], got, set),
                                        !.token = IF added THEN @ + Residue[task.item] ELSE @]
    <2>4. /\ live' = [live EXCEPT ![c] = state]
          /\ IF stored THEN Enqueue(c, state) ELSE queued' = queued
      BY <2>2
    <2>5. state.coin = live[c].coin + Gold[task.item] /\ live'[c] = state
      BY <1>2, <2>1, <2>3, <2>4 DEF CoinAfter, Character
    <2>6. live'[c] \in Character
      BY <2>1 DEF TypeOK
    <2> HIDE DEF state
    <2>7. GoldDue(d) = IF d = c THEN Gold[task.item] ELSE 0
      BY <2>1 DEF GoldDue
    <2>8. task'.at # "syncing" /\ GoldDue(d)' = 0 /\ ~InWindow(d)'
      BY <1>9, <2>1 DEF ItemPoint, GoldDue, InWindow
    <2>9. d \in online => live'[d].coin + GoldDue(d)' = earned'[d]
      BY <1>2, <1>4, <1>6, <2>1, <2>4, <2>5, <2>7, <2>8 DEF Kept, Character
    <2>10. d = c => state.coin = earned[d]
      BY <1>4, <2>1, <2>5, <2>7 DEF Kept
    <2>11. CASE ~stored
      <3>1. ~InWindow(d) /\ queued' = queued /\ d \notin overtaken
        BY <2>3, <2>4, <2>11 DEF InWindow
      <3> QED
        BY <1>4, <2>1, <2>9, <3>1 DEF Kept, Landed
    <2>12. CASE stored
      <3>1. Enqueue(c, state) /\ state \in Character
        BY <2>4, <2>5, <2>6, <2>12
      <3>2. Landed(d)' = IF d = c THEN state ELSE Landed(d)
        BY <2>1, <3>1, LandedAfterEnqueue
      <3>3. d # c => ~InWindow(d)
        BY DEF InWindow
      <3>4. Landed(d)'.coin = earned'[d]
        BY <1>4, <2>1, <2>10, <3>2, <3>3 DEF Kept
      <3>5. ASSUME d \notin overtaken
            PROVE  AllHold(queued'[d], earned[d])
        <4>1. AllHold(queued[d], earned[d])
          BY <1>4, <3>5 DEF Kept
        <4> QED
          BY <2>1, <2>10, <3>1, <4>1, GoldAfterEnqueue
      <3> QED
        BY <1>4, <2>1, <2>9, <3>4, <3>5 DEF Kept
    <2> QED
      BY <2>11, <2>12
  <1>17. CASE LevelResidue
    <2>1. /\ task.at = "reconciling" /\ task.char \in Char /\ task.char \in online
          /\ task'.at = "idle" /\ UNCHANGED <<saved, online, earned, overtaken>>
      BY <1>2, <1>17, IdleType DEF LevelResidue
    <2> DEFINE c == task.char
               exact == [live[c] EXCEPT !.token = residue[AccountOf[c]]]
    <2>2. exact \in Character /\ exact.coin = live[c].coin
      <3>1. residue[AccountOf[c]] \in Nat /\ live[c] \in Character
        BY <1>2, <2>1, ConstantsAssumption DEF TypeOK
      <3> QED
        BY <3>1, CharacterUpdate DEF Character
    <2>3. CASE live' = [live EXCEPT ![c] = exact] /\ SavePlayerToDB(c, exact)
      <3> HIDE DEF exact
      <3>1. live'[d].coin = live[d].coin
        BY <1>2, <2>1, <2>2, <2>3
      <3>2. c = d /\ Repaired(d) => exact.coin = earned[d]
        BY <1>4, <1>6, <2>1, <2>2 DEF Kept, GoldDue
      <3> QED
        BY <1>8, <2>1, <2>2, <2>3, <3>1, <3>2
    <2>4. CASE UNCHANGED <<live, queued>>
      BY <1>7, <2>1, <2>4
    <2> QED
      BY <1>17, <2>3, <2>4 DEF LevelResidue
  <1>18. ASSUME NEW c \in Char, Logout(c) PROVE Kept(d)'
    <2>1. /\ task.at = "idle" /\ task'.at = "idle" /\ c \in online
          /\ SavePlayerToDB(c, live[c]) /\ live[c] \in Character
          /\ UNCHANGED <<saved, earned, overtaken>>
          /\ online' = online \ {c}
          /\ d # c => live'[d] = live[d]
      BY <1>2, <1>18 DEF Logout
    <2>2. c = d /\ Repaired(d) => live[c].coin = earned[d]
      BY <1>4, <1>6, <2>1 DEF Kept, GoldDue
    <2>3. /\ d \in online' => d \in online
          /\ live'[d].coin = live[d].coin \/ d \notin online'
      BY <2>1
    <2> QED
      BY <1>8, <2>1, <2>2, <2>3
  <1>19. ASSUME NEW c \in Char, AutoSave(c) PROVE Kept(d)'
    <2>1. /\ task.at = "idle" /\ task'.at = "idle" /\ c \in online
          /\ SavePlayerToDB(c, live[c]) /\ live[c] \in Character
          /\ UNCHANGED <<saved, earned, overtaken, live, online>>
      BY <1>2, <1>19 DEF AutoSave, SavePlayerToDB, NoFault
    <2>2. c = d /\ Repaired(d) => live[c].coin = earned[d]
      BY <1>4, <1>6, <2>1 DEF Kept, GoldDue
    <2> QED
      BY <1>8, <2>1, <2>2
  <1>20. ASSUME NEW c \in Char, Login(c) PROVE Kept(d)'
    <2>1. /\ task.at = "idle" /\ task'.at = "reconciling" /\ queued[c] = <<>>
          /\ online' = online \union {c} /\ live' = [live EXCEPT ![c] = saved[c]]
          /\ UNCHANGED <<saved, queued, earned, overtaken>>
      BY <1>20 DEF Login
    <2>2. CASE d # c
      <3>1. live'[d] = live[d]
        BY <1>2, <2>1, <2>2
      <3> QED
        BY <1>7, <2>1, <2>2, <3>1
    <2>3. CASE d = c
      <3>1. live'[d] = saved[d] /\ Landed(d) = saved[d] /\ Landed(d)' = saved[d]
            /\ ~InWindow(d) /\ GoldDue(d)' = 0
        BY <1>2, <2>1, <2>3 DEF Landed, InWindow, GoldDue
      <3>2. saved[d].coin = earned[d]
        BY <1>4, <3>1 DEF Kept
      <3> QED
        BY <1>4, <1>6, <2>1, <3>1, <3>2 DEF Kept
    <2> QED
      BY <2>2, <2>3
  <1>21. ASSUME NEW c \in Char, \/ CloseConfirm(c)
                                \/ \E i \in Item : ShowConfirm(c, i)
                                \/ \E i \in Item, via \in {"gossip", "direct"} : Reserve(c, i, via)
         PROVE  Kept(d)'
    <2>1. CASE CloseConfirm(c)
      BY <1>7, <2>1 DEF CloseConfirm
    <2>2. ASSUME NEW i \in Item, ShowConfirm(c, i) PROVE Kept(d)'
      BY <1>7, <2>2 DEF ShowConfirm
    <2>3. ASSUME NEW i \in Item, NEW via \in {"gossip", "direct"}, Reserve(c, i, via)
          PROVE  Kept(d)'
      <3>1. task.at = "idle" /\ task'.at = "removing"
        BY <2>3 DEF Reserve
      <3> QED
        BY <1>7, <2>3, <3>1 DEF Reserve
    <2> QED
      BY <1>21, <2>1, <2>2, <2>3
  <1>22. CASE Crash
    <2>1. /\ task'.at = "idle" /\ d \notin online' /\ queued'[d] = <<>>
          /\ UNCHANGED <<saved, earned, overtaken>>
      BY <1>22, IdleType DEF Crash
    <2>2. d \notin overtaken
      <3>1. faults'["crash"] = faults["crash"] + 1 /\ faults["crash"] \in Nat
        BY <1>2, <1>22 DEF Crash, FaultKind
      <3>2. ~Clean("crash")'
        BY <3>1 DEF Clean
      <3> QED
        BY <2>1, <3>2 DEF Repaired
    <2>3. Landed(d)' = saved[d]
      BY <2>1 DEF Landed
    <2>4. saved[d].coin = earned[d]
      BY <1>4, <2>2 DEF Kept
    <2>5. AllHold(queued'[d], earned'[d])
      BY <2>1, NoneHeld
    <2> QED
      BY <2>1, <2>3, <2>4, <2>5 DEF Kept
  <1>23. ASSUME NEW c \in Char, ApplyQueued(c) PROVE Kept(d)'
    <2>1. /\ queued[c] # <<>> /\ UNCHANGED <<live, online, task, earned, overtaken>>
          /\ saved' = [saved EXCEPT ![c] = Head(queued[c])]
          /\ queued' = [queued EXCEPT ![c] = Tail(@)]
      BY <1>23 DEF ApplyQueued
    <2>2. Landed(d)' = Landed(d)
      BY <1>23, LandedAfterApply
    <2>3. ASSUME d \notin overtaken
          PROVE  saved'[d].coin = earned[d] /\ AllHold(queued'[d], earned[d])
      <3>1. saved[d].coin = earned[d] /\ AllHold(queued[d], earned[d])
        BY <1>4, <2>3 DEF Kept
      <3> QED
        BY <1>23, <3>1, GoldAfterApply
    <2>4. GoldDue(d)' = GoldDue(d) /\ InWindow(d)' = InWindow(d)
      BY <2>1 DEF GoldDue, InWindow
    <2> QED
      BY <1>4, <2>1, <2>2, <2>3, <2>4 DEF Kept
  <1>24. CASE UNCHANGED vars
    <2>1. UNCHANGED <<saved, queued, live, online, task, earned, overtaken>>
      BY <1>24 DEF vars
    <2> QED
      BY <1>4, <2>1 DEF Kept, GoldDue, InWindow, Landed
  <1> QED
    BY <1>10, <1>11, <1>12, <1>13, <1>14, <1>15, <1>16, <1>17, <1>18, <1>19, <1>20, <1>21,
       <1>22, <1>23, <1>24
       DEF Next, HandlerStep, PlayerStep

LEMMA PurseAlways == Spec => [](TypeOK /\ PurseKept)
  <1>1. Init => TypeOK /\ PurseKept
    <2> SUFFICES ASSUME Init, NEW c \in Char
                 PROVE  /\ c \notin online /\ queued[c] = <<>>
                        /\ saved[c].coin = earned[c]
      BY InitType DEF PurseKept, Landed, AllHold
    <2> QED
      BY DEF Init, InitCharacter
  <1>2. TypeOK /\ PurseKept /\ [Next]_vars => (TypeOK /\ PurseKept)'
    <2> SUFFICES ASSUME TypeOK, PurseKept, [Next]_vars, Clean("read")', Clean("call")'
                 PROVE  PurseKept'
      BY TypeStep DEF PurseKept
    <2> QED
      BY TypeStep, GoldStep
  <1> QED
    BY <1>1, <1>2, PTL DEF Spec

\* The gold of every payment is in the money the worker will have written, as long as the
\* calls into the core and the read that confirms the payment work, and no crash or failed
\* save hits a character a payment of whom ran ahead of a queued save.
THEOREM GoldKeptAlways == Spec => []GoldKept
  <1>1. PurseKept => GoldKept
    BY DEF PurseKept, GoldKept, GoldAtRisk, Repaired, InWindow
  <1> QED
    BY <1>1, PurseAlways, PTL

-----------------------------------------------------------------------------
(* No duplication.  The copy in hand counts twice: in the character in memory until the  *)
(* removal, and in what the worker will have written until the save is queued.           *)

\* The copies the character had at first, and the one an older build had taken.
FirstCopies(c, i) == Copies[c][i] + (IF <<c, i>> \in OlderBuild THEN 1 ELSE 0)

\* The saves lack the copy in hand.
OutOfSaved(c, i) ==
    IF task.at = "marking" /\ task.char = c /\ task.item = i THEN 1 ELSE 0

BagsCounted ==
    \A c \in Char, i \in Item :
        /\ c \in online =>
             live[c].bag[i] + credited[c][i] + Owed(c, i) + InHand(c, i) <= FirstCopies(c, i)
        /\ Landed(c).bag[i] + credited[c][i] + Owed(c, i) + OutOfSaved(c, i)
             <= FirstCopies(c, i)

LEMMA BagsStep ==
  ASSUME TypeOK, TypeOK', [Next]_vars, BagsCounted, Clean("save")'
  PROVE  BagsCounted'
  <1> DEFINE Live(c, i) == live[c].bag[i] + credited[c][i] + Owed(c, i) + InHand(c, i)
             Saved(c, i) == Landed(c).bag[i] + credited[c][i] + Owed(c, i) + OutOfSaved(c, i)
             Counted(c, i) == /\ c \in online' => Live(c, i)' <= FirstCopies(c, i)
                              /\ Saved(c, i)' <= FirstCopies(c, i)
  <1> SUFFICES ASSUME NEW d \in Char, NEW j \in Item PROVE Counted(d, j)
    BY DEF BagsCounted
  <1> USE DEF durable, volatile, history
  <1>1. ~Fault("save")
    BY NoFailure DEF FaultKind
  <1>2. /\ saved \in [Char -> Character] /\ live \in [Char -> Character]
        /\ saved' \in [Char -> Character] /\ live' \in [Char -> Character]
        /\ credited \in [Char -> [Item -> Nat]] /\ credited' \in [Char -> [Item -> Nat]]
        /\ pending \in [Char -> [Item -> Status]]
        /\ task.at # "idle" => task.char \in Char /\ task.char \in online
        /\ task.at \in ItemPoint => task.item \in Item
        /\ Landed(d) \in Character /\ Landed(d)' \in Character
    <2>1. queued'[d] \in Seq(Character) /\ saved'[d] \in Character
      BY DEF TypeOK, QueuedType
    <2>2. queued'[d] # <<>> => queued'[d][Len(queued'[d])] \in Character
      BY <2>1
    <2>3. Landed(d)' \in Character
      BY <2>1, <2>2 DEF Landed
    <2> QED
      BY <2>3, LandedType DEF TypeOK
  <1>3. /\ Landed(d).bag[j] \in Nat /\ live[d].bag[j] \in Nat /\ credited[d][j] \in Nat
        /\ Owed(d, j) \in 0..1 /\ InHand(d, j) \in 0..1 /\ OutOfSaved(d, j) \in 0..1
        /\ Landed(d)'.bag[j] \in Nat /\ live'[d].bag[j] \in Nat /\ credited'[d][j] \in Nat
        /\ Owed(d, j)' \in 0..1 /\ InHand(d, j)' \in 0..1 /\ OutOfSaved(d, j)' \in 0..1
        /\ FirstCopies(d, j) \in Nat
    BY <1>2, ConstantsAssumption DEF Character, Owed, InHand, OutOfSaved, FirstCopies
  <1>4. /\ d \in online => Live(d, j) <= FirstCopies(d, j)
        /\ Saved(d, j) <= FirstCopies(d, j)
    BY DEF BagsCounted
  <1>5. ASSUME \/ Landed(d)'.bag[j] = Landed(d).bag[j]
               \/ d \in online /\ Landed(d)'.bag[j] = live[d].bag[j],
               d \in online' => \/ d \in online /\ live'[d].bag[j] = live[d].bag[j]
                               \/ live'[d].bag[j] = Landed(d).bag[j],
               credited'[d][j] = credited[d][j], Owed(d, j)' <= Owed(d, j),
               task'.at \notin {"saving", "marking"}
        PROVE  Counted(d, j)
    <2>1. InHand(d, j)' = 0 /\ OutOfSaved(d, j)' = 0
      BY <1>5 DEF InHand, OutOfSaved
    <2> QED
      BY <1>3, <1>4, <1>5, <2>1
  <1>6. UNCHANGED pending => Owed(d, j)' = Owed(d, j)
    BY DEF Owed
  <1>7. ASSUME NEW c \in Char, NEW i \in Item, NEW status \in {"NONE", "PENDING_REMOVAL"},
               pending' = [pending EXCEPT ![c][i] = status]
        PROVE  Owed(d, j)' <= Owed(d, j)
    <2>1. pending'[d][j] = IF d = c /\ j = i THEN status ELSE pending[d][j]
      BY <1>2, <1>7
    <2> QED
      BY <2>1 DEF Owed, PaymentDue
  <1>8. ASSUME task.at \in ItemPoint, EndItem PROVE task'.at \notin {"saving", "marking"}
    BY <1>8, EndItemType
  <1>9. ASSUME NEW c \in Char, NEW state \in Character, SavePlayerToDB(c, state),
               UNCHANGED saved
        PROVE  Landed(d)'.bag[j] = IF d = c THEN state.bag[j] ELSE Landed(d).bag[j]
    <2>1. Enqueue(c, state)
      BY <1>1, <1>9 DEF SavePlayerToDB
    <2> QED
      BY <1>9, <2>1, LandedAfterEnqueue
  <1>10. UNCHANGED <<saved, queued>> => Landed(d)' = Landed(d)
    BY DEF Landed
  <1>11. CASE RemoveItem
    <2>1. /\ task.at = "removing" /\ Goto("saving")
          /\ UNCHANGED <<saved, queued, online, credited, pending>>
          /\ live[task.char].bag[task.item] > 0
          /\ live' = [live EXCEPT ![task.char].bag[task.item] = @ - 1]
          /\ task.char \in Char /\ task.item \in Item
      BY <1>2, <1>11 DEF RemoveItem, ItemPoint
    <2>2. task'.at = "saving" /\ task'.char = task.char /\ task'.item = task.item
      BY <2>1, GotoType DEF Point, ItemPoint
    <2>3. /\ OutOfSaved(d, j)' = 0 /\ InHand(d, j) = 0 /\ Owed(d, j)' = Owed(d, j)
          /\ InHand(d, j)' = IF d = task.char /\ j = task.item THEN 1 ELSE 0
      BY <2>1, <2>2 DEF OutOfSaved, InHand, Owed
    <2>4. live'[d].bag[j] = IF d = task.char /\ j = task.item THEN live[d].bag[j] - 1
                            ELSE live[d].bag[j]
      BY <1>2, <2>1 DEF Character
    <2>5. Landed(d)' = Landed(d)
      BY <1>10, <2>1
    <2> QED
      BY <1>3, <1>4, <2>1, <2>3, <2>4, <2>5
  <1>12. CASE SaveRemoval
    <2>1. /\ task.at = "saving" /\ Goto("marking")
          /\ UNCHANGED <<live, online, saved, credited, pending>>
          /\ SavePlayerToDB(task.char, live[task.char])
          /\ task.char \in Char /\ task.char \in online /\ task.item \in Item
      BY <1>2, <1>12 DEF SaveRemoval, ItemPoint
    <2>2. task'.at = "marking" /\ task'.char = task.char /\ task'.item = task.item
      BY <2>1, GotoType DEF Point, ItemPoint
    <2>3. /\ InHand(d, j)' = InHand(d, j) /\ Owed(d, j)' = Owed(d, j)
          /\ OutOfSaved(d, j)' = InHand(d, j)
          /\ d # task.char => InHand(d, j) = 0
      BY <2>1, <2>2 DEF OutOfSaved, InHand, Owed
    <2>4. Landed(d)'.bag[j] = IF d = task.char THEN live[d].bag[j] ELSE Landed(d).bag[j]
      BY <1>2, <1>9, <2>1
    <2> QED
      BY <1>3, <1>4, <2>1, <2>3, <2>4
  <1>13. CASE MarkRemoved
    <2>1. /\ task.at = "marking" /\ Goto("preparing")
          /\ UNCHANGED <<live, online, saved, queued, credited>>
          /\ SetRow("REMOVED") \/ UNCHANGED pending
          /\ task.char \in Char /\ task.item \in Item
      BY <1>2, <1>13 DEF MarkRemoved, ItemPoint
    <2>2. task'.at = "preparing"
      BY <2>1, GotoType DEF Point, ItemPoint
    <2>3. /\ InHand(d, j)' = 0 /\ OutOfSaved(d, j)' = 0 /\ InHand(d, j) = OutOfSaved(d, j)
          /\ InHand(d, j) = IF d = task.char /\ j = task.item THEN 1 ELSE 0
      BY <2>1, <2>2 DEF OutOfSaved, InHand
    <2>4. d # task.char \/ j # task.item => Owed(d, j)' = Owed(d, j)
      <3>1. CASE SetRow("REMOVED")
        BY <1>2, <2>1, <3>1 DEF SetRow, Owed
      <3> QED
        BY <1>6, <2>1, <3>1
    <2>5. Landed(d)' = Landed(d)
      BY <1>10, <2>1
    <2>6. Owed(d, j)' + InHand(d, j)' <= Owed(d, j) + InHand(d, j)
      BY <1>3, <2>3, <2>4
    <2> QED
      BY <1>3, <1>4, <2>1, <2>3, <2>5, <2>6
  <1>14. CASE CreditRewards
    <2>1. /\ task.at = "crediting" /\ UNCHANGED <<live, online, queued>> /\ Row \in Recoverable
          /\ task.char \in Char /\ task.item \in Item /\ SetRow("COMPLETE")
          /\ Goto("syncing") \/ EndItem
          /\ saved' = [saved EXCEPT ![task.char].coin = @ + Gold[task.item]]
          /\ credited' = [credited EXCEPT ![task.char][task.item] = @ + 1]
      BY <1>2, <1>14 DEF CreditRewards, ItemPoint
    <2>2. task'.at \notin {"saving", "marking"}
      BY <1>8, <2>1, GotoType DEF Point, ItemPoint
    <2>3. InHand(d, j)' = 0 /\ OutOfSaved(d, j)' = 0
      BY <2>2 DEF OutOfSaved, InHand
    <2>4. Landed(d)'.bag[j] = Landed(d).bag[j]
      <3>1. saved'[d].bag = saved[d].bag
        BY <1>2, <2>1 DEF Character
      <3> QED
        BY <2>1, <3>1 DEF Landed
    <2>5. CASE d = task.char /\ j = task.item
      <3>1. credited'[d][j] = credited[d][j] + 1 /\ Owed(d, j) = 1 /\ Owed(d, j)' = 0
        BY <1>2, <2>1, <2>5 DEF SetRow, Owed, Row, Recoverable, PaymentDue
      <3> QED
        BY <1>3, <1>4, <2>1, <2>3, <2>4, <3>1
    <2>6. CASE d # task.char \/ j # task.item
      <3>1. credited'[d][j] = credited[d][j] /\ Owed(d, j)' = Owed(d, j)
        BY <1>2, <2>1, <2>6 DEF SetRow, Owed
      <3> QED
        BY <1>3, <1>4, <2>1, <2>3, <2>4, <3>1
    <2> QED
      BY <2>5, <2>6
  <1>15. CASE SyncRepresentations
    <2>1. /\ task.at = "syncing" /\ EndItem /\ task.char \in Char
          /\ task.char \in online /\ UNCHANGED <<pending, credited, saved, online>>
      BY <1>2, <1>15 DEF SyncRepresentations, ItemPoint
    <2>2. PICK got, set, added, stored \in BOOLEAN :
             LET c == task.char  i == task.item
                 bad(ok) == IF ok THEN 0 ELSE 1
                 calls == bad(got) + bad(set) + bad(added)
                 state == [live[c] EXCEPT !.coin = CoinAfter(@, Gold[i], got, set),
                                          !.token = IF added THEN @ + Residue[i] ELSE @]
             IN  /\ faults["call"] + calls <= MaxFaults["call"]
                 /\ stored \/ faults["save"] < MaxFaults["save"]
                 /\ faults' = [faults EXCEPT !["call"] = @ + calls, !["save"] = @ + bad(stored)]
                 /\ live' = [live EXCEPT ![c] = state]
                 /\ IF stored THEN Enqueue(c, state) ELSE queued' = queued
      BY <1>15 DEF SyncRepresentations
    <2> DEFINE c == task.char
               state == [live[c] EXCEPT !.coin = CoinAfter(@, Gold[task.item], got, set),
                                        !.token = IF added THEN @ + Residue[task.item] ELSE @]
    <2>3. /\ live' = [live EXCEPT ![c] = state]
          /\ IF stored THEN Enqueue(c, state) ELSE queued' = queued
      BY <2>2
    <2>4. state.bag = live[c].bag
      BY <1>2, <2>1 DEF Character
    <2> HIDE DEF state
    <2>5. /\ live'[d].bag[j] = live[d].bag[j]
          /\ \/ Landed(d)'.bag[j] = Landed(d).bag[j]
             \/ d \in online /\ Landed(d)'.bag[j] = live[d].bag[j]
      <3>1. /\ live'[d].bag[j] = live[d].bag[j]
            /\ state = live'[c] /\ state \in Character
        BY <1>2, <2>1, <2>3, <2>4
      <3>2. CASE stored
        <4>1. Enqueue(c, state)
          BY <2>3, <3>2
        <4>2. Landed(d)' = IF d = c THEN state ELSE Landed(d)
          BY <2>1, <3>1, <4>1, LandedAfterEnqueue
        <4> QED
          BY <2>1, <3>1, <4>2
      <3>3. CASE ~stored
        BY <1>10, <2>1, <2>3, <3>1, <3>3
      <3> QED
        BY <3>2, <3>3
    <2> QED
      BY <1>3, <1>5, <1>6, <1>8, <2>1, <2>5 DEF ItemPoint
  <1>16. CASE LevelResidue
    <2>1. /\ task.at = "reconciling" /\ task.char \in Char /\ task' = Idle
          /\ task.char \in online /\ UNCHANGED <<pending, credited, saved, online>>
      BY <1>2, <1>16 DEF LevelResidue
    <2> DEFINE c == task.char
               exact == [live[c] EXCEPT !.token = residue[AccountOf[c]]]
    <2>2. exact \in Character /\ exact.bag = live[c].bag
      <3>1. residue[AccountOf[c]] \in Nat /\ live[c] \in Character
        BY <1>2, <2>1, ConstantsAssumption DEF TypeOK
      <3> QED
        BY <3>1, CharacterUpdate DEF Character
    <2>3. \/ live' = [live EXCEPT ![c] = exact] /\ SavePlayerToDB(c, exact)
          \/ UNCHANGED <<live, queued>>
      BY <1>16 DEF LevelResidue
    <2> HIDE DEF exact
    <2>4. /\ live'[d].bag[j] = live[d].bag[j]
          /\ \/ Landed(d)'.bag[j] = Landed(d).bag[j]
             \/ d \in online /\ Landed(d)'.bag[j] = live[d].bag[j]
      <3>1. CASE live' = [live EXCEPT ![c] = exact] /\ SavePlayerToDB(c, exact)
        <4>1. Landed(d)'.bag[j] = IF d = c THEN exact.bag[j] ELSE Landed(d).bag[j]
          BY <1>9, <2>1, <2>2, <3>1
        <4>2. live'[d].bag[j] = live[d].bag[j]
          BY <1>2, <2>1, <2>2, <3>1
        <4> QED
          BY <2>1, <2>2, <4>1, <4>2
      <3>2. CASE UNCHANGED <<live, queued>>
        BY <1>10, <2>1, <3>2
      <3> QED
        BY <2>3, <3>1, <3>2
    <2> QED
      BY <1>3, <1>5, <1>6, <2>1, <2>4, IdleType
  <1>17. CASE RemoveFails
    <2>1. /\ task.at = "removing" /\ EndItem
          /\ UNCHANGED <<live, online, saved, queued, credited>>
          /\ task.char \in Char /\ task.item \in Item
          /\ SetRow("NONE") \/ UNCHANGED pending
      BY <1>2, <1>17 DEF RemoveFails, ItemPoint
    <2>2. Owed(d, j)' <= Owed(d, j)
      BY <1>3, <1>6, <1>7, <2>1 DEF SetRow
    <2> QED
      BY <1>5, <1>8, <1>10, <2>1, <2>2 DEF ItemPoint
  <1>18. ASSUME NEW i \in Item, DiscardReservation(i) PROVE Counted(d, j)
    <2>1. /\ task.at = "reconciling" /\ task'.at = "reconciling" /\ task.char \in Char
          /\ UNCHANGED <<live, online, saved, queued, credited>>
          /\ pending' = [pending EXCEPT ![task.char][i] = "NONE"] \/ UNCHANGED pending
      BY <1>2, <1>18 DEF DiscardReservation, TypeOK, TaskType
    <2>2. Owed(d, j)' <= Owed(d, j)
      BY <1>3, <1>6, <1>7, <2>1
    <2> QED
      BY <1>5, <1>10, <2>1, <2>2
  <1>19. ASSUME NEW c \in Char, NEW i \in Item, NEW via \in {"gossip", "direct"},
                Reserve(c, i, via)
         PROVE  Counted(d, j)
    <2>1. /\ task'.at = "removing" /\ UNCHANGED <<live, online, saved, queued, credited>>
          /\ pending' = [pending EXCEPT ![c][i] = "PENDING_REMOVAL"] \/ UNCHANGED pending
      BY <1>19 DEF Reserve
    <2>2. Owed(d, j)' <= Owed(d, j)
      BY <1>3, <1>6, <1>7, <2>1
    <2> QED
      BY <1>5, <1>10, <2>1, <2>2
  <1>20. CASE PrepareGrant \/ GrantDeferred \/ CreditFails \/ \E i \in Item : RecoverReward(i)
    <2>1. UNCHANGED <<live, online, saved, queued, credited, pending>>
      <3>1. CASE PrepareGrant BY <3>1 DEF PrepareGrant
      <3>2. CASE GrantDeferred BY <3>2 DEF GrantDeferred
      <3>3. CASE CreditFails BY <3>3 DEF CreditFails
      <3>4. CASE \E i \in Item : RecoverReward(i) BY <3>4 DEF RecoverReward
      <3> QED
        BY <1>20, <3>1, <3>2, <3>3, <3>4
    <2>2. task'.at \notin {"saving", "marking"}
      <3>1. CASE GrantDeferred \/ CreditFails
        BY <1>8, <3>1 DEF GrantDeferred, CreditFails, ItemPoint
      <3>2. CASE PrepareGrant
        BY <3>2, GotoType DEF PrepareGrant, Point, ItemPoint
      <3>3. CASE \E i \in Item : RecoverReward(i)
        BY <3>3 DEF RecoverReward, TypeOK, TaskType
      <3> QED
        BY <1>20, <3>1, <3>2, <3>3
    <2> QED
      BY <1>3, <1>5, <1>6, <1>10, <2>1, <2>2
  <1>21. ASSUME NEW c \in Char, \/ Login(c) \/ CloseConfirm(c)
                                \/ \E i \in Item : ShowConfirm(c, i)
         PROVE  Counted(d, j)
    <2>1. CASE Login(c)
      <3>1. /\ UNCHANGED <<saved, queued, credited, pending>> /\ queued[c] = <<>>
            /\ online' = online \union {c} /\ live' = [live EXCEPT ![c] = saved[c]]
            /\ task'.at = "reconciling"
        BY <2>1 DEF Login, durable, history
      <3>2. Landed(d)' = Landed(d) /\ (d = c => Landed(d) = saved[d])
        BY <3>1 DEF Landed
      <3>3. d \in online' => \/ d \in online /\ live'[d].bag[j] = live[d].bag[j]
                             \/ live'[d].bag[j] = Landed(d).bag[j]
        BY <1>2, <3>1, <3>2
      <3> QED
        BY <1>3, <1>5, <1>6, <3>1, <3>2, <3>3
    <2>2. CASE CloseConfirm(c)
      <3>1. UNCHANGED <<live, online, saved, queued, credited, pending>> /\ task'.at = "idle"
        BY <2>2 DEF CloseConfirm, durable, history
      <3> QED
        BY <1>3, <1>5, <1>6, <1>10, <3>1
    <2>3. ASSUME NEW i \in Item, ShowConfirm(c, i)
          PROVE  Counted(d, j)
      <3>1. UNCHANGED <<live, online, saved, queued, credited, pending>> /\ task'.at = "idle"
        BY <2>3 DEF ShowConfirm, durable, history
      <3> QED
        BY <1>3, <1>5, <1>6, <1>10, <3>1
    <2> QED
      BY <1>21, <2>1, <2>2, <2>3
  <1>22. ASSUME NEW c \in Char, Logout(c) PROVE Counted(d, j)
    <2>1. /\ SavePlayerToDB(c, live[c]) /\ live[c] \in Character /\ c \in online
          /\ live' = [live EXCEPT ![c] = Absent] /\ online' = online \ {c}
          /\ UNCHANGED <<saved, credited, pending>> /\ task'.at = "idle"
      BY <1>2, <1>22 DEF Logout
    <2>2. Landed(d)'.bag[j] = IF d = c THEN live[c].bag[j] ELSE Landed(d).bag[j]
      BY <1>9, <2>1
    <2>3. d \in online' => d \in online /\ live'[d] = live[d]
      BY <1>2, <2>1
    <2> QED
      BY <1>3, <1>5, <1>6, <2>1, <2>2, <2>3
  <1>23. ASSUME NEW c \in Char, AutoSave(c) PROVE Counted(d, j)
    <2>1. /\ SavePlayerToDB(c, live[c]) /\ live[c] \in Character /\ c \in online
          /\ UNCHANGED <<live, online, saved, credited, pending>> /\ task'.at = "idle"
      BY <1>2, <1>23 DEF AutoSave, SavePlayerToDB, NoFault
    <2>2. Landed(d)'.bag[j] = IF d = c THEN live[c].bag[j] ELSE Landed(d).bag[j]
      BY <1>9, <2>1
    <2> QED
      BY <1>3, <1>5, <1>6, <2>1, <2>2
  \* A crash that loses no queued save leaves everything as it was.
  <1>24. CASE Crash
    <2>1. /\ d \notin online' /\ UNCHANGED <<saved, credited, pending>> /\ task'.at = "idle"
          /\ queued'[d] = <<>>
      BY <1>24, IdleType DEF Crash
    <2>2. queued[d] = <<>>
      <3>1. /\ faults \in [FaultKind -> Nat]
            /\ faults' = [faults EXCEPT !["crash"] = @ + 1,
                                        !["save"] = IF \A c \in Char : queued[c] = <<>>
                                                    THEN @ ELSE @ + 1]
        BY <1>24 DEF Crash, TypeOK
      <3>2. ASSUME ~(\A c \in Char : queued[c] = <<>>) PROVE FALSE
        <4>1. faults'["save"] = faults["save"] + 1 /\ faults["save"] \in Nat
          BY <3>1, <3>2 DEF FaultKind
        <4> QED
          BY <4>1 DEF Clean
      <3> QED
        BY <3>2
    <2>3. Landed(d)' = Landed(d)
      BY <2>1, <2>2 DEF Landed
    <2> QED
      BY <1>3, <1>5, <1>6, <2>1, <2>3
  <1>25. ASSUME NEW c \in Char, ApplyQueued(c) PROVE Counted(d, j)
    <2>1. UNCHANGED <<live, online, task, credited, pending>>
      BY <1>25 DEF ApplyQueued
    <2>2. Landed(d)' = Landed(d)
      BY <1>25, LandedAfterApply
    <2>3. Owed(d, j)' = Owed(d, j) /\ InHand(d, j)' = InHand(d, j)
          /\ OutOfSaved(d, j)' = OutOfSaved(d, j)
      BY <2>1 DEF Owed, InHand, OutOfSaved
    <2> QED
      BY <1>4, <2>1, <2>2, <2>3
  <1>26. CASE UNCHANGED vars
    BY <1>4, <1>26 DEF vars, Owed, InHand, OutOfSaved, Landed
  <1> HIDE DEF Counted
  <1> QED
    BY <1>11, <1>12, <1>13, <1>14, <1>15, <1>16, <1>17, <1>18, <1>19, <1>20, <1>21, <1>22,
       <1>23, <1>24, <1>25, <1>26
       DEF Next, HandlerStep, PlayerStep

BagsWhileSaved == Clean("save") => BagsCounted

LEMMA BagsAlways == Spec => [](TypeOK /\ BagsWhileSaved)
  <1>1. Init => TypeOK /\ BagsWhileSaved
    <2> SUFFICES ASSUME Init, NEW c \in Char, NEW i \in Item
                 PROVE  /\ c \notin online
                        /\ Landed(c).bag[i] + credited[c][i] + Owed(c, i) + OutOfSaved(c, i)
                             <= FirstCopies(c, i)
      BY InitType DEF BagsWhileSaved, BagsCounted
    <2>1. c \notin online /\ OutOfSaved(c, i) = 0
      BY DEF Init, Idle, OutOfSaved
    <2>2. Owed(c, i) = IF <<c, i>> \in OlderBuild THEN 1 ELSE 0
      BY DEF Init, Owed, PaymentDue
    <2>3. Landed(c).bag[i] = Copies[c][i]
      BY DEF Init, InitCharacter, Landed
    <2>4. credited[c][i] = 0 /\ Copies[c][i] \in Nat
      BY ConstantsAssumption DEF Init
    <2> QED
      BY <2>1, <2>2, <2>3, <2>4 DEF FirstCopies
  <1>2. TypeOK /\ BagsWhileSaved /\ [Next]_vars => (TypeOK /\ BagsWhileSaved)'
    <2> SUFFICES ASSUME TypeOK, BagsWhileSaved, [Next]_vars, Clean("save")'
                 PROVE  BagsCounted'
      BY TypeStep DEF BagsWhileSaved
    <2>1. Clean("save")
      BY NoFailure DEF FaultKind
    <2> QED
      BY <2>1, TypeStep, BagsStep DEF BagsWhileSaved
  <1> QED
    BY <1>1, <1>2, PTL DEF Spec

\* As long as no save is lost, what the worker will have written never holds an item the
\* character was paid for or will be: Dissolve queues the removal before the row says
\* REMOVED.
THEOREM NoDuplicationAlways == Spec => []NoDuplication
  <1>1. TypeOK /\ BagsWhileSaved => NoDuplication
    <2> SUFFICES ASSUME TypeOK, BagsCounted, NEW c \in Char, NEW i \in Item
                 PROVE  Landed(c).bag[i] + credited[c][i] + Owed(c, i) <= FirstCopies(c, i)
      BY DEF BagsWhileSaved, NoDuplication, FirstCopies
    <2>1. Landed(c).bag[i] + credited[c][i] + Owed(c, i) + OutOfSaved(c, i)
            <= FirstCopies(c, i)
      BY DEF BagsCounted
    <2>2. /\ Landed(c).bag[i] \in Nat /\ credited[c][i] \in Nat /\ Owed(c, i) \in 0..1
          /\ OutOfSaved(c, i) \in 0..1 /\ FirstCopies(c, i) \in Nat
      BY ConstantsAssumption, LandedType
         DEF TypeOK, Character, Owed, OutOfSaved, FirstCopies
    <2> QED
      BY <2>1, <2>2
  <1> QED
    BY <1>1, BagsAlways, PTL

-----------------------------------------------------------------------------
(* Every handler ends. *)

\* The row a login pass is working on is one of those it has yet to finish.
RowInHand == task.via = "login" /\ task.at \in ItemPoint => task.item \in task.rows

\* How far a point is from the end of its item.
Left == [idle |-> 0, syncing |-> 1, crediting |-> 2, preparing |-> 3,
         marking |-> 4, saving |-> 5, removing |-> 6, reconciling |-> 7]

\* The rows a login pass has yet to finish count for more than the point it is at.
Variant == IF task.at = "idle" THEN 0 ELSE 8 * Cardinality(task.rows) + Left[task.at]

\* While a handler is under way, whatever happens brings it nearer to its end, but for the
\* worker of the core, which leaves it where it is.
HandlerAdvances ==
    task.at # "idle" => Variant' < Variant \/ \E c \in Char : ApplyQueued(c) /\ task' = task

\* The numbers of the points, looked up once.
LEMMA LeftFacts ==
  /\ \A p \in Point : Left[p] \in 0..7
  /\ Left["idle"] = 0 /\ Left["syncing"] = 1 /\ Left["crediting"] = 2
  /\ Left["preparing"] = 3 /\ Left["marking"] = 4 /\ Left["saving"] = 5
  /\ Left["removing"] = 6 /\ Left["reconciling"] = 7
  /\ \A p \in Point \ {"idle"} : Left[p] > 0
  BY DEF Left, Point, ItemPoint

\* Rows can be counted, and one row less is one less.
LEMMA RowsCounted ==
  ASSUME IsFiniteSet(Item), NEW R \in SUBSET Item
  PROVE  /\ IsFiniteSet(R) /\ Cardinality(R) \in Nat
         /\ Cardinality(R) <= Cardinality(Item) /\ Cardinality(Item) \in Nat
         /\ \A i \in R : Cardinality(R \ {i}) = Cardinality(R) - 1
  BY FS_Subset, FS_CardinalityType, FS_RemoveElement

LEMMA TaskPlaced ==
  ASSUME TypeOK
  PROVE  /\ task.at \in Point /\ task.rows \in SUBSET Item
         /\ Left[task.at] \in 0..7
         /\ task.at # "idle" => Left[task.at] > 0
  <1>1. task \in TaskType
    BY DEF TypeOK
  <1>2. task.at \in Point /\ task.rows \in SUBSET Item
    BY <1>1 DEF TaskType
  <1> QED
    BY <1>2, LeftFacts

LEMMA TaskCounted ==
  ASSUME IsFiniteSet(Item), TypeOK
  PROVE  Cardinality(task.rows) \in Nat
  BY TaskPlaced, RowsCounted

\* The task after a step of a handler, for the three ways a step can end.
LEMMA GotoAdvances ==
  ASSUME IsFiniteSet(Item), TypeOK, RowInHand, NEW p \in Point, Goto(p),
         task.at \in ItemPoint, p \in ItemPoint, Left[p] < Left[task.at]
  PROVE  RowInHand' /\ Variant' < Variant
  <1>1. task' = [task EXCEPT !.at = p] /\ task \in TaskType
    BY DEF Goto, TypeOK
  <1>2. /\ task'.at = p /\ task'.rows = task.rows /\ task'.via = task.via
        /\ task'.item = task.item
    BY <1>1 DEF TaskType
  <1>3. Cardinality(task.rows) \in Nat /\ Left[p] \in 0..7 /\ Left[task.at] \in 0..7
    <2>1. Left[p] \in 0..7
      BY LeftFacts
    <2> QED
      BY <2>1, TaskCounted, TaskPlaced
  <1>4. RowInHand'
    BY <1>2 DEF RowInHand
  <1> QED
    BY <1>2, <1>3, <1>4 DEF Variant, ItemPoint

LEMMA EndAdvances ==
  ASSUME IsFiniteSet(Item), TypeOK, RowInHand, task.at \in ItemPoint, EndItem
  PROVE  RowInHand' /\ Variant' < Variant
  <1>1. Left[task.at] \in 1..7 /\ task.rows \in SUBSET Item /\ task.at # "idle"
    BY LeftFacts DEF TypeOK, TaskType, Point, ItemPoint
  <1>2. Cardinality(task.rows) \in Nat
    BY <1>1, RowsCounted
  <1>3. CASE task.via = "login"
    <2>1. /\ task'.at = "reconciling" /\ task'.rows = task.rows \ {task.item}
      BY <1>3 DEF EndItem, TypeOK, TaskType
    <2>2. Cardinality(task'.rows) = Cardinality(task.rows) - 1
      BY <1>1, <1>3, <2>1, RowsCounted DEF RowInHand
    <2> QED
      BY <1>1, <1>2, <2>1, <2>2, LeftFacts DEF Variant, RowInHand, ItemPoint
  <1>4. CASE task.via # "login"
    BY <1>1, <1>2, <1>4 DEF EndItem, Idle, Variant, RowInHand
  <1> QED
    BY <1>3, <1>4

\* One step of anything: players only begin a handler when none is under way.
LEMMA VariantStep ==
  ASSUME IsFiniteSet(Item), TypeOK, RowInHand, [Next]_vars
  PROVE  RowInHand' /\ (HandlerAdvances \/ UNCHANGED vars)
  <1>1. ASSUME UNCHANGED vars PROVE RowInHand'
    BY <1>1 DEF vars, volatile, RowInHand
  <1>2. ASSUME RemoveItem \/ SaveRemoval \/ MarkRemoved \/ PrepareGrant
        PROVE  RowInHand' /\ Variant' < Variant
    BY <1>2, GotoAdvances, LeftFacts
    DEF RemoveItem, SaveRemoval, MarkRemoved, PrepareGrant, Point, ItemPoint
  <1>3. ASSUME RemoveFails \/ GrantDeferred \/ CreditFails \/ SyncRepresentations
        PROVE  RowInHand' /\ Variant' < Variant
    BY <1>3, EndAdvances
    DEF RemoveFails, GrantDeferred, CreditFails, SyncRepresentations, ItemPoint
  <1>4. ASSUME CreditRewards PROVE RowInHand' /\ Variant' < Variant
    BY <1>4, GotoAdvances, EndAdvances, LeftFacts DEF CreditRewards, Point, ItemPoint
  <1>5. ASSUME NEW i \in Item, DiscardReservation(i) PROVE RowInHand' /\ Variant' < Variant
    <2>1. /\ task.at = "reconciling" /\ i \in task.rows /\ task.rows \in SUBSET Item
          /\ task'.at = "reconciling" /\ task'.rows = task.rows \ {i}
      BY <1>5 DEF DiscardReservation, TypeOK, TaskType
    <2>2. Cardinality(task'.rows) = Cardinality(task.rows) - 1 /\ Cardinality(task.rows) \in Nat
      BY <2>1, RowsCounted
    <2> QED
      BY <2>1, <2>2, LeftFacts DEF Variant, RowInHand, ItemPoint
  <1>6. ASSUME NEW i \in Item, RecoverReward(i) PROVE RowInHand' /\ Variant' < Variant
    <2>1. /\ task.at = "reconciling" /\ i \in task.rows /\ task.rows \in SUBSET Item
          /\ task'.at = "preparing" /\ task'.rows = task.rows /\ task'.item = i
      BY <1>6 DEF RecoverReward, TypeOK, TaskType
    <2>2. Cardinality(task.rows) \in Nat
      BY <2>1, RowsCounted
    <2> QED
      BY <2>1, <2>2, LeftFacts DEF Variant, RowInHand
  <1>7. ASSUME LevelResidue \/ Crash, task.at # "idle" PROVE Variant' < Variant
    <2>1. task' = Idle
      BY <1>7 DEF LevelResidue, Crash
    <2>2. Cardinality(task.rows) \in Nat /\ Left[task.at] > 0 /\ Left[task.at] \in 0..7
      BY <1>7, TaskPlaced, TaskCounted
    <2> QED
      BY <1>7, <2>1, <2>2 DEF Variant, Idle
  <1>8. ASSUME LevelResidue \/ Crash PROVE RowInHand'
    BY <1>8 DEF LevelResidue, Crash, Idle, RowInHand
  <1>9. ASSUME PlayerStep PROVE task.at = "idle" /\ RowInHand'
    <2>1. ASSUME NEW c \in Char, Login(c) PROVE task.at = "idle" /\ RowInHand'
      BY <2>1 DEF Login, RowInHand, ItemPoint
    <2>2. ASSUME NEW c \in Char, NEW i \in Item, NEW via \in {"gossip", "direct"},
                 Reserve(c, i, via)
          PROVE  task.at = "idle" /\ RowInHand'
      BY <2>2 DEF Reserve, RowInHand
    <2>3. ASSUME NEW c \in Char, NEW i \in Item,
                 Logout(c) \/ AutoSave(c) \/ CloseConfirm(c) \/ ShowConfirm(c, i)
          PROVE  task.at = "idle" /\ RowInHand'
      BY <2>3 DEF Logout, AutoSave, CloseConfirm, ShowConfirm, RowInHand, volatile
    <2>4. ASSUME NEW c \in Char, Logout(c) \/ AutoSave(c) \/ CloseConfirm(c)
          PROVE  task.at = "idle" /\ RowInHand'
      BY <2>4 DEF Logout, AutoSave, CloseConfirm, RowInHand, volatile
    <2> QED
      BY <1>9, <2>1, <2>2, <2>3, <2>4 DEF PlayerStep
  <1>10. ASSUME NEW c \in Char, ApplyQueued(c) PROVE RowInHand' /\ task' = task
    BY <1>10 DEF ApplyQueued, RowInHand
  <1> QED
    BY <1>1, <1>2, <1>3, <1>4, <1>5, <1>6, <1>7, <1>8, <1>9, <1>10
    DEF Next, HandlerStep, HandlerAdvances

\* What RowsSettle rests on besides fairness: with finitely many items a dissolution, or
\* a login pass over the rows, ends after at most 8 * Cardinality(Item) + 7 steps of its
\* own, whatever fails on the way. Each step of a handler, a crash and a row that fails
\* included, decreases a number that is 0 just when nothing is under way, and the worker
\* that applies queued saves leaves it alone; no row is visited twice.
THEOREM HandlersEnd ==
  ASSUME IsFiniteSet(Item)
  PROVE  Spec => /\ [](Variant \in 0..(8 * Cardinality(Item) + 7))
                 /\ [](Variant = 0 <=> task.at = "idle")
                 /\ [][HandlerAdvances]_vars
  <1>1. Init => RowInHand
    BY DEF Init, Idle, RowInHand
  <1>2. ASSUME TypeOK, RowInHand, [Next]_vars PROVE RowInHand' /\ [HandlerAdvances]_vars
    BY <1>2, VariantStep
  <1>3. ASSUME TypeOK
        PROVE  /\ Variant \in 0..(8 * Cardinality(Item) + 7)
               /\ Variant = 0 <=> task.at = "idle"
    <2>1. /\ Left[task.at] \in 0..7 /\ (task.at # "idle" => Left[task.at] > 0)
          /\ task.rows \in SUBSET Item
      BY <1>3, TaskPlaced
    <2>2. /\ Cardinality(task.rows) \in Nat /\ Cardinality(Item) \in Nat
          /\ Cardinality(task.rows) <= Cardinality(Item)
      BY <2>1, RowsCounted
    <2>3. CASE task.at = "idle"
      BY <2>2, <2>3 DEF Variant
    <2>4. CASE task.at # "idle"
      <3>1. Variant = 8 * Cardinality(task.rows) + Left[task.at] /\ Left[task.at] \in 1..7
        BY <2>1, <2>4 DEF Variant
      <3> QED
        BY <2>2, <2>4, <3>1
    <2> QED
      BY <2>3, <2>4
  <1> QED
    BY <1>1, <1>2, <1>3, TypeCorrect, PTL DEF Spec
=============================================================================
