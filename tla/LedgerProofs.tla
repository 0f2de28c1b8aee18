---------------------------- MODULE LedgerProofs ----------------------------
(* Theorems about Ledger, for any characters, prices, rewards and numbers of faults. *)
EXTENDS Ledger, TLAPS

-----------------------------------------------------------------------------
(* The inductive invariant.  A purchase that has not written yet still stands where it
   started: no other handler runs, and the queue moves neither level nor Residue. *)

Unspent == task.at \in {"checking", "writing"} \/ (task.at = "verifying" /\ ~task.spent)

SeenHolds ==
    /\ task.at \in {"checking", "writing", "verifying"} =>
          task.by \in Steps(task.kind) /\ Affordable(task.kind, task.seen, task.by)
    /\ Unspent => TaskView.level = task.seen.level /\ TaskView.residue = task.seen.residue

\* Between the write of a purchase paid in Residue and its Sync the items of the account
\* lag behind the ledger.
Lagging(c) == /\ task.at \in {"verifying", "syncing"} /\ PaidInResidue
              /\ AccountOf[c] = AccountOf[task.char]

TokensBounded ==
    Clean("read") /\ Clean("call") =>
        \A c \in online : token[c] <= residue[AccountOf[c]] \/ Lagging(c)

Inv == TypeOK /\ SeenHolds /\ SuccessMeansSpent /\ TokensBounded

-----------------------------------------------------------------------------
(* Prices, and what the guard of the UPDATE compares. *)

LEMMA CostFacts ==
  ASSUME NEW k \in Kind, NEW n \in Nat, NEW by \in Steps(k), n + by <= MaxLevel
  PROVE  /\ by \in Nat /\ by <= MaxLevel
         /\ CostOf(k, n, by).essence \in Nat /\ CostOf(k, n, by).residue \in Nat
         /\ k # "catalyst" /\ CostOf(k, n, by).residue > 0 => CostOf(k, n, by).essence = 0
  <1> USE LedgerAssumption
  <1>1. CASE k = "catalyst"
    BY <1>1 DEF CostOf, Steps
  <1>2. CASE k = "invest"
    BY <1>2 DEF CostOf, Steps
  <1>3. CASE k \in Good \ {"invest"}
    <2>1. by = 1 /\ n \in 0..(MaxLevel - 1)
      BY <1>3 DEF Steps, Good
    <2>2. Price[k][n] \in Cost
      BY <1>3, <2>1
    <2>3. CostOf(k, n, by) = Price[k][n]
      BY <1>3 DEF CostOf, Good
    <2> QED
      BY <1>3, <2>1, <2>2, <2>3 DEF Cost
  <1> QED
    BY <1>1, <1>2, <1>3 DEF Kind

LEMMA MatchFacts ==
  ASSUME NEW now, NEW want, NEW k \in Kind, NEW n, NEW by,
         Matches(now, want, Compared(k, n, by))
  PROVE  /\ k # "catalyst" => now.level = want.level
         /\ k = "catalyst" \/ CostOf(k, n, by).residue > 0 => now.residue = want.residue
         /\ k = "catalyst" \/ ~(CostOf(k, n, by).residue > 0) => now.essence = want.essence
  BY DEF Matches, Compared

LEMMA ViewType ==
  ASSUME TypeOK, NEW c \in Char, NEW k \in Kind
  PROVE  /\ View(c, k) \in Seen
         /\ View(c, k).essence = aether[c]
         /\ View(c, k).residue = residue[AccountOf[c]]
         /\ k # "catalyst" => View(c, k).level = level[Holder(c, k)][k]
         /\ k = "catalyst" => View(c, k).level = 0
         /\ Holder(c, k) \in Char \union Account /\ AccountOf[c] \in Account
  <1> USE LedgerAssumption
  <1>1. AccountOf[c] \in Account /\ Holder(c, k) \in Char \union Account
    BY DEF Holder
  <1>2. k # "catalyst" => level[Holder(c, k)][k] \in 0..MaxLevel
    BY <1>1 DEF TypeOK, Kind
  <1> QED
    BY <1>1, <1>2 DEF TypeOK, View, Seen

LEMMA FaultType ==
  ASSUME TypeOK, NEW kind \in FaultKind, Fault(kind)
  PROVE  faults' \in [FaultKind -> Nat]
  BY DEF TypeOK, Fault

LEMMA TaskFacts ==
  ASSUME TypeOK, task.at # "idle"
  PROVE  /\ task.char \in Char /\ task.char \in online /\ task.kind \in Kind
         /\ task.seen \in Seen /\ task.by \in 0..MaxLevel
  BY DEF TypeOK, TaskType

-----------------------------------------------------------------------------
(* The exchange: every step of the ledger is one of its steps, or moves no table. *)

Tables == /\ aether \in [Char -> Nat] /\ residue \in [Account -> Nat]
          /\ level \in [Char \union Account -> [Good -> 0..MaxLevel]]

LEMMA ExchangeTypes ==
  ASSUME Tables, ExchangeOf!Next
  PROVE  Tables'
  <1> USE LedgerAssumption DEF Tables
  <1>1. PICK c \in Char :
          \/ \E reward \in Reward : ExchangeOf!Grant(c, reward)
          \/ \E lost \in 1..TollCap : ExchangeOf!Toll(c, lost)
          \/ \E k \in Good \ {"invest"} : ExchangeOf!Buy(c, k)
          \/ \E amount \in 1..MaxLevel : ExchangeOf!Invest(c, amount)
          \/ ExchangeOf!Convert(c)
    BY DEF ExchangeOf!Next
  <1>2. AccountOf[c] \in Account /\ aether[c] \in Nat /\ residue[AccountOf[c]] \in Nat
    OBVIOUS
  <1>3. ASSUME NEW reward \in Reward, ExchangeOf!Grant(c, reward) PROVE Tables'
    <2>1. reward.essence \in Nat /\ reward.residue \in Nat
      BY DEF Cost
    <2> QED
      BY <1>2, <1>3, <2>1 DEF ExchangeOf!Grant
  <1>4. ASSUME NEW lost \in 1..TollCap, ExchangeOf!Toll(c, lost) PROVE Tables'
    BY <1>2, <1>4 DEF ExchangeOf!Toll
  <1>5. ASSUME NEW k \in Good \ {"invest"}, ExchangeOf!Buy(c, k) PROVE Tables'
    <2> DEFINE n == level[c][k]
    <2>1. n \in 0..(MaxLevel - 1) /\ ExchangeOf!Holder(c, k) = c
      BY <1>5 DEF ExchangeOf!Buy, ExchangeOf!Holder
    <2>2. Price[k][n].essence \in Nat /\ Price[k][n].residue \in Nat
      <3>1. Price[k][n] \in Cost
        BY <2>1
      <3> QED
        BY <3>1 DEF Cost
    <2>3. /\ aether' = [aether EXCEPT ![c] = @ - Price[k][n].essence]
          /\ residue' = [residue EXCEPT ![AccountOf[c]] = @ - Price[k][n].residue]
          /\ level' = [level EXCEPT ![c][k] = n + 1]
          /\ aether[c] >= Price[k][n].essence
          /\ residue[AccountOf[c]] >= Price[k][n].residue
      BY <1>5, <2>1 DEF ExchangeOf!Buy
    <2>4. n + 1 \in 0..MaxLevel
      BY <2>1
    <2> HIDE DEF n
    <2> DEFINE p == Price[k][n].essence  q == Price[k][n].residue
    <2> HIDE DEF p, q
    <2>5. aether[c] - p \in Nat /\ residue[AccountOf[c]] - q \in Nat
      <3>1. p \in Nat /\ q \in Nat /\ aether[c] >= p /\ residue[AccountOf[c]] >= q
        BY <2>2, <2>3 DEF p, q
      <3> QED
        BY <1>2, <3>1
    <2>6. aether' \in [Char -> Nat] /\ residue' \in [Account -> Nat]
      BY <2>3, <2>5 DEF p, q
    <2>7. level' \in [Char \union Account -> [Good -> 0..MaxLevel]]
      BY <2>3, <2>4
    <2> QED
      BY <2>6, <2>7
  <1>6. ASSUME NEW amount \in 1..MaxLevel, ExchangeOf!Invest(c, amount) PROVE Tables'
    <2> DEFINE h == AccountOf[c]
    <2>1. ExchangeOf!Holder(c, "invest") = h
      BY DEF ExchangeOf!Holder
    <2>2. level[h]["invest"] \in 0..MaxLevel
      BY <1>2 DEF Good
    <2>3. level[h]["invest"] + amount \in 0..MaxLevel
      BY <1>6, <2>1, <2>2 DEF ExchangeOf!Invest
    <2>4. /\ aether' = [aether EXCEPT ![c] = @ - amount]
          /\ level' = [level EXCEPT ![h]["invest"] = @ + amount]
          /\ residue' = residue /\ aether[c] >= amount
      BY <1>6, <2>1 DEF ExchangeOf!Invest
    <2>5. aether' \in [Char -> Nat]
      BY <1>2, <2>4
    <2>6. level' \in [Char \union Account -> [Good -> 0..MaxLevel]]
      BY <1>2, <2>3, <2>4 DEF Good
    <2> QED
      BY <2>4, <2>5, <2>6
  <1>7. ASSUME ExchangeOf!Convert(c) PROVE Tables'
    BY <1>2, <1>7 DEF ExchangeOf!Convert
  <1> QED
    BY <1>1, <1>3, <1>4, <1>5, <1>6, <1>7

\* A guarded UPDATE that matches is a purchase at the price of the level reached.
LEMMA ApplyIsPurchase ==
  ASSUME TypeOK, SeenHolds, task.at = "writing",
         Matches(TaskView, task.seen, TaskColumns), Apply
  PROVE  ExchangeOf!Next
  <1> USE LedgerAssumption
  <1> DEFINE c == task.char  k == task.kind  seen == task.seen  by == task.by
             cost == CostOf(k, seen.level, by)  a == AccountOf[c]
  <1>1. c \in Char /\ k \in Kind /\ seen \in Seen /\ a \in Account
    BY TaskFacts
  <1>2. by \in Steps(k) /\ Affordable(k, seen, by)
    BY DEF SeenHolds
  <1>3. /\ seen.essence \in Nat /\ seen.residue \in Nat /\ seen.level \in Nat
        /\ seen.level + by <= MaxLevel
        /\ seen.essence >= cost.essence /\ seen.residue >= cost.residue
    BY <1>1, <1>2 DEF Seen, Affordable
  <1>4. /\ by \in Nat /\ cost.essence \in Nat /\ cost.residue \in Nat
        /\ k # "catalyst" /\ cost.residue > 0 => cost.essence = 0
    BY <1>1, <1>2, <1>3, CostFacts
  <1>5. /\ TaskView.essence = aether[c] /\ TaskView.residue = residue[a]
        /\ k # "catalyst" => TaskView.level = level[Holder(c, k)][k]
    BY <1>1, ViewType DEF TaskView
  <1>6. /\ k # "catalyst" => level[Holder(c, k)][k] = seen.level
        /\ k = "catalyst" \/ cost.residue > 0 => residue[a] = seen.residue
        /\ k = "catalyst" \/ ~(cost.residue > 0) => aether[c] = seen.essence
    BY <1>1, <1>5, MatchFacts DEF TaskColumns
  <1>7. aether[c] \in Nat /\ residue[a] \in Nat
    BY <1>1 DEF TypeOK
  <1>8. aether[c] >= cost.essence /\ residue[a] >= cost.residue
    BY <1>3, <1>4, <1>6, <1>7
  <1>12. /\ aether' = [aether EXCEPT ![c] = aether[c] - cost.essence +
                                    (IF k = "catalyst" THEN Catalyst.yield ELSE 0)]
        /\ residue' = [residue EXCEPT ![a] = residue[a] - cost.residue]
        /\ level' = IF k = "catalyst" THEN level
                    ELSE [level EXCEPT ![Holder(c, k)][k] = seen.level + by]
    BY DEF Apply
  <1> HIDE DEF c, k, seen, by, cost, a
  <1>9. CASE k = "catalyst"
    <2>1. cost.essence = 0 /\ cost.residue = Catalyst.residue
      BY <1>9 DEF CostOf, cost
    <2>2. /\ aether' = [aether EXCEPT ![c] = @ + Catalyst.yield]
          /\ residue' = [residue EXCEPT ![a] = @ - Catalyst.residue]
          /\ level' = level
      <3>1. aether[c] - 0 + Catalyst.yield = aether[c] + Catalyst.yield
        BY <1>7
      <3> QED
        BY <1>9, <1>12, <2>1, <3>1
    <2>3. ExchangeOf!Convert(c)
      BY <1>8, <2>1, <2>2 DEF ExchangeOf!Convert, a
    <2> QED
      BY <1>1, <2>3 DEF ExchangeOf!Next
  <1>10. CASE k = "invest"
    <2>1. cost.essence = by /\ cost.residue = 0 /\ by \in 1..MaxLevel /\ Holder(c, k) = a
      BY <1>2, <1>10 DEF CostOf, Steps, Holder, cost, a
    <2>2. /\ aether' = [aether EXCEPT ![c] = @ - by]
          /\ residue' = residue
          /\ level' = [level EXCEPT ![a]["invest"] = seen.level + by]
      <3>1. residue' = [residue EXCEPT ![a] = residue[a]]
        <4>1. residue[a] - 0 = residue[a]
          BY <1>7
        <4> QED
          BY <1>12, <2>1, <4>1
      <3>2. aether[c] - by + 0 = aether[c] - by
        BY <1>4, <1>7
      <3> QED
        BY <1>1, <1>10, <1>12, <2>1, <3>1, <3>2 DEF TypeOK
    <2>3. level[a]["invest"] = seen.level
      BY <1>6, <1>10, <2>1
    <2>4. ExchangeOf!Invest(c, by)
      BY <1>3, <1>8, <2>1, <2>2, <2>3 DEF ExchangeOf!Invest, ExchangeOf!Holder, a
    <2> QED
      BY <1>1, <2>1, <2>4 DEF ExchangeOf!Next
  <1>11. CASE k \in Good \ {"invest"}
    <2>1. cost = Price[k][seen.level] /\ by = 1 /\ Holder(c, k) = c
      BY <1>2, <1>11 DEF CostOf, Steps, Holder, Good, cost
    <2>2. k # "catalyst"
      BY <1>11 DEF Good
    <2>3. /\ aether' = [aether EXCEPT ![c] = @ - cost.essence]
          /\ residue' = [residue EXCEPT ![a] = @ - cost.residue]
          /\ level' = [level EXCEPT ![c][k] = seen.level + 1]
      <3>1. aether[c] - cost.essence + 0 = aether[c] - cost.essence
        BY <1>4, <1>7
      <3> QED
        BY <1>12, <2>1, <2>2, <3>1
    <2>4. level[c][k] = seen.level /\ seen.level < MaxLevel
      BY <1>3, <1>6, <2>1, <2>2
    <2>5. ExchangeOf!Buy(c, k)
      BY <1>8, <1>11, <2>1, <2>3, <2>4 DEF ExchangeOf!Buy, ExchangeOf!Holder, a
    <2> QED
      BY <1>1, <1>11, <2>5 DEF ExchangeOf!Next
  <1> QED
    BY <1>1, <1>9, <1>10, <1>11 DEF Kind

LEMMA StepIsExchange ==
  ASSUME TypeOK, SeenHolds, Next
  PROVE  ExchangeOf!Next \/ UNCHANGED tables
  <1> USE LedgerAssumption
  <1>1. CASE Write
    <2>1. CASE UNCHANGED tables
      BY <2>1
    <2>2. CASE Matches(TaskView, task.seen, TaskColumns) /\ Apply
      BY <1>1, <2>2, ApplyIsPurchase DEF Write
    <2> QED
      BY <1>1, <2>1, <2>2 DEF Write
  <1>2. ASSUME NEW c \in Char, NEW reward \in Reward, Pay(c, reward)
        PROVE  ExchangeOf!Next
    <2>1. ExchangeOf!Grant(c, reward)
      BY <1>2 DEF Pay, ExchangeOf!Grant
    <2> QED
      BY <2>1 DEF ExchangeOf!Next
  <1>3. ASSUME NEW c \in Char, ApplyQueued(c) PROVE ExchangeOf!Next
    <2> DEFINE reward == [essence |-> FragmentEssence, residue |-> 0]
    <2>1. aether' = [aether EXCEPT ![c] = @ + reward.essence]
      BY <1>3 DEF ApplyQueued
    <2>2. residue' = [residue EXCEPT ![AccountOf[c]] = @ + reward.residue]
      <3>1. residue' = residue /\ residue \in [Account -> Nat] /\ AccountOf[c] \in Account
        BY <1>3 DEF ApplyQueued, TypeOK
      <3> QED
        BY <3>1
    <2>3. reward \in Reward /\ level' = level
      BY <1>3 DEF ApplyQueued
    <2> HIDE DEF reward
    <2>4. ExchangeOf!Grant(c, reward)
      BY <2>1, <2>2, <2>3 DEF ExchangeOf!Grant
    <2> QED
      BY <2>3, <2>4 DEF ExchangeOf!Next
  <1>4. ASSUME NEW c \in Char, DeathToll(c) PROVE ExchangeOf!Next
    <2>1. PICK lost \in 1..TollCap :
             lost <= aether[c] /\ aether' = [aether EXCEPT ![c] = @ - lost]
      BY <1>4 DEF DeathToll
    <2>2. ExchangeOf!Toll(c, lost)
      BY <1>4, <2>1 DEF DeathToll, ExchangeOf!Toll
    <2> QED
      BY <2>2 DEF ExchangeOf!Next
  <1>5. CASE Check \/ Verify \/ Sync \/ Return \/ Crash
    BY <1>5 DEF Check, Verify, Sync, Return, Crash, tables
  <1>6. ASSUME NEW c \in Char, NEW k \in Kind, NEW by \in Steps(k), Start(c, k, by)
        PROVE  UNCHANGED tables
    BY <1>6 DEF Start, tables
  <1>7. ASSUME NEW c \in Char, UseFragment(c) \/ Login(c) \/ Logout(c)
        PROVE  UNCHANGED tables
    BY <1>7 DEF UseFragment, Login, Logout, tables
  <1> QED
    BY <1>1, <1>2, <1>3, <1>4, <1>5, <1>6, <1>7 DEF Next, PurchaseStep, PlayerStep

LEMMA TablesStep ==
  ASSUME TypeOK, SeenHolds, Next
  PROVE  Tables'
  <1>1. Tables
    BY DEF TypeOK, Tables
  <1>2. CASE ExchangeOf!Next
    BY <1>1, <1>2, ExchangeTypes
  <1>3. CASE UNCHANGED tables
    BY <1>1, <1>3 DEF Tables, tables
  <1> QED
    BY <1>2, <1>3, StepIsExchange

-----------------------------------------------------------------------------
(* Type correctness. *)

LEMMA IdleType == Idle \in TaskType /\ Idle.at = "idle"
  BY LedgerAssumption DEF Idle, TaskType, NoSeen, Seen, Status

LEMMA InitType == Init => TypeOK
  BY LedgerAssumption, IdleType DEF Init, TypeOK

LEMMA AnswerType ==
  ASSUME TypeOK, NEW status \in Status, Answer(status)
  PROVE  task' \in TaskType /\ task'.char = task.char /\ task'.kind = task.kind
         /\ task'.at = "answering" /\ task'.status = status /\ task'.spent = task.spent
         /\ task'.seen = task.seen /\ task'.by = task.by
  BY DEF TypeOK, Answer, TaskType

LEMMA TypeStep == TypeOK /\ SeenHolds /\ [Next]_vars => TypeOK'
  <1> SUFFICES ASSUME TypeOK, SeenHolds, Next PROVE TypeOK'
    BY DEF TypeOK, vars, tables
  <1> USE LedgerAssumption
  <1>1. /\ aether' \in [Char -> Nat]
        /\ residue' \in [Account -> Nat]
        /\ level' \in [Char \union Account -> [Good -> 0..MaxLevel]]
    BY TablesStep DEF Tables
  <1>2. ASSUME NEW c \in Char, NEW k \in Kind, NEW by \in Steps(k), Start(c, k, by)
        PROVE  TypeOK'
    <2>1. View(c, k) \in Seen /\ by \in 0..MaxLevel
      <3>1. View(c, k) \in Seen
        BY ViewType
      <3>2. by \in Nat /\ View(c, k).level + by <= MaxLevel
        BY <1>2 DEF Start, Affordable, Steps
      <3> QED
        BY <3>1, <3>2 DEF Seen
    <2>2. task' \in TaskType /\ task'.char = c /\ task'.kind = k
      BY <1>2, <2>1 DEF Start, TaskType, Status
    <2> QED
      BY <1>1, <1>2, <2>2 DEF Start, TypeOK
  <1>3. ASSUME Check PROVE TypeOK'
    <2>1. task' \in TaskType /\ task'.char = task.char /\ task'.kind = task.kind
      <3>1. CASE task' = [task EXCEPT !.at = "writing"]
        BY <3>1 DEF TypeOK, TaskType
      <3>2. CASE Answer("STALE_PREVIEW") \/ Answer("SERVICE_UNAVAILABLE")
        BY <3>2, AnswerType DEF Status
      <3> QED
        BY <1>3, <3>1, <3>2 DEF Check
    <2>2. faults' \in [FaultKind -> Nat]
      BY <1>3, FaultType DEF Check, NoFault, TypeOK, FaultKind
    <2> QED
      BY <1>1, <1>3, <2>1, <2>2, TaskFacts DEF Check, TypeOK
  <1>4. ASSUME Write PROVE TypeOK'
    <2>1. task' \in TaskType /\ task'.char = task.char /\ task'.kind = task.kind
      <3>1. CASE task' = [task EXCEPT !.at = "verifying", !.spent = TRUE]
                 \/ task' = [task EXCEPT !.at = "verifying"]
        BY <3>1 DEF TypeOK, TaskType
      <3>2. CASE Answer("DATABASE_FAILURE")
        BY <3>2, AnswerType DEF Status
      <3> QED
        BY <1>4, <3>1, <3>2 DEF Write
    <2>2. faults' \in [FaultKind -> Nat]
      BY <1>4, FaultType DEF Write, NoFault, TypeOK, FaultKind
    <2> QED
      BY <1>1, <1>4, <2>1, <2>2, TaskFacts DEF Write, TypeOK
  <1>5. ASSUME Verify PROVE TypeOK'
    <2>1. task' \in TaskType /\ task'.char = task.char /\ task'.kind = task.kind
      <3>1. ASSUME NEW at \in {"syncing", "answering"},
                   task' = [task EXCEPT !.at = at, !.status = Verdict]
            PROVE  task' \in TaskType /\ task'.char = task.char /\ task'.kind = task.kind
        <4>1. Verdict \in Status
          BY DEF Verdict, Status
        <4> QED
          BY <3>1, <4>1 DEF TypeOK, TaskType
      <3>2. CASE Answer("POST_VERIFY_FAILURE")
        BY <3>2, AnswerType DEF Status
      <3> QED
        BY <1>5, <3>1, <3>2 DEF Verify
    <2>2. faults' \in [FaultKind -> Nat]
      BY <1>5, FaultType DEF Verify, NoFault, TypeOK, FaultKind
    <2> QED
      BY <1>1, <1>5, <2>1, <2>2, TaskFacts DEF Verify, TypeOK
  <1>6. ASSUME Sync PROVE TypeOK'
    <2>1. task' \in TaskType /\ task'.char = task.char /\ task'.kind = task.kind
      <3>1. task.status \in Status
        BY DEF TypeOK, TaskType
      <3> QED
        BY <1>6, <3>1, AnswerType DEF Sync
    <2>2. faults' \in [FaultKind -> Nat]
      BY <1>6, FaultType DEF Sync, NoFault, TypeOK, FaultKind
    <2>3. token' \in [Char -> Nat]
      BY <1>6 DEF Sync, TypeOK
    <2> QED
      BY <1>1, <1>6, <2>1, <2>2, <2>3, TaskFacts DEF Sync, TypeOK
  <1>7. ASSUME Return PROVE TypeOK'
    BY <1>1, <1>7, IdleType DEF Return, TypeOK
  <1>8. ASSUME NEW c \in Char, NEW reward \in Reward, Pay(c, reward) PROVE TypeOK'
    <2>1. token' \in [Char -> Nat]
      <3>1. reward.residue \in Nat /\ token \in [Char -> Nat]
        BY DEF Cost, TypeOK
      <3>2. token' = [token EXCEPT ![c] = token[c] + reward.residue] \/ token' = token
        BY <1>8 DEF Pay
      <3>3. token[c] + reward.residue \in Nat
        BY <3>1
      <3> QED
        BY <3>1, <3>2, <3>3
    <2>2. faults' \in [FaultKind -> Nat]
      BY <1>8, FaultType DEF Pay, NoFault, TypeOK, FaultKind
    <2>3. rewards' \in Nat
      BY <1>8 DEF Pay, CountReward, TypeOK
    <2>4. UNCHANGED <<queued, online, task>>
      BY <1>8 DEF Pay
    <2> QED
      BY <1>1, <2>1, <2>2, <2>3, <2>4 DEF TypeOK
  <1>9. ASSUME NEW c \in Char, UseFragment(c) \/ ApplyQueued(c) PROVE TypeOK'
    <2>1. queued' \in [Char -> Nat] /\ rewards' \in Nat
      <3>1. queued[c] \in Nat /\ rewards \in Nat
        BY DEF TypeOK
      <3>2. CASE UseFragment(c)
        BY <3>1, <3>2 DEF UseFragment, CountReward, TypeOK
      <3>3. CASE ApplyQueued(c)
        BY <3>1, <3>3 DEF ApplyQueued, TypeOK
      <3> QED
        BY <1>9, <3>2, <3>3
    <2> QED
      BY <1>1, <1>9, <2>1 DEF UseFragment, ApplyQueued, TypeOK
  <1>10. ASSUME NEW c \in Char, DeathToll(c) PROVE TypeOK'
    BY <1>1, <1>10 DEF DeathToll, CountReward, TypeOK
  <1>11. ASSUME NEW c \in Char, Login(c) PROVE TypeOK'
    <2>1. residue[AccountOf[c]] \in Nat
      BY DEF TypeOK
    <2>2. token' \in [Char -> Nat]
      BY <1>11, <2>1 DEF Login, LoginLevel, TypeOK
    <2>3. faults' \in [FaultKind -> Nat]
      BY <1>11, FaultType DEF Login, LoginLevel, NoFault, TypeOK, FaultKind
    <2> QED
      BY <1>1, <1>11, <2>2, <2>3 DEF Login, TypeOK
  <1>12. ASSUME NEW c \in Char, Logout(c) PROVE TypeOK'
    BY <1>1, <1>12 DEF Logout, TypeOK
  <1>13. ASSUME Crash PROVE TypeOK'
    <2>1. faults' \in [FaultKind -> Nat]
      BY <1>13, FaultType DEF Crash, FaultKind
    <2>2. token' \in [Char -> Nat] /\ queued' \in [Char -> Nat]
      BY <1>13 DEF Crash
    <2> QED
      BY <1>1, <1>13, <2>1, <2>2, IdleType DEF Crash, TypeOK
  <1> QED
    BY <1>2, <1>3, <1>4, <1>5, <1>6, <1>7, <1>8, <1>9, <1>10, <1>11, <1>12, <1>13
    DEF Next, PurchaseStep, PlayerStep

-----------------------------------------------------------------------------
(* What a purchase has seen. *)

LEMMA SeenStep == TypeOK /\ SeenHolds /\ [Next]_vars => SeenHolds'
  <1> SUFFICES ASSUME TypeOK, SeenHolds, [Next]_vars PROVE SeenHolds'
    OBVIOUS
  <1> USE LedgerAssumption
  <1>1. ASSUME task'.at \notin {"checking", "writing", "verifying"} PROVE SeenHolds'
    BY <1>1 DEF SeenHolds, Unspent
  <1>2. ASSUME NEW c \in Char, NEW k \in Kind, NEW by \in Steps(k), Start(c, k, by)
        PROVE  SeenHolds'
    <2>1. /\ task'.char = c /\ task'.kind = k /\ task'.seen = View(c, k) /\ task'.by = by
          /\ Affordable(k, View(c, k), by) /\ UNCHANGED tables
      BY <1>2 DEF Start
    <2>2. TaskView' = View(c, k)
      BY <2>1 DEF TaskView, View, Holder, tables
    <2> QED
      BY <2>1, <2>2 DEF SeenHolds
  <1>3. ASSUME UNCHANGED <<residue, level, task.char, task.kind, task.seen, task.by>>,
               task.at \in {"checking", "writing", "verifying"}, Unspent' => Unspent
        PROVE  SeenHolds'
    <2>1. TaskView'.level = TaskView.level /\ TaskView'.residue = TaskView.residue
      BY <1>3 DEF TaskView, View, Holder
    <2>2. /\ task.by \in Steps(task.kind) /\ Affordable(task.kind, task.seen, task.by)
          /\ Unspent => TaskView.level = task.seen.level /\ TaskView.residue = task.seen.residue
      BY <1>3 DEF SeenHolds
    <2> QED
      BY <1>3, <2>1, <2>2 DEF SeenHolds
  <1>4. CASE Check
    <2>1. CASE task' = [task EXCEPT !.at = "writing"]
      <3>1. UNCHANGED <<task.char, task.kind, task.seen, task.by>>
        BY <2>1 DEF TypeOK, TaskType
      <3>2. task.at = "checking" /\ UNCHANGED tables
        BY <1>4 DEF Check
      <3>3. Unspent
        BY <3>2 DEF Unspent
      <3>4. UNCHANGED <<residue, level>>
        BY <3>2 DEF tables
      <3> QED
        BY <1>3, <3>1, <3>2, <3>3, <3>4
    <2>2. CASE Answer("STALE_PREVIEW") \/ Answer("SERVICE_UNAVAILABLE")
      BY <1>1, <2>2, AnswerType DEF Status
    <2> QED
      BY <1>4, <2>1, <2>2 DEF Check
  <1>5. CASE Write
    <2>1. CASE task' = [task EXCEPT !.at = "verifying", !.spent = TRUE] /\ Apply
      <3>1. /\ ~Unspent' /\ task'.at = "verifying"
            /\ UNCHANGED <<task.kind, task.seen, task.by>>
        BY <2>1 DEF TypeOK, TaskType, Unspent
      <3>2. task.by \in Steps(task.kind) /\ Affordable(task.kind, task.seen, task.by)
        BY <1>5 DEF Write, SeenHolds
      <3> QED
        BY <3>1, <3>2 DEF SeenHolds
    <2>2. CASE task' = [task EXCEPT !.at = "verifying"] /\ UNCHANGED tables
      <3>1. UNCHANGED <<task.char, task.kind, task.seen, task.by>>
        BY <2>2 DEF TypeOK, TaskType
      <3>2. task.at = "writing"
        BY <1>5 DEF Write
      <3>3. Unspent
        BY <3>2 DEF Unspent
      <3>4. UNCHANGED <<residue, level>>
        BY <2>2 DEF tables
      <3> QED
        BY <1>3, <3>1, <3>2, <3>3, <3>4
    <2>3. CASE Answer("DATABASE_FAILURE")
      BY <1>1, <2>3, AnswerType DEF Status
    <2> QED
      BY <1>5, <2>1, <2>2, <2>3 DEF Write
  <1>6. CASE Verify
    <2>1. CASE Answer("POST_VERIFY_FAILURE")
      BY <1>1, <2>1, AnswerType DEF Status
    <2>2. ASSUME NEW at \in {"syncing", "answering"},
                 task' = [task EXCEPT !.at = at, !.status = Verdict]
          PROVE  SeenHolds'
      <3>1. task'.at = at
        BY <2>2 DEF TypeOK, TaskType
      <3> QED
        BY <1>1, <3>1
    <2> QED
      BY <1>6, <2>1, <2>2 DEF Verify
  <1>7. CASE Sync
    <2>1. task.status \in Status
      BY DEF TypeOK, TaskType
    <2>2. task'.at = "answering"
      BY <1>7, <2>1, AnswerType DEF Sync
    <2> QED
      BY <1>1, <2>2
  <1>8. CASE Return \/ Crash
    BY <1>1, <1>8, IdleType DEF Return, Crash
  <1>9. ASSUME NEW c \in Char, ApplyQueued(c) PROVE SeenHolds'
    <2>1. UNCHANGED <<residue, level, task>>
      BY <1>9 DEF ApplyQueued
    <2>2. Unspent' => Unspent
      BY <2>1 DEF Unspent
    <2> QED
      BY <1>1, <1>3, <2>1, <2>2
  <1>10. ASSUME NEW c \in Char,
                \/ \E reward \in Reward : Pay(c, reward)
                \/ UseFragment(c) \/ DeathToll(c) \/ Login(c) \/ Logout(c)
         PROVE  SeenHolds'
    <2>1. task.at = "idle" /\ task' = task
      BY <1>10 DEF Pay, UseFragment, DeathToll, Login, Logout
    <2> QED
      BY <1>1, <2>1
  <1>11. CASE UNCHANGED vars
    <2>1. UNCHANGED <<residue, level, task>>
      BY <1>11 DEF vars, tables
    <2>2. Unspent' => Unspent
      BY <2>1 DEF Unspent
    <2> QED
      BY <1>1, <1>3, <2>1, <2>2
  <1> QED
    BY <1>2, <1>4, <1>5, <1>6, <1>7, <1>8, <1>9, <1>10, <1>11
    DEF Next, PurchaseStep, PlayerStep

-----------------------------------------------------------------------------
(* An answer of SUCCESS. *)

\* The read-back of a write that was lost or did not match cannot look like a purchase:
\* the level of a good, and the Residue the Catalyst takes, would have had to move.
LEMMA UnspentIsStale ==
  ASSUME TypeOK, SeenHolds, task.at = "verifying", Verdict = "SUCCESS"
  PROVE  task.spent
  <1> USE LedgerAssumption
  <1>1. SUFFICES ASSUME ~task.spent PROVE FALSE
    OBVIOUS
  <1>2. /\ TaskView.level = task.seen.level /\ TaskView.residue = task.seen.residue
        /\ task.by \in Steps(task.kind)
    BY <1>1 DEF SeenHolds, Unspent
  <1>3. Matches(TaskView, TaskTarget, TaskColumns)
    BY DEF Verdict
  <1>4. /\ task.kind # "catalyst" => TaskView.level = TaskTarget.level
        /\ task.kind = "catalyst" => TaskView.residue = TaskTarget.residue
    BY <1>3, TaskFacts, MatchFacts DEF TaskColumns
  <1>5. task.seen.level \in Nat /\ task.seen.residue \in Nat
    BY TaskFacts DEF Seen
  <1>6. CASE task.kind = "catalyst"
    <2>1. TaskTarget.residue = task.seen.residue - Catalyst.residue
      BY <1>6 DEF TaskTarget, Target, CostOf
    <2> QED
      BY <1>2, <1>4, <1>5, <1>6, <2>1
  <1>7. CASE task.kind # "catalyst"
    <2>1. TaskTarget.level = task.seen.level + task.by
      BY DEF TaskTarget, Target
    <2>2. task.by \in Nat \ {0}
      BY <1>2, <1>7 DEF Steps
    <2> QED
      BY <1>2, <1>4, <1>5, <1>7, <2>1, <2>2
  <1> QED
    BY <1>6, <1>7

LEMMA SuccessStep ==
  TypeOK /\ SeenHolds /\ SuccessMeansSpent /\ [Next]_vars => SuccessMeansSpent'
  <1> SUFFICES ASSUME TypeOK, SeenHolds, SuccessMeansSpent, [Next]_vars
               PROVE  SuccessMeansSpent'
    OBVIOUS
  <1>1. ASSUME task'.at \notin {"syncing", "answering"} PROVE SuccessMeansSpent'
    BY <1>1 DEF SuccessMeansSpent
  <1>2. ASSUME NEW status \in Status \ {"SUCCESS"}, Answer(status) PROVE SuccessMeansSpent'
    BY <1>2, AnswerType DEF SuccessMeansSpent
  <1>3. CASE Verify
    <2>1. ASSUME NEW at \in {"syncing", "answering"},
                 task' = [task EXCEPT !.at = at, !.status = Verdict]
          PROVE  SuccessMeansSpent'
      <3>1. task'.status = Verdict /\ task'.spent = task.spent
        BY <2>1 DEF TypeOK, TaskType
      <3> QED
        BY <1>3, <3>1, UnspentIsStale DEF Verify, SuccessMeansSpent
    <2> QED
      BY <1>2, <1>3, <2>1 DEF Verify, Status
  <1>4. CASE Sync
    <2>1. task.status \in Status
      BY DEF TypeOK, TaskType
    <2>2. task'.status = task.status /\ task'.spent = task.spent
      BY <1>4, <2>1, AnswerType DEF Sync
    <2> QED
      BY <1>4, <2>2 DEF Sync, SuccessMeansSpent
  <1>5. CASE Check
    <2>1. CASE task' = [task EXCEPT !.at = "writing"]
      <3>1. task'.at = "writing"
        BY <2>1 DEF TypeOK, TaskType
      <3> QED
        BY <1>1, <3>1
    <2> QED
      BY <1>2, <1>5, <2>1 DEF Check, Status
  <1>6. CASE Write
    <2>1. CASE task' = [task EXCEPT !.at = "verifying", !.spent = TRUE]
               \/ task' = [task EXCEPT !.at = "verifying"]
      <3>1. task'.at = "verifying"
        BY <2>1 DEF TypeOK, TaskType
      <3> QED
        BY <1>1, <3>1
    <2> QED
      BY <1>2, <1>6, <2>1 DEF Write, Status
  <1>7. CASE Return \/ Crash
    BY <1>1, <1>7, IdleType DEF Return, Crash
  <1>8. ASSUME NEW c \in Char, NEW k \in Kind, NEW by \in Steps(k), Start(c, k, by)
        PROVE  SuccessMeansSpent'
    BY <1>1, <1>8 DEF Start
  <1>9. CASE UNCHANGED task
    BY <1>9 DEF SuccessMeansSpent
  <1>10. ASSUME NEW c \in Char,
                \/ \E reward \in Reward : Pay(c, reward)
                \/ UseFragment(c) \/ DeathToll(c) \/ Login(c) \/ Logout(c) \/ ApplyQueued(c)
         PROVE  UNCHANGED task
    BY <1>10 DEF Pay, UseFragment, DeathToll, Login, Logout, ApplyQueued
  <1> QED
    BY <1>3, <1>4, <1>5, <1>6, <1>7, <1>8, <1>9, <1>10
    DEF Next, PurchaseStep, PlayerStep, vars

-----------------------------------------------------------------------------
(* The items in the bags. *)

LEMMA StillClean ==
  ASSUME TypeOK, NEW kind \in FaultKind, NEW other \in FaultKind,
         Fault(other), Clean(kind)'
  PROVE  Clean(kind) /\ kind # other
  BY DEF TypeOK, Fault, Clean

\* A purchase takes Residue only if the verdict looks at it.
LEMMA UnpaidInResidue ==
  ASSUME TypeOK, SeenHolds, task.at = "writing", ~PaidInResidue, Apply
  PROVE  residue' = residue
  <1> USE LedgerAssumption
  <1>1. /\ task.kind \in Kind /\ task.char \in Char /\ task.seen.level \in Nat
        /\ task.by \in Steps(task.kind) /\ Affordable(task.kind, task.seen, task.by)
    BY TaskFacts DEF SeenHolds, Seen
  <1> DEFINE cost == CostOf(task.kind, task.seen.level, task.by).residue
  <1>2. cost \in Nat
    BY <1>1, CostFacts DEF Affordable
  <1>3. ~(cost > 0)
    BY DEF PaidInResidue, TaskColumns, Compared
  <1>4. cost = 0
    BY <1>2, <1>3
  <1>5. residue' = [residue EXCEPT ![AccountOf[task.char]] = residue[AccountOf[task.char]] - cost]
    BY DEF Apply
  <1> HIDE DEF cost
  <1>6. residue[AccountOf[task.char]] - 0 = residue[AccountOf[task.char]]
    BY <1>1 DEF TypeOK
  <1> QED
    BY <1>4, <1>5, <1>6 DEF TypeOK

LEMMA TokensStep ==
  TypeOK /\ SeenHolds /\ TokensBounded /\ [Next]_vars => TokensBounded'
  <1> SUFFICES ASSUME TypeOK, SeenHolds, TokensBounded, [Next]_vars,
                      Clean("read")', Clean("call")', NEW d \in online'
               PROVE  token'[d] <= residue'[AccountOf[d]] \/ Lagging(d)'
    BY DEF TokensBounded
  <1> USE LedgerAssumption
  <1> DEFINE Goal == token'[d] <= residue'[AccountOf[d]] \/ Lagging(d)'
  <1>1. ASSUME NoFault \/ \E kind \in FaultKind : Fault(kind)
        PROVE  Clean("read") /\ Clean("call")
    <2>1. "read" \in FaultKind /\ "call" \in FaultKind
      BY DEF FaultKind
    <2> QED
      BY <1>1, <2>1, StillClean DEF NoFault, Clean
  <1>2. ASSUME Clean("read"), Clean("call"), d \in online
        PROVE  token[d] <= residue[AccountOf[d]] \/ Lagging(d)
    BY <1>2 DEF TokensBounded
  <1>3. ~Fault("read") /\ ~Fault("call")
    <2>1. "read" \in FaultKind /\ "call" \in FaultKind
      BY DEF FaultKind
    <2> QED
      BY <2>1, StillClean
  <1>4. ASSUME NoFault \/ Fault("write"), d \in online, UNCHANGED <<token, residue>>,
               Lagging(d) => Lagging(d)'
        PROVE  Goal
    <2>1. Clean("read") /\ Clean("call")
      BY <1>1, <1>4 DEF FaultKind
    <2> QED
      BY <1>2, <1>4, <2>1
  <1>5. d \in online => token[d] \in Nat /\ residue[AccountOf[d]] \in Nat /\ AccountOf[d] \in Account
    BY DEF TypeOK
  <1>6. CASE Check
    <2>1. ~Lagging(d)
      BY <1>6 DEF Check, Lagging
    <2>2. NoFault /\ UNCHANGED <<token, tables, online>>
      BY <1>3, <1>6 DEF Check
    <2> QED
      BY <1>4, <2>1, <2>2 DEF tables
  <1>7. CASE Write
    <2>1. ~Lagging(d) /\ UNCHANGED <<token, online>> /\ (NoFault \/ Fault("write"))
      BY <1>7 DEF Write, Lagging
    <2>2. CASE UNCHANGED tables
      BY <1>4, <2>1, <2>2 DEF tables
    <2>3. CASE Apply /\ task' = [task EXCEPT !.at = "verifying", !.spent = TRUE]
      <3>1. token[d] <= residue[AccountOf[d]]
        BY <1>1, <1>2, <2>1 DEF FaultKind
      <3>2. CASE ~PaidInResidue
        BY <1>7, <2>1, <2>3, <3>1, <3>2, UnpaidInResidue DEF Write
      <3>3. CASE PaidInResidue /\ AccountOf[d] = AccountOf[task.char]
        <4>1. /\ task'.at = "verifying" /\ task'.char = task.char
              /\ UNCHANGED <<task.kind, task.seen, task.by>>
          BY <2>3 DEF TypeOK, TaskType
        <4>2. PaidInResidue'
          BY <3>3, <4>1 DEF PaidInResidue, TaskColumns
        <4> QED
          BY <3>3, <4>1, <4>2 DEF Lagging
      <3>4. CASE AccountOf[d] # AccountOf[task.char]
        <4>1. residue'[AccountOf[d]] = residue[AccountOf[d]]
          BY <1>5, <2>1, <2>3, <3>4 DEF Apply, TypeOK
        <4> QED
          BY <2>1, <3>1, <4>1
      <3> QED
        BY <3>2, <3>3, <3>4
    <2> QED
      BY <1>7, <2>2, <2>3 DEF Write
  <1>8. CASE Verify
    <2>1. /\ NoFault /\ UNCHANGED <<token, tables, online>>
          /\ task' = [task EXCEPT !.at = IF PaidInResidue THEN "syncing" ELSE "answering",
                                  !.status = Verdict]
      BY <1>3, <1>8 DEF Verify
    <2>2. ASSUME Lagging(d) PROVE Lagging(d)'
      <3>1. PaidInResidue
        BY <2>2 DEF Lagging
      <3>2. /\ task'.at = "syncing" /\ task'.char = task.char
            /\ UNCHANGED <<task.kind, task.seen, task.by>>
        BY <2>1, <3>1 DEF TypeOK, TaskType
      <3>3. PaidInResidue'
        BY <3>1, <3>2 DEF PaidInResidue, TaskColumns
      <3> QED
        BY <2>2, <3>2, <3>3 DEF Lagging
    <2> QED
      BY <1>4, <2>1, <2>2 DEF tables
  <1>9. CASE Sync
    <2>1. /\ NoFault /\ UNCHANGED <<tables, online>>
          /\ token' = [c \in Char |-> IF c \in Levelled(task.char)
                                      THEN residue[AccountOf[c]] ELSE token[c]]
      BY <1>3, <1>9 DEF Sync
    <2>2. d \in Char /\ residue' = residue
      BY <2>1 DEF TypeOK, tables
    <2>3. CASE d \in Levelled(task.char)
      <3>1. token'[d] = residue'[AccountOf[d]] /\ residue[AccountOf[d]] \in Nat
        BY <2>1, <2>2, <2>3 DEF TypeOK
      <3> QED
        BY <2>2, <3>1
    <2>4. CASE d \notin Levelled(task.char)
      <3>1. ~Lagging(d) /\ d \in online
        BY <2>1, <2>4 DEF Levelled, Lagging
      <3>2. token'[d] = token[d]
        BY <2>1, <2>2, <2>4
      <3> QED
        BY <1>1, <1>2, <2>1, <2>2, <3>1, <3>2
    <2> QED
      BY <2>3, <2>4
  <1>10. ASSUME NEW c \in Char, NEW reward \in Reward, Pay(c, reward) PROVE Goal
    <2>1. /\ NoFault /\ UNCHANGED online /\ task.at = "idle"
          /\ token' = [token EXCEPT ![c] = @ + reward.residue]
          /\ residue' = [residue EXCEPT ![AccountOf[c]] = @ + reward.residue]
      BY <1>3, <1>10 DEF Pay
    <2>2. d \in online /\ d \in Char /\ reward.residue \in Nat /\ AccountOf[c] \in Account
      BY <2>1 DEF TypeOK, Cost
    <2>3. token[d] <= residue[AccountOf[d]]
      BY <1>1, <1>2, <2>1, <2>2 DEF Lagging
    <2>4. token'[d] = IF d = c THEN token[d] + reward.residue ELSE token[d]
      BY <2>1, <2>2 DEF TypeOK
    <2>5. residue'[AccountOf[d]] = IF AccountOf[d] = AccountOf[c]
                                   THEN residue[AccountOf[d]] + reward.residue
                                   ELSE residue[AccountOf[d]]
      BY <1>5, <2>1, <2>2 DEF TypeOK
    <2> QED
      BY <1>5, <2>2, <2>3, <2>4, <2>5
  <1>11. ASSUME NEW c \in Char, Login(c) PROVE Goal
    <2>1. /\ NoFault /\ online' = online \union {c} /\ UNCHANGED tables /\ task.at = "idle"
          /\ token' = [token EXCEPT ![c] = residue[AccountOf[c]]]
      BY <1>3, <1>11 DEF Login, LoginLevel
    <2>2. residue' = residue /\ residue[AccountOf[c]] \in Nat
      BY <2>1 DEF tables, TypeOK
    <2>3. CASE d = c
      BY <2>1, <2>2, <2>3 DEF TypeOK
    <2>4. CASE d # c
      <3>1. d \in online /\ token'[d] = token[d]
        BY <2>1, <2>4 DEF TypeOK
      <3> QED
        BY <1>1, <1>2, <2>1, <2>2, <3>1 DEF Lagging
    <2> QED
      BY <2>3, <2>4
  <1>12. CASE Crash
    BY <1>12 DEF Crash
  <1>13. ASSUME NEW c \in Char, Logout(c) PROVE Goal
    <2>1. NoFault /\ d \in online /\ UNCHANGED <<token, tables>> /\ ~Lagging(d)
      BY <1>13 DEF Logout, NoFault, Lagging
    <2> QED
      BY <1>4, <2>1 DEF tables
  <1>14. ASSUME NEW c \in Char, \/ UseFragment(c) \/ DeathToll(c)
                                \/ \E k \in Kind : \E by \in Steps(k) : Start(c, k, by)
         PROVE  Goal
    <2>1. NoFault /\ UNCHANGED <<token, residue, online>> /\ ~Lagging(d)
      BY <1>14 DEF UseFragment, DeathToll, Start, NoFault, Lagging, tables
    <2> QED
      BY <1>4, <2>1
  <1>15. ASSUME UNCHANGED <<token, residue, online, faults>>, task' = task
         PROVE  Goal
    <2>1. Lagging(d) => Lagging(d)'
      BY <1>15 DEF Lagging, PaidInResidue, TaskColumns
    <2> QED
      BY <1>4, <1>15, <2>1 DEF NoFault
  <1>16. ASSUME NEW c \in Char, ApplyQueued(c) PROVE Goal
    BY <1>15, <1>16 DEF ApplyQueued
  <1>17. CASE UNCHANGED vars
    BY <1>15, <1>17 DEF vars, tables
  <1>18. CASE Return
    <2>1. NoFault /\ UNCHANGED <<token, residue, online>> /\ ~Lagging(d)
      BY <1>18 DEF Return, NoFault, Lagging, tables
    <2> QED
      BY <1>4, <2>1
  <1> QED
    BY <1>6, <1>7, <1>8, <1>9, <1>10, <1>11, <1>12, <1>13, <1>14, <1>16, <1>17, <1>18
    DEF Next, PurchaseStep, PlayerStep

-----------------------------------------------------------------------------
LEMMA InvInit == Init => Inv
  <1> SUFFICES ASSUME Init PROVE Inv
    OBVIOUS
  <1>1. TypeOK
    BY InitType
  <1>2. task.at = "idle" /\ online = {}
    BY IdleType DEF Init
  <1> QED
    BY <1>1, <1>2 DEF Inv, SeenHolds, Unspent, SuccessMeansSpent, TokensBounded

LEMMA InvStep == Inv /\ [Next]_vars => Inv'
  BY TypeStep, SeenStep, SuccessStep, TokensStep DEF Inv

LEMMA InvAlways == Spec => []Inv
  BY InvInit, InvStep, PTL DEF Spec

\* The balances, levels and items stay natural numbers and the task well formed, whatever
\* prices, rewards and numbers of faults.
THEOREM TypeCorrect == Spec => []TypeOK
  <1>1. Inv => TypeOK
    BY DEF Inv
  <1> QED
    BY <1>1, InvAlways, PTL

\* Whatever moves the balances between a purchase's steps, and however its write fails, an
\* answer of SUCCESS is given only for a purchase that took place.
THEOREM SuccessMeansSpentAlways == Spec => []SuccessMeansSpent
  <1>1. Inv => SuccessMeansSpent
    BY DEF Inv
  <1> QED
    BY <1>1, InvAlways, PTL

\* While reads and the core work, no character of an account of any size carries more
\* Residue than the account owns.
THEOREM NoExcessTokensAlways == Spec => []NoExcessTokens
  <1>1. Inv => NoExcessTokens
    BY DEF Inv, TokensBounded, NoExcessTokens, Lagging
  <1> QED
    BY <1>1, InvAlways, PTL

\* The five purchases, the rewards and the death toll implement the abstract exchange.
THEOREM ImplementsExchange == Spec => ExchangeSpec
  <1>1. Init => ExchangeOf!Init
    BY DEF Init, ExchangeOf!Init
  <1>2. Inv /\ [Next]_vars => [ExchangeOf!Next]_(ExchangeOf!vars)
    BY StepIsExchange DEF Inv, vars, tables, ExchangeOf!vars
  <1> QED
    BY <1>1, <1>2, InvAlways, PTL DEF Spec, ExchangeSpec, ExchangeOf!Spec
=============================================================================
