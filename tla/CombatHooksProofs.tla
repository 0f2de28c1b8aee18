--------------------------- MODULE CombatHooksProofs ---------------------------
(* Theorems about CombatHooks, for any fighters, accounts, curves and lifetimes  *)
(* of the caches.                                                                *)
EXTENDS CombatHooks, TLAPS

-----------------------------------------------------------------------------
(* The caches.                                                               *)

\* An entry is behind the database for no longer than it has existed: what a
\* lookup serves was read from the table when the entry was made.
Aged ==
    /\ now >= 1
    /\ \A k \in Kinds, a \in Accounts :
          /\ cache[k][a].at <= now
          /\ Fresh(k, a) => overtaken[k][a] <= now - cache[k][a].at

Inv == TypeOK /\ Aged

\* An investment, of one account in one kind of sink, as the table has it.
LEMMA RowType ==
  ASSUME TypeOK, NEW k \in Kinds, NEW a \in Accounts
  PROVE  [s \in SinksOf[k] |-> invested[a][s]] \in [SinksOf[k] -> Points]
  <1>1. SinksOf[k] \subseteq CombatSinks
    BY DEF CombatSinks
  <1> QED
    BY <1>1 DEF TypeOK

LEMMA ServedType ==
  ASSUME TypeOK, NEW k \in Kinds, NEW a \in Accounts
  PROVE  Served(k, a) \in [SinksOf[k] -> Points]
  BY RowType DEF Served, TypeOK

\* The entry that a lookup leaves.
LEMMA RefreshedType ==
  ASSUME Inv, NEW k \in Kinds, NEW a \in Accounts
  PROVE  /\ Refreshed(k, a).at \in 1..now
         /\ Refreshed(k, a).value \in [SinksOf[k] -> Points]
         /\ ~Fresh(k, a) => /\ Refreshed(k, a).at = now
                            /\ Refreshed(k, a).value = [s \in SinksOf[k] |-> invested[a][s]]
  <1>1. CASE Fresh(k, a)
    BY <1>1 DEF Refreshed, Fresh, Inv, TypeOK, Aged
  <1>2. CASE ~Fresh(k, a)
    BY <1>2, ServedType DEF Refreshed, Served, Inv, TypeOK, Aged
  <1> QED
    BY <1>1, <1>2

LEMMA InitInv == Init => Inv
  <1> SUFFICES ASSUME Init PROVE Inv
    OBVIOUS
  <1> USE CombatAssumption, CalculatorAssumption
  <1>1. 0 \in Points
    OBVIOUS
  <1>2. TypeOK
    BY <1>1 DEF Init, TypeOK, Unfilled
  <1>3. Aged
    BY DEF Init, Aged, Unfilled, Fresh
  <1> QED
    BY <1>2, <1>3 DEF Inv

\* A lookup leaves an entry alone while it is fresh, and makes it anew from the
\* table when it is not.
LEMMA LookUpInv ==
  ASSUME Inv, NEW reads, LookUp(reads), UNCHANGED <<enabled, invested, now>>
  PROVE  Inv'
  <1> USE CombatAssumption
  <1>1. ASSUME NEW k \in Kinds, NEW a \in Accounts
        PROVE  /\ cache'[k][a].at \in 0..now
               /\ cache'[k][a].value \in [SinksOf[k] -> Points]
               /\ overtaken'[k][a] \in 0..CacheTTL
               /\ Fresh(k, a)' => overtaken'[k][a] <= now - cache'[k][a].at
    <2>1. CASE <<k, a>> \in reads
      <3>1. cache'[k][a] = Refreshed(k, a)
        BY <2>1 DEF LookUp
      <3>2. overtaken'[k][a] = IF Refreshed(k, a).value = [s \in SinksOf[k] |-> invested[a][s]]
                               THEN 0 ELSE overtaken[k][a]
        BY <2>1 DEF LookUp
      <3>3. overtaken[k][a] \in 0..CacheTTL /\ now \in Nat
        BY DEF Inv, TypeOK
      <3>4. CASE Fresh(k, a)
        BY <3>1, <3>2, <3>3, <3>4, RefreshedType DEF Refreshed, Inv, Aged, TypeOK
      <3>5. CASE ~Fresh(k, a)
        BY <3>1, <3>2, <3>3, <3>5, RefreshedType
      <3> QED
        BY <3>4, <3>5
    <2>2. CASE <<k, a>> \notin reads
      <3>1. cache'[k][a] = cache[k][a] /\ overtaken'[k][a] = overtaken[k][a]
        BY <2>2 DEF LookUp
      <3> QED
        BY <3>1 DEF Inv, TypeOK, Aged, Fresh
    <2> QED
      BY <2>1, <2>2
  <1>2. overtaken' \in [Kinds -> [Accounts -> 0..CacheTTL]]
    <2>1. overtaken' = [k \in Kinds |-> [a \in Accounts |-> overtaken'[k][a]]]
      BY DEF LookUp
    <2> QED
      BY <1>1, <2>1
  <1>3. now \in Nat /\ MaxClock \in Nat /\ now <= MaxClock /\ now >= 1
    BY DEF Inv, TypeOK, Aged
  <1>4. \A k \in Kinds, a \in Accounts : /\ cache'[k][a].at \in 0..MaxClock
                                         /\ cache'[k][a].value \in [SinksOf[k] -> Points]
    BY <1>1, <1>3
  <1>5. TypeOK'
    BY <1>2, <1>4 DEF Inv, TypeOK
  <1>6. Aged'
    BY <1>1, <1>3 DEF Aged
  <1> QED
    BY <1>5, <1>6 DEF Inv

LEMMA StepInv == Inv /\ [Next]_vars => Inv'
  <1> SUFFICES ASSUME Inv, [Next]_vars PROVE Inv'
    OBVIOUS
  <1> USE CombatAssumption
  <1>1. ASSUME NEW a \in Accounts, NEW s \in CombatSinks, Invest(a, s) PROVE Inv'
    <2>1. invested' \in [Accounts -> [CombatSinks -> Points]]
      BY <1>1 DEF Invest, Inv, TypeOK
    <2> QED
      BY <1>1, <2>1 DEF Invest, Inv, TypeOK, Aged, Fresh
  <1>2. ASSUME NEW u \in Units, NEW v \in Units, NEW d \in Damages, Strike(u, v, d)
        PROVE  Inv'
    BY <1>2, LookUpInv DEF Strike
  <1>3. ASSUME NEW u \in Units, NEW v \in Units, NEW d \in Damages, NEW roll \in Rolls,
               CastSpell(u, v, d, roll)
        PROVE  Inv'
    BY <1>3, LookUpInv DEF CastSpell
  <1>4. ASSUME Tick PROVE Inv'
    <2>1. now \in Nat /\ now' = now + 1 /\ now' \in 0..MaxClock /\ cache' = cache
      BY <1>4 DEF Tick, Inv, TypeOK
    <2>2. ASSUME NEW k \in Kinds, NEW a \in Accounts
          PROVE  /\ overtaken'[k][a] \in 0..CacheTTL
                 /\ overtaken'[k][a] <= overtaken[k][a] + 1
      <3>1. overtaken'[k][a] =
              IF cache[k][a].value = [s \in SinksOf[k] |-> invested[a][s]] THEN 0
              ELSE IF overtaken[k][a] < CacheTTL THEN overtaken[k][a] + 1
              ELSE overtaken[k][a]
        BY <1>4 DEF Tick
      <3>2. overtaken[k][a] \in 0..CacheTTL
        BY DEF Inv, TypeOK
      <3> QED
        BY <3>1, <3>2
    <2>3. overtaken' \in [Kinds -> [Accounts -> 0..CacheTTL]]
      <3>1. overtaken' = [k \in Kinds |-> [a \in Accounts |-> overtaken'[k][a]]]
        BY <1>4 DEF Tick
      <3> QED
        BY <2>2, <3>1
    <2>4. TypeOK'
      BY <1>4, <2>1, <2>3 DEF Tick, Inv, TypeOK
    <2>5. ASSUME NEW k \in Kinds, NEW a \in Accounts
          PROVE  /\ cache'[k][a].at <= now'
                 /\ Fresh(k, a)' => overtaken'[k][a] <= now' - cache'[k][a].at
      <3>1. /\ cache[k][a].at \in Nat /\ cache[k][a].at <= now
            /\ overtaken[k][a] \in Nat /\ overtaken'[k][a] \in Nat
            /\ Fresh(k, a) => overtaken[k][a] <= now - cache[k][a].at
        BY <2>2 DEF Inv, TypeOK, Aged
      <3>2. Fresh(k, a)' => Fresh(k, a)
        BY <2>1, <3>1 DEF Fresh
      <3> QED
        BY <2>1, <2>2, <3>1, <3>2
    <2>6. Aged'
      BY <2>1, <2>5 DEF Aged
    <2> QED
      BY <2>4, <2>6 DEF Inv
  <1>5. ASSUME OnAfterConfigLoad PROVE Inv'
    BY <1>5 DEF OnAfterConfigLoad, Inv, TypeOK, Aged, Fresh
  <1>6. ASSUME UNCHANGED vars PROVE Inv'
    BY <1>6 DEF vars, Inv, TypeOK, Aged, Fresh
  <1> QED
    BY <1>1, <1>2, <1>3, <1>4, <1>5, <1>6 DEF Next

LEMMA Invariance == Spec => []Inv
  BY InitInv, StepInv, PTL DEF Spec

\* Types of the caches of the combat hooks, for all instances: every entry holds
\* investments of the table's range and a time that has passed.
THEOREM TypeCorrect == Spec => []TypeOK
  <1>1. Inv => TypeOK
    BY DEF Inv
  <1> QED
    BY <1>1, Invariance, PTL

\* "Cached 30 seconds per account" (EchoesStatsHooks.cpp): whatever the lifetime,
\* the hits, the misses and the purchases in between, a hook is never served an
\* investment that the table has left behind for a whole lifetime.
THEOREM ServedWithinTTLAlways == Spec => []ServedWithinTTL
  <1>1. Inv => ServedWithinTTL
    <2> SUFFICES ASSUME Inv, NEW k \in Kinds, NEW a \in Accounts, Fresh(k, a)
                 PROVE  overtaken[k][a] < CacheTTL
      BY DEF ServedWithinTTL
    <2>1. /\ cache[k][a].at \in Nat /\ now \in Nat /\ overtaken[k][a] \in Nat
          /\ overtaken[k][a] <= now - cache[k][a].at
      BY DEF Inv, TypeOK, Aged
    <2>2. now - cache[k][a].at < CacheTTL
      BY DEF Fresh
    <2> QED
      BY <2>1, <2>2, CombatAssumption
  <1> QED
    BY <1>1, Invariance, PTL

-----------------------------------------------------------------------------
(* The arithmetic of a blow, for damage, armor and investments of any size.  *)

\* A share of a number, in thousandths, rounded down.
LEMMA Share ==
  ASSUME NEW d \in Nat, NEW f \in Nat, NEW c \in Nat, f <= c
  PROVE  /\ (d * f) \div 1000 \in Nat
         /\ 1000 * ((d * f) \div 1000) <= d * c
  <1>1. d * f \in Nat /\ d * f <= d * c
    OBVIOUS
  <1> DEFINE p == d * f
  <1>2. p \div 1000 \in Nat /\ 1000 * (p \div 1000) <= p
    <2>1. p \in Nat
      BY <1>1
    <2> HIDE DEF p
    <2> QED
      BY <2>1
  <1>3. d * c \in Nat
    OBVIOUS
  <1> HIDE DEF p
  <1>4. p <= d * c /\ p \in Nat
    BY <1>1 DEF p
  <1>5. 1000 * (p \div 1000) <= d * c
    BY <1>2, <1>3, <1>4
  <1> QED
    BY <1>2, <1>5 DEF p

\* A curve stays between nothing and its ceiling.
LEMMA SinkRange ==
  ASSUME NEW ceiling \in Nat, NEW n \in Points
  PROVE  /\ SinkFraction(ceiling, n) \in Nat
         /\ SinkFraction(ceiling, n) <= 10 * ceiling
  <1>1. Saturation[n] \in 0..1000
    BY CalculatorAssumption
  <1> DEFINE x == Saturation[n]
             p == ceiling * x
  <1>2. x \in Nat /\ x <= 1000
    BY <1>1
  <1> HIDE DEF x
  <1>3. p \in Nat /\ p <= 1000 * ceiling
    BY <1>2
  <1> HIDE DEF p
  <1>4. p \div 100 \in Nat /\ p \div 100 <= 10 * ceiling
    BY <1>3
  <1> QED
    BY <1>4 DEF SinkFraction, p, x

\* The luckiest roll is below the truncated threshold just when the curve has
\* reached a ten-thousandth.
LEMMA ReflectThreshold ==
  ASSUME NEW n \in Points
  PROVE  EchoesReflectChanceRollTriggered(0,
             EchoesReflectChanceThreshold(EchoesReflectChanceFraction(n)))
           <=> EnoughToReflect(n)
  <1> DEFINE x == Saturation[n]
  <1>1. x \in 0..1000
    BY CalculatorAssumption
  <1> DEFINE t == EchoesReflectChanceThreshold(EchoesReflectChanceFraction(n))
  <1> HIDE DEF x
  <1>2. t = IF 5 * x <= 0 THEN 0 ELSE (5 * x) \div 10
    BY DEF EchoesReflectChanceThreshold, EchoesReflectChanceFraction, x
  <1> HIDE DEF t
  <1>3. 0 < t <=> 500 * x >= 1000
    BY <1>1, <1>2
  <1> QED
    BY <1>3 DEF EchoesReflectChanceRollTriggered, EnoughToReflect, t, x

\* Execute Power adds two fifths at most.
LEMMA ExecuteBounds ==
  ASSUME NEW d \in Nat, NEW pct \in Nat, NEW n \in Points
  PROVE  /\ EchoesApplyExecutePowerBonus(d, pct, n) \in Nat
         /\ d <= EchoesApplyExecutePowerBonus(d, pct, n)
         /\ 10 * EchoesApplyExecutePowerBonus(d, pct, n) <= 14 * d
  <1> DEFINE f == EchoesExecutePowerBonus(n)
  <1>1. f \in Nat /\ f <= 400
    BY SinkRange DEF EchoesExecutePowerBonus
  <1> HIDE DEF f
  <1> DEFINE extra == (d * f) \div 1000
  <1>2. extra \in Nat /\ 1000 * extra <= d * 400
    BY <1>1, Share
  <1> HIDE DEF extra
  <1>3. EchoesApplyExecutePowerBonus(d, pct, n) \in {d, d + extra}
    BY DEF EchoesApplyExecutePowerBonus, extra, f
  <1> QED
    BY <1>2, <1>3

\* Armor takes less than everything.
LEMMA ArmorBounds ==
  ASSUME NEW armor \in Nat, NEW level \in Nat
  PROVE  /\ EchoesArmorPenReductionFraction(armor, level) \in Nat
         /\ EchoesArmorPenReductionFraction(armor, level) <= 1000
  <1> DEFINE twice == IF level > 59 THEN 2 * level + 9 * (level - 59) ELSE 2 * level
             m == 2 * armor + 85 * twice + 800
  <1>1. twice \in Nat
    OBVIOUS
  <1> HIDE DEF twice
  <1>2. m \in Nat /\ m > 0 /\ 2000 * armor <= 1000 * m
    BY <1>1
  <1> HIDE DEF m
  <1> DEFINE q == (2000 * armor) \div m
  <1>3. q \in Nat /\ q * m <= 2000 * armor
    BY <1>2
  <1>4. q <= 1000
    <2> SUFFICES ASSUME q >= 1001 PROVE FALSE
      BY <1>3
    <2> HIDE DEF q
    <2>1. q * m >= 1001 * m
      BY <1>2, <1>3
    <2>2. 1001 * m > 1000 * m
      BY <1>2
    <2> QED
      BY <1>2, <1>3, <2>1, <2>2
  <1> HIDE DEF q
  <1>5. EchoesArmorPenReductionFraction(armor, level) \in {0, q}
    BY DEF EchoesArmorPenReductionFraction, q, m, twice
  <1> QED
    BY <1>3, <1>4, <1>5

\* Armor Penetration multiplies by ten sevenths at most.
LEMMA PenetrationBounds ==
  ASSUME NEW d \in Nat, NEW reduction \in Nat, reduction <= 1000, NEW n \in Points
  PROVE  /\ EchoesApplyArmorPenBonus(d, reduction, n) \in Nat
         /\ d <= EchoesApplyArmorPenBonus(d, reduction, n)
         /\ 7 * EchoesApplyArmorPenBonus(d, reduction, n) <= 10 * d
  <1> DEFINE f == EchoesArmorPenFraction(n)
  <1>1. f \in Nat /\ f <= 300
    BY SinkRange DEF EchoesArmorPenFraction
  <1> HIDE DEF f
  <1> DEFINE pen == f * reduction
  <1>2. pen \in Nat /\ pen <= 300000
    <2>1. f * reduction \in Nat /\ f * reduction <= f * 1000
      BY <1>1
    <2> QED
      BY <1>1, <2>1
  <1> HIDE DEF pen
  <1> DEFINE m == 1000000 - pen
             inflated == (d * 1000000) \div m
  <1>3. m \in Nat /\ m >= 700000
    BY <1>2
  <1> HIDE DEF m
  <1>4. inflated \in Nat /\ inflated * m <= d * 1000000
    BY <1>3
  <1> HIDE DEF inflated
  <1>5. inflated * 700000 <= inflated * m
    BY <1>3, <1>4
  <1>6. 7 * inflated <= 10 * d
    <2>1. inflated * m \in Nat
      BY <1>3, <1>4
    <2> QED
      BY <1>4, <1>5, <2>1
  <1>7. \/ EchoesApplyArmorPenBonus(d, reduction, n) = d
        \/ inflated > d /\ EchoesApplyArmorPenBonus(d, reduction, n) = inflated
    BY DEF EchoesApplyArmorPenBonus, inflated, m, pen, f
  <1> QED
    BY <1>4, <1>6, <1>7

\* Spell Mitigation takes a quarter at most.
LEMMA MitigationBounds ==
  ASSUME NEW d \in Nat, NEW n \in Points
  PROVE  /\ EchoesComputeSpellMitigationReduction(d, n) \in Nat
         /\ 4 * EchoesComputeSpellMitigationReduction(d, n) <= d
  <1> DEFINE f == EchoesSpellMitigationFraction(n)
  <1>1. f \in Nat /\ f <= 250
    BY SinkRange DEF EchoesSpellMitigationFraction
  <1> HIDE DEF f
  <1> DEFINE reduction == (d * f) \div 1000
  <1>2. reduction \in Nat /\ 1000 * reduction <= d * 250
    BY <1>1, Share
  <1> HIDE DEF reduction
  <1>3. EchoesComputeSpellMitigationReduction(d, n) \in
          {IF d <= 0 THEN 0 ELSE IF reduction >= d THEN d - 1 ELSE reduction, 0}
    BY DEF EchoesComputeSpellMitigationReduction, reduction, f
  <1> QED
    BY <1>2, <1>3

-----------------------------------------------------------------------------
(* The hooks, with what the caches serve.                                    *)

LEMMA PlayerServed ==
  ASSUME TypeOK, NEW u \in Players
  PROVE  /\ Execute(u) \in Points /\ Penetration(u) \in Points /\ Leech(u) \in Points
         /\ Served("mitigation", AccountOf[u])["spell_mitigation"] \in Points
         /\ Served("reflect", AccountOf[u])["reflect_chance"] \in Points
  <1>1. AccountOf[u] \in Accounts
    BY CombatAssumption
  <1>2. Served("penetration", AccountOf[u]) \in [SinksOf["penetration"] -> Points]
    BY <1>1, ServedType DEF Kinds
  <1>3. Served("leech", AccountOf[u]) \in [SinksOf["leech"] -> Points]
    BY <1>1, ServedType DEF Kinds
  <1>4. Served("mitigation", AccountOf[u]) \in [SinksOf["mitigation"] -> Points]
    BY <1>1, ServedType DEF Kinds
  <1>5. Served("reflect", AccountOf[u]) \in [SinksOf["reflect"] -> Points]
    BY <1>1, ServedType DEF Kinds
  <1> QED
    BY <1>2, <1>3, <1>4, <1>5 DEF Execute, Penetration, Leech, SinksOf

\* The attacker's sinks never soften a blow and at most double it.
LEMMA DealtBounds ==
  ASSUME TypeOK, NEW u \in Units, NEW v \in Units, NEW d \in Nat, NEW p \in Nat,
         NEW ar \in Nat, NEW hp
  PROVE  /\ OnDamage(u, v, d, p, ar, hp)[1] \in Nat
         /\ d <= OnDamage(u, v, d, p, ar, hp)[1]
         /\ OnDamage(u, v, d, p, ar, hp)[1] <= 2 * d
  <1>1. CASE ~Amplifies(u, v, d) \/ NothingInvested(u)
    BY <1>1 DEF OnDamage
  <1>2. CASE ~(~Amplifies(u, v, d) \/ NothingInvested(u))
    <2>1. u \in Players
      BY <1>2 DEF Amplifies
    <2> DEFINE executed == EchoesApplyExecutePowerBonus(d, p, Execute(u))
               reduction == EchoesArmorPenReductionFraction(ar, LevelOf[u])
               dealt == EchoesApplyArmorPenBonus(executed, reduction, Penetration(u))
    <2>2. executed \in Nat /\ d <= executed /\ 10 * executed <= 14 * d
      BY <2>1, PlayerServed, ExecuteBounds
    <2>3. reduction \in Nat /\ reduction <= 1000
      <3>1. LevelOf[u] \in Nat
        BY CombatAssumption
      <3> QED
        BY <3>1, ArmorBounds
    <2> HIDE DEF executed, reduction
    <2>4. dealt \in Nat /\ executed <= dealt /\ 7 * dealt <= 10 * executed
      BY <2>1, <2>2, <2>3, PlayerServed, PenetrationBounds
    <2>5. OnDamage(u, v, d, p, ar, hp)[1] = dealt
      BY <1>2 DEF OnDamage, AmplifiedDamage, executed, reduction
    <2> HIDE DEF dealt
    <2> QED
      BY <2>2, <2>4, <2>5
  <1> QED
    BY <1>1, <1>2

\* Mitigation leaves three quarters of a spell at least.
LEMMA MitigatedBounds ==
  ASSUME TypeOK, NEW v \in Units, NEW d \in Nat
  PROVE  Mitigated(v, d) \in Nat /\ Mitigated(v, d) <= d /\ 4 * Mitigated(v, d) >= 3 * d
  <1>1. CASE ~Shields(v, d)
    BY <1>1 DEF Mitigated
  <1>2. CASE Shields(v, d)
    <2>1. v \in Players
      BY <1>2 DEF Shields
    <2> DEFINE reduction == EchoesComputeSpellMitigationReduction(d,
                              Served("mitigation", AccountOf[v])["spell_mitigation"])
    <2>2. reduction \in Nat /\ 4 * reduction <= d
      BY <2>1, PlayerServed, MitigationBounds
    <2>3. Mitigated(v, d) = d - reduction
      BY <1>2 DEF Mitigated
    <2> HIDE DEF reduction
    <2> QED
      BY <2>2, <2>3
  <1> QED
    BY <1>1, <1>2

\* The three outcomes of a spell in terms of one DealDamage.
LEMMA Outcome ==
  ASSUME NEW u, NEW v, NEW d, NEW p, NEW ar, NEW hp, NEW roll
  PROVE  LET spell == SpellOutcome(u, v, d, p, ar, hp, roll) IN
         IF Reflects(u, v, d, roll)
         THEN /\ spell.taken = 0
              /\ spell.reflected = OnDamage(u, u, Mitigated(v, d), p, ar, hp)[1]
              /\ spell.healed = OnDamage(u, u, Mitigated(v, d), p, ar, hp)[2]
         ELSE /\ spell.taken = OnDamage(u, v, Mitigated(v, d), p, ar, hp)[1]
              /\ spell.reflected = 0
  BY DEF SpellOutcome

\* A blow to oneself is not amplified and heals nothing.
LEMMA OwnBlow ==
  ASSUME NEW u, NEW d, NEW p, NEW ar, NEW hp
  PROVE  OnDamage(u, u, d, p, ar, hp)[1] = d /\ OnDamage(u, u, d, p, ar, hp)[2] = 0
  BY DEF OnDamage, Amplifies

LEMMA BlowDomains ==
  /\ \A d \in Damages : d \in Nat
  /\ \A p \in HealthPcts : p \in Nat
  /\ \A ar \in Armors : ar \in Nat
  BY CombatAssumption

\* At their ceilings, execution and penetration one upon the other double a blow
\* at most and never soften it, whatever the damage, the armor and the levels:
\* no intermediate result of OnDamage rounds below the damage it started from.
THEOREM BlowsAtMostDoubleAlways == Spec => []BlowsAtMostDouble
  <1>1. TypeOK => BlowsAtMostDouble
    BY DealtBounds, BlowDomains DEF BlowsAtMostDouble
  <1> QED
    BY <1>1, TypeCorrect, PTL

\* ModifySpellDamageTaken never eats a spell: for every damage and investment
\* its victim takes three quarters at least, unless the spell is reflected.
THEOREM SpellsStillHitAlways == Spec => []SpellsStillHit
  <1>1. TypeOK => SpellsStillHit
    <2> SUFFICES ASSUME TypeOK, NEW u \in Units, NEW v \in Units, NEW d \in Damages,
                        NEW p \in HealthPcts, NEW ar \in Armors, NEW roll \in Rolls,
                        SpellOutcome(u, v, d, p, ar, MaxHP, roll).reflected = 0, d > 0
                 PROVE  LET spell == SpellOutcome(u, v, d, p, ar, MaxHP, roll)
                        IN  spell.taken > 0 /\ 4 * spell.taken >= 3 * d
      BY DEF SpellsStillHit
    <2> DEFINE rest == Mitigated(v, d)
    <2>1. d \in Nat /\ p \in Nat /\ ar \in Nat
      BY BlowDomains
    <2>2. rest \in Nat /\ rest > 0 /\ 4 * rest >= 3 * d
      <3>1. rest \in Nat /\ 4 * rest >= 3 * d
        BY <2>1, MitigatedBounds
      <3> HIDE DEF rest
      <3> QED
        BY <2>1, <3>1
    <2> HIDE DEF rest
    <2>3. ~Reflects(u, v, d, roll)
      <3>1. OnDamage(u, u, rest, p, ar, MaxHP)[1] = rest
        BY OwnBlow
      <3> QED
        BY <2>2, <3>1, Outcome DEF rest
    <2>4. SpellOutcome(u, v, d, p, ar, MaxHP, roll).taken
            = OnDamage(u, v, rest, p, ar, MaxHP)[1]
      BY <2>3, Outcome DEF rest
    <2> DEFINE taken == OnDamage(u, v, rest, p, ar, MaxHP)[1]
    <2>5. taken \in Nat /\ rest <= taken
      BY <2>1, <2>2, DealtBounds
    <2> HIDE DEF taken
    <2>6. taken > 0 /\ 4 * taken >= 3 * d
      BY <2>1, <2>2, <2>5
    <2> QED
      BY <2>4, <2>6 DEF taken
  <1> QED
    BY <1>1, TypeCorrect, PTL

\* A reflected spell comes back as a plain blow: the DealDamage that the hook
\* makes of it calls OnDamage again, with the caster on both sides, and there it
\* is neither amplified nor leeched from.
THEOREM ReflectionIsPlainAlways == Spec => []ReflectionIsPlain
  <1>1. TypeOK => ReflectionIsPlain
    <2> SUFFICES ASSUME TypeOK, NEW u \in Units, NEW v \in Units, NEW d \in Damages,
                        NEW p \in HealthPcts, NEW ar \in Armors, NEW ms \in Missing,
                        SpellOutcome(u, v, d, p, ar, MaxHP - ms, 0).reflected > 0
                 PROVE  LET spell == SpellOutcome(u, v, d, p, ar, MaxHP - ms, 0)
                        IN  /\ spell.taken = 0 /\ spell.healed = 0
                            /\ spell.reflected <= d /\ 4 * spell.reflected >= 3 * d
      BY DEF ReflectionIsPlain
    <2>1. Reflects(u, v, d, 0)
      BY Outcome
    <2>2. Mitigated(v, d) <= d /\ 4 * Mitigated(v, d) >= 3 * d
      BY BlowDomains, MitigatedBounds
    <2> QED
      BY <2>1, <2>2, Outcome, OwnBlow
  <1> QED
    BY <1>1, TypeCorrect, PTL

\* Neither of two sinks is a precondition of the other: Life Leech heals whoever
\* is hurt, never above the maximum, and a lucky roll reflects for a target that
\* has invested in no mitigation just when its investment in reflection has
\* brought the truncated threshold (EchoesStatsCalculator.h:769-774) above zero.
THEOREM EachSinkWorksAloneAlways == Spec => []EachSinkWorksAlone
  <1>1. ASSUME TypeOK, NEW u \in Players, NEW v \in Units, NEW d \in Damages,
               NEW p \in HealthPcts, NEW ar \in Armors, NEW ms \in Missing
        PROVE  LET healed == OnDamage(u, v, d, p, ar, MaxHP - ms)[2]
               IN  /\ healed <= ms
                   /\ Amplifies(u, v, d) /\ Leech(u) > 0 /\ ms > 0 => healed > 0
    <2>1. d \in Nat /\ p \in Nat /\ ar \in Nat /\ u \in Units
      BY BlowDomains DEF Units
    <2>2. ms \in Nat /\ MaxHP \in Nat /\ ms <= MaxHP
      BY CombatAssumption
    <2>3. CASE ~Amplifies(u, v, d) \/ NothingInvested(u)
      <3>1. OnDamage(u, v, d, p, ar, MaxHP - ms)[2] = 0
        BY <2>3 DEF OnDamage
      <3>2. ~(Amplifies(u, v, d) /\ Leech(u) > 0)
        BY <2>3 DEF NothingInvested
      <3> QED
        BY <2>2, <3>1, <3>2
    <2>4. CASE ~(~Amplifies(u, v, d) \/ NothingInvested(u))
      <3> DEFINE dealt == AmplifiedDamage(u, v, d, p, ar)
                 f == EchoesLifeLeechFraction(Leech(u))
                 share == (dealt * f) \div 1000
                 raw == EchoesComputeLifeLeechHeal(dealt, Leech(u))
                 healed == EchoesClampLifeLeechHeal(raw, MaxHP - ms, MaxHP)
      <3>1. OnDamage(u, v, d, p, ar, MaxHP - ms) = <<dealt, healed>>
        BY <2>4 DEF OnDamage, Heal
      <3>2. dealt \in Nat /\ dealt > 0
        <4>1. d # 0
          BY <2>4 DEF Amplifies
        <4> HIDE DEF dealt, healed
        <4> QED
          BY <1>1, <2>1, <3>1, <4>1, DealtBounds
      <3>3. f \in Nat /\ Leech(u) \in Nat
        <4>1. Leech(u) \in Points
          BY <1>1, PlayerServed
        <4> QED
          BY <4>1, SinkRange, CalculatorAssumption DEF EchoesLifeLeechFraction
      <3> HIDE DEF dealt, f
      <3>4. share \in Nat
        BY <3>2, <3>3, Share
      <3> HIDE DEF share
      <3>5. raw \in Nat /\ (Leech(u) > 0 => raw > 0)
        BY <3>2, <3>3, <3>4 DEF EchoesComputeLifeLeechHeal, share, f
      <3> HIDE DEF raw
      <3>6. healed <= ms /\ (Leech(u) > 0 /\ ms > 0 => healed > 0)
        BY <2>2, <3>5 DEF EchoesClampLifeLeechHeal
      <3> HIDE DEF healed
      <3> QED
        BY <3>1, <3>6
    <2> QED
      BY <2>3, <2>4
  <1>2. ASSUME TypeOK, NEW u \in Players, NEW v \in Units, NEW d \in Damages,
               NEW p \in HealthPcts, NEW ar \in Armors, enabled, u # v, d > 0
        PROVE  SpellOutcome(v, u, d, p, ar, MaxHP, 0).reflected > 0
                 <=> EnoughToReflect(Served("reflect", AccountOf[u])["reflect_chance"])
    <2> DEFINE n == Served("reflect", AccountOf[u])["reflect_chance"]
    <2>1. d \in Nat /\ u \in Units
      BY BlowDomains DEF Units
    <2>2. n \in Points
      BY <1>2, PlayerServed
    <2> HIDE DEF n
    <2>3. EchoesReflectChanceRollTriggered(0,
              EchoesReflectChanceThreshold(EchoesReflectChanceFraction(n)))
            <=> EnoughToReflect(n)
      BY <2>2, ReflectThreshold
    <2>4. Reflects(v, u, d, 0) <=> EnoughToReflect(n)
      BY <1>2, <2>1, <2>3 DEF Reflects, Shields, n
    <2>5. Mitigated(u, d) \in Nat /\ Mitigated(u, d) > 0
      BY <1>2, <2>1, MitigatedBounds
    <2>6. SpellOutcome(v, u, d, p, ar, MaxHP, 0).reflected
            = IF Reflects(v, u, d, 0) THEN Mitigated(u, d) ELSE 0
      BY Outcome, OwnBlow
    <2> QED
      BY <2>4, <2>5, <2>6 DEF n
  <1>3. TypeOK => EachSinkWorksAlone
    BY <1>1, <1>2 DEF EachSinkWorksAlone
  <1> QED
    BY <1>3, TypeCorrect, PTL
================================================================================
