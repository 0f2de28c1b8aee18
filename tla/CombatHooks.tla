------------------------------ MODULE CombatHooks ------------------------------
(* The per-hit hooks of mod-echoes-stats (EchoesStatsUnitScript): what the     *)
(* Aether Sinks of two fighters make of a blow or a spell, read through caches *)
(* that live 30 seconds and are shared by the characters of an account.        *)
(*                                                                            *)
(* A blow is one step: the core calls ModifySpellDamageTaken for a spell, then *)
(* deals the damage, which calls OnDamage, all on one map-update thread. With  *)
(* more than one such thread the caches are written without synchronization;  *)
(* this module is the server with one (the core's default).                    *)
EXTENDS EchoesStatsCalculator

CONSTANTS Players, Creatures,
          Accounts, AccountOf, LevelOf,
          Damages, HealthPcts, Armors,   \* of a blow and its victim
          Missing, MaxHP,                \* health the attacker may be missing
          CacheTTL,                      \* 30 s
          MaxClock,                      \* bound of the clock
          MaxSinks                       \* bound: sinks an account invests in

Units == Players \union Creatures
Kinds == {"mitigation", "reflect", "penetration", "leech"}
SinksOf == [mitigation  |-> {"spell_mitigation"},
            reflect     |-> {"reflect_chance"},
            penetration |-> {"execute_power", "armor_pen"},
            leech       |-> {"life_leech"}]
CombatSinks == UNION {SinksOf[k] : k \in Kinds}

ASSUME CombatAssumption ==
    /\ AccountOf \in [Players -> Accounts]
    /\ LevelOf \in [Units -> Nat]
    /\ Damages \subseteq Nat /\ HealthPcts \subseteq 0..100 /\ Armors \subseteq Nat
    /\ Missing \subseteq 0..MaxHP /\ MaxHP \in Nat \ {0}
    /\ CacheTTL \in Nat \ {0} /\ MaxClock \in Nat \ {0} /\ MaxSinks \in Nat

VARIABLES
    enabled,      \* EchoesStats.Enable
    invested,     \* ap_aether_sinks, written by the Lua scripts
    cache,        \* [kind -> [account -> entry]]
    now,          \* getMSTime
    overtaken     \* for how long an entry has been behind the database

vars == <<enabled, invested, cache, now, overtaken>>

\* lastQueryMs = 0 is an entry that was never filled.
\* Mutant: it is one that has expired, of a time before the clock started.
UnfilledByAge(kind) == [at |-> 1 - CacheTTL, value |-> [s \in SinksOf[kind] |-> 0]]
Unfilled(kind) == [at |-> 0, value |-> [s \in SinksOf[kind] |-> 0]]

TypeOK ==
    /\ enabled \in BOOLEAN
    /\ invested \in [Accounts -> [CombatSinks -> Points]]
    /\ \A k \in Kinds, a \in Accounts :
          /\ cache[k][a].at \in 0..MaxClock
          /\ cache[k][a].value \in [SinksOf[k] -> Points]
    /\ now \in 0..MaxClock
    /\ overtaken \in [Kinds -> [Accounts -> 0..CacheTTL]]

--------------------------------------------------------------------------------
(* The caches: EchoesQuerySpellMitigationInvested and its siblings.            *)

Fresh(kind, a) ==
    cache[kind][a].at # 0 /\ now - cache[kind][a].at < CacheTTL

Served(kind, a) ==
    IF Fresh(kind, a) THEN cache[kind][a].value
    ELSE [s \in SinksOf[kind] |-> invested[a][s]]

\* The entry after a lookup.
\* Mutant: an entry is kept alive by being used.
SlidingEntry(kind, a) == [at |-> now, value |-> Served(kind, a)]
Refreshed(kind, a) ==
    IF Fresh(kind, a) THEN cache[kind][a]
    ELSE [at |-> now, value |-> Served(kind, a)]

\* Lookups of several kinds by accounts: reads is a set of <<kind, account>>.
LookUp(reads) ==
    /\ cache' = [k \in Kinds |-> [a \in Accounts |->
            IF <<k, a>> \in reads THEN Refreshed(k, a) ELSE cache[k][a]]]
    /\ overtaken' = [k \in Kinds |-> [a \in Accounts |->
            IF <<k, a>> \in reads /\ Refreshed(k, a).value
                                        = [s \in SinksOf[k] |-> invested[a][s]]
            THEN 0 ELSE overtaken[k][a]]]

--------------------------------------------------------------------------------
(* OnDamage: what the attacker's sinks make of a blow.                         *)

\* Enabled, a real blow, dealt by a player to somebody else, not to a victim
\* ten levels or more below.
\* Mutant: a blow to oneself is a blow like any other.
AmplifiesAnything(u, v, damage) ==
    enabled /\ damage # 0 /\ u \in Players /\ LevelOf[v] + 10 >= LevelOf[u]
Amplifies(u, v, damage) ==
    /\ enabled /\ damage # 0
    /\ u # v
    /\ u \in Players
    /\ LevelOf[v] + 10 >= LevelOf[u]

Leech(u) == Served("leech", AccountOf[u])["life_leech"]
Execute(u) == Served("penetration", AccountOf[u])["execute_power"]
Penetration(u) == Served("penetration", AccountOf[u])["armor_pen"]

\* None of the three investments: the hook returns.
\* Mutant: the gate that was written before Life Leech.
NothingToExecuteOrPenetrate(u) == Execute(u) = 0 /\ Penetration(u) = 0
NothingInvested(u) == Execute(u) = 0 /\ Penetration(u) = 0 /\ Leech(u) = 0

\* Execute Power first, then Armor Penetration.
\* Mutant: the armor's share is taken off instead of given back.
SoftenedDamage(u, v, damage, pct, armor) ==
    LET reduction == EchoesArmorPenReductionFraction(armor, LevelOf[u])
        executed == EchoesApplyExecutePowerBonus(damage, pct, Execute(u))
    IN  executed - (executed * reduction) \div 1000
AmplifiedDamage(u, v, damage, pct, armor) ==
    LET executed == EchoesApplyExecutePowerBonus(damage, pct, Execute(u))
    IN  EchoesApplyArmorPenBonus(executed,
            EchoesArmorPenReductionFraction(armor, LevelOf[u]), Penetration(u))

\* The health the attacker gets back, from the amplified damage.
Heal(u, damage, curHP) ==
    EchoesClampLifeLeechHeal(EchoesComputeLifeLeechHeal(damage, Leech(u)),
                             curHP, MaxHP)

\* <<damage dealt, health regained>>
OnDamage(u, v, damage, pct, armor, curHP) ==
    IF ~Amplifies(u, v, damage) \/ NothingInvested(u) THEN <<damage, 0>>
    ELSE LET dealt == AmplifiedDamage(u, v, damage, pct, armor)
         IN  <<dealt, Heal(u, dealt, curHP)>>

ReadsOnDamage(u, v, damage) ==
    IF Amplifies(u, v, damage)
    THEN {<<"penetration", AccountOf[u]>>, <<"leech", AccountOf[u]>>}
    ELSE {}

--------------------------------------------------------------------------------
(* ModifySpellDamageTaken: what the target's sinks make of a spell.            *)

Shields(v, damage) == enabled /\ v \in Players /\ damage > 0

ReadsOnSpell(v, damage) ==
    IF Shields(v, damage)
    THEN {<<"mitigation", AccountOf[v]>>, <<"reflect", AccountOf[v]>>}
    ELSE {}

\* What the mitigation leaves of the damage.
\* Mutant: the reduction is rounded up and may take everything.
MitigatedRoundedUp(v, damage) ==
    LET frac == EchoesSpellMitigationFraction(
                    Served("mitigation", AccountOf[v])["spell_mitigation"])
    IN  IF Shields(v, damage) THEN damage - (damage * frac + 999) \div 1000
        ELSE damage
Mitigated(v, damage) ==
    IF ~Shields(v, damage) THEN damage
    ELSE damage - EchoesComputeSpellMitigationReduction(damage,
                    Served("mitigation", AccountOf[v])["spell_mitigation"])

\* The roll sends the rest of the spell back at its caster. Who has invested
\* in no mitigation can still reflect.
Reflects(u, v, damage, roll) ==
    /\ Shields(v, damage) /\ u # v
    /\ EchoesReflectChanceRollTriggered(roll,
            EchoesReflectChanceThreshold(EchoesReflectChanceFraction(
                Served("reflect", AccountOf[v])["reflect_chance"])))

\* The spell as a whole: a reflected one strikes its caster by a DealDamage of
\* its own, which calls OnDamage with the caster on both sides.
SpellOutcome(u, v, damage, pct, armor, curHP, roll) ==
    LET rest == Mitigated(v, damage)
        back == Reflects(u, v, damage, roll)
        result == OnDamage(u, IF back THEN u ELSE v, rest, pct, armor, curHP)
    IN  [taken     |-> IF back THEN 0 ELSE result[1],
         reflected |-> IF back THEN result[1] ELSE 0,
         healed    |-> result[2]]

--------------------------------------------------------------------------------
Init ==
    /\ enabled \in BOOLEAN
    /\ invested = [a \in Accounts |-> [s \in CombatSinks |-> 0]]
    /\ cache = [k \in Kinds |-> [a \in Accounts |-> Unfilled(k)]]
    /\ now = 1
    /\ overtaken = [k \in Kinds |-> [a \in Accounts |-> 0]]

Invest(a, sink) ==
    \E n \in Points :
        /\ n > invested[a][sink]
        /\ Cardinality({s \in CombatSinks \ {sink} : invested[a][s] > 0}) < MaxSinks
        /\ invested' = [invested EXCEPT ![a][sink] = n]
        /\ UNCHANGED <<enabled, cache, now, overtaken>>

\* A blow leaves nothing behind but what it looked up; the health it costs is
\* the core's business.
Strike(u, v, damage) ==
    /\ ReadsOnDamage(u, v, damage) # {}
    /\ LookUp(ReadsOnDamage(u, v, damage))
    /\ UNCHANGED <<enabled, invested, now>>

CastSpell(u, v, damage, roll) ==
    LET target == IF Reflects(u, v, damage, roll) THEN u ELSE v
        reads == ReadsOnSpell(v, damage)
                    \union ReadsOnDamage(u, target, Mitigated(v, damage))
    IN  /\ reads # {}
        /\ LookUp(reads)
        /\ UNCHANGED <<enabled, invested, now>>

Tick ==
    /\ now < MaxClock
    /\ now' = now + 1
    /\ overtaken' = [k \in Kinds |-> [a \in Accounts |->
            IF cache[k][a].value = [s \in SinksOf[k] |-> invested[a][s]] THEN 0
            ELSE IF overtaken[k][a] < CacheTTL THEN overtaken[k][a] + 1
            ELSE overtaken[k][a]]]
    /\ UNCHANGED <<enabled, invested, cache>>

OnAfterConfigLoad ==
    /\ enabled' = ~enabled
    /\ UNCHANGED <<invested, cache, now, overtaken>>

Rolls == {0, 9999}

Next ==
    \/ \E a \in Accounts, s \in CombatSinks : Invest(a, s)
    \/ \E u, v \in Units, d \in Damages :
          \/ Strike(u, v, d)
          \/ \E roll \in Rolls : CastSpell(u, v, d, roll)
    \/ Tick
    \/ OnAfterConfigLoad

Spec == Init /\ [][Next]_vars

--------------------------------------------------------------------------------
(* Properties. Those of a blow speak of every blow that could be struck in     *)
(* the state, with what the caches would serve it.                             *)

\* "Cached 30 seconds per account": an entry that a hook would use was behind
\* the database for less than the lifetime, however often it is used and
\* whichever character of the account uses it.
ServedWithinTTL ==
    \A k \in Kinds, a \in Accounts :
        Fresh(k, a) => overtaken[k][a] < CacheTTL

\* A reflected spell spends itself on its caster: the target takes nothing, the
\* caster takes what mitigation left and neither amplifies its own punishment
\* nor leeches from it, though the same DealDamage calls OnDamage again.
ReflectionIsPlain ==
    \A u, v \in Units, d \in Damages, p \in HealthPcts, ar \in Armors, ms \in Missing :
        LET spell == SpellOutcome(u, v, d, p, ar, MaxHP - ms, 0)
        IN  spell.reflected > 0 =>
                /\ spell.taken = 0 /\ spell.healed = 0
                /\ spell.reflected <= d /\ 4 * spell.reflected >= 3 * d

\* A spell that is not reflected still hits: mitigation takes a quarter at most
\* and never the last point, and an attacker's sinks add to what is left.
SpellsStillHit ==
    \A u, v \in Units, d \in Damages, p \in HealthPcts, ar \in Armors, roll \in Rolls :
        LET spell == SpellOutcome(u, v, d, p, ar, MaxHP, roll)
        IN  spell.reflected = 0 /\ d > 0 => spell.taken > 0 /\ 4 * spell.taken >= 3 * d

\* The sinks of an attacker never soften its blow, and at their ceilings, with
\* execution and penetration one upon the other, no more than double it.
BlowsAtMostDouble ==
    \A u, v \in Units, d \in Damages, p \in HealthPcts, ar \in Armors :
        LET dealt == OnDamage(u, v, d, p, ar, MaxHP)[1]
        IN  d <= dealt /\ dealt <= 2 * d

\* Reflection begins where the curve gives a chance of one in ten thousand, at
\* about 1000 Essence: a five-hundredth of its ceiling of 5%.
EnoughToReflect(n) == 500 * Saturation[n] >= 1000

\* Each sink works for who has invested in no other: Life Leech heals whoever
\* is hurt, from the first point on and without lifting anybody above the
\* maximum; and a lucky roll sends a spell back, though nothing mitigates it,
\* for whoever has invested enough, while the luckiest roll does not for
\* whoever has invested less, though points of it were paid for.
EachSinkWorksAlone ==
    \A u \in Players, v \in Units, d \in Damages, p \in HealthPcts, ar \in Armors :
        /\ \A ms \in Missing :
              LET healed == OnDamage(u, v, d, p, ar, MaxHP - ms)[2]
              IN  /\ healed <= ms
                  /\ Amplifies(u, v, d) /\ Leech(u) > 0 /\ ms > 0 => healed > 0
        /\ enabled /\ u # v /\ d > 0 =>
              (SpellOutcome(v, u, d, p, ar, MaxHP, 0).reflected > 0
                 <=> EnoughToReflect(Served("reflect", AccountOf[u])["reflect_chance"]))
================================================================================
