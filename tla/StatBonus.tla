------------------------------- MODULE StatBonus -------------------------------
(* The absorption bonus on a player's stats (EchoesStatsHooks.cpp): computed   *)
(* from the database at login, at a level change and by a periodic recheck,    *)
(* applied as the difference to what appliedByGuid says is already applied,    *)
(* and taken off at logout.                                                    *)
(*                                                                            *)
(* The database changes under the module's feet: purchases, investments and    *)
(* new snapshots are made by the Lua scripts, which tell the module nothing.   *)
EXTENDS EchoesStatsCalculator

CONSTANTS Characters, Accounts, AccountOf, ClassOf,
          Levels,            \* the levels a character goes through
          RatingMultiplier,  \* [Levels -> Nat]: GetRatingMultiplier (external)
          Template,          \* [item entry -> snapshot row]
          Investable,        \* the sinks the accounts invest in
          TalentIndices,     \* the talents the characters buy
          MaxRank, MaxTalent,
          Interval,          \* the recheck period, in world updates
          Epsilon,           \* a smaller change of a stat is not applied
          NoRecord

Ratings == {"crit_rating", "haste_rating", "dodge_rating", "parry_rating"}
Sinks == Ratings \union {"fortitude", "melee_power", "spell_power"}
FlatStats == PrimaryStats \union {"armor"}
Channels == FlatStats \union {"attackPower"} \union Ratings

\* Channels that hold whole points: no change of theirs is below the tolerance.
WholeChannels == Channels \ FlatStats

\* A row of ap_item_snapshot with the live armor class of its item.
SnapshotRow == [isArmor : BOOLEAN, armorSubClass : Nat, stats : [BonusFields -> Int]]

ASSUME StatBonusAssumption ==
    /\ AccountOf \in [Characters -> Accounts]
    /\ Levels # {} /\ Levels \subseteq Nat
    /\ RatingMultiplier \in [Levels -> Nat]
    /\ IsFiniteSet(DOMAIN Template)
    /\ \A e \in DOMAIN Template : Template[e] \in SnapshotRow
    /\ Investable \subseteq Sinks /\ TalentIndices \subseteq 0..4
    /\ MaxRank \in Nat /\ MaxTalent \in Nat
    /\ Interval \in Nat \ {0} /\ Epsilon \in Nat \ {0}
    /\ NoRecord \notin [Channels -> Int]

VARIABLES
    mastery, talents,       \* ap_mastery, ap_talents: per character
    snapshots, invested,    \* ap_item_snapshot, ap_aether_sinks: per account
    enabled,                \* EchoesStats.Enable
    status, level, mods,    \* the Player objects; mods: what the module added
    appliedByGuid,          \* what the module believes it added
    sinceRecalc, sincePass, \* ages of lastRecalcSecsByGuid, lastPeriodicPassSecs
    due,                    \* players the running periodic pass has yet to visit
    reading,                \* recalculations between two of their queries
    wrongFor                \* updates that a change of the database has waited
                            \* for the next recalculation of a player

database == <<mastery, talents, snapshots, invested>>
players == <<status, level, mods>>
timing == <<sinceRecalc, sincePass, due>>
vars == <<database, enabled, players, appliedByGuid, timing, reading, wrongFor>>

Nothing == [ch \in Channels |-> 0]
Idle == [why |-> "none"]
Reasons == {"login", "level", "pass"}

TypeOK ==
    /\ mastery \in [Characters -> 0..MaxRank]
    /\ talents \in [Characters -> [0..4 -> 0..MaxTalent]]
    /\ snapshots \in [Accounts -> SUBSET DOMAIN Template]
    /\ invested \in [Accounts -> [Sinks -> Points]]
    /\ enabled \in BOOLEAN
    /\ status \in [Characters -> {"offline", "inWorld", "teleporting"}]
    /\ level \in [Characters -> Levels]
    /\ mods \in [Characters -> [Channels -> Int]]
    /\ appliedByGuid \in [Characters -> [Channels -> Int] \union {NoRecord}]
    /\ sinceRecalc \in [Characters -> 0..Interval]
    /\ sincePass \in 0..Interval
    /\ due \in SUBSET Characters
    /\ DOMAIN reading = Characters
    /\ \A c \in Characters : reading[c].why \in Reasons \union {"none"}
    /\ wrongFor \in [Characters -> 0..(2 * Interval)]

--------------------------------------------------------------------------------
(* The calculation.                                                            *)

\* EchoesQuerySnapshots: the account's rows, joined with the item templates.
Rows(entries) == [e \in entries |-> Template[e]]

\* The bonus channel by channel, from what the queries returned.
BonusOf(c, rank, entries, ranks, sinks) ==
    LET absorbed == EchoesCalculateAbsorption(Rows(entries),
                        EchoesValidateMasteryRankForCalculation(rank),
                        level[c], ClassOf[c], ranks)
        bonus == EchoesApplyMeleeSpellPowerMultipliers(
                    EchoesApplyFortitudeMultiplier(absorbed, sinks["fortitude"]),
                    sinks["melee_power"], sinks["spell_power"])
    IN  [ch \in Channels |->
            IF ch \in Ratings
            THEN EchoesRatingPointsForPercent(
                    EchoesRatingSinkFraction(ch, sinks[ch]),
                    RatingMultiplier[level[c]])
            ELSE IF ch = "attackPower"
            THEN EchoesWeaponDpsToAttackPower(bonus["weaponDps"])
            ELSE bonus[ch]]

\* The bonus the database asks for now.
Desired(c) ==
    BonusOf(c, mastery[c], snapshots[AccountOf[c]], talents[c],
            invested[AccountOf[c]])

\* EchoesApplyDelta and EchoesApplyRatingGroupDelta: the old contribution off,
\* the new one on, unless the change is within the tolerance.
\* Mutant: every channel is compared with the tolerance of the doubles.
ToleranceOfDoubles(ch) == Epsilon
Tolerance(ch) == IF ch \in FlatStats THEN Epsilon ELSE 1

\* Mutant: the old contribution stays on.
ApplyWithoutRemoving(current, old, new) ==
    [ch \in Channels |-> IF new[ch] = old[ch] THEN current[ch]
                         ELSE current[ch] + new[ch]]
EchoesApplyDelta(current, old, new) ==
    [ch \in Channels |->
        IF new[ch] - old[ch] \in (1 - Tolerance(ch))..(Tolerance(ch) - 1)
        THEN current[ch]
        ELSE current[ch] - old[ch] + new[ch]]

Recorded(c) == IF appliedByGuid[c] = NoRecord THEN Nothing ELSE appliedByGuid[c]

--------------------------------------------------------------------------------
Init ==
    /\ mastery = [c \in Characters |-> 0]
    /\ talents = [c \in Characters |-> [i \in 0..4 |-> 0]]
    /\ snapshots = [a \in Accounts |-> {}]
    /\ invested = [a \in Accounts |-> [s \in Sinks |-> 0]]
    /\ enabled \in BOOLEAN
    /\ status = [c \in Characters |-> "offline"]
    /\ level \in [Characters -> Levels]
    /\ mods = [c \in Characters |-> Nothing]
    /\ appliedByGuid = [c \in Characters |-> NoRecord]
    /\ sinceRecalc = [c \in Characters |-> Interval]
    /\ sincePass = Interval
    /\ due = {}
    /\ reading = [c \in Characters |-> Idle]
    /\ wrongFor = [c \in Characters |-> 0]

--------------------------------------------------------------------------------
(* What the Lua scripts commit, at any moment.                                 *)

Unread == UNCHANGED <<enabled, players, appliedByGuid, timing, reading, wrongFor>>

BuyMastery(c) ==
    /\ mastery[c] < MaxRank
    /\ mastery' = [mastery EXCEPT ![c] = @ + 1]
    /\ UNCHANGED <<talents, snapshots, invested>> /\ Unread

BuyTalent(c, i) ==
    /\ talents[c][i] < MaxTalent
    /\ talents' = [talents EXCEPT ![c][i] = @ + 1]
    /\ UNCHANGED <<mastery, snapshots, invested>> /\ Unread

Attune(a, entry) ==
    /\ entry \notin snapshots[a]
    /\ snapshots' = [snapshots EXCEPT ![a] = @ \union {entry}]
    /\ UNCHANGED <<mastery, talents, invested>> /\ Unread

InvestSink(a, sink, amount) ==
    /\ amount > invested[a][sink]
    /\ invested' = [invested EXCEPT ![a][sink] = amount]
    /\ UNCHANGED <<mastery, talents, snapshots>> /\ Unread

--------------------------------------------------------------------------------
(* EchoesRecalculateAndApply. The Mastery, snapshot and talent queries come    *)
(* first, the sink queries and the application after them: a commit of the     *)
(* database worker may fall in between.                                        *)

StartRecalculation(c, why) ==
    reading' = [reading EXCEPT ![c] =
        [why |-> why, rank |-> mastery[c],
         entries |-> snapshots[AccountOf[c]], ranks |-> talents[c]]]

FinishRecalculation(c) ==
    /\ reading[c].why # "none"
    /\ LET new == BonusOf(c, reading[c].rank, reading[c].entries,
                          reading[c].ranks, invested[AccountOf[c]])
       IN  /\ mods' = [mods EXCEPT ![c] = EchoesApplyDelta(@, Recorded(c), new)]
           /\ appliedByGuid' = [appliedByGuid EXCEPT ![c] = new]
    /\ sinceRecalc' = IF reading[c].why = "level" THEN sinceRecalc
                      ELSE [sinceRecalc EXCEPT ![c] = 0]
    /\ due' = IF reading[c].why = "pass" THEN due \ {c} ELSE due
    /\ reading' = [reading EXCEPT ![c] = Idle]
    /\ wrongFor' = [wrongFor EXCEPT ![c] = 0]
    /\ UNCHANGED <<database, enabled, status, level, sincePass>>

--------------------------------------------------------------------------------
(* The player hooks.                                                           *)

\* The world thread is in nobody's recalculation and in no periodic pass.
WorldThreadFree == due = {} /\ \A c \in Characters : reading[c].why \notin {"login", "pass"}

\* A new Player object carries no modifier of the module.
OnPlayerLogin(c) ==
    /\ WorldThreadFree
    /\ status[c] = "offline"
    /\ status' = [status EXCEPT ![c] = "inWorld"]
    /\ mods' = [mods EXCEPT ![c] = Nothing]
    /\ IF enabled THEN StartRecalculation(c, "login") ELSE UNCHANGED reading
    /\ UNCHANGED <<database, enabled, level, appliedByGuid, timing, wrongFor>>

OnPlayerLevelChanged(c) ==
    /\ due = {}
    /\ status[c] = "inWorld" /\ reading[c].why = "none"
    /\ \E l \in Levels :
          /\ l > level[c]
          /\ level' = [level EXCEPT ![c] = l]
    /\ IF enabled THEN StartRecalculation(c, "level") ELSE UNCHANGED reading
    /\ UNCHANGED <<database, enabled, status, mods, appliedByGuid, timing, wrongFor>>

\* EchoesRemoveAll: whether or not the module is still enabled.
OnPlayerLogout(c) ==
    /\ WorldThreadFree
    /\ status[c] # "offline" /\ reading[c].why = "none"
    /\ status' = [status EXCEPT ![c] = "offline"]
    /\ IF appliedByGuid[c] = NoRecord
       THEN UNCHANGED <<mods, appliedByGuid, sinceRecalc>>
       ELSE /\ mods' = [mods EXCEPT ![c] =
                            EchoesApplyDelta(@, appliedByGuid[c], Nothing)]
            /\ appliedByGuid' = [appliedByGuid EXCEPT ![c] = NoRecord]
            /\ sinceRecalc' = [sinceRecalc EXCEPT ![c] = Interval]
    /\ UNCHANGED <<database, enabled, level, sincePass, due, reading, wrongFor>>

\* Between two maps a player is online and not in the world.
Teleport(c) ==
    /\ due = {}
    /\ status[c] # "offline" /\ reading[c].why = "none"
    /\ status' = [status EXCEPT ![c] =
                    IF @ = "inWorld" THEN "teleporting" ELSE "inWorld"]
    /\ UNCHANGED <<database, enabled, level, mods, appliedByGuid, timing,
                   reading, wrongFor>>

--------------------------------------------------------------------------------
(* The world hooks.                                                            *)

OnAfterConfigLoad ==
    /\ WorldThreadFree
    /\ enabled' = ~enabled
    /\ UNCHANGED <<database, players, appliedByGuid, timing, reading, wrongFor>>

\* The channels of a player that differ from what the database asks for.
OutOfDate(c) ==
    /\ enabled /\ status[c] = "inWorld"
    /\ \E ch \in WholeChannels : mods[c][ch] # Desired(c)[ch]

\* Mutant: the operands of the subtraction are swapped.
OlderSwapped(age) == age - 1
Older(age) == IF age < Interval THEN age + 1 ELSE Interval

\* Mutant: the floor of a player is one second longer than the period.
RecheckDueLater(c) ==
    status[c] = "inWorld" /\ sinceRecalc[c] >= Interval
RecheckDue(c) ==
    status[c] = "inWorld" /\ Older(sinceRecalc[c]) >= Interval

\* One second later OnUpdate looks whether a pass is due and, if it is, which
\* of the players it will recalculate; map threads are idle meanwhile.
OnUpdate ==
    /\ due = {} /\ \A c \in Characters : reading[c].why = "none"
    /\ sinceRecalc' = [c \in Characters |-> Older(sinceRecalc[c])]
    /\ IF enabled /\ Older(sincePass) >= Interval
       THEN /\ sincePass' = 0
            /\ due' = {c \in Characters : RecheckDue(c)}
       ELSE /\ sincePass' = Older(sincePass)
            /\ due' = {}
    /\ wrongFor' = [c \in Characters |->
            IF ~OutOfDate(c) THEN 0
            ELSE IF wrongFor[c] < 2 * Interval THEN wrongFor[c] + 1
            ELSE wrongFor[c]]
    /\ UNCHANGED <<database, enabled, players, appliedByGuid, reading>>

RecheckPlayer(c) ==
    /\ c \in due /\ \A d \in Characters : reading[d].why = "none"
    /\ StartRecalculation(c, "pass")
    /\ UNCHANGED <<database, enabled, players, appliedByGuid, timing, wrongFor>>

\* The process ends: nothing of the module was persisted.
OnShutdown ==
    /\ WorldThreadFree /\ \A c \in Characters : reading[c].why = "none"
    /\ status' = [c \in Characters |-> "offline"]
    /\ mods' = [c \in Characters |-> Nothing]
    /\ appliedByGuid' = [c \in Characters |-> NoRecord]
    /\ sinceRecalc' = [c \in Characters |-> Interval]
    /\ sincePass' = Interval
    /\ wrongFor' = [c \in Characters |-> 0]
    /\ UNCHANGED <<database, enabled, level, due, reading>>

--------------------------------------------------------------------------------
LuaCommit ==
    \/ \E c \in Characters : BuyMastery(c) \/ \E i \in TalentIndices : BuyTalent(c, i)
    \/ \E a \in Accounts :
          \/ \E e \in DOMAIN Template : Attune(a, e)
          \/ \E s \in Investable, n \in Points : InvestSink(a, s, n)

Next ==
    \/ LuaCommit
    \/ \E c \in Characters :
          \/ OnPlayerLogin(c) \/ OnPlayerLogout(c) \/ OnPlayerLevelChanged(c)
          \/ Teleport(c) \/ RecheckPlayer(c) \/ FinishRecalculation(c)
    \/ OnAfterConfigLoad \/ OnUpdate \/ OnShutdown

Spec == Init /\ [][Next]_vars

\* Each turn of the world's loop ends in OnUpdate, whatever the sessions did
\* before, and a hook that has started a recalculation returns from it.
Fairness ==
    /\ SF_vars(OnUpdate)
    /\ \A c \in Characters :
          WF_vars(RecheckPlayer(c)) /\ WF_vars(FinishRecalculation(c))

FairSpec == Spec /\ Fairness

--------------------------------------------------------------------------------
(* Properties.                                                                 *)

\* appliedByGuid is "the single authoritative record of what THIS module has
\* currently added": in every channel of whole points an online player carries
\* the recorded bonus exactly once, and nothing without a record; a logged-out
\* one was left with nothing. Disabling, re-enabling, relogging, levelling and
\* a commit between two queries neither double a bonus nor leave a rest of it.
ModifiersAreTheRecord ==
    \A c \in Characters :
        \A ch \in WholeChannels :
            mods[c][ch] = IF status[c] = "offline" THEN 0 ELSE Recorded(c)[ch]

\* While the module is enabled and the player in the world, the bonus is out of
\* date for less than two recheck periods: the pass runs once a period, and the
\* per-player floor makes it skip a player recalculated since the last pass.
StaleForLessThanTwoIntervals ==
    \A c \in Characters : wrongFor[c] < 2 * Interval

\* A player who stays in the world of a server that stays enabled ends up with
\* the bonus the database asks for, though no purchase is ever signalled.
BonusConverges ==
    \A c \in Characters :
        <>[](enabled /\ status[c] = "inWorld")
            => <>[](\A ch \in WholeChannels : mods[c][ch] = Desired(c)[ch])
================================================================================
