----------------------------- MODULE BotScheduler -----------------------------
(* The recurring progression scheduler of mod-echoes-playerbots              *)
(* (RunProgressionSchedulerPass, called from EchoesWorldScript::OnUpdate):   *)
(* every Interval it walks the players in the world, in the order of the     *)
(* core's hash map, and gives a bounded number of autonomous bots past a     *)
(* rotating cursor their chance to spend.                                    *)
(*                                                                           *)
(* A pass runs inside one world update, so nothing but the bots' own spends  *)
(* happens in the middle of it (those are BotSpending); the clock is the     *)
(* core's game time, and every timestamp is kept as the age it has reached.  *)
EXTENDS Naturals, Sequences, SequencesExt, FiniteSets, FiniteSetsExt

CONSTANTS Order,          \* guids, in the order GetPlayers() yields them
          Humans,         \* those without a Playerbot AI
          Interval,       \* progressionSchedulerIntervalSeconds
          RecheckFloor,   \* progressionSchedulerPerBotRecheckSeconds
          JitterWindow,   \* progressionSchedulerJitterSeconds
          MaxBotsPerPass  \* progressionSchedulerMaxBotsPerPass

Guids == ToSet(Order)
Bots == Guids \ Humans

\* Ages saturate where no comparison can tell them apart any more.
JitterOffset(guid) == IF JitterWindow > 0 THEN guid % JitterWindow ELSE 0
EffectiveFloor(guid) == RecheckFloor + JitterOffset(guid)
Never == RecheckFloor + JitterWindow + 1

ASSUME SchedulerAssumption ==
    /\ Order \in Seq(Nat \ {0}) /\ IsInjective(Order)
    /\ Humans \subseteq Guids
    /\ Interval \in Nat \ {0} /\ RecheckFloor \in Nat \ {0}
    /\ JitterWindow \in Nat /\ MaxBotsPerPass \in Nat \ {0}

VARIABLES
    inWorld,     \* ObjectAccessor's players
    controlled,  \* bots with a master: party bots
    sinceCheck,  \* age of lastSchedulerCheckSecsByGuid
    cursor,      \* schedulerCursorGuid
    sincePass    \* age of schedulerLastPassSecs

schedVars == <<inWorld, controlled, sinceCheck, cursor, sincePass>>

SchedulerTypeOK ==
    /\ inWorld \subseteq Guids
    /\ controlled \subseteq Bots
    /\ sinceCheck \in [Guids -> 0..Never]
    /\ cursor \in Guids \union {0}
    /\ sincePass \in 0..Interval

--------------------------------------------------------------------------------
\* EchoesShouldSkipSchedulerRecheck
ShouldSkipRecheck(guid) ==
    sinceCheck[guid] # Never /\ sinceCheck[guid] < EffectiveFloor(guid)

Autonomous(guid) == guid \in (Bots \intersect inWorld) \ controlled

\* Strictly after the cursor: the code's "unless we have wrapped around once
\* already" never applies, since no statement sets wrapped.
\* Mutant: the bot under the cursor is considered again.
FromCursorOn(guid) == guid >= cursor
PastCursor(guid) == guid > cursor

\* The bots of a pass, as their positions in the map: of those considered, the
\* first MaxBotsPerPass.
Considered == {i \in DOMAIN Order : /\ PastCursor(Order[i]) /\ Autonomous(Order[i])
                                    /\ ~ShouldSkipRecheck(Order[i])}
Evaluated == {i \in Considered :
                Cardinality({j \in Considered : j < i}) < MaxBotsPerPass}

\* Where a pass leaves the cursor.
\* Mutant: a pass that finds nobody leaves it where it was.
CursorKept(evaluated) == IF evaluated = {} THEN cursor ELSE Order[Max(evaluated)]
\* Mutant: it is left one past the last bot.
CursorBeyond(evaluated) == IF evaluated = {} THEN 0 ELSE Order[Max(evaluated)] + 1
CursorAfter(evaluated) == IF evaluated = {} THEN 0 ELSE Order[Max(evaluated)]

--------------------------------------------------------------------------------
SchedulerInit ==
    /\ inWorld = {}
    /\ controlled = {}
    /\ sinceCheck = [g \in Guids |-> Never]
    /\ cursor = 0
    /\ sincePass = Interval

EnterWorld(g) ==
    /\ g \notin inWorld
    /\ inWorld' = inWorld \union {g}
    /\ UNCHANGED <<controlled, sinceCheck, cursor, sincePass>>

\* A logout does not forget when the bot was last checked.
LeaveWorld(g) ==
    /\ g \in inWorld
    /\ inWorld' = inWorld \ {g}
    /\ controlled' = controlled \ {g}
    /\ UNCHANGED <<sinceCheck, cursor, sincePass>>

\* A player takes a bot into the party, or lets it go.
ChangeMaster(g) ==
    /\ g \in Bots \intersect inWorld
    /\ controlled' = IF g \in controlled THEN controlled \ {g}
                     ELSE controlled \union {g}
    /\ UNCHANGED <<inWorld, sinceCheck, cursor, sincePass>>

Older(age, limit) == IF age < limit THEN age + 1 ELSE age

\* An age reaches Never only where Never and an old timestamp decide alike.
SchedulerTick ==
    /\ sincePass' = Older(sincePass, Interval)
    /\ sinceCheck' = [g \in Guids |-> Older(sinceCheck[g], Never)]
    /\ UNCHANGED <<inWorld, controlled, cursor>>

PassDue == sincePass >= Interval

RunProgressionSchedulerPass ==
    /\ PassDue
    /\ sincePass' = 0
    /\ sinceCheck' = [g \in Guids |-> IF \E i \in Evaluated : Order[i] = g THEN 0
                                    ELSE sinceCheck[g]]
    /\ cursor' = CursorAfter(Evaluated)
    /\ UNCHANGED <<inWorld, controlled>>

\* EchoesWorldScript::OnShutdown clears the check times and the cursor;
\* schedulerLastPassSecs starts at 0 with the next process, so a pass is due.
OnShutdown ==
    /\ inWorld' = {} /\ controlled' = {}
    /\ sinceCheck' = [g \in Guids |-> Never]
    /\ cursor' = 0
    /\ sincePass' = Interval

SchedulerNext ==
    \/ \E g \in Guids : EnterWorld(g) \/ LeaveWorld(g) \/ ChangeMaster(g)
    \/ SchedulerTick
    \/ RunProgressionSchedulerPass
    \/ OnShutdown

\* The world thread calls OnUpdate over and over and its clock goes on: of the
\* players' coming and going nothing is assumed.
SchedulerSpec ==
    /\ SchedulerInit /\ [][SchedulerNext]_schedVars
    /\ WF_schedVars(SchedulerTick) /\ WF_schedVars(RunProgressionSchedulerPass)

--------------------------------------------------------------------------------
(* Properties.                                                                 *)

Stays(g) == <>[]Autonomous(g)

\* The rotation never gets stuck: while some bot remains autonomous, bots are
\* given their chance again and again, wherever the cursor was left and
\* whoever leaves the world meanwhile.
NeverStuck ==
    (\E g \in Bots : Stays(g)) => []<>(\E g \in Bots : sinceCheck[g] = 0)

\* Who is reached whatever the order: a bot that no larger guid precedes in the
\* map and that remains autonomous is given its chance again and again, with
\* any budget and whichever other bots come, go and use the budget up.
PassedOver(g) ==
    \E i, j \in DOMAIN Order : i < j /\ Order[j] = g /\ Order[i] > g

ReachedUnlessPassedOver ==
    \A g \in Bots : ~PassedOver(g) /\ Stays(g) => []<>(sinceCheck[g] = 0)

\* "so a large population is covered evenly over successive passes rather than
\* always starting from the same point": every bot that remains autonomous is
\* given its chance again and again.
EvenCoverage == \A g \in Bots : Stays(g) => []<>(sinceCheck[g] = 0)
================================================================================
