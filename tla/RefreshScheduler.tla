-------------------------- MODULE RefreshScheduler --------------------------
(***************************************************************************)
(* The heartbeat of createScheduler (apps/server/src/scheduler.ts): each   *)
(* tick starts the collectors whose snapshot is stale, shortest cadence    *)
(* first, at most NEW_RUNS_PER_TICK of them.                               *)
(*                                                                         *)
(* Collectors are numbered by ascending cadence.  Time is counted in       *)
(* ticks; a frame is composed between two ticks, so that it is younger     *)
(* than its age in ticks.  A collector works, fails without publishing,    *)
(* hangs, or is refused by startRun().                                     *)
(***************************************************************************)
EXTENDS Naturals, FiniteSets, FiniteSetsExt

CONSTANTS
    Collectors,         \* how many schedules there are
    Cadences,           \* the cadences they may have, in ticks
    NewRunsPerTick,     \* NEW_RUNS_PER_TICK
    IdleMultiplier,     \* IDLE_CADENCE_MULTIPLIER
    Healths             \* what may become of a collector's runs

Schedules == 1 .. Collectors

ASSUME RefreshAssumption ==
    /\ {Collectors, NewRunsPerTick, IdleMultiplier} \subseteq Nat
    /\ Cadences \subseteq [Schedules -> Nat \ {0}]
    /\ \A c \in Cadences : \A i, j \in Schedules : i < j => c[i] <= c[j]
    /\ Healths \subseteq {"ok", "fails", "hangs", "refused"}

VARIABLES
    cadence,    \* of each schedule
    health,     \* of each collector
    age,        \* ticks since the frame was composed; none yet is as old as can be
    running,    \* collectors whose run is registered
    viewed      \* keys with a subscriber

refreshVars == <<cadence, health, age, running, viewed>>

\* Stale, with or without a viewer.
Oldest(i) == cadence[i] * IdleMultiplier + 1

RefreshTypeOK ==
    /\ cadence \in Cadences
    /\ health \in [Schedules -> Healths]
    /\ age \in [Schedules -> Nat]
    /\ \A i \in Schedules : age[i] <= Oldest(i)
    /\ {running, viewed} \subseteq SUBSET Schedules

RefreshInit ==
    /\ cadence \in Cadences
    /\ health \in [Schedules -> Healths]
    /\ age = [i \in Schedules |-> Oldest(i)]
    /\ running = {}
    /\ viewed \in SUBSET Schedules

-----------------------------------------------------------------------------
EffectiveCadence(i) == IF i \in viewed THEN cadence[i] ELSE cadence[i] * IdleMultiplier

\* A bug to catch: a collector that runs already counts as a new run.
Started_Spent(due) == {i \in due : Cardinality({j \in due : j < i}) < NewRunsPerTick} \ running

\* The first of those due and not running; a start that is refused costs nothing.
Started(due) ==
    LET fit == {i \in due \ running : health[i] # "refused"} IN
    {i \in fit : Cardinality({j \in fit : j < i}) < NewRunsPerTick}

\* tick()
Tick ==
    LET aged == [i \in Schedules |-> IF age[i] < Oldest(i) THEN age[i] + 1 ELSE age[i]]
        due == {i \in Schedules : aged[i] > EffectiveCadence(i)}
    IN
    /\ age' = aged
    /\ running' = running \cup Started(due)
    /\ UNCHANGED <<cadence, health, viewed>>

\* A client refreshes its region itself.
ClientRefreshes(i) ==
    /\ i \notin running
    /\ health[i] # "refused"
    /\ running' = running \cup {i}
    /\ UNCHANGED <<cadence, health, age, viewed>>

\* A run that succeeds publishes; one that fails leaves the frame as old as it was.
CollectorEnds(i) ==
    /\ i \in running
    /\ health[i] # "hangs"
    /\ running' = running \ {i}
    /\ age' = IF health[i] = "ok" THEN [age EXCEPT ![i] = 0] ELSE age
    /\ UNCHANGED <<cadence, health, viewed>>

ViewerComesOrGoes ==
    /\ \E i \in Schedules : viewed' \in {viewed \cup {i}, viewed \ {i}}
    /\ UNCHANGED <<cadence, health, age, running>>

RefreshNext ==
    \/ Tick
    \/ \E i \in Schedules : ClientRefreshes(i) \/ CollectorEnds(i)
    \/ ViewerComesOrGoes

RefreshSpec == RefreshInit /\ [][RefreshNext]_refreshVars

-----------------------------------------------------------------------------
(* Properties.                                                             *)

\* A number of ticks, and how often a collector may be started in them: one that
\* works is fresh for as many ticks as its cadence, one that fails is due again at
\* each, one that hangs is started once.
Window == ProductSet({cadence[i] + 1 : i \in Schedules})
Starts(i) ==
    IF health[i] = "fails" THEN Window
    ELSE IF health[i] = "ok" THEN Window \div (cadence[i] + 1) ELSE 0

\* Those before i cannot use up the new runs of every tick.
HasRoom(i) == MapThenSumSet(Starts, 1 .. (i - 1)) < NewRunsPerTick * Window

\* The heartbeat keeps a region fresh whose collector works, as long as the shorter
\* cadences leave room for it.
FreshIfThereIsRoom ==
    \A i \in Schedules : health[i] = "ok" /\ HasRoom(i) => []<>(age[i] = 0)

\* The comment on createScheduler: it keeps snapshot-backed regions fresh.
EveryRegionStaysFresh ==
    \A i \in Schedules : health[i] = "ok" => []<>(age[i] = 0)

\* Those that are due at these ages, are not running and would not be refused.
Waits(busy, ages) ==
    {i \in Schedules \ busy : ages[i] > EffectiveCadence(i) /\ health[i] # "refused"}

\* A tick starts no more collectors than it may, passes over none that could start while it
\* may start more, and none for one of a longer cadence.
TickServesTheFirst ==
    Tick => LET new == running' \ running
                fit == Waits(running, age')
            IN  /\ Cardinality(new) <= NewRunsPerTick
                /\ Cardinality(new) < NewRunsPerTick => new = fit
                /\ \A i \in new, j \in fit : j < i => j \in new

TicksServeTheFirst == [][TickServesTheFirst]_refreshVars
=============================================================================
