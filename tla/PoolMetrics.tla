----------------------------- MODULE PoolMetrics -----------------------------
(***************************************************************************)
(* What can be seen of a pool from outside: the fields that only snapshots *)
(* read (lastHint, lastExit, lastExitCode, lastTasks), the counters the    *)
(* pool pushes to internal/metrics, the gauges internal/metrics pulls at a *)
(* scrape and the health endpoint's answer (internal/httpapi/health.go).   *)
(*                                                                         *)
(* Each step is a step of Pool with what it counts.  Most is counted under *)
(* the pool mutex or before the step's effect can be seen; a reaper counts *)
(* its exit after it has released the mutex, in a step of its own, and     *)
(* only then hints or returns.  Left out: the histogram of durations, which *)
(* has one observation per exit, and the label that names the source of a  *)
(* hint.                                                                   *)
(***************************************************************************)
EXTENDS Pool

CONSTANTS
    MaxHints,       \* bound: calls of Hint
    Null            \* an absent value in the health endpoint's answer

ASSUME MetricsBound == MaxHints \in Nat /\ Null \notin Int \cup Kinds

VARIABLES
    last,       \* Pool.lastHint, lastExit, lastExitCode, lastTasks
    count,      \* the counters with no label but the pool
    exits,      \* exits_total by result
    kills,      \* kills_total by reason
    report      \* what a reaper has recorded and not yet counted

counters == <<count, exits, kills>>
mvars == <<vars, last, counters, report>>

KillReasons == {"ttl", "shutdown"}

\* The result of an exit, with the code of a kill, which is its reason.
Labels == {"ok", "failure"} \cup KillReasons

NoReport == [label |-> "none", tasks |-> NoCount]

\* Spawn, SpawnError, Exit, Kill, Trip, Hint and Drop of Metrics.
Inc(counter, label) == [counter EXCEPT ![label] = @ + 1]

Counters == {"spawns", "spawnErrors", "trips", "tasks", "hints", "cooldown", "late"}

\* metrics.New: everything starts at zero.
NewMetrics ==
    /\ count = [c \in Counters |-> 0]
    /\ exits = [l \in Labels |-> 0]
    /\ kills = [r \in KillReasons |-> 0]

MInit ==
    /\ Init
    /\ last = [hint |-> Never, exit |-> Never, code |-> "ok", tasks |-> NoCount]
    /\ NewMetrics
    /\ report = [w \in Workers |-> NoReport]

\* Reapers between recordExit and the end of reap's accounting.
Reporting == {w \in Workers : report[w] # NoReport}
-----------------------------------------------------------------------------
(***************************************************************************)
(* Hint.                                                                   *)
(***************************************************************************)
\* bound: hints and late drops together are the calls of Hint.
MayEnter(t) == t \notin Reporting /\ count["hints"] + count["late"] < MaxHints

MHintDropped(t) ==
    /\ MayEnter(t) /\ HintDropped(t)
    /\ count' = Inc(count, "late")
    /\ UNCHANGED <<last, exits, kills, report>>

HintedNow == [hint |-> now, exit |-> last.exit, code |-> last.code, tasks |-> last.tasks]

MHintPaused(t) ==
    /\ MayEnter(t) /\ HintPaused(t)
    /\ last' = HintedNow
    /\ count' = Inc(Inc(count, "hints"), "cooldown")
    /\ UNCHANGED <<exits, kills, report>>

MHintAccepted(t) ==
    /\ MayEnter(t) /\ HintAccepted(t)
    /\ last' = HintedNow
    /\ count' = Inc(count, "hints")
    /\ UNCHANGED <<exits, kills, report>>

\* The place of a reaper is free when it has counted its exit.
MSpawnWorker(t, w) ==
    /\ w \notin Reporting
    /\ SpawnWorker(t, w)
    /\ count' = Inc(count, "spawns")
    /\ UNCHANGED <<last, exits, kills, report>>

\* failureLocked: a failure at this moment trips the breaker.
Trips(b) == enabled /\ ~stays(decay(b, now), now)

MSpawnError(t) ==
    /\ SpawnError(t)
    /\ count' = IF Trips(breaker) THEN Inc(Inc(count, "spawnErrors"), "trips")
                ELSE Inc(count, "spawnErrors")
    /\ UNCHANGED <<last, exits, kills, report>>
-----------------------------------------------------------------------------
(***************************************************************************)
(* reap.                                                                   *)
(***************************************************************************)
MTerminate(w, why) ==
    /\ \/ why = "ttl" /\ WaitTTL(w)
       \/ why = "shutdown" /\ WaitStop(w)
    /\ kills' = Inc(kills, why)
    /\ UNCHANGED <<last, count, exits, report>>

Label(w) ==
    IF reason[w] # "none" THEN reason[w] ELSE classify(exit[w], FALSE)

\* The fields recordExit sets for the exit of w.
LastOf(w) ==
    [hint  |-> last.hint,
     exit  |-> exitedAt[w],
     code  |-> exit[w].kind,
     tasks |-> IF exit[w].tasks = NoCount THEN last.tasks ELSE exit[w].tasks]

ReportOf(w) == [label |-> Label(w), tasks |-> exit[w].tasks]

\* failureLocked counts a trip.
CountTrip(w) ==
    count' = IF Label(w) = "failure" /\ Trips(breaker) THEN Inc(count, "trips") ELSE count

\* Mutants: a trip caused by an exit is not counted; a kill is reported by the
\* exit code of the worker; a kill is no exit for the snapshot.
MRecordExitTripless(w) ==
    /\ RecordExit(w)
    /\ last' = LastOf(w)
    /\ report' = [report EXCEPT ![w] = ReportOf(w)]
    /\ UNCHANGED counters

MRecordExitByCode(w) ==
    /\ RecordExit(w)
    /\ last' = LastOf(w)
    /\ report' = [report EXCEPT ![w] = [ReportOf(w) EXCEPT !.label = classify(exit[w], FALSE)]]
    /\ CountTrip(w)
    /\ UNCHANGED <<exits, kills>>

MRecordExitUnseen(w) ==
    /\ RecordExit(w)
    /\ last' = IF reason[w] # "none" THEN last ELSE LastOf(w)
    /\ report' = [report EXCEPT ![w] = ReportOf(w)]
    /\ CountTrip(w)
    /\ UNCHANGED <<exits, kills>>

\* recordExit stamps the exit with the time its reaper read before it waited for
\* the mutex, so lastExit may move backwards.
MRecordExit(w) ==
    /\ RecordExit(w)
    /\ last' = LastOf(w)
    /\ report' = [report EXCEPT ![w] = ReportOf(w)]
    /\ CountTrip(w)
    /\ UNCHANGED <<exits, kills>>

\* The tasks of report r, added to n.
AddTasks(n, r) == IF r.tasks = NoCount THEN n ELSE n + r.tasks

\* Mutant: only exits that reported tasks are counted.
ReportTasksOnly(w) ==
    /\ w \in Reporting
    /\ exits' = IF report[w].tasks = NoCount THEN exits
                ELSE Inc(exits, report[w].label)
    /\ count' = [count EXCEPT !["tasks"] = AddTasks(@, report[w])]
    /\ report' = [report EXCEPT ![w] = NoReport]
    /\ UNCHANGED <<vars, last, kills>>

\* reap, after the unlock: Exit and, if the worker reported some, Tasks.
Report(w) ==
    /\ w \in Reporting
    /\ exits' = Inc(exits, report[w].label)
    /\ count' = [count EXCEPT !["tasks"] = AddTasks(@, report[w])]
    /\ report' = [report EXCEPT ![w] = NoReport]
    /\ UNCHANGED <<vars, last, kills>>

\* Mutant: a reaper is done once it has recorded the exit.
MReapersWaitedEarly ==
    /\ ReapersWaited
    /\ UNCHANGED <<last, counters, report>>

\* reapers.Done is the last thing reap does.
MReapersWaited ==
    /\ Reporting = {}
    /\ ReapersWaited
    /\ UNCHANGED <<last, counters, report>>

\* Steps of Pool that count nothing.
Uncounted ==
    /\ \/ \E w \in Workers : WaitDone(w) \/ Term(w) \/ ProcEnds(w)
       \/ Hints \/ DispatcherStop
       \/ PokeTick \/ PokeStop
       \/ Stats
       \/ ShutdownCall \/ PokeWaited \/ ShutdownTimeout
       \/ Tick \/ CancelRun
    /\ UNCHANGED <<last, counters, report>>

MNext ==
    \/ \E t \in Threads : \/ MHintDropped(t) \/ MHintPaused(t) \/ MHintAccepted(t)
                          \/ MSpawnError(t)
                          \/ \E w \in Workers : MSpawnWorker(t, w)
    \/ \E w \in Workers : \/ \E why \in KillReasons : MTerminate(w, why)
                          \/ MRecordExit(w) \/ Report(w)
    \/ MReapersWaited
    \/ Uncounted

MSpec == MInit /\ [][MNext]_mvars
-----------------------------------------------------------------------------
(***************************************************************************)
(* Snapshots.                                                              *)
(***************************************************************************)
\* Stats; the level is read before open() decays it.
Snapshot ==
    [running   |-> running,
     hint      |-> last.hint,
     exit      |-> last.exit,
     code      |-> last.code,
     tasks     |-> last.tasks,
     openUntil |-> IF isOpen(breaker, now) THEN breaker.openUntil ELSE Never,
     level     |-> breaker.level]

optTime(t) == IF t = Never THEN Null ELSE t

\* toPoolHealth
Health(s) ==
    [running   |-> s.running,
     hint      |-> optTime(s.hint),
     exit      |-> optTime(s.exit),
     code      |-> IF optTime(s.exit) = Null THEN Null ELSE s.code,
     tasks     |-> IF s.tasks = NoCount THEN Null ELSE s.tasks,
     openUntil |-> optTime(s.openUntil),
     level     |-> s.level]

\* Collect; the zero time is 0.
Gauges(s) ==
    [running   |-> s.running,
     hint      |-> s.hint,
     exit      |-> s.exit,
     active    |-> IF s.openUntil # Never THEN 1 ELSE 0,
     openUntil |-> s.openUntil,
     level     |-> s.level]
-----------------------------------------------------------------------------
Exited == exits["ok"] + exits["failure"] + exits["ttl"] + exits["shutdown"]

\* Types of the observed fields and the counters.
MTypeOK ==
    /\ TypeOK
    /\ last \in [hint : Times \cup {Never}, exit : Times \cup {Never},
                 code : Kinds, tasks : Nat \cup {NoCount}]
    /\ count \in [Counters -> Nat]
    /\ exits \in [Labels -> Nat]
    /\ kills \in [KillReasons -> Nat]
    /\ report \in [Workers -> [label : Labels, tasks : Nat \cup {NoCount}] \cup {NoReport}]

\* spawns_total, exits_total, running: whoever scrapes between any two steps
\* sees every spawn either still running or counted as exactly one exit, but
\* for the reapers that are about to count theirs.
SpawnsBalance == count["spawns"] = Exited + running + Cardinality(Reporting)

\* kills_total, exits_total: every kill, of either reason, becomes one exit with
\* that reason, also when the worker had ended by itself in that instant.
KillsAreExits ==
    \A r \in KillReasons :
        kills[r] = exits[r] + Cardinality({w \in Workers : reason[w] = r})
                                        + Cardinality({w \in Workers : report[w].label = r})

\* cooldown_trips_total: every pause that begins, whether a spawn error or an exit
\* begins it, is counted in that same critical section and exactly once, and
\* nothing else is: openUntil moves exactly when the counter goes up by one.
TripsAreCounted ==
    [][count'["trips"] = IF breaker'.openUntil # breaker.openUntil
                         THEN count["trips"] + 1 ELSE count["trips"]]_mvars

\* Shutdown: when it returns nil the counters are final, every worker that was
\* ever started is in exits_total and every kill in both counters.
CompleteAtShutdown ==
    shutdown = "nil" => /\ count["spawns"] = Exited
                        /\ \A r \in KillReasons : kills[r] = exits[r]

\* Stats, healthHandler, Collect: what is pulled from a snapshot fits what was
\* pushed to the counters, although the two are written at different moments.
\* Health shows a hint exactly if one was counted and an exit exactly if a spawn
\* is no longer running.  Counted tasks are shown, and neither a pause nor a level
\* is shown before the trip that caused it is counted.
ShownIsCounted ==
    LET h == Health(Snapshot)
        g == Gauges(Snapshot)
    IN  /\ h.hint = Null <=> count["hints"] = 0
        /\ h.exit = Null <=> count["spawns"] = running
        /\ h.tasks = Null => count["tasks"] = 0
        /\ g.active = 1 => count["trips"] > 0
        /\ g.level <= count["trips"]
=============================================================================
