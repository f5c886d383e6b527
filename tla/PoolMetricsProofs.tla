------------------------- MODULE PoolMetricsProofs -------------------------
(***************************************************************************)
(* The counters of PoolMetrics, for every configuration and any number of  *)
(* workers and hints.                                                      *)
(*                                                                         *)
(* Every step of PoolMetrics is one of Pool, or counts and changes nothing *)
(* of the pool, so that all that PoolProofs shows holds here too.  The     *)
(* balances then rest on Placement: a reaper has a kill reason only while  *)
(* it terminates its worker, and something left to report only after       *)
(* recordExit and before its own hint.                                     *)
(***************************************************************************)
EXTENDS PoolMetrics, PoolProofs

\* A report is a record of these, or NoReport.
Reports == [label : Labels, tasks : Nat \cup {NoCount}]

CountersOK ==
    /\ count \in [Counters -> Nat]
    /\ exits \in [Labels -> Nat]
    /\ kills \in [KillReasons -> Nat]
    /\ report \in [Workers -> Reports \cup {NoReport}]

LastOK ==
    last \in [hint : Times \cup {Never}, exit : Times \cup {Never},
              code : Kinds, tasks : Nat \cup {NoCount}]

Placement ==
    /\ \A w \in Workers : /\ pc[w] \in {"off", "lock", "spawn", "wait"} => reason[w] = "none"
                          /\ w \in Reporting => pc[w] \in {"off", "lock"}
    /\ shutdown \in {"bg", "nil"} => Reporting = {}

\* A pause, over or not, has its trip in the counter; ShownIsCounted asks it of
\* the pauses that are not over.
TripsSeen ==
    /\ breaker.level <= count["trips"]
    /\ breaker.openUntil # Never => count["trips"] > 0

\* The step that TripsAreCounted asks for.
TripCounted ==
    count'["trips"] = IF breaker'.openUntil # breaker.openUntil
                      THEN count["trips"] + 1 ELSE count["trips"]

\* What the snapshot knows of the last hint and the last exit is what has been
\* counted, or is about to be in the case of the tasks of an exit.
Seen ==
    /\ last.hint = Never <=> count["hints"] = 0
    /\ last.exit = Never <=> count["spawns"] = running
    /\ count["tasks"] > 0 => last.tasks # NoCount
    /\ \A w \in Workers : report[w].tasks # NoCount => last.tasks # NoCount

MIInv ==
    /\ IInv /\ CountersOK /\ LastOK /\ Placement
    /\ SpawnsBalance /\ KillsAreExits /\ TripsSeen /\ Seen
-----------------------------------------------------------------------------
\* Whatever PoolMetrics does, the pool takes one of its own steps or none.
LEMMA StepOfPool ==
    ASSUME [MNext]_mvars
    PROVE  [Next]_vars
<1>1. ASSUME NEW t \in Threads, MHintDropped(t) \/ MHintPaused(t) \/ MHintAccepted(t)
      PROVE  Next
  BY <1>1 DEF MHintDropped, MHintPaused, MHintAccepted, Enter, Next
<1>2. ASSUME NEW t \in Threads, MSpawnError(t) \/ \E w \in Workers : MSpawnWorker(t, w)
      PROVE  Next
  BY <1>2 DEF MSpawnError, MSpawnWorker, Spawn, Next
<1>3. ASSUME NEW w \in Workers, MRecordExit(w) \/ \E why \in KillReasons : MTerminate(w, why)
      PROVE  Next
  BY <1>3 DEF MRecordExit, MTerminate, Wait, Next
<1>4. ASSUME NEW w \in Workers, Report(w)
      PROVE  UNCHANGED vars
  BY <1>4 DEF Report
<1>5. CASE MReapersWaited
  BY <1>5 DEF MReapersWaited, Next
<1>6. CASE Uncounted
  BY <1>6 DEF Uncounted, Wait, Next
<1>7. CASE UNCHANGED mvars
  BY <1>7 DEF mvars
<1> QED
  BY <1>1, <1>2, <1>3, <1>4, <1>5, <1>6, <1>7 DEF MNext

\* PoolMetrics implements Pool: counting changes nothing of what it counts.
THEOREM MetricsOnlyObserve == MSpec => Spec
<1>1. MInit => Init
  BY DEF MInit
<1> QED
  BY <1>1, StepOfPool, PTL DEF MSpec, Spec

\* One element more or less.
LEMMA OneMore ==
    ASSUME NEW S, IsFiniteSet(S), NEW x, x \notin S
    PROVE  Cardinality(S \cup {x}) = Cardinality(S) + 1
BY FS_AddElement, FS_CardinalityType

LEMMA OneLess ==
    ASSUME NEW S, IsFiniteSet(S), NEW x \in S
    PROVE  Cardinality(S \ {x}) = Cardinality(S) - 1
BY FS_RemoveElement, FS_CardinalityType

\* Inc adds one at the label and nothing elsewhere.
LEMMA IncAdds ==
    ASSUME NEW S, NEW f \in [S -> Nat], NEW x \in S
    PROVE  /\ Inc(f, x) \in [S -> Nat]
           /\ Inc(f, x)[x] = f[x] + 1
           /\ \A y \in S \ {x} : Inc(f, x)[y] = f[y]
BY DEF Inc

\* What a reaper reports is a report.
LEMMA ReportOfOK ==
    ASSUME TypeOK, NEW w \in Workers
    PROVE  /\ ReportOf(w) \in Reports
           /\ exit[w].kind \in Kinds
           /\ reason[w] # "none" => ReportOf(w).label = reason[w]
           /\ reason[w] = "none" => ReportOf(w).label \in {"ok", "failure"}
<1>1. exit[w] \in Exits \cup {NoExit} /\ reason[w] \in {"none", "ttl", "shutdown"}
  BY DEF TypeOK
<1>2. exit[w].kind \in Kinds /\ exit[w].tasks \in Nat \cup {NoCount}
  BY <1>1, ExitsBound DEF NoExit, Kinds
<1>3. classify(exit[w], FALSE) \in {"ok", "failure"}
  BY DEF classify
<1>4. /\ Label(w) \in Labels
      /\ reason[w] # "none" => Label(w) = reason[w]
      /\ reason[w] = "none" => Label(w) \in {"ok", "failure"}
  BY <1>1, <1>3 DEF Label, Labels, KillReasons
<1> QED
  BY <1>2, <1>4 DEF ReportOf, Reports

-----------------------------------------------------------------------------
\* A step that leaves the reports, the reasons and their place alone.
LEMMA PlacementKept ==
    ASSUME Placement, UNCHANGED <<report, reason>>,
           shutdown' \in {"bg", "nil"} => shutdown \in {"bg", "nil"} \/ Reporting = {},
           \A w \in Workers :
              /\ pc'[w] \in {"off", "lock", "spawn", "wait"} =>
                    pc[w] \in {"off", "lock", "spawn", "wait"}
              /\ w \in Reporting => pc'[w] \in {"off", "lock"}
    PROVE  Placement'
BY DEF Placement, Reporting

\* Reasons and reports are where Placement says, after every step.
LEMMA PlacementStep ==
    ASSUME TypeOK, MutexHeld, Closing, CountersOK, Placement, [MNext]_mvars
    PROVE  Placement'
<1> USE DEF TypeOK
<1>1. ASSUME NEW t \in Threads, MHintDropped(t) \/ MHintPaused(t) \/ MHintAccepted(t)
      PROVE  Placement'
  <2>1. /\ t \notin Reporting /\ pc[t] = "lock"
        /\ \E s \in {"off", "idle", "spawn"} : pc' = [pc EXCEPT ![t] = s]
        /\ t \in Workers => pc'[t] \in {"off", "spawn"}
        /\ UNCHANGED <<report, reason, shutdown>>
    BY <1>1 DEF MHintDropped, MHintPaused, MHintAccepted, MayEnter, HintDropped, HintPaused,
                HintAccepted, Return, After, reapVars
  <2>2. \A w \in Workers : w \in Threads
    BY DEF Threads
  <2> QED
    BY <2>1, <2>2, PlacementKept DEF Placement
<1>2. ASSUME NEW t \in Threads, MSpawnError(t)
      PROVE  Placement'
  <2>1. /\ pc[t] = "spawn"
        /\ pc' = [pc EXCEPT ![t] = After(t)]
        /\ UNCHANGED <<report, reason, shutdown>>
    BY <1>2 DEF MSpawnError, SpawnError, Return, reapVars
  <2>2. \A w \in Workers : w \in Threads
    BY DEF Threads
  <2> QED
    BY <2>1, <2>2, PlacementKept DEF Placement, After
<1>3. ASSUME NEW t \in Threads, NEW v \in Workers, MSpawnWorker(t, v)
      PROVE  Placement'
  <2>1. /\ pc[t] = "spawn" /\ pc[v] = "off" /\ v \notin Reporting
        /\ \/ pc' = [pc EXCEPT ![v] = "wait", ![t] = After(t)]
           \/ pc' = [pc EXCEPT ![v] = "wait"]
        /\ UNCHANGED <<report, reason, shutdown>>
    BY <1>3 DEF MSpawnWorker, SpawnWorker
  <2>2. \A w \in Workers : w \in Threads
    BY DEF Threads
  <2> QED
    BY <2>1, <2>2, PlacementKept DEF Placement, After
<1>4. ASSUME NEW v \in Workers, NEW why \in KillReasons, MTerminate(v, why)
      PROVE  Placement'
  <2>1. /\ pc[v] = "wait"
        /\ reason' = [reason EXCEPT ![v] = why]
        /\ \E s \in {"grace", "kill"} : pc' = [pc EXCEPT ![v] = s]
        /\ UNCHANGED <<report, shutdown>>
    BY <1>4 DEF MTerminate, WaitTTL, WaitStop, Terminate
  <2>2. \A w \in Workers : w \in Threads
    BY DEF Threads
  <2> QED
    BY <2>1, <2>2 DEF Placement, Reporting
<1>5. ASSUME NEW v \in Workers, MRecordExit(v)
      PROVE  Placement'
  <2>1. /\ pc[v] = "record"
        /\ reason' = [reason EXCEPT ![v] = "none"]
        /\ \E s \in {"lock", "off"} : pc' = [pc EXCEPT ![v] = s]
        /\ report' = [report EXCEPT ![v] = ReportOf(v)]
        /\ UNCHANGED shutdown
    BY <1>5 DEF MRecordExit, RecordExit, Call, Return, After
  <2>2. \A w \in Workers : w \in Threads
    BY DEF Threads
  <2>3. shutdown \notin {"bg", "nil"}
    BY <2>1 DEF Closing
  <2> QED
    BY <2>1, <2>2, <2>3 DEF Placement, Reporting, CountersOK
<1>6. ASSUME NEW v \in Workers, Report(v)
      PROVE  Placement'
  <2>1. report' = [report EXCEPT ![v] = NoReport] /\ UNCHANGED <<pc, reason, shutdown>>
    BY <1>6 DEF Report, vars
  <2> QED
    BY <2>1 DEF Placement, Reporting, CountersOK
<1>7. CASE MReapersWaited
  <2>1. Reporting = {} /\ UNCHANGED <<pc, report, reason>>
    BY <1>7 DEF MReapersWaited, ReapersWaited, reapVars
  <2> QED
    BY <2>1, PlacementKept DEF Placement
<1>8. CASE Uncounted
  <2>1. UNCHANGED report
    BY <1>8 DEF Uncounted
  <2>2. ASSUME NEW v \in Workers, WaitDone(v) \/ Term(v) \/ ProcEnds(v)
        PROVE  Placement'
    <3>1. /\ UNCHANGED <<reason, shutdown>>
          /\ \/ UNCHANGED pc
             \/ /\ pc[v] \in {"wait", "grace", "kill"}
                /\ \E s \in {"record", "kill"} : pc' = [pc EXCEPT ![v] = s]
      BY <2>2 DEF WaitDone, Term, ProcEnds, TermDone, GraceOver, Reaped, reapVars
    <3>2. \A w \in Workers : w \in Threads
      BY DEF Threads
    <3> QED
      BY <2>1, <3>1, <3>2, PlacementKept DEF Placement
  <2>3. CASE Hints \/ DispatcherStop \/ PokeTick \/ PokeStop
    <3>1. \A w \in Workers : pc'[w] = pc[w]
      BY <2>3, PoolConfig DEF Hints, DispatcherHint, DispatcherStop, PokeTick, PokeStop, Call, Threads
    <3>2. UNCHANGED <<reason, shutdown>>
      BY <2>3 DEF Hints, DispatcherHint, DispatcherStop, PokeTick, PokeStop, reapVars
    <3> QED
      BY <2>1, <3>1, <3>2, PlacementKept DEF Placement
  <2>4. CASE Stats \/ Tick \/ CancelRun
    <3>1. UNCHANGED <<pc, reason, shutdown>>
      BY <2>4 DEF Stats, Tick, CancelRun, reapVars
    <3> QED
      BY <2>1, <3>1, PlacementKept DEF Placement
  <2>5. CASE ShutdownCall \/ PokeWaited \/ ShutdownTimeout
    <3>1. UNCHANGED <<pc, reason>> /\ (shutdown' \in {"bg", "nil"} => shutdown = "bg")
      BY <2>5 DEF ShutdownCall, PokeWaited, ShutdownTimeout, reapVars
    <3> QED
      BY <2>1, <3>1, PlacementKept DEF Placement
  <2> QED
    BY <1>8, <2>2, <2>3, <2>4, <2>5 DEF Uncounted
<1>9. CASE UNCHANGED mvars
  BY <1>9, PlacementKept DEF mvars, vars, Placement
<1> QED
  BY <1>1, <1>2, <1>3, <1>4, <1>5, <1>6, <1>7, <1>8, <1>9 DEF MNext

\* Every step counts with natural numbers and labels of its own kind.
LEMMA CountersStep ==
    ASSUME TypeOK, CountersOK, [MNext]_mvars
    PROVE  CountersOK'
<1> USE DEF CountersOK
<1>1. /\ {"spawns", "spawnErrors", "trips", "hints", "cooldown", "late"} \subseteq Counters
      /\ \A x \in Counters, y \in Counters :
            /\ Inc(count, x) \in [Counters -> Nat]
            /\ Inc(Inc(count, x), y) \in [Counters -> Nat]
  BY IncAdds DEF Counters
<1>2. ASSUME NEW t \in Threads, MHintDropped(t) \/ MHintPaused(t) \/ MHintAccepted(t)
      PROVE  CountersOK'
  BY <1>1, <1>2 DEF MHintDropped, MHintPaused, MHintAccepted
<1>3. ASSUME NEW t \in Threads, MSpawnError(t) \/ \E w \in Workers : MSpawnWorker(t, w)
      PROVE  CountersOK'
  BY <1>1, <1>3 DEF MSpawnError, MSpawnWorker
<1>4. ASSUME NEW w \in Workers, NEW why \in KillReasons, MTerminate(w, why)
      PROVE  CountersOK'
  BY <1>4, IncAdds DEF MTerminate
<1>5. ASSUME NEW w \in Workers, MRecordExit(w)
      PROVE  CountersOK'
  <2>1. ReportOf(w) \in Reports
    BY ReportOfOK
  <2>2. /\ report' = [report EXCEPT ![w] = ReportOf(w)]
        /\ count' \in {count, Inc(count, "trips")}
        /\ UNCHANGED <<exits, kills>>
    BY <1>5 DEF MRecordExit, CountTrip
  <2> QED
    BY <1>1, <2>1, <2>2
<1>6. ASSUME NEW w \in Workers, Report(w)
      PROVE  CountersOK'
  <2>1. report[w] \in Reports
    BY <1>6 DEF Report, Reporting
  <2>2. report[w].label \in Labels /\ report[w].tasks \in Nat \cup {NoCount}
    BY <2>1 DEF Reports
  <2>3. exits' \in [Labels -> Nat]
    BY <1>6, <2>2, IncAdds DEF Report
  <2>4. count' \in [Counters -> Nat]
    <3>1. AddTasks(count["tasks"], report[w]) \in Nat
      BY <2>2 DEF AddTasks, Counters
    <3>2. count' = [count EXCEPT !["tasks"] = AddTasks(count["tasks"], report[w])]
      BY <1>6 DEF Report
    <3> QED
      BY <3>1, <3>2
  <2>5. report' = [report EXCEPT ![w] = NoReport] /\ UNCHANGED kills
    BY <1>6 DEF Report
  <2> QED
    BY <2>3, <2>4, <2>5
<1>7. CASE MReapersWaited \/ Uncounted \/ UNCHANGED mvars
  BY <1>7 DEF MReapersWaited, Uncounted, mvars, counters
<1> QED
  BY <1>2, <1>3, <1>4, <1>5, <1>6, <1>7 DEF MNext

\* The fields of the last hint and the last exit keep their types.
LEMMA LastStep ==
    ASSUME TypeOK, Placed, LastOK, [MNext]_mvars
    PROVE  LastOK'
<1> USE DEF LastOK
<1>1. last' \in {last, HintedNow} \/ \E w \in Workers : pc[w] = "record" /\ last' = LastOf(w)
  <2>1. ASSUME NEW w \in Workers, MRecordExit(w)
        PROVE  pc[w] = "record" /\ last' = LastOf(w)
    BY <2>1 DEF MRecordExit, RecordExit
  <2>2. ASSUME NEW t \in Threads, \/ MHintDropped(t) \/ MHintPaused(t) \/ MHintAccepted(t)
                                   \/ MSpawnError(t) \/ \E w \in Workers : MSpawnWorker(t, w)
        PROVE  last' \in {last, HintedNow}
    BY <2>2 DEF MHintDropped, MHintPaused, MHintAccepted, MSpawnError, MSpawnWorker
  <2>3. ASSUME NEW w \in Workers, Report(w) \/ \E why \in KillReasons : MTerminate(w, why)
        PROVE  last' = last
    BY <2>3 DEF Report, MTerminate
  <2>4. CASE MReapersWaited \/ Uncounted \/ UNCHANGED mvars
    BY <2>4 DEF MReapersWaited, Uncounted, mvars
  <2> QED
    BY <2>1, <2>2, <2>3, <2>4 DEF MNext
<1>2. HintedNow \in [hint : Times \cup {Never}, exit : Times \cup {Never},
                     code : Kinds, tasks : Nat \cup {NoCount}]
  BY DEF HintedNow, TypeOK
<1>3. ASSUME NEW w \in Workers, pc[w] = "record"
      PROVE  LastOf(w) \in [hint : Times \cup {Never}, exit : Times \cup {Never},
                            code : Kinds, tasks : Nat \cup {NoCount}]
  <2>1. exit[w].kind \in Kinds /\ ReportOf(w).tasks \in Nat \cup {NoCount}
    BY ReportOfOK DEF Reports
  <2>2. exitedAt[w] \in Times
    BY <1>3 DEF Placed
  <2> QED
    BY <2>1, <2>2 DEF LastOf, ReportOf
<1> QED
  BY <1>1, <1>2, <1>3
-----------------------------------------------------------------------------
\* The reapers that have something to report are finitely many.
LEMMA FewReports == IsFiniteSet(Reporting) /\ Cardinality(Reporting) \in Nat
BY PoolConfig, FS_Subset, FS_CardinalityType DEF Reporting

\* A counter is not touched by what is added to the others.
LEMMA IncOther ==
    ASSUME CountersOK, NEW c \in Counters, NEW x \in Counters \ {c}
    PROVE  /\ Inc(count, x)[c] = count[c]
           /\ Inc(Inc(count, x), c)[c] = count[c] + 1
           /\ Inc(Inc(count, c), x)[c] = count[c] + 1
           /\ \A y \in Counters \ {c} : Inc(Inc(count, x), y)[c] = count[c]
<1>1. count \in [Counters -> Nat] /\ x \in Counters
  BY DEF CountersOK
<1>2. Inc(count, x) \in [Counters -> Nat] /\ Inc(count, x)[c] = count[c]
  BY <1>1, IncAdds
<1>3. Inc(count, c) \in [Counters -> Nat] /\ Inc(count, c)[c] = count[c] + 1
  BY <1>1, IncAdds
<1> QED
  BY <1>1, <1>2, <1>3, IncAdds

\* A spawn, an exit and its report move one worker from one side of the balance
\* to the other.
LEMMA BalanceStep ==
    ASSUME TypeOK, CountersOK, Placement, SpawnsBalance, [MNext]_mvars
    PROVE  SpawnsBalance'
<1> USE DEF SpawnsBalance
<1>1. /\ count["spawns"] \in Nat /\ running \in Int /\ Cardinality(Reporting) \in Nat
      /\ \A l \in Labels : exits[l] \in Nat
  BY FewReports DEF CountersOK, Counters, TypeOK
<1>2. ASSUME count'["spawns"] = count["spawns"], UNCHANGED <<exits, report, running>>
      PROVE  SpawnsBalance'
  BY <1>2 DEF Exited, Reporting
<1>3. ASSUME NEW x \in Counters \ {"spawns"}
      PROVE  /\ Inc(count, x)["spawns"] = count["spawns"]
             /\ \A y \in Counters \ {"spawns"} : Inc(Inc(count, x), y)["spawns"] = count["spawns"]
  BY IncOther DEF Counters
<1>4. {"hints", "cooldown", "late", "spawnErrors", "trips"} \subseteq Counters \ {"spawns"}
  BY DEF Counters
<1>5. ASSUME NEW t \in Threads, MHintDropped(t) \/ MHintPaused(t) \/ MHintAccepted(t)
      PROVE  SpawnsBalance'
  <2>1. count'["spawns"] = count["spawns"]
    BY <1>3, <1>4, <1>5 DEF MHintDropped, MHintPaused, MHintAccepted
  <2>2. UNCHANGED <<exits, report, running>>
    BY <1>5 DEF MHintDropped, MHintPaused, MHintAccepted, HintDropped, HintPaused, HintAccepted
  <2> QED
    BY <1>2, <2>1, <2>2
<1>6. ASSUME NEW t \in Threads, MSpawnError(t)
      PROVE  SpawnsBalance'
  <2>1. count'["spawns"] = count["spawns"]
    BY <1>3, <1>4, <1>6 DEF MSpawnError
  <2>2. UNCHANGED <<exits, report, running>>
    BY <1>6 DEF MSpawnError, SpawnError
  <2> QED
    BY <1>2, <2>1, <2>2
<1>7. ASSUME NEW t \in Threads, NEW w \in Workers, MSpawnWorker(t, w)
      PROVE  SpawnsBalance'
  <2>1. count'["spawns"] = count["spawns"] + 1
    <3>1. count' = Inc(count, "spawns") /\ count \in [Counters -> Nat] /\ "spawns" \in Counters
      BY <1>7 DEF MSpawnWorker, CountersOK, Counters
    <3> QED
      BY <3>1, IncAdds
  <2>2. running' = running + 1 /\ UNCHANGED <<exits, report>>
    BY <1>7 DEF MSpawnWorker, SpawnWorker
  <2>3. Exited' = Exited /\ Reporting' = Reporting /\ Exited \in Nat
    BY <1>1, <2>2 DEF Exited, Reporting, Labels, KillReasons
  <2> QED
    BY <1>1, <2>1, <2>2, <2>3
<1>8. ASSUME NEW w \in Workers, MRecordExit(w)
      PROVE  SpawnsBalance'
  <2>1. /\ pc[w] = "record" /\ running' = running - 1
        /\ report' = [report EXCEPT ![w] = ReportOf(w)]
        /\ count' \in {count, Inc(count, "trips")}
        /\ UNCHANGED exits
    BY <1>8 DEF MRecordExit, RecordExit, CountTrip
  <2>2. w \notin Reporting
    BY <2>1 DEF Placement
  <2>3. ReportOf(w) # NoReport
    BY ReportOfOK DEF Reports, NoReport, Labels, KillReasons
  <2>4. Reporting' = Reporting \cup {w}
    BY <2>1, <2>3 DEF Reporting, CountersOK
  <2>5. Cardinality(Reporting') = Cardinality(Reporting) + 1
    BY <2>2, <2>4, FewReports, OneMore
  <2>6. count'["spawns"] = count["spawns"] /\ Exited' = Exited /\ Exited \in Nat
    BY <1>1, <1>3, <1>4, <2>1 DEF Exited, Labels, KillReasons
  <2> QED
    BY <1>1, <2>1, <2>5, <2>6
<1>9. ASSUME NEW w \in Workers, Report(w)
       PROVE  SpawnsBalance'
  <2>1. /\ w \in Reporting
        /\ exits' = Inc(exits, report[w].label)
        /\ report' = [report EXCEPT ![w] = NoReport]
        /\ count' = [count EXCEPT !["tasks"] = AddTasks(count["tasks"], report[w])]
        /\ UNCHANGED running
    BY <1>9 DEF Report, vars
  <2>2. Reporting' = Reporting \ {w}
    BY <2>1 DEF Reporting, CountersOK
  <2>3. Cardinality(Reporting') = Cardinality(Reporting) - 1
    BY <2>1, <2>2, FewReports, OneLess
  <2>4. report[w].label \in Labels
    BY <2>1 DEF Reporting, CountersOK, Reports
  <2>5. Exited' = Exited + 1 /\ Exited \in Nat
    <3>1. /\ exits'[report[w].label] = exits[report[w].label] + 1
          /\ \A y \in Labels \ {report[w].label} : exits'[y] = exits[y]
      BY <2>1, <2>4, IncAdds DEF CountersOK
    <3>2. report[w].label \in {"ok", "failure", "ttl", "shutdown"}
      BY <2>4 DEF Labels, KillReasons
    <3>3. Labels = {"ok", "failure", "ttl", "shutdown"}
      BY DEF Labels, KillReasons
    <3>4. Exited' = exits'["ok"] + exits'["failure"] + exits'["ttl"] + exits'["shutdown"]
      BY DEF Exited
    <3>5. \A l \in {"ok", "failure", "ttl", "shutdown"} : exits[l] \in Nat
      BY <1>1, <3>3
    <3>6. CASE report[w].label = "ok"
      BY <3>1, <3>3, <3>4, <3>5, <3>6 DEF Exited
    <3>7. CASE report[w].label = "failure"
      BY <3>1, <3>3, <3>4, <3>5, <3>7 DEF Exited
    <3>8. CASE report[w].label = "ttl"
      BY <3>1, <3>3, <3>4, <3>5, <3>8 DEF Exited
    <3>9. CASE report[w].label = "shutdown"
      <4>1. /\ exits'["shutdown"] = exits["shutdown"] + 1
            /\ \A y \in {"ok", "failure", "ttl"} : exits'[y] = exits[y]
        BY <3>1, <3>3, <3>9
      <4> QED
        BY <3>4, <3>5, <4>1 DEF Exited
    <3> QED
      BY <3>2, <3>6, <3>7, <3>8, <3>9
  <2>6. count'["spawns"] = count["spawns"]
    BY <2>1 DEF CountersOK, Counters
  <2> QED
    BY <1>1, <2>1, <2>3, <2>5, <2>6
<1>10. ASSUME NEW w \in Workers, NEW why \in KillReasons, MTerminate(w, why)
       PROVE  SpawnsBalance'
  BY <1>2, <1>10 DEF MTerminate, WaitTTL, WaitStop, Terminate
<1>11. CASE MReapersWaited
  BY <1>2, <1>11 DEF MReapersWaited, ReapersWaited, counters
<1>12. CASE Uncounted
  <2>1. UNCHANGED <<count, exits, report>>
    BY <1>12 DEF Uncounted, counters
  <2>2. UNCHANGED running
    BY <1>12 DEF Uncounted, WaitDone, Term, ProcEnds, TermDone, GraceOver, Reaped, Hints,
                 DispatcherHint, DispatcherStop, PokeTick, PokeStop, Stats, ShutdownCall,
                 PokeWaited, ShutdownTimeout, Tick, CancelRun
  <2> QED
    BY <1>2, <2>1, <2>2
<1>13. CASE UNCHANGED mvars
  BY <1>2, <1>13 DEF mvars, vars, counters
<1> QED
  BY <1>5, <1>6, <1>7, <1>8, <1>9, <1>10, <1>11, <1>12, <1>13 DEF MNext
-----------------------------------------------------------------------------
\* A failure moves the pause and raises the level exactly when Trips says so.
LEMMA FailureTrips ==
    ASSUME NEW b, NEW t \in Times, BreakerOK(b, t), now = t
    PROVE  /\ Trips(b) => /\ failure(b, now).level \in {1, b.level + 1}
                          /\ failure(b, now).openUntil # b.openUntil
           /\ ~Trips(b) => /\ failure(b, now).level \in {0, b.level}
                           /\ failure(b, now).openUntil = b.openUntil
<1> DEFINE d == decay(b, now)
<1>1. /\ d \in BreakerState /\ d.openUntil = b.openUntil /\ d.level \in {0, b.level}
      /\ BreakerOK(d, now)
  BY DecayOK DEF BreakerOK
<1>2. CASE ~enabled
  BY <1>2 DEF Trips, failure
<1>3. CASE enabled /\ stays(d, now)
  <2>1. failure(b, now) = [d EXCEPT !.failures = record(d, now)]
    BY <1>3 DEF failure
  <2>2. ~Trips(b)
    BY <1>3 DEF Trips
  <2> HIDE DEF d
  <2>3. /\ [d EXCEPT !.failures = record(d, now)].level = d.level
        /\ [d EXCEPT !.failures = record(d, now)].openUntil = d.openUntil
    BY <1>1 DEF BreakerState
  <2> QED
    BY <1>1, <2>1, <2>2, <2>3
<1>4. CASE enabled /\ ~stays(d, now)
  <2>1. failure(b, now).level = d.level + 1 /\ failure(b, now).openUntil = now + nextCooldown(d)
    BY <1>4 DEF failure
  <2>2. Trips(b)
    BY <1>4 DEF Trips
  <2>3. d.openUntil <= now /\ d.openUntil \in Nat /\ now \in Nat
    BY <1>1, <1>4, BreakerConfig DEF stays, isOpen, BreakerOK, BreakerState, Times
  <2>4. d.level \in 0 .. MaxTime
    BY <1>1, <2>3, BreakerConfig DEF BreakerOK, BreakerState, Times
  <2>5. nextCooldown(d) \in 1 .. MaxCooldown
    BY <1>4, <2>4, NextCooldownBounds
  <2> HIDE DEF d
  <2> QED
    BY <1>1, <2>1, <2>2, <2>3, <2>5, BreakerConfig
<1> QED
  BY <1>2, <1>3, <1>4

\* Every step that trips the breaker counts the trip; no other step raises the
\* level or ends in a pause that was not there.
LEMMA TripsStep ==
    ASSUME TypeOK, Placed, BreakerFit, CountersOK, TripsSeen, [MNext]_mvars
    PROVE  TripsSeen' /\ TripCounted
<1>1. /\ breaker.level \in Nat /\ breaker.openUntil \in Nat /\ count["trips"] \in Nat
      /\ now \in Times /\ "trips" \in Counters
      /\ {"spawns", "spawnErrors", "hints", "cooldown", "late"} \subseteq Counters \ {"trips"}
  BY BreakerConfig DEF BreakerFit, BreakerOK, BreakerState, CountersOK, Counters, TypeOK
<1>2. ASSUME count'["trips"] = count["trips"], breaker'.level \in {0, breaker.level},
             breaker'.openUntil = breaker.openUntil
      PROVE  TripsSeen' /\ TripCounted
  BY <1>1, <1>2 DEF TripsSeen, TripCounted
<1>3. ASSUME breaker' = failure(breaker, now),
             count'["trips"] = IF Trips(breaker) THEN count["trips"] + 1 ELSE count["trips"]
      PROVE  TripsSeen' /\ TripCounted
  <2>1. /\ Trips(breaker) => /\ failure(breaker, now).level \in {1, breaker.level + 1}
                             /\ failure(breaker, now).openUntil # breaker.openUntil
        /\ ~Trips(breaker) => /\ failure(breaker, now).level \in {0, breaker.level}
                              /\ failure(breaker, now).openUntil = breaker.openUntil
    BY <1>1, FailureTrips DEF BreakerFit
  <2>2. CASE Trips(breaker)
    BY <1>1, <1>3, <2>1, <2>2 DEF TripsSeen, TripCounted
  <2>3. CASE ~Trips(breaker)
    BY <1>2, <1>3, <2>1, <2>3
  <2> QED
    BY <2>2, <2>3
<1>4. /\ decay(breaker, now).level \in {0, breaker.level}
      /\ decay(breaker, now).openUntil = breaker.openUntil
  BY <1>1, DecayOK DEF BreakerFit
<1>5. ASSUME NEW t \in Threads, MHintDropped(t) \/ MHintPaused(t) \/ MHintAccepted(t)
      PROVE  TripsSeen' /\ TripCounted
  <2>1. breaker' \in {breaker, decay(breaker, now)}
    BY <1>5 DEF MHintDropped, MHintPaused, MHintAccepted, HintDropped, HintPaused, HintAccepted
  <2>2. count'["trips"] = count["trips"]
    BY <1>1, <1>5, IncOther DEF MHintDropped, MHintPaused, MHintAccepted
  <2> QED
    BY <1>2, <1>4, <2>1, <2>2
<1>6. ASSUME NEW t \in Threads, NEW w \in Workers, MSpawnWorker(t, w)
      PROVE  TripsSeen' /\ TripCounted
  <2>1. breaker' = breaker /\ count'["trips"] = count["trips"]
    BY <1>1, <1>6, IncOther DEF MSpawnWorker, SpawnWorker
  <2> QED
    BY <1>2, <2>1
<1>7. ASSUME NEW t \in Threads, MSpawnError(t)
      PROVE  TripsSeen' /\ TripCounted
  <2>1. breaker' = failure(breaker, now)
    BY <1>7 DEF MSpawnError, SpawnError
  <2>2. count'["trips"] = IF Trips(breaker) THEN count["trips"] + 1 ELSE count["trips"]
    BY <1>1, <1>7, IncOther DEF MSpawnError
  <2> QED
    BY <1>3, <2>1, <2>2
<1>8. ASSUME NEW w \in Workers, MRecordExit(w)
      PROVE  TripsSeen' /\ TripCounted
  <2> DEFINE failed == reason[w] = "none" /\ exit[w].kind # "ok"
  <2>1. exitedAt[w] \in Times
    BY <1>8 DEF MRecordExit, RecordExit, Placed
  <2>2. /\ failed => breaker' = failure(breaker, now)
        /\ ~failed => breaker' \in {breaker, ok(breaker, exitedAt[w])}
    BY <1>8 DEF MRecordExit, RecordExit, classify
  <2>3. Label(w) = "failure" <=> failed
    BY DEF Label, classify, TypeOK
  <2>4. count' = IF failed /\ Trips(breaker) THEN Inc(count, "trips") ELSE count
    BY <1>8, <2>3 DEF MRecordExit, CountTrip
  <2>5. Inc(count, "trips")["trips"] = count["trips"] + 1
    BY <1>1, IncAdds DEF CountersOK
  <2>6. CASE failed
    BY <1>3, <2>2, <2>4, <2>5, <2>6
  <2>7. CASE ~failed
    <3>1. /\ ok(breaker, exitedAt[w]).level \in {0, breaker.level}
          /\ ok(breaker, exitedAt[w]).openUntil = breaker.openUntil
      BY <1>1, <2>1, OkOK DEF BreakerFit
    <3> QED
      BY <1>2, <2>2, <2>4, <2>7, <3>1
  <2> QED
    BY <2>6, <2>7
<1>9. ASSUME NEW w \in Workers, Report(w)
      PROVE  TripsSeen' /\ TripCounted
  <2>1. /\ breaker' = breaker
        /\ count' = [count EXCEPT !["tasks"] = AddTasks(count["tasks"], report[w])]
    BY <1>9 DEF Report, vars
  <2>2. count'["trips"] = count["trips"]
    BY <1>1, <2>1 DEF CountersOK
  <2> QED
    BY <1>2, <2>1, <2>2
<1>10. ASSUME NEW w \in Workers, NEW why \in KillReasons, MTerminate(w, why)
       PROVE  TripsSeen' /\ TripCounted
  BY <1>2, <1>10 DEF MTerminate, WaitTTL, WaitStop, Terminate
<1>11. CASE MReapersWaited
  BY <1>2, <1>11 DEF MReapersWaited, ReapersWaited, counters
<1>12. CASE Uncounted
  <2>1. UNCHANGED count
    BY <1>12 DEF Uncounted, counters
  <2>2. breaker' \in {breaker, decay(breaker, now)}
    BY <1>12 DEF Uncounted, WaitDone, Term, ProcEnds, TermDone, GraceOver, Reaped, Hints,
                 DispatcherHint, DispatcherStop, PokeTick, PokeStop, Stats, ShutdownCall,
                 PokeWaited, ShutdownTimeout, Tick, CancelRun
  <2> QED
    BY <1>2, <1>4, <2>1, <2>2
<1>13. CASE UNCHANGED mvars
  BY <1>2, <1>13 DEF mvars, vars, counters
<1> QED
  BY <1>5, <1>6, <1>7, <1>8, <1>9, <1>10, <1>11, <1>12, <1>13 DEF MNext

\* The fields of the snapshot and the counters tell of the same events.
LEMMA SeenStep ==
    ASSUME TypeOK, Placed, CountersOK, LastOK, SpawnsBalance, Seen, [MNext]_mvars
    PROVE  Seen'
<1>1. /\ count["hints"] \in Nat /\ count["spawns"] \in Nat /\ count["tasks"] \in Nat
      /\ running \in Int /\ now \in Times /\ Never \notin Times
      /\ {"hints", "spawns", "tasks", "spawnErrors", "trips", "cooldown", "late"} = Counters
  BY BreakerConfig DEF CountersOK, Counters, TypeOK, Times, Never
<1>2. running <= count["spawns"]
  <2>1. \A l \in {"ok", "failure", "ttl", "shutdown"} : exits[l] \in Nat
    BY DEF CountersOK, Labels, KillReasons
  <2>2. Exited \in Nat
    BY <2>1 DEF Exited
  <2> QED
    BY <1>1, <2>2, FewReports DEF SpawnsBalance
<1>3. ASSUME UNCHANGED <<last, report, running>>,
             \A c \in {"hints", "spawns", "tasks"} : count'[c] = count[c]
      PROVE  Seen'
  BY <1>3 DEF Seen
<1>4. ASSUME NEW t \in Threads, MHintDropped(t)
      PROVE  Seen'
  <2>1. \A c \in {"hints", "spawns", "tasks"} : count'[c] = count[c]
    BY <1>1, <1>4, IncOther DEF MHintDropped
  <2> QED
    BY <1>3, <1>4, <2>1 DEF MHintDropped, HintDropped
<1>5. ASSUME NEW t \in Threads, MHintPaused(t) \/ MHintAccepted(t)
      PROVE  Seen'
  <2>1. /\ count'["hints"] = count["hints"] + 1
        /\ \A c \in {"spawns", "tasks"} : count'[c] = count[c]
    <3>1. count' \in {Inc(count, "hints"), Inc(Inc(count, "hints"), "cooldown")}
      BY <1>5 DEF MHintPaused, MHintAccepted
    <3>2. Inc(count, "hints")["hints"] = count["hints"] + 1
      BY <1>1, IncAdds DEF CountersOK
    <3> QED
      BY <1>1, <3>1, <3>2, IncOther
  <2>2. last' = HintedNow /\ UNCHANGED <<report, running>>
    BY <1>5 DEF MHintPaused, MHintAccepted, HintPaused, HintAccepted
  <2>3. last'.hint = now /\ last'.exit = last.exit /\ last'.tasks = last.tasks
    BY <2>2 DEF HintedNow
  <2> QED
    BY <1>1, <2>1, <2>2, <2>3 DEF Seen
<1>6. ASSUME NEW t \in Threads, NEW w \in Workers, MSpawnWorker(t, w)
      PROVE  Seen'
  <2>1. /\ count'["spawns"] = count["spawns"] + 1
        /\ \A c \in {"hints", "tasks"} : count'[c] = count[c]
    <3>1. Inc(count, "spawns")["spawns"] = count["spawns"] + 1
      BY <1>1, IncAdds DEF CountersOK
    <3> QED
      BY <1>1, <1>6, <3>1, IncOther DEF MSpawnWorker
  <2>2. running' = running + 1 /\ UNCHANGED <<last, report>>
    BY <1>6 DEF MSpawnWorker, SpawnWorker
  <2> QED
    BY <1>1, <2>1, <2>2 DEF Seen
<1>7. ASSUME NEW t \in Threads, MSpawnError(t)
      PROVE  Seen'
  <2>1. \A c \in {"hints", "spawns", "tasks"} : count'[c] = count[c]
    BY <1>1, <1>7, IncOther DEF MSpawnError
  <2> QED
    BY <1>3, <1>7, <2>1 DEF MSpawnError, SpawnError
<1>8. ASSUME NEW w \in Workers, MRecordExit(w)
      PROVE  Seen'
  <2>1. exitedAt[w] \in Times
    BY <1>8 DEF MRecordExit, RecordExit, Placed
  <2>2. /\ last' = LastOf(w) /\ running' = running - 1
        /\ report' = [report EXCEPT ![w] = ReportOf(w)]
        /\ count' \in {count, Inc(count, "trips")}
    BY <1>8 DEF MRecordExit, RecordExit, CountTrip
  <2>3. \A c \in {"hints", "spawns", "tasks"} : count'[c] = count[c]
    BY <1>1, <2>2, IncOther
  <2>4. /\ last'.hint = last.hint /\ last'.exit = exitedAt[w]
        /\ last'.tasks = IF exit[w].tasks = NoCount THEN last.tasks ELSE exit[w].tasks
    BY <2>2 DEF LastOf
  <2>5. ASSUME NEW v \in Workers, report'[v].tasks # NoCount
        PROVE  last'.tasks # NoCount
    <3>1. CASE v = w
      <4>1. report'[v].tasks = exit[w].tasks
        BY <2>2, <3>1 DEF CountersOK, ReportOf
      <4> QED
        BY <2>4, <2>5, <4>1
    <3>2. CASE v # w
      <4>1. report'[v] = report[v]
        BY <2>2, <3>2 DEF CountersOK
      <4> QED
        BY <2>4, <2>5, <4>1 DEF Seen
    <3> QED
      BY <3>1, <3>2
  <2>6. last'.exit # Never /\ count'["spawns"] # running'
    BY <1>1, <1>2, <2>1, <2>2, <2>3, <2>4
  <2>7. count'["tasks"] > 0 => last'.tasks # NoCount
    BY <2>3, <2>4 DEF Seen
  <2> QED
    BY <2>3, <2>4, <2>5, <2>6, <2>7 DEF Seen
<1>9. ASSUME NEW w \in Workers, Report(w)
      PROVE  Seen'
  <2>1. /\ count' = [count EXCEPT !["tasks"] = AddTasks(count["tasks"], report[w])]
        /\ report' = [report EXCEPT ![w] = NoReport]
        /\ UNCHANGED <<last, running>>
    BY <1>9 DEF Report, vars
  <2>2. /\ \A c \in {"hints", "spawns"} : count'[c] = count[c]
        /\ count'["tasks"] = AddTasks(count["tasks"], report[w])
    BY <1>1, <2>1 DEF CountersOK
  <2>3. count'["tasks"] > 0 => last.tasks # NoCount
    BY <2>2 DEF AddTasks, Seen
  <2>4. \A v \in Workers : report'[v].tasks # NoCount => report[v].tasks # NoCount
    BY <2>1 DEF CountersOK, NoReport
  <2> QED
    BY <2>1, <2>2, <2>3, <2>4 DEF Seen
<1>10. ASSUME NEW w \in Workers, NEW why \in KillReasons, MTerminate(w, why)
       PROVE  Seen'
  BY <1>3, <1>10 DEF MTerminate, WaitTTL, WaitStop, Terminate
<1>11. CASE MReapersWaited
  BY <1>3, <1>11 DEF MReapersWaited, ReapersWaited, counters
<1>12. CASE Uncounted
  <2>1. UNCHANGED <<last, count, report>>
    BY <1>12 DEF Uncounted, counters
  <2>2. UNCHANGED running
    BY <1>12 DEF Uncounted, WaitDone, Term, ProcEnds, TermDone, GraceOver, Reaped, Hints,
                 DispatcherHint, DispatcherStop, PokeTick, PokeStop, Stats, ShutdownCall,
                 PokeWaited, ShutdownTimeout, Tick, CancelRun
  <2> QED
    BY <1>3, <2>1, <2>2
<1>13. CASE UNCHANGED mvars
  BY <1>3, <1>13 DEF mvars, vars, counters
<1> QED
  BY <1>4, <1>5, <1>6, <1>7, <1>8, <1>9, <1>10, <1>11, <1>12, <1>13 DEF MNext
-----------------------------------------------------------------------------
\* The workers being killed for reason r, and the kills for r not yet counted
\* as exits.
Killed(r) == {w \in Workers : reason[w] = r}
Told(r) == {w \in Workers : report[w].label = r}

LEMMA FewKills ==
    ASSUME NEW r
    PROVE  /\ IsFiniteSet(Killed(r)) /\ Cardinality(Killed(r)) \in Nat
           /\ IsFiniteSet(Told(r)) /\ Cardinality(Told(r)) \in Nat
BY PoolConfig, FS_Subset, FS_CardinalityType DEF Killed, Told

\* A kill passes from the reaper's reason to its report to exits_total.
LEMMA KillsStep ==
    ASSUME TypeOK, CountersOK, Placement, KillsAreExits, [MNext]_mvars
    PROVE  KillsAreExits'
<1> SUFFICES ASSUME NEW r \in KillReasons
             PROVE  kills'[r] = exits'[r] + Cardinality(Killed(r)') + Cardinality(Told(r)')
  BY DEF KillsAreExits, Killed, Told
<1> DEFINE Goal == kills'[r] = exits'[r] + Cardinality(Killed(r)') + Cardinality(Told(r)')
<1>1. kills[r] = exits[r] + Cardinality(Killed(r)) + Cardinality(Told(r))
  BY DEF KillsAreExits, Killed, Told
<1>2. r \in Labels /\ r # "none" /\ r \notin {"ok", "failure"}
  BY DEF Labels, KillReasons
<1>3. /\ kills[r] \in Nat /\ exits[r] \in Nat
      /\ Cardinality(Killed(r)) \in Nat /\ Cardinality(Told(r)) \in Nat
  BY <1>2, FewKills DEF CountersOK
<1>4. ASSUME UNCHANGED <<kills, exits, reason, report>>
      PROVE  Goal
  BY <1>1, <1>4 DEF Killed, Told
<1>5. ASSUME NEW t \in Threads, MHintDropped(t) \/ MHintPaused(t) \/ MHintAccepted(t)
      PROVE  Goal
  BY <1>4, <1>5 DEF MHintDropped, MHintPaused, MHintAccepted, HintDropped, HintPaused,
                    HintAccepted, reapVars
<1>6. ASSUME NEW t \in Threads, MSpawnError(t) \/ \E w \in Workers : MSpawnWorker(t, w)
      PROVE  Goal
  BY <1>4, <1>6 DEF MSpawnError, MSpawnWorker, SpawnError, SpawnWorker, reapVars
<1>7. ASSUME NEW w \in Workers, NEW why \in KillReasons, MTerminate(w, why)
      PROVE  Goal
  <2>1. /\ pc[w] = "wait"
        /\ reason' = [reason EXCEPT ![w] = why]
        /\ kills' = Inc(kills, why)
        /\ UNCHANGED <<exits, report>>
    BY <1>7 DEF MTerminate, WaitTTL, WaitStop, Terminate
  <2>2. reason[w] = "none" /\ Told(r)' = Told(r)
    BY <2>1 DEF Placement, Told
  <2>3. CASE why = r
    <3>1. kills'[r] = kills[r] + 1
      BY <2>1, <2>3, IncAdds DEF CountersOK
    <3>2. w \notin Killed(r) /\ Killed(r)' = Killed(r) \cup {w}
      BY <1>2, <2>1, <2>2, <2>3 DEF Killed, TypeOK
    <3>3. Cardinality(Killed(r)') = Cardinality(Killed(r)) + 1
      BY <3>2, FewKills, OneMore
    <3> QED
      BY <1>1, <1>3, <2>1, <2>2, <3>1, <3>3
  <2>4. CASE why # r
    <3>1. kills'[r] = kills[r]
      BY <2>1, <2>4, IncAdds DEF CountersOK
    <3>2. Killed(r)' = Killed(r)
      BY <1>2, <2>1, <2>2, <2>4 DEF Killed, TypeOK
    <3> QED
      BY <1>1, <2>1, <2>2, <3>1, <3>2
  <2> QED
    BY <2>3, <2>4
<1>8. ASSUME NEW w \in Workers, MRecordExit(w)
      PROVE  Goal
  <2>1. /\ pc[w] = "record"
        /\ reason' = [reason EXCEPT ![w] = "none"]
        /\ report' = [report EXCEPT ![w] = ReportOf(w)]
        /\ UNCHANGED <<exits, kills>>
    BY <1>8 DEF MRecordExit, RecordExit
  <2>2. report[w] = NoReport
    BY <2>1 DEF Placement, Reporting
  <2>3. w \notin Told(r)
    BY <1>2, <2>2 DEF Told, NoReport
  <2>4. CASE reason[w] = r
    <3>1. ReportOf(w).label = r
      BY <1>2, <2>4, ReportOfOK
    <3>2. w \in Killed(r) /\ Killed(r)' = Killed(r) \ {w}
      BY <1>2, <2>1, <2>4 DEF Killed, TypeOK
    <3>3. Told(r)' = Told(r) \cup {w}
      BY <2>1, <3>1 DEF Told, CountersOK
    <3>4. /\ Cardinality(Killed(r)') = Cardinality(Killed(r)) - 1
          /\ Cardinality(Told(r)') = Cardinality(Told(r)) + 1
      BY <2>3, <3>2, <3>3, FewKills, OneMore, OneLess
    <3> QED
      BY <1>1, <1>3, <2>1, <3>4
  <2>5. CASE reason[w] # r
    <3>1. ReportOf(w).label # r
      BY <1>2, <2>5, ReportOfOK
    <3>2. Killed(r)' = Killed(r)
      BY <1>2, <2>1, <2>5 DEF Killed, TypeOK
    <3>3. Told(r)' = Told(r)
      BY <2>1, <2>3, <3>1 DEF Told, CountersOK
    <3> QED
      BY <1>1, <2>1, <3>2, <3>3
  <2> QED
    BY <2>4, <2>5
<1>9. ASSUME NEW w \in Workers, Report(w)
      PROVE  Goal
  <2>1. /\ w \in Reporting
        /\ exits' = Inc(exits, report[w].label)
        /\ report' = [report EXCEPT ![w] = NoReport]
        /\ UNCHANGED <<reason, kills>>
    BY <1>9 DEF Report, vars
  <2>2. report[w].label \in Labels
    BY <2>1 DEF Reporting, CountersOK, Reports
  <2>3. Killed(r)' = Killed(r) /\ NoReport.label # r
    BY <1>2, <2>1 DEF Killed, NoReport
  <2>4. CASE report[w].label = r
    <3>1. exits'[r] = exits[r] + 1
      BY <2>1, <2>2, <2>4, IncAdds DEF CountersOK
    <3>2. w \in Told(r) /\ Told(r)' = Told(r) \ {w}
      BY <2>1, <2>3, <2>4 DEF Told, CountersOK
    <3>3. Cardinality(Told(r)') = Cardinality(Told(r)) - 1
      BY <3>2, FewKills, OneLess
    <3> QED
      BY <1>1, <1>3, <2>1, <2>3, <3>1, <3>3
  <2>5. CASE report[w].label # r
    <3>1. exits'[r] = exits[r]
      BY <1>2, <2>1, <2>2, <2>5, IncAdds DEF CountersOK
    <3>2. Told(r)' = Told(r)
      BY <2>1, <2>3, <2>5 DEF Told, CountersOK
    <3> QED
      BY <1>1, <2>1, <2>3, <3>1, <3>2
  <2> QED
    BY <2>4, <2>5
<1>10. CASE MReapersWaited
  BY <1>4, <1>10 DEF MReapersWaited, ReapersWaited, counters, reapVars
<1>11. CASE Uncounted
  <2>1. UNCHANGED <<exits, kills, report>>
    BY <1>11 DEF Uncounted, counters
  <2>2. UNCHANGED reason
    BY <1>11 DEF Uncounted, WaitDone, Term, ProcEnds, TermDone, GraceOver, Reaped, Hints,
                 DispatcherHint, DispatcherStop, PokeTick, PokeStop, Stats, ShutdownCall,
                 PokeWaited, ShutdownTimeout, Tick, CancelRun, reapVars
  <2> QED
    BY <1>4, <2>1, <2>2
<1>12. CASE UNCHANGED mvars
  BY <1>4, <1>12 DEF mvars, vars, counters
<1> QED
  BY <1>5, <1>6, <1>7, <1>8, <1>9, <1>10, <1>11, <1>12 DEF MNext
-----------------------------------------------------------------------------
\* A fresh pool has counted nothing and has nothing to count.
LEMMA InitMIInv == MInit => MIInv
<1> SUFFICES ASSUME MInit PROVE MIInv
  OBVIOUS
<1>1. IInv
  BY InitIInv DEF MInit
<1>2. CountersOK
  BY DEF CountersOK, MInit, NewMetrics
<1>3. LastOK
  BY DEF LastOK, MInit, Never, NoCount, Kinds
<1>4. Reporting = {} /\ \A w \in Workers : reason[w] = "none"
  BY DEF MInit, Init, Reporting
<1>5. Placement
  BY <1>4 DEF Placement
<1>6. SpawnsBalance
  <2>1. Cardinality(Reporting) = 0
    BY <1>4, FS_EmptySet
  <2>2. running = 0 /\ count["spawns"] = 0 /\ \A l \in Labels : exits[l] = 0
    BY DEF MInit, Init, NewMetrics, Counters
  <2> QED
    BY <2>1, <2>2 DEF SpawnsBalance, Exited, Labels, KillReasons
<1>7. KillsAreExits
  <2> SUFFICES ASSUME NEW r \in KillReasons
               PROVE  kills[r] = exits[r] + Cardinality(Killed(r)) + Cardinality(Told(r))
    BY DEF KillsAreExits, Killed, Told
  <2>1. r \in Labels /\ r # "none"
    BY DEF Labels, KillReasons
  <2>2. Killed(r) = {} /\ Told(r) = {}
    BY <1>4, <2>1 DEF MInit, Killed, Told, NoReport
  <2>3. Cardinality({}) = 0
    BY FS_EmptySet
  <2>4. kills[r] = 0 /\ exits[r] = 0
    BY <2>1 DEF MInit, NewMetrics
  <2> QED
    BY <2>2, <2>3, <2>4
<1>8. TripsSeen
  BY DEF MInit, Init, NewMetrics, Counters, TripsSeen, newBreaker
<1>9. Seen
  BY DEF MInit, Init, NewMetrics, Counters, Seen, NoReport
<1> QED
  BY <1>1, <1>2, <1>3, <1>5, <1>6, <1>7, <1>8, <1>9 DEF MIInv

LEMMA MInductiveInvariant == MSpec => []MIInv
<1>1. MIInv /\ IInv' /\ [MNext]_mvars => MIInv'
  BY PlacementStep, CountersStep, LastStep, BalanceStep, KillsStep, TripsStep, SeenStep
     DEF MIInv, IInv, Control
<1>2. MSpec => []IInv
  BY MetricsOnlyObserve, InductiveInvariant, PTL
<1> QED
  BY InitMIInv, <1>1, <1>2, PTL DEF MSpec

\* The observed fields and the counters always have their types.
THEOREM MTypeCorrect == MSpec => []MTypeOK
<1>1. MIInv => MTypeOK
  BY DEF MIInv, IInv, Control, CountersOK, LastOK, MTypeOK, Reports
<1> QED
  BY MInductiveInvariant, <1>1, PTL

\* A scrape between any two steps finds every spawn running, exited or about to
\* be counted as an exit.
THEOREM SpawnsBalanced == MSpec => []SpawnsBalance
<1>1. MIInv => SpawnsBalance
  BY DEF MIInv
<1> QED
  BY MInductiveInvariant, <1>1, PTL

\* Every kill becomes one exit with the reason of the kill.
THEOREM KillsBecomeExits == MSpec => []KillsAreExits
<1>1. MIInv => KillsAreExits
  BY DEF MIInv
<1> QED
  BY MInductiveInvariant, <1>1, PTL

\* When Shutdown returns nil nothing is left to count.
THEOREM FinalCounts == MSpec => []CompleteAtShutdown
<1>1. MIInv => CompleteAtShutdown
  <2> SUFFICES ASSUME MIInv, shutdown = "nil"
               PROVE  /\ count["spawns"] = Exited
                      /\ \A r \in KillReasons : kills[r] = exits[r]
    BY DEF CompleteAtShutdown
  <2>1. \A w \in Workers : pc[w] = "off" /\ proc[w] = "none" /\ reason[w] = "none"
    BY DEF MIInv, IInv, Control, Closing, Placed, Placement
  <2>2. Reporting = {} /\ Unreaped = {}
    BY <2>1 DEF MIInv, Placement, Unreaped
  <2>3. Cardinality({}) = 0
    BY FS_EmptySet
  <2>4. running = 0 /\ Cardinality(Reporting) = 0
    BY <2>2, <2>3 DEF MIInv, IInv, RunningIsExact
  <2>5. /\ \A l \in Labels : exits[l] \in Nat
        /\ \A r \in KillReasons : kills[r] \in Nat /\ r \in Labels /\ r # "none"
    BY DEF MIInv, CountersOK, Labels, KillReasons
  <2>6. count["spawns"] = Exited
    BY <2>4, <2>5 DEF MIInv, SpawnsBalance, Exited, Labels, KillReasons
  <2>7. ASSUME NEW r \in KillReasons PROVE kills[r] = exits[r]
    <3>1. \A w \in Workers : report[w] = NoReport
      BY <2>2 DEF Reporting
    <3>2. Killed(r) = {} /\ Told(r) = {}
      BY <2>1, <2>5, <3>1 DEF Killed, Told, NoReport
    <3>3. kills[r] = exits[r] + Cardinality(Killed(r)) + Cardinality(Told(r))
      BY DEF MIInv, KillsAreExits, Killed, Told
    <3> QED
      BY <2>3, <2>5, <3>2, <3>3
  <2> QED
    BY <2>6, <2>7
<1> QED
  BY MInductiveInvariant, <1>1, PTL

\* cooldown_trips_total grows by one in each step that begins a pause, and in no
\* other.
THEOREM TripsCounted == MSpec => TripsAreCounted
<1>1. MIInv /\ [MNext]_mvars => TripCounted
  BY TripsStep DEF MIInv, IInv, Control
<1>2. TripCounted => [TripCounted]_mvars
  OBVIOUS
<1>3. [][TripCounted]_mvars => TripsAreCounted
  BY PTL DEF TripsAreCounted, TripCounted
<1> QED
  BY MInductiveInvariant, <1>1, <1>2, <1>3, PTL DEF MSpec

\* What health and the gauges show of hints, exits, tasks and pauses fits the
\* counters between any two steps.
THEOREM ShownIsRight == MSpec => []ShownIsCounted
<1>1. MIInv => ShownIsCounted
  <2> SUFFICES ASSUME MIInv PROVE ShownIsCounted
    OBVIOUS
  <2> DEFINE s == Snapshot
             h == Health(s)
             g == Gauges(s)
             until == IF isOpen(breaker, now) THEN breaker.openUntil ELSE Never
  <2>1. /\ Times \subseteq Nat /\ Never = 0 /\ count["tasks"] \in Nat
        /\ last.hint \in Times \cup {Never} /\ last.exit \in Times \cup {Never}
        /\ last.tasks \in Nat \cup {NoCount}
    BY BreakerConfig DEF MIInv, Times, Never, LastOK, CountersOK, Counters
  <2>2. \A t \in Nat : optTime(t) = Null <=> t = 0
    BY <2>1, MetricsBound DEF optTime
  <2>3. /\ s.hint = last.hint /\ s.exit = last.exit /\ s.tasks = last.tasks
        /\ s.openUntil = until /\ s.level = breaker.level
    BY DEF Snapshot
  <2> HIDE DEF s
  <2>4. /\ h.hint = optTime(last.hint) /\ h.exit = optTime(last.exit)
        /\ h.tasks = IF last.tasks = NoCount THEN Null ELSE last.tasks
    BY <2>3 DEF Health
  <2>5. /\ g.active = IF until # Never THEN 1 ELSE 0
        /\ g.level = breaker.level
    BY <2>3 DEF Gauges
  <2> HIDE DEF h, g
  <2>6. /\ h.hint = Null <=> last.hint = Never
        /\ h.exit = Null <=> last.exit = Never
    <3>1. \A t \in Times \cup {Never} : t \in Nat
      BY <2>1
    <3>2. last.hint \in Nat /\ last.exit \in Nat
      BY <2>1, <3>1, Zenon
    <3> QED
      BY <2>1, <2>2, <2>4, <3>2
  <2>7. /\ h.hint = Null <=> count["hints"] = 0
        /\ h.exit = Null <=> count["spawns"] = running
    BY <2>6 DEF MIInv, Seen
  <2>8. h.tasks = Null => count["tasks"] = 0
    BY <2>1, <2>4, MetricsBound DEF MIInv, Seen, NoCount
  <2>9. g.active = 1 => breaker.openUntil # Never
    BY <2>5
  <2>10. g.active = 1 => count["trips"] > 0
    BY <2>9 DEF MIInv, TripsSeen
  <2>11. g.level <= count["trips"]
    BY <2>5 DEF MIInv, TripsSeen
  <2> QED
    BY <2>7, <2>8, <2>10, <2>11 DEF ShownIsCounted, h, g, s
<1> QED
  BY MInductiveInvariant, <1>1, PTL

\* Nor does a pool whose metrics are kept start a worker during a pause.
THEOREM PauseStopsCountedSpawns == MSpec => NoSpawnWhilePaused
BY MetricsOnlyObserve, PauseStopsSpawns, PTL
=============================================================================
