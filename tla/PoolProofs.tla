----------------------------- MODULE PoolProofs -----------------------------
(***************************************************************************)
(* The safety of Pool, for every configuration and any number of workers.  *)
(*                                                                         *)
(* RunningIsExact and the cap are not inductive by themselves: the cap     *)
(* holds because whoever is inside Hint owns the mutex and has already     *)
(* been granted its spawns (Capped), and the counter is exact because a    *)
(* slot has a process exactly between its spawn and its recordExit         *)
(* (Placed).  What Shutdown and the breaker rule out rests on Closing:     *)
(* nobody is inside the spawn loop of a pool that is stopping or paused.   *)
(***************************************************************************)
EXTENDS Pool, BreakerLemmas, FiniteSetTheorems

BreakerFit == BreakerOK(breaker, now)

\* The mutex is held exactly by the goroutine in the spawn loop.
MutexHeld == \A t \in Threads : pc[t] = "spawn" <=> mu = t

\* A slot has a process exactly while its reaper has not recorded the exit,
\* and a reaper about to record it has read the clock.
Placed ==
    /\ \A w \in Workers : /\ pc[w] # "idle"
                          /\ proc[w] = "none" <=> pc[w] \in {"off", "lock", "spawn"}
                          /\ pc[w] = "record" => exitedAt[w] \in Times
    /\ \A t \in {"dispatcher", "poke"} : pc[t] \in {"idle", "off", "lock", "spawn"}

\* The spawns still granted to the owner of the mutex fit under the cap.
Capped ==
    /\ running <= Concurrency
    /\ Locked => want[mu] >= 1 /\ running + want[mu] <= Concurrency

\* Nobody spawns in a stopping or paused pool, and Shutdown's answers are true.
Closing ==
    /\ Locked => ~stopping /\ ~isOpen(breaker, now)
    /\ shutdown # "none" => stopping
    /\ shutdown \in {"bg", "nil"} => \A w \in Workers : pc[w] = "off"
    /\ shutdown = "nil" => pc["poke"] = "off"

Control == TypeOK /\ MutexHeld /\ Placed /\ Capped /\ Closing

IInv == Control /\ BreakerFit /\ RunningIsExact
-----------------------------------------------------------------------------
\* A fresh pool satisfies the invariant.
LEMMA InitIInv == Init => IInv
<1> SUFFICES ASSUME Init PROVE IInv
  OBVIOUS
<1> USE DEF Init
<1>1. BreakerFit
  BY NewBreakerOK, BreakerConfig DEF BreakerFit, Times
<1>2. TypeOK
  <2>1. now \in Times /\ breaker \in BreakerState
    BY <1>1, BreakerConfig DEF BreakerFit, BreakerOK, Times
  <2>2. /\ pc \in [Threads -> {"idle", "off", "lock", "spawn",
                              "wait", "grace", "kill", "record"}]
        /\ want \in [Threads -> Nat]
    OBVIOUS
  <2>3. deadline \in [Workers -> Nat] /\ exitedAt \in [Workers -> Times \cup {Never}]
    BY DEF Never
  <2>4. ctxDone \in BOOLEAN /\ stopping \in BOOLEAN /\ stop \in BOOLEAN
    BY Zenon
  <2>5. exit \in [Workers -> Exits \cup {NoExit}]
    OBVIOUS
  <2>6. /\ running \in Int
        /\ mu \in Threads \cup {NoOne}
        /\ proc \in [Workers -> {"none", "alive", "gone"}]
        /\ reason \in [Workers -> {"none", "ttl", "shutdown"}]
        /\ shutdown \in {"none", "reapers", "bg", "nil", "err"}
    OBVIOUS
  <2> QED
    BY <2>1, <2>2, <2>3, <2>4, <2>5, <2>6, Zenon DEF TypeOK
<1>3. MutexHeld /\ Placed /\ Closing
  BY PoolConfig DEF MutexHeld, Placed, Closing, Locked, Threads
<1>4. Capped
  BY PoolConfig DEF Capped, Locked
<1>5. RunningIsExact
  <2>1. Unreaped = {}
    BY DEF Unreaped
  <2> QED
    BY <2>1, FS_EmptySet DEF RunningIsExact
<1> QED
  BY <1>1, <1>2, <1>3, <1>4, <1>5 DEF IInv, Control

\* Every critical section leaves the breaker fit for use.
LEMMA BreakerStep ==
    ASSUME TypeOK, Placed, BreakerFit, [Next]_vars
    PROVE  BreakerFit'
<1> USE DEF BreakerFit
<1>1. now \in Times
  BY DEF TypeOK
<1>2. ASSUME breaker' \in {breaker, decay(breaker, now), failure(breaker, now)}, now' = now
      PROVE  BreakerFit'
  BY <1>1, <1>2, DecayOK, FailureOK
<1>3. ASSUME NEW t \in Threads, Enter(t) \/ Spawn(t)
      PROVE  BreakerFit'
  <2>1. breaker' \in {breaker, decay(breaker, now), failure(breaker, now)} /\ now' = now
    BY <1>3 DEF Enter, Spawn, HintDropped, HintPaused, HintAccepted, SpawnWorker, SpawnError
  <2> QED
    BY <2>1, <1>2
<1>4. ASSUME NEW w \in Workers, RecordExit(w)
      PROVE  BreakerFit'
  <2>1. exitedAt[w] \in Times /\ now' = now
    BY <1>4 DEF RecordExit, Placed
  <2>2. breaker' \in {breaker, failure(breaker, now), ok(breaker, exitedAt[w])}
    BY <1>4 DEF RecordExit, classify
  <2> QED
    BY <2>1, <2>2, <1>1, <1>2, OkOK
<1>5. CASE Tick
  <2>1. now + 1 \in Times /\ now' = now + 1 /\ breaker' = breaker
    BY <1>1, <1>5, BreakerConfig DEF Tick, Times
  <2> QED
    BY <1>1, <2>1, LaterOK
<1>6. ASSUME NEW w \in Workers, Wait(w) \/ Term(w) \/ ProcEnds(w)
      PROVE  BreakerFit'
  BY <1>6 DEF Wait, Term, WaitDone, WaitTTL, WaitStop, TermDone, GraceOver,
              Reaped, Terminate, ProcEnds
<1>7. CASE Stats
  BY <1>2, <1>7 DEF Stats
<1>8. CASE \/ Hints \/ DispatcherStop \/ PokeTick \/ PokeStop \/ ShutdownCall
           \/ ReapersWaited \/ PokeWaited \/ ShutdownTimeout \/ CancelRun \/ UNCHANGED vars
  BY <1>8 DEF Hints, DispatcherHint, DispatcherStop, PokeTick, PokeStop, ShutdownCall,
              ReapersWaited, PokeWaited, ShutdownTimeout, CancelRun, vars
<1> QED
  BY <1>3, <1>4, <1>5, <1>6, <1>7, <1>8 DEF Next

\* The set of slots in use changes only by one spawn or one recordExit, and the
\* counter with it.
LEMMA RunningStep ==
    ASSUME TypeOK, Placed, RunningIsExact, [Next]_vars
    PROVE  RunningIsExact'
<1>1. IsFiniteSet(Unreaped)
  BY PoolConfig, FS_Subset DEF Unreaped
<1>2. Cardinality(Unreaped) \in Nat
  BY <1>1, FS_CardinalityType
<1>3. ASSUME NEW t \in Threads, NEW w \in Workers, SpawnWorker(t, w)
      PROVE  RunningIsExact'
  <2>1. w \notin Unreaped
    BY <1>3 DEF SpawnWorker, Unreaped, Placed
  <2>2. Unreaped' = Unreaped \cup {w}
    BY <1>3 DEF SpawnWorker, Unreaped, TypeOK
  <2>3. Cardinality(Unreaped') = Cardinality(Unreaped) + 1
    BY <1>1, <2>1, <2>2, FS_AddElement
  <2> QED
    BY <1>3, <2>3 DEF SpawnWorker, RunningIsExact
<1>4. ASSUME NEW w \in Workers, RecordExit(w)
      PROVE  RunningIsExact'
  <2>1. w \in Unreaped
    BY <1>4 DEF RecordExit, Unreaped, Placed
  <2>2. Unreaped' = Unreaped \ {w}
    BY <1>4 DEF RecordExit, Unreaped, TypeOK
  <2>3. Cardinality(Unreaped') = Cardinality(Unreaped) - 1
    BY <1>1, <2>1, <2>2, FS_RemoveElement
  <2> QED
    BY <1>4, <2>3 DEF RecordExit, RunningIsExact
<1>5. ASSUME running' = running, Unreaped' = Unreaped
      PROVE  RunningIsExact'
  BY <1>5 DEF RunningIsExact
<1>6. ASSUME NEW w \in Workers, ProcEnds(w)
      PROVE  RunningIsExact'
  <2>1. Unreaped' = Unreaped
    BY <1>6 DEF ProcEnds, Unreaped, TypeOK
  <2> QED
    BY <1>5, <1>6, <2>1 DEF ProcEnds
<1>7. ASSUME running' = running, proc' = proc
      PROVE  RunningIsExact'
  BY <1>5, <1>7 DEF Unreaped
<1>8. ASSUME NEW t \in Threads, Enter(t) \/ SpawnError(t)
      PROVE  RunningIsExact'
  BY <1>7, <1>8 DEF Enter, HintDropped, HintPaused, HintAccepted, SpawnError, reapVars
<1>9. ASSUME NEW w \in Workers, Wait(w) \/ Term(w)
      PROVE  RunningIsExact'
  BY <1>7, <1>9 DEF Wait, Term, WaitDone, WaitTTL, WaitStop, TermDone, GraceOver,
                    Reaped, Terminate, reapVars
<1>10. CASE \/ Hints \/ DispatcherStop \/ PokeTick \/ PokeStop \/ Stats \/ ShutdownCall
            \/ ReapersWaited \/ PokeWaited \/ ShutdownTimeout \/ Tick \/ CancelRun
            \/ UNCHANGED vars
  BY <1>7, <1>10 DEF Hints, DispatcherHint, DispatcherStop, PokeTick, PokeStop, Stats,
                     ShutdownCall, ReapersWaited, PokeWaited, ShutdownTimeout, Tick,
                     CancelRun, vars, reapVars
<1> QED
  BY <1>3, <1>4, <1>6, <1>8, <1>9, <1>10 DEF Next, Spawn

\* A hint that enters the spawn loop has been granted what the cap leaves, in
\* a pool that is neither stopping nor paused.
LEMMA HintAcceptedStep ==
    ASSUME Control, BreakerFit, BreakerFit', NEW t \in Threads, HintAccepted(t)
    PROVE  Control'
<1> USE PoolConfig, BreakerConfig DEF HintAccepted, Control
<1>1. breaker'.openUntil = breaker.openUntil /\ breaker' \in BreakerState
  BY DecayOK DEF TypeOK, BreakerFit, BreakerOK
<1>2. ~isOpen(breaker, now)'
  BY <1>1 DEF isOpen
<1>3. t # NoOne /\ mu = NoOne /\ want[t] \in Nat /\ running \in Int
  BY DEF Locked, Threads, TypeOK
<1>4. Room(want[t]) \in Int /\ running + Room(want[t]) <= Concurrency
  BY <1>3 DEF Room
<1>5. CASE Room(want[t]) > 0
  <2>1. /\ mu' = t
        /\ pc' = [pc EXCEPT ![t] = "spawn"]
        /\ want' = [want EXCEPT ![t] = Room(want[t])]
    BY <1>5
  <2>2. want'[t] = Room(want[t])
    BY <2>1 DEF TypeOK
  <2>3. TypeOK'
    BY <1>1, <1>4, <1>5, <2>1 DEF TypeOK, reapVars
  <2>4. MutexHeld' /\ Placed'
    BY <1>3, <2>1 DEF TypeOK, MutexHeld, Placed, reapVars, Threads, Locked
  <2>5. Capped'
    BY <1>3, <1>4, <1>5, <2>1, <2>2 DEF Capped, TypeOK
  <2>6. Closing'
    <3>1. ~stopping'
      OBVIOUS
    <3>2. shutdown' = "none"
      BY DEF Closing
    <3> QED
      BY <1>2, <3>1, <3>2 DEF Closing
  <2> QED
    BY <2>3, <2>4, <2>5, <2>6
<1>6. CASE ~(Room(want[t]) > 0)
  <2>1. Return(t) /\ mu' = mu
    BY <1>6
  <2>2. TypeOK'
    BY <1>1, <2>1 DEF TypeOK, reapVars, Return, After
  <2>3. MutexHeld' /\ Placed'
    BY <1>3, <2>1 DEF TypeOK, MutexHeld, Placed, reapVars, Threads, Return, After
  <2>4. Capped'
    BY <1>3, <2>1 DEF Capped, Locked
  <2>5. Closing'
    BY <1>3, <2>1 DEF Closing, Locked
  <2> QED
    BY <2>2, <2>3, <2>4, <2>5
<1> QED
  BY <1>5, <1>6

\* A spawn uses up one of the granted workers; the last one frees the mutex.
LEMMA SpawnWorkerStep ==
    ASSUME Control, NEW t \in Threads, NEW w \in Workers, SpawnWorker(t, w)
    PROVE  Control'
<1> USE PoolConfig, BreakerConfig DEF SpawnWorker, Control
<1>1. mu = t /\ t # w /\ t # NoOne /\ w \in Threads
  BY DEF MutexHeld, Threads
<1>2. /\ want[t] \in Nat /\ want[t] >= 1
      /\ running \in Int /\ running + want[t] <= Concurrency
  BY <1>1 DEF Capped, Locked, TypeOK
<1>3. want'[t] = want[t] - 1
  BY DEF TypeOK
<1>4. proc'[w] = "alive" /\ \A v \in Workers \ {w} : proc'[v] = proc[v]
  BY DEF TypeOK
<1>5. CASE LastSpawn(t)
  <2>1. mu' = NoOne /\ pc' = [pc EXCEPT ![w] = "wait", ![t] = After(t)]
    BY <1>5
  <2>2. /\ pc'[w] = "wait" /\ pc'[t] = After(t)
        /\ \A u \in Threads \ {t, w} : pc'[u] = pc[u]
    BY <1>1, <2>1 DEF TypeOK
  <2>3. TypeOK'
    <3>1. After(t) \in {"off", "idle"}
      BY DEF After
    <3>2. pc' \in [Threads -> {"idle", "off", "lock", "spawn",
                               "wait", "grace", "kill", "record"}]
      BY <2>1, <3>1 DEF TypeOK
    <3>3. want' \in [Threads -> Nat] /\ deadline' \in [Workers -> Nat]
      BY <1>2 DEF TypeOK, Times, Never
    <3> QED
      BY <2>1, <3>2, <3>3 DEF TypeOK
  <2>4. MutexHeld'
    <3> SUFFICES ASSUME NEW u \in Threads
                 PROVE  pc'[u] # "spawn" /\ mu' # u
      BY DEF MutexHeld
    <3>1. mu' # u
      BY <2>1 DEF Threads
    <3>2. CASE u \in {t, w}
      BY <2>2, <3>1, <3>2 DEF After
    <3>3. CASE u \notin {t, w}
      BY <1>1, <2>2, <3>1, <3>3 DEF MutexHeld
    <3> QED
      BY <3>2, <3>3
  <2>5. Placed'
    BY <1>1, <1>4, <2>2 DEF Placed, MutexHeld, Threads, After
  <2>6. Capped' /\ Closing'
    BY <1>1, <1>2, <1>3, <2>1 DEF Capped, Closing, Locked
  <2> QED
    BY <2>3, <2>4, <2>5, <2>6
<1>6. CASE ~LastSpawn(t)
  <2>1. mu' = mu /\ pc' = [pc EXCEPT ![w] = "wait"]
    BY <1>6
  <2>2. pc'[w] = "wait" /\ \A u \in Threads \ {w} : pc'[u] = pc[u]
    BY <1>1, <2>1 DEF TypeOK
  <2>3. TypeOK'
    BY <1>2, <2>1 DEF TypeOK, Threads, Times, Never
  <2>4. MutexHeld'
    BY <1>1, <2>1, <2>2 DEF MutexHeld, Threads
  <2>5. Placed'
    BY <1>1, <1>4, <2>2 DEF Placed, Threads
  <2>6. Capped'
    BY <1>1, <1>2, <1>3, <1>6, <2>1 DEF Capped, Locked, LastSpawn
  <2>7. Closing'
    BY <1>1, <2>1 DEF Closing, Locked
  <2> QED
    BY <2>3, <2>4, <2>5, <2>6, <2>7
<1> QED
  BY <1>5, <1>6

\* A failed spawn frees the mutex.
LEMMA SpawnErrorStep ==
    ASSUME Control, BreakerFit', NEW t \in Threads, SpawnError(t)
    PROVE  Control'
<1> USE PoolConfig DEF SpawnError, Return, After
<1>1. mu = t /\ mu' = NoOne /\ NoOne \notin Threads
  BY DEF Control, MutexHeld, Threads
<1>2. TypeOK'
  BY <1>1 DEF Control, TypeOK, BreakerFit, BreakerOK, reapVars
<1>3. MutexHeld' /\ Placed'
  BY <1>1 DEF Control, TypeOK, MutexHeld, Placed, Threads, reapVars
<1>4. Capped' /\ Closing'
  BY <1>1 DEF Control, Capped, Closing, Locked, TypeOK, Threads
<1> QED
  BY <1>2, <1>3, <1>4 DEF Control

\* A recorded exit gives its slot back; only a free mutex lets it through.
LEMMA RecordExitStep ==
    ASSUME Control, BreakerFit', NEW w \in Workers, RecordExit(w)
    PROVE  Control'
<1> DEFINE e == exit[w]
           hints == classify(e, reason[w] # "none") = "ok" /\ e.tasks > 0
<1>1. /\ pc[w] = "record" /\ mu = NoOne /\ mu' = mu
      /\ running' = running - 1 /\ proc' = [proc EXCEPT ![w] = "none"]
      /\ UNCHANGED <<now, ctxDone, stopping, stop, shutdown>>
  BY DEF RecordExit, Locked
<1>2. \/ hints /\ Call(w, e.tasks)
      \/ Return(w)
  BY DEF RecordExit
<1>3. hints => e.tasks \in Nat
  <2>1. e \in Exits \cup {NoExit}
    BY DEF Control, TypeOK
  <2>2. CASE e = NoExit
    BY <2>2 DEF NoExit, NoCount
  <2>3. CASE e \in Exits
    <3>1. e.tasks \in Nat \cup {NoCount}
      BY <2>3, ExitsBound
    <3> QED
      BY <3>1 DEF NoCount
  <2> QED
    BY <2>1, <2>2, <2>3
<1> HIDE DEF e, hints
<1>4. w \in Threads
  BY DEF Threads
<1>5. \E s \in {"lock", "off"}, n \in Nat :
         pc' = [pc EXCEPT ![w] = s] /\ want' = [want EXCEPT ![w] = n]
  BY <1>2, <1>3 DEF Call, Return, After
<1>6. PICK s \in {"lock", "off"}, n \in Nat :
         pc' = [pc EXCEPT ![w] = s] /\ want' = [want EXCEPT ![w] = n]
  BY <1>5
<1>7. TypeOK'
  <2>1. /\ exit' = [exit EXCEPT ![w] = NoExit]
        /\ deadline' = [deadline EXCEPT ![w] = Never]
        /\ reason' = [reason EXCEPT ![w] = "none"]
        /\ exitedAt' = [exitedAt EXCEPT ![w] = Never]
    BY DEF RecordExit
  <2>2. /\ deadline' \in [Workers -> Nat]
        /\ exitedAt' \in [Workers -> Times \cup {Never}]
        /\ exit' \in [Workers -> Exits \cup {NoExit}]
        /\ reason' \in [Workers -> {"none", "ttl", "shutdown"}]
    BY <2>1 DEF Control, TypeOK, Never
  <2>3. /\ pc' \in [Threads -> {"idle", "off", "lock", "spawn",
                                "wait", "grace", "kill", "record"}]
        /\ want' \in [Threads -> Nat]
    BY <1>6 DEF Control, TypeOK
  <2>4. proc' \in [Workers -> {"none", "alive", "gone"}] /\ running' \in Int
    BY <1>1 DEF Control, TypeOK
  <2>5. /\ now' = now /\ ctxDone' = ctxDone /\ mu' = mu /\ stopping' = stopping
        /\ stop' = stop /\ shutdown' = shutdown /\ breaker' \in BreakerState
    BY <1>1 DEF BreakerFit, BreakerOK
  <2> QED
    BY <2>2, <2>3, <2>4, <2>5, Zenon DEF Control, TypeOK
<1>8. MutexHeld' /\ Placed'
  <2>1. pc'[w] = s /\ \A u \in Threads \ {w} : pc'[u] = pc[u]
    BY <1>4, <1>6 DEF Control, TypeOK
  <2>2. proc'[w] = "none" /\ \A v \in Workers \ {w} : proc'[v] = proc[v] /\ exitedAt'[v] = exitedAt[v]
    BY <1>1 DEF RecordExit, Control, TypeOK
  <2>3. MutexHeld'
    BY <1>1, <2>1, PoolConfig DEF Control, MutexHeld, Threads
  <2>4. Placed'
    BY <2>1, <2>2, PoolConfig DEF Control, Placed, Threads
  <2> QED
    BY <2>3, <2>4
<1>9. Capped' /\ Closing'
  <2>1. shutdown \notin {"bg", "nil"}
    BY <1>1 DEF Control, Closing
  <2> QED
    BY <1>1, <2>1, PoolConfig DEF Control, Capped, Closing, Locked, TypeOK
<1> QED
  BY <1>7, <1>8, <1>9 DEF Control

\* Every step of the pool keeps its control state in order.
LEMMA ControlStep ==
    ASSUME IInv, BreakerFit', [Next]_vars
    PROVE  Control'
<1> USE PoolConfig, BreakerConfig
<1>1. Control /\ BreakerFit
  BY DEF IInv
<1> USE DEF Control
<1>2. ASSUME NEW t \in Threads, HintDropped(t)
      PROVE  Control'
  BY <1>1, <1>2 DEF HintDropped, Return, After, reapVars, Threads, Locked,
                    TypeOK, MutexHeld, Placed, Capped, Closing
<1>3. ASSUME NEW t \in Threads, HintPaused(t)
      PROVE  Control'
  <2>1. breaker' \in BreakerState
    BY DEF BreakerFit, BreakerOK
  <2>2. TypeOK'
    BY <1>1, <1>3, <2>1 DEF HintPaused, Return, After, reapVars, Threads, TypeOK
  <2>3. MutexHeld' /\ Placed'
    BY <1>1, <1>3 DEF HintPaused, Return, After, reapVars, Threads, Locked, TypeOK,
                      MutexHeld, Placed
  <2>4. Capped' /\ Closing'
    BY <1>1, <1>3 DEF HintPaused, Return, After, Locked, TypeOK, Capped, Closing, Threads
  <2> QED
    BY <2>2, <2>3, <2>4
<1>4. ASSUME NEW w \in Workers, Wait(w)
      PROVE  Control'
  <2>1. CASE WaitDone(w)
    BY <1>1, <2>1 DEF WaitDone, Reaped, Threads, Locked, TypeOK, MutexHeld, Placed, Capped, Closing
  <2>2. CASE WaitTTL(w) \/ WaitStop(w)
    <3>1. PICK why \in {"ttl", "shutdown"} : Terminate(w, why)
      BY <2>2 DEF WaitTTL, WaitStop
    <3>2. PICK s \in {"grace", "kill"} : pc' = [pc EXCEPT ![w] = s]
      BY <3>1 DEF Terminate
    <3>3. TypeOK'
      BY <1>1, <3>1, <3>2 DEF Terminate, TypeOK
    <3>4. MutexHeld' /\ Placed'
      BY <1>1, <3>1, <3>2 DEF Terminate, Threads, TypeOK, MutexHeld, Placed
    <3>5. Capped' /\ Closing'
      BY <1>1, <3>1, <3>2 DEF Terminate, Threads, TypeOK, Locked, Capped, Closing
    <3> QED
      BY <3>3, <3>4, <3>5
  <2> QED
    BY <1>4, <2>1, <2>2 DEF Wait
<1>5. ASSUME NEW w \in Workers, Term(w)
      PROVE  Control'
  <2>1. CASE TermDone(w)
    BY <1>1, <2>1 DEF TermDone, Reaped, Threads, Locked, TypeOK, MutexHeld, Placed, Capped, Closing
  <2>2. CASE GraceOver(w)
    BY <1>1, <2>2 DEF GraceOver, reapVars, Threads, Locked, TypeOK, MutexHeld, Placed, Capped, Closing
  <2> QED
    BY <1>5, <2>1, <2>2 DEF Term
<1>6. ASSUME NEW w \in Workers, ProcEnds(w)
      PROVE  Control'
  BY <1>1, <1>6 DEF ProcEnds, Threads, Locked, TypeOK, MutexHeld, Placed, Capped, Closing
<1>7. CASE Hints
  <2>1. PICK n \in Counts : DispatcherHint(n)
    BY <1>7 DEF Hints
  <2> QED
    BY <1>1, <2>1 DEF DispatcherHint, Call, reapVars, Threads, Locked, TypeOK, MutexHeld,
                      Placed, Capped, Closing
<1>8. CASE DispatcherStop
  BY <1>1, <1>8 DEF DispatcherStop, reapVars, Threads, Locked, TypeOK, MutexHeld, Placed,
                    Capped, Closing
<1>9. CASE PokeTick
  BY <1>1, <1>9 DEF PokeTick, Call, reapVars, Threads, Locked, TypeOK, MutexHeld, Placed,
                    Capped, Closing
<1>10. CASE PokeStop
  BY <1>1, <1>10 DEF PokeStop, reapVars, Threads, Locked, TypeOK, MutexHeld, Placed,
                     Capped, Closing
<1>11. CASE Stats
  <2>1. breaker' \in BreakerState
    BY DEF BreakerFit, BreakerOK
  <2>2. TypeOK'
    BY <1>1, <1>11, <2>1 DEF Stats, reapVars, TypeOK
  <2> QED
    BY <1>1, <1>11, <2>2 DEF Stats, reapVars, Locked, MutexHeld, Placed, Capped, Closing
<1>12. CASE ShutdownCall
  BY <1>1, <1>12 DEF ShutdownCall, reapVars, Locked, TypeOK, MutexHeld, Placed, Capped, Closing
<1>13. CASE ReapersWaited \/ PokeWaited \/ ShutdownTimeout
  BY <1>1, <1>13 DEF ReapersWaited, PokeWaited, ShutdownTimeout, reapVars, Locked, TypeOK,
                     MutexHeld, Placed, Capped, Closing
<1>14. CASE Tick
  <2>1. now' \in Times /\ now' = now + 1 /\ now \in Times
    BY <1>1, <1>14 DEF Tick, TypeOK, Times
  <2>2. breaker.openUntil \in Int
    BY <1>1 DEF BreakerFit, BreakerOK, BreakerState
  <2>3. Locked => ~isOpen(breaker, now)'
    BY <1>1, <1>14, <2>1, <2>2 DEF Tick, Closing, isOpen, Times
  <2> QED
    BY <1>1, <1>14, <2>1, <2>3 DEF Tick, reapVars, Locked, TypeOK, MutexHeld, Placed, Capped, Closing
<1>15. CASE CancelRun \/ UNCHANGED vars
  <2>1. CASE CancelRun
    BY <1>1, <2>1 DEF CancelRun, reapVars, Locked, TypeOK, MutexHeld, Placed, Capped, Closing
  <2>2. CASE UNCHANGED vars
    BY <1>1, <2>2 DEF vars, Locked, TypeOK, MutexHeld, Placed, Capped, Closing
  <2> QED
    BY <1>15, <2>1, <2>2
<1>16. ASSUME NEW t \in Threads, Enter(t) \/ Spawn(t)
       PROVE  Control'
  BY <1>1, <1>2, <1>3, <1>16, HintAcceptedStep, SpawnWorkerStep, SpawnErrorStep DEF Enter, Spawn
<1>17. ASSUME NEW w \in Workers, RecordExit(w)
       PROVE  Control'
  BY <1>1, <1>17, RecordExitStep
<1> QED
  BY <1>4, <1>5, <1>6, <1>7, <1>8, <1>9, <1>10, <1>11, <1>12, <1>13, <1>14, <1>15, <1>16, <1>17
     DEF Next
-----------------------------------------------------------------------------
\* IInv is inductive.
LEMMA InductiveInvariant == Spec => []IInv
<1>1. IInv /\ [Next]_vars => IInv'
  BY BreakerStep, RunningStep, ControlStep DEF IInv, Control
<1> QED
  BY InitIInv, <1>1, PTL DEF Spec

\* The pool's fields, goroutines and workers always have their types.
THEOREM TypeCorrect == Spec => []TypeOK
<1>1. IInv => TypeOK
  BY DEF IInv, Control
<1> QED
  BY InductiveInvariant, <1>1, PTL

\* Running() is exact at every step, for any number of workers.
THEOREM RunningExact == Spec => []RunningIsExact
<1>1. IInv => RunningIsExact
  BY DEF IInv
<1> QED
  BY InductiveInvariant, <1>1, PTL

\* No interleaving of hints, exits and shutdown runs more workers than
\* concurrency allows.
THEOREM CapHolds == Spec => []NeverOversubscribed
<1>1. IInv => NeverOversubscribed
  <2> SUFFICES ASSUME IInv PROVE Cardinality(Live) <= Concurrency
    BY DEF NeverOversubscribed
  <2>1. IsFiniteSet(Unreaped) /\ Live \subseteq Unreaped
    BY PoolConfig, FS_Subset DEF Unreaped, Live
  <2>2. /\ Cardinality(Live) <= Cardinality(Unreaped)
        /\ Cardinality(Live) \in Nat /\ Cardinality(Unreaped) \in Nat
    BY <2>1, FS_Subset, FS_CardinalityType
  <2>3. Cardinality(Unreaped) <= Concurrency
    BY DEF IInv, Control, Capped, RunningIsExact
  <2> QED
    BY <2>2, <2>3, PoolConfig
<1> QED
  BY InductiveInvariant, <1>1, PTL

\* A nil answer of Shutdown is true: no worker, no reaper and no ticker is left.
THEOREM ShutdownTold == Spec => []ShutdownLeavesNothing
<1>1. IInv => ShutdownLeavesNothing
  BY PoolConfig DEF IInv, Control, Placed, Closing, ShutdownLeavesNothing, Unreaped, Threads
<1> QED
  BY InductiveInvariant, <1>1, PTL

\* Whatever starts a worker holds the mutex.
LEMMA SpawnNeedsMutex ==
    ASSUME IInv, [Next]_vars
    PROVE  Live' \subseteq Live \/ Locked
<1>1. ASSUME proc' = proc PROVE Live' \subseteq Live
  BY <1>1 DEF Live
<1>2. ASSUME NEW t \in Threads, NEW w \in Workers, SpawnWorker(t, w)
      PROVE  Locked
  BY <1>2, PoolConfig DEF SpawnWorker, IInv, Control, MutexHeld, Locked, Threads
<1>3. ASSUME NEW t \in Threads, Enter(t) \/ SpawnError(t)
      PROVE  proc' = proc
  BY <1>3 DEF Enter, HintDropped, HintPaused, HintAccepted, SpawnError, reapVars
<1>4. ASSUME NEW w \in Workers, Wait(w) \/ Term(w)
      PROVE  proc' = proc
  BY <1>4 DEF Wait, Term, WaitDone, WaitTTL, WaitStop, TermDone, GraceOver, Reaped,
              Terminate, reapVars
<1>5. ASSUME NEW w \in Workers, RecordExit(w) \/ ProcEnds(w)
      PROVE  Live' \subseteq Live
  BY <1>5 DEF RecordExit, ProcEnds, Live, IInv, Control, TypeOK
<1>6. CASE \/ Hints \/ DispatcherStop \/ PokeTick \/ PokeStop \/ Stats \/ ShutdownCall
           \/ ReapersWaited \/ PokeWaited \/ ShutdownTimeout \/ Tick \/ CancelRun
           \/ UNCHANGED vars
  BY <1>1, <1>6 DEF Hints, DispatcherHint, DispatcherStop, PokeTick, PokeStop, Stats,
                    ShutdownCall, ReapersWaited, PokeWaited, ShutdownTimeout, Tick,
                    CancelRun, vars, reapVars
<1> QED
  BY <1>1, <1>2, <1>3, <1>4, <1>5, <1>6 DEF Next, Spawn

\* Once Shutdown has marked the pool, no hint starts a worker.
THEOREM ShutdownStopsSpawns == Spec => NoSpawnAfterShutdown
<1>1. IInv /\ [Next]_vars => [stopping => Live' \subseteq Live]_vars
  BY SpawnNeedsMutex DEF IInv, Control, Closing
<1> QED
  BY InductiveInvariant, <1>1, PTL DEF Spec, NoSpawnAfterShutdown

\* No worker starts during a pause, also not later in a hint that began before.
THEOREM PauseStopsSpawns == Spec => NoSpawnWhilePaused
<1>1. IInv /\ [Next]_vars => [isOpen(breaker, now) => Live' \subseteq Live]_vars
  BY SpawnNeedsMutex DEF IInv, Control, Closing
<1> QED
  BY InductiveInvariant, <1>1, PTL DEF Spec, NoSpawnWhilePaused
-----------------------------------------------------------------------------
\* Steps that neither start nor reap a worker nor touch Shutdown are invisible
\* to the contract.
LEMMA Invisible ==
    ASSUME proc' = proc, stopping' = stopping, shutdown' = shutdown
    PROVE  UNCHANGED Contract!vars
BY DEF Contract!vars, Unreaped, Answer

\* The contract counts as the pool does.
LEMMA SameCardinality ==
    ASSUME NEW S
    PROVE  Contract!Cardinality(S) = Cardinality(S)
BY Zenon DEF Contract!Cardinality, Cardinality

\* Every step of the pool is a step its contract allows.
LEMMA ContractStep ==
    ASSUME IInv, [Next]_vars
    PROVE  [Contract!Next]_(Contract!vars)
<1>1. ASSUME NEW t \in Threads, NEW w \in Workers, SpawnWorker(t, w)
      PROVE  Contract!Start(w)
  <2>0. mu = t /\ Locked
    BY <1>1, PoolConfig DEF SpawnWorker, IInv, Control, MutexHeld, Locked, Threads
  <2>1. ~stopping /\ running < Concurrency
    BY <1>1, <2>0, PoolConfig DEF SpawnWorker, IInv, Control, MutexHeld, Closing, Capped,
                                  TypeOK
  <2>2. w \notin Unreaped
    BY <1>1 DEF SpawnWorker, Unreaped, IInv, Control, Placed
  <2>3. Unreaped' = Unreaped \cup {w}
    BY <1>1 DEF SpawnWorker, Unreaped, IInv, Control, TypeOK
  <2>4. UNCHANGED <<stopping, shutdown>>
    BY <1>1 DEF SpawnWorker
  <2>5. Contract!Cardinality(Unreaped) < Concurrency
    BY <2>1, SameCardinality DEF IInv, RunningIsExact
  <2> QED
    BY <2>1, <2>2, <2>3, <2>4, <2>5 DEF Contract!Start, Answer
<1>2. ASSUME NEW w \in Workers, RecordExit(w)
      PROVE  Contract!End(w)
  <2>1. w \in Unreaped
    BY <1>2 DEF RecordExit, Unreaped, IInv, Control, Placed
  <2>2. Unreaped' = Unreaped \ {w}
    BY <1>2 DEF RecordExit, Unreaped, IInv, Control, TypeOK
  <2>3. UNCHANGED <<stopping, shutdown>>
    BY <1>2 DEF RecordExit
  <2> QED
    BY <2>1, <2>2, <2>3 DEF Contract!End, Answer
<1>3. ASSUME NEW w \in Workers, ProcEnds(w)
      PROVE  UNCHANGED Contract!vars
  <2>1. Unreaped' = Unreaped
    BY <1>3 DEF ProcEnds, Unreaped, IInv, Control, TypeOK
  <2> QED
    BY <1>3, <2>1 DEF ProcEnds, Contract!vars, Answer
<1>4. ASSUME ShutdownCall
      PROVE  Contract!Close
  BY <1>4 DEF ShutdownCall, Contract!Close, Answer, Unreaped, reapVars
<1>5. ASSUME ReapersWaited
      PROVE  UNCHANGED Contract!vars
  BY <1>5 DEF ReapersWaited, Contract!vars, Answer, Unreaped, reapVars
<1>6. ASSUME PokeWaited
      PROVE  Contract!AnswerNil
  <2>1. Unreaped = {}
    BY <1>6 DEF PokeWaited, IInv, Control, Closing, Placed, Unreaped
  <2> QED
    BY <1>6, <2>1 DEF PokeWaited, Contract!AnswerNil, Answer, Unreaped, reapVars
<1>7. ASSUME ShutdownTimeout
      PROVE  Contract!AnswerErr
  BY <1>7 DEF ShutdownTimeout, Contract!AnswerErr, Answer, Unreaped, reapVars
<1>8. ASSUME NEW t \in Threads, Enter(t) \/ SpawnError(t)
      PROVE  UNCHANGED Contract!vars
  BY <1>8, Invisible DEF Enter, HintDropped, HintPaused, HintAccepted, SpawnError, reapVars
<1>9. ASSUME NEW w \in Workers, Wait(w) \/ Term(w)
      PROVE  UNCHANGED Contract!vars
  BY <1>9, Invisible DEF Wait, Term, WaitDone, WaitTTL, WaitStop, TermDone, GraceOver,
                         Reaped, Terminate, reapVars
<1>10. ASSUME \/ Hints \/ DispatcherStop \/ PokeTick \/ PokeStop \/ Stats \/ Tick \/ CancelRun
              \/ UNCHANGED vars
       PROVE  UNCHANGED Contract!vars
  BY <1>10, Invisible DEF Hints, DispatcherHint, DispatcherStop, PokeTick, PokeStop, Stats,
                          Tick, CancelRun, vars, reapVars
<1> QED
  BY <1>1, <1>2, <1>3, <1>4, <1>5, <1>6, <1>7, <1>8, <1>9, <1>10
     DEF Next, Spawn, Contract!Next

\* The pool implements its contract: workers start one at a time, under the
\* cap and before Shutdown, and Shutdown answers nil only to an empty pool.
THEOREM PoolImplementsContract == Spec => KeepsContract
<1>1. Init => Contract!Init
  BY DEF Init, Contract!Init, Unreaped, Answer
<1>2. IInv /\ [Next]_vars => [Contract!Next]_(Contract!vars)
  BY ContractStep
<1> QED
  BY InductiveInvariant, <1>1, <1>2, PTL DEF Spec, KeepsContract, Contract!Spec
=============================================================================
