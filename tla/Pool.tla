-------------------------------- MODULE Pool --------------------------------
(***************************************************************************)
(* One worker pool (internal/pool/pool.go, poke.go) with the goroutines    *)
(* that touch it: the dispatcher and the poke ticker, which call Hint; one *)
(* reaper per worker, which waits for the process, terminates it at its    *)
(* ttl or at shutdown (internal/proc/terminate.go), records the exit and   *)
(* may call Hint itself; Stats readers; and the caller of Shutdown.        *)
(*                                                                         *)
(* The pool mutex is the variable mu.  A critical section in which nothing *)
(* slow happens is one step taken while mu is free; Hint keeps the mutex   *)
(* across its spawns, so it is several steps, and time, exits and signals  *)
(* happen in between.  A worker and its reaper share a member of Workers,  *)
(* free again when the reaper returns.                                     *)
(*                                                                         *)
(* Left out: what only Stats and the logs read (lastHint, lastExit,        *)
(* lastExitCode, lastTasks, counters; PoolMetrics has them).  Not timed:   *)
(* the poke interval, the grace period and the deadline of Shutdown's      *)
(* context, which may each elapse at any step.                             *)
(***************************************************************************)
EXTENDS Breaker, FiniteSets

CONSTANTS
    Workers,        \* bound: workers and reapers that exist at one time
    Concurrency,    \* concurrency
    TTL,            \* ttl; 0 is forever
    Poke,           \* poke; 0 turns the ticker off
    PokeCount,      \* poke_count
    Counts,         \* bound: the counts of the dispatcher's hints
    Exits,          \* bound: the ways a process ends
    NoOne           \* mu is free

NoCount == -1       \* the result line held no count

\* An exit code in ok_exit_codes, another one, a signal, a failed Wait.
Kinds == {"ok", "bad", "signal", "err"}

\* What PoolConfig.validateSpawn and validateProcess let through, and room for
\* one reaper more than the pool has workers.
ASSUME PoolConfig ==
    /\ Concurrency \in Nat \ {0}
    /\ TTL \in Nat
    /\ Poke \in Nat
    /\ PokeCount \in 0 .. Concurrency
    /\ Counts \subseteq Nat
    /\ IsFiniteSet(Workers)
    /\ Cardinality(Workers) > Concurrency
    /\ "dispatcher" \notin Workers
    /\ "poke" \notin Workers
    /\ NoOne \notin Workers \cup {"dispatcher", "poke"}

ASSUME ExitsBound ==
    \A e \in Exits : /\ e.kind \in Kinds
                     /\ e.tasks \in Nat \cup {NoCount}

VARIABLES
    now,        \* the pool clock
    ctxDone,    \* the run context, given to the dispatcher's and poke's hints
    running,    \* Pool.running
    breaker,    \* Pool.breaker
    stopping,   \* Pool.stopping
    stop,       \* Pool.stop is closed
    mu,         \* Pool.mu: the goroutine inside a multi-step Hint, or NoOne
    pc,         \* where each goroutine is
    want,       \* workers its Hint was asked for, then still has to spawn
    proc,       \* the process of a worker, as the kernel knows it
    exit,       \* the Exit that Done delivers
    deadline,   \* when the ttl timer fires, Never without one
    reason,     \* exitRecord.killReason, "none" for ""
    exitedAt,   \* the time reap read before recordExit
    shutdown    \* where the caller of Shutdown is

vars == <<now, ctxDone, running, breaker, stopping, stop, mu, pc, want,
          proc, exit, deadline, reason, exitedAt, shutdown>>

\* What only the reaper of a worker reads or writes.
reapVars == <<proc, exit, deadline, reason, exitedAt>>

Threads == {"dispatcher", "poke"} \cup Workers

NoExit == [kind |-> "ok", tasks |-> NoCount]

Init ==
    /\ now = 1
    /\ ctxDone = FALSE
    /\ running = 0
    /\ breaker = newBreaker
    /\ stopping = FALSE
    /\ stop = FALSE
    /\ mu = NoOne
    /\ pc = [t \in Threads |->
                IF t = "dispatcher" \/ (t = "poke" /\ Poke > 0) THEN "idle" ELSE "off"]
    /\ want = [t \in Threads |-> 0]
    /\ proc = [w \in Workers |-> "none"]
    /\ exit = [w \in Workers |-> NoExit]
    /\ deadline = [w \in Workers |-> Never]
    /\ reason = [w \in Workers |-> "none"]
    /\ exitedAt = [w \in Workers |-> Never]
    /\ shutdown = "none"
-----------------------------------------------------------------------------
(***************************************************************************)
(* Hint, called by any goroutine t that has set pc[t] to "lock" and        *)
(* want[t] to the count.                                                   *)
(***************************************************************************)
\* Mutant: nobody takes the mutex.
LockedNever == FALSE

Locked == mu # NoOne

Call(t, n) ==
    /\ pc' = [pc EXCEPT ![t] = "lock"]
    /\ want' = [want EXCEPT ![t] = n]

\* Hint returns: a reaper is finished, the others go back to their loop.
After(t) == IF t \in Workers THEN "off" ELSE "idle"

Return(t) ==
    /\ pc' = [pc EXCEPT ![t] = After(t)]
    /\ want' = [want EXCEPT ![t] = 0]

\* Shutdown was called: the hint is dropped.
HintDropped(t) ==
    /\ pc[t] = "lock" /\ ~Locked
    /\ stopping
    /\ Return(t)
    /\ UNCHANGED <<now, ctxDone, running, breaker, stopping, stop, mu, shutdown, reapVars>>

\* The breaker is open: the hint is dropped.
HintPaused(t) ==
    /\ pc[t] = "lock" /\ ~Locked
    /\ ~stopping
    /\ isOpen(breaker, now)
    /\ breaker' = decay(breaker, now)
    /\ Return(t)
    /\ UNCHANGED <<now, ctxDone, running, stopping, stop, mu, shutdown, reapVars>>

\* Mutant: the cap without the workers that already run.
RoomIgnoresRunning(n) == IF n < Concurrency THEN n ELSE Concurrency

\* min(n, concurrency - running).
Room(n) == IF n < Concurrency - running THEN n ELSE Concurrency - running

\* The breaker is closed: take the mutex for the spawns there is room for.
HintAccepted(t) ==
    /\ pc[t] = "lock" /\ ~Locked
    /\ ~stopping
    /\ ~isOpen(breaker, now)
    /\ breaker' = decay(breaker, now)
    /\ IF Room(want[t]) > 0
       THEN /\ mu' = t
            /\ pc' = [pc EXCEPT ![t] = "spawn"]
            /\ want' = [want EXCEPT ![t] = Room(want[t])]
       ELSE /\ Return(t)
            /\ UNCHANGED mu
    /\ UNCHANGED <<now, ctxDone, running, stopping, stop, shutdown, reapVars>>

\* Spawn refuses a cancelled context; a reaper's hint has none to cancel.
CtxOK(t) == t \in Workers \/ ~ctxDone

\* Mutant: the loop runs once too often.
LastSpawnLate(t) == want[t] = 0

LastSpawn(t) == want[t] = 1

\* spawnLocked starts worker w and its reaper; the loop ends with the last one.
SpawnWorker(t, w) ==
    /\ pc[t] = "spawn" /\ pc[w] = "off"
    /\ CtxOK(t)
    /\ running' = running + 1
    /\ proc' = [proc EXCEPT ![w] = "alive"]
    /\ deadline' = [deadline EXCEPT ![w] = IF TTL > 0 THEN now + TTL ELSE Never]
    /\ want' = [want EXCEPT ![t] = @ - 1]
    /\ IF LastSpawn(t)
       THEN /\ pc' = [pc EXCEPT ![w] = "wait", ![t] = After(t)]
            /\ mu' = NoOne
       ELSE /\ pc' = [pc EXCEPT ![w] = "wait"]
            /\ UNCHANGED mu
    /\ UNCHANGED <<now, ctxDone, breaker, stopping, stop, exit, reason, exitedAt, shutdown>>

\* Mutants: the slot is taken before the error is seen; the loop goes on after
\* an error; the mutex stays locked.
SpawnErrorCounts(t) ==
    /\ pc[t] = "spawn"
    /\ running' = running + 1
    /\ breaker' = failure(breaker, now)
    /\ mu' = NoOne
    /\ Return(t)
    /\ UNCHANGED <<now, ctxDone, stopping, stop, shutdown, reapVars>>

SpawnErrorContinues(t) ==
    /\ pc[t] = "spawn"
    /\ breaker' = failure(breaker, now)
    /\ UNCHANGED <<now, ctxDone, running, stopping, stop, mu, pc, want, shutdown, reapVars>>

SpawnErrorKeepsLock(t) ==
    /\ pc[t] = "spawn"
    /\ breaker' = failure(breaker, now)
    /\ Return(t)
    /\ UNCHANGED <<now, ctxDone, running, stopping, stop, mu, shutdown, reapVars>>

\* spawnLocked fails: an instant failure, and Hint gives up on the rest.
SpawnError(t) ==
    /\ pc[t] = "spawn"
    /\ breaker' = failure(breaker, now)
    /\ mu' = NoOne
    /\ Return(t)
    /\ UNCHANGED <<now, ctxDone, running, stopping, stop, shutdown, reapVars>>
-----------------------------------------------------------------------------
(***************************************************************************)
(* The reaper of worker w.                                                 *)
(***************************************************************************)
Gone(w) == proc[w] = "gone"

\* Done delivered and the clock read; recordExit comes next.
Reaped(w) ==
    /\ Gone(w)
    /\ pc' = [pc EXCEPT ![w] = "record"]
    /\ exitedAt' = [exitedAt EXCEPT ![w] = now]
    /\ UNCHANGED <<now, ctxDone, running, breaker, stopping, stop, mu, want,
                   proc, exit, deadline, shutdown>>

\* wait: the worker ended by itself.
WaitDone(w) ==
    /\ pc[w] = "wait"
    /\ Reaped(w)
    /\ UNCHANGED reason

\* Terminate sends term_signal.  A process that is gone counts as signalled; a
\* signal that cannot be delivered to a live one leads straight to the kill.
Terminate(w, why) ==
    /\ pc[w] = "wait"
    /\ reason' = [reason EXCEPT ![w] = why]
    /\ \/ pc' = [pc EXCEPT ![w] = "grace"]
       \/ ~Gone(w) /\ pc' = [pc EXCEPT ![w] = "kill"]
    /\ UNCHANGED <<now, ctxDone, running, breaker, stopping, stop, mu, want,
                   proc, exit, deadline, exitedAt, shutdown>>

\* wait: the ttl timer fired.
WaitTTL(w) ==
    /\ deadline[w] # Never /\ now >= deadline[w]
    /\ Terminate(w, "ttl")

\* Mutant: wait does not listen to the stop channel.
WaitStopMissed(w) == FALSE /\ Terminate(w, "shutdown")

\* wait: Shutdown closed the stop channel.
WaitStop(w) ==
    /\ stop
    /\ Terminate(w, "shutdown")

\* Terminate: Done fired, within the grace period or after the kill.
TermDone(w) ==
    /\ pc[w] \in {"grace", "kill"}
    /\ Reaped(w)
    /\ UNCHANGED reason

\* Mutant: Terminate waits for Done only.
GraceOverMissed(w) ==
    /\ FALSE
    /\ UNCHANGED vars

\* Terminate: the grace period is over, kill the group.
GraceOver(w) ==
    /\ pc[w] = "grace"
    /\ pc' = [pc EXCEPT ![w] = "kill"]
    /\ UNCHANGED <<now, ctxDone, running, breaker, stopping, stop, mu, want, shutdown, reapVars>>

classify(e, killed) ==
    IF killed THEN "killed" ELSE IF e.kind = "ok" THEN "ok" ELSE "failure"

\* Reapers past recordExit that still have to hint.  Their number is bounded
\* by the members of Workers beyond Concurrency, so that a spawn finds one free.
Hinting == {w \in Workers : pc[w] \in {"lock", "spawn"}}

\* recordExit releases the slot and feeds the breaker; then reap either hints
\* for the tasks the worker reported or returns.
RecordExit(w) ==
    LET result == classify(exit[w], reason[w] # "none")
        hints  == result = "ok" /\ exit[w].tasks > 0
    IN  /\ pc[w] = "record" /\ ~Locked
        /\ hints => Cardinality(Hinting) < Cardinality(Workers) - Concurrency
        /\ running' = running - 1
        /\ breaker' = CASE result = "ok"      -> ok(breaker, exitedAt[w])
                        [] result = "failure" -> failure(breaker, now)
                        [] result = "killed"  -> breaker
        /\ IF hints THEN Call(w, exit[w].tasks) ELSE Return(w)
        /\ proc' = [proc EXCEPT ![w] = "none"]
        /\ exit' = [exit EXCEPT ![w] = NoExit]
        /\ deadline' = [deadline EXCEPT ![w] = Never]
        /\ reason' = [reason EXCEPT ![w] = "none"]
        /\ exitedAt' = [exitedAt EXCEPT ![w] = Never]
        /\ UNCHANGED <<now, ctxDone, stopping, stop, mu, shutdown>>
-----------------------------------------------------------------------------
(***************************************************************************)
(* The dispatcher, the poke ticker, Stats and Shutdown.                    *)
(***************************************************************************)
\* The dispatcher delivers a hint; select may still pick one when ctx is done.
DispatcherHint(n) ==
    /\ pc["dispatcher"] = "idle"
    /\ Call("dispatcher", n)
    /\ UNCHANGED <<now, ctxDone, running, breaker, stopping, stop, mu, shutdown, reapVars>>

DispatcherStop ==
    /\ pc["dispatcher"] = "idle"
    /\ ctxDone
    /\ pc' = [pc EXCEPT !["dispatcher"] = "off"]
    /\ UNCHANGED <<now, ctxDone, running, breaker, stopping, stop, mu, want, shutdown, reapVars>>

\* awaitTick took a tick with the context still alive.
PokeTick ==
    /\ pc["poke"] = "idle"
    /\ ~ctxDone
    /\ Call("poke", PokeCount)
    /\ UNCHANGED <<now, ctxDone, running, breaker, stopping, stop, mu, shutdown, reapVars>>

PokeStop ==
    /\ pc["poke"] = "idle"
    /\ ctxDone \/ stop
    /\ pc' = [pc EXCEPT !["poke"] = "off"]
    /\ UNCHANGED <<now, ctxDone, running, breaker, stopping, stop, mu, want, shutdown, reapVars>>

\* A snapshot: open() may decay the level.
Stats ==
    /\ ~Locked
    /\ breaker' = decay(breaker, now)
    /\ UNCHANGED <<now, ctxDone, running, stopping, stop, mu, pc, want, shutdown, reapVars>>

\* Mutant: the stop channel is closed, the pool is not marked.
ShutdownCallUnmarked ==
    /\ shutdown \in {"none", "nil", "err"}
    /\ ~Locked
    /\ stop' = TRUE
    /\ shutdown' = "reapers"
    /\ UNCHANGED <<now, ctxDone, running, breaker, stopping, mu, pc, want, reapVars>>

\* Shutdown marks the pool and wakes the reapers; it may be called again.
ShutdownCall ==
    /\ shutdown \in {"none", "nil", "err"}
    /\ ~Locked
    /\ stopping' = TRUE
    /\ stop' = TRUE
    /\ shutdown' = "reapers"
    /\ UNCHANGED <<now, ctxDone, running, breaker, mu, pc, want, reapVars>>

\* reapers.Wait() returned.
ReapersWaited ==
    /\ shutdown = "reapers"
    /\ \A w \in Workers : pc[w] = "off"
    /\ shutdown' = "bg"
    /\ UNCHANGED <<now, ctxDone, running, breaker, stopping, stop, mu, pc, want, reapVars>>

\* bg.Wait() returned: Shutdown returns nil.
PokeWaited ==
    /\ shutdown = "bg"
    /\ pc["poke"] = "off"
    /\ shutdown' = "nil"
    /\ UNCHANGED <<now, ctxDone, running, breaker, stopping, stop, mu, pc, want, reapVars>>

\* The context ended first: Shutdown returns its error.
ShutdownTimeout ==
    /\ shutdown \in {"reapers", "bg"}
    /\ shutdown' = "err"
    /\ UNCHANGED <<now, ctxDone, running, breaker, stopping, stop, mu, pc, want, reapVars>>
-----------------------------------------------------------------------------
(***************************************************************************)
(* The environment: the clock, the run context, the processes.             *)
(***************************************************************************)
Tick ==
    /\ now < MaxTime
    /\ now' = now + 1
    /\ UNCHANGED <<ctxDone, running, breaker, stopping, stop, mu, pc, want, shutdown, reapVars>>

CancelRun ==
    /\ ~ctxDone
    /\ ctxDone' = TRUE
    /\ UNCHANGED <<now, running, breaker, stopping, stop, mu, pc, want, shutdown, reapVars>>

\* The process of w ends, by itself or after a signal.
ProcEnds(w) ==
    /\ proc[w] = "alive"
    /\ proc' = [proc EXCEPT ![w] = "gone"]
    /\ \E e \in Exits : exit' = [exit EXCEPT ![w] = e]
    /\ UNCHANGED <<now, ctxDone, running, breaker, stopping, stop, mu, pc, want,
                   deadline, reason, exitedAt, shutdown>>

Enter(t) == HintDropped(t) \/ HintPaused(t) \/ HintAccepted(t)
Spawn(t) == SpawnError(t) \/ \E w \in Workers : SpawnWorker(t, w)
Wait(w)  == WaitDone(w) \/ WaitTTL(w) \/ WaitStop(w)
Term(w)  == TermDone(w) \/ GraceOver(w)
Hints    == \E n \in Counts : DispatcherHint(n)

Next ==
    \/ \E t \in Threads : Enter(t) \/ Spawn(t)
    \/ \E w \in Workers : Wait(w) \/ Term(w) \/ RecordExit(w) \/ ProcEnds(w)
    \/ Hints \/ DispatcherStop
    \/ PokeTick \/ PokeStop
    \/ Stats
    \/ ShutdownCall \/ ReapersWaited \/ PokeWaited \/ ShutdownTimeout
    \/ Tick \/ CancelRun

Spec == Init /\ [][Next]_vars

\* The scheduler runs every goroutine that can run; the mutex starves nobody
\* and select prefers none of its ready cases, hence SF where a goroutine waits
\* for the mutex or in a loop over a select; SIGKILL ends a process and the
\* grace timer fires.  A worker need not end by itself, time need not pass,
\* nobody need hint, and Shutdown need not be called.
Fairness ==
    /\ \A t \in Threads : SF_vars(Enter(t)) /\ WF_vars(Spawn(t))
    /\ \A w \in Workers : /\ WF_vars(Wait(w))
                          /\ WF_vars(Term(w))
                          /\ SF_vars(RecordExit(w))
                          /\ WF_vars(pc[w] = "kill" /\ ProcEnds(w))
    /\ SF_vars(PokeStop)
    /\ WF_vars(ReapersWaited) /\ WF_vars(PokeWaited)

FairSpec == Spec /\ Fairness
-----------------------------------------------------------------------------
\* Types of the pool's fields, its goroutines and its workers.
TypeOK ==
    /\ now \in Times
    /\ ctxDone \in BOOLEAN
    /\ running \in Int
    /\ breaker \in BreakerState
    /\ stopping \in BOOLEAN
    /\ stop \in BOOLEAN
    /\ mu \in Threads \cup {NoOne}
    /\ pc \in [Threads -> {"idle", "off", "lock", "spawn",
                           "wait", "grace", "kill", "record"}]
    /\ want \in [Threads -> Nat]
    /\ proc \in [Workers -> {"none", "alive", "gone"}]
    /\ exit \in [Workers -> Exits \cup {NoExit}]
    /\ deadline \in [Workers -> Nat]
    /\ reason \in [Workers -> {"none", "ttl", "shutdown"}]
    /\ exitedAt \in [Workers -> Times \cup {Never}]
    /\ shutdown \in {"none", "reapers", "bg", "nil", "err"}

Live     == {w \in Workers : proc[w] = "alive"}
Unreaped == {w \in Workers : proc[w] # "none"}

\* pool.go: the pool never runs more workers than concurrency allows, however
\* hints of the dispatcher, the ticker and the reapers overlap with each other
\* and with exits.
NeverOversubscribed == Cardinality(Live) <= Concurrency

\* Running(): the counter is the number of workers spawned and not yet reaped,
\* also while a Hint is half way through its spawns.
RunningIsExact == running = Cardinality(Unreaped)

\* Shutdown: once it has marked the pool no hint starts a worker any more, not
\* even one that was waiting for the mutex or a reaper's own.
NoSpawnAfterShutdown == [][stopping => Live' \subseteq Live]_vars

\* Hint: no worker starts while the breaker is open, although it is consulted
\* once per hint and a spawn error in the middle of one may trip it.
NoSpawnWhilePaused == [][isOpen(breaker, now) => Live' \subseteq Live]_vars

\* Shutdown returns nil only when every worker is dead and reaped and every
\* goroutine of the pool has ended, although it waits for the reapers before
\* it waits for the ticker.
ShutdownLeavesNothing ==
    shutdown = "nil" => /\ Unreaped = {}
                        /\ \A t \in Threads \ {"dispatcher"} : pc[t] = "off"

\* Shutdown: every worker is terminated and reaped and the ticker stops, also
\* when a worker ignores term_signal.
ShutdownDrains == stopping ~> \A t \in Threads \ {"dispatcher"} : pc[t] = "off"

\* wait: a worker that outlived its ttl is reaped, whatever it does.
TTLEnforced ==
    \A w \in Workers :
        (pc[w] = "wait" /\ deadline[w] # Never /\ now >= deadline[w]) ~> pc[w] = "off"

\* Hint: every call returns; no path leaves the mutex locked or waits for a
\* goroutine that needs it.
HintReturns == pc["dispatcher"] = "lock" ~> pc["dispatcher"] = "idle"
-----------------------------------------------------------------------------
Answer == IF shutdown \in {"reapers", "bg"} THEN "pending" ELSE shutdown

Contract == INSTANCE PoolContract WITH live      <- Unreaped,
                                       accepting <- ~stopping,
                                       reply     <- Answer

\* The pool does what its contract says: every step of a goroutine or of the
\* environment is a step of the contract or changes nothing in it.
KeepsContract == Contract!Spec

\* The same with the contract's liveness.
KeepsFairContract == Contract!FairSpec
=============================================================================
