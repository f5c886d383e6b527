# A TLA+ model of doorbell-pm

doorbell-pm keeps pools of worker processes. A *hint* (a Redis message, an HTTP
request, a periodic poke or a worker's own report) asks a pool for more
workers; the pool starts them up to its concurrency, reaps them, and pauses
when they fail too often. This directory models the parts that decide which
process runs when and what the outside is told of it, checks them with TLC on
small instances, and proves most of the safety properties with TLAPS for every
configuration.

`PROJECT.json` lists the runs, the source lines behind each definition, the
hazards and the theorems.

## The system

| Part | State | Operations | Correct when |
|---|---|---|---|
| pool (`internal/pool`) | `running`, breaker, `stopping`, `stop`, wait groups, all under one mutex | `Hint`, `spawnLocked`, `reap`/`wait`/`recordExit`, `Start`, `Stats`, `Shutdown` | the cap holds, the counter is exact, nothing starts after Shutdown or during a pause, Shutdown drains and says the truth |
| breaker (`breaker.go`) | last failures, `openUntil`, `level` | `failure`, `ok`, `open` | trips exactly on a storm of failures; pauses grow, are bounded and reset only in quiet times |
| process control (`internal/proc`) | the process, its one `Exit`, the kept output line | `Spawn`, `Terminate`, `Write`, `Line` | a terminated process is always reaped; the line does not depend on how output is chunked |
| app (`internal/app`) | run context, hint channel, error channel, phase of `stop` | `Run`, `stop`, `await`, `shutdownPools` | stops in order, reports every error, nil means nothing is left |
| dispatcher | routing table | `Run`, `Dispatch` | every accepted channel leads to a pool |
| HTTP source (`internal/httpapi`) | the request in hand, the listener | `hintHandler`, `serve`/`shutdown` | never blocks the shutdown; a request is accepted whole and answered |
| Redis source (`internal/redisin`) | the session, its subscription, the backoff, the message in hand | `Run`, `session`, `closeOnCancel`, `forward` | never blocks the shutdown, never gives up, backs off as documented |
| metrics and health | the counters, the last events, the gauges pulled from `Stats` | `Metrics` calls of the pool, `Collect`, `healthHandler` | every spawn, exit, kill and trip is counted once; what a snapshot shows fits what was counted |
| configuration (`internal/config`) | the document, three layers of settings | `Load`, `Finalize`, `Pool`, `validate` | what it accepts, the rest can rely on |
| command line (`cmd/doorbell-pm`) | the verb, the exit code | `run`, `loadConfig`, `printResolved` | `check` prints the document the daemon would run with |

Sources send hints into one buffered channel; the dispatcher takes them one by
one and calls `Pool.Hint`, which holds the pool mutex across all its spawns.
Each worker has a reaper goroutine that waits for the process, the ttl timer or
the stop channel, terminates the process in the last two cases, records the
exit under the mutex and may call `Hint` itself. `Run` cancels the run context
on a signal or a source's error and takes sources, dispatcher and pools down
under one deadline, `shutdown_timeout`.

What is hard: a mutex held for long while exits, timers and signals go on;
selects with several ready cases; times read before a lock and used after it;
several goroutines hinting the same pool during its shutdown; one deadline for
a sequence of waits, each racing it; a blocking read that only another
goroutine's close can interrupt; events counted after the mutex was released.

## The modules

- `Breaker` has the breaker's methods as operators on a record. `failure`, `ok`
  and `decay` map the state before a call to the state after it; `isOpen` is
  the answer of `open`. The multiplier is the rational `MultNum / MultDen`.
- `BreakerUse` applies them in every order the pool can: `Failure`, `Hint` and
  `Stats` at the current time, `OkExit` with any earlier time, because
  `reap` reads the clock before it has the mutex. `log`, `mark` and `pause` are
  history variables that remember every failure.
- `Pool` is one pool. `pc` says where the dispatcher, the ticker and each reaper
  are, `mu` who is in the spawn loop. `HintAccepted` takes the mutex,
  `SpawnWorker` and `SpawnError` are the turns of the loop, and the critical
  sections in which nothing slow happens are single steps taken while `mu` is
  free. A worker and its reaper share a member of `Workers`; it is free again
  when the reaper has returned. The clock drives the ttl and the breaker; the
  grace period, the poke interval and the deadline of Shutdown's context may
  elapse at any step.
- `PoolMetrics` extends `Pool` with what is seen from outside: the fields only
  snapshots read, the counters pushed to the exporter, the gauges and the health
  answer computed from a snapshot. Each of its steps is a step of `Pool` with
  what it counts, except `Report`: a reaper counts its exit after it has released
  the mutex (`pool.go:210`), so this is a step of its own, and until it is taken
  the reaper neither hints nor returns. A label of an exit is its result, or the
  reason of a kill.
- `PoolContract` is what a pool promises to its callers: workers come one at a
  time under the cap until it is closed, and a nil answer of Shutdown means it
  is empty. `Pool` implements it with `live <- Unreaped`, `accepting <- ~stopping`.
- `LastLine` is the output writer, one action per turn of the loop in `Write`.
- `Config` is the command line from the arguments to the exit code or the built
  daemon: `usageError`, `Version`, `loadConfig` (load, defaults, validation),
  then `printResolved` for check or `newApp` for run. Settings are functions over
  the configuration's keys; durations count half seconds. Paths are names; what
  `http.ServeMux` makes of them is given by constants: which it can make no pattern
  of (`Unmountable`), which pairs it refuses as overlapping (`Overlaps`).
  `MuxBound` says that this is about a missing slash, a path that is not clean or a
  wildcard only (`Odd`).
- `RedisSource` has the actions of the Redis source. `redis` says where `Run` is,
  `closed` whether `closeOnCancel` has closed this session's subscription,
  `message` what `forward` is sending, `connected` is the gauge, and `tries` a
  history variable counting the pauses since a confirmed subscription. The
  connection may be lost in any state, confirmed or not.
- `App` extends it to the daemon: sources, channel, dispatcher, pools as counts of workers
  with their grace period, and `Run`. Pools behave as `PoolContract` says. The
  clock starts when Run begins to stop. Time passes only when no prompt step is
  left (`Urgent`), since the timeouts are seconds and a goroutine switch is not: an
  idle dispatcher takes a hint or stops at once. Only a client sending its body, a
  spawn and a worker's end take their time. After
  `Returns` nothing happens: the process exits.
- `MCPool`, `MCPoolMetrics`, `MCConfig` give the instances. The modules whose names
  end in `Proofs` hold the proofs, `BreakerLemmas` what the breaker's operators
  preserve, which the proofs of the breaker and of the pool share, and `NatLemmas`
  what several of them need of numbers: least and greatest members, induction over
  a set of numbers, powers and quotients.

Operators marked `Mutant` are wrong variants of the definition after them. They
are used by nothing in the specifications; each breaks the property that
PROJECT.json names with it.

## The runs

| Run | Shows |
|---|---|
| `breaker` | for all call sequences up to 9 failures in 11 ticks, threshold 3, window 3, multiplier 3/2: trips exactly when the full history has a storm, pauses escalate within the cap, the level falls only in quiet times |
| `pool` | cap 2, four worker slots, hints of 0, 1 and 3, ttl and ticker on, breaker off: cap, counter, Shutdown, contract |
| `pool_metrics` | cap 2, three worker slots, threshold 2, doubling pauses, workers that report a task or crash: no spawn during a pause; the counters balance at every moment and are final when Shutdown returns nil; each step that starts a pause counts one trip; what health and gauges show fits the counters |
| `pool_live` | cap 1 with a fair scheduler, every failure pausing the pool: Shutdown drains, ttl is enforced, hints return, the contract's liveness |
| `lastline` | all outputs of up to 7 bytes over newline, blank and two others, in all chunks of up to 4, limit 2: the kept line is the last one that is not blank, or nothing if it or a blank one after it is too long |
| `config` | all verbs; two pools, defaults and one pool set any one key inside or outside its range, all channel clashes; any two top-level keys; all combinations of listeners and paths, among them paths that are not clean or have wildcards; a multiplier that is no number; documents that `Load` refuses |
| `app` | HTTP and Redis, one pool, a foreign channel, a channel of one hint, requests of two, timeouts 3, 1 and 1, backoff from 1 to 3 |

The bounds make the interesting cases happen. Four slots with a cap of two let
two reapers that are past `recordExit` hint against two live workers. Eleven
ticks hold three trips and a decay. A line limit of two is crossed within a
chunk, between chunks and exactly met. A channel of one is full while a request
of two is half forwarded and a Redis message waits behind it. Backoffs of 1, 2, 3
and 3 are told apart, the last one capped. Two calls of `Hint` besides the ones
that fill the pool (`MaxHints`) are enough for a hint during a pause and one
during Shutdown. The number of reapers that still have to hint is
limited to the slots beyond the cap (`RecordExit`); a real pool has no such
limit, and the proofs hold for any number of slots.

`TLC` deadlock checking is off where the system ends: `app`, `config`,
`lastline`.

### Where code and documentation differ

Five runs end in a violation, each of a sentence in the repository.

- `breaker_stats`: `Stats` reads the level before `open` decays it, so one
  snapshot after a long quiet time shows the old level. The next one shows 0, so
  health and a scrape may disagree then, where `metrics.go:3-4` says that gauges
  always agree with health.
- `breaker_reset`: a trip empties the failure list, so an ok exit soon after a
  short pause resets the level while the failures still lie inside the window.
  The sentences at odds with this are README:210 and the comment of `ok`;
  `TestLevelResetsOnOkExitWithEmptyWindow` (`breaker_test.go:176-187`) and README:219
  ("The first ok exit after recovery resets the level.") want what the code does.
- `config_metrics`: the paths under `http` are checked only when the HTTP listener
  is on, but the standalone metrics listener uses `http.metrics_path` in any
  case: a path without `/` is accepted by `check`, and the daemon panics when it
  mounts it.
- `app_exit`: `shutdown_timeout` larger than `grace_shutdown` is not enough for
  workers to be gone at exit, because draining HTTP requests uses it up first: a client is still
  sending its body when the signal comes, the pools are told to stop when the drain
  timeout is over, and the deadline comes before the end of their grace period.
- `app_request`: a request interrupted by shutdown, or by the client leaving, is
  answered 503 although part of it was forwarded.

Smaller observations, which no run is about:

- a worker that ended by itself in the instant of its ttl or of Shutdown may be
  recorded as killed, since `select` takes any ready case (`pool.go:280`), while
  `exitRecord.killReason` is commented "" for it. `KillsAreExits` shows that the
  counters agree with each other in that case too;
- `lastExit` may move backwards when two reapers queue for the mutex;
- hints answered with 202 that are still in the channel when the dispatcher stops
  are lost;
- the exit and shutdown-drop series are not initialised in advance, although
  `metrics.New` says that of every per-pool series (their labels are open sets);
- `check` masks the Redis password, and `Load` expands `$` again: `CheckIsFaithful`
  is about the other keys;
- the count of failures starts anew with every trip (`breaker.go:63`), so a pool
  that is open again needs `exit_failure_threshold` new ones; the test helper
  `cooldownNoReset` relies on it, README:199 does not say it;
- a line of blanks that is longer than the limit wipes the result before it, as
  `lastline.go:9-10` says of longer lines, although README:104 speaks of the last
  non-empty line (`Invalidated` in `LastLine`);
- `validateHTTPPaths` asks for a slash and distinct paths only. Paths like `//hint`,
  `/{` or the pair `/{a}` and `/{b}` pass, and `ServeMux.Handle` panics on them:
  `HintListenerMounts` is about plain paths;
- a multiplier of `.nan` passes `< 1` (`resolve.go:416`), and from level 1 on the
  length of a pause is what the conversion of NaN to an integer happens to give:
  `AcceptedIsSound` excepts it, and the models of the breaker assume a number;
- with HTTP off, negative HTTP timeouts pass validation too and reach the
  metrics listener.

### Fairness

`Pool!Fairness`: goroutines that can run do (WF); a goroutine that waits for the
mutex gets it, as Go's mutex hands over to a starving waiter, and a case of a
select that is ready again and again is taken (SF); SIGKILL ends a process and
the grace timer fires (WF). Nothing is assumed of workers, hints, time or calls
of Shutdown. `App!Fairness` adds that time goes on once nothing prompt is left,
without which no deadline would ever pass; that a sender on a full channel gets
its turn, as Go queues blocked senders in order (SF on `RequestForwards`); and,
for `RedisRecovers` alone, that a Redis server that is dialled again and again
confirms a subscription in the end (SF on `ReceiveSubscription`). It speaks of steps while the process
is up, so that it asks nothing of goroutines that died with it.

## The proofs

For all constants that satisfy the ASSUMEs (`Config!AcceptedIsSound` checks that
validation gives them, but for a multiplier that is no number):

- `BreakerProofs`: the types, `PauseBounded`, and the three action properties
  `TripsExactlyOnStorm`, `PauseEscalates` and `LevelFallsOnlyWhenQuiet`, which judge
  the breaker by its whole history. The inductive part of `PauseBounded` is
  `BreakerOK`: recorded failures are times up to now, `openUntil <= now +
  MaxCooldown`, and the level is at most `openUntil`, since each trip needs a closed
  breaker and so moves `openUntil` on. The action properties add `History`: the log
  is sorted, the failure list is the last `Threshold` entries of the log since the
  last trip (`Recent`), and the last pause was the one of the level before
  (`PauseFits`). A list that is sorted and complete up to its length has its oldest
  entry inside the window exactly if the log has `Threshold` of them there
  (`StormIsSeen`, by counting); pauses do not shrink because a power of a quotient
  of at least 1 does not (`CooldownGrows`); and an ok exit stamped in the past that
  finds no recorded failure within the window finds none now.
- `PoolProofs`: type correctness, the exact counter, the cap, the truth of
  Shutdown's nil, no spawn after Shutdown or during a pause, and
  `Spec => Contract!Spec`.

None of the pool's properties is inductive. `IInv` adds: the mutex is held
exactly by the goroutine in the spawn loop (`MutexHeld`); a slot has a process
exactly between spawn and `recordExit` (`Placed`, which makes the counter
exact); the spawns granted to the owner of the mutex fit under the cap
(`Capped`); whoever owns the mutex does so in a pool that is neither stopping
nor paused, and each stage of Shutdown has left behind what it waited for
(`Closing`). The last part is why a ticker caught between its tick and its hint
does no harm: its hint finds the pool stopping. `ControlStep`, `BreakerStep` and
`RunningStep` show that the parts are preserved, one step per action.

The provers know nothing about `^`. `PowersOfMultiplier` and `PowersOfTwo` assume
what it means, the value at 0 and the step from `n` to `n + 1`, for the numbers
the models raise; that powers are positive and grow is proved from it
(`NatLemmas!Powers`). TLC evaluates both for every instance.

- `PoolMetricsProofs`: `MSpec => Spec`, so that everything above holds of a pool
  with its metrics, then the types of the counters, `SpawnsBalance`,
  `KillsAreExits`, `CompleteAtShutdown`, `TripsAreCounted` and `ShownIsCounted`. The
  balances need `Placement`: a reaper has a kill reason only while it terminates its
  worker, and something to report only between `recordExit` and its own hint or
  return. A worker then moves from one term of each balance to the next, one at a
  time, and a nil Shutdown, which has waited for the reapers, leaves the middle terms
  at zero. `TripsAreCounted` is an action property: every step that moves `openUntil`
  raises the counter by one, and no other does, because the code's `Trip` call sits
  where `failure` moves it (`FailureTrips`). `ShownIsCounted` compares what is pulled
  from a snapshot with what was pushed. It needs that every level and every pause, over
  or not, has its trip counted (`TripsSeen`), that the tasks of a report which is
  still to be counted are in the snapshot already (`Seen`), and the balance of
  spawns, so that a recorded exit tells spawns and running workers apart for good.
- `AppProofs`: the daemon's types, `NilMeansClean`, `PoolsStopLast`,
  `SourceErrorsReported`, `ConnectedIsConfirmed` and `BackoffDoubles`, for all timeouts, any set of
  sources and pools. What makes them inductive is that each phase of `stop` has
  left behind what it waited for or an error that says it did not, that a source
  which is done stays done, that a pool which answered nil stays empty, and that a failed source's
  error is in `errc` or in `errs` until Run returns. For the backoff it is
  `Doubling`: the delay is the first one doubled `tries` times and capped while the
  source dials, too, and no try is counted while it is subscribed; doubling a
  capped delay and capping it again gives the next one (`NextDelay`).
- `ConfigProofs`: the four invariants of `config` for every set of documents. The
  invariant carried through the phases is that a document in phase "valid" has
  passed `validate` and is its own default (`applyDefaults` is idempotent); the
  rest follows from the definitions of what is built or printed. That the hint
  listener mounts is proved for plain paths (`PlainPaths`) from `MuxBound`, which
  states what is assumed of `http.ServeMux`.
- `LastLineProofs`: `MemoryBounded` and `LineIsResult` for every alphabet, limit and
  chunk size. The writer sees an output once, in pieces; `Result`, the last line
  that is not blank unless it is too long, and `Invalidated`, whether an over-long blank
  line follows it, are definitions on the whole of it; `ResultIs` restates them by the
  last line that changes what the writer keeps. `Parsed` connects them: the line under way starts at some `c`
  after the last newline consumed, is in `buf` unless it is already too long, and
  `last` is the result of the lines before `c` (`Before`). More output changes no
  line that has ended (`SameBefore`), and a line that ends changes the result as
  `endLine` does (`OneLineMore`). No induction over the output is needed: the
  behaviour has gone through it already.

Every invariant and every action property of a passing run is proved. Only
model-checked is what is about liveness, which is out of the prover's reach as
soon as fairness (ENABLED) is used: `ShutdownDrains`, `TTLEnforced`, `HintReturns`
and `KeepsFairContract` of `pool_live`; `SourcesEnd`, `RequestAnswered` and
`RedisRecovers` of `app`. The violations of the five runs above are TLC's, too.

## Not modelled

Logging only reports. Pids and process groups, environment building, yaml, JSON
and the Redis client are left to the libraries and the kernel; the models have
their verdicts. Float rounding of the pause and overflow of durations are not
modelled. Of HTTP there is one request at a time. The test fakes and
`tools/crap` are not part of the daemon.

## Plan

1. Done: breaker, pool and contract, metrics and health, app with the Redis
   source, result line, configuration and command line.
2. Done: proofs of all safety properties of the runs.
3. More than one request in flight.
4. The pools inside `App` against `PoolContract`. This is no step-by-step
   refinement as it stands: `App` keeps counts of workers and lets several end in
   one step, where the contract starts and ends one at a time.
