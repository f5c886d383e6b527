----------------------------- MODULE BreakerUse -----------------------------
(***************************************************************************)
(* One breaker under every sequence of calls the pool can make on it       *)
(* (internal/pool/pool.go).  The pool mutex serialises the calls, so a     *)
(* step is one critical section.  failureLocked, Hint and Stats read the   *)
(* clock under the lock; an ok exit carries the time its reaper read       *)
(* before it got the lock, so ok may be called with any time up to now.    *)
(*                                                                         *)
(* log, mark and pause are history: what the breaker saw and did, kept in  *)
(* full, against which its truncated memory is judged.                     *)
(***************************************************************************)
EXTENDS Breaker, FiniteSets

CONSTANT MaxFailures    \* bound: failures in one behaviour

ASSUME MaxFailuresBound == MaxFailures \in Nat

VARIABLES
    now,      \* the pool clock
    b,        \* the breaker
    level,    \* Stats.BreakerLevel of the last snapshot
    log,      \* times of all failures, oldest first
    mark,     \* how many of them had happened at the last trip
    pause     \* cooldown of the last trip, 0 once the level was reset

vars == <<now, b, level, log, mark, pause>>

Init ==
    /\ now = 1
    /\ b = newBreaker
    /\ level = 0
    /\ log = <<>>
    /\ mark = 0
    /\ pause = 0

Tick ==
    /\ now < MaxTime
    /\ now' = now + 1
    /\ UNCHANGED <<b, level, log, mark, pause>>

\* Every call replaces the breaker by what the method makes of it.
Becomes(c) ==
    /\ b' = c
    /\ pause' = IF c.openUntil # b.openUntil THEN c.openUntil - now
                ELSE IF c.level = 0 THEN 0 ELSE pause

\* Hint asks whether spawning is paused.
Hint ==
    /\ Becomes(decay(b, now))
    /\ UNCHANGED <<now, level, log, mark>>

\* failureLocked: a failed exit or a spawn error.
Failure ==
    /\ Len(log) < MaxFailures
    /\ Becomes(failure(b, now))
    /\ log' = Append(log, now)
    /\ mark' = IF b'.openUntil # b.openUntil THEN Len(log') ELSE mark
    /\ UNCHANGED <<now, level>>

\* recordExit of a worker that ended ok and was stamped exitedAt.
OkExit(exitedAt) ==
    /\ Becomes(ok(b, exitedAt))
    /\ UNCHANGED <<now, level, log, mark>>

\* Stats copies the level into the snapshot, then asks open().
Stats ==
    /\ level' = b.level
    /\ Becomes(decay(b, now))
    /\ UNCHANGED <<now, log, mark>>

Next ==
    \/ Tick
    \/ Hint
    \/ Failure
    \/ \E exitedAt \in 1 .. now : OkExit(exitedAt)
    \/ Stats

Spec == Init /\ [][Next]_vars
-----------------------------------------------------------------------------
\* Types of the clock, the breaker and the history.
TypeOK ==
    /\ now \in Times
    /\ b \in BreakerState
    /\ level \in 0 .. MaxTime + MaxCooldown
    /\ log \in Seq(Times)
    /\ mark \in 0 .. Len(log)
    /\ pause \in 0 .. MaxCooldown

Tripped == b'.openUntil # b.openUntil

\* The failures since the last trip that lie inside the window, in the full
\* history as it is after this step.
InWindow == {i \in mark + 1 .. Len(log') : now - log'[i] <= Window}

\* The breaker trips on a failure, and on every failure, that finds it closed
\* and makes Threshold failures since the last trip inside the window; nothing
\* else ever moves openUntil.  The truncated list that failure() keeps and the
\* stale stamps given to ok() lose no failure and invent none.
TripsExactlyOnStorm ==
    [][Tripped <=> /\ Len(log') > Len(log)
                   /\ enabled
                   /\ ~isOpen(b, now)
                   /\ Cardinality(InWindow) >= Threshold]_vars

\* A trip pauses for at least exit_cooldown, at most exit_cooldown_max, and
\* never for less than the trip before it, unless an ok exit reset the level in
\* between or exit_cooldown_max passed untripped (nextCooldown).
PauseEscalates ==
    [][Tripped => LET d == b'.openUntil - now
                  IN  /\ Cooldown <= d
                      /\ d <= MaxCooldown
                      /\ pause <= d \/ now >= b.openUntil + MaxCooldown]_vars

\* However the calls interleave, nobody who looks at the breaker is told to
\* wait longer than exit_cooldown_max from now, and the level never exceeds
\* the number of trips the clock had room for.
PauseBounded ==
    /\ b.openUntil <= now + MaxCooldown
    /\ b.level <= b.openUntil

\* The escalation level falls only while the breaker is closed, and only after
\* exit_cooldown_max untripped or with no failure since the last trip inside
\* the window, even when ok() is given a stale exit time.
LevelFallsOnlyWhenQuiet ==
    [][b'.level < b.level =>
          /\ ~isOpen(b, now)
          /\ \/ now >= b.openUntil + MaxCooldown
             \/ \A i \in mark + 1 .. Len(log) : now - log[i] > Window]_vars

\* README.md: the level "resets to 0 on an ok exit that happens while the pool
\* is not tripped and no failure lies inside the window".  The trip empties the
\* list, so the failures that caused it no longer count for ok().
LevelResetNeedsEmptyWindow ==
    [][b'.level < b.level =>
          \/ now >= b.openUntil + MaxCooldown
          \/ \A i \in 1 .. Len(log) : now - log[i] > Window]_vars

\* pool.go: "Stats returns a consistent snapshot"; README.md: the level resets
\* to 0 "after exit_cooldown_max has passed untripped".  A snapshot taken after
\* that shows level 0.
SnapshotLevelDecayed ==
    [][level' # level => (now >= b.openUntil + MaxCooldown => level' = 0)]_vars
=============================================================================
