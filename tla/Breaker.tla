------------------------------ MODULE Breaker ------------------------------
(***************************************************************************)
(* The failure breaker of one pool (internal/pool/breaker.go) as operators *)
(* on its mutable state: a record b with the recorded failure times, the   *)
(* end of the current pause and the escalation level.  The code mutates    *)
(* *breaker under the pool mutex; each method is the operator that maps    *)
(* the state before the call to the state after it.                        *)
(*                                                                         *)
(* Time is counted in ticks of the pool clock.  0 is Go's zero time        *)
(* ("never"): the program only sees the times 1..MaxTime.                  *)
(***************************************************************************)
EXTENDS Integers, Sequences

CONSTANTS
    Threshold,      \* exit_failure_threshold; 0 turns the breaker off
    Window,         \* exit_failure_window
    Cooldown,       \* exit_cooldown; 0 turns the breaker off
    MaxCooldown,    \* exit_cooldown_max
    MultNum,        \* exit_cooldown_multiplier is MultNum / MultDen
    MultDen,
    MaxTime         \* bound: the clock stops here

\* What PoolConfig.validateBreaker and validateCooldown let through.
ASSUME BreakerConfig ==
    /\ Threshold \in Nat
    /\ Window \in Nat \ {0}
    /\ Cooldown \in Nat
    /\ MaxCooldown \in Nat
    /\ MaxCooldown >= Cooldown
    /\ MultDen \in Nat \ {0}
    /\ MultNum \in Nat
    /\ MultNum >= MultDen
    /\ MaxTime \in Nat \ {0}

\* What ^ means, stated because the provers have no rule for it; a breaker never
\* passes level MaxTime before the clock stops.
ASSUME PowersOfMultiplier ==
    \A m \in {MultNum, MultDen} :
        m ^ 0 = 1 /\ \A l \in 0 .. MaxTime : m ^ (l + 1) = m * m ^ l

Never == 0
Times == 1 .. MaxTime

BreakerState ==
    [failures  : Seq(Times),
     openUntil : 0 .. MaxTime + MaxCooldown,
     level     : 0 .. MaxTime + MaxCooldown]

newBreaker == [failures |-> <<>>, openUntil |-> Never, level |-> 0]

enabled == Threshold > 0 /\ Cooldown > 0

\* The level falls to 0 once the breaker has stayed closed for MaxCooldown.
decay(b, now) ==
    IF b.level > 0 /\ now >= b.openUntil + MaxCooldown
    THEN [b EXCEPT !.level = 0]
    ELSE b

\* open() first decays, then answers; isOpen is the answer, which decay does
\* not change.
isOpen(b, now) == now < b.openUntil

\* Mutants of nextCooldown: the cap forgotten; the multiplier inverted.
nextCooldownUncapped(b) ==
    (Cooldown * MultNum ^ b.level) \div (MultDen ^ b.level)

nextCooldownShrinks(b) ==
    (Cooldown * MultDen ^ b.level) \div (MultNum ^ b.level)

nextCooldown(b) ==
    LET d == (Cooldown * MultNum ^ b.level) \div (MultDen ^ b.level)
    IN  IF d > MaxCooldown THEN MaxCooldown ELSE d

\* Mutant of record: the truncation keeps one failure too few.
recordShort(b, now) ==
    LET all == Append(b.failures, now)
    IN  IF Len(all) >= Threshold
        THEN SubSeq(all, Len(all) - Threshold + 2, Len(all))
        ELSE all

\* The last Threshold failure times, the one at now included.
record(b, now) ==
    LET all == Append(b.failures, now)
    IN  IF Len(all) > Threshold
        THEN SubSeq(all, Len(all) - Threshold + 1, Len(all))
        ELSE all

\* The early return of failure(): a failure at now that does not trip.
stays(b, now) ==
    LET fs == record(b, now)
    IN  isOpen(b, now) \/ Len(fs) < Threshold \/ now - fs[1] > Window

failure(b, now) ==
    LET d == decay(b, now)
    IN  IF ~enabled
        THEN b
        ELSE IF stays(d, now)
             THEN [d EXCEPT !.failures = record(d, now)]
             ELSE [failures  |-> <<>>,
                   openUntil |-> now + nextCooldown(d),
                   level     |-> d.level + 1]

\* Mutant of ok: the recorded failures are not looked at.
okIgnoresFailures(b, now) ==
    LET d == decay(b, now)
    IN  IF isOpen(d, now) THEN d ELSE [d EXCEPT !.level = 0]

\* A successful exit stamped now; the stamp may be older than the last call.
ok(b, now) ==
    LET d == decay(b, now)
    IN  IF \/ isOpen(d, now)
           \/ \E i \in DOMAIN d.failures : now - d.failures[i] <= Window
        THEN d
        ELSE [d EXCEPT !.level = 0]
=============================================================================
