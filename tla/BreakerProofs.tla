--------------------------- MODULE BreakerProofs ---------------------------
(***************************************************************************)
(* The breaker under any sequence of the pool's calls, for every           *)
(* configuration.  That the pause is bounded is inductive together with    *)
(* level <= openUntil: each trip ends a pause of at least one tick after   *)
(* the one before, so the level never outruns the clock and the multiplier *)
(* is only ever raised to a power the configuration allows.  What the      *)
(* breaker does about a storm rests on History: its list is the end of the *)
(* sorted log of all failures, its last pause that of the level before.    *)
(***************************************************************************)
EXTENDS BreakerUse, BreakerLemmas, FiniteSetTheorems

IInv == TypeOK /\ BreakerOK(b, now)

\* A call that leaves a fit breaker and moves openUntil, if at all, only past
\* now keeps the pause history in range.
LEMMA BecomesStep ==
    ASSUME TypeOK, NEW c, Becomes(c), BreakerOK(c, now),
           c.openUntil = b.openUntil \/ c.openUntil > now
    PROVE  b' = c /\ b' \in BreakerState /\ pause' \in 0 .. MaxCooldown
<1>1. b' = c /\ c \in BreakerState /\ c.openUntil \in Nat /\ c.openUntil <= now + MaxCooldown
  BY BreakerConfig DEF Becomes, BreakerOK, BreakerState
<1>2. now \in Nat /\ pause \in 0 .. MaxCooldown
  BY BreakerConfig DEF TypeOK, Times
<1>3. pause' \in {0, pause} \/ (c.openUntil > now /\ pause' = c.openUntil - now)
  BY DEF Becomes
<1> QED
  BY <1>1, <1>2, <1>3, BreakerConfig

\* IInv is inductive.
LEMMA InductiveInvariant == Spec => []IInv
<1>1. Init => IInv
  <2> SUFFICES ASSUME Init PROVE IInv
    OBVIOUS
  <2>1. now \in Times
    BY BreakerConfig DEF Init, Times
  <2>2. BreakerOK(b, now)
    BY <2>1, NewBreakerOK DEF Init
  <2> QED
    BY <2>1, <2>2, BreakerConfig DEF Init, IInv, TypeOK, BreakerOK
<1>2. IInv /\ [Next]_vars => IInv'
  <2> SUFFICES ASSUME IInv, [Next]_vars PROVE IInv'
    OBVIOUS
  <2> USE DEF IInv
  <2>1. now \in Times /\ b.level \in 0 .. MaxTime + MaxCooldown
    BY DEF TypeOK, BreakerOK, BreakerState
  <2>2. CASE Tick
    <3>1. now' \in Times /\ now' = now + 1 /\ b' = b
      BY <2>1, <2>2, BreakerConfig DEF Tick, Times
    <3>2. BreakerOK(b', now')
      BY <2>1, <3>1, LaterOK
    <3> QED
      BY <2>2, <3>1, <3>2 DEF Tick, TypeOK
  <2>3. CASE Hint
    <3>1. b' \in BreakerState /\ pause' \in 0 .. MaxCooldown /\ BreakerOK(b', now)
      BY <2>1, <2>3, DecayOK, BecomesStep DEF Hint
    <3> QED
      BY <2>3, <3>1 DEF Hint, TypeOK
  <2>4. CASE Failure
    <3>1. b' \in BreakerState /\ pause' \in 0 .. MaxCooldown /\ BreakerOK(b', now)
      BY <2>1, <2>4, FailureOK, BecomesStep DEF Failure
    <3>2. log' \in Seq(Times) /\ Len(log') = Len(log) + 1 /\ Len(log) \in Nat
      BY <2>1, <2>4 DEF Failure, TypeOK
    <3>3. mark' \in 0 .. Len(log')
      BY <2>4, <3>2 DEF Failure, TypeOK
    <3> QED
      BY <2>4, <3>1, <3>2, <3>3 DEF Failure, TypeOK
  <2>5. ASSUME NEW exitedAt \in 1 .. now, OkExit(exitedAt)
        PROVE  IInv'
    <3>1. exitedAt \in Times
      BY <2>1, <2>5, BreakerConfig DEF Times
    <3>2. b' \in BreakerState /\ pause' \in 0 .. MaxCooldown /\ BreakerOK(b', now)
      BY <2>1, <2>5, <3>1, OkOK, BecomesStep DEF OkExit
    <3> QED
      BY <2>5, <3>2 DEF OkExit, TypeOK
  <2>6. CASE Stats
    <3>1. b' \in BreakerState /\ pause' \in 0 .. MaxCooldown /\ BreakerOK(b', now)
      BY <2>1, <2>6, DecayOK, BecomesStep DEF Stats
    <3> QED
      BY <2>1, <2>6, <3>1 DEF Stats, TypeOK
  <2>7. CASE UNCHANGED vars
    BY <2>7 DEF vars, TypeOK
  <2> QED
    BY <2>2, <2>3, <2>4, <2>5, <2>6, <2>7 DEF Next
<1> QED
  BY <1>1, <1>2, PTL DEF Spec

\* The clock, the breaker and its history always have their types.
THEOREM BreakerTypeCorrect == Spec => []TypeOK
<1>1. IInv => TypeOK
  BY DEF IInv
<1> QED
  BY InductiveInvariant, <1>1, PTL

\* No sequence of calls pauses a pool beyond now + exit_cooldown_max.
THEOREM PauseIsBounded == Spec => []PauseBounded
<1>1. IInv => PauseBounded
  BY DEF IInv, BreakerOK, PauseBounded
<1> QED
  BY InductiveInvariant, <1>1, PTL
-----------------------------------------------------------------------------
(***************************************************************************)
(* The breaker and its full history.                                       *)
(***************************************************************************)
\* The last pause is the one that led to the present level.
PauseFits == pause = IF b.level = 0 THEN 0 ELSE CooldownAt(b.level - 1)

\* Failures are logged in the order of their times.
Sorted ==
    /\ \A i, j \in 1 .. Len(log) : i <= j => log[i] <= log[j]
    /\ \A i \in 1 .. Len(log) : log[i] <= now

\* The recorded failures are the last ones of the log, up to Threshold of those
\* since the last trip.
Recent ==
    IF enabled
    THEN /\ Len(b.failures) = IF Len(log) - mark > Threshold THEN Threshold ELSE Len(log) - mark
         /\ \A i \in 1 .. Len(b.failures) : b.failures[i] = log[Len(log) - Len(b.failures) + i]
    ELSE b.level = 0 /\ b.openUntil = Never

History == PauseFits /\ Sorted /\ Recent

\* A call that touches no more than the level, and that only to reset it.
Quiet ==
    /\ b'.openUntil = b.openUntil
    /\ b'.failures = b.failures
    /\ b'.level \in {0, b.level}
    /\ pause' = IF b'.level = 0 THEN 0 ELSE pause
    /\ UNCHANGED <<now, log, mark>>

\* Hint, Stats and an ok exit are quiet; they reset the level after MaxCooldown or
\* when no recorded failure is in the window.
LEMMA QuietCalls ==
    ASSUME IInv, Hint \/ Stats \/ \E exitedAt \in 1 .. now : OkExit(exitedAt)
    PROVE  /\ Quiet
           /\ b'.level # b.level =>
                 \/ now >= b.openUntil + MaxCooldown
                 \/ /\ ~isOpen(b, now)
                    /\ \A i \in DOMAIN b.failures : now - b.failures[i] > Window
<1>1. now \in Times /\ BreakerOK(b, now) /\ b \in BreakerState
  BY DEF IInv, TypeOK
<1>2. now \in Nat /\ b.openUntil \in Nat
  BY <1>1, BreakerConfig DEF BreakerState, Times
<1>3. CASE Hint \/ Stats
  <2>1. Becomes(decay(b, now)) /\ UNCHANGED <<now, log, mark>>
    BY <1>3 DEF Hint, Stats
  <2> QED
    BY <1>1, <2>1, DecayOK DEF Becomes, Quiet
<1>4. ASSUME NEW at \in 1 .. now, OkExit(at)
      PROVE  /\ Quiet
             /\ b'.level # b.level =>
                   \/ now >= b.openUntil + MaxCooldown
                   \/ /\ ~isOpen(b, now)
                      /\ \A i \in DOMAIN b.failures : now - b.failures[i] > Window
  <2>1. at \in Times /\ at <= now /\ at \in Nat
    BY <1>1, <1>4, BreakerConfig DEF Times
  <2>2. Becomes(ok(b, at)) /\ UNCHANGED <<now, log, mark>>
    BY <1>4 DEF OkExit
  <2>3. Quiet
    BY <1>1, <2>1, <2>2, OkOK DEF Becomes, Quiet
  <2>4. CASE at >= b.openUntil + MaxCooldown
    BY <1>2, <2>1, <2>3, <2>4, BreakerConfig
  <2>5. CASE /\ ~isOpen(b, at)
             /\ \A i \in DOMAIN b.failures : ~(at - b.failures[i] <= Window)
    <3>1. ~isOpen(b, now)
      BY <1>2, <2>1, <2>5 DEF isOpen
    <3>2. \A i \in DOMAIN b.failures : b.failures[i] \in Nat
      BY <1>1, BreakerConfig DEF BreakerState, Times
    <3>3. \A i \in DOMAIN b.failures : now - b.failures[i] > Window
      BY <1>2, <2>1, <2>5, <3>2, BreakerConfig
    <3> QED
      BY <2>3, <3>1, <3>3
  <2>6. b'.level # b.level => \/ at >= b.openUntil + MaxCooldown
                              \/ /\ ~isOpen(b, at)
                                 /\ \A i \in DOMAIN b.failures : ~(at - b.failures[i] <= Window)
    BY <1>1, <2>1, <2>2, OkOK DEF Becomes
  <2> QED
    BY <2>3, <2>4, <2>5, <2>6
<1> QED
  BY <1>3, <1>4

\* Quiet calls keep the history.
LEMMA QuietHistory ==
    ASSUME IInv, History, Quiet
    PROVE  History'
<1>1. PauseFits'
  BY DEF Quiet, History, PauseFits
<1>2. Sorted'
  BY DEF Quiet, History, Sorted
<1>3. Recent'
  BY DEF Quiet, History, Recent
<1> QED
  BY <1>1, <1>2, <1>3 DEF History

\* With a failure at now, record is the end of the log as Recent says.
LEMMA RecordIsRecent ==
    ASSUME IInv, History, enabled, log' = Append(log, now)
    PROVE  LET fs == record(b, now)
               n  == Len(log) + 1 - mark
           IN  /\ Len(log') = Len(log) + 1
               /\ fs \in Seq(Times)
               /\ Len(fs) = IF n > Threshold THEN Threshold ELSE n
               /\ \A i \in 1 .. Len(fs) : fs[i] = log'[Len(log') - Len(fs) + i]
<1> DEFINE fs == record(b, now)
           k  == Len(log)
           m  == Len(b.failures)
           all == Append(b.failures, now)
<1>1. /\ now \in Times /\ b \in BreakerState /\ Threshold \in Nat \ {0}
      /\ log \in Seq(Times) /\ k \in Nat /\ mark \in 0 .. k
      /\ b.failures \in Seq(Times) /\ m \in Nat
  BY BreakerConfig DEF IInv, TypeOK, BreakerState, enabled
<1>2. /\ m = IF k - mark > Threshold THEN Threshold ELSE k - mark
      /\ \A i \in 1 .. m : b.failures[i] = log[k - m + i]
  BY DEF History, Recent
<1>3. /\ Len(fs) = IF m + 1 > Threshold THEN Threshold ELSE m + 1
      /\ \A i \in 1 .. Len(fs) : fs[i] = all[m + 1 - Len(fs) + i]
  BY <1>1, RecordIs
<1>4. /\ Len(log') = k + 1 /\ log'[k + 1] = now
      /\ \A i \in 1 .. k : log'[i] = log[i]
  BY <1>1
<1>5. all[m + 1] = now /\ \A i \in 1 .. m : all[i] = b.failures[i]
  BY <1>1
<1>6. fs \in Seq(Times)
  BY <1>1, RecordType
<1> HIDE DEF fs, k, m, all
<1>7. Len(fs) = IF k + 1 - mark > Threshold THEN Threshold ELSE k + 1 - mark
  BY <1>1, <1>2, <1>3
<1>8. Len(fs) \in Nat /\ Len(fs) <= m + 1 /\ m <= k
  BY <1>1, <1>2, <1>3
<1>9. ASSUME NEW i \in 1 .. Len(fs)
      PROVE  fs[i] = log'[k + 1 - Len(fs) + i]
  <2>1. CASE i = Len(fs)
    <3>1. m + 1 - Len(fs) + i = m + 1 /\ k + 1 - Len(fs) + i = k + 1
      BY <1>1, <1>8, <2>1
    <3> QED
      BY <1>3, <1>4, <1>5, <1>9, <3>1
  <2>2. CASE i < Len(fs)
    <3> DEFINE j == m + 1 - Len(fs) + i
    <3>1. j \in 1 .. m /\ k - m + j = k + 1 - Len(fs) + i /\ k - m + j \in 1 .. k
      BY <1>1, <1>8, <1>9, <2>2
    <3>2. fs[i] = all[j]
      BY <1>3, <1>9
    <3> HIDE DEF j
    <3>3. fs[i] = log[k - m + j]
      BY <1>2, <1>5, <3>1, <3>2
    <3> QED
      BY <1>4, <3>1, <3>3
  <2>3. i = Len(fs) \/ i < Len(fs)
    BY <1>8, <1>9
  <2> QED
    BY <2>1, <2>2, <2>3
<1>10. \A i \in 1 .. Len(fs) : fs[i] = log'[Len(log') - Len(fs) + i]
  BY <1>1, <1>4, <1>8, <1>9
<1> QED
  BY <1>4, <1>6, <1>7, <1>10 DEF fs, k

\* A failure keeps the log sorted.
LEMMA SortedStep ==
    ASSUME TypeOK, Sorted, log' = Append(log, now), now' = now
    PROVE  Sorted'
<1>1. log \in Seq(Times) /\ now \in Nat /\ Len(log) \in Nat
  BY BreakerConfig DEF TypeOK, Times
<1>2. /\ Len(log') = Len(log) + 1 /\ log'[Len(log) + 1] = now
      /\ \A i \in 1 .. Len(log) : log'[i] = log[i] /\ log[i] \in Nat
  BY <1>1, BreakerConfig DEF TypeOK, Times
<1> QED
  BY <1>1, <1>2 DEF Sorted

\* The breaker trips on a failure that finds it closed and is the last of
\* Threshold recorded ones inside the window.
Trips ==
    /\ enabled /\ ~isOpen(b, now)
    /\ ~(Len(record(b, now)) < Threshold) /\ ~(now - record(b, now)[1] > Window)

\* Then it pauses as the level says; otherwise the failure is recorded.
LEMMA FailureCases ==
    ASSUME IInv, Failure
    PROVE  /\ log' = Append(log, now) /\ UNCHANGED now
           /\ BreakerOK(b', now)
           /\ Trips <=> Tripped
           /\ Trips => /\ b'.failures = <<>>
                       /\ \E l \in {0, b.level} :
                             /\ l # b.level => now >= b.openUntil + MaxCooldown
                             /\ l \in 0 .. MaxTime
                             /\ b'.level = l + 1
                             /\ b'.openUntil = now + CooldownAt(l)
                       /\ mark' = Len(log')
                       /\ pause' = b'.openUntil - now
           /\ ~Trips => /\ enabled => b'.failures = record(b, now)
                        /\ b'.level \in {0, b.level}
                        /\ b'.level # b.level => now >= b.openUntil + MaxCooldown
                        /\ b'.openUntil = b.openUntil
                        /\ mark' = mark
                        /\ pause' = IF b'.level = 0 THEN 0 ELSE pause
<1> DEFINE d == decay(b, now)
           c == failure(b, now)
           fs == record(b, now)
<1>1. now \in Times /\ now \in Nat /\ BreakerOK(b, now) /\ b \in BreakerState
  BY BreakerConfig DEF IInv, TypeOK, Times
<1>2. /\ b' = c
      /\ pause' = IF c.openUntil # b.openUntil THEN c.openUntil - now
                  ELSE IF c.level = 0 THEN 0 ELSE pause
      /\ log' = Append(log, now) /\ UNCHANGED now
      /\ mark' = IF c.openUntil # b.openUntil THEN Len(log') ELSE mark
  BY DEF Failure, Becomes
<1>3. BreakerOK(c, now)
  BY <1>1, FailureOK
<1>4. /\ d.level \in {0, b.level}
      /\ d.level # b.level => now >= b.openUntil + MaxCooldown
  BY <1>1, DecayOK
<1>5. b.openUntil \in Nat /\ b.level \in Nat /\ b.level <= b.openUntil
  BY <1>1, BreakerConfig DEF BreakerOK, BreakerState
<1>6. CASE Trips
  <2>1. enabled /\ b.openUntil <= now
    BY <1>1, <1>5, <1>6 DEF Trips, isOpen
  <2>2. /\ c.failures = <<>>
        /\ c.openUntil = now + CooldownAt(d.level)
        /\ c.level = d.level + 1
    BY <1>1, <1>6, <2>1, FailureIs DEF Trips
  <2>3. d.level \in 0 .. MaxTime
    BY <1>1, <1>4, <1>5, <2>1, BreakerConfig DEF Times
  <2> HIDE DEF d, c
  <2>4. CooldownAt(d.level) \in 1 .. MaxCooldown
    BY <2>1, <2>3, CooldownBounds
  <2>5. c.openUntil # b.openUntil
    BY <1>1, <1>5, <2>1, <2>2, <2>4, BreakerConfig
  <2> QED
    BY <1>2, <1>3, <1>4, <1>6, <2>2, <2>3, <2>5 DEF Tripped
<1>7. CASE ~Trips /\ enabled
  <2>1. c.failures = fs /\ c.openUntil = b.openUntil /\ c.level = d.level
    BY <1>1, <1>7, FailureIs DEF Trips
  <2> HIDE DEF d, c, fs
  <2> QED
    BY <1>2, <1>3, <1>4, <1>7, <2>1 DEF Tripped, fs
<1>8. CASE ~enabled
  <2>1. c = b
    BY <1>8 DEF failure
  <2> QED
    BY <1>2, <1>3, <1>8, <2>1 DEF Tripped, Trips
<1> QED
  BY <1>6, <1>7, <1>8 DEF Trips

\* A failure keeps the history.
LEMMA FailureHistory ==
    ASSUME IInv, History, Failure
    PROVE  History'
<1>1. log' = Append(log, now) /\ UNCHANGED now /\ BreakerOK(b', now)
  BY FailureCases
<1>2. Sorted'
  BY <1>1, SortedStep DEF IInv, History
<1>3. log \in Seq(Times) /\ Len(log) \in Nat /\ mark \in 0 .. Len(log) /\ Threshold \in Nat
  BY BreakerConfig DEF IInv, TypeOK
<1>4. b.level \in Nat /\ now \in Nat
  BY BreakerConfig DEF IInv, TypeOK, BreakerState, Times
<1>5. CASE Trips
  <2>1. PICK l \in {0, b.level} : /\ l \in 0 .. MaxTime
                                  /\ b'.level = l + 1
                                  /\ b'.openUntil = now + CooldownAt(l)
    BY <1>5, FailureCases
  <2>2. /\ b'.failures = <<>> /\ mark' = Len(log') /\ pause' = b'.openUntil - now
        /\ Len(log') = Len(log) + 1 /\ enabled
    BY <1>1, <1>3, <1>5, FailureCases DEF Trips
  <2>3. CooldownAt(l) \in Nat
    BY <2>1, <2>2, CooldownBounds, BreakerConfig
  <2>4. pause' = CooldownAt(b'.level - 1) /\ b'.level # 0
    BY <1>4, <2>1, <2>2, <2>3
  <2>5. Recent'
    BY <1>3, <2>2 DEF Recent
  <2> QED
    BY <1>2, <2>4, <2>5 DEF History, PauseFits
<1>6. CASE ~Trips
  <2>1. /\ enabled => b'.failures = record(b, now)
        /\ b'.level \in {0, b.level} /\ b'.openUntil = b.openUntil
        /\ mark' = mark
        /\ pause' = IF b'.level = 0 THEN 0 ELSE pause
    BY <1>6, FailureCases
  <2>2. PauseFits'
    BY <2>1 DEF PauseFits, History
  <2>3. CASE enabled
    <3> DEFINE fs == record(b, now)
    <3>1. /\ Len(log') = Len(log) + 1
          /\ Len(fs) = IF Len(log) + 1 - mark > Threshold THEN Threshold ELSE Len(log) + 1 - mark
          /\ \A i \in 1 .. Len(fs) : fs[i] = log'[Len(log') - Len(fs) + i]
      BY <1>1, <2>3, RecordIsRecent
    <3>2. b'.failures = fs
      BY <2>1, <2>3
    <3>3. Len(log) + 1 - mark = Len(log') - mark'
      BY <1>3, <2>1, <3>1
    <3> HIDE DEF fs
    <3>4. /\ Len(b'.failures) = IF Len(log') - mark' > Threshold THEN Threshold
                                ELSE Len(log') - mark'
          /\ \A i \in 1 .. Len(b'.failures) :
                b'.failures[i] = log'[Len(log') - Len(b'.failures) + i]
      <4>1. Len(b'.failures) = IF Len(log') - mark' > Threshold THEN Threshold
                               ELSE Len(log') - mark'
        BY <3>1, <3>2, <3>3
      <4>2. \A i \in 1 .. Len(b'.failures) :
               b'.failures[i] = log'[Len(log') - Len(b'.failures) + i]
        BY <3>1, <3>2
      <4> QED
        BY <4>1, <4>2
    <3> QED
      BY <1>2, <2>1, <2>2, <2>3, <3>4 DEF History, Recent
  <2>4. CASE ~enabled
    BY <1>2, <2>1, <2>2, <2>4 DEF History, Recent
  <2> QED
    BY <2>3, <2>4
<1> QED
  BY <1>5, <1>6

\* The history is as described, whatever calls are made.
LEMMA HistoryInvariant == Spec => [](IInv /\ History)
<1>1. Init => History
  <2> SUFFICES ASSUME Init PROVE History
    OBVIOUS
  <2> QED
    BY BreakerConfig DEF Init, History, PauseFits, Sorted, Recent, newBreaker, enabled
<1>2. IInv /\ History /\ [Next]_vars => History'
  <2> SUFFICES ASSUME IInv, History, [Next]_vars PROVE History'
    OBVIOUS
  <2>1. CASE Tick
    <3>1. /\ \A i \in 1 .. Len(log) : log[i] \in Nat
          /\ now' = now + 1 /\ now \in Nat /\ UNCHANGED <<b, log, mark, pause>>
      BY <2>1, BreakerConfig DEF Tick, IInv, TypeOK, Times
    <3>2. Sorted'
      BY <3>1 DEF Sorted, History
    <3> QED
      BY <3>1, <3>2 DEF History, PauseFits, Recent
  <2>2. CASE Hint \/ Stats \/ \E exitedAt \in 1 .. now : OkExit(exitedAt)
    BY <2>2, QuietCalls, QuietHistory
  <2>3. CASE Failure
    BY <2>3, FailureHistory
  <2>4. CASE UNCHANGED vars
    BY <2>4 DEF vars, History, PauseFits, Sorted, Recent
  <2> QED
    BY <2>1, <2>2, <2>3, <2>4 DEF Next
<1> QED
  BY <1>1, <1>2, InductiveInvariant, PTL DEF Spec
-----------------------------------------------------------------------------
\* What is older than something outside the window is outside, too.
LEMMA Older ==
    ASSUME NEW t \in Nat, NEW w \in Nat, NEW x \in Nat, NEW y \in Nat, x <= y, t - y > w
    PROVE  t - x > w /\ ~(t - x <= w)
OBVIOUS

\* What is newer than something inside the window is inside, too.
LEMMA Newer ==
    ASSUME NEW t \in Nat, NEW w \in Nat, NEW x \in Nat, NEW y \in Nat, x <= y, ~(t - x > w)
    PROVE  t - y <= w
OBVIOUS

\* With a failure logged at now, the window holds Threshold failures since the
\* last trip exactly if the oldest of the recorded ones is inside it.
LEMMA StormIsSeen ==
    ASSUME IInv, History, enabled, log' = Append(log, now)
    PROVE  LET fs == record(b, now)
           IN  Cardinality(InWindow) >= Threshold <=>
                  ~(Len(fs) < Threshold) /\ ~(now - fs[1] > Window)
<1> DEFINE fs == record(b, now)
           n  == Len(log')
           first == n - Threshold + 1
<1>1. /\ now \in Nat /\ Threshold \in Nat \ {0} /\ Window \in Nat
      /\ Len(log) \in Nat /\ mark \in 0 .. Len(log)
      /\ log \in Seq(Times)
  BY BreakerConfig DEF IInv, TypeOK, Times, enabled
<1>2. /\ n = Len(log) + 1
      /\ \A i \in 1 .. n : log'[i] \in Nat
  <2>1. log' \in Seq(Times) /\ Len(log') = Len(log) + 1
    BY <1>1 DEF IInv, TypeOK
  <2> QED
    BY <2>1, BreakerConfig DEF Times
<1>3. /\ Len(fs) = IF n - mark > Threshold THEN Threshold ELSE n - mark
      /\ \A i \in 1 .. Len(fs) : fs[i] = log'[n - Len(fs) + i]
  <2>1. /\ Len(fs) = IF Len(log) + 1 - mark > Threshold THEN Threshold ELSE Len(log) + 1 - mark
        /\ \A i \in 1 .. Len(fs) : fs[i] = log'[Len(log') - Len(fs) + i]
    BY RecordIsRecent
  <2> HIDE DEF fs, n
  <2>2. n - mark = Len(log) + 1 - mark
    BY <1>1, <1>2
  <2>3. Len(fs) = IF n - mark > Threshold THEN Threshold ELSE n - mark
    BY <2>1, <2>2, Zenon
  <2> QED
    BY <2>1, <2>3, Zenon DEF n
<1>4. \A i, j \in 1 .. n : i <= j => log'[i] <= log'[j]
  <2>1. Sorted /\ \A i \in 1 .. Len(log) : log[i] = log'[i]
    BY <1>1 DEF History
  <2>2. log'[n] = now
    BY <1>1, <1>2
  <2> QED
    BY <1>1, <1>2, <2>1, <2>2 DEF Sorted
<1>5. InWindow = {i \in mark + 1 .. n : now - log'[i] <= Window}
  BY DEF InWindow
<1> HIDE DEF fs, n
<1>6. /\ IsFiniteSet(mark + 1 .. n) /\ Cardinality(mark + 1 .. n) = n - mark
      /\ IsFiniteSet(InWindow) /\ Cardinality(InWindow) \in Nat
  <2>1. IsFiniteSet(mark + 1 .. n) /\ Cardinality(mark + 1 .. n) = n - mark
    BY <1>1, <1>2, FS_Interval
  <2> QED
    BY <1>5, <2>1, FS_Subset, FS_CardinalityType
<1>7. CASE Len(fs) < Threshold
  <2>1. n - mark < Threshold
    BY <1>1, <1>2, <1>3, <1>7
  <2>2. Cardinality(InWindow) <= n - mark
    BY <1>5, <1>6, FS_Subset
  <2>3. ~(Cardinality(InWindow) >= Threshold)
    BY <1>1, <1>2, <1>6, <2>1, <2>2
  <2> QED
    BY <1>7, <2>3 DEF fs
<1>8. CASE ~(Len(fs) < Threshold)
  <2>1. Len(fs) = Threshold /\ first \in mark + 1 .. n /\ first \in 1 .. n
    BY <1>1, <1>2, <1>3, <1>8
  <2>2. fs[1] = log'[first]
    <3>1. 1 \in 1 .. Len(fs) /\ n - Len(fs) + 1 = first
      BY <1>1, <1>2, <2>1
    <3> QED
      BY <1>3, <3>1
  <2>3. CASE ~(now - fs[1] > Window)
    <3>1. ASSUME NEW i \in first .. n PROVE i \in InWindow
      <4>1. i \in mark + 1 .. n /\ i \in 1 .. n /\ first <= i
        BY <1>1, <1>2, <2>1, <3>1
      <4>2. log'[first] <= log'[i] /\ log'[i] \in Nat /\ log'[first] \in Nat
        BY <1>2, <1>4, <2>1, <4>1
      <4>3. ~(now - log'[first] > Window)
        BY <2>2, <2>3
      <4>4. now - log'[i] <= Window
        BY <1>1, <4>2, <4>3, Newer
      <4> QED
        BY <1>5, <4>1, <4>4
    <3>2. first .. n \subseteq InWindow
      BY <3>1
    <3>3. Cardinality(first .. n) = Threshold
      BY <1>1, <1>2, <2>1, FS_Interval
    <3>4. Cardinality(first .. n) <= Cardinality(InWindow)
      BY <1>6, <3>2, FS_Subset
    <3> QED
      BY <1>1, <1>6, <1>8, <2>3, <3>3, <3>4 DEF fs
  <2>4. CASE now - fs[1] > Window
    <3>1. InWindow \subseteq first + 1 .. n
      <4> SUFFICES ASSUME NEW i \in InWindow PROVE i \in first + 1 .. n
        OBVIOUS
      <4>1. i \in mark + 1 .. n /\ i \in 1 .. n /\ now - log'[i] <= Window
        BY <1>1, <1>2, <1>5
      <4>2. ~(i <= first)
        <5> SUFFICES ASSUME i <= first PROVE FALSE
          OBVIOUS
        <5>1. log'[i] <= log'[first] /\ log'[i] \in Nat /\ log'[first] \in Nat
          BY <1>2, <1>4, <2>1, <4>1
        <5>2. now - log'[first] > Window
          BY <2>2, <2>4
        <5> QED
          BY <1>1, <4>1, <5>1, <5>2, Older
      <4> QED
        BY <1>1, <1>2, <2>1, <4>1, <4>2
    <3>2. IsFiniteSet(first + 1 .. n) /\ Cardinality(first + 1 .. n) = Threshold - 1
      <4>1. first + 1 \in Int /\ n \in Int
        BY <1>1, <1>2
      <4>2. /\ IsFiniteSet(first + 1 .. n)
            /\ Cardinality(first + 1 .. n) = IF first + 1 > n THEN 0 ELSE n - (first + 1) + 1
        BY <4>1, FS_Interval
      <4> QED
        BY <1>1, <1>2, <2>1, <4>2
    <3>3. Cardinality(InWindow) <= Threshold - 1
      BY <3>1, <3>2, FS_Subset
    <3> QED
      BY <1>1, <1>6, <2>4, <3>3 DEF fs
  <2> QED
    BY <2>3, <2>4
<1> QED
  BY <1>7, <1>8

\* The truncated list of failure() and the old stamps given to ok() lose no storm
\* and invent none: the breaker trips exactly when the full history has one.
THEOREM StormsTrip == Spec => TripsExactlyOnStorm
<1> DEFINE Storm == /\ Len(log') > Len(log)
                    /\ enabled
                    /\ ~isOpen(b, now)
                    /\ Cardinality(InWindow) >= Threshold
<1>1. ASSUME IInv, History, Next
      PROVE  Tripped <=> Storm
  <2>1. CASE Failure
    <3>1. log' = Append(log, now) /\ (Trips <=> Tripped)
      BY <1>1, <2>1, FailureCases
    <3>2. Len(log') > Len(log)
      BY <1>1, <3>1 DEF IInv, TypeOK
    <3>3. enabled => (Cardinality(InWindow) >= Threshold <=>
                        /\ ~(Len(record(b, now)) < Threshold)
                        /\ ~(now - record(b, now)[1] > Window))
      BY <1>1, <3>1, StormIsSeen
    <3> QED
      BY <3>1, <3>2, <3>3 DEF Trips
  <2>2. CASE Tick
    <3>1. b' = b /\ log' = log /\ Len(log) \in Nat
      BY <1>1, <2>2 DEF Tick, IInv, TypeOK
    <3> QED
      BY <3>1 DEF Tripped
  <2>3. CASE Hint \/ Stats \/ \E exitedAt \in 1 .. now : OkExit(exitedAt)
    <3>1. b'.openUntil = b.openUntil /\ log' = log /\ Len(log) \in Nat
      BY <1>1, <2>3, QuietCalls DEF Quiet, IInv, TypeOK
    <3> QED
      BY <3>1 DEF Tripped
  <2> QED
    BY <1>1, <2>1, <2>2, <2>3 DEF Next
<1>2. IInv /\ History /\ [Next]_vars => [Tripped <=> Storm]_vars
  BY <1>1
<1> QED
  BY HistoryInvariant, <1>2, PTL DEF Spec, TripsExactlyOnStorm

\* Each pause is within its bounds and at least as long as the one before, unless
\* the level was reset in between.
THEOREM PausesEscalate == Spec => PauseEscalates
<1> DEFINE d == b'.openUntil - now
           Escalates == /\ Cooldown <= d
                        /\ d <= MaxCooldown
                        /\ pause <= d \/ now >= b.openUntil + MaxCooldown
<1>1. ASSUME IInv, History, Next, Tripped
      PROVE  Escalates
  <2>1. Failure
    <3>1. b'.openUntil # b.openUntil
      BY <1>1 DEF Tripped
    <3>2. ~Tick
      BY <3>1 DEF Tick
    <3>3. ~(Hint \/ Stats \/ \E exitedAt \in 1 .. now : OkExit(exitedAt))
      BY <1>1, <3>1, QuietCalls DEF Quiet
    <3> QED
      BY <1>1, <3>2, <3>3 DEF Next
  <2>2. PICK l \in {0, b.level} : /\ l # b.level => now >= b.openUntil + MaxCooldown
                                  /\ l \in 0 .. MaxTime
                                  /\ b'.openUntil = now + CooldownAt(l)
    BY <1>1, <2>1, FailureCases
  <2>3. enabled
    BY <1>1, <2>1, FailureCases DEF Trips
  <2>4. CooldownAt(l) \in 1 .. MaxCooldown /\ Cooldown <= CooldownAt(l)
    BY <2>2, <2>3, CooldownBounds
  <2>5. now \in Nat /\ b.level \in Nat
    BY <1>1, BreakerConfig DEF IInv, TypeOK, BreakerState, Times
  <2>6. d = CooldownAt(l)
    BY <2>2, <2>4, <2>5, BreakerConfig
  <2>7. l = b.level => pause <= CooldownAt(l)
    <3> SUFFICES ASSUME l = b.level PROVE pause <= CooldownAt(l)
      OBVIOUS
    <3>1. CASE l = 0
      BY <1>1, <2>4, <3>1, BreakerConfig DEF History, PauseFits
    <3>2. CASE l # 0
      <4>1. l - 1 \in 0 .. MaxTime /\ (l - 1) + 1 = l
        BY <2>2, <3>2, BreakerConfig
      <4>2. pause = CooldownAt(l - 1)
        BY <1>1, <3>2 DEF History, PauseFits
      <4> QED
        BY <4>1, <4>2, CooldownGrows
    <3> QED
      BY <3>1, <3>2
  <2> HIDE DEF d
  <2> QED
    BY <2>2, <2>4, <2>6, <2>7, BreakerConfig
<1>2. IInv /\ History /\ [Next]_vars => [Tripped => Escalates]_vars
  BY <1>1
<1> QED
  BY HistoryInvariant, <1>2, PTL DEF Spec, PauseEscalates

\* The level falls only while the breaker is closed and only in quiet times, by
\* the full history, even when ok() is given an old exit time.
THEOREM LevelFallsInQuiet == Spec => LevelFallsOnlyWhenQuiet
<1> DEFINE Calm == /\ ~isOpen(b, now)
                   /\ \/ now >= b.openUntil + MaxCooldown
                      \/ \A i \in mark + 1 .. Len(log) : now - log[i] > Window
<1>1. ASSUME IInv, History, Next, b'.level < b.level
      PROVE  Calm
  <2>1. /\ now \in Nat /\ b.openUntil \in Nat /\ b.level \in Nat
        /\ log \in Seq(Times) /\ Len(log) \in Nat /\ mark \in 0 .. Len(log)
        /\ b.failures \in Seq(Times) /\ Len(b.failures) \in Nat
    BY <1>1, BreakerConfig DEF IInv, TypeOK, BreakerState, Times
  <2>2. CASE now >= b.openUntil + MaxCooldown
    BY <2>1, <2>2, BreakerConfig DEF isOpen
  <2>3. b'.level # b.level
    BY <1>1, <2>1
  <2>4. CASE Tick
    BY <2>3, <2>4 DEF Tick
  <2>5. CASE Failure
    <3>1. CASE Trips
      <4>1. PICK l \in {0, b.level} : /\ l # b.level => now >= b.openUntil + MaxCooldown
                                      /\ b'.level = l + 1
        BY <1>1, <2>5, <3>1, FailureCases
      <4>2. l # b.level
        BY <1>1, <2>1, <4>1
      <4> QED
        BY <2>2, <4>1, <4>2
    <3>2. CASE ~Trips
      BY <1>1, <2>2, <2>3, <2>5, <3>2, FailureCases
    <3> QED
      BY <3>1, <3>2
  <2>6. CASE Hint \/ Stats \/ \E exitedAt \in 1 .. now : OkExit(exitedAt)
    <3>1. CASE /\ ~isOpen(b, now)
               /\ \A i \in DOMAIN b.failures : now - b.failures[i] > Window
      <4> DEFINE m == Len(b.failures)
      <4>1. enabled
        <5> SUFFICES ASSUME ~enabled PROVE FALSE
          OBVIOUS
        <5>1. b.level = 0
          BY <1>1 DEF History, Recent
        <5>2. b'.level \in {0, b.level}
          BY <1>1, <2>6, QuietCalls DEF Quiet
        <5> QED
          BY <2>3, <5>1, <5>2
      <4>2. /\ m = IF Len(log) - mark > Threshold THEN Threshold ELSE Len(log) - mark
            /\ \A i \in 1 .. m : b.failures[i] = log[Len(log) - m + i]
        BY <1>1, <4>1 DEF History, Recent
      <4>3. \A i \in 1 .. m : now - log[Len(log) - m + i] > Window
        <5>1. DOMAIN b.failures = 1 .. m
          BY <2>1
        <5> QED
          BY <3>1, <4>2, <5>1
      <4>4. Threshold \in Nat \ {0} /\ Window \in Nat
        BY <4>1, BreakerConfig DEF enabled
      <4> HIDE DEF m
      <4>5. ASSUME NEW i \in mark + 1 .. Len(log)
            PROVE  now - log[i] > Window
        <5>1. m \in 1 .. Len(log) /\ i \in 1 .. Len(log)
          BY <2>1, <4>2, <4>4, <4>5
        <5>2. CASE i > Len(log) - m
          <6>1. i - (Len(log) - m) \in 1 .. m /\ Len(log) - m + (i - (Len(log) - m)) = i
            BY <2>1, <5>1, <5>2
          <6> QED
            BY <4>3, <6>1
        <5>3. CASE i <= Len(log) - m
          <6> DEFINE j == Len(log) - m + 1
          <6>1. j \in 1 .. Len(log) /\ i <= j
            BY <2>1, <5>1, <5>3
          <6>2. now - log[j] > Window
            BY <4>3, <5>1
          <6> HIDE DEF j
          <6>3. log[i] <= log[j] /\ log[i] \in Nat /\ log[j] \in Nat
            <7>1. log[i] \in Times /\ log[j] \in Times
              BY <2>1, <5>1, <6>1
            <7> QED
              BY <1>1, <5>1, <6>1, <7>1, BreakerConfig DEF History, Sorted, Times
          <6> QED
            BY <2>1, <4>4, <6>2, <6>3
        <5> QED
          BY <2>1, <5>1, <5>2, <5>3
      <4> QED
        BY <3>1, <4>5
    <3> QED
      BY <1>1, <2>2, <2>3, <2>6, <3>1, QuietCalls
  <2> QED
    BY <1>1, <2>4, <2>5, <2>6 DEF Next
<1>2. IInv /\ History /\ [Next]_vars => [b'.level < b.level => Calm]_vars
  BY <1>1
<1> QED
  BY HistoryInvariant, <1>2, PTL DEF Spec, LevelFallsOnlyWhenQuiet
=============================================================================
