--------------------------- MODULE BreakerLemmas ---------------------------
(***************************************************************************)
(* What the operators of Breaker preserve, for every configuration.        *)
(***************************************************************************)
EXTENDS Breaker, NatLemmas, SequenceTheorems, TLAPS

\* A breaker as the pool may find it at time now: it never pauses beyond
\* now + MaxCooldown, and its level has not outrun the clock.
BreakerOK(b, now) ==
    /\ b \in BreakerState
    /\ b.openUntil <= now + MaxCooldown
    /\ b.level <= b.openUntil

\* The breaker of New is fit for use at any time.
LEMMA NewBreakerOK ==
    ASSUME NEW now \in Times
    PROVE  BreakerOK(newBreaker, now)
BY BreakerConfig DEF BreakerOK, BreakerState, newBreaker, Times, Never

\* As time passes the breaker stays fit for use.
LEMMA LaterOK ==
    ASSUME NEW b, NEW now \in Times, now + 1 \in Times, BreakerOK(b, now)
    PROVE  BreakerOK(b, now + 1)
BY BreakerConfig DEF BreakerOK, BreakerState, Times

\* Resetting the level touches nothing else.
LEMMA ResetOK ==
    ASSUME NEW b, NEW now \in Times, BreakerOK(b, now)
    PROVE  /\ BreakerOK([b EXCEPT !.level = 0], now)
           /\ [b EXCEPT !.level = 0].openUntil = b.openUntil
           /\ [b EXCEPT !.level = 0].failures = b.failures
           /\ [b EXCEPT !.level = 0].level = 0
<1> DEFINE c == [b EXCEPT !.level = 0]
<1>1. b \in BreakerState
  BY DEF BreakerOK
<1>2. 0 \in 0 .. MaxTime + MaxCooldown
  BY BreakerConfig
<1>3. c \in BreakerState
  BY <1>1, <1>2 DEF BreakerState
<1>4. c.openUntil = b.openUntil /\ c.failures = b.failures /\ c.level = 0
  BY <1>1 DEF BreakerState
<1>5. b.openUntil \in Nat
  BY <1>1, BreakerConfig DEF BreakerState
<1> HIDE DEF c
<1>6. BreakerOK(c, now)
  BY <1>3, <1>4, <1>5 DEF BreakerOK
<1> QED
  BY <1>4, <1>6 DEF c

\* decay only ever lowers the level; a call with an old time is harmless.
LEMMA DecayOK ==
    ASSUME NEW b, NEW now \in Times, NEW at \in Times, BreakerOK(b, now)
    PROVE  /\ BreakerOK(decay(b, at), now)
           /\ decay(b, at).openUntil = b.openUntil
           /\ decay(b, at).failures = b.failures
           /\ decay(b, at).level \in {0, b.level}
           /\ decay(b, at).level # b.level => at >= b.openUntil + MaxCooldown
BY ResetOK DEF decay

\* ok never moves the end of a pause and forgets no failure; it resets the level
\* only when the breaker has been closed for MaxCooldown, or is closed and every
\* recorded failure is outside the window.
LEMMA OkOK ==
    ASSUME NEW b, NEW now \in Times, NEW at \in Times, BreakerOK(b, now)
    PROVE  /\ BreakerOK(ok(b, at), now)
           /\ ok(b, at).openUntil = b.openUntil
           /\ ok(b, at).failures = b.failures
           /\ ok(b, at).level \in {0, b.level}
           /\ ok(b, at).level # b.level =>
                 \/ at >= b.openUntil + MaxCooldown
                 \/ /\ ~isOpen(b, at)
                    /\ \A i \in DOMAIN b.failures : ~(at - b.failures[i] <= Window)
<1> DEFINE d == decay(b, at)
           e == [d EXCEPT !.level = 0]
<1>1. /\ BreakerOK(d, now) /\ d.openUntil = b.openUntil /\ d.failures = b.failures
      /\ d.level \in {0, b.level}
      /\ d.level # b.level => at >= b.openUntil + MaxCooldown
  BY DecayOK
<1> HIDE DEF d
<1>2. /\ BreakerOK(e, now)
      /\ e.openUntil = b.openUntil /\ e.failures = b.failures /\ e.level = 0
  BY <1>1, ResetOK
<1> HIDE DEF e
<1>3. \/ ok(b, at) = d
      \/ /\ ok(b, at) = e
         /\ ~isOpen(d, at) /\ \A i \in DOMAIN d.failures : ~(at - d.failures[i] <= Window)
  BY DEF ok, d, e
<1>4. CASE ok(b, at) = d
  BY <1>1, <1>4
<1>5. CASE /\ ok(b, at) = e
           /\ ~isOpen(d, at) /\ \A i \in DOMAIN d.failures : ~(at - d.failures[i] <= Window)
  BY <1>1, <1>2, <1>5 DEF isOpen
<1> QED
  BY <1>3, <1>4, <1>5

\* Powers of the multiplier are quotients of positive integers and at least 1.
LEMMA MultiplierPowers ==
    \A l \in 0 .. MaxTime + 1 :
        /\ MultNum ^ l \in Nat
        /\ MultDen ^ l \in Nat \ {0}
        /\ MultNum ^ l >= MultDen ^ l
<1> DEFINE n == MaxTime + 1
           f == [l \in 0 .. n |-> MultNum ^ l]
           g == [l \in 0 .. n |-> MultDen ^ l]
<1>1. \A l \in 0 .. n : f[l] = MultNum ^ l /\ g[l] = MultDen ^ l
  OBVIOUS
<1> HIDE DEF f, g
<1>2. n \in Nat /\ 0 \in 0 .. n
  BY BreakerConfig
<1>3. f[0] = 1 /\ g[0] = 1
  BY <1>1, <1>2, PowersOfMultiplier
<1>4. \A l \in 0 .. n - 1 : f[l + 1] = MultNum * f[l] /\ g[l + 1] = MultDen * g[l]
  <2> SUFFICES ASSUME NEW l \in 0 .. n - 1
               PROVE  f[l + 1] = MultNum * f[l] /\ g[l + 1] = MultDen * g[l]
    OBVIOUS
  <2>1. l \in 0 .. n /\ l + 1 \in 0 .. n /\ l \in 0 .. MaxTime
    BY <1>2, BreakerConfig
  <2>2. /\ f[l] = MultNum ^ l /\ f[l + 1] = MultNum ^ (l + 1)
        /\ g[l] = MultDen ^ l /\ g[l + 1] = MultDen ^ (l + 1)
    BY <1>1, <2>1
  <2>3. /\ MultNum ^ (l + 1) = MultNum * MultNum ^ l
        /\ MultDen ^ (l + 1) = MultDen * MultDen ^ l
    BY <2>1, PowersOfMultiplier
  <2> QED
    BY <2>2, <2>3
<1> HIDE DEF n
<1>5. \A l \in 0 .. n : f[l] \in Nat /\ g[l] \in Nat \ {0} /\ f[l] >= g[l]
  <2>1. MultNum \in Nat /\ MultDen \in Nat \ {0} /\ MultNum >= MultDen
    BY BreakerConfig
  <2>2. /\ \A l \in 0 .. n - 1 : f[l + 1] = MultNum * f[l]
        /\ \A l \in 0 .. n - 1 : g[l + 1] = MultDen * g[l]
    BY <1>4
  <2> QED
    BY <1>2, <1>3, <2>1, <2>2, Powers
<1> QED
  BY <1>1, <1>5 DEF n

\* The pause of a trip at level l.
CooldownAt(l) == nextCooldown([level |-> l])

\* The pause depends on the level alone.
LEMMA NextCooldownIs ==
    ASSUME NEW b
    PROVE  nextCooldown(b) = CooldownAt(b.level)
<1>1. [level |-> b.level].level = b.level
  OBVIOUS
<1> QED
  BY <1>1, Zenon DEF CooldownAt, nextCooldown

\* The pause of the next trip lies between Cooldown and MaxCooldown.
LEMMA NextCooldownBounds ==
    ASSUME NEW b, b.level \in 0 .. MaxTime, enabled
    PROVE  nextCooldown(b) \in 1 .. MaxCooldown /\ Cooldown <= nextCooldown(b)
<1> DEFINE p == MultNum ^ b.level
           q == MultDen ^ b.level
<1>1. p \in Nat /\ q \in Nat \ {0} /\ p >= q
  BY MultiplierPowers, BreakerConfig
<1>2. Cooldown \in Nat \ {0} /\ MaxCooldown \in Nat \ {0}
  BY BreakerConfig DEF enabled
<1> HIDE DEF p, q
<1>3. Cooldown * p \in Nat /\ Cooldown * p >= q
  BY <1>1, <1>2
<1>4. (Cooldown * p) \div q \in Nat \ {0}
  BY <1>1, <1>3, QuotientPositive
<1>5. nextCooldown(b) =
        IF (Cooldown * p) \div q > MaxCooldown THEN MaxCooldown ELSE (Cooldown * p) \div q
  BY DEF nextCooldown, p, q
<1>6. Cooldown <= (Cooldown * p) \div q
  <2>1. Cooldown \div 1 <= (p * Cooldown) \div (q * 1)
    BY <1>1, <1>2, QuotientGrows
  <2>2. Cooldown \div 1 = Cooldown /\ p * Cooldown = Cooldown * p /\ q * 1 = q
    BY <1>1, <1>2
  <2> QED
    BY <2>1, <2>2
<1> QED
  BY <1>2, <1>4, <1>5, <1>6, BreakerConfig

\* The same, by level.
LEMMA CooldownBounds ==
    ASSUME NEW l \in 0 .. MaxTime, enabled
    PROVE  CooldownAt(l) \in 1 .. MaxCooldown /\ Cooldown <= CooldownAt(l)
<1>1. [level |-> l].level = l
  OBVIOUS
<1> QED
  BY <1>1, NextCooldownBounds DEF CooldownAt

\* A higher level never means a shorter pause.
LEMMA CooldownGrows ==
    ASSUME NEW l \in 0 .. MaxTime
    PROVE  CooldownAt(l) <= CooldownAt(l + 1)
<1> DEFINE p == MultNum ^ l
           q == MultDen ^ l
           p1 == MultNum ^ (l + 1)
           q1 == MultDen ^ (l + 1)
           d == (Cooldown * p) \div q
           d1 == (Cooldown * p1) \div q1
<1>1. p \in Nat /\ q \in Nat \ {0}
  BY MultiplierPowers, BreakerConfig
<1>2. p1 = MultNum * p /\ q1 = MultDen * q
  BY PowersOfMultiplier
<1>3. /\ CooldownAt(l) = IF d > MaxCooldown THEN MaxCooldown ELSE d
      /\ CooldownAt(l + 1) = IF d1 > MaxCooldown THEN MaxCooldown ELSE d1
  BY DEF CooldownAt, nextCooldown
<1> HIDE DEF p, q, p1, q1
<1>4. Cooldown * p \in Nat /\ Cooldown * p1 = MultNum * (Cooldown * p)
  BY <1>1, <1>2, BreakerConfig
<1>5. d <= d1 /\ d \in Nat
  BY <1>1, <1>2, <1>4, BreakerConfig, QuotientGrows
<1>6. d1 \in Int
  <2>1. q1 \in Nat \ {0} /\ Cooldown * p1 \in Nat
    BY <1>1, <1>2, <1>4, BreakerConfig
  <2> QED
    BY <2>1
<1> HIDE DEF d, d1
<1> QED
  BY <1>3, <1>5, <1>6, BreakerConfig

\* The recorded failures stay a list of times.
LEMMA RecordType ==
    ASSUME NEW b \in BreakerState, NEW now \in Times, Threshold > 0
    PROVE  record(b, now) \in Seq(Times)
<1> DEFINE all == Append(b.failures, now)
<1>1. all \in Seq(Times)
  BY DEF BreakerState
<1>2. ASSUME Len(all) > Threshold
      PROVE  SubSeq(all, Len(all) - Threshold + 1, Len(all)) \in Seq(Times)
  BY <1>1, <1>2, BreakerConfig
<1> QED
  BY <1>1, <1>2 DEF record

\* record keeps the last Threshold of the failures and the new one.
LEMMA RecordIs ==
    ASSUME NEW b \in BreakerState, NEW now \in Times, Threshold > 0
    PROVE  LET fs == record(b, now)
               n  == Len(b.failures) + 1
           IN  /\ Len(fs) = IF n > Threshold THEN Threshold ELSE n
               /\ \A i \in 1 .. Len(fs) : fs[i] = Append(b.failures, now)[n - Len(fs) + i]
<1> DEFINE all == Append(b.failures, now)
           n == Len(b.failures) + 1
           m == n - Threshold + 1
<1>1. b.failures \in Seq(Times) /\ Len(b.failures) \in Nat
  BY DEF BreakerState
<1>2. all \in Seq(Times) /\ Len(all) = n /\ n \in Nat
  BY <1>1
<1>3. Threshold \in Nat \ {0}
  BY BreakerConfig
<1>4. CASE n > Threshold
  <2>1. m \in Int /\ \A i \in m .. n : all[i] \in Times
    BY <1>2, <1>3, <1>4
  <2>2. record(b, now) = SubSeq(all, m, n)
    BY <1>2, <1>4 DEF record
  <2> HIDE DEF all
  <2>3. /\ Len(SubSeq(all, m, n)) = IF m <= n THEN n - m + 1 ELSE 0
        /\ \A i \in 1 .. n - m + 1 : SubSeq(all, m, n)[i] = all[m + i - 1]
    BY <1>2, <2>1, SubSeqProperties
  <2>4. m <= n /\ n - m + 1 = Threshold
    BY <1>2, <1>3, <1>4
  <2>5. Len(record(b, now)) = Threshold
    BY <2>2, <2>3, <2>4
  <2>6. ASSUME NEW i \in 1 .. Threshold
        PROVE  record(b, now)[i] = all[n - Threshold + i]
    <3>1. m + i - 1 = n - Threshold + i
      BY <1>2, <1>3
    <3> QED
      BY <2>2, <2>3, <2>4, <3>1
  <2> QED
    BY <1>4, <2>5, <2>6 DEF all
<1>5. CASE ~(n > Threshold)
  <2>1. record(b, now) = all
    BY <1>2, <1>5 DEF record
  <2>2. \A i \in 1 .. n : n - n + i = i
    BY <1>2
  <2> QED
    BY <1>2, <1>5, <2>1, <2>2
<1> QED
  BY <1>4, <1>5

\* What a failure does: it is recorded, or it trips.
LEMMA FailureIs ==
    ASSUME NEW b, NEW now \in Times, BreakerOK(b, now), enabled
    PROVE  LET fs == record(b, now)
               d  == decay(b, now)
               f  == failure(b, now)
           IN  IF isOpen(b, now) \/ Len(fs) < Threshold \/ now - fs[1] > Window
               THEN f.failures = fs /\ f.openUntil = b.openUntil /\ f.level = d.level
               ELSE /\ f.failures = <<>>
                    /\ f.openUntil = now + CooldownAt(d.level)
                    /\ f.level = d.level + 1
<1> DEFINE d == decay(b, now)
           fs == record(b, now)
           f == failure(b, now)
<1>1. d.openUntil = b.openUntil /\ d.failures = b.failures /\ d \in BreakerState
  BY DecayOK DEF BreakerOK
<1> HIDE DEF d
<1>2. record(d, now) = fs
  BY <1>1 DEF record
<1>3. stays(d, now) <=> isOpen(b, now) \/ Len(fs) < Threshold \/ now - fs[1] > Window
  BY <1>1, <1>2 DEF stays, isOpen
<1>4. CASE stays(d, now)
  <2>1. f = [d EXCEPT !.failures = fs]
    BY <1>2, <1>4 DEF failure, d
  <2>2. f.failures = fs /\ f.openUntil = b.openUntil /\ f.level = d.level
    BY <1>1, <2>1 DEF BreakerState
  <2> QED
    BY <1>3, <1>4, <2>2 DEF d
<1>5. CASE ~stays(d, now)
  <2>1. f = [failures |-> <<>>, openUntil |-> now + nextCooldown(d), level |-> d.level + 1]
    BY <1>5 DEF failure, d
  <2>2. /\ f.failures = <<>> /\ f.openUntil = now + CooldownAt(d.level)
        /\ f.level = d.level + 1
    BY <2>1, NextCooldownIs
  <2> QED
    BY <1>3, <1>5, <2>2 DEF d
<1> QED
  BY <1>4, <1>5

\* A failure that trips starts a pause after the one that is over; one that
\* does not trip leaves the pause alone.
LEMMA FailureOK ==
    ASSUME NEW b, NEW now \in Times, BreakerOK(b, now)
    PROVE  /\ BreakerOK(failure(b, now), now)
           /\ \/ failure(b, now).openUntil = b.openUntil
              \/ ~isOpen(b, now) /\ failure(b, now).openUntil > now
<1> DEFINE d == decay(b, now)
<1>1. BreakerOK(d, now) /\ d.openUntil = b.openUntil
  BY DecayOK
<1> HIDE DEF d
<1>2. CASE ~enabled
  BY <1>2 DEF failure
<1>3. CASE enabled /\ stays(d, now)
  <2>1. record(d, now) \in Seq(Times)
    BY <1>1, <1>3, RecordType DEF BreakerOK, enabled
  <2>2. failure(b, now) = [d EXCEPT !.failures = record(d, now)]
    BY <1>3 DEF failure, d
  <2> QED
    BY <1>1, <2>1, <2>2 DEF BreakerOK, BreakerState
<1>4. CASE enabled /\ ~stays(d, now)
  <2> DEFINE c == nextCooldown(d)
  <2>1. d.openUntil <= now
    BY <1>1, <1>4, BreakerConfig DEF stays, isOpen, BreakerOK, BreakerState, Times
  <2>2. d.level \in 0 .. MaxTime
    BY <1>1, <2>1, BreakerConfig DEF BreakerOK, BreakerState, Times
  <2>3. c \in 1 .. MaxCooldown
    BY <1>4, <2>2, NextCooldownBounds
  <2> HIDE DEF c
  <2>4. failure(b, now) = [failures |-> <<>>, openUntil |-> now + c, level |-> d.level + 1]
    BY <1>4 DEF failure, d, c
  <2>5. ~isOpen(b, now)
    BY <1>1, <2>1, BreakerConfig DEF isOpen, BreakerOK, BreakerState, Times
  <2> QED
    BY <1>1, <2>1, <2>2, <2>3, <2>4, <2>5, BreakerConfig DEF BreakerOK, BreakerState, Times
<1> QED
  BY <1>2, <1>3, <1>4
=============================================================================
