---------------------------- MODULE ConfigProofs ----------------------------
(***************************************************************************)
(* What a daemon that starts can rely on, for every document: however many *)
(* pools it has and whatever its layers set.                               *)
(*                                                                         *)
(* The argument is that a document survives validation unchanged (Valid)   *)
(* and that the daemon is built from it alone (Built).                     *)
(***************************************************************************)
EXTENDS Config, TLAPS

Valid ==
    phase \in {"valid", "printed", "built"} =>
        /\ Load(doc) /\ validate(doc)
        /\ \E t : doc.top = applyDefaults(t)

Built ==
    phase = "built" =>
        /\ pools = newPools(ResolvedPools(doc))
        /\ routes = NewDispatcher(ResolvedPools(doc))
        /\ known = {ResolvedPools(doc)[i].channel : i \in enabledPools(ResolvedPools(doc))}
        /\ sources = newSources(doc.top)
        /\ mounts = Mounts(doc.top)

Printed == phase = "printed" => printed = Resolved(doc)

IInv == Valid /\ Built /\ Printed
-----------------------------------------------------------------------------
\* Finalize changes the top-level keys only, so that what Load has checked holds.
LEMMA FinalizedIsLoaded ==
    ASSUME NEW d, Load(d)
    PROVE  Load(Finalized(d)) /\ Finalized(d).top = applyDefaults(d.top)
BY DEF Load, splitDefaults, Finalized

\* IInv is inductive.
LEMMA InductiveInvariant == Spec => []IInv
<1>1. Init => IInv
  BY DEF Init, IInv, Valid, Built, Printed
<1>2. ASSUME IInv, [Next]_vars
      PROVE  IInv'
  <2> USE <1>2 DEF IInv
  <2>1. ASSUME NEW code, End(code)
        PROVE  IInv'
    BY <2>1 DEF End, Valid, Built, Printed
  <2>2. CASE loadConfig /\ Accepted(doc)
    <3>1. phase' = "valid" /\ doc' = Finalized(doc)
      BY <2>2 DEF loadConfig
    <3>2. Load(doc') /\ validate(doc') /\ doc'.top = applyDefaults(doc.top)
      BY <2>2, <3>1, FinalizedIsLoaded DEF Accepted
    <3>3. Valid'
      BY <3>2 DEF Valid
    <3> QED
      BY <3>1, <3>3 DEF Built, Printed
  <2>3. CASE printResolved
    BY <2>3 DEF printResolved, Valid, Built, Printed
  <2>4. CASE newApp
    BY <2>4 DEF newApp, Valid, Built, Printed
  <2>5. CASE UNCHANGED vars
    BY <2>5 DEF vars, built, Valid, Built, Printed
  <2> QED
    BY <2>1, <2>2, <2>3, <2>4, <2>5 DEF Next, usageError, Version, loadConfig
<1> QED
  BY <1>1, <1>2, PTL DEF Spec

\* The pools of a validated document.
LEMMA PoolsAreValid ==
    ASSUME NEW d, validate(d), NEW n \in DOMAIN newPools(ResolvedPools(d))
    PROVE  \E i \in DOMAIN ResolvedPools(d) :
              /\ validatePool(ResolvedPools(d)[i])
              /\ newPools(ResolvedPools(d))[n] = ResolvedPools(d)[i].settings
<1> DEFINE ps == ResolvedPools(d)
<1>1. \A i \in DOMAIN ps : validatePool(ps[i])
  BY DEF validate, validatePools
<1> HIDE DEF ps
<1>2. \E i \in DOMAIN ps : ps[i].name = n
  BY DEF newPools, enabledPools, ps
<1>3. newPools(ps)[n] = ps[CHOOSE i \in DOMAIN ps : ps[i].name = n].settings
  BY DEF newPools, ps
<1> QED
  BY <1>1, <1>2, <1>3 DEF ps

\* A daemon that starts has a source, a pool, and in every pool and in the redis
\* source the parameters that the other modules assume.
THEOREM StartedIsSound == Spec => []AcceptedIsSound
<1>1. IInv => AcceptedIsSound
  <2> SUFFICES ASSUME IInv, phase = "built"
               PROVE  /\ sources # {}
                      /\ DOMAIN pools # {}
                      /\ doc.top.shutdownTimeout > 0
                      /\ "redis" \in sources =>
                            0 < doc.top.reconnectMin /\ doc.top.reconnectMin <= doc.top.reconnectMax
                      /\ \A n \in DOMAIN pools :
                            /\ pools[n].concurrency >= 1
                            /\ 0 <= pools[n].pokeCount /\ pools[n].pokeCount <= pools[n].concurrency
                            /\ pools[n].threshold >= 0 /\ pools[n].window > 0
                            /\ 0 <= pools[n].cooldown /\ pools[n].cooldown <= pools[n].cooldownMax
                            /\ pools[n].multiplier # NaN => pools[n].multiplier >= 2
                            /\ pools[n].ttl >= 0 /\ pools[n].poke >= 0 /\ pools[n].grace >= 0
    BY DEF AcceptedIsSound
  <2>1. validate(doc) /\ pools = newPools(ResolvedPools(doc)) /\ sources = newSources(doc.top)
    BY DEF IInv, Valid, Built
  <2>2. sources # {}
    <3>1. doc.top.http \/ doc.top.redis
      BY <2>1 DEF validate, validateSources
    <3> QED
      BY <2>1, <3>1 DEF newSources
  <2>3. DOMAIN pools # {}
    <3>1. \E i \in DOMAIN ResolvedPools(doc) : ResolvedPools(doc)[i].settings.enabled
      BY <2>1 DEF validate, validatePools
    <3> HIDE DEF ResolvedPools
    <3> QED
      BY <2>1, <3>1 DEF newPools, enabledPools
  <2>4. doc.top.shutdownTimeout > 0
    BY <2>1 DEF validate
  <2>5. "redis" \in sources =>
           0 < doc.top.reconnectMin /\ doc.top.reconnectMin <= doc.top.reconnectMax
    <3>1. "redis" \in sources => doc.top.redis
      BY <2>1 DEF newSources
    <3> QED
      BY <2>1, <3>1 DEF validate, validateSources, validateRedis, validateRedisBackoff
  <2>6. ASSUME NEW n \in DOMAIN pools
        PROVE  /\ pools[n].concurrency >= 1
               /\ 0 <= pools[n].pokeCount /\ pools[n].pokeCount <= pools[n].concurrency
               /\ pools[n].threshold >= 0 /\ pools[n].window > 0
               /\ 0 <= pools[n].cooldown /\ pools[n].cooldown <= pools[n].cooldownMax
               /\ pools[n].multiplier # NaN => pools[n].multiplier >= 2
               /\ pools[n].ttl >= 0 /\ pools[n].poke >= 0 /\ pools[n].grace >= 0
    <3>1. PICK i \in DOMAIN ResolvedPools(doc) :
             /\ validatePool(ResolvedPools(doc)[i])
             /\ pools[n] = ResolvedPools(doc)[i].settings
      BY <2>1, <2>6, PoolsAreValid
    <3> QED
      BY <3>1 DEF validatePool, validateSpawn, validateBreaker, validateCooldown, validateProcess
  <2> QED
    BY <2>2, <2>3, <2>4, <2>5, <2>6
<1> QED
  BY InductiveInvariant, <1>1, PTL

\* With distinct channels the route of a channel is its only pool.
LEMMA RouteOfPool ==
    ASSUME NEW ps, DOMAIN ps \subseteq Int, validatePools(ps), NEW i \in DOMAIN ps
    PROVE  /\ ps[i].channel \in DOMAIN NewDispatcher(ps)
           /\ NewDispatcher(ps)[ps[i].channel] =
                 IF ps[i].settings.enabled THEN ps[i].name ELSE NoPool
<1> DEFINE c == ps[i].channel
           last == CHOOSE k \in DOMAIN ps :
                      /\ ps[k].channel = c
                      /\ \A j \in DOMAIN ps : ps[j].channel = c => j <= k
<1>1. \A j \in DOMAIN ps : ps[j].channel = c => j = i
  BY DEF validatePools
<1>2. \E k \in DOMAIN ps : ps[k].channel = c /\ \A j \in DOMAIN ps : ps[j].channel = c => j <= k
  BY <1>1
<1>3. last \in DOMAIN ps /\ ps[last].channel = c
  BY <1>2
<1>4. last = i
  BY <1>1, <1>3
<1>5. c \in DOMAIN NewDispatcher(ps)
  BY DEF NewDispatcher
<1>6. NewDispatcher(ps)[c] = IF ps[last].settings.enabled THEN ps[last].name ELSE NoPool
  BY DEF NewDispatcher
<1> QED
  BY <1>4, <1>5, <1>6

\* Every pool of a daemon that starts can be hinted, and every channel that its
\* HTTP server accepts leads to a pool.
THEOREM HintsAreRouted == Spec => []AcceptedHintsAreRouted
<1>1. IInv => AcceptedHintsAreRouted
  <2> DEFINE ps == ResolvedPools(doc)
  <2> SUFFICES ASSUME IInv, phase = "built"
               PROVE  /\ \A c \in known : c \in DOMAIN routes /\ routes[c] \in DOMAIN pools
                      /\ \A n \in DOMAIN pools : \E c \in known : routes[c] = n
    BY DEF AcceptedHintsAreRouted
  <2>1. /\ validatePools(ps) /\ pools = newPools(ps) /\ routes = NewDispatcher(ps)
        /\ known = {ps[i].channel : i \in enabledPools(ps)}
    BY DEF IInv, Valid, Built, validate
  <2>2. DOMAIN ps \subseteq Int
    BY ConfigBound DEF ResolvedPools
  <2> HIDE DEF ps
  <2>3. DOMAIN pools = {ps[i].name : i \in enabledPools(ps)}
    BY <2>1 DEF newPools
  <2>4. ASSUME NEW i \in enabledPools(ps)
        PROVE  /\ ps[i].channel \in DOMAIN routes /\ routes[ps[i].channel] = ps[i].name
               /\ ps[i].name \in DOMAIN pools /\ ps[i].channel \in known
    <3>1. i \in DOMAIN ps /\ ps[i].settings.enabled
      BY DEF enabledPools
    <3> QED
      BY <2>1, <2>2, <2>3, <3>1, RouteOfPool
  <2> QED
    BY <2>1, <2>3, <2>4
<1> QED
  BY InductiveInvariant, <1>1, PTL

\* The hint listener of a daemon that starts can mount all of its endpoints, if
\* their paths are clean and have no wildcard.
THEOREM HintListenerStarts == Spec => []HintListenerMounts
<1>1. IInv => HintListenerMounts
  <2> DEFINE t == doc.top
  <2> SUFFICES ASSUME IInv, phase = "built", PlainPaths(t)
               PROVE  CanMount(mounts.http)
    BY DEF HintListenerMounts
  <2>1. mounts.http = (IF t.http THEN Handler(t) ELSE <<>>)
    BY DEF IInv, Built, Mounts
  <2>2. t.http => validateHTTPPaths(t)
    BY DEF IInv, Valid, validate, validateSources, validateHTTP
  <2> HIDE DEF t
  <2>3. CASE ~t.http
    BY <2>1, <2>3 DEF CanMount
  <2>4. CASE t.http
    <3>1. /\ {t.hintPath, t.healthPath, t.metricsPath} \cap (Unrooted \cup Odd) = {}
          /\ t.healthPath # t.metricsPath
      <4>1. HTTPPaths(t)[1] = t.hintPath /\ HTTPPaths(t)[2] = t.healthPath
            /\ HTTPPaths(t)[3] = t.metricsPath /\ DOMAIN HTTPPaths(t) = 1 .. 3
        BY DEF HTTPPaths
      <4> QED
        BY <2>2, <2>4, <4>1 DEF validateHTTPPaths, PlainPaths
    <3>2. /\ {t.hintPath, t.healthPath, t.metricsPath} \cap Unmountable = {}
          /\ <<t.healthPath, t.metricsPath>> \notin Overlaps
          /\ <<t.metricsPath, t.healthPath>> \notin Overlaps
      BY <3>1, MuxBound
    <3>3. CASE t.metrics /\ ~StandaloneMetrics(t)
      <4>1. mounts.http = <<<<"POST", t.hintPath>>, <<"GET", t.healthPath>>, <<"GET", t.metricsPath>>>>
        BY <2>1, <2>4, <3>3 DEF Handler
      <4>2. DOMAIN mounts.http = {1, 2, 3}
        BY <4>1
      <4>3. /\ mounts.http[1] = <<"POST", t.hintPath>>
            /\ mounts.http[2] = <<"GET", t.healthPath>>
            /\ mounts.http[3] = <<"GET", t.metricsPath>>
        BY <4>1
      <4> QED
        BY <3>1, <3>2, <4>2, <4>3 DEF CanMount
    <3>4. CASE ~(t.metrics /\ ~StandaloneMetrics(t))
      <4>1. mounts.http = <<<<"POST", t.hintPath>>, <<"GET", t.healthPath>>>>
        BY <2>1, <2>4, <3>4 DEF Handler
      <4> QED
        BY <3>2, <4>1 DEF CanMount
    <3> QED
      BY <3>3, <3>4
  <2> QED
    BY <2>3, <2>4
<1> QED
  BY InductiveInvariant, <1>1, PTL
-----------------------------------------------------------------------------
\* Defaults are applied once.
LEMMA DefaultsIdempotent ==
    ASSUME NEW t
    PROVE  applyDefaults(applyDefaults(t)) = applyDefaults(t)
BY DEF applyDefaults

\* A pool with every key set resolves to itself.
LEMMA ResolvedResolves ==
    ASSUME NEW d, NEW n \in DOMAIN d.pools, n # Unset
    PROVE  Pool(Finalized(Resolved(d)), n) = Pool(d, n)
<1> DEFINE p == Pool(d, n)
           e == Finalized(Resolved(d))
<1>1. e.pools[n] = toResolvedPool(p) /\ e.defaults = NoDefaults
  BY DEF Resolved, Finalized
<1>2. p.channel # Unset /\ p.name = n
  BY DEF Pool
<1>3. \A k \in Keys : NoDefaults.settings[k] = Unset
  BY DEF NoDefaults
<1>4. p.settings = [k \in Keys |-> pick(builtinPool[k], d.defaults.settings[k], d.pools[n].settings[k])]
  BY DEF Pool
<1>5. \A k \in Keys : pick(builtinPool[k], Unset, p.settings[k]) = p.settings[k]
  BY <1>4, Zenon DEF pick
<1>6. [k \in Keys |-> pick(builtinPool[k], NoDefaults.settings[k], p.settings[k])] = p.settings
  BY <1>3, <1>4, <1>5
<1>7. p = [name |-> p.name, channel |-> p.channel, command |-> p.command, settings |-> p.settings]
  BY DEF Pool
<1> HIDE DEF p, e
<1> QED
  BY <1>1, <1>2, <1>6, <1>7 DEF Pool, toResolvedPool, p, e

\* What check prints is accepted when it is loaded, and makes the same daemon.
THEOREM CheckTellsTheTruth == Spec => []CheckIsFaithful
<1>1. IInv => CheckIsFaithful
  <2> SUFFICES ASSUME IInv, phase = "printed"
               PROVE  /\ Accepted(printed)
                      /\ Finalized(printed).top = doc.top
                      /\ ResolvedPools(Finalized(printed)) = ResolvedPools(doc)
    BY DEF CheckIsFaithful
  <2>1. Load(doc) /\ validate(doc) /\ printed = Resolved(doc)
    BY DEF IInv, Valid, Printed
  <2>2. applyDefaults(doc.top) = doc.top
    BY DefaultsIdempotent DEF IInv, Valid
  <2>3. Finalized(printed).top = doc.top
    BY <2>1, <2>2 DEF Finalized, Resolved
  <2>4. ResolvedPools(Finalized(printed)) = ResolvedPools(doc)
    <3>1. DOMAIN Finalized(printed).pools = DOMAIN doc.pools
      BY <2>1 DEF Finalized, Resolved
    <3>2. ASSUME NEW i \in DOMAIN NameOrder, NameOrder[i] \in DOMAIN doc.pools
          PROVE  Pool(Finalized(printed), NameOrder[i]) = Pool(doc, NameOrder[i])
      BY <2>1, <3>2, ResolvedResolves, ConfigBound DEF Names
    <3> HIDE DEF Finalized
    <3> QED
      BY <3>1, <3>2 DEF ResolvedPools
  <2>5. Load(printed)
    <3>1. DOMAIN doc.pools \cap Reserved = {}
      BY <2>1 DEF Load, splitDefaults
    <3>2. /\ printed.defaults = NoDefaults /\ printed.readable = TRUE
          /\ DOMAIN printed.pools = DOMAIN doc.pools
      BY <2>1 DEF Resolved
    <3>3. ~NoDefaults.command /\ NoDefaults.channel = Unset
      BY DEF NoDefaults
    <3> QED
      BY <3>1, <3>2, <3>3 DEF Load, splitDefaults
  <2>6. validate(Finalized(printed))
    BY <2>1, <2>3, <2>4 DEF validate
  <2> QED
    BY <2>3, <2>4, <2>5, <2>6 DEF Accepted
<1> QED
  BY InductiveInvariant, <1>1, PTL
=============================================================================
