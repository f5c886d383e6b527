------------------------------- MODULE Config -------------------------------
(***************************************************************************)
(* From the command line and the configuration document to the running     *)
(* parts: run picks the verb (cmd/doorbell-pm), loadConfig reads the       *)
(* document, resolves every pool through three layers and validates the    *)
(* result (internal/config); then check prints it, or newApp builds the    *)
(* pools, the dispatcher's routes, the sources and what their listeners    *)
(* mount (internal/app, internal/httpapi).  The other modules assume of    *)
(* their constants what an accepted document guarantees.                   *)
(*                                                                         *)
(* A layer gives each key a value or Unset.  Durations are counted in half *)
(* seconds, the multiplier in halves, paths are names.  Left out: keys     *)
(* nothing is checked of (env, inherit_env, dir, the log's level, the      *)
(* addresses, user and password), the yaml syntax and the expansion of     *)
(* environment variables.                                                  *)
(***************************************************************************)
EXTENDS Integers, Sequences

CONSTANTS
    NameOrder,      \* the names the blocks under pools may have, sorted
    Reserved,       \* the ones that are no pool name: they start with "_"
    Unrooted,       \* the paths that do not start with "/"
    Odd,            \* the paths that are not clean ("//x") or have a wildcard ("{")
    Unmountable,    \* the paths that http.ServeMux cannot make a pattern of
    Overlaps,       \* the pairs of paths it cannot tell apart by being more specific
    NaN,            \* a multiplier that is no number
    Documents,      \* bound: the documents
    Unset,
    NoPool          \* a route that leads nowhere

Names == {NameOrder[i] : i \in DOMAIN NameOrder}

Keys == {"enabled", "concurrency", "okExitCodes", "threshold", "window", "cooldown",
         "cooldownMax", "multiplier", "ttl", "poke", "pokeCount", "grace",
         "termSignal", "resultStream"}

\* The top-level keys: switches, names and durations.
Switches == {"http", "redis", "metrics"}

Texts == {"logFormat", "childOutput", "hintPath", "healthPath", "metricsPath", "metricsAddr"}

Durations == {"readTimeout", "writeTimeout", "drainTimeout", "dialTimeout",
              "reconnectMin", "reconnectMax", "shutdownTimeout"}

TopKeys == Switches \cup Texts \cup Durations \cup {"db"}

ASSUME ConfigBound ==
    /\ NameOrder \in Seq(Names)
    /\ NoPool \notin Names
    /\ Unset \notin Names
    /\ NaN \notin Int
    /\ \A d \in Documents :
          /\ DOMAIN d.pools \subseteq Names
          /\ DOMAIN d.top = TopKeys
          /\ DOMAIN d.defaults.settings = Keys
          /\ \A n \in DOMAIN d.pools : DOMAIN d.pools[n].settings = Keys

\* net/http: a pattern with a method needs a "/" and a clean path with well-formed
\* wildcards, and two paths without a wildcard overlap only as one and the same.
ASSUME MuxBound ==
    /\ Unmountable \subseteq Unrooted \cup Odd
    /\ \A o \in Overlaps : o[1] \in Odd \/ o[2] \in Odd

builtinPool ==
    [enabled |-> TRUE, concurrency |-> 1, okExitCodes |-> {0}, threshold |-> 3,
     window |-> 20, cooldown |-> 10, cooldownMax |-> 600, multiplier |-> 4,
     ttl |-> 0, poke |-> 0, pokeCount |-> 1, grace |-> 60,
     termSignal |-> "SIGTERM", resultStream |-> "stdout"]

\* The other keys have no default: childOutput, metricsAddr, and a db of 0.
builtinTop ==
    [http |-> TRUE, redis |-> TRUE, metrics |-> TRUE, logFormat |-> "text",
     childOutput |-> Unset, hintPath |-> "/hint", healthPath |-> "/healthz",
     metricsPath |-> "/metrics", metricsAddr |-> Unset, readTimeout |-> 10,
     writeTimeout |-> 10, drainTimeout |-> 10, dialTimeout |-> 10, reconnectMin |-> 1,
     reconnectMax |-> 60, shutdownTimeout |-> 120, db |-> 0]

VARIABLES
    args,       \* the command line: the verb, and whether it names a document
    phase,      \* "start", then "valid", then "printed" or "built"; or "ended"
    exit,       \* the exit code, once the command has ended
    doc,        \* the document
    printed,    \* what check wrote: a document
    pools,      \* name of every pool that was built |-> its settings
    routes,     \* Dispatcher.routes: channel |-> pool, or NoPool
    known,      \* Server.channels: what a request may name
    sources,    \* the hint sources that were built
    mounts      \* listener |-> what its mux is given, in order

built == <<pools, routes, known, sources, mounts>>
vars == <<args, phase, exit, doc, printed, built>>

Verbs == {"run", "check", "version", "other"}

Init ==
    /\ args \in [verb : Verbs, config : BOOLEAN]
    /\ phase = "start"
    /\ exit = Unset
    /\ doc \in Documents
    /\ printed = Unset
    /\ pools = <<>>
    /\ routes = <<>>
    /\ known = {}
    /\ sources = {}
    /\ mounts = <<>>
-----------------------------------------------------------------------------
(***************************************************************************)
(* Resolution.                                                             *)
(***************************************************************************)
\* The last layer that is set; an explicit zero, false or empty list is.
pick(base, layer1, layer2) ==
    IF layer2 # Unset THEN layer2 ELSE IF layer1 # Unset THEN layer1 ELSE base

Pool(d, n) ==
    LET p == d.pools[n]
    IN  [name     |-> n,
         channel  |-> IF p.channel = Unset THEN n ELSE p.channel,
         command  |-> p.command,
         settings |-> [k \in Keys |-> pick(builtinPool[k], d.defaults.settings[k], p.settings[k])]]

\* One resolved pool per block, in the order of the names.
ResolvedPools(d) ==
    [i \in {j \in DOMAIN NameOrder : NameOrder[j] \in DOMAIN d.pools} |-> Pool(d, NameOrder[i])]

\* Top-level keys: a duration of zero counts as unset.
applyDefaults(t) ==
    [k \in TopKeys |->
        IF t[k] = Unset \/ (k \in Durations /\ t[k] = 0) THEN builtinTop[k] ELSE t[k]]

Finalized(d) ==
    [readable |-> d.readable, top |-> applyDefaults(d.top), defaults |-> d.defaults,
     pools |-> d.pools]
-----------------------------------------------------------------------------
(***************************************************************************)
(* Validation.                                                             *)
(***************************************************************************)
validateSpawn(p) ==
    /\ p.command
    /\ p.settings.concurrency >= 1
    /\ p.settings.pokeCount \in 0 .. p.settings.concurrency

validateExitCodes(p) ==
    /\ p.settings.okExitCodes # {}
    /\ p.settings.okExitCodes \subseteq 0 .. 255

validateBreaker(p) == p.settings.threshold >= 0 /\ p.settings.window > 0

\* Mutant: the two pauses are compared with 0 only.
validateCooldownAlone(p) ==
    /\ p.settings.cooldown >= 0
    /\ p.settings.cooldownMax >= 0
    /\ p.settings.multiplier # NaN => p.settings.multiplier >= 2

\* The code refuses a multiplier below 1, and NaN is not below anything.
validateCooldown(p) ==
    /\ p.settings.cooldown >= 0
    /\ p.settings.cooldownMax >= p.settings.cooldown
    /\ p.settings.multiplier # NaN => p.settings.multiplier >= 2

\* A signal is parsed from its name, so that it is always a known one.
validateProcess(p) ==
    /\ p.settings.ttl >= 0 /\ p.settings.poke >= 0 /\ p.settings.grace >= 0
    /\ p.settings.resultStream \in {"stdout", "stderr", "none"}

validatePool(p) ==
    /\ validateSpawn(p)
    /\ validateExitCodes(p)
    /\ validateBreaker(p)
    /\ validateCooldown(p)
    /\ validateProcess(p)

\* Mutant: a disabled pool may repeat the channel of another one.
validatePoolsEnabledOnly(ps) ==
    /\ \A i \in DOMAIN ps : validatePool(ps[i])
    /\ \A i, j \in DOMAIN ps : i # j /\ ps[i].settings.enabled /\ ps[j].settings.enabled =>
          ps[i].channel # ps[j].channel
    /\ \E i \in DOMAIN ps : ps[i].settings.enabled

\* Every pool is checked, a disabled one too; no two have the same channel.
validatePools(ps) ==
    /\ \A i \in DOMAIN ps : validatePool(ps[i])
    /\ \A i, j \in DOMAIN ps : i # j => ps[i].channel # ps[j].channel
    /\ \E i \in DOMAIN ps : ps[i].settings.enabled

validateLog(t) == t.logFormat \in {"text", "json"} /\ t.childOutput = Unset

HTTPPaths(t) == <<t.hintPath, t.healthPath, t.metricsPath>>

\* Mutant: the metrics path may be the health path.
validateHTTPPathsHintOnly(t) ==
    /\ \A i \in DOMAIN HTTPPaths(t) : HTTPPaths(t)[i] \notin Unrooted
    /\ t.hintPath \notin {t.healthPath, t.metricsPath}

validateHTTPPaths(t) ==
    /\ \A i \in DOMAIN HTTPPaths(t) : HTTPPaths(t)[i] \notin Unrooted
    /\ \A i, j \in DOMAIN HTTPPaths(t) : i # j => HTTPPaths(t)[i] # HTTPPaths(t)[j]

validateHTTP(t) ==
    /\ validateHTTPPaths(t)
    /\ t.readTimeout >= 0 /\ t.writeTimeout >= 0 /\ t.drainTimeout >= 0

validateRedisBackoff(t) == t.reconnectMin > 0 /\ t.reconnectMax >= t.reconnectMin

validateRedis(t) == t.db >= 0 /\ t.dialTimeout >= 0 /\ validateRedisBackoff(t)

\* The keys of a source that is off are not looked at.
validateSources(t) ==
    /\ t.http \/ t.redis
    /\ t.http => validateHTTP(t)
    /\ t.redis => validateRedis(t)

validate(d) ==
    /\ validateLog(d.top)
    /\ validateSources(d.top)
    /\ d.top.shutdownTimeout > 0
    /\ validatePools(ResolvedPools(d))

\* pools._defaults has neither command nor channel, and is no pool.
splitDefaults(d) ==
    /\ ~d.defaults.command /\ d.defaults.channel = Unset
    /\ DOMAIN d.pools \cap Reserved = {}

\* Load, Parse: a file that is there and has known keys only.
Load(d) == d.readable /\ splitDefaults(d)

Accepted(d) == Load(d) /\ validate(Finalized(d))
-----------------------------------------------------------------------------
(***************************************************************************)
(* The command line.                                                       *)
(***************************************************************************)
NeedsConfig == args.verb \in {"run", "check"}

End(code) ==
    /\ exit' = code
    /\ phase' = "ended"
    /\ UNCHANGED <<args, doc, printed, built>>

\* usageError: no such verb or flag, or one that needs a document and names none.
usageError ==
    /\ phase = "start"
    /\ args.verb = "other" \/ (NeedsConfig /\ ~args.config)
    /\ End(2)

Version == phase = "start" /\ args.verb = "version" /\ End(0)

\* loadConfig, Finalize: a command goes on with a valid document or ends.
loadConfig ==
    /\ phase = "start" /\ NeedsConfig /\ args.config
    /\ \/ /\ Accepted(doc)
          /\ doc' = Finalized(doc)
          /\ phase' = "valid"
          /\ UNCHANGED <<args, exit, printed, built>>
       \/ ~Accepted(doc) /\ End(1)

\* Mutant: a threshold of zero is left out, as yaml's omitempty would.
toResolvedPoolOmitting(p) ==
    [settings |-> [p.settings EXCEPT !.threshold = IF @ = 0 THEN Unset ELSE @],
     channel |-> p.channel, command |-> p.command]

\* A pool block with every key set, whatever layer it came from.
toResolvedPool(p) == [settings |-> p.settings, channel |-> p.channel, command |-> p.command]

NoDefaults == [settings |-> [k \in Keys |-> Unset], channel |-> Unset, command |-> FALSE]

\* The document that check prints: no layers are left.
Resolved(d) ==
    [readable |-> TRUE, top |-> d.top, defaults |-> NoDefaults,
     pools |-> [n \in DOMAIN d.pools |-> toResolvedPool(Pool(d, n))]]

printResolved ==
    /\ phase = "valid" /\ args.verb = "check"
    /\ printed' = Resolved(doc)
    /\ exit' = 0
    /\ phase' = "printed"
    /\ UNCHANGED <<args, doc, built>>
-----------------------------------------------------------------------------
(***************************************************************************)
(* Construction.                                                           *)
(***************************************************************************)
enabledPools(ps) == {i \in DOMAIN ps : ps[i].settings.enabled}

newPools(ps) ==
    [n \in {ps[i].name : i \in enabledPools(ps)} |->
        ps[CHOOSE i \in DOMAIN ps : ps[i].name = n].settings]

\* The loop over ps writes routes[channel]: of two pools the later one wins.
NewDispatcher(ps) ==
    [c \in {ps[i].channel : i \in DOMAIN ps} |->
        LET last == CHOOSE i \in DOMAIN ps :
                        /\ ps[i].channel = c
                        /\ \A j \in DOMAIN ps : ps[j].channel = c => j <= i
        IN  IF ps[last].settings.enabled THEN ps[last].name ELSE NoPool]

newSources(t) ==
    {s \in {"http", "redis"} : (s = "http" /\ t.http) \/ (s = "redis" /\ t.redis)}

\* newSources: the exporter has a listener of its own when it has an address.
StandaloneMetrics(t) == t.metrics /\ t.metricsAddr # Unset

\* Server.Handler: the patterns given to the mux of the hint listener.
Handler(t) ==
    IF t.metrics /\ ~StandaloneMetrics(t)
    THEN <<<<"POST", t.hintPath>>, <<"GET", t.healthPath>>, <<"GET", t.metricsPath>>>>
    ELSE <<<<"POST", t.hintPath>>, <<"GET", t.healthPath>>>>

\* New, NewMetricsServer: what each listener that is built will mount.
Mounts(t) ==
    [http    |-> IF t.http THEN Handler(t) ELSE <<>>,
     metrics |-> IF StandaloneMetrics(t) THEN <<<<"GET", t.metricsPath>>>> ELSE <<>>]

newApp ==
    LET ps == ResolvedPools(doc)
    IN  /\ phase = "valid" /\ args.verb = "run"
        /\ pools' = newPools(ps)
        /\ routes' = NewDispatcher(ps)
        /\ known' = {ps[i].channel : i \in enabledPools(ps)}
        /\ sources' = newSources(doc.top)
        /\ mounts' = Mounts(doc.top)
        /\ phase' = "built"
        /\ UNCHANGED <<args, exit, doc, printed>>

Next == usageError \/ Version \/ loadConfig \/ printResolved \/ newApp

Spec == Init /\ [][Next]_vars
-----------------------------------------------------------------------------
\* validate: whatever the layers set between them, a daemon that starts has a
\* source and a pool, and every pool and the redis source have the parameters
\* that Breaker, Pool, RedisSource and App assume, but for a multiplier that is
\* not a number.
AcceptedIsSound ==
    phase = "built" =>
        /\ sources # {}
        /\ DOMAIN pools # {}
        /\ doc.top.shutdownTimeout > 0
        /\ "redis" \in sources =>
              0 < doc.top.reconnectMin /\ doc.top.reconnectMin <= doc.top.reconnectMax
        /\ \A n \in DOMAIN pools :
              LET p == pools[n]
              IN  /\ p.concurrency >= 1
                  /\ 0 <= p.pokeCount /\ p.pokeCount <= p.concurrency
                  /\ p.threshold >= 0 /\ p.window > 0
                  /\ 0 <= p.cooldown /\ p.cooldown <= p.cooldownMax
                  /\ p.multiplier # NaN => p.multiplier >= 2
                  /\ p.ttl >= 0 /\ p.poke >= 0 /\ p.grace >= 0

\* hintHandler, Dispatch: every pool can be hinted, and a channel that the HTTP
\* server accepts leads to a pool; a hint answered with 202 is never dropped
\* as unknown or disabled.
AcceptedHintsAreRouted ==
    phase = "built" =>
        /\ \A c \in known : c \in DOMAIN routes /\ routes[c] \in DOMAIN pools
        /\ \A n \in DOMAIN pools : \E c \in known : routes[c] = n

\* ServeMux.Handle panics on a path it cannot parse and on a pattern that it has
\* already or that conflicts with one it has.
CanMount(patterns) ==
    /\ \A i \in DOMAIN patterns : patterns[i][2] \notin Unmountable
    /\ \A i, j \in DOMAIN patterns :
          i # j /\ patterns[i][1] = patterns[j][1] =>
              patterns[i][2] # patterns[j][2] /\ <<patterns[i][2], patterns[j][2]>> \notin Overlaps

PlainPaths(t) == \A i \in DOMAIN HTTPPaths(t) : HTTPPaths(t)[i] \notin Odd

\* Server.Handler: for clean paths without wildcards what validateHTTPPaths checks
\* is enough for the hint listener to mount all of its endpoints, wherever the
\* metrics endpoint goes.  Of other paths it accepts some that ServeMux panics on.
HintListenerMounts == phase = "built" /\ PlainPaths(doc.top) => CanMount(mounts.http)

\* "http paths start with `/` and are distinct" (README): of plain paths every
\* listener can mount its own.  MetricsServer.Run uses http.metrics_path whether
\* or not http is on.
EveryListenerMounts ==
    phase = "built" /\ PlainPaths(doc.top) => \A l \in DOMAIN mounts : CanMount(mounts[l])

\* printResolved: what check prints is accepted when it is loaded in its turn,
\* and makes the same daemon: the layers and the defaults have left no trace.
CheckIsFaithful ==
    phase = "printed" =>
        /\ Accepted(printed)
        /\ Finalized(printed).top = doc.top
        /\ ResolvedPools(Finalized(printed)) = ResolvedPools(doc)
=============================================================================
