-------------------------------- MODULE App --------------------------------
(***************************************************************************)
(* The whole daemon (internal/app): hint sources feed a buffered channel,  *)
(* the dispatcher routes each hint to a pool, and Run takes everything     *)
(* down again in order - sources, dispatcher, pools - under one deadline.  *)
(* The process exits when Run returns (cmd/doorbell-pm/main.go).           *)
(*                                                                         *)
(* A pool is what PoolContract says of it, with the time its workers are   *)
(* given: after Shutdown they end by themselves or are killed when the     *)
(* grace period is over.  A hint is its channel; how many workers it       *)
(* starts is the pool's business.  The clock counts from the moment Run    *)
(* begins to stop: no timer of this module runs before.  The redis source  *)
(* is that of RedisSource.                                                 *)
(***************************************************************************)
EXTENDS RedisSource

CONSTANTS
    Sources,            \* the enabled ones of "http", "redis" and "metrics"
    Concurrency,        \* concurrency of every pool
    Body,               \* bound: hints in one HTTP request
    ShutdownTimeout,    \* shutdown_timeout
    DrainTimeout,       \* http.shutdown_timeout
    Grace               \* grace_shutdown of every pool

\* What the configuration's validate lets through; nothing relates the three
\* timeouts to each other.
ASSUME AppConfig ==
    /\ Sources \subseteq {"http", "redis", "metrics"}
    /\ Concurrency \in Nat \ {0}
    /\ Body \in Nat \ {0}
    /\ ShutdownTimeout \in Nat \ {0}
    /\ DrainTimeout \in Nat
    /\ Grace \in Nat
    /\ "off" \notin Channels \cup {None}

Listeners == Sources \cap {"http", "metrics"}

VARIABLES
    now,        \* time since Run began to stop
    phase,      \* where Run is
    dispatcher, \* the channel being dispatched, None, or "off"
    source,     \* a listener: "serving", "draining" or "done"
    drainEnd,   \* when a draining listener is closed outright
    request,    \* the HTTP request in flight, or the last one
    errc,       \* source errors nobody has read
    errs,       \* what Run will return
    failed,     \* history: sources that failed
    live,       \* workers of each pool
    killAt,     \* when the grace period of a stopping pool ends
    answer      \* what the pool's Shutdown answered

vars == <<now, phase, cancelled, hints, dispatcher, source, drainEnd, request,
          redisVars, errc, errs, failed, live, killAt, answer>>

runVars    == <<now, phase, cancelled, errs>>
httpVars   == <<source, drainEnd, request, errc, failed>>
sourceVars == <<httpVars, redisVars>>
poolVars   == <<live, killAt, answer>>

Request(state, todo, sent) == [state |-> state, todo |-> todo, sent |-> sent]

Init ==
    /\ now = 0
    /\ phase = "run"
    /\ cancelled = FALSE
    /\ hints = <<>>
    /\ dispatcher = None
    /\ source = [s \in Listeners |-> "serving"]
    /\ drainEnd = [s \in Listeners |-> 0]
    /\ request = Request("none", 0, 0)
    /\ RedisInit("redis" \in Sources)
    /\ errc = {}
    /\ errs = {}
    /\ failed = {}
    /\ live = [p \in Pools |-> 0]
    /\ killAt = [p \in Pools |-> 0]
    /\ answer = [p \in Pools |-> "none"]
-----------------------------------------------------------------------------
(***************************************************************************)
(* Sources.                                                                *)
(***************************************************************************)
\* A client connects to the HTTP server and sends a body, perhaps slowly.
RequestArrives ==
    /\ "http" \in Sources /\ source["http"] = "serving"
    /\ request.state \notin {"reading", "forwarding"}
    /\ request' = Request("reading", 0, 0)
    /\ UNCHANGED <<runVars, hints, dispatcher, source, drainEnd, redisVars, errc, failed, poolVars>>

\* parseHints accepted the body: n hints, all for channels of enabled pools.
RequestParsed(n) ==
    /\ request.state = "reading"
    /\ request' = Request("forwarding", n, 0)
    /\ UNCHANGED <<runVars, hints, dispatcher, source, drainEnd, redisVars, errc, failed, poolVars>>

\* parseHints rejected it.
RequestRejected ==
    /\ request.state = "reading"
    /\ request' = Request("rejected", 0, 0)
    /\ UNCHANGED <<runVars, hints, dispatcher, source, drainEnd, redisVars, errc, failed, poolVars>>

\* hintHandler forwards the next hint; the last one is answered with 202.
RequestForwards(c) ==
    /\ request.state = "forwarding"
    /\ Send(c)
    /\ request' = Request(IF request.todo = 1 THEN "accepted" ELSE "forwarding",
                          request.todo - 1, request.sent + 1)
    /\ UNCHANGED <<runVars, dispatcher, source, drainEnd, redisVars, errc, failed, poolVars>>

\* hintHandler finds the request's context done instead and answers 503.  The
\* context descends from the run context and also ends when the client leaves.
RequestUnavailable ==
    /\ request.state = "forwarding"
    /\ request' = Request("unavailable", request.todo, request.sent)
    /\ UNCHANGED <<runVars, hints, dispatcher, source, drainEnd, redisVars, errc, failed, poolVars>>

\* Mutant: the handler does not watch the context.
RequestCancelledNever == FALSE /\ RequestUnavailable

RequestCancelled == cancelled /\ RequestUnavailable

\* RedisSource, with the rest of the daemon; this source never fails.
Alone(A) == A /\ UNCHANGED <<runVars, dispatcher, httpVars, poolVars>>

Redis      == Alone(RedisSteps)
RedisWorld == Alone(RedisEvents)

\* The source returns an error, which its goroutine puts into errc.
Fails(s) ==
    /\ errc' = errc \cup {s}
    /\ failed' = failed \cup {s}

\* serve returns an error: the address is taken, or Serve failed.
ListenerFails(s) ==
    /\ source[s] = "serving"
    /\ source' = [source EXCEPT ![s] = "done"]
    /\ Fails(s)
    /\ UNCHANGED <<runVars, hints, dispatcher, drainEnd, request, redisVars, poolVars>>

\* shutdown: no new connections, the ones in flight have DrainTimeout.
ListenerDrains(s) ==
    /\ source[s] = "serving"
    /\ cancelled
    /\ source' = [source EXCEPT ![s] = "draining"]
    /\ drainEnd' = [drainEnd EXCEPT ![s] = now + DrainTimeout]
    /\ UNCHANGED <<runVars, hints, dispatcher, request, redisVars, errc, failed, poolVars>>

\* shutdown returns when nothing is in flight, or closes what is; it reports an
\* error when Serve had failed before it was told to stop.
ListenerStops(s) ==
    /\ source[s] = "draining"
    /\ \/ s = "http" => request.state \notin {"reading", "forwarding"}
       \/ now >= drainEnd[s]
    /\ source' = [source EXCEPT ![s] = "done"]
    /\ Fails(s) \/ UNCHANGED <<errc, failed>>
    /\ UNCHANGED <<runVars, hints, dispatcher, drainEnd, request, redisVars, poolVars>>
-----------------------------------------------------------------------------
(***************************************************************************)
(* The dispatcher and the pools.                                           *)
(***************************************************************************)
DispatcherTakes ==
    /\ dispatcher = None
    /\ hints # <<>>
    /\ dispatcher' = Head(hints)
    /\ hints' = Tail(hints)
    /\ UNCHANGED <<runVars, sourceVars, poolVars>>

\* Dispatch: a hint for an enabled pool starts up to Concurrency workers, none
\* once the pool is stopping or the run context done; any other is dropped.
Dispatch ==
    /\ dispatcher \in Channels
    /\ dispatcher' = None
    /\ \/ UNCHANGED live
       \/ /\ dispatcher \in Pools
          /\ answer[dispatcher] = "none" /\ ~cancelled
          /\ \E n \in live[dispatcher] .. Concurrency :
                live' = [live EXCEPT ![dispatcher] = n]
    /\ UNCHANGED <<runVars, hints, sourceVars, killAt, answer>>

DispatcherStops ==
    /\ dispatcher = None
    /\ cancelled
    /\ dispatcher' = "off"
    /\ UNCHANGED <<runVars, hints, sourceVars, poolVars>>

\* The poke ticker starts workers, until the run context is done.
PoolPokes(p) ==
    /\ answer[p] = "none" /\ ~cancelled
    /\ live[p] < Concurrency
    /\ live' = [live EXCEPT ![p] = @ + 1]
    /\ UNCHANGED <<runVars, hints, dispatcher, sourceVars, killAt, answer>>

\* A worker ends; its reaper may hint the pool for more while that is open,
\* with a context nobody cancels.
WorkerEnds(p) ==
    /\ live[p] > 0
    /\ \E n \in live[p] - 1 .. Concurrency :
          /\ answer[p] # "none" => n < live[p]
          /\ live' = [live EXCEPT ![p] = n]
    /\ UNCHANGED <<runVars, hints, dispatcher, sourceVars, killAt, answer>>

\* shutdownPools calls Shutdown of every pool in a goroutine of its own.
PoolShutdown(p) ==
    /\ phase = "pools"
    /\ answer[p] = "none"
    /\ answer' = [answer EXCEPT ![p] = "pending"]
    /\ killAt' = [killAt EXCEPT ![p] = now + Grace]
    /\ UNCHANGED <<runVars, hints, dispatcher, sourceVars, live>>

\* The reapers kill what is left after the grace period.
PoolKills(p) ==
    /\ answer[p] # "none"
    /\ live[p] > 0
    /\ now >= killAt[p]
    /\ live' = [live EXCEPT ![p] = 0]
    /\ UNCHANGED <<runVars, hints, dispatcher, sourceVars, killAt, answer>>

PoolEmpty(p) ==
    /\ answer[p] = "pending"
    /\ live[p] = 0
    /\ answer' = [answer EXCEPT ![p] = "nil"]
    /\ UNCHANGED <<runVars, hints, dispatcher, sourceVars, live, killAt>>

Expired == now >= ShutdownTimeout

PoolTimeout(p) ==
    /\ answer[p] = "pending"
    /\ Expired
    /\ answer' = [answer EXCEPT ![p] = "err"]
    /\ errs' = errs \cup {p}
    /\ UNCHANGED <<now, phase, cancelled, hints, dispatcher, sourceVars, live, killAt>>
-----------------------------------------------------------------------------
(***************************************************************************)
(* Run and stop.                                                           *)
(***************************************************************************)
\* SIGINT, SIGTERM.
Signalled ==
    /\ phase = "run"
    /\ phase' = "sources"
    /\ cancelled' = TRUE
    /\ UNCHANGED <<now, hints, dispatcher, sourceVars, errs, poolVars>>

SourceFailed(s) ==
    /\ phase = "run"
    /\ s \in errc
    /\ errc' = errc \ {s}
    /\ errs' = {s}
    /\ phase' = "sources"
    /\ cancelled' = TRUE
    /\ UNCHANGED <<now, hints, dispatcher, source, drainEnd, request, redisVars, failed, poolVars>>

\* await(ctx, wait): the next phase begins when the wait is over or, with an
\* error, when the deadline has passed.
Await(this, waited, next) ==
    /\ phase = this
    /\ \/ waited /\ UNCHANGED errs
       \/ Expired /\ errs' = errs \cup {this}
    /\ phase' = next
    /\ UNCHANGED <<now, cancelled, hints, dispatcher, sourceVars, poolVars>>

SourcesDone ==
    /\ \A s \in Listeners : source[s] = "done"
    /\ redis.at = "done"

DispatcherDone == dispatcher = "off"

\* Mutant: stop does not wait for the dispatcher.
AwaitDispatcherSkipped == Await("dispatcher", TRUE, "pools")

AwaitSources    == Await("sources", SourcesDone, "dispatcher")
AwaitDispatcher == Await("dispatcher", DispatcherDone, "pools")

\* Mutants: the errors still in errc are not collected; Run does not wait for
\* the pools to answer.
ReturnsUncollected ==
    /\ phase = "pools"
    /\ \A p \in Pools : answer[p] \in {"nil", "err"}
    /\ phase' = "returned"
    /\ UNCHANGED <<now, cancelled, hints, dispatcher, errs, sourceVars, poolVars>>

ReturnsEarly ==
    /\ phase = "pools"
    /\ \A p \in Pools : answer[p] # "none"
    /\ phase' = "returned"
    /\ errs' = errs \cup errc
    /\ errc' = {}
    /\ UNCHANGED <<now, cancelled, hints, dispatcher, source, drainEnd, request, redisVars,
                   failed, poolVars>>

\* Every pool has answered; stop empties errc and Run returns.
Returns ==
    /\ phase = "pools"
    /\ \A p \in Pools : answer[p] \in {"nil", "err"}
    /\ phase' = "returned"
    /\ errs' = errs \cup errc
    /\ errc' = {}
    /\ UNCHANGED <<now, cancelled, hints, dispatcher, source, drainEnd, request, redisVars,
                   failed, poolVars>>

Http    == RequestArrives \/ RequestRejected \/ RequestUnavailable \/ \E n \in 1 .. Body : RequestParsed(n)
Forward == RequestCancelled \/ \E c \in Pools : RequestForwards(c)
Stop    == AwaitSources \/ AwaitDispatcher \/ Returns

Listener(s) == ListenerDrains(s) \/ ListenerStops(s)
Pool(p)     == PoolShutdown(p) \/ PoolKills(p) \/ PoolEmpty(p) \/ PoolTimeout(p)

\* Time passes only when nobody has anything left to do at this instant: the
\* deadlines are long compared to a goroutine switch.  Only the clients, the
\* spawns of a dispatched hint and the workers take their time.
Urgent ==
    \/ Forward \/ Redis \/ Stop
    \/ DispatcherTakes \/ DispatcherStops
    \/ \E s \in Listeners : Listener(s)
    \/ \E p \in Pools : Pool(p)

Tick ==
    /\ cancelled
    /\ ~ENABLED Urgent
    /\ now' = now + 1
    /\ UNCHANGED <<phase, cancelled, errs, hints, dispatcher, sourceVars, poolVars>>

\* When Run has returned the process exits and no goroutine takes a step.
Up == phase # "returned"

Next ==
    /\ Up
    /\ \/ Http \/ Forward
       \/ Redis \/ RedisWorld
       \/ \E s \in Listeners : ListenerFails(s) \/ Listener(s)
       \/ DispatcherTakes \/ Dispatch \/ DispatcherStops
       \/ \E p \in Pools : PoolPokes(p) \/ WorkerEnds(p) \/ Pool(p)
       \/ Signalled \/ \E s \in Listeners : SourceFailed(s)
       \/ Stop \/ Tick

Spec == Init /\ [][Next]_vars

\* While the process is up every goroutine that can run does, a ready case of a
\* select is not passed over for ever, senders on a channel are served in turn,
\* and time goes on once nothing else is to be done.  Of redis it is assumed
\* that a server which can be reached again and again confirms in the end.
Fairness ==
    /\ WF_vars(Up /\ Forward)
    /\ SF_vars(Up /\ \E c \in Pools : RequestForwards(c))
    /\ WF_vars(Up /\ Redis)
    /\ WF_vars(Up /\ Alone(CloseOnCancel)) /\ WF_vars(Up /\ Alone(BackoffOver))
    /\ SF_vars(Up /\ Alone(ReceiveSubscription))
    /\ \A s \in Listeners : WF_vars(Up /\ Listener(s))
    /\ WF_vars(Up /\ (DispatcherTakes \/ Dispatch)) /\ SF_vars(Up /\ DispatcherStops)
    /\ \A p \in Pools : WF_vars(Up /\ Pool(p))
    /\ \A s \in Listeners : WF_vars(Up /\ SourceFailed(s))
    /\ WF_vars(Up /\ Stop) /\ WF_vars(Up /\ Tick)

FairSpec == Spec /\ Fairness
-----------------------------------------------------------------------------
\* Types of the channel, the sources, the pools and of Run's state.
TypeOK ==
    /\ now \in Nat
    /\ phase \in {"run", "sources", "dispatcher", "pools", "returned"}
    /\ cancelled \in BOOLEAN
    /\ hints \in Seq(Channels) /\ Len(hints) <= Buffer
    /\ dispatcher \in Channels \cup {None, "off"}
    /\ source \in [Listeners -> {"serving", "draining", "done"}]
    /\ drainEnd \in [Listeners -> Nat]
    /\ request \in [state : {"none", "reading", "rejected", "forwarding",
                             "accepted", "unavailable"},
                    todo : 0 .. Body, sent : 0 .. Body]
    /\ RedisTypeOK
    /\ errc \subseteq Listeners
    /\ errs \subseteq Listeners \cup Pools \cup {"sources", "dispatcher"}
    /\ failed \subseteq Listeners
    /\ live \in [Pools -> 0 .. Concurrency]
    /\ killAt \in [Pools -> Nat]
    /\ answer \in [Pools -> {"none", "pending", "nil", "err"}]

\* Run "returns nil after a clean stop": without an error in its result every
\* source and the dispatcher have ended and no worker is left.
NilMeansClean ==
    phase = "returned" /\ errs = {} =>
        SourcesDone /\ DispatcherDone /\ \A p \in Pools : live[p] = 0

\* stop: a pool is shut down only when nobody can hint it any more, unless Run
\* reports that it gave up waiting for the sources or the dispatcher.
PoolsStopLast ==
    (\E p \in Pools : answer[p] # "none") =>
        \/ SourcesDone /\ DispatcherDone
        \/ errs \cap {"sources", "dispatcher"} # {}

\* startSources, stop: the error of every source that failed is in the result,
\* also of one that failed while Run was already stopping, unless Run reports
\* that it did not wait for the sources.
SourceErrorsReported ==
    phase = "returned" /\ "sources" \notin errs => failed \subseteq errs

\* forward, hintHandler, shutdown: when requests are given less time to drain
\* than the whole stop, every source ends before Run returns, also one that is
\* blocked on a full channel that nobody reads any more.
SourcesEnd == DrainTimeout < ShutdownTimeout => (cancelled ~> SourcesDone)

\* hintHandler: a request whose body was accepted while the listener served is
\* answered, however full the hint channel is, whoever else sends on it and also
\* when the dispatcher stops reading, unless the listener itself breaks.
RequestAnswered ==
    "http" \in Sources /\ DrainTimeout > 0 =>
        (request.state = "forwarding" /\ source["http"] = "serving" ~>
            request.state # "forwarding" \/ "http" \in failed)

\* redisin.Run "never gives up on its own": while the daemon is to run, the
\* subscription is confirmed again and again, however often it is lost.
RedisRecovers == "redis" \in Sources => []<>(connected \/ cancelled)

\* README.md: "A worker that ignores the signal is still gone when doorbell
\* exits."
WorkersGoneAtExit == phase = "returned" => \A p \in Pools : live[p] = 0

\* hintHandler: "a request is either fully accepted (202) or fully rejected".
RequestAllOrNothing ==
    request.state \in {"rejected", "unavailable"} => request.sent = 0
=============================================================================
