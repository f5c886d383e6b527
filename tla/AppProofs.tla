------------------------------ MODULE AppProofs ------------------------------
(***************************************************************************)
(* The safety of App and of the redis source in it, for every set of pools *)
(* and sources and for every buffer, backoff and timeout.                  *)
(*                                                                         *)
(* What Run's result promises is not inductive: the phases must remember   *)
(* how they were left (Ordered), the answers of the pools what they stand  *)
(* for (Answered), and an error must be somewhere between the source that  *)
(* had it and the result (Reported).                                       *)
(***************************************************************************)
EXTENDS App, NatLemmas, TLAPS

\* TypeOK, by the parts that change together.
RunOK ==
    /\ now \in Nat
    /\ phase \in {"run", "sources", "dispatcher", "pools", "returned"}
    /\ cancelled \in BOOLEAN
    /\ errs \subseteq Listeners \cup Pools \cup {"sources", "dispatcher"}
    /\ phase = "run" => errs = {}

ChannelOK ==
    /\ hints \in Seq(Channels) /\ Len(hints) <= Buffer
    /\ dispatcher \in Channels \cup {None, "off"}

\* A request that is forwarded has something left to forward.
RequestOK ==
    /\ request \in [state : {"none", "reading", "rejected", "forwarding",
                             "accepted", "unavailable"},
                    todo : 0 .. Body, sent : 0 .. Body]
    /\ request.todo + request.sent <= Body
    /\ request.state = "forwarding" => request.todo >= 1

ListenersOK ==
    /\ source \in [Listeners -> {"serving", "draining", "done"}]
    /\ drainEnd \in [Listeners -> Nat]
    /\ errc \subseteq Listeners
    /\ failed \subseteq Listeners

\* The next pause is the one that follows tries others; a confirmed subscription
\* has made tries 0, before the backoff itself is reset.
Doubling ==
    /\ redis.at \in {"dialing", "wait"} => redis.backoff = Delay(tries)
    /\ redis.at = "subscribed" => tries = 0

RedisOK == RedisTypeOK /\ ConnectedIsConfirmed /\ Doubling

PoolsOK ==
    /\ live \in [Pools -> 0 .. Concurrency]
    /\ killAt \in [Pools -> Nat]
    /\ answer \in [Pools -> {"none", "pending", "nil", "err"}]

\* Run left a phase when its wait was over, or says so, and the pools are asked
\* to shut down in the last one.
Ordered ==
    /\ phase \in {"dispatcher", "pools", "returned"} => SourcesDone \/ "sources" \in errs
    /\ phase \in {"pools", "returned"} => DispatcherDone \/ "dispatcher" \in errs
    /\ \A p \in Pools : answer[p] # "none" => phase \in {"pools", "returned"}

\* The answers of the pools are true and known to Run when it returns.
Answered ==
    /\ phase = "returned" => \A p \in Pools : answer[p] \in {"nil", "err"}
    /\ \A p \in Pools : /\ answer[p] = "err" => p \in errs
                        /\ answer[p] = "nil" => live[p] = 0

\* No error of a source is lost on its way to the result.
Reported ==
    /\ failed \subseteq errs \cup errc
    /\ phase = "returned" => failed \subseteq errs

Types == RunOK /\ ChannelOK /\ RequestOK /\ ListenersOK /\ RedisOK /\ PoolsOK

IInv == Types /\ Ordered /\ Answered /\ Reported
-----------------------------------------------------------------------------
\* The delays are numbers between ReconnectMin and ReconnectMax, the first is
\* ReconnectMin and the last told apart is ReconnectMax.
LEMMA PowerOK ==
    ASSUME NEW n \in 0 .. MaxTries + 1
    PROVE  2 ^ n \in Nat \ {0}
<1> DEFINE f == [l \in 0 .. MaxTries + 1 |-> 2 ^ l]
<1>1. \A l \in 0 .. MaxTries + 1 : f[l] = 2 ^ l
  OBVIOUS
<1> HIDE DEF f
<1>2. 0 \in 0 .. MaxTries + 1 /\ MaxTries + 1 \in Nat /\ (MaxTries + 1) - 1 = MaxTries
  BY RedisConfig
<1>3. f[0] = 1
  BY <1>1, <1>2, PowersOfTwo
<1>4. \A l \in 0 .. MaxTries : f[l + 1] = 2 * f[l]
  <2> SUFFICES ASSUME NEW l \in 0 .. MaxTries PROVE f[l + 1] = 2 * f[l]
    OBVIOUS
  <2>1. l \in 0 .. MaxTries + 1 /\ l + 1 \in 0 .. MaxTries + 1
    BY RedisConfig
  <2>2. f[l] = 2 ^ l /\ f[l + 1] = 2 ^ (l + 1) /\ 2 ^ (l + 1) = 2 * 2 ^ l
    BY <1>1, <2>1, PowersOfTwo
  <2> QED
    BY <2>2
<1>5. \A l \in 0 .. MaxTries + 1 : f[l] \in Nat /\ f[l] \in Nat \ {0} /\ f[l] >= f[l]
  <2> DEFINE m == MaxTries + 1
  <2>1. m \in Nat /\ \A l \in 0 .. m - 1 : f[l + 1] = 2 * f[l]
    BY <1>2, <1>4
  <2> HIDE DEF m
  <2>2. \A l \in 0 .. m : f[l] \in Nat /\ f[l] \in Nat \ {0} /\ f[l] >= f[l]
    BY <1>3, <2>1, Powers
  <2> QED
    BY <2>2 DEF m
<1> QED
  BY <1>1, <1>5

LEMMA FirstDelay == Delay(0) = ReconnectMin
BY RedisConfig, PowersOfTwo DEF Delay, Smaller

\* Doubling a delay, up to ReconnectMax, gives the next one.
LEMMA NextDelay ==
    ASSUME NEW n \in 0 .. MaxTries
    PROVE  Delay(Smaller(n + 1, MaxTries)) = Smaller(2 * Delay(n), ReconnectMax)
<1> DEFINE p == 2 ^ n
           q == 2 ^ (n + 1)
           d == ReconnectMin * p
<1>1. p \in Nat \ {0} /\ q = 2 * p
  BY PowerOK, PowersOfTwo, RedisConfig
<1>2. Delay(n) = Smaller(d, ReconnectMax)
  BY DEF Delay
<1>3. Delay(n + 1) = Smaller(ReconnectMin * q, ReconnectMax)
  BY DEF Delay
<1> HIDE DEF p, q
<1>4. d \in Nat \ {0} /\ ReconnectMin * q = 2 * d
  BY <1>1, RedisConfig
<1> HIDE DEF d
<1>5. Smaller(2 * d, ReconnectMax) = Smaller(2 * Smaller(d, ReconnectMax), ReconnectMax)
  BY <1>4, RedisConfig DEF Smaller
<1>6. CASE n < MaxTries
  <2>1. Smaller(n + 1, MaxTries) = n + 1
    BY <1>6, RedisConfig DEF Smaller
  <2> QED
    BY <1>2, <1>3, <1>4, <1>5, <2>1
<1>7. CASE n = MaxTries
  <2>1. Smaller(n + 1, MaxTries) = n
    BY <1>7, RedisConfig DEF Smaller
  <2>2. d >= ReconnectMax
    BY <1>7, TriesBound DEF d, p
  <2>3. Smaller(d, ReconnectMax) = ReconnectMax /\ 2 * ReconnectMax >= ReconnectMax
    BY <1>4, <2>2, RedisConfig DEF Smaller
  <2> QED
    BY <1>2, <2>1, <2>3, RedisConfig DEF Smaller
<1> QED
  BY <1>6, <1>7, RedisConfig

\* The daemon starts in order.
LEMMA InitIInv == Init => IInv
<1> SUFFICES ASSUME Init PROVE IInv
  OBVIOUS
<1> USE RedisConfig, AppConfig DEF Init
<1>1. RunOK
  BY DEF RunOK
<1>2. ChannelOK
  BY DEF ChannelOK
<1>3. RequestOK
  BY DEF RequestOK, Request
<1>4. ListenersOK
  BY DEF ListenersOK
<1>5. RedisOK
  <2>1. redis \in {Session(ReconnectMin), Returned} /\ message = None /\ tries = 0
    BY DEF RedisInit
  <2>2. closed = FALSE /\ connected = FALSE
    BY DEF RedisInit
  <2>3. redis.at # "subscribed"
    BY <2>1 DEF Session, Returned
  <2>5. Doubling
    <3>1. redis.backoff = ReconnectMin /\ tries = 0
      BY <2>1 DEF Session, Returned
    <3> QED
      BY <2>3, <3>1, FirstDelay DEF Doubling
  <2>4. /\ redis \in [at : {"dialing", "subscribed", "wait", "done"},
                      backoff : ReconnectMin .. ReconnectMax]
        /\ message \in Channels \cup {None}
        /\ tries \in 0 .. MaxTries
    BY <2>1 DEF Session, Returned
  <2> QED
    BY <2>2, <2>3, <2>4, <2>5, Zenon DEF RedisOK, RedisTypeOK, ConnectedIsConfirmed
<1>6. PoolsOK
  BY DEF PoolsOK
<1>7. Ordered /\ Answered /\ Reported
  BY DEF Ordered, Answered, Reported
<1> QED
  BY <1>1, <1>2, <1>3, <1>4, <1>5, <1>6, <1>7 DEF IInv, Types

\* A send never overfills the hint channel.
LEMMA SendOK ==
    ASSUME ChannelOK, NEW c \in Channels, Send(c), dispatcher' = dispatcher
    PROVE  ChannelOK'
BY RedisConfig DEF ChannelOK, Send

\* Only a pause moves the backoff on, and only a confirmed subscription back.
LEMMA DoublingStep ==
    ASSUME RedisTypeOK, Doubling, RedisSteps \/ RedisEvents
    PROVE  Doubling'
<1> USE DEF Doubling
<1>1. CASE ReceiveSubscription
  BY <1>1 DEF ReceiveSubscription
<1>2. CASE UNCHANGED <<redis, tries>>
  BY <1>2
<1>3. CASE SessionEnds
  <2>1. tries' = tries /\ redis.at \in {"dialing", "subscribed"}
    BY <1>3 DEF SessionEnds, Receiving, InSession
  <2>2. CASE redis' = Returned
    BY <2>2 DEF Returned
  <2>3. CASE /\ redis' = [at |-> "wait", backoff |-> ReconnectMin]
             /\ redis.at = "subscribed"
    BY <2>1, <2>3, FirstDelay
  <2>4. CASE /\ redis' = [at |-> "wait", backoff |-> redis.backoff]
             /\ redis.at = "dialing"
    BY <2>1, <2>4
  <2> QED
    BY <1>3, <2>1, <2>2, <2>3, <2>4 DEF SessionEnds
<1>4. CASE BackoffOver
  <2>1. redis.backoff = Delay(tries) /\ tries \in 0 .. MaxTries
    BY <1>4 DEF BackoffOver, RedisTypeOK
  <2>2. /\ tries' = Smaller(tries + 1, MaxTries)
        /\ redis'.at = "dialing"
        /\ redis'.backoff = Smaller(2 * redis.backoff, ReconnectMax)
    BY <1>4 DEF BackoffOver, Session
  <2> QED
    BY <2>1, <2>2, NextDelay
<1>5. CASE WaitCancelled
  BY <1>5 DEF WaitCancelled, Returned
<1> QED
  BY <1>1, <1>2, <1>3, <1>4, <1>5 DEF RedisSteps, RedisEvents, ReceiveMessage,
     MessageForwarded, MessageCancelled, CloseOnCancel, ReceiveClosed

\* Each step of the redis source keeps its state in order, and what it has
\* done for good.
LEMMA RedisStep ==
    ASSUME RedisOK, RedisSteps \/ RedisEvents
    PROVE  RedisOK' /\ (redis.at = "done" => redis'.at = "done")
<1> DEFINE Goal == /\ RedisTypeOK' /\ ConnectedIsConfirmed'
                   /\ redis.at = "done" => redis'.at = "done"
<1> SUFFICES Goal
  BY DoublingStep DEF RedisOK
<1> USE RedisConfig DEF RedisOK, RedisTypeOK, ConnectedIsConfirmed
<1>1. CASE ReceiveSubscription
  BY <1>1 DEF ReceiveSubscription, Receiving
<1>2. ASSUME NEW c \in Channels, ReceiveMessage(c)
      PROVE  Goal
  BY <1>2 DEF ReceiveMessage
<1>3. CASE MessageForwarded \/ MessageCancelled
  BY <1>3 DEF MessageForwarded, MessageCancelled
<1>4. CASE CloseOnCancel
  BY <1>4 DEF CloseOnCancel
<1>5. CASE SessionEnds
  <2>1. redis.at # "done"
    BY <1>5 DEF SessionEnds, Receiving, InSession
  <2>2. redis' = Returned \/ \E b \in {ReconnectMin, redis.backoff} :
                                 redis' = [at |-> "wait", backoff |-> b]
    BY <1>5 DEF SessionEnds
  <2>3. redis'.at # "subscribed"
    BY <2>2 DEF Returned
  <2>4. redis' \in [at : {"dialing", "subscribed", "wait", "done"},
                    backoff : ReconnectMin .. ReconnectMax]
    BY <2>2 DEF Returned
  <2>5. closed' = FALSE /\ connected' = FALSE /\ message' = message /\ tries' = tries
    BY <1>5 DEF SessionEnds
  <2> QED
    BY <2>1, <2>3, <2>4, <2>5, Zenon
<1>6. CASE BackoffOver
  BY <1>6 DEF BackoffOver, Session, Smaller
<1>7. CASE WaitCancelled
  BY <1>7 DEF WaitCancelled, Returned, Session
<1> QED
  BY <1>1, <1>2, <1>3, <1>4, <1>5, <1>6, <1>7 DEF RedisSteps, RedisEvents, ReceiveClosed

\* Requests come and go, and forward no more than their body holds.
LEMMA RequestStep ==
    ASSUME IInv, Http \/ Forward
    PROVE  IInv'
<1> USE AppConfig DEF IInv, Types
<1>1. RequestOK' /\ ChannelOK'
  <2>1. CASE RequestArrives
    BY <2>1 DEF RequestArrives, Request, RequestOK, ChannelOK
  <2>2. ASSUME NEW n \in 1 .. Body, RequestParsed(n)
        PROVE  RequestOK' /\ ChannelOK'
    BY <2>2 DEF RequestParsed, Request, RequestOK, ChannelOK
  <2>3. CASE RequestRejected
    BY <2>3 DEF RequestRejected, Request, RequestOK, ChannelOK
  <2>4. ASSUME NEW c \in Pools, RequestForwards(c)
        PROVE  RequestOK' /\ ChannelOK'
    <3>1. ChannelOK'
      BY <2>4, SendOK DEF RequestForwards, Channels
    <3>2. request.todo \in 1 .. Body /\ request.sent \in 0 .. Body
          /\ request.todo + request.sent <= Body
      BY <2>4 DEF RequestForwards, RequestOK
    <3>3. request' = Request(IF request.todo = 1 THEN "accepted" ELSE "forwarding",
                             request.todo - 1, request.sent + 1)
      BY <2>4 DEF RequestForwards
    <3>4. RequestOK'
      BY <3>2, <3>3 DEF Request, RequestOK
    <3> QED
      BY <3>1, <3>4
  <2>5. CASE RequestUnavailable
    BY <2>5 DEF RequestUnavailable, Request, RequestOK, ChannelOK
  <2> QED
    BY <2>1, <2>2, <2>3, <2>4, <2>5 DEF Http, Forward, RequestCancelled
<1>2. UNCHANGED <<runVars, dispatcher, source, drainEnd, redisVars, errc, failed, poolVars>>
  BY DEF Http, Forward, RequestArrives, RequestParsed, RequestRejected, RequestForwards,
         RequestUnavailable, RequestCancelled
<1>3. RunOK' /\ ListenersOK' /\ PoolsOK'
  BY <1>2 DEF RunOK, ListenersOK, PoolsOK, runVars, poolVars
<1>4. RedisOK'
  BY <1>2 DEF RedisOK, RedisTypeOK, ConnectedIsConfirmed, Doubling, redisVars
<1>5. Ordered' /\ Answered' /\ Reported'
  BY <1>2 DEF Ordered, Answered, Reported, SourcesDone, DispatcherDone, runVars, redisVars,
              poolVars
<1> QED
  BY <1>1, <1>3, <1>4, <1>5

\* The redis source touches its own state and the channel only.
LEMMA RedisAloneStep ==
    ASSUME IInv, Redis \/ RedisWorld
    PROVE  IInv'
<1> USE DEF IInv, Types
<1>1. RedisSteps \/ RedisEvents
  BY DEF Redis, RedisWorld, Alone
<1>2. UNCHANGED <<runVars, dispatcher, httpVars, poolVars>>
  BY DEF Redis, RedisWorld, Alone
<1>3. RedisOK' /\ (redis.at = "done" => redis'.at = "done")
  BY <1>1, RedisStep
<1>4. ChannelOK'
  <2>1. CASE MessageForwarded
    <3>1. message \in Channels /\ Send(message) /\ dispatcher' = dispatcher
      BY <1>2, <2>1 DEF MessageForwarded, RedisOK, RedisTypeOK
    <3> QED
      BY <3>1, SendOK
  <2>2. CASE hints' = hints
    BY <1>2, <2>2 DEF ChannelOK
  <2> QED
    BY <1>1, <2>1, <2>2 DEF RedisSteps, RedisEvents, ReceiveSubscription, ReceiveMessage,
       MessageCancelled, CloseOnCancel, SessionEnds, ReceiveClosed, BackoffOver, WaitCancelled
<1>5. RunOK' /\ RequestOK' /\ ListenersOK' /\ PoolsOK'
  BY <1>2 DEF RunOK, RequestOK, ListenersOK, PoolsOK, runVars, httpVars, poolVars
<1>6. Ordered' /\ Answered' /\ Reported'
  BY <1>2, <1>3 DEF Ordered, Answered, Reported, SourcesDone, DispatcherDone, runVars, httpVars,
                    poolVars
<1> QED
  BY <1>3, <1>4, <1>5, <1>6

\* A listener that has ended stays so, and its error goes to errc.
LEMMA ListenerStep ==
    ASSUME IInv, phase # "returned", NEW s \in Listeners, ListenerFails(s) \/ Listener(s)
    PROVE  IInv'
<1> USE AppConfig DEF IInv, Types
<1>1. UNCHANGED <<runVars, hints, dispatcher, request, redisVars, poolVars>>
  BY DEF ListenerFails, Listener, ListenerDrains, ListenerStops
<1>2. /\ source' \in [Listeners -> {"serving", "draining", "done"}]
      /\ \A l \in Listeners : source[l] = "done" => source'[l] = "done"
  BY DEF ListenerFails, Listener, ListenerDrains, ListenerStops, ListenersOK
<1>3. drainEnd' \in [Listeners -> Nat]
  BY DEF ListenerFails, Listener, ListenerDrains, ListenerStops, ListenersOK, RunOK
<1>4. Fails(s) \/ UNCHANGED <<errc, failed>>
  BY DEF ListenerFails, Listener, ListenerDrains, ListenerStops
<1>5. ListenersOK'
  BY <1>2, <1>3, <1>4 DEF ListenersOK, Fails
<1>6. RunOK' /\ ChannelOK' /\ RequestOK' /\ PoolsOK'
  BY <1>1 DEF RunOK, ChannelOK, RequestOK, PoolsOK, runVars, poolVars
<1>7. RedisOK'
  BY <1>1 DEF RedisOK, RedisTypeOK, ConnectedIsConfirmed, Doubling, redisVars
<1>8. Ordered' /\ Answered'
  BY <1>1, <1>2 DEF Ordered, Answered, SourcesDone, DispatcherDone, runVars, redisVars, poolVars
<1>9. Reported'
  BY <1>1, <1>4 DEF Reported, Fails, runVars
<1> QED
  BY <1>5, <1>6, <1>7, <1>8, <1>9

\* The dispatcher starts workers in pools that have not been asked to stop, and
\* takes nothing more once it is off.
LEMMA DispatcherStep ==
    ASSUME IInv, DispatcherTakes \/ Dispatch \/ DispatcherStops
    PROVE  IInv'
<1> USE AppConfig DEF IInv, Types
<1>1. UNCHANGED <<runVars, sourceVars, killAt, answer>>
  BY DEF DispatcherTakes, Dispatch, DispatcherStops, poolVars
<1>2. ChannelOK'
  <2>1. CASE DispatcherTakes
    BY <2>1, RedisConfig DEF DispatcherTakes, ChannelOK
  <2>2. CASE Dispatch \/ DispatcherStops
    BY <2>2 DEF Dispatch, DispatcherStops, ChannelOK
  <2> QED
    BY <2>1, <2>2
<1>3. dispatcher = "off" => dispatcher' = "off"
  BY DEF DispatcherTakes, Dispatch, DispatcherStops
<1>4. /\ live' \in [Pools -> 0 .. Concurrency]
      /\ \A p \in Pools : answer[p] # "none" => live'[p] = live[p]
  <2>1. CASE Dispatch /\ live' # live
    <3>1. dispatcher \in Pools /\ answer[dispatcher] = "none"
      BY <2>1 DEF Dispatch
    <3>2. PICK n \in live[dispatcher] .. Concurrency : live' = [live EXCEPT ![dispatcher] = n]
      BY <2>1 DEF Dispatch
    <3>3. n \in 0 .. Concurrency
      BY <3>1, <3>2 DEF PoolsOK
    <3> QED
      BY <3>1, <3>2, <3>3 DEF PoolsOK
  <2>2. CASE live' = live
    BY <2>2 DEF PoolsOK
  <2> QED
    BY <2>1, <2>2 DEF DispatcherTakes, DispatcherStops, poolVars
<1>5. RunOK' /\ RequestOK' /\ ListenersOK' /\ PoolsOK'
  BY <1>1, <1>4 DEF RunOK, RequestOK, ListenersOK, PoolsOK, runVars, sourceVars, httpVars
<1>6. RedisOK'
  BY <1>1 DEF RedisOK, RedisTypeOK, ConnectedIsConfirmed, Doubling, sourceVars, redisVars
<1>7. Ordered' /\ Answered' /\ Reported'
  BY <1>1, <1>3, <1>4 DEF Ordered, Answered, Reported, SourcesDone, DispatcherDone, runVars,
                          sourceVars, httpVars, redisVars
<1> QED
  BY <1>2, <1>5, <1>6, <1>7

\* Workers come and go; a pool that has answered nil has none left.
LEMMA WorkersStep ==
    ASSUME IInv, NEW p \in Pools, PoolPokes(p) \/ WorkerEnds(p) \/ PoolKills(p)
    PROVE  IInv'
<1> USE AppConfig DEF IInv, Types
<1>1. UNCHANGED <<runVars, hints, dispatcher, sourceVars, killAt, answer>>
  BY DEF PoolPokes, WorkerEnds, PoolKills
<1>2. live[p] \in 0 .. Concurrency
  BY DEF PoolsOK
<1>3. PICK n \in 0 .. Concurrency : live' = [live EXCEPT ![p] = n]
  <2>1. CASE PoolPokes(p)
    <3>1. live' = [live EXCEPT ![p] = live[p] + 1] /\ live[p] + 1 \in 0 .. Concurrency
      BY <1>2, <2>1 DEF PoolPokes, PoolsOK
    <3> QED
      BY <3>1
  <2>2. CASE WorkerEnds(p)
    <3>1. PICK n \in live[p] - 1 .. Concurrency : live' = [live EXCEPT ![p] = n]
      BY <2>2 DEF WorkerEnds
    <3>2. n \in 0 .. Concurrency
      BY <1>2, <2>2, <3>1 DEF WorkerEnds
    <3> QED
      BY <3>1, <3>2
  <2>3. CASE PoolKills(p)
    <3>1. live' = [live EXCEPT ![p] = 0] /\ 0 \in 0 .. Concurrency
      BY <2>3 DEF PoolKills
    <3> QED
      BY <3>1
  <2> QED
    BY <2>1, <2>2, <2>3
<1>4. answer[p] # "nil"
  BY <1>2 DEF PoolPokes, WorkerEnds, PoolKills, Answered
<1>5. RunOK' /\ ChannelOK' /\ RequestOK' /\ ListenersOK' /\ PoolsOK'
  BY <1>1, <1>3 DEF RunOK, ChannelOK, RequestOK, ListenersOK, PoolsOK, runVars, sourceVars,
                    httpVars
<1>6. RedisOK'
  BY <1>1 DEF RedisOK, RedisTypeOK, ConnectedIsConfirmed, Doubling, sourceVars, redisVars
<1>7. \A q \in Pools : answer[q] = "nil" => live'[q] = live[q]
  BY <1>3, <1>4 DEF PoolsOK
<1>8. Ordered' /\ Answered' /\ Reported'
  BY <1>1, <1>7 DEF Ordered, Answered, Reported, SourcesDone, DispatcherDone, runVars,
                    sourceVars, httpVars, redisVars
<1> QED
  BY <1>5, <1>6, <1>8

\* A pool is asked in the last phase only, and its answer is true.
LEMMA AnswerStep ==
    ASSUME IInv, phase # "returned", NEW p \in Pools,
           PoolShutdown(p) \/ PoolEmpty(p) \/ PoolTimeout(p)
    PROVE  IInv'
<1> USE AppConfig DEF IInv, Types
<1>1. UNCHANGED <<now, phase, cancelled, hints, dispatcher, sourceVars, live>>
  BY DEF PoolShutdown, PoolEmpty, PoolTimeout, runVars
<1>2. phase = "pools"
  BY DEF PoolShutdown, PoolEmpty, PoolTimeout, Ordered
<1>3. PICK a \in {"pending", "nil", "err"} :
         /\ answer' = [answer EXCEPT ![p] = a]
         /\ a = "nil" => live[p] = 0
         /\ errs' = errs \cup {q \in {p} : a = "err"}
  BY DEF PoolShutdown, PoolEmpty, PoolTimeout, runVars
<1>4. killAt' \in [Pools -> Nat]
  BY DEF PoolShutdown, PoolEmpty, PoolTimeout, PoolsOK, RunOK
<1>5. RunOK' /\ ChannelOK' /\ RequestOK' /\ ListenersOK' /\ PoolsOK'
  BY <1>1, <1>2, <1>3, <1>4 DEF RunOK, ChannelOK, RequestOK, ListenersOK, PoolsOK, sourceVars,
                                httpVars
<1>6. RedisOK'
  BY <1>1 DEF RedisOK, RedisTypeOK, ConnectedIsConfirmed, Doubling, sourceVars, redisVars
<1>7. \A q \in Pools : answer'[q] = IF q = p THEN a ELSE answer[q]
  BY <1>3 DEF PoolsOK
<1>8. Ordered' /\ Answered' /\ Reported'
  BY <1>1, <1>2, <1>3, <1>7 DEF Ordered, Answered, Reported, SourcesDone, DispatcherDone,
                                sourceVars, httpVars, redisVars
<1> QED
  BY <1>5, <1>6, <1>8

\* Run begins to stop with at most the error that made it.
LEMMA StopBegins ==
    ASSUME IInv, Signalled \/ \E s \in Listeners : SourceFailed(s)
    PROVE  IInv'
<1> USE AppConfig DEF IInv, Types
<1>1. /\ phase = "run" /\ phase' = "sources" /\ cancelled' = TRUE
      /\ UNCHANGED <<now, hints, dispatcher, source, drainEnd, request, redisVars, failed, poolVars>>
  BY DEF Signalled, SourceFailed, sourceVars, httpVars
<1>2. /\ errc' \subseteq errc
      /\ errs' \subseteq Listeners
      /\ errc \subseteq errs' \cup errc'
  BY DEF Signalled, SourceFailed, sourceVars, httpVars, RunOK
<1>3. RunOK'
  BY <1>1, <1>2 DEF RunOK
<1>4. ChannelOK' /\ RequestOK' /\ ListenersOK' /\ PoolsOK'
  BY <1>1, <1>2 DEF ChannelOK, RequestOK, ListenersOK, PoolsOK, poolVars
<1>5. RedisOK'
  BY <1>1 DEF RedisOK, RedisTypeOK, ConnectedIsConfirmed, Doubling, redisVars
<1>6. \A p \in Pools : answer'[p] = "none"
  BY <1>1 DEF Ordered, poolVars
<1>7. Ordered' /\ Answered' /\ Reported'
  BY <1>1, <1>2, <1>6 DEF Ordered, Answered, Reported, RunOK
<1> QED
  BY <1>3, <1>4, <1>5, <1>7

\* Run goes on to the next phase, or returns with everything in errc.
LEMMA StopStep ==
    ASSUME IInv, Stop
    PROVE  IInv'
<1> USE AppConfig DEF IInv, Types
<1>1. UNCHANGED <<now, cancelled, hints, dispatcher, source, drainEnd, request, redisVars, failed,
                  poolVars>>
  BY DEF Stop, AwaitSources, AwaitDispatcher, Await, Returns, sourceVars, httpVars
<1>2. \/ /\ phase = "sources" /\ phase' = "dispatcher"
         /\ SourcesDone \/ "sources" \in errs'
      \/ /\ phase = "dispatcher" /\ phase' = "pools"
         /\ DispatcherDone \/ "dispatcher" \in errs'
      \/ /\ phase = "pools" /\ phase' = "returned"
         /\ \A p \in Pools : answer[p] \in {"nil", "err"}
         /\ errs' = errs \cup errc
  BY DEF Stop, AwaitSources, AwaitDispatcher, Await, Returns
<1>3. /\ errs \subseteq errs' /\ errs' \subseteq errs \cup errc \cup {"sources", "dispatcher"}
      /\ errc' \subseteq errc /\ errc \subseteq errs' \cup errc'
  BY DEF Stop, AwaitSources, AwaitDispatcher, Await, Returns, sourceVars, httpVars
<1>4. RunOK'
  BY <1>1, <1>2, <1>3 DEF RunOK, ListenersOK
<1>5. ChannelOK' /\ RequestOK' /\ ListenersOK' /\ PoolsOK'
  BY <1>1, <1>3 DEF ChannelOK, RequestOK, ListenersOK, PoolsOK, poolVars
<1>6. RedisOK'
  BY <1>1 DEF RedisOK, RedisTypeOK, ConnectedIsConfirmed, Doubling, redisVars
<1>7. Ordered' /\ Answered'
  BY <1>1, <1>2, <1>3 DEF Ordered, Answered, SourcesDone, DispatcherDone, redisVars, poolVars
<1>8. Reported'
  BY <1>1, <1>2, <1>3 DEF Reported
<1> QED
  BY <1>4, <1>5, <1>6, <1>7, <1>8

\* Steps that change nothing but the time.
LEMMA TimeStep ==
    ASSUME IInv, now' \in Nat,
           UNCHANGED <<phase, cancelled, errs, hints, dispatcher, sourceVars, poolVars>>
    PROVE  IInv'
<1> USE DEF IInv, Types, sourceVars, httpVars
<1>1. RunOK' /\ ChannelOK' /\ RequestOK' /\ ListenersOK' /\ PoolsOK'
  BY DEF RunOK, ChannelOK, RequestOK, ListenersOK, PoolsOK, poolVars
<1>2. RedisOK'
  BY DEF RedisOK, RedisTypeOK, ConnectedIsConfirmed, Doubling, redisVars
<1>3. Ordered' /\ Answered' /\ Reported'
  BY DEF Ordered, Answered, Reported, SourcesDone, DispatcherDone, redisVars, poolVars
<1> QED
  BY <1>1, <1>2, <1>3
-----------------------------------------------------------------------------
\* IInv is inductive.
LEMMA InductiveInvariant == Spec => []IInv
<1>1. ASSUME IInv, [Next]_vars
      PROVE  IInv'
  <2>1. CASE UNCHANGED vars
    <3>1. now' \in Nat
      BY <1>1, <2>1 DEF vars, IInv, Types, RunOK
    <3> QED
      BY <1>1, <2>1, <3>1, TimeStep DEF vars, sourceVars, httpVars, redisVars, poolVars
  <2>2. CASE Tick
    <3>1. now' \in Nat
      BY <1>1, <2>2 DEF Tick, IInv, Types, RunOK
    <3> QED
      BY <1>1, <2>2, <3>1, TimeStep DEF Tick
  <2>3. CASE Next /\ ~Tick
    <3>1. phase # "returned"
      BY <2>3 DEF Next, Up
    <3> QED
      BY <1>1, <2>3, <3>1, RequestStep, RedisAloneStep, ListenerStep, DispatcherStep, WorkersStep,
         AnswerStep, StopBegins, StopStep DEF Next, Pool
  <2> QED
    BY <1>1, <2>1, <2>2, <2>3
<1> QED
  BY InitIInv, <1>1, PTL DEF Spec

\* The channel, the sources, the pools and Run's state always have their types;
\* the hint channel is never overfull, and the backoff of the redis source stays
\* between reconnect_min and reconnect_max.
THEOREM AppTypeCorrect == Spec => []TypeOK
<1>1. IInv => TypeOK
  BY DEF IInv, Types, TypeOK, RunOK, ChannelOK, RequestOK, ListenersOK, RedisOK, PoolsOK
<1> QED
  BY InductiveInvariant, <1>1, PTL

\* A nil result of Run is true: sources, dispatcher and workers are all gone.
THEOREM NilIsTrue == Spec => []NilMeansClean
<1>1. IInv => NilMeansClean
  BY DEF IInv, Ordered, Answered, NilMeansClean
<1> QED
  BY InductiveInvariant, <1>1, PTL

\* No pool is shut down while a source or the dispatcher may still hint it,
\* unless Run reports that it gave up waiting.
THEOREM PoolsLast == Spec => []PoolsStopLast
<1>1. IInv => PoolsStopLast
  BY DEF IInv, Ordered, PoolsStopLast
<1> QED
  BY InductiveInvariant, <1>1, PTL

\* The error of every source that failed before Run returned is in its result.
THEOREM ErrorsAreReported == Spec => []SourceErrorsReported
<1>1. IInv => SourceErrorsReported
  BY DEF IInv, Reported, SourceErrorsReported
<1> QED
  BY InductiveInvariant, <1>1, PTL

\* The redis_connected gauge is right after every reconnect and shutdown.
THEOREM GaugeIsRight == Spec => []ConnectedIsConfirmed
<1>1. IInv => ConnectedIsConfirmed
  BY DEF IInv, Types, RedisOK
<1> QED
  BY InductiveInvariant, <1>1, PTL

\* The pauses between sessions double up to reconnect_max, however sessions,
\* confirmations and losses follow each other.
THEOREM BackoffIsRight == Spec => []BackoffDoubles
<1>1. IInv => BackoffDoubles
  BY DEF IInv, Types, RedisOK, Doubling, BackoffDoubles
<1> QED
  BY InductiveInvariant, <1>1, PTL
=============================================================================
