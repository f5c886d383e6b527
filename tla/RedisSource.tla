----------------------------- MODULE RedisSource -----------------------------
(***************************************************************************)
(* The redis hint source (internal/redisin/source.go): Run opens one       *)
(* session after the other, with a growing pause between them, and each    *)
(* session subscribes and forwards messages to the hint channel.  The      *)
(* goroutine closeOnCancel closes the subscription of a session when the   *)
(* run context ends, since a blocked Receive would not notice.             *)
(*                                                                         *)
(* The module only has the source's actions; App composes them with the    *)
(* other sources, the dispatcher and the pools.  The connection may be     *)
(* lost at any moment.  The backoff timer fires at any moment too.  A      *)
(* message that is no hint for a channel (another prefix, a payload that   *)
(* is no count) is only logged and counted; it changes nothing here.       *)
(***************************************************************************)
EXTENDS Integers, Sequences

CONSTANTS
    Pools,              \* channels of the enabled pools
    OtherChannels,      \* channels of disabled pools or of no pool
    Buffer,             \* hintBuffer
    ReconnectMin,       \* redis.reconnect_min
    ReconnectMax,       \* redis.reconnect_max
    MaxTries,           \* bound: pauses in a row that are told apart
    None

\* What Config.validateRedisBackoff lets through.
ASSUME RedisConfig ==
    /\ None \notin Pools \cup OtherChannels
    /\ Buffer \in Nat \ {0}
    /\ ReconnectMin \in Nat \ {0}
    /\ ReconnectMax \in Nat
    /\ ReconnectMin <= ReconnectMax
    /\ MaxTries \in Nat

\* The last pause that is told apart is a capped one.
ASSUME TriesBound == ReconnectMin * 2 ^ MaxTries >= ReconnectMax

\* What ^ means, stated because the provers have no rule for it.
ASSUME PowersOfTwo == 2 ^ 0 = 1 /\ \A n \in 0 .. MaxTries : 2 ^ (n + 1) = 2 * 2 ^ n

Channels == Pools \cup OtherChannels

VARIABLES
    cancelled,  \* the run context is done
    hints,      \* the hint channel
    redis,      \* where Run is, and its backoff
    closed,     \* the subscription of this session was closed
    connected,  \* the redis_connected gauge
    message,    \* channel of the message being forwarded, or None
    tries       \* history: pauses since a subscription was confirmed

redisVars == <<redis, closed, connected, message, tries>>

\* A session that has not heard from the server yet.
Session(backoff) == [at |-> "dialing", backoff |-> backoff]

Returned == [at |-> "done", backoff |-> ReconnectMin]

RedisInit(enabled) ==
    /\ redis = IF enabled THEN Session(ReconnectMin) ELSE Returned
    /\ closed = FALSE
    /\ connected = FALSE
    /\ message = None
    /\ tries = 0

\* Mutant: the channel has no bound.
SendUnbounded(c) == hints' = Append(hints, c)

\* A send on the hint channel waits for room in the buffer.
Send(c) ==
    /\ Len(hints) < Buffer
    /\ hints' = Append(hints, c)

InSession == redis.at \in {"dialing", "subscribed"}

Receiving == InSession /\ message = None
-----------------------------------------------------------------------------
(***************************************************************************)
(* One session.                                                            *)
(***************************************************************************)
\* Receive returns the confirmation of the subscription.
ReceiveSubscription ==
    /\ Receiving /\ redis.at = "dialing" /\ ~closed
    /\ redis' = [at |-> "subscribed", backoff |-> redis.backoff]
    /\ connected' = TRUE
    /\ tries' = 0
    /\ UNCHANGED <<hints, closed, message>>

\* Receive returns a message with a count for channel c, whoever uses that.
ReceiveMessage(c) ==
    /\ Receiving /\ redis.at = "subscribed" /\ ~closed
    /\ message' = c
    /\ UNCHANGED <<hints, redis, closed, connected, tries>>

\* forward: the hint channel has room.
MessageForwarded ==
    /\ message # None
    /\ Send(message)
    /\ message' = None
    /\ UNCHANGED <<redis, closed, connected, tries>>

\* Mutant: forward waits for room in the channel only.
MessageStuck ==
    /\ FALSE
    /\ UNCHANGED <<hints, redisVars>>

\* forward: the context is done.
MessageCancelled ==
    /\ message # None
    /\ cancelled
    /\ message' = None
    /\ UNCHANGED <<hints, redis, closed, connected, tries>>

\* Mutant: nobody closes the subscription.
CloseOnCancelMissing ==
    /\ FALSE
    /\ UNCHANGED <<hints, redisVars>>

\* closeOnCancel, also while a message is being forwarded.
CloseOnCancel ==
    /\ InSession /\ ~closed
    /\ cancelled
    /\ closed' = TRUE
    /\ UNCHANGED <<hints, redis, connected, message, tries>>

\* Mutants: every lost session resets the backoff; the gauge is left alone; Run
\* gives up after a session without a subscription.
SessionEndsResets ==
    /\ Receiving
    /\ redis' = IF cancelled THEN Returned ELSE [at |-> "wait", backoff |-> ReconnectMin]
    /\ closed' = FALSE
    /\ connected' = FALSE
    /\ UNCHANGED <<hints, message, tries>>

SessionEndsConnected ==
    /\ Receiving
    /\ redis' = IF cancelled THEN Returned
                ELSE [at |-> "wait", backoff |-> IF redis.at = "subscribed" THEN ReconnectMin
                                                 ELSE redis.backoff]
    /\ closed' = FALSE
    /\ UNCHANGED <<hints, connected, message, tries>>

SessionEndsForGood ==
    /\ Receiving
    /\ redis' = IF cancelled \/ redis.at = "dialing" THEN Returned
                ELSE [at |-> "wait", backoff |-> ReconnectMin]
    /\ closed' = FALSE
    /\ connected' = FALSE
    /\ UNCHANGED <<hints, message, tries>>

\* Receive returns an error: the session is torn down, and Run returns or waits;
\* only a session that was confirmed resets the backoff.
SessionEnds ==
    /\ Receiving
    /\ redis' = IF cancelled THEN Returned
                ELSE [at |-> "wait", backoff |-> IF redis.at = "subscribed" THEN ReconnectMin
                                                 ELSE redis.backoff]
    /\ closed' = FALSE
    /\ connected' = FALSE
    /\ UNCHANGED <<hints, message, tries>>

\* The subscription was closed, as opposed to the connection being lost.
ReceiveClosed == closed /\ SessionEnds
-----------------------------------------------------------------------------
(***************************************************************************)
(* Between two sessions.                                                   *)
(***************************************************************************)
Smaller(a, b) == IF a < b THEN a ELSE b

\* The pause is over, perhaps in the instant the context ends: the next one is
\* twice as long, up to ReconnectMax.
BackoffOver ==
    /\ redis.at = "wait"
    /\ redis' = Session(Smaller(2 * redis.backoff, ReconnectMax))
    /\ tries' = Smaller(tries + 1, MaxTries)
    /\ UNCHANGED <<hints, closed, connected, message>>

WaitCancelled ==
    /\ redis.at = "wait"
    /\ cancelled
    /\ redis' = Returned
    /\ UNCHANGED <<hints, closed, connected, message, tries>>

\* What the source does without the server.
RedisSteps ==
    \/ MessageForwarded \/ MessageCancelled
    \/ CloseOnCancel \/ ReceiveClosed
    \/ WaitCancelled

\* What the server, the network and the timer do.
RedisEvents ==
    \/ ReceiveSubscription \/ SessionEnds \/ BackoffOver
    \/ \E c \in Channels : ReceiveMessage(c)
-----------------------------------------------------------------------------
RedisTypeOK ==
    /\ redis \in [at : {"dialing", "subscribed", "wait", "done"},
                  backoff : ReconnectMin .. ReconnectMax]
    /\ closed \in BOOLEAN
    /\ connected \in BOOLEAN
    /\ message \in Channels \cup {None}
    /\ tries \in 0 .. MaxTries

\* The pause after n others since the last confirmed subscription.
Delay(n) == Smaller(ReconnectMin * 2 ^ n, ReconnectMax)

\* Run: "retried after reconnect_min, doubling up to reconnect_max; the backoff
\* resets once a subscription is confirmed again", and by nothing else.
BackoffDoubles == redis.at = "wait" => redis.backoff = Delay(tries)

\* RedisConnected: the gauge is "true once the server confirmed" the
\* subscription and "false when the session ends", also after Run returned.
ConnectedIsConfirmed == connected <=> redis.at = "subscribed"
=============================================================================
