---------------------------- MODULE PoolContract ----------------------------
(***************************************************************************)
(* What a pool promises to the rest of the program, without its mutex, its *)
(* goroutines, its breaker or its clock: workers come one at a time and    *)
(* only while there is room and nobody asked it to stop; a call of         *)
(* Shutdown closes it for good and answers nil only when no worker is      *)
(* left; and a closed pool empties.                                        *)
(***************************************************************************)
EXTENDS Integers, FiniteSets

CONSTANTS Workers, Concurrency

VARIABLES
    live,       \* workers that occupy a slot
    accepting,  \* Shutdown has not been called
    reply       \* what the last call of Shutdown answered

vars == <<live, accepting, reply>>

Init ==
    /\ live = {}
    /\ accepting = TRUE
    /\ reply = "none"

Start(w) ==
    /\ accepting
    /\ w \notin live
    /\ Cardinality(live) < Concurrency
    /\ live' = live \cup {w}
    /\ UNCHANGED <<accepting, reply>>

End(w) ==
    /\ w \in live
    /\ live' = live \ {w}
    /\ UNCHANGED <<accepting, reply>>

Close ==
    /\ reply # "pending"
    /\ accepting' = FALSE
    /\ reply' = "pending"
    /\ UNCHANGED live

AnswerNil ==
    /\ reply = "pending"
    /\ live = {}
    /\ reply' = "nil"
    /\ UNCHANGED <<live, accepting>>

AnswerErr ==
    /\ reply = "pending"
    /\ reply' = "err"
    /\ UNCHANGED <<live, accepting>>

Next ==
    \/ \E w \in Workers : Start(w) \/ End(w)
    \/ Close \/ AnswerNil \/ AnswerErr

Spec == Init /\ [][Next]_vars

\* A closed pool gets rid of each of its workers.
FairSpec == Spec /\ \A w \in Workers : WF_vars(~accepting /\ End(w))
=============================================================================
