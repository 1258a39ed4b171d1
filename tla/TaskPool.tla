------------------------------ MODULE TaskPool ------------------------------
(***************************************************************************)
(* What a priority pool with a concurrency limit promises, with no queue   *)
(* order and no counter: a set of waiting tasks, a set of running ones,    *)
(* and one chance to start a task at each arrival, end of a task or change *)
(* of the limit.  QueueManager implements it.                              *)
(***************************************************************************)
EXTENDS Integers, FiniteSets

CONSTANTS
    Tasks,       \* identities of tasks, finitely many
    Priorities,  \* the numbers a task may be given as priority
    Limits       \* values the concurrency limit may take

VARIABLES
    waiting,    \* tasks submitted and not started
    running,    \* tasks started and not finished
    limit,      \* the concurrency limit
    priority    \* priority[t]: the priority t was last submitted with

vars == <<waiting, running, limit, priority>>

Init ==
    /\ waiting = {}
    /\ running = {}
    /\ limit \in Limits
    /\ priority \in [Tasks -> Priorities]

\* With w waiting and u running under limit l, and priorities pr: one task
\* of the highest waiting priority starts if there is room for it.
StartOne(w, u, l, pr) ==
    \/ /\ Cardinality(u) >= l \/ w = {}
       /\ waiting' = w
       /\ running' = u
    \/ /\ Cardinality(u) < l
       /\ \E t \in w :
            /\ \A s \in w : pr[s] <= pr[t]
            /\ waiting' = w \ {t}
            /\ running' = u \cup {t}

Submit(t, n) ==
    /\ t \notin waiting \cup running
    /\ priority' = [priority EXCEPT ![t] = n]
    /\ StartOne(waiting \cup {t}, running, limit, priority')
    /\ UNCHANGED limit

Finish(t) ==
    /\ t \in running
    /\ StartOne(waiting, running \ {t}, limit, priority)
    /\ UNCHANGED <<limit, priority>>

Resize(l) ==
    /\ limit' = l
    /\ StartOne(waiting, running, l, priority)
    /\ UNCHANGED priority

Next ==
    \/ \E t \in Tasks, n \in Priorities : Submit(t, n)
    \/ \E t \in Tasks : Finish(t)
    \/ \E l \in Limits : Resize(l)

Spec == Init /\ [][Next]_vars
=============================================================================
