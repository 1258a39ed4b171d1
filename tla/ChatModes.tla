----------------------------- MODULE ChatModes ------------------------------
(***************************************************************************)
(* Both modes of the orchestrator at once: requests that try their         *)
(* candidates in turn and requests that race them share the Map of         *)
(* circuits (src/src/lib/circuitBreaker.js).  A race is one of the tasks   *)
(* of the queue as well; it is left out here what it waits for there, so   *)
(* that races may begin at any time.                                       *)
(***************************************************************************)
EXTENDS Orchestrator

CONSTANTS Races, Parallel   \* see BatchRace
VARIABLE race               \* see BatchRace

Batch == INSTANCE BatchRace

allVars == <<vars, race>>

ModesInit == Init /\ Batch!Init

\* A step of one mode leaves what the other keeps, but for the circuits.
ModesNext ==
    \/ Next /\ UNCHANGED race
    \/ Batch!Next /\ UNCHANGED <<queueVars, request>>

ModesSpec == ModesInit /\ [][ModesNext]_allVars

-----------------------------------------------------------------------------
(* The breaker sees the candidates of requests and the tasks of races as   *)
(* its callers.                                                            *)

SharedCalls == Positions \cup Batch!Positions

SharedFlight ==
    [c \in SharedCalls |->
       IF c \in Positions
       THEN IF Pending(c[1], c[2]) THEN request[c[1]].plan[c[2]] ELSE None
       ELSE IF c[2] \in Batch!Tasks(c[1])
                 /\ race[c[1]].phase[c[2]] \in {"calling", "won", "storing"}
            THEN race[c[1]].plan[c[2]] ELSE None]

SharedBreaker == INSTANCE CircuitBreaker WITH Calls <- SharedCalls, flight <- SharedFlight

\* However steps of both modes alternate, every outcome reported is one of a
\* candidate that was let through, and is reported once.
ModesImplementBreaker == SharedBreaker!Spec

\* Circuits that both modes report to keep counter and state in agreement.
SharedFailuresMatchState == SharedBreaker!FailuresMatchState
=============================================================================
