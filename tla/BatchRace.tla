----------------------------- MODULE BatchRace ------------------------------
(***************************************************************************)
(* Batch mode of the orchestrator: _executeBatchChat of                    *)
(* src/src/sse/services/orchestrator.js races several candidates of one    *)
(* request, aborts the others when one has an answer, and returns what     *)
(* Promise.any returns.                                                    *)
(*                                                                         *)
(* A task is one async function per candidate; what it does between two    *)
(* awaits is one step.  It reports its success before it announces it, and *)
(* stores metrics after it aborted the others and before it returns; the   *)
(* stores may throw, the lifecycle events do not.  handleChatCore is       *)
(* external: it answers, fails, or throws an AbortError, which the code    *)
(* knows by its name only, whether the signal is aborted or a call broke   *)
(* off by itself.  The tasks that lose go on after the request has its     *)
(* answer; a slot for requests is used again when all of them have ended.  *)
(***************************************************************************)
EXTENDS BreakerEntry, FiniteSets, SequencesExt

CONSTANTS
    Races,            \* slots for batch requests
    Providers, None,  \* see CircuitBreaker
    CandidateLists,   \* lists the routing engine may return
    Parallel          \* batchRule.parallel

ASSUME RaceAssumption ==
    /\ CandidateLists \subseteq Seq(Providers)
    /\ Parallel \in Nat \ {0}
    /\ None \notin Providers \cup {"returned", "aborted", "allFailed"}

VARIABLES
    circuit,   \* as in CircuitBreaker
    race       \* race[b]: the batch request in slot b

vars == <<circuit, race>>

Idle == [plan |-> <<>>,       \* batchCandidates
         phase |-> <<>>,      \* phase[i]: where the task of plan[i] is
         signal |-> FALSE,    \* abortController.signal
         answer |-> None,     \* what Promise.any gave
         answered |-> FALSE]  \* history: a provider answered

\* A task is over when its promise is settled.
Fulfilled == {"returned", "aborted"}
Settled == Fulfilled \cup {"rejected"}

Tasks(b) == DOMAIN race[b].plan
At(b, i, phase) == i \in Tasks(b) /\ race[b].phase[i] = phase
Over(b) == \A i \in Tasks(b) : race[b].phase[i] \in Settled

\* Faulty: Promise.all, which the first task to fail decides.
AnswerOfAll(b, phases, i) ==
    IF race[b].answer # None THEN race[b].answer
    ELSE IF phases[i] = "rejected" THEN "allFailed"
    ELSE IF \A j \in Tasks(b) : phases[j] \in Fulfilled THEN phases[i]
    ELSE None

\* Faulty: nobody catches the AggregateError.
AnswerUncaught(b, phases, i) ==
    IF race[b].answer # None THEN race[b].answer
    ELSE IF phases[i] \in Fulfilled THEN phases[i]
    ELSE None

\* Task i of b goes to another phase, and Promise.any notices.
Answer(b, phases, i) ==
    IF race[b].answer # None THEN race[b].answer
    ELSE IF phases[i] \in Fulfilled THEN phases[i]
    ELSE IF \A j \in Tasks(b) : phases[j] = "rejected" THEN "allFailed"
    ELSE None

Move(b, i, phase) ==
    LET phases == [race[b].phase EXCEPT ![i] = phase] IN
    [race[b] EXCEPT !.phase = phases, !.answer = Answer(b, phases, i)]

Update(b, new) == race' = [race EXCEPT ![b] = new]

-----------------------------------------------------------------------------
Init ==
    /\ circuit = [p \in Providers |-> NewEntry]
    /\ race = [b \in Races |-> Idle]

\* The circuit filter, then a task for each of the first candidates; when none
\* is left the request is refused and the slot is idle again.
Start(b) ==
    /\ Over(b)
    /\ \E list \in CandidateLists :
         LET kept == LetThrough(list, circuit)
             plan == SubSeq(kept, 1, IF Len(kept) < Parallel THEN Len(kept) ELSE Parallel)
         IN
         /\ circuit' = [p \in Providers |->
                          IF p \in ToSet(list) THEN Consulted(circuit[p])
                                               ELSE circuit[p]]
         /\ Update(b, [Idle EXCEPT !.plan = plan,
                                   !.phase = [i \in DOMAIN plan |-> "calling"]])

\* The provider answers: the breaker is told, then the event is awaited.
Win(b, i) ==
    /\ At(b, i, "calling")
    /\ circuit' = [circuit EXCEPT ![race[b].plan[i]] = Succeeded(@)]
    /\ Update(b, [Move(b, i, "won") EXCEPT !.answered = TRUE])

\* The others are aborted; the stores of the metrics begin.
Announce(b, i) ==
    /\ At(b, i, "won")
    /\ Update(b, [Move(b, i, "storing") EXCEPT !.signal = TRUE])
    /\ UNCHANGED circuit

Return(b, i) ==
    /\ At(b, i, "storing")
    /\ Update(b, Move(b, i, "returned"))
    /\ UNCHANGED circuit

\* Any status but a success, an exception, or a store that throws: the catch
\* block tells the breaker, then awaits the event.
Fail(b, i) ==
    /\ At(b, i, "calling") \/ At(b, i, "storing")
    /\ circuit' = [circuit EXCEPT ![race[b].plan[i]] = Failed(@)]
    /\ Update(b, Move(b, i, "failing"))

\* Faulty: the failure is recorded again where the task is rejected.
RejectReporting(b, i) ==
    /\ At(b, i, "failing")
    /\ circuit' = [circuit EXCEPT ![race[b].plan[i]] = Failed(@)]
    /\ Update(b, Move(b, i, "rejected"))

Reject(b, i) ==
    /\ At(b, i, "failing")
    /\ Update(b, Move(b, i, "rejected"))
    /\ UNCHANGED circuit

\* An AbortError, of a call that was told to stop or of one that broke off by
\* itself, or of a store: the task is fulfilled, with a marker.
Abort(b, i) ==
    /\ At(b, i, "calling") \/ At(b, i, "storing")
    /\ Update(b, Move(b, i, "aborted"))
    /\ UNCHANGED circuit

Tick ==
    /\ circuit' = [p \in Providers |-> Aged(circuit[p])]
    /\ UNCHANGED race

Step(b, i) ==
    \/ Win(b, i) \/ Announce(b, i) \/ Return(b, i)
    \/ Fail(b, i) \/ Reject(b, i) \/ Abort(b, i)

Next ==
    \/ \E b \in Races : Start(b) \/ \E i \in 1..Parallel : Step(b, i)
    \/ Tick

Spec == Init /\ [][Next]_vars

\* Every await of every task returns or throws in the end.
FairSpec == Spec /\ \A b \in Races, i \in 1..Parallel : WF_vars(Step(b, i))

-----------------------------------------------------------------------------
(* Properties.                                                             *)

TypeOK ==
    /\ circuit \in [Providers -> Entry]
    /\ \A b \in Races :
         /\ race[b].plan \in Seq(Providers)
         /\ DOMAIN race[b].phase = Tasks(b)
         /\ ToSet(race[b].phase) \subseteq {"calling", "won", "storing", "failing"} \cup Settled
         /\ race[b].signal \in BOOLEAN
         /\ race[b].answer \in Fulfilled \cup {"allFailed", None}
         /\ race[b].answered \in BOOLEAN

\* A race is decided by its tasks, whoever finishes first: nobody is told to
\* stop before a provider answered, and a result is returned only when the rest
\* was told to; the marker of an aborted task is returned when one was aborted,
\* be it that its call broke off by itself; 503 means that every task failed;
\* and no answer is outstanding when a task was fulfilled or all of them failed.
AnswerJustified ==
    \A b \in Races :
        LET Ended(i, phase) == race[b].phase[i] = phase IN
        /\ race[b].signal => race[b].answered
        /\ race[b].answer = "returned" =>
             race[b].signal /\ \E i \in Tasks(b) : Ended(i, "returned")
        /\ race[b].answer = "aborted" => \E i \in Tasks(b) : Ended(i, "aborted")
        /\ race[b].answer = "allFailed" => \A i \in Tasks(b) : Ended(i, "rejected")
        /\ race[b].answer = None =>
             /\ \A i \in Tasks(b) : race[b].phase[i] \notin Fulfilled
             /\ Tasks(b) # {} => \E i \in Tasks(b) : ~Ended(i, "rejected")

\* Every race is answered.
EveryRaceAnswered ==
    \A b \in Races : Tasks(b) # {} /\ race[b].answer = None ~> race[b].answer # None

\* The breaker sees the tasks as callers of CircuitBreaker, a task filling a
\* slot as long as it may report.
Positions == Races \X (1..Parallel)

Breaker == INSTANCE CircuitBreaker WITH
    Calls <- Positions,
    flight <- [c \in Positions |->
                 IF c[2] \in Tasks(c[1])
                      /\ race[c[1]].phase[c[2]] \in {"calling", "won", "storing"}
                 THEN race[c[1]].plan[c[2]] ELSE None]

ImplementsBreaker == Breaker!Spec

\* "Promise.any returns the first fulfilled promise (success)",
\* src/src/sse/services/orchestrator.js:683: what a race returns is an answer
\* of a provider or the error of them all.
ReturnsSuccess == \A b \in Races : race[b].answer # "aborted"
=============================================================================
