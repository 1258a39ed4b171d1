---------------------------- MODULE Orchestrator ----------------------------
(***************************************************************************)
(* A chat request from handleOrchestratedChat to its answer: the queue of  *)
(* QueueManager, the circuit breaker, bounded retries and failover over a  *)
(* list of candidates (src/src/sse/services/orchestrator.js).              *)
(*                                                                         *)
(* Each request runs in one async function.  What it does between two      *)
(* awaits is one step; at every await the other requests run, and the      *)
(* awaited operation may throw, which ends the request.  Some awaits are   *)
(* optional, such as the look-up of a local default model before a call;   *)
(* they are covered by the steps of others at the same pc.  A candidate is *)
(* its provider: two accounts of one provider are two equal candidates.    *)
(* The routing engine, the subscription filter and handleChatCore are      *)
(* external: they return any of the lists and outcomes their callers       *)
(* handle.  Batch mode is the module BatchRace.                            *)
(***************************************************************************)
EXTENDS BreakerEntry, FiniteSets, SequencesExt

CONSTANTS
    Requests, Groups, Intents, DefaultLimit,   \* see QueueManager
    Providers, None,                           \* see CircuitBreaker
    CandidateLists,   \* lists the routing engine may return
    MaxCandidates,    \* the length of the longest of them
    MaxRetries        \* DEFAULT_MAX_RETRIES

Answers == {"noAccounts", "circuitOpen", "success", "clientError", "rateLimited",
            "exhausted", "threw"}

ASSUME OrchestratorAssumption ==
    /\ IsFiniteSet(Requests)
    /\ DefaultLimit \in Nat
    /\ None \notin Providers \cup Answers
    /\ MaxCandidates \in Nat
    /\ \A list \in CandidateLists :
         list \in Seq(Providers) /\ Len(list) <= MaxCandidates
    /\ MaxRetries \in Nat

VARIABLES
    queue, executing, activeCount, concurrencyLimit, priority,
    circuit,    \* as in CircuitBreaker
    request     \* request[r]: where r stands

queueVars == <<queue, executing, activeCount, concurrencyLimit, priority>>
vars == <<queueVars, circuit, request>>

Queue == INSTANCE QueueManager WITH Limits <- {}

NewRequest ==
    [pc |-> "new",       \* the await r is at
     plan |-> <<>>,      \* finalCandidates
     index |-> 1,        \* the loop over them
     attempt |-> 0,      \* retries of the current candidate
     answer |-> None,
     reported |-> <<>>]  \* history: providers a failure was recorded for

\* The candidate r is at.
Candidate(r) == request[r].plan[request[r].index]
At(r, where) == request[r].pc = where
Update(r, new) == request' = [request EXCEPT ![r] = new]

\* The task of r returns or throws.
Finish(r, answer) ==
    Update(r, [request[r] EXCEPT !.pc = "finished", !.answer = answer])

-----------------------------------------------------------------------------
Init ==
    /\ Queue!Init
    /\ circuit = [p \in Providers |-> NewEntry]
    /\ request = [r \in Requests |-> NewRequest]

\* handleOrchestratedChat: the request is queued, and perhaps started.
Submit(r) ==
    /\ At(r, "new")
    /\ \E g \in Groups, i \in Intents : Queue!Enqueue(r, g, i)
    /\ Update(r, [request[r] EXCEPT !.pc = "submitted"])
    /\ UNCHANGED circuit

\* The candidates arrive and pass the circuit filter, once for the request.
Route(r) ==
    /\ At(r, "submitted")
    /\ r \in executing
    /\ \E list \in CandidateLists :
         LET kept == LetThrough(list, circuit) IN
         /\ circuit' = [p \in Providers |->
                          IF p \in ToSet(list) THEN Consulted(circuit[p])
                                               ELSE circuit[p]]
         /\ \/ list = <<>> /\ Finish(r, "noAccounts")
            \/ list # <<>> /\ kept = <<>> /\ Finish(r, "circuitOpen")
            \/ /\ kept # <<>>
               /\ Update(r, [request[r] EXCEPT !.pc = "preparing", !.plan = kept])
    /\ UNCHANGED queueVars

\* handleChatCore is called: for a new candidate, or again after the delay.
Call(r) ==
    /\ \/ /\ At(r, "preparing")
          /\ Update(r, [request[r] EXCEPT !.pc = "calling", !.attempt = 0])
       \/ /\ At(r, "backoff")
          /\ Update(r, [request[r] EXCEPT !.pc = "calling", !.attempt = @ + 1])
    /\ UNCHANGED <<queueVars, circuit>>

\* A 4xx answer ends the request, the candidates behind it untried.
ClientError(r) ==
    /\ At(r, "calling")
    /\ \E answer \in {"clientError", "rateLimited"} : Finish(r, answer)
    /\ UNCHANGED <<queueVars, circuit>>

Succeed(r) ==
    /\ At(r, "calling")
    /\ circuit' = [circuit EXCEPT ![Candidate(r)] = Succeeded(@)]
    /\ Update(r, [request[r] EXCEPT !.pc = "recording"])
    /\ UNCHANGED queueVars

\* Faulty: the retries are not counted against their maximum.
RetryUnbounded(r) ==
    /\ At(r, "calling")
    /\ Update(r, [request[r] EXCEPT !.pc = "backoff"])
    /\ UNCHANGED <<queueVars, circuit>>

\* Faulty: the breaker is told of every attempt.
RetryReporting(r) ==
    /\ At(r, "calling")
    /\ request[r].attempt < MaxRetries
    /\ circuit' = [circuit EXCEPT ![Candidate(r)] = Failed(@)]
    /\ Update(r, [request[r] EXCEPT !.pc = "backoff"])
    /\ UNCHANGED queueVars

\* Faulty: the slot of the queue is given up during the delay.
RetryWithoutSlot(r) ==
    /\ At(r, "calling")
    /\ request[r].attempt < MaxRetries
    /\ Queue!Settle(r)
    /\ Update(r, [request[r] EXCEPT !.pc = "backoff"])
    /\ UNCHANGED circuit

\* A retryable failure with retries left: the delay starts.
Retry(r) ==
    /\ At(r, "calling")
    /\ request[r].attempt < MaxRetries
    /\ Update(r, [request[r] EXCEPT !.pc = "backoff"])
    /\ UNCHANGED <<queueVars, circuit>>

\* A failure that is not retryable, or the last one: the breaker is told once
\* for the candidate, then the failure callbacks are awaited.
Fail(r) ==
    /\ At(r, "calling")
    /\ circuit' = [circuit EXCEPT ![Candidate(r)] = Failed(@)]
    /\ Update(r, [request[r] EXCEPT !.pc = "reporting",
                                    !.reported = Append(@, Candidate(r))])
    /\ UNCHANGED queueVars

\* Faulty: the last candidate of the list is never tried.
FailoverShort(r) ==
    /\ At(r, "reporting")
    /\ \/ /\ request[r].index + 1 < Len(request[r].plan)
          /\ Update(r, [request[r] EXCEPT !.pc = "preparing", !.index = @ + 1])
       \/ /\ request[r].index + 1 >= Len(request[r].plan)
          /\ Finish(r, "exhausted")
    /\ UNCHANGED <<queueVars, circuit>>

\* Faulty: the list is tried from its beginning until something answers.
FailoverForever(r) ==
    /\ At(r, "reporting")
    /\ LET s == request[r] IN
       Update(r, [s EXCEPT !.pc = "preparing",
                           !.index = IF @ < Len(s.plan) THEN @ + 1 ELSE 1,
                           !.reported = <<>>])
    /\ UNCHANGED <<queueVars, circuit>>

\* On to the next candidate, or to the error when there is none.
Failover(r) ==
    /\ At(r, "reporting")
    /\ \/ /\ request[r].index < Len(request[r].plan)
          /\ Update(r, [request[r] EXCEPT !.pc = "preparing", !.index = @ + 1])
       \/ /\ request[r].index = Len(request[r].plan)
          /\ Finish(r, "exhausted")
    /\ UNCHANGED <<queueVars, circuit>>

\* Usage, cost and connection metrics are stored, then the answer returned.
Record(r) ==
    /\ At(r, "recording")
    /\ Finish(r, "success")
    /\ UNCHANGED <<queueVars, circuit>>

\* Something awaited throws: the request ends, whatever the provider said.
Throw(r) ==
    /\ request[r].pc \in {"submitted", "preparing", "calling", "reporting", "recording"}
    /\ r \in executing
    /\ Finish(r, "threw")
    /\ UNCHANGED <<queueVars, circuit>>

\* The queue passes the answer on and starts the next request; r is free for
\* another one.
Settle(r) ==
    /\ At(r, "finished")
    /\ Queue!Settle(r)
    /\ Update(r, NewRequest)
    /\ UNCHANGED circuit

Tick ==
    /\ circuit' = [p \in Providers |-> Aged(circuit[p])]
    /\ UNCHANGED <<queueVars, request>>

\* The steps that take r further, other than waiting for its turn.
Work(r) ==
    \/ Route(r) \/ Call(r)
    \/ ClientError(r) \/ Succeed(r) \/ Retry(r) \/ Fail(r)
    \/ Failover(r) \/ Record(r) \/ Throw(r)
    \/ Settle(r)

Next ==
    \/ \E r \in Requests : Submit(r) \/ Work(r)
    \/ Tick

Spec == Init /\ [][Next]_vars

\* Every await returns or throws in the end.
FairSpec == Spec /\ \A r \in Requests : WF_vars(Work(r))

-----------------------------------------------------------------------------
(* Properties.                                                             *)

TypeOK ==
    /\ Queue!TypeOK
    /\ circuit \in [Providers -> Entry]
    /\ \A r \in Requests :
         /\ request[r].pc \in {"new", "submitted", "preparing", "calling", "backoff",
                               "reporting", "recording", "finished"}
         /\ request[r].plan \in Seq(Providers)
         /\ request[r].index \in 1..(Len(request[r].plan) + 1)
         /\ request[r].attempt \in 0..MaxRetries
         /\ request[r].answer \in Answers \cup {None}

\* A slot of the queue is held by exactly the requests that are past the
\* queue and not settled, backoff delays and failure callbacks included: no
\* path through the loop, error or exception loses a slot or keeps one.
SlotHeldUntilSettled ==
    \A r \in Requests :
        IF request[r].pc = "submitted"
        THEN r \in executing \/ r \in Queue!Queued
        ELSE r \in executing <=> ~At(r, "new")

\* An error that blames the candidates is given only when every candidate the
\* filter kept was tried and its failure recorded once, in the order of the
\* list; an answer was found at the first candidate that did not fail.
EveryCandidateTried ==
    \A r \in Requests :
        LET s == request[r] IN
        /\ s.answer = "exhausted" => s.reported = s.plan
        /\ s.answer \in {"success", "clientError", "rateLimited"} =>
             /\ s.reported = SubSeq(s.plan, 1, s.index - 1)
             /\ s.index <= Len(s.plan)

\* Every request that is submitted gets an answer, however many others arrive
\* with the same priority.
EveryRequestAnswered ==
    \A r \in Requests : At(r, "submitted") ~> At(r, "finished")

\* The breaker sees the orchestrator as the callers of CircuitBreaker: every
\* candidate that passed the filter fills a slot until its one outcome is
\* reported or the request ends.
Positions == Requests \X (1..MaxCandidates)

Pending(r, i) ==
    /\ i <= Len(request[r].plan)
    /\ \/ request[r].pc \in {"preparing", "calling", "backoff"} /\ i >= request[r].index
       \/ request[r].pc \in {"reporting", "recording"} /\ i > request[r].index

Breaker == INSTANCE CircuitBreaker WITH
    Calls <- Positions,
    flight <- [c \in Positions |->
                 IF Pending(c[1], c[2]) THEN request[c[1]].plan[c[2]] ELSE None]

ImplementsBreaker == Breaker!Spec

\* r starts a call to p.
StartsCall(r, p) == Call(r) /\ Candidate(r) = p

\* "open (reject)", src/src/lib/circuitBreaker.js:3: no call starts while the
\* circuit of its provider is open.
NoCallWhileOpen ==
    [][\A r \in Requests, p \in Providers :
         StartsCall(r, p) => circuit[p].state # "open"]_vars

\* "on 5xx/429 calls onFailure and tries the next", docs/ARCHITECTURE.md:264:
\* a request is refused with 429 only when no candidate is left.
RateLimitFailsOver ==
    \A r \in Requests :
        request[r].answer = "rateLimited" => request[r].index = Len(request[r].plan)
=============================================================================
