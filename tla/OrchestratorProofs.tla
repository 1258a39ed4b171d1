------------------------- MODULE OrchestratorProofs -------------------------
(***************************************************************************)
(* Proofs about Orchestrator for every finite set of requests, every limit *)
(* of the queue, every set of candidate lists and every number of retries, *)
(* and about BatchRace, the same handler in batch mode, for every set of   *)
(* races; about ChatModes, both modes at once.  What the queue and the     *)
(* breaker guarantee by themselves is taken from QueueManagerProofs and    *)
(* CircuitBreakerProofs.  Last, about SseStream, the answers on their way  *)
(* to the clients, for any number of streams and any bodies.               *)
(***************************************************************************)
EXTENDS ChatModes, TLAPS

QueueProofs == INSTANCE QueueManagerProofs WITH Limits <- {}

\* The breaker as the orchestrator uses it: see Breaker in Orchestrator.
Flight ==
    [c \in Positions |-> IF Pending(c[1], c[2]) THEN request[c[1]].plan[c[2]] ELSE None]

BreakerProofs == INSTANCE CircuitBreakerProofs WITH Calls <- Positions, flight <- Flight

-----------------------------------------------------------------------------
(* The invariant.                                                          *)

States == {"new", "submitted", "preparing", "calling", "backoff",
           "reporting", "recording", "finished"}

RequestState ==
    [pc : States, plan : Seq(Providers), index : Nat, attempt : 0..MaxRetries,
     answer : Answers \cup {None}, reported : Seq(Providers)]

\* The awaits of the loop over the candidates.
Looping == {"preparing", "calling", "backoff", "reporting", "recording"}

\* What the answer of a request says of its candidates.
AnswerEarned(s) ==
    /\ s.answer = "exhausted" => s.reported = s.plan
    /\ s.answer \in {"success", "clientError", "rateLimited"} =>
         /\ s.reported = SubSeq(s.plan, 1, s.index - 1)
         /\ s.index <= Len(s.plan)

\* In the loop, a failure is recorded for exactly the candidates before the
\* current one, and for the current one while the callbacks are awaited.
GoodRequest(s) ==
    /\ s \in RequestState
    /\ s.pc = "new" => s = NewRequest
    /\ s.pc = "submitted" => s = [NewRequest EXCEPT !.pc = "submitted"]
    /\ s.pc \in Looping =>
         /\ s.answer = None
         /\ s.index <= Len(s.plan)
         /\ s.reported = SubSeq(s.plan, 1, IF s.pc = "reporting" THEN s.index ELSE s.index - 1)
    /\ s.pc = "backoff" => s.attempt < MaxRetries
    /\ s.index \in 1..(Len(s.plan) + 1)
    /\ Len(s.plan) <= MaxCandidates
    /\ AnswerEarned(s)

\* A request is known to the queue from its submission to its end, and past
\* the queue its task is under way.
Placed ==
    \A r \in Requests :
        /\ At(r, "new") <=> r \notin executing \cup Queue!Queued
        /\ request[r].pc \notin {"new", "submitted"} => r \in executing

IInv ==
    /\ QueueProofs!IInv
    /\ circuit \in [Providers -> Entry]
    /\ request \in [Requests -> RequestState]
    /\ \A r \in Requests : GoodRequest(request[r])
    /\ Placed

-----------------------------------------------------------------------------
(* What is known of the queue.                                             *)

\* The assumptions of QueueManager are among those of Orchestrator.
LEMMA QueueAssumed == QueueProofs!QueueAssumption
BY OrchestratorAssumption DEF QueueProofs!QueueAssumption, QueueProofs!IsFiniteSet, IsFiniteSet

\* So are those of CircuitBreaker.
LEMMA BreakerAssumed == BreakerProofs!BreakerAssumption /\ BreakerProofs!EntryAssumption
BY EntryAssumption, OrchestratorAssumption
DEF BreakerProofs!EntryAssumption, BreakerProofs!BreakerAssumption

\* The steps of the queue that the orchestrator takes are those of QueueManager.
LEMMA SameEnqueue ==
    ASSUME NEW r, NEW g, NEW i, Queue!Enqueue(r, g, i)
    PROVE  QueueProofs!Enqueue(r, g, i)
BY DEF Queue!Enqueue, Queue!Queued, Queue!Items, Queue!CalculatePriority, Queue!GroupWeight,
       Queue!Weights, Queue!SortsAfter, Queue!Process, Queue!InsertAfter,
       QueueProofs!Enqueue, QueueProofs!Queued, QueueProofs!Items,
       QueueProofs!CalculatePriority, QueueProofs!GroupWeight, QueueProofs!Weights,
       QueueProofs!SortsAfter, QueueProofs!Process, QueueProofs!InsertAfter

\* The same of the end of a task.
LEMMA SameSettle ==
    ASSUME NEW r, Queue!Settle(r)
    PROVE  QueueProofs!Settle(r)
BY DEF Queue!Settle, Queue!Process, QueueProofs!Settle, QueueProofs!Process

\* Both name the same requests as waiting.
LEMMA SameQueued == QueueProofs!Queued = Queue!Queued
BY DEF QueueProofs!Queued, QueueProofs!Items, Queue!Queued, Queue!Items

\* The same in the next state.
LEMMA SameQueuedPrime == QueueProofs!Queued' = Queue!Queued'
BY DEF QueueProofs!Queued, QueueProofs!Items, Queue!Queued, Queue!Items

\* enqueue, from a state of the queue that is in order.
LEMMA EnqueueStep ==
    ASSUME QueueProofs!IInv, NEW r \in Requests, NEW g \in Groups, NEW i \in Intents,
           Queue!Enqueue(r, g, i)
    PROVE  /\ QueueProofs!IInv'
           /\ executing \subseteq executing'
           /\ Queue!Queued' \cup executing' = Queue!Queued \cup executing \cup {r}
<1>1. QueueProofs!Enqueue(r, g, i)
  BY SameEnqueue
<1>2. QueueProofs!IInv'
  BY <1>1, QueueAssumed, QueueProofs!IInvInductive DEF QueueProofs!Next
<1>3. QED BY <1>1, <1>2, QueueAssumed, QueueProofs!EnqueueMoves, SameQueued, SameQueuedPrime

\* The end of a task, likewise.
LEMMA SettleStep ==
    ASSUME QueueProofs!IInv, NEW r \in Requests, Queue!Settle(r)
    PROVE  /\ QueueProofs!IInv'
           /\ executing \ {r} \subseteq executing'
           /\ Queue!Queued' \cup executing' = (Queue!Queued \cup executing) \ {r}
<1>1. QueueProofs!Settle(r)
  BY SameSettle
<1>2. QueueProofs!IInv'
  BY <1>1, QueueAssumed, QueueProofs!IInvInductive DEF QueueProofs!Next
<1>3. QED BY <1>1, <1>2, QueueAssumed, QueueProofs!SettleMoves, SameQueued, SameQueuedPrime

\* And a step that leaves the queue alone.
LEMMA QueueStutter ==
    ASSUME QueueProofs!IInv, UNCHANGED queueVars
    PROVE  /\ QueueProofs!IInv'
           /\ executing' = executing
           /\ Queue!Queued' = Queue!Queued
<1>1. UNCHANGED QueueProofs!vars
  BY DEF queueVars, QueueProofs!vars
<1>2. QueueProofs!IInv'
  BY <1>1, QueueAssumed, QueueProofs!IInvInductive
<1>3. QED BY <1>2 DEF queueVars, Queue!Queued, Queue!Items

-----------------------------------------------------------------------------
(* What is known of the breaker.                                           *)

\* Every function of the breaker leaves an entry behind.
LEMMA EntryKept ==
    ASSUME NEW e \in Entry
    PROVE  /\ Consulted(e) \in Entry
           /\ Failed(e) \in Entry
           /\ Aged(e) \in Entry
<1>1. Consulted(e) \in Entry
  BY DEF Consulted, Entry
<1>2. Failed(e) \in Entry
  <2>1. OneMore(e.failures) \in 0..MaxFailures
    BY EntryAssumption DEF OneMore, Entry
  <2>2. QED BY <2>1, EntryAssumption DEF Failed, Entry
<1>3. Aged(e) \in Entry
  BY EntryAssumption DEF Aged, Entry
<1>4. QED BY <1>1, <1>2, <1>3

\* And so does getOrCreate.
LEMMA NewEntryIsEntry == NewEntry \in Entry
BY EntryAssumption DEF NewEntry, Entry

\* What passes the filter is no longer than the list, and each candidate of it
\* is one of the list and was let through.
LEMMA LetThroughShape ==
    ASSUME NEW list \in Seq(Providers)
    PROVE  /\ LetThrough(list, circuit) \in Seq(Providers)
           /\ Len(LetThrough(list, circuit)) <= Len(list)
           /\ \A i \in 1..Len(LetThrough(list, circuit)) :
                /\ Allowed(circuit[LetThrough(list, circuit)[i]])
                /\ LetThrough(list, circuit)[i] \in ToSet(list)
<1>1. BreakerProofs!BreakerAssumption /\ BreakerProofs!EntryAssumption
  BY BreakerAssumed
<1>2. BreakerProofs!LetThrough(list, circuit) = LetThrough(list, circuit)
  BY DEF BreakerProofs!LetThrough, LetThrough, BreakerProofs!Allowed, Allowed
<1> DEFINE kept == LetThrough(list, circuit)
<1> HIDE DEF kept
<1>3. /\ kept \in Seq(Providers)
      /\ Len(kept) <= Len(list)
      /\ \A i \in 1..Len(kept) :
           /\ Allowed(circuit[kept[i]])
           /\ \E j \in 1..Len(list) : kept[i] = list[j]
  BY <1>1, <1>2, BreakerProofs!AdmittedOnly DEF kept, BreakerProofs!Allowed, Allowed
<1>4. \A i \in 1..Len(kept) : kept[i] \in ToSet(list)
  BY <1>3 DEF ToSet
<1>5. QED BY <1>3, <1>4 DEF kept

\* So it is short enough for a request.
LEMMA AdmittedShape ==
    ASSUME NEW list \in CandidateLists
    PROVE  /\ LetThrough(list, circuit) \in Seq(Providers)
           /\ Len(LetThrough(list, circuit)) <= MaxCandidates
           /\ \A i \in 1..Len(LetThrough(list, circuit)) :
                /\ Allowed(circuit[LetThrough(list, circuit)[i]])
                /\ LetThrough(list, circuit)[i] \in ToSet(list)
<1>1. /\ list \in Seq(Providers) /\ Len(list) <= MaxCandidates /\ MaxCandidates \in Nat
      /\ Len(list) \in Nat
  BY OrchestratorAssumption
<1>2. Len(LetThrough(list, circuit)) \in Nat
  BY <1>1, LetThroughShape
<1>3. QED BY <1>1, <1>2, LetThroughShape

-----------------------------------------------------------------------------
(* Lists of candidates tried so far.                                       *)

\* Nobody was tried before the first one.
LEMMA NoneTried ==
    ASSUME NEW q \in Seq(Providers)
    PROVE  SubSeq(q, 1, 0) = <<>>
OBVIOUS

\* One more candidate is tried.
LEMMA OneMoreTried ==
    ASSUME NEW q \in Seq(Providers), NEW i \in 1..Len(q)
    PROVE  /\ Append(SubSeq(q, 1, i - 1), q[i]) = SubSeq(q, 1, i)
           /\ SubSeq(q, 1, i) \in Seq(Providers)
OBVIOUS

\* All of them were.
LEMMA AllTried ==
    ASSUME NEW q \in Seq(Providers)
    PROVE  SubSeq(q, 1, Len(q)) = q
OBVIOUS

-----------------------------------------------------------------------------
(* What each action does to the record of its request.                     *)

\* What is known of a request in the loop.
LEMMA LoopFacts ==
    ASSUME NEW s, GoodRequest(s), s.pc \in Looping
    PROVE  /\ s \in RequestState
           /\ s.plan \in Seq(Providers) /\ Len(s.plan) \in Nat
           /\ s.index \in 1..Len(s.plan)
           /\ Len(s.plan) <= MaxCandidates
           /\ s.attempt \in 0..MaxRetries
           /\ s.answer = None /\ None \notin Answers
           /\ s.reported = SubSeq(s.plan, 1, IF s.pc = "reporting" THEN s.index ELSE s.index - 1)
BY OrchestratorAssumption DEF GoodRequest, RequestState

\* And what there is to show.
LEMMA LoopGood ==
    ASSUME NEW s \in RequestState, s.pc \in Looping,
           s.index \in 1..Len(s.plan), Len(s.plan) <= MaxCandidates, s.answer = None,
           s.reported = SubSeq(s.plan, 1, IF s.pc = "reporting" THEN s.index ELSE s.index - 1),
           s.pc = "backoff" => s.attempt < MaxRetries
    PROVE  GoodRequest(s)
<1>1. None \notin Answers
  BY OrchestratorAssumption
<1>2. AnswerEarned(s)
  BY <1>1 DEF AnswerEarned, Answers
<1>3. s.pc \notin {"new", "submitted"}
  BY DEF Looping
<1>4. Len(s.plan) \in Nat
  BY DEF RequestState
<1>5. s.index \in 1..(Len(s.plan) + 1) /\ s.index <= Len(s.plan)
  BY <1>4
<1>6. QED BY <1>2, <1>3, <1>5 DEF GoodRequest

\* A request that is new, and one that was submitted.
LEMMA NewGood ==
    /\ GoodRequest(NewRequest)
    /\ GoodRequest([NewRequest EXCEPT !.pc = "submitted"])
<1>1. /\ 0 \in 0..MaxRetries /\ <<>> \in Seq(Providers) /\ Len(<<>>) = 0
      /\ None \notin Answers /\ MaxCandidates \in Nat
  BY OrchestratorAssumption
<1>2. GoodRequest(NewRequest)
  <2>1. NewRequest \in RequestState
    BY <1>1 DEF NewRequest, RequestState, States
  <2>2. NewRequest.pc = "new" /\ NewRequest.plan = <<>> /\ NewRequest.index = 1
    BY DEF NewRequest
  <2>3. AnswerEarned(NewRequest)
    BY <1>1 DEF NewRequest, AnswerEarned, Answers
  <2>4. QED BY <1>1, <2>1, <2>2, <2>3 DEF GoodRequest, Looping
<1>3. GoodRequest([NewRequest EXCEPT !.pc = "submitted"])
  <2> DEFINE t == [NewRequest EXCEPT !.pc = "submitted"]
  <2>1. t \in RequestState
    BY <1>1 DEF NewRequest, RequestState, States
  <2>2. t.pc = "submitted" /\ t.plan = <<>> /\ t.index = 1
    BY DEF NewRequest
  <2>3. AnswerEarned(t)
    BY <1>1 DEF NewRequest, AnswerEarned, Answers
  <2>4. QED BY <1>1, <2>1, <2>2, <2>3 DEF GoodRequest, Looping
<1>4. QED BY <1>2, <1>3

\* The end of a request whose answer was earned.
LEMMA FinishGood ==
    ASSUME NEW s, GoodRequest(s), NEW answer \in Answers,
           AnswerEarned([s EXCEPT !.pc = "finished", !.answer = answer])
    PROVE  GoodRequest([s EXCEPT !.pc = "finished", !.answer = answer])
<1> DEFINE t == [s EXCEPT !.pc = "finished", !.answer = answer]
<1>1. s \in RequestState /\ s.index \in 1..(Len(s.plan) + 1) /\ Len(s.plan) <= MaxCandidates
  BY DEF GoodRequest
<1>2. t \in RequestState /\ t.pc = "finished" /\ t.index = s.index /\ t.plan = s.plan
  BY <1>1 DEF RequestState, States
<1>3. AnswerEarned(t)
  OBVIOUS
<1> HIDE DEF t
<1>4. GoodRequest(t)
  BY <1>1, <1>2, <1>3 DEF GoodRequest, Looping
<1>5. QED BY <1>4 DEF t

\* An answer that says nothing of the candidates is always earned.
LEMMA SilentAnswer ==
    ASSUME NEW s, GoodRequest(s), NEW answer \in {"noAccounts", "circuitOpen", "threw"}
    PROVE  GoodRequest([s EXCEPT !.pc = "finished", !.answer = answer])
<1>1. [s EXCEPT !.pc = "finished", !.answer = answer].answer = answer
  BY DEF GoodRequest, RequestState
<1>2. AnswerEarned([s EXCEPT !.pc = "finished", !.answer = answer])
  BY <1>1 DEF AnswerEarned
<1>3. QED BY <1>2, FinishGood DEF Answers

\* An answer of the current candidate ends a request that is at it.
LEMMA AnswerOfCandidate ==
    ASSUME NEW s, GoodRequest(s), s.pc \in {"calling", "recording"},
           NEW answer \in {"success", "clientError", "rateLimited"}
    PROVE  GoodRequest([s EXCEPT !.pc = "finished", !.answer = answer])
<1> DEFINE t == [s EXCEPT !.pc = "finished", !.answer = answer]
<1>1. /\ s \in RequestState /\ s.index <= Len(s.plan)
      /\ s.reported = SubSeq(s.plan, 1, s.index - 1)
  BY LoopFacts DEF Looping
<1>2. /\ t.answer = answer /\ t.index = s.index /\ t.plan = s.plan
      /\ t.reported = s.reported
  BY <1>1 DEF RequestState
<1> HIDE DEF t
<1>3. AnswerEarned(t)
  BY <1>1, <1>2 DEF AnswerEarned
<1>4. QED BY <1>3, FinishGood DEF Answers, t

\* Routing gives the candidates.
LEMMA RouteGood ==
    ASSUME NEW s, GoodRequest(s), s.pc = "submitted",
           NEW plan \in Seq(Providers), plan # <<>>, Len(plan) <= MaxCandidates
    PROVE  GoodRequest([s EXCEPT !.pc = "preparing", !.plan = plan])
<1> DEFINE t == [s EXCEPT !.pc = "preparing", !.plan = plan]
<1>1. s = [NewRequest EXCEPT !.pc = "submitted"] /\ s \in RequestState
  BY DEF GoodRequest
<1>2. s.index = 1 /\ s.answer = None /\ s.reported = <<>>
  BY <1>1 DEF NewRequest
<1>3. t \in RequestState
  BY <1>1 DEF RequestState, States
<1>4. /\ t.pc = "preparing" /\ t.plan = plan /\ t.index = 1
      /\ t.answer = None /\ t.reported = <<>>
  BY <1>1, <1>2 DEF RequestState
<1>5. Len(plan) \in Nat /\ Len(plan) >= 1 /\ SubSeq(plan, 1, 0) = <<>>
  BY NoneTried
<1> HIDE DEF t
<1>6. t.pc \in Looping /\ t.pc # "reporting" /\ t.pc # "backoff"
  BY <1>4 DEF Looping
<1>7. t.index \in 1..Len(t.plan) /\ Len(t.plan) <= MaxCandidates
  BY <1>4, <1>5
<1>8. t.reported = SubSeq(t.plan, 1, t.index - 1)
  BY <1>4, <1>5
<1>9. GoodRequest(t)
  BY <1>3, <1>4, <1>6, <1>7, <1>8, LoopGood
<1>10. QED BY <1>9 DEF t

\* A call, the first one or a retry.
LEMMA CallGood ==
    ASSUME NEW s, GoodRequest(s), s.pc \in {"preparing", "backoff"}, NEW n \in 0..MaxRetries
    PROVE  GoodRequest([s EXCEPT !.pc = "calling", !.attempt = n])
<1> DEFINE t == [s EXCEPT !.pc = "calling", !.attempt = n]
<1>0. s \in RequestState
  BY LoopFacts DEF Looping
<1>1. t \in RequestState
  BY <1>0 DEF RequestState, States
<1>2. /\ t.pc = "calling" /\ t.plan = s.plan /\ t.index = s.index
      /\ t.answer = s.answer /\ t.reported = s.reported
  BY LoopFacts DEF RequestState, Looping
<1> HIDE DEF t
<1>3. GoodRequest(t)
  BY <1>1, <1>2, LoopFacts, LoopGood DEF Looping
<1>4. QED BY <1>3 DEF t

\* The provider answers, or is to be asked again.
LEMMA CalledGood ==
    ASSUME NEW s, GoodRequest(s), s.pc = "calling", NEW where \in {"recording", "backoff"},
           where = "backoff" => s.attempt < MaxRetries
    PROVE  GoodRequest([s EXCEPT !.pc = where])
<1> DEFINE t == [s EXCEPT !.pc = where]
<1>1. t \in RequestState
  BY LoopFacts DEF RequestState, States, Looping
<1>2. /\ t.pc = where /\ t.plan = s.plan /\ t.index = s.index
      /\ t.answer = s.answer /\ t.reported = s.reported /\ t.attempt = s.attempt
  BY LoopFacts DEF RequestState, Looping
<1> HIDE DEF t
<1>3. GoodRequest(t)
  BY <1>1, <1>2, LoopFacts, LoopGood DEF Looping
<1>4. QED BY <1>3 DEF t

\* The candidate failed for good: it is added to the history.
LEMMA FailGood ==
    ASSUME NEW s, GoodRequest(s), s.pc = "calling"
    PROVE  GoodRequest([s EXCEPT !.pc = "reporting",
                                 !.reported = Append(@, s.plan[s.index])])
<1> DEFINE t == [s EXCEPT !.pc = "reporting", !.reported = Append(@, s.plan[s.index])]
<1>1. /\ Append(s.reported, s.plan[s.index]) = SubSeq(s.plan, 1, s.index)
      /\ SubSeq(s.plan, 1, s.index) \in Seq(Providers)
  BY LoopFacts, OneMoreTried DEF Looping
<1>2. t = [s EXCEPT !.pc = "reporting", !.reported = SubSeq(s.plan, 1, s.index)]
  BY <1>1
<1>3. t \in RequestState
  BY <1>1, <1>2, LoopFacts DEF RequestState, States, Looping
<1>4. /\ t.pc = "reporting" /\ t.plan = s.plan /\ t.index = s.index
      /\ t.answer = s.answer /\ t.reported = SubSeq(s.plan, 1, s.index)
  BY <1>2, LoopFacts DEF RequestState, Looping
<1> HIDE DEF t
<1>5. GoodRequest(t)
  BY <1>3, <1>4, LoopFacts, LoopGood DEF Looping
<1>6. QED BY <1>5 DEF t

\* On to the next candidate.
LEMMA NextCandidateGood ==
    ASSUME NEW s, GoodRequest(s), s.pc = "reporting", s.index < Len(s.plan)
    PROVE  GoodRequest([s EXCEPT !.pc = "preparing", !.index = @ + 1])
<1> DEFINE t == [s EXCEPT !.pc = "preparing", !.index = @ + 1]
<1>1. /\ s \in RequestState /\ s.index + 1 \in Nat /\ s.index + 1 \in 1..Len(s.plan)
      /\ (s.index + 1) - 1 = s.index
  BY LoopFacts DEF Looping
<1>2. t \in RequestState
  BY <1>1 DEF RequestState, States
<1>3. /\ t.pc = "preparing" /\ t.plan = s.plan /\ t.index = s.index + 1
      /\ t.answer = s.answer /\ t.reported = s.reported
  BY <1>1 DEF RequestState
<1> HIDE DEF t
<1>4. GoodRequest(t)
  BY <1>1, <1>2, <1>3, LoopFacts, LoopGood DEF Looping
<1>5. QED BY <1>4 DEF t

\* Or out of candidates: every one of them was tried.
LEMMA ExhaustedGood ==
    ASSUME NEW s, GoodRequest(s), s.pc = "reporting", s.index = Len(s.plan)
    PROVE  GoodRequest([s EXCEPT !.pc = "finished", !.answer = "exhausted"])
<1> DEFINE t == [s EXCEPT !.pc = "finished", !.answer = "exhausted"]
<1>1. s \in RequestState /\ s.reported = s.plan
  BY LoopFacts, AllTried DEF Looping
<1>2. t.answer = "exhausted" /\ t.plan = s.plan /\ t.reported = s.reported
  BY <1>1 DEF RequestState
<1> HIDE DEF t
<1>3. AnswerEarned(t)
  BY <1>1, <1>2 DEF AnswerEarned
<1>4. QED BY <1>3, FinishGood DEF Answers, t

-----------------------------------------------------------------------------
(* The steps of the system.                                                *)

\* The record of one request is replaced.
LEMMA RequestMoves ==
    ASSUME IInv, NEW r \in Requests, NEW s, GoodRequest(s), Update(r, s)
    PROVE  /\ request' \in [Requests -> RequestState]
           /\ \A q \in Requests : GoodRequest(request'[q])
           /\ request'[r] = s
           /\ \A q \in Requests \ {r} : request'[q] = request[q]
<1>1. /\ request \in [Requests -> RequestState]
      /\ \A q \in Requests : GoodRequest(request[q])
      /\ request' = [request EXCEPT ![r] = s]
      /\ s \in RequestState
  BY DEF IInv, Update, GoodRequest
<1>2. QED BY <1>1

\* What the new record is, and that the others stay.
LEMMA Replaced ==
    ASSUME IInv, NEW r \in Requests, NEW s, Update(r, s)
    PROVE  /\ request'[r] = s
           /\ \A q \in Requests \ {r} : request'[q] = request[q]
BY DEF IInv, Update

\* A step of a request that has its slot, from one await to another.
LEMMA WorkKeeps ==
    ASSUME IInv, NEW r \in Requests, NEW s, GoodRequest(s), Update(r, s),
           UNCHANGED queueVars, circuit' \in [Providers -> Entry],
           request[r].pc # "new", s.pc \notin {"new", "submitted"}, r \in executing
    PROVE  IInv'
<1>1. /\ QueueProofs!IInv' /\ executing' = executing /\ Queue!Queued' = Queue!Queued
  BY QueueStutter DEF IInv
<1>2. /\ request' \in [Requests -> RequestState]
      /\ \A q \in Requests : GoodRequest(request'[q])
      /\ request'[r] = s
      /\ \A q \in Requests \ {r} : request'[q] = request[q]
  BY RequestMoves
<1>3. Placed'
  <2> SUFFICES ASSUME NEW q \in Requests
               PROVE  /\ At(q, "new")' <=> q \notin executing' \cup Queue!Queued'
                      /\ request'[q].pc \notin {"new", "submitted"} => q \in executing'
    BY DEF Placed
  <2>1. CASE q = r
    BY <1>1, <1>2, <2>1 DEF At
  <2>2. CASE q # r
    BY <1>1, <1>2, <2>2 DEF IInv, Placed, At
  <2>3. QED BY <2>1, <2>2
<1>4. QED BY <1>1, <1>2, <1>3 DEF IInv

\* What the steps of a request past the queue start from.
LEMMA WorkFacts ==
    ASSUME IInv, NEW r \in Requests, request[r].pc \in Looping
    PROVE  /\ GoodRequest(request[r])
           /\ request[r].pc \notin {"new", "submitted"}
           /\ r \in executing
           /\ Candidate(r) \in Providers
           /\ circuit[Candidate(r)] \in Entry
<1>1. GoodRequest(request[r]) /\ request[r].pc \notin {"new", "submitted"}
  BY DEF IInv, Looping
<1>2. Candidate(r) \in Providers
  BY <1>1, LoopFacts DEF Candidate
<1>3. QED BY <1>1, <1>2 DEF IInv, Placed

\* handleOrchestratedChat.
LEMMA SubmitKeeps ==
    ASSUME IInv, NEW r \in Requests, Submit(r)
    PROVE  IInv'
<1> DEFINE s == [request[r] EXCEPT !.pc = "submitted"]
<1>1. request[r] = NewRequest
  BY DEF IInv, Submit, At, GoodRequest
<1>2. s = [NewRequest EXCEPT !.pc = "submitted"]
  BY <1>1
<1>3. GoodRequest(s) /\ Update(r, s) /\ s.pc = "submitted"
  BY <1>2, NewGood DEF Submit, NewRequest
<1> HIDE DEF s
<1>4. /\ request' \in [Requests -> RequestState]
      /\ \A q \in Requests : GoodRequest(request'[q])
      /\ request'[r] = s
      /\ \A q \in Requests \ {r} : request'[q] = request[q]
  BY <1>3, RequestMoves
<1>5. PICK g \in Groups, i \in Intents : Queue!Enqueue(r, g, i)
  BY DEF Submit
<1>6. /\ QueueProofs!IInv'
      /\ executing \subseteq executing'
      /\ Queue!Queued' \cup executing' = Queue!Queued \cup executing \cup {r}
  BY <1>5, EnqueueStep DEF IInv
<1>7. Placed'
  <2> SUFFICES ASSUME NEW q \in Requests
               PROVE  /\ At(q, "new")' <=> q \notin executing' \cup Queue!Queued'
                      /\ request'[q].pc \notin {"new", "submitted"} => q \in executing'
    BY DEF Placed
  <2>1. CASE q = r
    BY <1>3, <1>4, <1>6, <2>1 DEF At
  <2>2. CASE q # r
    <3>1. request'[q] = request[q]
      BY <1>4, <2>2
    <3>2. q \in executing' \cup Queue!Queued' <=> q \in executing \cup Queue!Queued
      BY <1>6, <2>2
    <3>3. QED BY <1>6, <3>1, <3>2 DEF IInv, Placed, At
  <2>3. QED BY <2>1, <2>2
<1>8. circuit' \in [Providers -> Entry]
  BY DEF IInv, Submit
<1>9. QED BY <1>4, <1>6, <1>7, <1>8 DEF IInv

\* The end of a request.
LEMMA SettleKeeps ==
    ASSUME IInv, NEW r \in Requests, Settle(r)
    PROVE  IInv'
<1>1. /\ request' \in [Requests -> RequestState]
      /\ \A q \in Requests : GoodRequest(request'[q])
      /\ request'[r] = NewRequest
      /\ \A q \in Requests \ {r} : request'[q] = request[q]
  BY NewGood, RequestMoves DEF Settle
<1>2. /\ QueueProofs!IInv'
      /\ executing \ {r} \subseteq executing'
      /\ Queue!Queued' \cup executing' = (Queue!Queued \cup executing) \ {r}
  BY SettleStep DEF IInv, Settle
<1>3. Placed'
  <2> SUFFICES ASSUME NEW q \in Requests
               PROVE  /\ At(q, "new")' <=> q \notin executing' \cup Queue!Queued'
                      /\ request'[q].pc \notin {"new", "submitted"} => q \in executing'
    BY DEF Placed
  <2>1. CASE q = r
    BY <1>1, <1>2, <2>1 DEF At, NewRequest
  <2>2. CASE q # r
    <3>1. request'[q] = request[q]
      BY <1>1, <2>2
    <3>2. q \in executing' \cup Queue!Queued' <=> q \in executing \cup Queue!Queued
      BY <1>2, <2>2
    <3>3. q \in executing => q \in executing'
      BY <1>2, <2>2
    <3>4. QED BY <3>1, <3>2, <3>3 DEF IInv, Placed, At
  <2>3. QED BY <2>1, <2>2
<1>4. circuit' \in [Providers -> Entry]
  BY DEF IInv, Settle
<1>5. QED BY <1>1, <1>2, <1>3, <1>4 DEF IInv

\* The candidates arrive.
LEMMA RouteKeeps ==
    ASSUME IInv, NEW r \in Requests, Route(r)
    PROVE  IInv'
<1>1. PICK list \in CandidateLists :
        LET kept == LetThrough(list, circuit) IN
        /\ circuit' = [p \in Providers |->
                         IF p \in ToSet(list) THEN Consulted(circuit[p])
                                              ELSE circuit[p]]
        /\ \/ list = <<>> /\ Finish(r, "noAccounts")
           \/ list # <<>> /\ kept = <<>> /\ Finish(r, "circuitOpen")
           \/ /\ kept # <<>>
              /\ Update(r, [request[r] EXCEPT !.pc = "preparing", !.plan = kept])
  BY DEF Route
<1> DEFINE kept == LetThrough(list, circuit)
<1>2. kept \in Seq(Providers) /\ Len(kept) <= MaxCandidates
  BY AdmittedShape
<1>3. /\ GoodRequest(request[r]) /\ request[r].pc = "submitted"
      /\ request[r] \in RequestState
      /\ UNCHANGED queueVars /\ r \in executing
  BY DEF IInv, Route, At
<1>4. circuit' \in [Providers -> Entry]
  BY <1>1, EntryKept DEF IInv
<1> HIDE DEF kept
<1>5. ASSUME NEW answer \in {"noAccounts", "circuitOpen"}, Finish(r, answer)
      PROVE  IInv'
  <2> DEFINE s == [request[r] EXCEPT !.pc = "finished", !.answer = answer]
  <2>1. GoodRequest(s) /\ Update(r, s) /\ s.pc = "finished"
    BY <1>3, <1>5, SilentAnswer DEF Finish, RequestState
  <2> HIDE DEF s
  <2>2. QED BY <1>3, <1>4, <2>1, WorkKeeps
<1>6. ASSUME kept # <<>>, Update(r, [request[r] EXCEPT !.pc = "preparing", !.plan = kept])
      PROVE  IInv'
  <2> DEFINE s == [request[r] EXCEPT !.pc = "preparing", !.plan = kept]
  <2>1. GoodRequest(s) /\ Update(r, s) /\ s.pc = "preparing"
    BY <1>2, <1>3, <1>6, RouteGood DEF RequestState
  <2> HIDE DEF s
  <2>2. QED BY <1>3, <1>4, <2>1, WorkKeeps
<1>7. QED BY <1>1, <1>5, <1>6 DEF kept

\* A call is sent.
LEMMA CallKeeps ==
    ASSUME IInv, NEW r \in Requests, Call(r)
    PROVE  IInv'
<1>1. /\ request[r].pc \in {"preparing", "backoff"}
      /\ request[r].pc \in Looping
      /\ UNCHANGED queueVars /\ circuit' = circuit
  BY DEF Call, At, Looping
<1>2. GoodRequest(request[r]) /\ request[r].pc # "new" /\ r \in executing
  BY <1>1, WorkFacts
<1>3. /\ request[r] \in RequestState /\ MaxRetries \in Nat
      /\ request[r].attempt \in 0..MaxRetries
      /\ request[r].pc = "backoff" => request[r].attempt < MaxRetries
  BY <1>2, OrchestratorAssumption DEF GoodRequest, RequestState
<1>4. PICK n \in 0..MaxRetries :
        Update(r, [request[r] EXCEPT !.pc = "calling", !.attempt = n])
  <2>1. CASE At(r, "preparing")
    <3>1. Update(r, [request[r] EXCEPT !.pc = "calling", !.attempt = 0])
      BY <2>1 DEF Call, At
    <3>2. 0 \in 0..MaxRetries
      BY <1>3
    <3>3. QED BY <3>1, <3>2
  <2>2. CASE At(r, "backoff")
    <3>1. Update(r, [request[r] EXCEPT !.pc = "calling", !.attempt = request[r].attempt + 1])
      BY <2>2 DEF Call, At
    <3>2. request[r].attempt + 1 \in 0..MaxRetries
      BY <1>3, <2>2 DEF At
    <3>3. QED BY <3>1, <3>2
  <2>3. QED BY <2>1, <2>2 DEF Call
<1> DEFINE s == [request[r] EXCEPT !.pc = "calling", !.attempt = n]
<1>5. GoodRequest(s) /\ s.pc = "calling"
  BY <1>1, <1>2, <1>3, CallGood DEF RequestState
<1>6. Update(r, s)
  BY <1>4
<1> HIDE DEF s
<1>7. circuit' \in [Providers -> Entry]
  BY <1>1 DEF IInv
<1>8. QED BY <1>1, <1>2, <1>5, <1>6, <1>7, WorkKeeps

\* A request ends while the breaker and the queue stay as they are.
LEMMA FinishKeeps ==
    ASSUME IInv, NEW r \in Requests, NEW answer \in Answers,
           GoodRequest([request[r] EXCEPT !.pc = "finished", !.answer = answer]),
           Finish(r, answer), UNCHANGED <<queueVars, circuit>>,
           request[r].pc # "new", r \in executing
    PROVE  IInv'
<1> DEFINE s == [request[r] EXCEPT !.pc = "finished", !.answer = answer]
<1>1. GoodRequest(s) /\ Update(r, s) /\ s.pc = "finished"
  BY DEF Finish, IInv, RequestState
<1> HIDE DEF s
<1>2. circuit' \in [Providers -> Entry]
  BY DEF IInv
<1>3. QED BY <1>1, <1>2, WorkKeeps

\* The provider answers with an error of the client, or the answer is stored.
LEMMA AnswerKeeps ==
    ASSUME IInv, NEW r \in Requests, ClientError(r) \/ Record(r)
    PROVE  IInv'
<1>1. /\ request[r].pc \in {"calling", "recording"} /\ request[r].pc \in Looping
      /\ UNCHANGED <<queueVars, circuit>>
      /\ \E answer \in {"success", "clientError", "rateLimited"} : Finish(r, answer)
  BY DEF ClientError, Record, At, Looping
<1>2. GoodRequest(request[r]) /\ request[r].pc # "new" /\ r \in executing
  BY <1>1, WorkFacts
<1>3. PICK answer \in {"success", "clientError", "rateLimited"} : Finish(r, answer)
  BY <1>1
<1>4. GoodRequest([request[r] EXCEPT !.pc = "finished", !.answer = answer])
  BY <1>1, <1>2, AnswerOfCandidate
<1>5. answer \in Answers
  BY DEF Answers
<1>6. QED BY <1>1, <1>2, <1>3, <1>4, <1>5, FinishKeeps

\* Something awaited throws.
LEMMA ThrowKeeps ==
    ASSUME IInv, NEW r \in Requests, Throw(r)
    PROVE  IInv'
<1>1. /\ GoodRequest(request[r]) /\ request[r].pc # "new" /\ r \in executing
      /\ UNCHANGED <<queueVars, circuit>> /\ Finish(r, "threw")
  BY DEF Throw, IInv
<1>2. GoodRequest([request[r] EXCEPT !.pc = "finished", !.answer = "threw"])
  BY <1>1, SilentAnswer
<1>3. QED BY <1>1, <1>2, FinishKeeps DEF Answers

\* The provider answers, or is to be asked again.
LEMMA CalledKeeps ==
    ASSUME IInv, NEW r \in Requests, Succeed(r) \/ Retry(r)
    PROVE  IInv'
<1>1. /\ request[r].pc = "calling" /\ request[r].pc \in Looping
      /\ UNCHANGED queueVars
  BY DEF Succeed, Retry, At, Looping
<1>2. /\ GoodRequest(request[r]) /\ request[r].pc # "new" /\ r \in executing
      /\ Candidate(r) \in Providers
  BY <1>1, WorkFacts
<1>3. circuit' \in [Providers -> Entry]
  BY <1>2, NewEntryIsEntry DEF Succeed, Succeeded, Retry, IInv
<1>4. PICK where \in {"recording", "backoff"} :
        /\ Update(r, [request[r] EXCEPT !.pc = where])
        /\ where = "backoff" => request[r].attempt < MaxRetries
  BY DEF Succeed, Retry
<1> DEFINE s == [request[r] EXCEPT !.pc = where]
<1>5. s.pc = where
  BY <1>2 DEF GoodRequest, RequestState
<1>6. GoodRequest(s) /\ Update(r, s) /\ s.pc \notin {"new", "submitted"}
  BY <1>1, <1>2, <1>4, <1>5, CalledGood
<1> HIDE DEF s
<1>7. QED BY <1>1, <1>2, <1>3, <1>6, WorkKeeps

\* The candidate fails for good.
LEMMA FailKeeps ==
    ASSUME IInv, NEW r \in Requests, Fail(r)
    PROVE  IInv'
<1>1. /\ request[r].pc = "calling" /\ request[r].pc \in Looping
      /\ UNCHANGED queueVars
  BY DEF Fail, At, Looping
<1>2. /\ GoodRequest(request[r]) /\ request[r].pc # "new" /\ r \in executing
      /\ Candidate(r) \in Providers /\ circuit[Candidate(r)] \in Entry
  BY <1>1, WorkFacts
<1>3. circuit' \in [Providers -> Entry]
  BY <1>2, EntryKept DEF Fail, IInv
<1> DEFINE s == [request[r] EXCEPT !.pc = "reporting",
                                   !.reported = Append(@, request[r].plan[request[r].index])]
<1>4. s.pc = "reporting"
  BY <1>2 DEF GoodRequest, RequestState
<1>5. GoodRequest(s)
  BY <1>1, <1>2, FailGood
<1>6. Update(r, s)
  BY DEF Fail, Candidate
<1> HIDE DEF s
<1>7. QED BY <1>1, <1>2, <1>3, <1>4, <1>5, <1>6, WorkKeeps

\* On to the next candidate, or to the error.
LEMMA FailoverKeeps ==
    ASSUME IInv, NEW r \in Requests, Failover(r)
    PROVE  IInv'
<1>1. /\ request[r].pc = "reporting" /\ request[r].pc \in Looping
      /\ UNCHANGED <<queueVars, circuit>>
  BY DEF Failover, At, Looping
<1>2. GoodRequest(request[r]) /\ request[r].pc # "new" /\ r \in executing
  BY <1>1, WorkFacts
<1>3. CASE request[r].index < Len(request[r].plan)
  <2> DEFINE s == [request[r] EXCEPT !.pc = "preparing", !.index = @ + 1]
  <2>1. s.pc = "preparing"
    BY <1>2 DEF GoodRequest, RequestState
  <2>2. GoodRequest(s)
    BY <1>1, <1>2, <1>3, NextCandidateGood
  <2>3. request[r].index # Len(request[r].plan)
    BY <1>1, <1>2, <1>3, LoopFacts
  <2>4. Update(r, s)
    BY <2>3 DEF Failover
  <2> HIDE DEF s
  <2>5. circuit' \in [Providers -> Entry]
    BY <1>1 DEF IInv
  <2>6. QED BY <1>1, <1>2, <2>1, <2>2, <2>4, <2>5, WorkKeeps
<1>4. CASE request[r].index = Len(request[r].plan)
  <2>1. GoodRequest([request[r] EXCEPT !.pc = "finished", !.answer = "exhausted"])
    BY <1>1, <1>2, <1>4, ExhaustedGood
  <2>2. ~ (request[r].index < Len(request[r].plan))
    BY <1>1, <1>2, <1>4, LoopFacts
  <2>3. Finish(r, "exhausted")
    BY <2>2 DEF Failover
  <2>4. QED BY <1>1, <1>2, <2>1, <2>3, FinishKeeps DEF Answers
<1>5. QED BY <1>3, <1>4 DEF Failover

\* Time passes.
LEMMA TickKeeps ==
    ASSUME IInv, Tick
    PROVE  IInv'
<1>1. /\ QueueProofs!IInv' /\ executing' = executing /\ Queue!Queued' = Queue!Queued
  BY QueueStutter DEF IInv, Tick
<1>2. circuit' \in [Providers -> Entry]
  BY EntryKept DEF IInv, Tick
<1>3. QED BY <1>1, <1>2 DEF IInv, Tick, Placed, At

\* Every step keeps the invariant.
LEMMA IInvInductive == IInv /\ [Next]_vars => IInv'
<1> SUFFICES ASSUME IInv, [Next]_vars PROVE IInv'
  OBVIOUS
<1>1. ASSUME NEW r \in Requests, Submit(r) \/ Work(r) PROVE IInv'
  BY <1>1, SubmitKeeps, RouteKeeps, CallKeeps, AnswerKeeps, CalledKeeps, FailKeeps,
     FailoverKeeps, ThrowKeeps, SettleKeeps
  DEF Work
<1>2. CASE Tick
  BY <1>2, TickKeeps
<1>3. CASE UNCHANGED vars
  <2>1. /\ QueueProofs!IInv' /\ executing' = executing /\ Queue!Queued' = Queue!Queued
    BY <1>3, QueueStutter DEF IInv, vars
  <2>2. QED BY <1>3, <2>1 DEF vars, IInv, Placed, At
<1>4. QED BY <1>1, <1>2, <1>3 DEF Next

\* The system starts with an empty queue and new requests.
LEMMA IInvInit == Init => IInv
<1> SUFFICES ASSUME Init PROVE IInv
  OBVIOUS
<1>1. QueueProofs!Init /\ Queue!Queued = {} /\ executing = {}
  BY DEF Init, Queue!Init, QueueProofs!Init, Queue!Queued, Queue!Items
<1>2. QueueProofs!IInv
  BY <1>1, QueueAssumed, QueueProofs!IInvInit
<1>3. circuit \in [Providers -> Entry]
  BY NewEntryIsEntry DEF Init
<1>4. \A r \in Requests : request[r] = NewRequest /\ GoodRequest(request[r])
  BY NewGood DEF Init
<1>5. NewRequest \in RequestState
  BY NewGood DEF GoodRequest
<1>6. request \in [Requests -> RequestState]
  BY <1>5 DEF Init
<1>7. Placed
  BY <1>1, <1>4 DEF Placed, At, NewRequest
<1>8. QED BY <1>2, <1>3, <1>4, <1>6, <1>7 DEF IInv

\* The invariant holds in every state.
LEMMA OrchestratorInvariant == Spec => []IInv
BY IInvInit, IInvInductive, PTL DEF Spec

-----------------------------------------------------------------------------
(* What follows from it.                                                   *)

\* Type correctness of the orchestrator, its queue and its breaker
\* (src/src/sse/services/orchestrator.js): the loop never runs past the list of
\* candidates and never counts more retries than it may make.
THEOREM OrchestratorTypeCorrect == Spec => []TypeOK
<1>1. IInv => TypeOK
  <2> SUFFICES ASSUME IInv PROVE TypeOK
    OBVIOUS
  <2>1. Queue!TypeOK
    BY DEF IInv, QueueProofs!IInv, QueueProofs!TypeOK, Queue!TypeOK
  <2>2. ASSUME NEW r \in Requests
        PROVE  /\ request[r].pc \in States
               /\ request[r].plan \in Seq(Providers)
               /\ request[r].index \in 1..(Len(request[r].plan) + 1)
               /\ request[r].attempt \in 0..MaxRetries
               /\ request[r].answer \in Answers \cup {None}
    BY <2>2 DEF IInv, GoodRequest, RequestState
  <2>3. QED BY <2>1, <2>2 DEF IInv, TypeOK, States
<1>2. QED BY <1>1, OrchestratorInvariant, PTL

\* The invariant says which slots are held,
LEMMA SlotsFollow == IInv => SlotHeldUntilSettled
<1> SUFFICES ASSUME IInv, NEW r \in Requests
             PROVE  IF request[r].pc = "submitted"
                    THEN r \in executing \/ r \in Queue!Queued
                    ELSE r \in executing <=> ~At(r, "new")
  BY DEF SlotHeldUntilSettled
<1>1. QED BY DEF IInv, Placed, At

\* and which candidates were tried.
LEMMA TriedFollows == IInv => EveryCandidateTried
BY DEF IInv, GoodRequest, AnswerEarned, EveryCandidateTried

\* For every limit and every list of candidates: a slot of the queue is held by
\* exactly the requests between their start and their end, whatever way they
\* take through the loop.
THEOREM SlotsHeld == Spec => []SlotHeldUntilSettled
BY SlotsFollow, OrchestratorInvariant, PTL

\* For every list of candidates and every number of retries: the error that
\* blames the candidates comes only when each of them has failed and was
\* reported once, and an answer comes from the first that did not fail.
THEOREM CandidatesTried == Spec => []EveryCandidateTried
BY TriedFollows, OrchestratorInvariant, PTL

-----------------------------------------------------------------------------
(* The orchestrator as a caller of the breaker.  Flight is the slot of     *)
(* each position of each request; the steps of the breaker are stated of   *)
(* it first.                                                               *)

\* What is in the slot of the i-th candidate of r.
LEMMA SlotOf ==
    ASSUME NEW r \in Requests, NEW i \in 1..MaxCandidates
    PROVE  /\ <<r, i>> \in Positions
           /\ Flight[<<r, i>>] = IF Pending(r, i) THEN request[r].plan[i] ELSE None
           /\ Flight'[<<r, i>>] = IF Pending(r, i)' THEN request'[r].plan[i] ELSE None
<1>1. <<r, i>> \in Positions /\ <<r, i>>[1] = r /\ <<r, i>>[2] = i
  BY DEF Positions
<1>2. QED BY <1>1 DEF Flight

\* Each slot holds a provider or nothing.
LEMMA FlightShape ==
    ASSUME IInv
    PROVE  Flight \in [Positions -> Providers \cup {None}]
<1>1. ASSUME NEW r \in Requests, NEW i \in 1..MaxCandidates, Pending(r, i)
      PROVE  request[r].plan[i] \in Providers
  <2>1. request[r].plan \in Seq(Providers) /\ i <= Len(request[r].plan)
    BY <1>1 DEF IInv, RequestState, Pending
  <2>2. i \in 1..Len(request[r].plan)
    BY <2>1, OrchestratorAssumption
  <2>3. QED BY <2>1, <2>2
<1>2. ASSUME NEW c \in Positions
      PROVE  c[1] \in Requests /\ c[2] \in 1..MaxCandidates
  BY DEF Positions
<1>3. QED BY <1>1, <1>2 DEF Flight

\* The same in the next state.
LEMMA FlightShapePrime ==
    ASSUME IInv'
    PROVE  Flight' \in [Positions -> Providers \cup {None}]
<1>1. ASSUME NEW r \in Requests, NEW i \in 1..MaxCandidates, Pending(r, i)'
      PROVE  request'[r].plan[i] \in Providers
  <2>1. request'[r].plan \in Seq(Providers) /\ i <= Len(request'[r].plan)
    BY <1>1 DEF IInv, RequestState, Pending
  <2>2. i \in 1..Len(request'[r].plan)
    BY <2>1, OrchestratorAssumption
  <2>3. QED BY <2>1, <2>2
<1>2. ASSUME NEW c \in Positions
      PROVE  c[1] \in Requests /\ c[2] \in 1..MaxCandidates
  BY DEF Positions
<1>3. QED BY <1>1, <1>2 DEF Flight

\* A step of r that leaves the breaker alone and takes up no new candidate
\* gives up some slots, or none.
LEMMA StepAbandons ==
    ASSUME IInv, IInv', NEW r \in Requests, circuit' = circuit,
           \A q \in Requests \ {r} : request'[q] = request[q],
           \A i \in 1..MaxCandidates :
             Pending(r, i)' => Pending(r, i) /\ request'[r].plan[i] = request[r].plan[i]
    PROVE  Breaker!Abandon
<1>1. \A c \in Positions : Flight'[c] \in {Flight[c], None}
  <2> SUFFICES ASSUME NEW q \in Requests, NEW i \in 1..MaxCandidates
               PROVE  Flight'[<<q, i>>] \in {Flight[<<q, i>>], None}
    BY DEF Positions
  <2>1. CASE q = r
    BY <2>1, SlotOf
  <2>2. CASE q # r
    <3>1. Pending(q, i)' <=> Pending(q, i)
      BY <2>2 DEF Pending
    <3>2. QED BY <2>2, <3>1, SlotOf
  <2>3. QED BY <2>1, <2>2
<1>2. Flight' \in [Positions -> Providers \cup {None}]
  BY FlightShapePrime
<1>3. QED BY <1>1, <1>2 DEF Breaker!Abandon, Flight

\* The steps that report nothing.
LEMMA SilentSteps ==
    ASSUME IInv, IInv', NEW r \in Requests,
           \/ Submit(r) \/ Call(r) \/ ClientError(r) \/ Retry(r)
           \/ Failover(r) \/ Record(r) \/ Throw(r) \/ Settle(r)
    PROVE  Breaker!Abandon
<1>0. /\ request \in [Requests -> RequestState] /\ request' \in [Requests -> RequestState]
      /\ request[r] \in RequestState
  BY DEF IInv
<1>1. circuit' = circuit /\ \A q \in Requests \ {r} : request'[q] = request[q]
  BY <1>0 DEF Submit, Call, ClientError, Retry, Failover, Record, Throw, Settle, Update, Finish
<1>2. ASSUME NEW i \in 1..MaxCandidates, Pending(r, i)'
      PROVE  Pending(r, i) /\ request'[r].plan[i] = request[r].plan[i]
  <2>1. request'[r].pc \in {"preparing", "calling", "backoff", "reporting", "recording"}
    BY <1>2 DEF Pending
  <2>2. CASE Call(r)
    <3>1. PICK n : Update(r, [request[r] EXCEPT !.pc = "calling", !.attempt = n])
      BY <2>2 DEF Call
    <3>2. request'[r] = [request[r] EXCEPT !.pc = "calling", !.attempt = n]
      BY <3>1, Replaced
    <3>3. /\ request'[r].pc = "calling"
          /\ request'[r].plan = request[r].plan /\ request'[r].index = request[r].index
      BY <1>0, <3>2 DEF RequestState
    <3>4. request[r].pc \in {"preparing", "calling", "backoff"}
      BY <2>2 DEF Call, At
    <3>5. QED BY <1>2, <3>3, <3>4 DEF Pending
  <2>3. CASE Retry(r)
    <3>1. request'[r] = [request[r] EXCEPT !.pc = "backoff"]
      BY <2>3, Replaced DEF Retry
    <3>2. /\ request'[r].pc = "backoff"
          /\ request'[r].plan = request[r].plan /\ request'[r].index = request[r].index
      BY <1>0, <3>1 DEF RequestState
    <3>3. request[r].pc \in {"preparing", "calling", "backoff"}
      BY <2>3 DEF Retry, At
    <3>4. QED BY <1>2, <3>2, <3>3 DEF Pending
  <2>4. CASE Failover(r)
    <3>1. ~Finish(r, "exhausted")
      <4>1. SUFFICES ASSUME Finish(r, "exhausted") PROVE FALSE
        OBVIOUS
      <4>2. request'[r] = [request[r] EXCEPT !.pc = "finished", !.answer = "exhausted"]
        BY <4>1, Replaced DEF Finish
      <4>3. request'[r].pc = "finished"
        BY <1>0, <4>2 DEF RequestState
      <4>4. QED BY <2>1, <4>3
    <3>2. request'[r] = [request[r] EXCEPT !.pc = "preparing", !.index = @ + 1]
      BY <2>4, <3>1, Replaced DEF Failover
    <3>3. /\ request'[r].pc = "preparing"
          /\ request'[r].plan = request[r].plan /\ request'[r].index = request[r].index + 1
          /\ request[r].index \in Nat
      BY <1>0, <3>2 DEF RequestState
    <3>4. request[r].pc = "reporting"
      BY <2>4 DEF Failover, At
    <3>5. i \in Nat
      BY OrchestratorAssumption
    <3>6. i <= Len(request[r].plan) /\ i >= request[r].index + 1
      BY <1>2, <3>3 DEF Pending
    <3>7. i > request[r].index
      BY <3>3, <3>5, <3>6
    <3>8. QED BY <3>3, <3>4, <3>6, <3>7 DEF Pending
  <2>5. CASE Submit(r) \/ ClientError(r) \/ Record(r) \/ Throw(r) \/ Settle(r)
    <3>1. CASE Submit(r)
      <4>1. request'[r] = [request[r] EXCEPT !.pc = "submitted"]
        BY <3>1, Replaced DEF Submit
      <4>2. QED BY <1>0, <2>1, <4>1 DEF RequestState
    <3>2. CASE Settle(r)
      <4>1. request'[r] = NewRequest
        BY <3>2, Replaced DEF Settle
      <4>2. QED BY <2>1, <4>1 DEF NewRequest
    <3>3. CASE ClientError(r) \/ Record(r) \/ Throw(r)
      <4>1. PICK answer : Finish(r, answer)
        BY <3>3 DEF ClientError, Record, Throw
      <4>2. request'[r] = [request[r] EXCEPT !.pc = "finished", !.answer = answer]
        BY <4>1, Replaced DEF Finish
      <4>3. QED BY <1>0, <2>1, <4>2 DEF RequestState
    <3>4. QED BY <2>5, <3>1, <3>2, <3>3
  <2>6. QED BY <1>2, <2>2, <2>3, <2>4, <2>5
<1>3. QED BY <1>1, <1>2, StepAbandons

\* The outcome of the current candidate is known: its slot is given up.
LEMMA SlotFreed ==
    ASSUME IInv, NEW r \in Requests, Succeed(r) \/ Fail(r)
    PROVE  LET c == <<r, request[r].index>> IN
           /\ c \in Positions
           /\ Flight[c] = Candidate(r)
           /\ Candidate(r) \in Providers
           /\ Flight' = [Flight EXCEPT ![c] = None]
<1>0. /\ request \in [Requests -> RequestState] /\ request[r] \in RequestState
      /\ request[r].pc = "calling" /\ request[r].pc \in Looping
  BY DEF IInv, Succeed, Fail, At, Looping
<1>2. /\ GoodRequest(request[r]) /\ request[r].index \in 1..Len(request[r].plan)
      /\ Len(request[r].plan) \in Nat /\ Len(request[r].plan) <= MaxCandidates
      /\ Candidate(r) \in Providers
  BY <1>0, WorkFacts, LoopFacts
<1>3. PICK k \in 1..MaxCandidates :
        k = request[r].index /\ k \in Nat /\ k <= Len(request[r].plan)
  BY <1>2, OrchestratorAssumption
<1>1. /\ request'[r].pc \in {"recording", "reporting"}
      /\ request'[r].plan = request[r].plan /\ request'[r].index = k
      /\ \A q \in Requests \ {r} : request'[q] = request[q]
  <2>1. CASE Succeed(r)
    <3>1. Update(r, [request[r] EXCEPT !.pc = "recording"])
      BY <2>1 DEF Succeed
    <3>2. /\ request'[r] = [request[r] EXCEPT !.pc = "recording"]
          /\ \A q \in Requests \ {r} : request'[q] = request[q]
      BY <3>1, Replaced
    <3>3. QED BY <1>0, <1>3, <3>2 DEF RequestState
  <2>2. CASE Fail(r)
    <3>1. Update(r, [request[r] EXCEPT !.pc = "reporting",
                                       !.reported = Append(@, Candidate(r))])
      BY <2>2 DEF Fail
    <3>2. /\ request'[r] = [request[r] EXCEPT !.pc = "reporting",
                                              !.reported = Append(@, Candidate(r))]
          /\ \A q \in Requests \ {r} : request'[q] = request[q]
      BY <3>1, Replaced
    <3>3. QED BY <1>0, <1>3, <3>2 DEF RequestState
  <2>3. QED BY <2>1, <2>2
<1> DEFINE c == <<r, k>>
<1>4. Pending(r, k)
  BY <1>0, <1>3 DEF Pending
<1>5. c \in Positions /\ Flight[c] = Candidate(r)
  BY <1>3, <1>4, SlotOf DEF Candidate
<1>6. ASSUME NEW q \in Requests, NEW i \in 1..MaxCandidates
      PROVE  Flight'[<<q, i>>] = IF <<q, i>> = c THEN None ELSE Flight[<<q, i>>]
  <2>1. CASE q # r
    <3>1. (Pending(q, i)' <=> Pending(q, i)) /\ <<q, i>> # c
      BY <1>1, <2>1 DEF Pending
    <3>2. QED BY <1>1, <2>1, <3>1, SlotOf
  <2>2. CASE q = r /\ i = k
    <3>1. ~Pending(r, k)'
      BY <1>1, <1>3 DEF Pending
    <3>2. QED BY <1>3, <2>2, <3>1, SlotOf
  <2>3. CASE q = r /\ i # k
    <3>1. i \in Nat /\ (i > k <=> i >= k)
      BY <1>3, <2>3, OrchestratorAssumption
    <3>2. <<q, i>> # c
      BY <2>3
    <3>3. Pending(r, i) <=> i <= Len(request[r].plan) /\ i >= k
      BY <1>0, <1>3 DEF Pending
    <3>4. Pending(r, i)' <=> i <= Len(request[r].plan) /\ i > k
      BY <1>1 DEF Pending
    <3>5. Pending(r, i)' <=> Pending(r, i)
      BY <3>1, <3>3, <3>4
    <3>6. QED BY <1>1, <2>3, <3>2, <3>5, SlotOf
  <2>4. QED BY <2>1, <2>2, <2>3
<1>7. \A d \in Positions : Flight'[d] = IF d = c THEN None ELSE Flight[d]
  BY <1>6 DEF Positions
<1>8. DOMAIN Flight' = Positions /\ DOMAIN Flight = Positions
  BY DEF Flight
<1>9. Flight' = [d \in Positions |-> Flight'[d]] /\ Flight = [d \in Positions |-> Flight[d]]
  BY DEF Flight
<1> HIDE DEF c
<1>10. Flight' = [Flight EXCEPT ![c] = None]
  BY <1>7, <1>8, <1>9
<1>11. QED BY <1>2, <1>3, <1>5, <1>10 DEF c

\* The filter: the candidates that were let through take slots that were free.
LEMMA RouteFilters ==
    ASSUME IInv, IInv', NEW r \in Requests, Route(r)
    PROVE  \E asked \in SUBSET Providers : Breaker!Filter(asked)
<1>1. PICK list \in CandidateLists :
        LET kept == LetThrough(list, circuit) IN
        /\ circuit' = [p \in Providers |->
                         IF p \in ToSet(list) THEN Consulted(circuit[p])
                                              ELSE circuit[p]]
        /\ \/ list = <<>> /\ Finish(r, "noAccounts")
           \/ list # <<>> /\ kept = <<>> /\ Finish(r, "circuitOpen")
           \/ /\ kept # <<>>
              /\ Update(r, [request[r] EXCEPT !.pc = "preparing", !.plan = kept])
  BY DEF Route
<1> DEFINE kept == LetThrough(list, circuit)
<1>2. \A i \in 1..Len(kept) : Allowed(circuit[kept[i]]) /\ kept[i] \in ToSet(list)
  BY AdmittedShape
<1>3. ToSet(list) \in SUBSET Providers
  BY OrchestratorAssumption DEF ToSet
<1> HIDE DEF kept
<1>4. /\ request \in [Requests -> RequestState] /\ request[r] \in RequestState
      /\ request[r].pc = "submitted"
  BY DEF IInv, Route, At
<1>5. \A q \in Requests \ {r} : request'[q] = request[q]
  BY <1>1, <1>4 DEF Finish, Update
<1>6. request'[r].pc = "finished" \/ (request'[r].pc = "preparing" /\ request'[r].plan = kept)
  BY <1>1, <1>4 DEF Finish, Update, RequestState, kept
<1>7. ASSUME NEW q \in Requests, NEW i \in 1..MaxCandidates,
             Flight'[<<q, i>>] # Flight[<<q, i>>]
      PROVE  /\ Flight[<<q, i>>] = None
             /\ Flight'[<<q, i>>] \in ToSet(list)
             /\ Allowed(circuit[Flight'[<<q, i>>]])
  <2>1. q = r
    <3>1. SUFFICES ASSUME q # r PROVE FALSE
      OBVIOUS
    <3>2. Pending(q, i)' <=> Pending(q, i)
      BY <1>5, <3>1 DEF Pending
    <3>3. QED BY <1>5, <1>7, <3>1, <3>2, SlotOf
  <2>2. ~Pending(r, i) /\ Flight[<<q, i>>] = None
    BY <1>4, <2>1, SlotOf DEF Pending
  <2>3. Pending(r, i)' /\ Flight'[<<q, i>>] = request'[r].plan[i]
    BY <1>7, <2>1, <2>2, SlotOf
  <2>4. request'[r].plan = kept /\ i <= Len(kept)
    BY <1>6, <2>3 DEF Pending
  <2>5. i \in 1..Len(kept)
    <3>1. Len(kept) \in Nat
      BY AdmittedShape DEF kept
    <3>2. QED BY <2>4, <3>1, OrchestratorAssumption
  <2>6. QED BY <1>2, <2>2, <2>3, <2>4, <2>5
<1>8. ASSUME NEW c \in Positions, Flight'[c] # Flight[c]
      PROVE  /\ Flight[c] = None
             /\ Flight'[c] \in ToSet(list)
             /\ Allowed(circuit[Flight'[c]])
  BY <1>7, <1>8 DEF Positions
<1>9. Flight' \in [Positions -> Providers \cup {None}]
  BY FlightShapePrime
<1>10. Breaker!Filter(ToSet(list))
  BY <1>1, <1>8, <1>9 DEF Breaker!Filter, Flight, Breaker!Allowed, Allowed,
                          Breaker!Consulted, Consulted
<1>11. QED BY <1>3, <1>10

\* What the orchestrator does to the breaker: neither a reset nor a restart.
BreakerUsed ==
    \/ \E asked \in SUBSET Providers : Breaker!Filter(asked)
    \/ \E c \in Positions : Breaker!Succeed(c) \/ Breaker!Fail(c)
    \/ Breaker!Abandon
    \/ Breaker!Tick
    \/ UNCHANGED Breaker!vars

\* Every step of the system is a step of the breaker's callers, or none.
LEMMA BreakerStep ==
    ASSUME IInv, IInv', [Next]_vars
    PROVE  BreakerUsed
<1>1. ASSUME NEW r \in Requests, Route(r) PROVE BreakerUsed
  BY <1>1, RouteFilters DEF BreakerUsed
<1>2. ASSUME NEW r \in Requests, Succeed(r) PROVE BreakerUsed
  <2>1. PICK c \in Positions :
          /\ Flight[c] = Candidate(r) /\ Candidate(r) \in Providers
          /\ Flight' = [Flight EXCEPT ![c] = None]
    BY <1>2, SlotFreed
  <2>2. /\ Flight[c] # None
        /\ circuit' = [circuit EXCEPT ![Flight[c]] = NewEntry]
    BY <1>2, <2>1, OrchestratorAssumption DEF Succeed, Succeeded
  <2>3. Breaker!Succeed(c)
    BY <2>1, <2>2 DEF Breaker!Succeed, Flight, Breaker!Succeeded, Breaker!NewEntry, NewEntry
  <2>4. QED BY <2>1, <2>3 DEF BreakerUsed
<1>3. ASSUME NEW r \in Requests, Fail(r) PROVE BreakerUsed
  <2>1. PICK c \in Positions :
          /\ Flight[c] = Candidate(r) /\ Candidate(r) \in Providers
          /\ Flight' = [Flight EXCEPT ![c] = None]
    BY <1>3, SlotFreed
  <2>2. /\ Flight[c] # None
        /\ circuit' = [circuit EXCEPT ![Flight[c]] = Failed(@)]
    BY <1>3, <2>1, OrchestratorAssumption DEF Fail
  <2>3. \A e : Breaker!Failed(e) = Failed(e)
    BY DEF Breaker!Failed, Breaker!Trips, Breaker!OneMore, Failed, Trips, OneMore
  <2>4. Breaker!Fail(c)
    BY <2>1, <2>2, <2>3 DEF Breaker!Fail, Flight
  <2>5. QED BY <2>1, <2>4 DEF BreakerUsed
<1>4. ASSUME NEW r \in Requests,
             \/ Submit(r) \/ Call(r) \/ ClientError(r) \/ Retry(r)
             \/ Failover(r) \/ Record(r) \/ Throw(r) \/ Settle(r)
      PROVE  BreakerUsed
  BY <1>4, SilentSteps DEF BreakerUsed
<1>5. CASE Tick
  <2>1. Flight' = Flight
    BY <1>5 DEF Tick, Flight, Pending
  <2>2. Breaker!Tick
    BY <1>5, <2>1 DEF Tick, Breaker!Tick, Flight, Breaker!Aged, Aged
  <2>3. QED BY <2>2 DEF BreakerUsed
<1>6. CASE UNCHANGED vars
  <2>1. Flight' = Flight /\ circuit' = circuit
    BY <1>6 DEF vars, Flight, Pending
  <2>2. QED BY <2>1 DEF BreakerUsed, Breaker!vars, Flight
<1>7. QED BY <1>1, <1>2, <1>3, <1>4, <1>5, <1>6 DEF Next, Work

\* For every list of candidates, every number of retries and of requests: the
\* orchestrator uses the breaker as CircuitBreaker says its callers do.  Each
\* candidate that passed the filter has one outcome reported or none, and none
\* is reported for a candidate that did not pass.
THEOREM OrchestratorImplementsBreaker == Spec => ImplementsBreaker
<1>1. Init => Breaker!Init
  <2> SUFFICES ASSUME Init PROVE Breaker!Init
    OBVIOUS
  <2>1. \A r \in Requests, i \in 1..MaxCandidates : ~Pending(r, i)
    BY DEF Init, NewRequest, Pending
  <2>2. Flight = [c \in Positions |-> None]
    BY <2>1 DEF Flight, Positions
  <2>3. QED BY <2>2 DEF Init, Breaker!Init, Flight, Breaker!NewEntry, NewEntry
<1>2. IInv /\ IInv' /\ [Next]_vars => [Breaker!Next]_(Breaker!vars)
  BY BreakerStep DEF BreakerUsed, Breaker!Next
<1>3. QED BY <1>1, <1>2, OrchestratorInvariant, PTL DEF Spec, ImplementsBreaker, Breaker!Spec

\* The breaker of OrchestratorProofs is that of Orchestrator.
LEMMA SameBreaker == Breaker!Spec => BreakerProofs!Spec
<1>1. Breaker!Init => BreakerProofs!Init
  BY DEF Breaker!Init, BreakerProofs!Init, Breaker!NewEntry, BreakerProofs!NewEntry, Flight
<1>2. /\ \A asked : Breaker!Filter(asked) => BreakerProofs!Filter(asked)
      /\ \A c \in Positions : /\ Breaker!Succeed(c) => BreakerProofs!Succeed(c)
                              /\ Breaker!Fail(c) => BreakerProofs!Fail(c)
  <2>1. \A e : /\ Breaker!Allowed(e) = BreakerProofs!Allowed(e)
               /\ Breaker!Consulted(e) = BreakerProofs!Consulted(e)
               /\ Breaker!Succeeded(e) = BreakerProofs!Succeeded(e)
               /\ Breaker!Failed(e) = BreakerProofs!Failed(e)
    BY DEF Breaker!Allowed, BreakerProofs!Allowed, Breaker!Consulted, BreakerProofs!Consulted,
           Breaker!Succeeded, BreakerProofs!Succeeded, Breaker!NewEntry, BreakerProofs!NewEntry,
           Breaker!Failed, BreakerProofs!Failed, Breaker!Trips, BreakerProofs!Trips,
           Breaker!OneMore, BreakerProofs!OneMore
  <2>2. ASSUME NEW asked, Breaker!Filter(asked) PROVE BreakerProofs!Filter(asked)
    BY <2>1, <2>2 DEF Breaker!Filter, BreakerProofs!Filter, Flight
  <2>3. ASSUME NEW c \in Positions, Breaker!Succeed(c) PROVE BreakerProofs!Succeed(c)
    BY <2>1, <2>3 DEF Breaker!Succeed, BreakerProofs!Succeed, Flight
  <2>4. ASSUME NEW c \in Positions, Breaker!Fail(c) PROVE BreakerProofs!Fail(c)
    BY <2>1, <2>4 DEF Breaker!Fail, BreakerProofs!Fail, Flight
  <2>5. QED BY <2>2, <2>3, <2>4
<1>3. /\ Breaker!Abandon => BreakerProofs!Abandon
      /\ \A ps : Breaker!Reset(ps) => BreakerProofs!Reset(ps)
      /\ Breaker!Restart => BreakerProofs!Restart
      /\ Breaker!Tick => BreakerProofs!Tick
  <2>1. \A e : Breaker!Aged(e) = BreakerProofs!Aged(e)
    BY DEF Breaker!Aged, BreakerProofs!Aged
  <2>2. Breaker!Abandon => BreakerProofs!Abandon
    BY DEF Breaker!Abandon, BreakerProofs!Abandon, Flight
  <2>3. \A ps : Breaker!Reset(ps) => BreakerProofs!Reset(ps)
    BY DEF Breaker!Reset, BreakerProofs!Reset, Flight, Breaker!NewEntry, BreakerProofs!NewEntry
  <2>4. Breaker!Restart => BreakerProofs!Restart
    BY DEF Breaker!Restart, BreakerProofs!Restart, Flight, Breaker!NewEntry, BreakerProofs!NewEntry
  <2>5. Breaker!Tick => BreakerProofs!Tick
    BY <2>1 DEF Breaker!Tick, BreakerProofs!Tick, Flight
  <2>6. QED BY <2>2, <2>3, <2>4, <2>5
<1>4. [Breaker!Next]_(Breaker!vars) => [BreakerProofs!Next]_(BreakerProofs!vars)
  <2>1. Breaker!Next => BreakerProofs!Next
    BY <1>2, <1>3 DEF Breaker!Next, BreakerProofs!Next
  <2>2. UNCHANGED Breaker!vars => UNCHANGED BreakerProofs!vars
    BY DEF Breaker!vars, BreakerProofs!vars, Flight
  <2>3. QED BY <2>1, <2>2
<1>5. QED BY <1>1, <1>4, PTL DEF Breaker!Spec, BreakerProofs!Spec

\* For every list of candidates and every order of outcomes, the breaker of
\* the running orchestrator keeps counter and state in agreement, goes half
\* open after a whole cooldown only, admits no candidate of a request while a
\* circuit stays open, and restarts no cooldown for a late failure.
THEOREM BreakerHolds ==
    Spec => /\ []Breaker!FailuresMatchState
            /\ []Breaker!HalfOpenAfterCooldown
            /\ Breaker!OpenDrains
            /\ Breaker!CooldownNeverRestarts
<1>1. BreakerProofs!BreakerAssumption /\ BreakerProofs!EntryAssumption
  BY BreakerAssumed
<1>2. BreakerProofs!Spec => []BreakerProofs!FailuresMatchState
  BY <1>1, BreakerProofs!ThresholdDecides
<1>3. BreakerProofs!Spec => []BreakerProofs!HalfOpenAfterCooldown
  BY <1>1, BreakerProofs!CooldownObserved
<1>4. BreakerProofs!Spec => BreakerProofs!OpenDrains
  BY <1>1, BreakerProofs!OpenCircuitDrains
<1>5. /\ BreakerProofs!FailuresMatchState => Breaker!FailuresMatchState
      /\ BreakerProofs!HalfOpenAfterCooldown => Breaker!HalfOpenAfterCooldown
  BY DEF BreakerProofs!FailuresMatchState, Breaker!FailuresMatchState,
         BreakerProofs!HalfOpenAfterCooldown, Breaker!HalfOpenAfterCooldown
<1>6. BreakerProofs!OpenDrains => Breaker!OpenDrains
  <2> DEFINE D == \A p \in Providers :
                    circuit[p].state = "open" /\ circuit'[p].state = "open"
                      => BreakerProofs!InFlight(p)' \subseteq BreakerProofs!InFlight(p)
             E == \A p \in Providers :
                    circuit[p].state = "open" /\ circuit'[p].state = "open"
                      => Breaker!InFlight(p)' \subseteq Breaker!InFlight(p)
  <2>1. [D]_(BreakerProofs!vars) => [E]_(Breaker!vars)
    BY DEF Breaker!vars, BreakerProofs!vars, Flight, Breaker!InFlight, BreakerProofs!InFlight
  <2>2. QED BY <2>1, PTL DEF BreakerProofs!OpenDrains, Breaker!OpenDrains
<1>7. BreakerProofs!Spec => BreakerProofs!CooldownNeverRestarts
  BY <1>1, BreakerProofs!CooldownRunsOut
<1>8. BreakerProofs!CooldownNeverRestarts => Breaker!CooldownNeverRestarts
  <2> DEFINE Runs == \A p \in Providers :
                       circuit[p].state = "open" /\ circuit'[p].state = "open"
                         => circuit'[p].elapsed >= circuit[p].elapsed
  <2>1. [Runs]_(BreakerProofs!vars) => [Runs]_(Breaker!vars)
    BY DEF Breaker!vars, BreakerProofs!vars, Flight
  <2>2. QED BY <2>1, PTL DEF BreakerProofs!CooldownNeverRestarts, Breaker!CooldownNeverRestarts
<1>9. QED BY <1>2, <1>3, <1>4, <1>5, <1>6, <1>7, <1>8,
         OrchestratorImplementsBreaker, SameBreaker, PTL
      DEF ImplementsBreaker

\* For every limit and every number of requests: as long as requests wait in
\* the queue of the running orchestrator, one is under way whose end starts
\* the next, unless the limit is zero.
THEOREM QueueNeverStalls == Spec => []Queue!NoStall
<1>1. IInv => Queue!NoStall
  BY DEF IInv, QueueProofs!IInv, QueueProofs!NoStall, Queue!NoStall
<1>2. QED BY <1>1, OrchestratorInvariant, PTL

\* What the orchestrator does to the queue is what QueueManager does.
THEOREM OrchestratorImplementsQueue == Spec => Queue!Spec
<1>1. Init => Queue!Init
  BY DEF Init
<1>2. [Next]_vars => [Queue!Next]_(Queue!vars)
  <2>1. ASSUME NEW r \in Requests, Submit(r) PROVE Queue!Next
    BY <2>1 DEF Submit, Queue!Next
  <2>2. ASSUME NEW r \in Requests, Settle(r) PROVE Queue!Next
    BY <2>2 DEF Settle, Queue!Next
  <2>3. ASSUME NEW r \in Requests, Work(r), ~Settle(r) PROVE UNCHANGED queueVars
    BY <2>3 DEF Work, Route, Call, ClientError, Succeed, Retry, Fail, Failover, Record, Throw
  <2>4. ASSUME Tick \/ UNCHANGED vars PROVE UNCHANGED queueVars
    BY <2>4 DEF Tick, vars
  <2>5. UNCHANGED queueVars => UNCHANGED Queue!vars
    BY DEF queueVars, Queue!vars
  <2>6. QED BY <2>1, <2>2, <2>3, <2>4, <2>5 DEF Next
<1>3. QED BY <1>1, <1>2, PTL DEF Spec, Queue!Spec

\* Both instances of QueueManager describe the same behaviours.
LEMMA SameQueue == Queue!Spec => QueueProofs!Spec
<1>1. Queue!Init => QueueProofs!Init
  BY DEF Queue!Init, QueueProofs!Init
<1>2. [Queue!Next]_(Queue!vars) => [QueueProofs!Next]_(QueueProofs!vars)
  <2>1. ASSUME NEW r \in Requests, NEW g \in Groups, NEW i \in Intents,
               Queue!Enqueue(r, g, i)
        PROVE  QueueProofs!Next
    BY <2>1, SameEnqueue DEF QueueProofs!Next
  <2>2. ASSUME NEW r \in Requests, Queue!Settle(r) PROVE QueueProofs!Next
    BY <2>2, SameSettle DEF QueueProofs!Next
  <2>3. UNCHANGED Queue!vars => UNCHANGED QueueProofs!vars
    BY DEF Queue!vars, QueueProofs!vars
  <2>4. QED BY <2>1, <2>2, <2>3 DEF Queue!Next
<1>3. QED BY <1>1, <1>2, PTL DEF Queue!Spec, QueueProofs!Spec

\* In the running orchestrator, too, activeCount counts the tasks, no request
\* is overtaken by a later one of its priority or a lower one, and the sorted
\* sequence and the counter implement the pool of TaskPool.
THEOREM QueueKeepsOrder ==
    Spec => /\ []Queue!SlotsAccountedFor
            /\ Queue!NoOvertaking
            /\ Queue!ImplementsPool
<1>1. QueueProofs!Spec => []QueueProofs!SlotsAccountedFor
  BY QueueAssumed, QueueProofs!SlotsNeverLeak
<1>2. QueueProofs!Spec => QueueProofs!NoOvertaking
  BY QueueAssumed, QueueProofs!ArrivalOrderKept
<1>3. QueueProofs!Spec => QueueProofs!ImplementsPool
  BY QueueAssumed, QueueProofs!QueueImplementsPool
<1>4. QueueProofs!SlotsAccountedFor => Queue!SlotsAccountedFor
  <2>1. \A u : QueueProofs!Cardinality(u) = Queue!Cardinality(u)
    BY DEF QueueProofs!Cardinality, Queue!Cardinality, QueueProofs!IsFiniteSet, Queue!IsFiniteSet
  <2>2. QED BY <2>1, SameQueued DEF QueueProofs!SlotsAccountedFor, Queue!SlotsAccountedFor
<1>5. QueueProofs!NoOvertaking => Queue!NoOvertaking
  <2> DEFINE D == \A r \in QueueProofs!Queued, s \in Requests :
                    QueueProofs!Ahead(r, s) \/ QueueProofs!ArrivesBehind(s, r)
                      => r \in executing' \/ QueueProofs!Ahead(r, s)'
             E == \A r \in Queue!Queued, s \in Requests :
                    Queue!Ahead(r, s) \/ Queue!ArrivesBehind(s, r)
                      => r \in executing' \/ Queue!Ahead(r, s)'
  <2>1. [D]_(QueueProofs!vars) => [E]_(Queue!vars)
    BY SameQueued, SameQueuedPrime
    DEF QueueProofs!vars, Queue!vars, QueueProofs!Ahead, Queue!Ahead,
        QueueProofs!ArrivesBehind, Queue!ArrivesBehind
  <2>2. QED BY <2>1, PTL DEF QueueProofs!NoOvertaking, Queue!NoOvertaking
<1>6. QueueProofs!ImplementsPool => Queue!ImplementsPool
  <2>1. QueueProofs!PriorityValues = Queue!PriorityValues
    BY DEF QueueProofs!PriorityValues, Queue!PriorityValues,
       QueueProofs!CalculatePriority, Queue!CalculatePriority,
       QueueProofs!GroupWeight, Queue!GroupWeight, QueueProofs!Weights, Queue!Weights
  <2>2. QueueProofs!Pool!Init => Queue!Pool!Init
    BY <2>1, SameQueued DEF QueueProofs!Pool!Init, Queue!Pool!Init
  <2>3. \A u : QueueProofs!Pool!Cardinality(u) = Queue!Pool!Cardinality(u)
    BY DEF QueueProofs!Pool!Cardinality, Queue!Pool!Cardinality,
           QueueProofs!Pool!IsFiniteSet, Queue!Pool!IsFiniteSet
  <2>4. \A w, u, l, pr : QueueProofs!Pool!StartOne(w, u, l, pr)
                            <=> Queue!Pool!StartOne(w, u, l, pr)
    BY <2>3, SameQueuedPrime DEF QueueProofs!Pool!StartOne, Queue!Pool!StartOne
  <2>5. /\ \A t, n : QueueProofs!Pool!Submit(t, n) => Queue!Pool!Submit(t, n)
        /\ \A t : QueueProofs!Pool!Finish(t) => Queue!Pool!Finish(t)
        /\ \A l : QueueProofs!Pool!Resize(l) => Queue!Pool!Resize(l)
    BY <2>4, SameQueued
    DEF QueueProofs!Pool!Submit, Queue!Pool!Submit, QueueProofs!Pool!Finish,
        Queue!Pool!Finish, QueueProofs!Pool!Resize, Queue!Pool!Resize
  <2>6. [QueueProofs!Pool!Next]_(QueueProofs!Pool!vars) => [Queue!Pool!Next]_(Queue!Pool!vars)
    BY <2>1, <2>5, SameQueued, SameQueuedPrime
    DEF QueueProofs!Pool!Next, Queue!Pool!Next, QueueProofs!Pool!vars, Queue!Pool!vars
  <2>7. QED BY <2>2, <2>6, PTL DEF QueueProofs!ImplementsPool, Queue!ImplementsPool,
            QueueProofs!Pool!Spec, Queue!Pool!Spec
<1>7. QED BY <1>1, <1>2, <1>3, <1>4, <1>5, <1>6, OrchestratorImplementsQueue, SameQueue, PTL

-----------------------------------------------------------------------------
(* Batch mode.  A race is decided by its tasks: the invariant says what    *)
(* has happened when a task is in its phase, and a race has its answer.    *)

Phases == {"calling", "won", "storing", "failing"} \cup Batch!Settled

RaceState ==
    [plan : Seq(Providers), phase : Seq(Phases), signal : BOOLEAN,
     answer : Batch!Fulfilled \cup {"allFailed", None}, answered : BOOLEAN]

\* Task i of x is in that phase.
Ended(x, i, phase) == x.phase[i] = phase

GoodRace(x) ==
    /\ x \in RaceState
    /\ Len(x.phase) = Len(x.plan)
    /\ Len(x.plan) <= Parallel
    /\ \A i \in 1..Len(x.plan) :
         /\ x.phase[i] \in {"won", "storing", "returned"} => x.answered
         /\ x.phase[i] \in {"storing", "returned"} => x.signal
    /\ x.signal => x.answered
    /\ x.answer = "returned" => x.signal /\ \E i \in 1..Len(x.plan) : Ended(x, i, "returned")
    /\ x.answer = "aborted" => \E i \in 1..Len(x.plan) : Ended(x, i, "aborted")
    /\ x.answer = "allFailed" => \A i \in 1..Len(x.plan) : Ended(x, i, "rejected")
    /\ x.answer = None =>
         /\ \A i \in 1..Len(x.plan) : x.phase[i] \notin Batch!Fulfilled
         /\ 1..Len(x.plan) # {} => \E i \in 1..Len(x.plan) : ~Ended(x, i, "rejected")

RaceInv ==
    /\ circuit \in [Providers -> Entry]
    /\ race \in [Races -> RaceState]
    /\ \A b \in Races : GoodRace(race[b])

\* A task under way goes to another phase p, in the state y of its race.
TaskMoves(x, y, i, p) ==
    LET phases == [x.phase EXCEPT ![i] = p] IN
    /\ y \in RaceState
    /\ y.plan = x.plan
    /\ y.phase = phases
    /\ y.answer = IF x.answer # None THEN x.answer
                  ELSE IF p \in Batch!Fulfilled THEN p
                  ELSE IF \A j \in 1..Len(x.plan) : phases[j] = "rejected" THEN "allFailed"
                  ELSE None

\* A move keeps a race in order if what the new phase promises holds.
LEMMA MoveGood ==
    ASSUME Batch!RaceAssumption, NEW x, GoodRace(x), NEW y, NEW i \in 1..Len(x.plan),
           x.phase[i] \notin Batch!Settled, NEW p \in Phases, TaskMoves(x, y, i, p),
           x.answered => y.answered, x.signal => y.signal, y.signal => y.answered,
           p \in {"won", "storing", "returned"} => y.answered,
           p \in {"storing", "returned"} => y.signal
    PROVE  GoodRace(y)
<1>1. /\ y \in RaceState /\ y.plan = x.plan /\ y.phase = [x.phase EXCEPT ![i] = p]
      /\ x \in RaceState /\ Len(x.phase) = Len(x.plan)
  BY DEF TaskMoves, GoodRace
<1>2. /\ x.phase \in Seq(Phases) /\ Len(x.plan) \in Nat /\ DOMAIN x.phase = 1..Len(x.plan)
  BY <1>1 DEF RaceState
<1>3. Len(y.phase) = Len(y.plan)
  BY <1>1, <1>2
<1>4. y.phase[i] = p /\ \A j \in 1..Len(x.plan) \ {i} : y.phase[j] = x.phase[j]
  BY <1>1, <1>2
<1>5. \A j \in 1..Len(y.plan) :
        /\ y.phase[j] \in {"won", "storing", "returned"} => y.answered
        /\ y.phase[j] \in {"storing", "returned"} => y.signal
  BY <1>1, <1>4 DEF GoodRace
<1>6. x.answer # "allFailed"
  BY DEF GoodRace, Ended, Batch!Settled
<1>7. /\ None \notin {"returned", "aborted", "allFailed"}
      /\ y.answer = IF x.answer # None THEN x.answer
                    ELSE IF p \in Batch!Fulfilled THEN p
                    ELSE IF \A j \in 1..Len(x.plan) : y.phase[j] = "rejected" THEN "allFailed"
                    ELSE None
  BY <1>1 DEF TaskMoves, Batch!RaceAssumption
<1>8. \A j \in 1..Len(x.plan) : x.phase[j] \in Batch!Settled => y.phase[j] = x.phase[j]
  BY <1>4
<1>9. y.answer = "returned" =>
        y.signal /\ \E j \in 1..Len(y.plan) : Ended(y, j, "returned")
  <2>1. CASE x.answer # None
    BY <1>1, <1>7, <1>8, <2>1 DEF GoodRace, Ended, Batch!Settled, Batch!Fulfilled
  <2>2. CASE x.answer = None
    <3>1. y.answer = "returned" => p = "returned"
      BY <1>7, <2>2
    <3>2. QED BY <1>1, <1>4, <3>1 DEF Ended
  <2>3. QED BY <2>1, <2>2
<1>10. y.answer = "aborted" => \E j \in 1..Len(y.plan) : Ended(y, j, "aborted")
  <2>1. CASE x.answer # None
    BY <1>1, <1>7, <1>8, <2>1 DEF GoodRace, Ended, Batch!Settled, Batch!Fulfilled
  <2>2. CASE x.answer = None
    <3>1. y.answer = "aborted" => p = "aborted"
      BY <1>7, <2>2
    <3>2. QED BY <1>1, <1>4, <3>1 DEF Ended
  <2>3. QED BY <2>1, <2>2
<1>11. y.answer = "allFailed" => \A j \in 1..Len(y.plan) : Ended(y, j, "rejected")
  <2>1. CASE x.answer # None
    BY <1>6, <1>7, <2>1
  <2>2. CASE x.answer = None
    BY <1>1, <1>7, <2>2 DEF Ended, Batch!Fulfilled
  <2>3. QED BY <2>1, <2>2
<1>12. ASSUME y.answer = None
       PROVE  /\ \A j \in 1..Len(y.plan) : y.phase[j] \notin Batch!Fulfilled
              /\ 1..Len(y.plan) # {} => \E j \in 1..Len(y.plan) : ~Ended(y, j, "rejected")
  <2>1. /\ x.answer = None /\ p \notin Batch!Fulfilled
        /\ \E j \in 1..Len(x.plan) : y.phase[j] # "rejected"
    BY <1>7, <1>12 DEF Batch!Fulfilled
  <2>2. \A j \in 1..Len(x.plan) : x.phase[j] \notin Batch!Fulfilled
    BY <2>1 DEF GoodRace
  <2>3. QED BY <1>1, <1>4, <2>1, <2>2 DEF Ended
<1>13. Len(y.plan) <= Parallel
  BY <1>1 DEF GoodRace
<1>14. QED BY <1>1, <1>3, <1>5, <1>9, <1>10, <1>11, <1>12, <1>13 DEF GoodRace

\* What a step finds: its task under way in a race that is in order.
LEMMA AtTask ==
    ASSUME RaceInv, NEW b \in Races, NEW i, NEW p \in Phases \ Batch!Settled,
           Batch!At(b, i, p)
    PROVE  /\ race[b] \in RaceState /\ GoodRace(race[b])
           /\ i \in 1..Len(race[b].plan) /\ i \in Nat
           /\ race[b].phase[i] = p
           /\ race[b].plan[i] \in Providers
<1>1. race[b] \in RaceState /\ GoodRace(race[b])
  BY DEF RaceInv
<1>2. race[b].plan \in Seq(Providers)
  BY <1>1 DEF RaceState
<1>3. i \in 1..Len(race[b].plan) /\ race[b].phase[i] = p
  BY <1>2 DEF Batch!At, Batch!Tasks
<1>4. QED BY <1>1, <1>2, <1>3

\* Move is such a move, whatever becomes of the signal and of those who answered.
LEMMA MoveMoves ==
    ASSUME RaceInv, Batch!RaceAssumption, NEW b \in Races, NEW i, NEW p \in Phases,
           GoodRace(race[b]), i \in 1..Len(race[b].plan)
    PROVE  /\ TaskMoves(race[b], Batch!Move(b, i, p), i, p)
           /\ Batch!Move(b, i, p).signal = race[b].signal
           /\ Batch!Move(b, i, p).answered = race[b].answered
<1> DEFINE x == race[b]
           phases == [x.phase EXCEPT ![i] = p]
           answer == Batch!Answer(b, phases, i)
           y == Batch!Move(b, i, p)
<1>1. x \in RaceState /\ Len(x.phase) = Len(x.plan) /\ x.plan \in Seq(Providers)
      /\ x.phase \in Seq(Phases) /\ Len(x.plan) \in Nat
  BY DEF GoodRace, RaceState
<1>2. phases \in Seq(Phases) /\ phases[i] = p
  BY <1>1
<1>3. Batch!Tasks(b) = 1..Len(x.plan)
  BY <1>1 DEF Batch!Tasks
<1>4. answer = IF x.answer # None THEN x.answer
               ELSE IF p \in Batch!Fulfilled THEN p
               ELSE IF \A j \in 1..Len(x.plan) : phases[j] = "rejected" THEN "allFailed"
               ELSE None
  BY <1>2, <1>3 DEF Batch!Answer
<1>5. answer \in Batch!Fulfilled \cup {"allFailed", None}
  BY <1>1, <1>4 DEF RaceState
<1>6. y = [x EXCEPT !.phase = phases, !.answer = answer]
  BY DEF Batch!Move
<1> HIDE DEF phases, answer, y
<1>7. y \in RaceState
  BY <1>1, <1>2, <1>5, <1>6 DEF RaceState
<1>8. /\ y.plan = x.plan /\ y.phase = phases /\ y.answer = answer
      /\ y.signal = x.signal /\ y.answered = x.answered
  BY <1>1, <1>6 DEF RaceState
<1>9. TaskMoves(x, y, i, p)
  BY <1>4, <1>7, <1>8 DEF TaskMoves, phases
<1>10. QED BY <1>8, <1>9 DEF y

\* Task i of race b goes from the phase it is in to p, and nothing else moves.
Moved(b, i, p) ==
    /\ race' = [race EXCEPT ![b] = race'[b]]
    /\ race[b] \in RaceState /\ i \in 1..Len(race[b].plan)
    /\ TaskMoves(race[b], race'[b], i, p)
    /\ GoodRace(race'[b])

\* The provider of a candidate answers.
LEMMA WinMoves ==
    ASSUME RaceInv, Batch!RaceAssumption, NEW b \in Races, NEW i, Batch!Win(b, i)
    PROVE  Moved(b, i, "won") /\ race[b].phase[i] = "calling"
<1> DEFINE x == race[b]
           m == Batch!Move(b, i, "won")
           y == [m EXCEPT !.answered = TRUE]
<1>1. "calling" \in Phases \ Batch!Settled /\ "won" \in Phases
  BY DEF Phases, Batch!Settled, Batch!Fulfilled
<1>2. /\ x \in RaceState /\ GoodRace(x) /\ i \in 1..Len(x.plan) /\ i \in Nat
      /\ x.phase[i] = "calling"
  BY <1>1, AtTask DEF Batch!Win
<1>3. TaskMoves(x, m, i, "won") /\ m.signal = x.signal /\ m.answered = x.answered
  BY <1>1, <1>2, MoveMoves
<1>4. race' = [race EXCEPT ![b] = y]
  BY DEF Batch!Win, Batch!Update
<1>5. m \in RaceState
  BY <1>3 DEF TaskMoves
<1> HIDE DEF m
<1>6. /\ y \in RaceState /\ y.plan = m.plan /\ y.phase = m.phase /\ y.answer = m.answer
      /\ y.signal = m.signal /\ y.answered = TRUE
  BY <1>2, <1>5 DEF RaceState
<1> HIDE DEF y
<1>7. TaskMoves(x, y, i, "won")
  BY <1>3, <1>6 DEF TaskMoves
<1>9. GoodRace(y)
  <2>1. y.answered /\ y.signal = x.signal
    BY <1>3, <1>6
  <2>2. x.phase[i] \notin Batch!Settled
    BY <1>1, <1>2
  <2>3. QED BY <1>1, <1>2, <1>7, <2>1, <2>2, MoveGood
<1>10. race'[b] = y
  BY <1>4 DEF RaceInv
<1>11. QED BY <1>2, <1>4, <1>7, <1>9, <1>10 DEF Moved

\* A task that only moves on.
LEMMA PlainMoves ==
    ASSUME RaceInv, Batch!RaceAssumption, NEW b \in Races, NEW i,
           NEW from \in Phases \ Batch!Settled, NEW p \in Phases,
           Batch!At(b, i, from), Batch!Update(b, Batch!Move(b, i, p)),
           p \in {"failing", "rejected", "aborted"} \/ (from = "storing" /\ p = "returned")
    PROVE  Moved(b, i, p)
<1> DEFINE x == race[b]
           y == Batch!Move(b, i, p)
<1>1. /\ x \in RaceState /\ GoodRace(x) /\ i \in 1..Len(x.plan) /\ i \in Nat
      /\ x.phase[i] = from
  BY AtTask
<1>2. TaskMoves(x, y, i, p) /\ y.signal = x.signal /\ y.answered = x.answered
  BY <1>1, MoveMoves
<1>3. race' = [race EXCEPT ![b] = y]
  BY DEF Batch!Update
<1> HIDE DEF y
<1>4. /\ p \in {"won", "storing", "returned"} => y.answered
      /\ p \in {"storing", "returned"} => y.signal
  BY <1>1, <1>2 DEF GoodRace
<1>5. y.signal => y.answered
  BY <1>1, <1>2 DEF GoodRace
<1>6. GoodRace(y)
  BY <1>1, <1>2, <1>4, <1>5, MoveGood
<1>7. race'[b] = y
  BY <1>3 DEF RaceInv
<1>8. QED BY <1>1, <1>2, <1>3, <1>6, <1>7 DEF Moved

\* The winner aborts the others.
LEMMA AnnounceMoves ==
    ASSUME RaceInv, Batch!RaceAssumption, NEW b \in Races, NEW i, Batch!Announce(b, i)
    PROVE  Moved(b, i, "storing") /\ race[b].phase[i] = "won"
<1> DEFINE x == race[b]
           m == Batch!Move(b, i, "storing")
           y == [m EXCEPT !.signal = TRUE]
<1>1. "won" \in Phases \ Batch!Settled /\ "storing" \in Phases
  BY DEF Phases, Batch!Settled, Batch!Fulfilled
<1>2. /\ x \in RaceState /\ GoodRace(x) /\ i \in 1..Len(x.plan) /\ i \in Nat
      /\ x.phase[i] = "won"
  BY <1>1, AtTask DEF Batch!Announce
<1>3. TaskMoves(x, m, i, "storing") /\ m.signal = x.signal /\ m.answered = x.answered
  BY <1>1, <1>2, MoveMoves
<1>4. race' = [race EXCEPT ![b] = y]
  BY DEF Batch!Announce, Batch!Update
<1>5. m \in RaceState
  BY <1>3 DEF TaskMoves
<1> HIDE DEF m
<1>6. /\ y \in RaceState /\ y.plan = m.plan /\ y.phase = m.phase /\ y.answer = m.answer
      /\ y.signal = TRUE /\ y.answered = m.answered
  BY <1>5 DEF RaceState
<1> HIDE DEF y
<1>7. TaskMoves(x, y, i, "storing")
  BY <1>3, <1>6 DEF TaskMoves
<1>8. x.answered
  BY <1>2 DEF GoodRace
<1>9. GoodRace(y)
  <2>1. x.phase[i] \notin Batch!Settled
    BY <1>1, <1>2
  <2>2. y.answered /\ y.signal
    BY <1>3, <1>6, <1>8
  <2>3. QED BY <1>1, <1>2, <1>7, <1>8, <2>1, <2>2, MoveGood
<1>10. race'[b] = y
  BY <1>4 DEF RaceInv
<1>11. QED BY <1>2, <1>4, <1>7, <1>9, <1>10 DEF Moved

\* A task that returns, fails, is rejected or aborted only moves on.
LEMMA OtherMoves ==
    ASSUME RaceInv, Batch!RaceAssumption, NEW b \in Races, NEW i
    PROVE  /\ Batch!Return(b, i) => Moved(b, i, "returned") /\ race[b].phase[i] = "storing"
           /\ Batch!Fail(b, i) => /\ Moved(b, i, "failing")
                                  /\ race[b].phase[i] \in {"calling", "storing"}
           /\ Batch!Reject(b, i) => Moved(b, i, "rejected") /\ race[b].phase[i] = "failing"
           /\ Batch!Abort(b, i) => /\ Moved(b, i, "aborted")
                                   /\ race[b].phase[i] \in {"calling", "storing"}
<1>1. /\ {"calling", "storing", "failing"} \subseteq Phases \ Batch!Settled
      /\ {"returned", "failing", "rejected", "aborted"} \subseteq Phases
  BY DEF Phases, Batch!Settled, Batch!Fulfilled
<1>2. ASSUME Batch!Return(b, i)
      PROVE  Moved(b, i, "returned") /\ race[b].phase[i] = "storing"
  <2>1. Batch!At(b, i, "storing") /\ Batch!Update(b, Batch!Move(b, i, "returned"))
    BY <1>2 DEF Batch!Return
  <2>2. QED BY <1>1, <2>1, PlainMoves DEF Batch!At
<1>3. ASSUME Batch!Fail(b, i)
      PROVE  Moved(b, i, "failing") /\ race[b].phase[i] \in {"calling", "storing"}
  <2>1. PICK from \in {"calling", "storing"} : Batch!At(b, i, from)
    BY <1>3 DEF Batch!Fail
  <2>2. Batch!Update(b, Batch!Move(b, i, "failing"))
    BY <1>3 DEF Batch!Fail
  <2>3. QED BY <1>1, <2>1, <2>2, PlainMoves DEF Batch!At
<1>4. ASSUME Batch!Reject(b, i)
      PROVE  Moved(b, i, "rejected") /\ race[b].phase[i] = "failing"
  <2>1. Batch!At(b, i, "failing") /\ Batch!Update(b, Batch!Move(b, i, "rejected"))
    BY <1>4 DEF Batch!Reject
  <2>2. QED BY <1>1, <2>1, PlainMoves DEF Batch!At
<1>5. ASSUME Batch!Abort(b, i)
      PROVE  Moved(b, i, "aborted") /\ race[b].phase[i] \in {"calling", "storing"}
  <2>1. PICK from \in {"calling", "storing"} : Batch!At(b, i, from)
    BY <1>5 DEF Batch!Abort
  <2>2. Batch!Update(b, Batch!Move(b, i, "aborted"))
    BY <1>5 DEF Batch!Abort
  <2>3. QED BY <1>1, <2>1, <2>2, PlainMoves DEF Batch!At
<1>6. QED BY <1>2, <1>3, <1>4, <1>5

\* A race begins with the first candidates that pass the filter, all called.
LEMMA StartMoves ==
    ASSUME RaceInv, Batch!RaceAssumption, NEW b \in Races, Batch!Start(b)
    PROVE  \E list \in CandidateLists :
             /\ circuit' = [p \in Providers |-> IF p \in ToSet(list) THEN Consulted(circuit[p])
                                                                      ELSE circuit[p]]
             /\ race' = [race EXCEPT ![b] = race'[b]]
             /\ GoodRace(race'[b])
             /\ \A i \in 1..Len(race'[b].plan) : /\ race'[b].plan[i] \in ToSet(list)
                                                 /\ Allowed(circuit[race'[b].plan[i]])
<1>1. PICK list \in CandidateLists :
        LET kept == LetThrough(list, circuit)
            plan == SubSeq(kept, 1, IF Len(kept) < Parallel THEN Len(kept) ELSE Parallel)
        IN
        /\ circuit' = [p \in Providers |->
                         IF p \in ToSet(list) THEN Consulted(circuit[p])
                                              ELSE circuit[p]]
        /\ Batch!Update(b, [Batch!Idle EXCEPT !.plan = plan,
                                              !.phase = [i \in DOMAIN plan |-> "calling"]])
  <2>1. \A list : Batch!LetThrough(list, circuit) = LetThrough(list, circuit)
    BY DEF Batch!LetThrough, LetThrough, Batch!Allowed, Allowed
  <2>2. \A e : Batch!Consulted(e) = Consulted(e)
    BY DEF Batch!Consulted, Consulted
  <2>3. \A l : Batch!ToSet(l) = ToSet(l)
    BY DEF Batch!ToSet, ToSet
  <2>4. QED BY <2>1, <2>2, <2>3 DEF Batch!Start
<1> DEFINE kept == LetThrough(list, circuit)
           n == IF Len(kept) < Parallel THEN Len(kept) ELSE Parallel
           plan == SubSeq(kept, 1, n)
           phase == [i \in DOMAIN plan |-> "calling"]
           y == [Batch!Idle EXCEPT !.plan = plan, !.phase = phase]
<1>2. list \in Seq(Providers) /\ Parallel \in Nat \ {0}
  BY OrchestratorAssumption DEF Batch!RaceAssumption
<1>3. race' = [race EXCEPT ![b] = y]
  BY <1>1 DEF Batch!Update
<1>4. /\ kept \in Seq(Providers)
      /\ \A i \in 1..Len(kept) : Allowed(circuit[kept[i]]) /\ kept[i] \in ToSet(list)
  BY <1>2, LetThroughShape
<1> HIDE DEF kept
<1>5. Len(kept) \in Nat /\ n \in Nat /\ n <= Len(kept) /\ n <= Parallel
  BY <1>2, <1>4
<1> HIDE DEF n
<1>6. /\ plan \in Seq(Providers) /\ Len(plan) = n
      /\ \A i \in 1..n : plan[i] = kept[i]
  BY <1>4, <1>5
<1> HIDE DEF plan
<1>7. DOMAIN plan = 1..n
  BY <1>5, <1>6
<1>8. phase = [i \in 1..n |-> "calling"] /\ "calling" \in Phases
  BY <1>7 DEF Phases
<1>9. phase \in Seq(Phases) /\ Len(phase) = n /\ \A i \in 1..n : phase[i] = "calling"
  BY <1>5, <1>8
<1> HIDE DEF phase
<1>10. /\ y \in RaceState
       /\ y.plan = plan /\ y.phase = phase
       /\ y.signal = FALSE /\ y.answer = None /\ y.answered = FALSE
  <2>1. /\ Batch!Idle \in RaceState
        /\ Batch!Idle.signal = FALSE /\ Batch!Idle.answer = None /\ Batch!Idle.answered = FALSE
    BY DEF Batch!Idle, RaceState
  <2>2. QED BY <1>6, <1>9, <2>1 DEF RaceState
<1> HIDE DEF y
<1>11. y \in RaceState
  BY <1>10
<1>12. GoodRace(y)
  BY <1>5, <1>6, <1>9, <1>10, <1>11 DEF GoodRace, Ended, Batch!RaceAssumption, Batch!Fulfilled
<1>13. race'[b] = y
  BY <1>3 DEF RaceInv
<1>14. \A i \in 1..Len(y.plan) : y.plan[i] \in ToSet(list) /\ Allowed(circuit[y.plan[i]])
  BY <1>4, <1>5, <1>6, <1>10
<1>15. QED BY <1>1, <1>3, <1>12, <1>13, <1>14

\* A race that moves keeps the others in order.
LEMMA RaceReplaced ==
    ASSUME RaceInv, NEW b \in Races, race' = [race EXCEPT ![b] = race'[b]],
           GoodRace(race'[b]), circuit' \in [Providers -> Entry]
    PROVE  RaceInv'
<1>1. race'[b] \in RaceState
  BY DEF GoodRace
<1>2. race' \in [Races -> RaceState]
  BY <1>1 DEF RaceInv
<1>3. ASSUME NEW a \in Races PROVE GoodRace(race'[a])
  <2>1. CASE a = b
    BY <2>1
  <2>2. CASE a # b
    <3>1. race'[a] = race[a]
      BY <2>2 DEF RaceInv
    <3>2. QED BY <3>1 DEF RaceInv
  <2>3. QED BY <2>1, <2>2
<1>4. QED BY <1>2, <1>3 DEF RaceInv

\* The entries stay entries, whatever a step reports.
LEMMA ReportKept ==
    ASSUME RaceInv, NEW p \in Providers
    PROVE  /\ [circuit EXCEPT ![p] = Batch!Succeeded(@)] \in [Providers -> Entry]
           /\ [circuit EXCEPT ![p] = Batch!Failed(@)] \in [Providers -> Entry]
<1>1. circuit \in [Providers -> Entry]
  BY DEF RaceInv
<1>2. \A e : Batch!Succeeded(e) = NewEntry /\ Batch!Failed(e) = Failed(e)
  BY DEF Batch!Succeeded, Batch!NewEntry, NewEntry, Batch!Failed, Batch!Trips,
         Batch!OneMore, Failed, Trips, OneMore
<1>3. QED BY <1>1, <1>2, EntryKept, NewEntryIsEntry

\* The invariant of the races is inductive.
LEMMA RaceInvInductive ==
    ASSUME Batch!RaceAssumption, RaceInv, [Batch!Next]_(Batch!vars)
    PROVE  RaceInv'
<1>1. ASSUME NEW b \in Races, Batch!Start(b) PROVE RaceInv'
  <2>1. PICK list \in CandidateLists :
          /\ circuit' = [p \in Providers |-> IF p \in ToSet(list) THEN Consulted(circuit[p])
                                                                   ELSE circuit[p]]
          /\ race' = [race EXCEPT ![b] = race'[b]]
          /\ GoodRace(race'[b])
    BY <1>1, StartMoves
  <2>2. circuit' \in [Providers -> Entry]
    BY <2>1, EntryKept DEF RaceInv
  <2>3. QED BY <2>1, <2>2, RaceReplaced
<1>2. ASSUME NEW b \in Races, NEW i, Batch!Step(b, i) PROVE RaceInv'
  <2>1. CASE Batch!Win(b, i)
    <3>1. race[b].plan[i] \in Providers
      BY <2>1, AtTask DEF Batch!Win, Phases, Batch!Settled, Batch!Fulfilled
    <3>2. circuit' \in [Providers -> Entry]
      BY <2>1, <3>1, ReportKept DEF Batch!Win
    <3>3. QED BY <2>1, <3>2, WinMoves, RaceReplaced DEF Moved
  <2>2. CASE Batch!Fail(b, i)
    <3>1. PICK from \in {"calling", "storing"} : Batch!At(b, i, from)
      BY <2>2 DEF Batch!Fail
    <3>2. race[b].plan[i] \in Providers
      BY <3>1, AtTask DEF Phases, Batch!Settled, Batch!Fulfilled
    <3>3. circuit' \in [Providers -> Entry]
      BY <2>2, <3>2, ReportKept DEF Batch!Fail
    <3>4. QED BY <2>2, <3>3, OtherMoves, RaceReplaced DEF Moved
  <2>3. CASE Batch!Announce(b, i)
    <3>1. circuit' \in [Providers -> Entry]
      BY <2>3 DEF Batch!Announce, RaceInv
    <3>2. QED BY <2>3, <3>1, AnnounceMoves, RaceReplaced DEF Moved
  <2>4. CASE Batch!Return(b, i) \/ Batch!Reject(b, i) \/ Batch!Abort(b, i)
    <3>1. circuit' \in [Providers -> Entry]
      BY <2>4 DEF Batch!Return, Batch!Reject, Batch!Abort, RaceInv
    <3>2. QED BY <2>4, <3>1, OtherMoves, RaceReplaced DEF Moved
  <2>5. QED BY <1>2, <2>1, <2>2, <2>3, <2>4 DEF Batch!Step
<1>3. CASE Batch!Tick
  <2>1. circuit' = [p \in Providers |-> Aged(circuit[p])] /\ race' = race
    BY <1>3 DEF Batch!Tick, Batch!Aged, Aged
  <2>2. QED BY <2>1, EntryKept DEF RaceInv
<1>4. CASE UNCHANGED Batch!vars
  BY <1>4 DEF Batch!vars, RaceInv
<1>5. QED BY <1>1, <1>2, <1>3, <1>4 DEF Batch!Next

\* It holds initially.
LEMMA RaceInvInit ==
    ASSUME Batch!RaceAssumption PROVE Batch!Init => RaceInv
<1> SUFFICES ASSUME Batch!Init PROVE RaceInv
  OBVIOUS
<1>1. circuit \in [Providers -> Entry]
  BY NewEntryIsEntry DEF Batch!Init, Batch!NewEntry, NewEntry
<1>2. /\ Batch!Idle \in RaceState /\ Len(Batch!Idle.plan) = 0 /\ Len(Batch!Idle.phase) = 0
      /\ Batch!Idle.signal = FALSE /\ Batch!Idle.answer = None /\ Batch!Idle.answered = FALSE
  BY DEF Batch!Idle, RaceState
<1>3. GoodRace(Batch!Idle)
  BY <1>2 DEF GoodRace, Ended, Batch!RaceAssumption, Batch!Fulfilled
<1>4. QED BY <1>1, <1>2, <1>3 DEF Batch!Init, RaceInv

\* It holds of every race that is run.
LEMMA RaceInvariant ==
    ASSUME Batch!RaceAssumption PROVE Batch!Spec => []RaceInv
<1>1. RaceInv /\ [Batch!Next]_(Batch!vars) => RaceInv'
  BY RaceInvInductive
<1>2. QED BY <1>1, RaceInvInit, PTL DEF Batch!Spec

\* The invariant says how races are decided.
LEMMA JustifiedFollows == RaceInv => Batch!AnswerJustified
<1> SUFFICES ASSUME RaceInv, NEW b \in Races
             PROVE  /\ race[b].signal => race[b].answered
                    /\ race[b].answer = "returned" =>
                         race[b].signal /\ \E i \in Batch!Tasks(b) : race[b].phase[i] = "returned"
                    /\ race[b].answer = "aborted" =>
                         \E i \in Batch!Tasks(b) : race[b].phase[i] = "aborted"
                    /\ race[b].answer = "allFailed" =>
                         \A i \in Batch!Tasks(b) : race[b].phase[i] = "rejected"
                    /\ race[b].answer = None =>
                         /\ \A i \in Batch!Tasks(b) : race[b].phase[i] \notin Batch!Fulfilled
                         /\ Batch!Tasks(b) # {} =>
                              \E i \in Batch!Tasks(b) : ~(race[b].phase[i] = "rejected")
  BY DEF Batch!AnswerJustified
<1>1. GoodRace(race[b])
  BY DEF RaceInv
<1>2. Batch!Tasks(b) = 1..Len(race[b].plan)
  BY <1>1 DEF Batch!Tasks, GoodRace, RaceState
<1>3. QED BY <1>1, <1>2 DEF GoodRace, Ended

\* For every number of races, of tasks and of candidates, and whatever ends a
\* call, an AbortError of its own included: nobody is told to stop before a
\* provider answered, a result is returned only when the others were told to,
\* a marker only when a task was aborted, 503 only when every task failed, and
\* no answer is outstanding when a task was fulfilled or all of them failed.
THEOREM RacesDecided ==
    ASSUME Batch!RaceAssumption PROVE Batch!Spec => []Batch!AnswerJustified
BY JustifiedFollows, RaceInvariant, PTL

\* The state of every race is well formed.
THEOREM RaceTypeCorrect ==
    ASSUME Batch!RaceAssumption PROVE Batch!Spec => []Batch!TypeOK
<1>1. RaceInv => Batch!TypeOK
  <2> SUFFICES ASSUME RaceInv PROVE Batch!TypeOK
    OBVIOUS
  <2>1. circuit \in [Providers -> Batch!Entry]
    BY DEF RaceInv, Entry, Batch!Entry
  <2>2. ASSUME NEW b \in Races
        PROVE  /\ race[b].plan \in Seq(Providers)
               /\ DOMAIN race[b].phase = Batch!Tasks(b)
               /\ Batch!ToSet(race[b].phase) \subseteq
                    {"calling", "won", "storing", "failing"} \cup Batch!Settled
               /\ race[b].signal \in BOOLEAN
               /\ race[b].answer \in Batch!Fulfilled \cup {"allFailed", None}
               /\ race[b].answered \in BOOLEAN
    <3>1. /\ race[b].plan \in Seq(Providers) /\ race[b].phase \in Seq(Phases)
          /\ race[b].signal \in BOOLEAN
          /\ race[b].answer \in Batch!Fulfilled \cup {"allFailed", None}
          /\ Len(race[b].phase) = Len(race[b].plan)
          /\ race[b].answered \in BOOLEAN
      BY DEF RaceInv, GoodRace, RaceState
    <3>2. /\ Batch!Tasks(b) = 1..Len(race[b].plan)
          /\ DOMAIN race[b].phase = 1..Len(race[b].plan)
      BY <3>1 DEF Batch!Tasks
    <3>3. Batch!ToSet(race[b].phase) \subseteq Phases
      BY <3>1 DEF Batch!ToSet
    <3>4. QED BY <3>1, <3>2, <3>3 DEF Phases
  <2>3. QED BY <2>1, <2>2 DEF Batch!TypeOK
<1>2. QED BY <1>1, RaceInvariant, PTL

-----------------------------------------------------------------------------
(* The breaker as the races use it: see Breaker in BatchRace.               *)

\* A task may still report.
Racing == {"calling", "won", "storing"}

RaceFlight ==
    [c \in Batch!Positions |->
       IF c[2] \in Batch!Tasks(c[1]) /\ race[c[1]].phase[c[2]] \in Racing
       THEN race[c[1]].plan[c[2]] ELSE None]

\* What a slot holds.
InSlot(x, i) ==
    IF i \in 1..Len(x.plan) /\ x.phase[i] \in Racing THEN x.plan[i] ELSE None

\* A slot holds the candidate of its task while that may report.
LEMMA RaceSlot ==
    ASSUME RaceInv, NEW c \in Batch!Positions
    PROVE  RaceFlight[c] = InSlot(race[c[1]], c[2])
<1>1. c[1] \in Races
  BY DEF Batch!Positions
<1>2. Batch!Tasks(c[1]) = 1..Len(race[c[1]].plan)
  BY <1>1 DEF RaceInv, RaceState, Batch!Tasks
<1>3. QED BY <1>2 DEF RaceFlight, InSlot

\* The same in the next state.
LEMMA RaceSlotPrime ==
    ASSUME RaceInv', NEW c \in Batch!Positions
    PROVE  RaceFlight'[c] = InSlot(race'[c[1]], c[2])
<1>1. c[1] \in Races
  BY DEF Batch!Positions
<1>2. Batch!Tasks(c[1])' = 1..Len(race'[c[1]].plan)
  BY <1>1 DEF RaceInv, RaceState, Batch!Tasks
<1>3. QED BY <1>2 DEF RaceFlight, InSlot

\* What a slot holds is a provider or nothing.
LEMMA SlotShape ==
    ASSUME NEW x \in RaceState, NEW i
    PROVE  InSlot(x, i) \in Providers \cup {None}
BY DEF InSlot, RaceState

\* The slots hold providers.
LEMMA RaceFlightShape ==
    ASSUME RaceInv
    PROVE  RaceFlight \in [Batch!Positions -> Providers \cup {None}]
<1>1. \A c \in Batch!Positions : RaceFlight[c] \in Providers \cup {None}
  BY RaceSlot, SlotShape DEF RaceInv, Batch!Positions
<1>2. QED BY <1>1 DEF RaceFlight

\* The same in the next state.
LEMMA RaceFlightShapePrime ==
    ASSUME RaceInv'
    PROVE  RaceFlight' \in [Batch!Positions -> Providers \cup {None}]
<1>1. \A c \in Batch!Positions : RaceFlight'[c] \in Providers \cup {None}
  BY RaceSlotPrime, SlotShape DEF RaceInv, Batch!Positions
<1>2. QED BY <1>1 DEF RaceFlight

\* A move disturbs the slot of its task at most.
LEMMA SlotMoves ==
    ASSUME RaceInv, RaceInv', Batch!RaceAssumption, NEW b \in Races, NEW i, NEW p \in Phases,
           Moved(b, i, p)
    PROVE  /\ <<b, i>> \in Batch!Positions
           /\ RaceFlight[<<b, i>>] = IF race[b].phase[i] \in Racing THEN race[b].plan[i]
                                                                  ELSE None
           /\ RaceFlight' = [RaceFlight EXCEPT ![<<b, i>>] =
                               IF p \in Racing THEN race[b].plan[i] ELSE None]
<1> DEFINE x == race[b]
           y == race'[b]
<1>1. /\ x \in RaceState /\ i \in 1..Len(x.plan) /\ TaskMoves(x, y, i, p)
      /\ Len(x.plan) <= Parallel /\ Len(x.plan) \in Nat /\ Parallel \in Nat
      /\ x.phase \in Seq(Phases) /\ Len(x.phase) = Len(x.plan)
  BY DEF Moved, RaceInv, GoodRace, RaceState, Batch!RaceAssumption
<1>2. <<b, i>> \in Batch!Positions
  BY <1>1 DEF Batch!Positions
<1>3. y.plan = x.plan /\ y.phase = [x.phase EXCEPT ![i] = p]
  BY <1>1 DEF TaskMoves
<1>4. y.phase[i] = p /\ \A j \in 1..Len(x.plan) \ {i} : y.phase[j] = x.phase[j]
  BY <1>1, <1>3
<1>5. InSlot(y, i) = IF p \in Racing THEN x.plan[i] ELSE None
  BY <1>1, <1>3, <1>4 DEF InSlot
<1>6. \A j : j # i => InSlot(y, j) = InSlot(x, j)
  BY <1>3, <1>4 DEF InSlot
<1>7. \A a \in Races : a # b => race'[a] = race[a]
  BY DEF Moved, RaceInv
<1>8. RaceFlight[<<b, i>>] = IF x.phase[i] \in Racing THEN x.plan[i] ELSE None
  BY <1>1, <1>2, RaceSlot DEF InSlot
<1>9. RaceFlight'[<<b, i>>] = IF p \in Racing THEN x.plan[i] ELSE None
  BY <1>2, <1>5, RaceSlotPrime
<1>10. ASSUME NEW c \in Batch!Positions, c # <<b, i>>
       PROVE  RaceFlight'[c] = RaceFlight[c]
  <2>1. RaceFlight'[c] = InSlot(race'[c[1]], c[2]) /\ RaceFlight[c] = InSlot(race[c[1]], c[2])
    BY RaceSlot, RaceSlotPrime
  <2>2. c[1] \in Races /\ (c[1] # b \/ c[2] # i)
    BY <1>10 DEF Batch!Positions
  <2>3. QED BY <1>6, <1>7, <2>1, <2>2
<1>11. /\ RaceFlight \in [Batch!Positions -> Providers \cup {None}]
       /\ RaceFlight' \in [Batch!Positions -> Providers \cup {None}]
  BY RaceFlightShape, RaceFlightShapePrime
<1>12. QED BY <1>2, <1>8, <1>9, <1>10, <1>11

\* What races do to the breaker.
RacesUse ==
    \/ \E asked \in SUBSET Providers : Batch!Breaker!Filter(asked)
    \/ \E c \in Batch!Positions : Batch!Breaker!Succeed(c) \/ Batch!Breaker!Fail(c)
    \/ Batch!Breaker!Abandon
    \/ Batch!Breaker!Tick
    \/ UNCHANGED Batch!Breaker!vars

\* A step that reports nothing: the slot is kept or let go.
LEMMA RaceSilent ==
    ASSUME RaceInv, RaceInv', Batch!RaceAssumption, NEW b \in Races, NEW i, NEW p \in Phases,
           Moved(b, i, p), circuit' = circuit, p \in Racing => race[b].phase[i] \in Racing
    PROVE  RacesUse
<1>1. /\ <<b, i>> \in Batch!Positions
      /\ RaceFlight[<<b, i>>] = IF race[b].phase[i] \in Racing THEN race[b].plan[i] ELSE None
      /\ RaceFlight' = [RaceFlight EXCEPT ![<<b, i>>] =
                          IF p \in Racing THEN race[b].plan[i] ELSE None]
  BY SlotMoves
<1>2. \A c \in Batch!Positions : RaceFlight'[c] \in {RaceFlight[c], None}
  BY <1>1, RaceFlightShape
<1>3. RaceFlight' \in [Batch!Positions -> Providers \cup {None}]
  BY RaceFlightShapePrime
<1>4. Batch!Breaker!Abandon
  BY <1>2, <1>3 DEF Batch!Breaker!Abandon, RaceFlight, Racing
<1>5. QED BY <1>4 DEF RacesUse

\* The filter of a race is one of the breaker's callers.
LEMMA StartFilters ==
    ASSUME RaceInv, RaceInv', Batch!RaceAssumption, NEW b \in Races, Batch!Start(b)
    PROVE  RacesUse
<1>1. PICK list \in CandidateLists :
        /\ circuit' = [p \in Providers |-> IF p \in ToSet(list) THEN Consulted(circuit[p])
                                                                 ELSE circuit[p]]
        /\ race' = [race EXCEPT ![b] = race'[b]]
        /\ \A i \in 1..Len(race'[b].plan) : /\ race'[b].plan[i] \in ToSet(list)
                                            /\ Allowed(circuit[race'[b].plan[i]])
  BY StartMoves
<1>2. ToSet(list) \in SUBSET Providers
  BY OrchestratorAssumption DEF ToSet
<1>3. \A i : InSlot(race[b], i) = None
  <2>1. \A i \in 1..Len(race[b].plan) : race[b].phase[i] \in Batch!Settled
    BY DEF Batch!Start, Batch!Over, Batch!Tasks, RaceInv, RaceState
  <2>2. QED BY <2>1 DEF InSlot, Racing, Batch!Settled, Batch!Fulfilled
<1>4. \A a \in Races : a # b => race'[a] = race[a]
  BY <1>1 DEF RaceInv
<1>5. ASSUME NEW c \in Batch!Positions, RaceFlight'[c] # RaceFlight[c]
      PROVE  /\ RaceFlight[c] = None
             /\ RaceFlight'[c] \in ToSet(list)
             /\ Allowed(circuit[RaceFlight'[c]])
  <2>1. RaceFlight'[c] = InSlot(race'[c[1]], c[2]) /\ RaceFlight[c] = InSlot(race[c[1]], c[2])
    BY RaceSlot, RaceSlotPrime
  <2>2. c[1] = b
    BY <1>4, <1>5, <2>1 DEF Batch!Positions
  <2>3. RaceFlight[c] = None
    BY <1>3, <2>1, <2>2
  <2>4. InSlot(race'[b], c[2]) # None
    BY <1>5, <2>1, <2>2, <2>3
  <2>5. c[2] \in 1..Len(race'[b].plan) /\ RaceFlight'[c] = race'[b].plan[c[2]]
    BY <2>1, <2>2, <2>4 DEF InSlot
  <2>6. QED BY <1>1, <2>3, <2>5
<1>6. RaceFlight' \in [Batch!Positions -> Providers \cup {None}]
  BY RaceFlightShapePrime
<1>7. \A e : Batch!Breaker!Allowed(e) = Allowed(e) /\ Batch!Breaker!Consulted(e) = Consulted(e)
  BY DEF Batch!Breaker!Allowed, Allowed, Batch!Breaker!Consulted, Consulted
<1>8. Batch!Breaker!Filter(ToSet(list))
  BY <1>1, <1>5, <1>6, <1>7 DEF Batch!Breaker!Filter, RaceFlight, Racing
<1>9. QED BY <1>2, <1>8 DEF RacesUse

\* Every step of the races is a step of the breaker's callers, or none.
LEMMA RaceStep ==
    ASSUME Batch!RaceAssumption, RaceInv, RaceInv', [Batch!Next]_(Batch!vars)
    PROVE  RacesUse
<1>1. ASSUME NEW b \in Races, Batch!Start(b) PROVE RacesUse
  BY <1>1, StartFilters
<1>2. ASSUME NEW b \in Races, NEW i, Batch!Win(b, i) PROVE RacesUse
  <2>1. Moved(b, i, "won") /\ race[b].phase[i] = "calling"
    BY <1>2, WinMoves
  <2>2. "won" \in Phases /\ {"won", "calling"} \subseteq Racing
    BY DEF Phases, Racing
  <2>3. PICK c \in Batch!Positions :
          /\ RaceFlight[c] = race[b].plan[i]
          /\ RaceFlight' = [RaceFlight EXCEPT ![c] = race[b].plan[i]]
    BY <2>1, <2>2, SlotMoves
  <2>4. RaceFlight' = RaceFlight
    BY <2>3, RaceFlightShape
  <2>5. RaceFlight[c] # None
    <3>1. race[b].plan[i] \in Providers
      BY <2>1 DEF Moved, RaceState
    <3>2. QED BY <2>3, <3>1, OrchestratorAssumption
  <2>6. circuit' = [circuit EXCEPT ![RaceFlight[c]] = Batch!Breaker!Succeeded(@)]
    BY <1>2, <2>3 DEF Batch!Win, Batch!Succeeded, Batch!Breaker!Succeeded,
                      Batch!NewEntry, Batch!Breaker!NewEntry
  <2>7. Batch!Breaker!Succeed(c)
    BY <2>4, <2>5, <2>6 DEF Batch!Breaker!Succeed, RaceFlight, Racing
  <2>8. QED BY <2>7 DEF RacesUse
<1>3. ASSUME NEW b \in Races, NEW i, Batch!Fail(b, i) PROVE RacesUse
  <2>1. Moved(b, i, "failing") /\ race[b].phase[i] \in {"calling", "storing"}
    BY <1>3, OtherMoves
  <2>2. "failing" \in Phases \ Racing /\ {"storing", "calling"} \subseteq Racing
    BY DEF Phases, Racing
  <2>3. PICK c \in Batch!Positions :
          /\ RaceFlight[c] = race[b].plan[i]
          /\ RaceFlight' = [RaceFlight EXCEPT ![c] = None]
    <3>1. race[b].phase[i] \in Racing /\ "failing" \notin Racing
      BY <2>1, <2>2
    <3>2. /\ <<b, i>> \in Batch!Positions
          /\ RaceFlight[<<b, i>>] = race[b].plan[i]
          /\ RaceFlight' = [RaceFlight EXCEPT ![<<b, i>>] = None]
      BY <2>1, <2>2, <3>1, SlotMoves
    <3>3. QED BY <3>2
  <2>4. RaceFlight[c] # None
    <3>1. race[b].plan[i] \in Providers
      BY <2>1 DEF Moved, RaceState
    <3>2. QED BY <2>3, <3>1, OrchestratorAssumption
  <2>5. \A e : Batch!Breaker!Failed(e) = Batch!Failed(e)
    BY DEF Batch!Breaker!Failed, Batch!Breaker!Trips, Batch!Breaker!OneMore,
           Batch!Failed, Batch!Trips, Batch!OneMore
  <2>6. circuit' = [circuit EXCEPT ![RaceFlight[c]] = Batch!Breaker!Failed(@)]
    BY <1>3, <2>3, <2>5 DEF Batch!Fail
  <2>7. Batch!Breaker!Fail(c)
    BY <2>3, <2>4, <2>6 DEF Batch!Breaker!Fail, RaceFlight, Racing
  <2>8. QED BY <2>7 DEF RacesUse
<1>4. ASSUME NEW b \in Races, NEW i, Batch!Announce(b, i) PROVE RacesUse
  BY <1>4, AnnounceMoves, RaceSilent DEF Batch!Announce, Phases, Racing
<1>5. ASSUME NEW b \in Races, NEW i, Batch!Return(b, i) \/ Batch!Reject(b, i) \/ Batch!Abort(b, i)
      PROVE  RacesUse
  <2>1. circuit' = circuit
    BY <1>5 DEF Batch!Return, Batch!Reject, Batch!Abort
  <2>2. PICK p \in {"returned", "rejected", "aborted"} : Moved(b, i, p)
    BY <1>5, OtherMoves
  <2>3. p \in Phases /\ p \notin Racing
    BY DEF Phases, Racing, Batch!Settled, Batch!Fulfilled
  <2>4. QED BY <2>1, <2>2, <2>3, RaceSilent
<1>6. CASE Batch!Tick
  <2>1. RaceFlight' = RaceFlight
    BY <1>6 DEF Batch!Tick, RaceFlight, Batch!Tasks
  <2>2. \A e : Batch!Aged(e) = Batch!Breaker!Aged(e)
    BY DEF Batch!Aged, Batch!Breaker!Aged
  <2>3. Batch!Breaker!Tick
    BY <1>6, <2>1, <2>2 DEF Batch!Tick, Batch!Breaker!Tick, RaceFlight, Racing
  <2>4. QED BY <2>3 DEF RacesUse
<1>7. CASE UNCHANGED Batch!vars
  <2>1. RaceFlight' = RaceFlight /\ circuit' = circuit
    BY <1>7 DEF Batch!vars, RaceFlight, Batch!Tasks
  <2>2. QED BY <2>1 DEF RacesUse, Batch!Breaker!vars, RaceFlight, Racing
<1>8. QED BY <1>1, <1>2, <1>3, <1>4, <1>5, <1>6, <1>7 DEF Batch!Next, Batch!Step

\* For every number of races and of tasks: racing candidates use the breaker
\* as CircuitBreaker says its callers do, also when a winner fails after all.
THEOREM RacesImplementBreaker ==
    ASSUME Batch!RaceAssumption PROVE Batch!Spec => Batch!ImplementsBreaker
<1>1. Batch!Init => Batch!Breaker!Init
  <2> SUFFICES ASSUME Batch!Init PROVE Batch!Breaker!Init
    OBVIOUS
  <2>1. RaceInv
    BY RaceInvInit
  <2>2. \A c \in Batch!Positions : RaceFlight[c] = None
    BY <2>1, RaceSlot DEF InSlot, Batch!Init, Batch!Idle, Batch!Positions
  <2>3. RaceFlight = [c \in Batch!Positions |-> None]
    BY <2>2 DEF RaceFlight
  <2>4. circuit = [p \in Providers |-> Batch!Breaker!NewEntry]
    BY DEF Batch!Init, Batch!NewEntry, Batch!Breaker!NewEntry
  <2>5. QED BY <2>3, <2>4 DEF Batch!Breaker!Init, RaceFlight, Racing
<1>2. RaceInv /\ RaceInv' /\ [Batch!Next]_(Batch!vars)
        => [Batch!Breaker!Next]_(Batch!Breaker!vars)
  BY RaceStep DEF RacesUse, Batch!Breaker!Next
<1>3. QED BY <1>1, <1>2, RaceInvariant, PTL
      DEF Batch!Spec, Batch!ImplementsBreaker, Batch!Breaker!Spec

RaceBreaker == INSTANCE CircuitBreakerProofs WITH Calls <- Batch!Positions, flight <- RaceFlight

\* The breaker that the theorems are about is that of BatchRace.
LEMMA SameRaceBreaker == Batch!Breaker!Spec => RaceBreaker!Spec
<1>1. Batch!Breaker!Init => RaceBreaker!Init
  BY DEF Batch!Breaker!Init, RaceBreaker!Init, Batch!Breaker!NewEntry, RaceBreaker!NewEntry,
         RaceFlight, Racing
<1>2. /\ \A asked : Batch!Breaker!Filter(asked) => RaceBreaker!Filter(asked)
      /\ \A c \in Batch!Positions : /\ Batch!Breaker!Succeed(c) => RaceBreaker!Succeed(c)
                                    /\ Batch!Breaker!Fail(c) => RaceBreaker!Fail(c)
  <2>1. \A e : /\ Batch!Breaker!Allowed(e) = RaceBreaker!Allowed(e)
               /\ Batch!Breaker!Consulted(e) = RaceBreaker!Consulted(e)
               /\ Batch!Breaker!Succeeded(e) = RaceBreaker!Succeeded(e)
               /\ Batch!Breaker!Failed(e) = RaceBreaker!Failed(e)
    BY DEF Batch!Breaker!Allowed, RaceBreaker!Allowed,
           Batch!Breaker!Consulted, RaceBreaker!Consulted,
           Batch!Breaker!Succeeded, RaceBreaker!Succeeded,
           Batch!Breaker!NewEntry, RaceBreaker!NewEntry,
           Batch!Breaker!Failed, RaceBreaker!Failed, Batch!Breaker!Trips, RaceBreaker!Trips,
           Batch!Breaker!OneMore, RaceBreaker!OneMore
  <2>2. ASSUME NEW asked, Batch!Breaker!Filter(asked) PROVE RaceBreaker!Filter(asked)
    BY <2>1, <2>2 DEF Batch!Breaker!Filter, RaceBreaker!Filter, RaceFlight, Racing
  <2>3. ASSUME NEW c \in Batch!Positions, Batch!Breaker!Succeed(c) PROVE RaceBreaker!Succeed(c)
    BY <2>1, <2>3 DEF Batch!Breaker!Succeed, RaceBreaker!Succeed, RaceFlight, Racing
  <2>4. ASSUME NEW c \in Batch!Positions, Batch!Breaker!Fail(c) PROVE RaceBreaker!Fail(c)
    BY <2>1, <2>4 DEF Batch!Breaker!Fail, RaceBreaker!Fail, RaceFlight, Racing
  <2>5. QED BY <2>2, <2>3, <2>4
<1>3. /\ Batch!Breaker!Abandon => RaceBreaker!Abandon
      /\ \A ps : Batch!Breaker!Reset(ps) => RaceBreaker!Reset(ps)
      /\ Batch!Breaker!Restart => RaceBreaker!Restart
      /\ Batch!Breaker!Tick => RaceBreaker!Tick
  <2>1. \A e : Batch!Breaker!Aged(e) = RaceBreaker!Aged(e)
    BY DEF Batch!Breaker!Aged, RaceBreaker!Aged
  <2>2. Batch!Breaker!Abandon => RaceBreaker!Abandon
    BY DEF Batch!Breaker!Abandon, RaceBreaker!Abandon, RaceFlight, Racing
  <2>3. \A ps : Batch!Breaker!Reset(ps) => RaceBreaker!Reset(ps)
    BY DEF Batch!Breaker!Reset, RaceBreaker!Reset, RaceFlight, Racing,
           Batch!Breaker!NewEntry, RaceBreaker!NewEntry
  <2>4. Batch!Breaker!Restart => RaceBreaker!Restart
    BY DEF Batch!Breaker!Restart, RaceBreaker!Restart, RaceFlight, Racing,
           Batch!Breaker!NewEntry, RaceBreaker!NewEntry
  <2>5. Batch!Breaker!Tick => RaceBreaker!Tick
    BY <2>1 DEF Batch!Breaker!Tick, RaceBreaker!Tick, RaceFlight, Racing
  <2>6. QED BY <2>2, <2>3, <2>4, <2>5
<1>4. [Batch!Breaker!Next]_(Batch!Breaker!vars) => [RaceBreaker!Next]_(RaceBreaker!vars)
  <2>1. Batch!Breaker!Next => RaceBreaker!Next
    BY <1>2, <1>3, Zenon DEF Batch!Breaker!Next, RaceBreaker!Next
  <2>2. UNCHANGED Batch!Breaker!vars => UNCHANGED RaceBreaker!vars
    BY DEF Batch!Breaker!vars, RaceBreaker!vars, RaceFlight, Racing
  <2>3. QED BY <2>1, <2>2
<1>5. QED BY <1>1, <1>4, PTL DEF Batch!Breaker!Spec, RaceBreaker!Spec

\* However the tasks of races end, and also when a winner fails after all: the
\* breaker they share keeps counter and state in agreement, goes half open after
\* a whole cooldown only, admits no task while a circuit stays open, and restarts
\* no cooldown for a late failure.
THEOREM RacesKeepBreaker ==
    ASSUME Batch!RaceAssumption
    PROVE  Batch!Spec => /\ []Batch!Breaker!FailuresMatchState
                         /\ []Batch!Breaker!HalfOpenAfterCooldown
                         /\ Batch!Breaker!OpenDrains
                         /\ Batch!Breaker!CooldownNeverRestarts
<1>1. RaceBreaker!BreakerAssumption /\ RaceBreaker!EntryAssumption
  BY EntryAssumption DEF Batch!RaceAssumption,
     RaceBreaker!EntryAssumption, RaceBreaker!BreakerAssumption
<1>2. RaceBreaker!Spec => []RaceBreaker!FailuresMatchState
  BY <1>1, RaceBreaker!ThresholdDecides
<1>3. RaceBreaker!Spec => []RaceBreaker!HalfOpenAfterCooldown
  BY <1>1, RaceBreaker!CooldownObserved
<1>4. RaceBreaker!Spec => RaceBreaker!OpenDrains
  BY <1>1, RaceBreaker!OpenCircuitDrains
<1>5. /\ RaceBreaker!FailuresMatchState => Batch!Breaker!FailuresMatchState
      /\ RaceBreaker!HalfOpenAfterCooldown => Batch!Breaker!HalfOpenAfterCooldown
  BY DEF RaceBreaker!FailuresMatchState, Batch!Breaker!FailuresMatchState,
         RaceBreaker!HalfOpenAfterCooldown, Batch!Breaker!HalfOpenAfterCooldown
<1>6. RaceBreaker!OpenDrains => Batch!Breaker!OpenDrains
  <2> DEFINE D == \A p \in Providers :
                    circuit[p].state = "open" /\ circuit'[p].state = "open"
                      => RaceBreaker!InFlight(p)' \subseteq RaceBreaker!InFlight(p)
             E == \A p \in Providers :
                    circuit[p].state = "open" /\ circuit'[p].state = "open"
                      => Batch!Breaker!InFlight(p)' \subseteq Batch!Breaker!InFlight(p)
  <2>1. [D]_(RaceBreaker!vars) => [E]_(Batch!Breaker!vars)
    BY DEF Batch!Breaker!vars, RaceBreaker!vars, RaceFlight, Racing,
           Batch!Breaker!InFlight, RaceBreaker!InFlight
  <2>2. QED BY <2>1, PTL DEF RaceBreaker!OpenDrains, Batch!Breaker!OpenDrains
<1>7. RaceBreaker!Spec => RaceBreaker!CooldownNeverRestarts
  BY <1>1, RaceBreaker!CooldownRunsOut
<1>8. RaceBreaker!CooldownNeverRestarts => Batch!Breaker!CooldownNeverRestarts
  <2> DEFINE Runs == \A p \in Providers :
                       circuit[p].state = "open" /\ circuit'[p].state = "open"
                         => circuit'[p].elapsed >= circuit[p].elapsed
  <2>1. [Runs]_(RaceBreaker!vars) => [Runs]_(Batch!Breaker!vars)
    BY DEF Batch!Breaker!vars, RaceBreaker!vars, RaceFlight, Racing
  <2>2. QED BY <2>1, PTL DEF RaceBreaker!CooldownNeverRestarts, Batch!Breaker!CooldownNeverRestarts
<1>9. QED BY <1>2, <1>3, <1>4, <1>5, <1>6, <1>7, <1>8,
         RacesImplementBreaker, SameRaceBreaker, PTL
      DEF Batch!ImplementsBreaker

-----------------------------------------------------------------------------
(* Both modes at once.  Each mode keeps its invariant when the other takes *)
(* a step, and what one does to the breaker is done by the callers of both.*)

ModesInv == IInv /\ RaceInv

\* Neither mode disturbs the other.
LEMMA ModesInductive ==
    ASSUME Batch!RaceAssumption
    PROVE  ModesInv /\ [ModesNext]_allVars => ModesInv'
<1> SUFFICES ASSUME ModesInv, [ModesNext]_allVars PROVE ModesInv'
  OBVIOUS
<1>1. CASE Next /\ UNCHANGED race
  <2>1. IInv'
    BY <1>1, IInvInductive DEF ModesInv
  <2>2. RaceInv'
    BY <1>1, <2>1 DEF ModesInv, IInv, RaceInv
  <2>3. QED BY <2>1, <2>2 DEF ModesInv
<1>2. CASE Batch!Next /\ UNCHANGED <<queueVars, request>>
  <2>1. RaceInv'
    BY <1>2, RaceInvInductive DEF ModesInv
  <2>2. /\ QueueProofs!IInv' /\ executing' = executing /\ Queue!Queued' = Queue!Queued
        /\ request' = request
    BY <1>2, QueueStutter DEF ModesInv, IInv
  <2>3. circuit' \in [Providers -> Entry]
    BY <2>1 DEF RaceInv
  <2>4. Placed'
    BY <2>2 DEF ModesInv, IInv, Placed, At
  <2>5. QED BY <2>1, <2>2, <2>3, <2>4 DEF ModesInv, IInv
<1>3. CASE UNCHANGED allVars
  <2>1. UNCHANGED vars /\ UNCHANGED Batch!vars
    BY <1>3 DEF allVars, vars, Batch!vars
  <2>2. QED BY <2>1, IInvInductive, RaceInvInductive DEF ModesInv
<1>4. QED BY <1>1, <1>2, <1>3 DEF ModesNext

\* So both invariants hold.
LEMMA ModesInvariant ==
    ASSUME Batch!RaceAssumption PROVE ModesSpec => []ModesInv
<1>1. ModesInit => ModesInv
  BY IInvInit, RaceInvInit DEF ModesInit, ModesInv
<1>2. QED BY <1>1, ModesInductive, PTL DEF ModesSpec

\* Next to requests in the other mode, too: no path loses a slot, every
\* candidate kept is tried, and the answer of a race is that of its tasks.
THEOREM ModesKeepTheirOwn ==
    ASSUME Batch!RaceAssumption
    PROVE  ModesSpec => /\ []SlotHeldUntilSettled
                        /\ []EveryCandidateTried
                        /\ []Batch!AnswerJustified
<1>1. ModesInv => /\ SlotHeldUntilSettled
                  /\ EveryCandidateTried
                  /\ Batch!AnswerJustified
  BY SlotsFollow, TriedFollows, JustifiedFollows DEF ModesInv
<1>2. QED BY <1>1, ModesInvariant, PTL

\* What callers with the slots in C do to the breaker, when what they have in
\* flight goes from f to g.
Uses(C, f, g) ==
    \/ \E asked \in SUBSET Providers :
         /\ circuit' = [p \in Providers |->
                          IF p \in asked THEN Consulted(circuit[p]) ELSE circuit[p]]
         /\ \A c \in C : g[c] # f[c] => /\ f[c] = None
                                        /\ g[c] \in asked
                                        /\ Allowed(circuit[g[c]])
    \/ \E c \in C : /\ f[c] # None
                    /\ circuit' = [circuit EXCEPT ![f[c]] = Succeeded(@)]
                    /\ g \in {f, [f EXCEPT ![c] = None]}
    \/ \E c \in C : /\ f[c] # None
                    /\ circuit' = [circuit EXCEPT ![f[c]] = Failed(@)]
                    /\ g = [f EXCEPT ![c] = None]
    \/ circuit' = circuit /\ \A c \in C : g[c] \in {f[c], None}
    \/ circuit' = [p \in Providers |-> Aged(circuit[p])] /\ g = f

\* What some callers do, all callers do, when nothing happens to the others.
LEMMA UsesAmongMore ==
    ASSUME NEW S, NEW C \in SUBSET S,
           NEW f \in [C -> Providers \cup {None}], NEW g \in [C -> Providers \cup {None}],
           NEW F \in [S -> Providers \cup {None}], NEW G \in [S -> Providers \cup {None}],
           \A c \in C : F[c] = f[c] /\ G[c] = g[c],
           \A c \in S \ C : G[c] = F[c],
           Uses(C, f, g)
    PROVE  Uses(S, F, G)
<1>1. ASSUME NEW asked \in SUBSET Providers,
             circuit' = [p \in Providers |->
                           IF p \in asked THEN Consulted(circuit[p]) ELSE circuit[p]],
             \A c \in C : g[c] # f[c] => /\ f[c] = None
                                         /\ g[c] \in asked
                                         /\ Allowed(circuit[g[c]])
      PROVE  Uses(S, F, G)
  <2>1. \A c \in S : G[c] # F[c] => /\ F[c] = None
                                    /\ G[c] \in asked
                                    /\ Allowed(circuit[G[c]])
    BY <1>1
  <2>2. QED BY <1>1, <2>1 DEF Uses
<1>2. ASSUME NEW c \in C, f[c] # None, g \in {f, [f EXCEPT ![c] = None]}
      PROVE  /\ c \in S /\ F[c] = f[c]
             /\ G \in {F, [F EXCEPT ![c] = None]}
             /\ g = [f EXCEPT ![c] = None] => G = [F EXCEPT ![c] = None]
  <2>1. g = f => G = F
    BY <1>2
  <2>2. g = [f EXCEPT ![c] = None] => G = [F EXCEPT ![c] = None]
    <3> SUFFICES ASSUME g = [f EXCEPT ![c] = None] PROVE G = [F EXCEPT ![c] = None]
      OBVIOUS
    <3>1. \A d \in S : G[d] = IF d = c THEN None ELSE F[d]
      BY <1>2
    <3>2. QED BY <3>1
  <2>3. QED BY <1>2, <2>1, <2>2
<1>3. (circuit' = circuit /\ \A c \in C : g[c] \in {f[c], None}) => Uses(S, F, G)
  <2> SUFFICES ASSUME circuit' = circuit, \A c \in C : g[c] \in {f[c], None}
               PROVE  Uses(S, F, G)
    OBVIOUS
  <2>1. \A c \in S : G[c] \in {F[c], None}
    OBVIOUS
  <2>2. QED BY <2>1 DEF Uses
<1>4. g = f => G = F
  OBVIOUS
<1>5. QED BY <1>1, <1>2, <1>3, <1>4 DEF Uses

\* The orchestrator's use of the breaker is one.
LEMMA RequestsUse ==
    ASSUME IInv, IInv', [Next]_vars
    PROVE  Uses(Positions, Flight, Flight')
<1>1. BreakerUsed
  BY BreakerStep
<1>2. \A e : /\ Breaker!Allowed(e) = Allowed(e)
             /\ Breaker!Consulted(e) = Consulted(e)
             /\ Breaker!Succeeded(e) = Succeeded(e)
             /\ Breaker!Failed(e) = Failed(e)
             /\ Breaker!Aged(e) = Aged(e)
  BY DEF Breaker!Allowed, Allowed, Breaker!Consulted, Consulted,
         Breaker!Succeeded, Succeeded, Breaker!NewEntry, NewEntry,
         Breaker!Failed, Failed, Breaker!Trips, Trips, Breaker!OneMore, OneMore,
         Breaker!Aged, Aged
<1>3. ASSUME NEW asked \in SUBSET Providers, Breaker!Filter(asked)
      PROVE  Uses(Positions, Flight, Flight')
  <2>1. /\ circuit' = [p \in Providers |->
                         IF p \in asked THEN Consulted(circuit[p]) ELSE circuit[p]]
        /\ \A c \in Positions : Flight'[c] # Flight[c] => /\ Flight[c] = None
                                                          /\ Flight'[c] \in asked
                                                          /\ Allowed(circuit[Flight'[c]])
    BY <1>2, <1>3 DEF Breaker!Filter, Flight
  <2>2. QED BY <2>1 DEF Uses
<1>4. ASSUME NEW c \in Positions, Breaker!Succeed(c)
      PROVE  Uses(Positions, Flight, Flight')
  <2>1. /\ Flight[c] # None
        /\ circuit' = [circuit EXCEPT ![Flight[c]] = Succeeded(@)]
        /\ Flight' \in {Flight, [Flight EXCEPT ![c] = None]}
    BY <1>2, <1>4 DEF Breaker!Succeed, Flight
  <2>2. QED BY <2>1 DEF Uses
<1>5. ASSUME NEW c \in Positions, Breaker!Fail(c)
      PROVE  Uses(Positions, Flight, Flight')
  <2>1. /\ Flight[c] # None
        /\ circuit' = [circuit EXCEPT ![Flight[c]] = Failed(@)]
        /\ Flight' = [Flight EXCEPT ![c] = None]
    BY <1>2, <1>5 DEF Breaker!Fail, Flight
  <2>2. QED BY <2>1 DEF Uses
<1>6. CASE Breaker!Abandon
  <2>1. circuit' = circuit /\ \A c \in Positions : Flight'[c] \in {Flight[c], None}
    BY <1>6 DEF Breaker!Abandon, Flight
  <2>2. QED BY <2>1 DEF Uses
<1>7. CASE Breaker!Tick
  <2>1. circuit' = [p \in Providers |-> Aged(circuit[p])] /\ Flight' = Flight
    BY <1>2, <1>7 DEF Breaker!Tick, Flight
  <2>2. QED BY <2>1 DEF Uses
<1>8. CASE UNCHANGED Breaker!vars
  <2>1. circuit' = circuit /\ Flight' = Flight
    BY <1>8 DEF Breaker!vars, Flight
  <2>2. QED BY <2>1 DEF Uses
<1>9. QED BY <1>1, <1>3, <1>4, <1>5, <1>6, <1>7, <1>8 DEF BreakerUsed

\* And so is that of the races.
LEMMA RacesUses ==
    ASSUME Batch!RaceAssumption, RaceInv, RaceInv', [Batch!Next]_(Batch!vars)
    PROVE  Uses(Batch!Positions, RaceFlight, RaceFlight')
<1>1. RacesUse
  BY RaceStep
<1>2. \A e : /\ Batch!Breaker!Allowed(e) = Allowed(e)
             /\ Batch!Breaker!Consulted(e) = Consulted(e)
             /\ Batch!Breaker!Succeeded(e) = Succeeded(e)
             /\ Batch!Breaker!Failed(e) = Failed(e)
             /\ Batch!Breaker!Aged(e) = Aged(e)
  BY DEF Batch!Breaker!Allowed, Allowed, Batch!Breaker!Consulted, Consulted,
         Batch!Breaker!Succeeded, Succeeded, Batch!Breaker!NewEntry, NewEntry,
         Batch!Breaker!Failed, Failed, Batch!Breaker!Trips, Trips, Batch!Breaker!OneMore, OneMore,
         Batch!Breaker!Aged, Aged
<1>3. ASSUME NEW asked \in SUBSET Providers, Batch!Breaker!Filter(asked)
      PROVE  Uses(Batch!Positions, RaceFlight, RaceFlight')
  <2>1. /\ circuit' = [p \in Providers |->
                         IF p \in asked THEN Consulted(circuit[p]) ELSE circuit[p]]
        /\ \A c \in Batch!Positions : RaceFlight'[c] # RaceFlight[c] => /\ RaceFlight[c] = None
                                                          /\ RaceFlight'[c] \in asked
                                                          /\ Allowed(circuit[RaceFlight'[c]])
    BY <1>2, <1>3 DEF Batch!Breaker!Filter, RaceFlight, Racing
  <2>2. QED BY <2>1 DEF Uses
<1>4. ASSUME NEW c \in Batch!Positions, Batch!Breaker!Succeed(c)
      PROVE  Uses(Batch!Positions, RaceFlight, RaceFlight')
  <2>1. /\ RaceFlight[c] # None
        /\ circuit' = [circuit EXCEPT ![RaceFlight[c]] = Succeeded(@)]
        /\ RaceFlight' \in {RaceFlight, [RaceFlight EXCEPT ![c] = None]}
    BY <1>2, <1>4 DEF Batch!Breaker!Succeed, RaceFlight, Racing
  <2>2. QED BY <2>1 DEF Uses
<1>5. ASSUME NEW c \in Batch!Positions, Batch!Breaker!Fail(c)
      PROVE  Uses(Batch!Positions, RaceFlight, RaceFlight')
  <2>1. /\ RaceFlight[c] # None
        /\ circuit' = [circuit EXCEPT ![RaceFlight[c]] = Failed(@)]
        /\ RaceFlight' = [RaceFlight EXCEPT ![c] = None]
    BY <1>2, <1>5 DEF Batch!Breaker!Fail, RaceFlight, Racing
  <2>2. QED BY <2>1 DEF Uses
<1>6. CASE Batch!Breaker!Abandon
  <2>1. circuit' = circuit /\ \A c \in Batch!Positions : RaceFlight'[c] \in {RaceFlight[c], None}
    BY <1>6 DEF Batch!Breaker!Abandon, RaceFlight, Racing
  <2>2. QED BY <2>1 DEF Uses
<1>7. CASE Batch!Breaker!Tick
  <2>1. circuit' = [p \in Providers |-> Aged(circuit[p])] /\ RaceFlight' = RaceFlight
    BY <1>2, <1>7 DEF Batch!Breaker!Tick, RaceFlight, Racing
  <2>2. QED BY <2>1 DEF Uses
<1>8. CASE UNCHANGED Batch!Breaker!vars
  <2>1. circuit' = circuit /\ RaceFlight' = RaceFlight
    BY <1>8 DEF Batch!Breaker!vars, RaceFlight, Racing
  <2>2. QED BY <2>1 DEF Uses
<1>9. QED BY <1>1, <1>3, <1>4, <1>5, <1>6, <1>7, <1>8 DEF RacesUse

-----------------------------------------------------------------------------
(* The breaker of both modes.                                              *)

Shared == INSTANCE CircuitBreakerProofs WITH Calls <- SharedCalls, flight <- SharedFlight

\* A request and a race are not the same caller.
LEMMA CallersDiffer ==
    ASSUME Requests \cap Races = {}
    PROVE  /\ Positions \subseteq SharedCalls /\ Batch!Positions \subseteq SharedCalls
           /\ \A c \in Batch!Positions : c \notin Positions
           /\ \A c \in SharedCalls \ Positions : c \in Batch!Positions
           /\ \A c \in SharedCalls \ Batch!Positions : c \in Positions
BY DEF SharedCalls, Positions, Batch!Positions

\* What is in flight has its type, before and after a step.
LEMMA SharedFlightShape ==
    ASSUME ModesInv, ModesInv', Requests \cap Races = {}
    PROVE  /\ SharedFlight \in [SharedCalls -> Providers \cup {None}]
           /\ SharedFlight' \in [SharedCalls -> Providers \cup {None}]
           /\ \A c \in Positions : /\ SharedFlight[c] = Flight[c]
                                   /\ SharedFlight'[c] = Flight'[c]
           /\ \A c \in Batch!Positions : /\ SharedFlight[c] = RaceFlight[c]
                                         /\ SharedFlight'[c] = RaceFlight'[c]
<1>1. /\ Flight \in [Positions -> Providers \cup {None}]
      /\ Flight' \in [Positions -> Providers \cup {None}]
      /\ RaceFlight \in [Batch!Positions -> Providers \cup {None}]
      /\ RaceFlight' \in [Batch!Positions -> Providers \cup {None}]
  BY FlightShape, FlightShapePrime, RaceFlightShape, RaceFlightShapePrime DEF ModesInv
<1>2. \A c \in SharedCalls :
        /\ SharedFlight[c] = IF c \in Positions THEN Flight[c] ELSE RaceFlight[c]
        /\ SharedFlight'[c] = IF c \in Positions THEN Flight'[c] ELSE RaceFlight'[c]
  BY DEF SharedFlight, SharedCalls, Flight, RaceFlight, Racing
<1>3. \A c \in SharedCalls :
        SharedFlight[c] \in Providers \cup {None} /\ SharedFlight'[c] \in Providers \cup {None}
  BY <1>1, <1>2, CallersDiffer
<1>4. /\ SharedFlight \in [SharedCalls -> Providers \cup {None}]
      /\ SharedFlight' \in [SharedCalls -> Providers \cup {None}]
  BY <1>3 DEF SharedFlight
<1>5. QED BY <1>2, <1>4, CallersDiffer

\* A step of either mode is a step of the callers of the breaker, or none.
LEMMA ModesUse ==
    ASSUME Batch!RaceAssumption, Requests \cap Races = {},
           ModesInv, ModesInv', [ModesNext]_allVars
    PROVE  Uses(SharedCalls, SharedFlight, SharedFlight')
<1>1. CASE [Next]_vars /\ UNCHANGED race
  <2>1. Uses(Positions, Flight, Flight')
    BY <1>1, RequestsUse DEF ModesInv
  <2>2. RaceFlight' = RaceFlight
    BY <1>1 DEF RaceFlight, Batch!Tasks
  <2>3. \A c \in SharedCalls \ Positions : SharedFlight'[c] = SharedFlight[c]
    BY <2>2, SharedFlightShape, CallersDiffer
  <2>4. /\ Flight \in [Positions -> Providers \cup {None}]
        /\ Flight' \in [Positions -> Providers \cup {None}]
    BY FlightShape, FlightShapePrime DEF ModesInv
  <2> HIDE DEF Uses
  <2>5. QED BY <2>1, <2>3, <2>4, SharedFlightShape, CallersDiffer, UsesAmongMore
<1>2. CASE Batch!Next /\ UNCHANGED <<queueVars, request>>
  <2>1. Uses(Batch!Positions, RaceFlight, RaceFlight')
    BY <1>2, RacesUses DEF ModesInv
  <2>2. Flight' = Flight
    BY <1>2 DEF Flight, Pending
  <2>3. \A c \in SharedCalls \ Batch!Positions : SharedFlight'[c] = SharedFlight[c]
    BY <2>2, SharedFlightShape, CallersDiffer
  <2>4. /\ RaceFlight \in [Batch!Positions -> Providers \cup {None}]
        /\ RaceFlight' \in [Batch!Positions -> Providers \cup {None}]
    BY RaceFlightShape, RaceFlightShapePrime DEF ModesInv
  <2>5. QED BY <2>1, <2>3, <2>4, SharedFlightShape, CallersDiffer, UsesAmongMore
<1>3. QED BY <1>1, <1>2 DEF ModesNext, allVars

\* What they do is what CircuitBreaker lets its callers do.
LEMMA UsesAreSteps ==
    ASSUME SharedFlight' \in [SharedCalls -> Providers \cup {None}],
           Uses(SharedCalls, SharedFlight, SharedFlight')
    PROVE  [SharedBreaker!Next]_(SharedBreaker!vars)
<1>1. \A e : /\ SharedBreaker!Allowed(e) = Allowed(e)
             /\ SharedBreaker!Consulted(e) = Consulted(e)
             /\ SharedBreaker!Succeeded(e) = Succeeded(e)
             /\ SharedBreaker!Failed(e) = Failed(e)
             /\ SharedBreaker!Aged(e) = Aged(e)
  BY DEF SharedBreaker!Allowed, Allowed, SharedBreaker!Consulted, Consulted,
         SharedBreaker!Succeeded, Succeeded, SharedBreaker!NewEntry, NewEntry,
         SharedBreaker!Failed, Failed, SharedBreaker!Trips, Trips,
         SharedBreaker!OneMore, OneMore, SharedBreaker!Aged, Aged
<1>2. ASSUME NEW asked \in SUBSET Providers,
             circuit' = [p \in Providers |->
                           IF p \in asked THEN Consulted(circuit[p]) ELSE circuit[p]],
             \A c \in SharedCalls :
               SharedFlight'[c] # SharedFlight[c] => /\ SharedFlight[c] = None
                                                     /\ SharedFlight'[c] \in asked
                                                     /\ Allowed(circuit[SharedFlight'[c]])
      PROVE  SharedBreaker!Filter(asked)
  BY <1>1, <1>2 DEF SharedBreaker!Filter
<1>3. ASSUME NEW c \in SharedCalls, SharedFlight[c] # None,
             circuit' = [circuit EXCEPT ![SharedFlight[c]] = Succeeded(@)],
             SharedFlight' \in {SharedFlight, [SharedFlight EXCEPT ![c] = None]}
      PROVE  SharedBreaker!Succeed(c)
  BY <1>1, <1>3 DEF SharedBreaker!Succeed
<1>4. ASSUME NEW c \in SharedCalls, SharedFlight[c] # None,
             circuit' = [circuit EXCEPT ![SharedFlight[c]] = Failed(@)],
             SharedFlight' = [SharedFlight EXCEPT ![c] = None]
      PROVE  SharedBreaker!Fail(c)
  BY <1>1, <1>4 DEF SharedBreaker!Fail
<1>5. ASSUME circuit' = circuit,
             \A c \in SharedCalls : SharedFlight'[c] \in {SharedFlight[c], None}
      PROVE  SharedBreaker!Abandon
  BY <1>5 DEF SharedBreaker!Abandon
<1>6. ASSUME circuit' = [p \in Providers |-> Aged(circuit[p])], SharedFlight' = SharedFlight
      PROVE  SharedBreaker!Tick
  BY <1>1, <1>6 DEF SharedBreaker!Tick
<1>7. QED BY <1>2, <1>3, <1>4, <1>5, <1>6 DEF Uses, SharedBreaker!Next

\* Before the first request nothing is in flight.
LEMMA SharedInit ==
    ASSUME Batch!RaceAssumption, Requests \cap Races = {}, ModesInit
    PROVE  SharedBreaker!Init
<1>1. \A c \in Positions : Flight[c] = None
  BY DEF ModesInit, Init, NewRequest, Flight, Positions, Pending
<1>2. \A c \in Batch!Positions : RaceFlight[c] = None
  BY RaceInvInit, RaceSlot
  DEF ModesInit, InSlot, Batch!Init, Batch!Idle, Batch!Positions
<1>3. SharedFlight = [c \in SharedCalls |-> None]
  BY <1>1, <1>2, CallersDiffer
  DEF SharedFlight, SharedCalls, Flight, RaceFlight, Racing
<1>4. QED BY <1>3 DEF ModesInit, Init, SharedBreaker!Init, SharedBreaker!NewEntry, NewEntry

\* However steps of both modes alternate, they use the one breaker that they
\* share as CircuitBreaker says its callers do.
THEOREM BothModesImplementBreaker ==
    ASSUME Batch!RaceAssumption, Requests \cap Races = {}
    PROVE  ModesSpec => ModesImplementBreaker
<1>1. ModesInit => SharedBreaker!Init
  BY SharedInit
<1>2. ModesInv /\ ModesInv' /\ [ModesNext]_allVars
        => [SharedBreaker!Next]_(SharedBreaker!vars)
  BY ModesUse, SharedFlightShape, UsesAreSteps
<1>3. QED BY <1>1, <1>2, ModesInvariant, PTL
      DEF ModesSpec, ModesImplementBreaker, SharedBreaker!Spec

\* The breaker that the theorems are about is that of ChatModes.
LEMMA SameSharedBreaker == SharedBreaker!Spec => Shared!Spec
<1>1. SharedBreaker!Init => Shared!Init
  BY DEF SharedBreaker!Init, Shared!Init, SharedBreaker!NewEntry, Shared!NewEntry
<1>2. /\ \A asked : SharedBreaker!Filter(asked) => Shared!Filter(asked)
      /\ \A c \in SharedCalls : /\ SharedBreaker!Succeed(c) => Shared!Succeed(c)
                                /\ SharedBreaker!Fail(c) => Shared!Fail(c)
  <2>1. \A e : /\ SharedBreaker!Allowed(e) = Shared!Allowed(e)
               /\ SharedBreaker!Consulted(e) = Shared!Consulted(e)
               /\ SharedBreaker!Succeeded(e) = Shared!Succeeded(e)
               /\ SharedBreaker!Failed(e) = Shared!Failed(e)
    BY DEF SharedBreaker!Allowed, Shared!Allowed,
           SharedBreaker!Consulted, Shared!Consulted,
           SharedBreaker!Succeeded, Shared!Succeeded,
           SharedBreaker!NewEntry, Shared!NewEntry,
           SharedBreaker!Failed, Shared!Failed, SharedBreaker!Trips, Shared!Trips,
           SharedBreaker!OneMore, Shared!OneMore
  <2>2. ASSUME NEW asked, SharedBreaker!Filter(asked) PROVE Shared!Filter(asked)
    BY <2>1, <2>2 DEF SharedBreaker!Filter, Shared!Filter
  <2>3. ASSUME NEW c \in SharedCalls, SharedBreaker!Succeed(c) PROVE Shared!Succeed(c)
    BY <2>1, <2>3 DEF SharedBreaker!Succeed, Shared!Succeed
  <2>4. ASSUME NEW c \in SharedCalls, SharedBreaker!Fail(c) PROVE Shared!Fail(c)
    BY <2>1, <2>4 DEF SharedBreaker!Fail, Shared!Fail
  <2>5. QED BY <2>2, <2>3, <2>4
<1>3. /\ SharedBreaker!Abandon => Shared!Abandon
      /\ \A ps : SharedBreaker!Reset(ps) => Shared!Reset(ps)
      /\ SharedBreaker!Restart => Shared!Restart
      /\ SharedBreaker!Tick => Shared!Tick
  <2>1. \A e : SharedBreaker!Aged(e) = Shared!Aged(e)
    BY DEF SharedBreaker!Aged, Shared!Aged
  <2>2. SharedBreaker!Abandon => Shared!Abandon
    BY DEF SharedBreaker!Abandon, Shared!Abandon
  <2>3. \A ps : SharedBreaker!Reset(ps) => Shared!Reset(ps)
    BY DEF SharedBreaker!Reset, Shared!Reset,
           SharedBreaker!NewEntry, Shared!NewEntry
  <2>4. SharedBreaker!Restart => Shared!Restart
    BY DEF SharedBreaker!Restart, Shared!Restart,
           SharedBreaker!NewEntry, Shared!NewEntry
  <2>5. SharedBreaker!Tick => Shared!Tick
    BY <2>1 DEF SharedBreaker!Tick, Shared!Tick
  <2>6. QED BY <2>2, <2>3, <2>4, <2>5
<1>4. [SharedBreaker!Next]_(SharedBreaker!vars) => [Shared!Next]_(Shared!vars)
  <2>1. SharedBreaker!Next => Shared!Next
    BY <1>2, <1>3, Zenon DEF SharedBreaker!Next, Shared!Next
  <2>2. UNCHANGED SharedBreaker!vars => UNCHANGED Shared!vars
    BY DEF SharedBreaker!vars, Shared!vars
  <2>3. QED BY <2>1, <2>2
<1>5. QED BY <1>1, <1>4, PTL DEF SharedBreaker!Spec, Shared!Spec

\* Whatever the two modes report to it, in whatever order: the breaker that they
\* share keeps counter and state in agreement, goes half open after a whole
\* cooldown only, admits no candidate of either mode while a circuit stays open,
\* and restarts no cooldown for a late failure.
THEOREM SharedBreakerHolds ==
    ASSUME Batch!RaceAssumption, Requests \cap Races = {}
    PROVE  ModesSpec => /\ []SharedBreaker!FailuresMatchState
                        /\ []SharedBreaker!HalfOpenAfterCooldown
                        /\ SharedBreaker!OpenDrains
                        /\ SharedBreaker!CooldownNeverRestarts
<1>1. Shared!BreakerAssumption /\ Shared!EntryAssumption
  BY EntryAssumption DEF Batch!RaceAssumption,
     Shared!EntryAssumption, Shared!BreakerAssumption
<1>2. Shared!Spec => []Shared!FailuresMatchState
  BY <1>1, Shared!ThresholdDecides
<1>3. Shared!Spec => []Shared!HalfOpenAfterCooldown
  BY <1>1, Shared!CooldownObserved
<1>4. Shared!Spec => Shared!OpenDrains
  BY <1>1, Shared!OpenCircuitDrains
<1>5. /\ Shared!FailuresMatchState => SharedBreaker!FailuresMatchState
      /\ Shared!HalfOpenAfterCooldown => SharedBreaker!HalfOpenAfterCooldown
  BY DEF Shared!FailuresMatchState, SharedBreaker!FailuresMatchState,
         Shared!HalfOpenAfterCooldown, SharedBreaker!HalfOpenAfterCooldown
<1>6. Shared!OpenDrains => SharedBreaker!OpenDrains
  <2> DEFINE D == \A p \in Providers :
                    circuit[p].state = "open" /\ circuit'[p].state = "open"
                      => Shared!InFlight(p)' \subseteq Shared!InFlight(p)
             E == \A p \in Providers :
                    circuit[p].state = "open" /\ circuit'[p].state = "open"
                      => SharedBreaker!InFlight(p)' \subseteq SharedBreaker!InFlight(p)
  <2>1. [D]_(Shared!vars) => [E]_(SharedBreaker!vars)
    BY DEF SharedBreaker!vars, Shared!vars,
           SharedBreaker!InFlight, Shared!InFlight
  <2>2. QED BY <2>1, PTL DEF Shared!OpenDrains, SharedBreaker!OpenDrains
<1>7. Shared!Spec => Shared!CooldownNeverRestarts
  BY <1>1, Shared!CooldownRunsOut
<1>8. Shared!CooldownNeverRestarts => SharedBreaker!CooldownNeverRestarts
  <2> DEFINE Runs == \A p \in Providers :
                       circuit[p].state = "open" /\ circuit'[p].state = "open"
                         => circuit'[p].elapsed >= circuit[p].elapsed
  <2>1. [Runs]_(Shared!vars) => [Runs]_(SharedBreaker!vars)
    BY DEF SharedBreaker!vars, Shared!vars
  <2>2. QED BY <2>1, PTL DEF Shared!CooldownNeverRestarts, SharedBreaker!CooldownNeverRestarts
<1>9. QED BY <1>2, <1>3, <1>4, <1>5, <1>6, <1>7, <1>8,
         BothModesImplementBreaker, SameSharedBreaker, PTL
      DEF ModesImplementBreaker

-----------------------------------------------------------------------------
(* Streams: the answers on their way to the clients.  A stream whose       *)
(* characters nobody cut has all its text: in what was forwarded, in the   *)
(* buffer, and the first half of a character in the decoder.               *)

CONSTANTS Streams, Bodies
VARIABLES body, sent, held, buffer, answer, phase, met

Sse == INSTANCE SseStream

Decoding == Sse!Characters \cup {"data", "bad", "mixed"}

StreamTyped(s) ==
    /\ sent[s] \in 0..Len(body[s])
    /\ buffer[s] \in Seq(Decoding)
    /\ answer[s] \in Seq(Decoding)
    /\ phase[s] \in {"open", "ended", "left"}

\* The last byte of s was b.
LastByte(s, b) == sent[s] > 0 /\ body[s][sent[s]] = b

\* While s is open, the decoder holds a head of it, and its buffer a part of a
\* line, exactly when its last byte says so.
Whole(s) ==
    /\ Sse!Kept(s)
    /\ Sse!TextOf(buffer[s]) = Sse!TextIn(buffer[s])
    /\ buffer[s] # <<>> => Head(buffer[s]) = "data"
    /\ phase[s] = "open" => (held = s <=> LastByte(s, "head"))
    /\ phase[s] = "open" => (buffer[s] = <<>> <=> sent[s] = 0 \/ LastByte(s, "nl"))

StreamInv ==
    /\ body \in [Streams -> Bodies]
    /\ held \in Streams \cup {None}
    /\ met \subseteq Streams
    /\ DOMAIN sent = Streams /\ DOMAIN buffer = Streams
    /\ DOMAIN answer = Streams /\ DOMAIN phase = Streams
    /\ \A s \in Streams : StreamTyped(s)
    /\ \A s \in Streams \ met : Whole(s)

\* The positions of text.
TextAt(bytes) == {n \in Nat : bytes[n] \notin {"data", "nl"}}

\* The text among bytes is picked from them.
LEMMA TextPicked ==
    ASSUME NEW S, NEW bytes \in Seq(S)
    PROVE  \E f : /\ BreakerProofs!Picking(f, bytes, TextAt(bytes), Len(bytes))
                  /\ Sse!TextIn(bytes) = f[Len(bytes)]
<1> DEFINE L == Len(bytes)
           K == TextAt(bytes)
           f == CHOOSE g : g = [n \in 0..L |->
                  IF n = 0 THEN <<>>
                  ELSE IF bytes[n] \notin {"data", "nl"} THEN Append(g[n - 1], bytes[n])
                  ELSE g[n - 1]]
<1>1. L \in Nat
  OBVIOUS
<1>2. PICK g : BreakerProofs!Picking(g, bytes, K, L)
  BY <1>1, BreakerAssumed, BreakerProofs!PickingExists
<1>3. \A n \in 0..L : n \in K <=> bytes[n] \notin {"data", "nl"}
  BY DEF TextAt
<1> HIDE DEF K
<1>4. \A h : BreakerProofs!Picking(h, bytes, K, L) <=>
               h = [n \in 0..L |->
                 IF n = 0 THEN <<>>
                 ELSE IF bytes[n] \notin {"data", "nl"} THEN Append(h[n - 1], bytes[n])
                 ELSE h[n - 1]]
  BY <1>3 DEF BreakerProofs!Picking
<1>5. BreakerProofs!Picking(f, bytes, K, L)
  BY <1>2, <1>4
<1>6. Sse!TextIn(bytes) = f[L]
  BY DEF Sse!TextIn
<1>7. QED BY <1>5, <1>6 DEF K

\* There is no text in nothing.
LEMMA TextOfNothing == Sse!TextIn(<<>>) = <<>>
<1>1. PICK f : /\ BreakerProofs!Picking(f, <<>>, TextAt(<<>>), Len(<<>>))
               /\ Sse!TextIn(<<>>) = f[Len(<<>>)]
  <2>1. <<>> \in Seq({})
    OBVIOUS
  <2>2. QED BY <2>1, TextPicked
<1>2. Len(<<>>) = 0
  OBVIOUS
<1>3. f[0] = <<>>
  BY <1>1, <1>2 DEF BreakerProofs!Picking
<1>4. QED BY <1>1, <1>2, <1>3

\* One more byte adds its text.
LEMMA TextAppended ==
    ASSUME NEW S, NEW bytes \in Seq(S), NEW b \in S
    PROVE  Sse!TextIn(Append(bytes, b)) =
             IF b \notin {"data", "nl"} THEN Append(Sse!TextIn(bytes), b)
                                        ELSE Sse!TextIn(bytes)
<1> DEFINE longer == Append(bytes, b)
           L == Len(bytes)
<1>1. /\ L \in Nat /\ Len(longer) = L + 1 /\ longer \in Seq(S)
      /\ \A n \in 1..L : longer[n] = bytes[n]
      /\ longer[L + 1] = b
  OBVIOUS
<1> HIDE DEF longer
<1>2. PICK f : /\ BreakerProofs!Picking(f, bytes, TextAt(bytes), L)
               /\ Sse!TextIn(bytes) = f[L]
  BY TextPicked
<1>3. PICK g : /\ BreakerProofs!Picking(g, longer, TextAt(longer), L + 1)
               /\ Sse!TextIn(longer) = g[L + 1]
  BY <1>1, TextPicked
<1>4. f[L] = g[L]
  <2>1. \A n \in 1..L : /\ bytes[n] = longer[n]
                        /\ n \in TextAt(bytes) <=> n \in TextAt(longer)
    BY <1>1 DEF TextAt
  <2>2. L + 1 \in Nat /\ L <= L + 1
    BY <1>1
  <2>3. QED BY <1>1, <1>2, <1>3, <2>1, <2>2, BreakerAssumed, BreakerProofs!PickingAgrees
<1>5. L + 1 \in TextAt(longer) <=> b \notin {"data", "nl"}
  BY <1>1 DEF TextAt
<1>6. g[L + 1] = IF L + 1 \in TextAt(longer) THEN Append(g[L], longer[L + 1]) ELSE g[L]
  <2>1. L + 1 \in 0..(L + 1) /\ L + 1 # 0 /\ (L + 1) - 1 = L
    BY <1>1
  <2>2. QED BY <1>3, <2>1 DEF BreakerProofs!Picking
<1>7. QED BY <1>1, <1>2, <1>3, <1>4, <1>5, <1>6 DEF longer

\* Text is made of characters.
LEMMA TextTyped ==
    ASSUME NEW bytes \in Seq(Decoding \cup {"nl"})
    PROVE  Sse!TextIn(bytes) \in Seq(Decoding)
<1>1. PICK f : /\ BreakerProofs!Picking(f, bytes, TextAt(bytes), Len(bytes))
               /\ Sse!TextIn(bytes) = f[Len(bytes)]
  BY TextPicked
<1>2. \A n \in 1..Len(bytes) : n \in TextAt(bytes) => bytes[n] \in Decoding
  BY DEF TextAt
<1>3. Len(bytes) \in Nat
  OBVIOUS
<1>4. QED BY <1>1, <1>2, <1>3, BreakerAssumed, BreakerProofs!PickingTyped

\* Nothing goes with a text and leaves it as it is.
LEMMA NothingJoins ==
    ASSUME NEW S, NEW a \in Seq(S)
    PROVE  /\ a \o <<>> = a
           /\ a \o <<>> \o <<>> = a
  OBVIOUS

\* A byte goes with the text before it.
LEMMA TextJoins ==
    ASSUME NEW a \in Seq(Decoding), NEW t \in Seq(Decoding), NEW x \in Decoding
    PROVE  /\ a \o t \o <<>> = a \o t
           /\ a \o t \o <<x>> = Append(a \o t, x)
           /\ a \o Append(t, x) = Append(a \o t, x)
           /\ a \o <<>> = a
           /\ a \o t \in Seq(Decoding)
           /\ Append(t, x) \in Seq(Decoding)
  OBVIOUS

\* The part of a line in a buffer that begins as a frame is text but for its
\* beginning, and so is what comes to it.
LEMMA LineGrows ==
    ASSUME NEW line \in Seq(Decoding), line # <<>>, Head(line) = "data",
           NEW x \in Decoding \ {"data"}, Sse!TextOf(line) = Sse!TextIn(line)
    PROVE  /\ Append(line, x) \in Seq(Decoding) /\ Append(line, x) # <<>>
           /\ Head(Append(line, x)) = "data"
           /\ Sse!TextIn(Append(line, x)) = Append(Sse!TextIn(line), x)
           /\ Sse!TextOf(Append(line, x)) = Sse!TextIn(Append(line, x))
<1>1. /\ Append(line, x) \in Seq(Decoding) /\ Append(line, x) # <<>>
      /\ Head(Append(line, x)) = Head(line)
      /\ Tail(Append(line, x)) = Append(Tail(line), x)
  OBVIOUS
<1>2. x \notin {"data", "nl"}
  BY DEF Decoding, Sse!Characters
<1>3. Sse!TextIn(Append(line, x)) = Append(Sse!TextIn(line), x)
  BY <1>2, TextAppended
<1>4. QED BY <1>1, <1>3 DEF Sse!TextOf

\* A step of another stream leaves s as it is if it leaves what is held of it.
LEMMA StreamQuiet ==
    ASSUME StreamInv, NEW s \in Streams, body' = body, sent'[s] = sent[s],
           buffer'[s] = buffer[s], answer'[s] = answer[s],
           phase'[s] \in {phase[s], "left"}, held' = s <=> held = s
    PROVE  StreamTyped(s)' /\ (Whole(s) => Whole(s)')
<1>1. StreamTyped(s)'
  BY DEF StreamInv, StreamTyped
<1>2. Whole(s) => Whole(s)'
  <2> SUFFICES ASSUME Whole(s) PROVE Whole(s)'
    OBVIOUS
  <2>1. Sse!Kept(s)'
    BY DEF Whole, Sse!Kept
  <2>2. QED BY <2>1 DEF Whole, LastByte
<1>3. QED BY <1>1, <1>2

\* The next byte of s, and the text of the first n bytes.
Byte(s) == body[s][sent[s] + 1]
TextUpTo(s, n) == Sse!TextIn(SubSeq(body[s], 1, n))

\* One more byte of a body.
LEMMA OneMoreByte ==
    ASSUME NEW S, NEW x \in Seq(S), NEW n \in Nat, n < Len(x)
    PROVE  /\ SubSeq(x, 1, n) \in Seq(S)
           /\ SubSeq(x, 1, n + 1) = Append(SubSeq(x, 1, n), x[n + 1])
  OBVIOUS

\* What the next byte of a body can be, and what it adds to the text sent.
LEMMA NextByte ==
    ASSUME Sse!StreamAssumption, StreamInv, NEW s \in Streams, sent[s] < Len(body[s])
    PROVE  /\ Byte(s) \in {"a", "head", "tail", "data", "nl"}
           /\ sent[s] \in Nat /\ sent[s] + 1 \in 0..Len(body[s])
           /\ Byte(s) \in Sse!Characters <=>
                sent[s] > 0 /\ ~LastByte(s, "nl") /\ Byte(s) # "nl"
           /\ Byte(s) = "tail" <=> LastByte(s, "head")
           /\ TextUpTo(s, sent[s]) \in Seq(Decoding)
           /\ TextUpTo(s, sent[s] + 1) =
                IF Byte(s) \in Sse!Characters THEN Append(TextUpTo(s, sent[s]), Byte(s))
                                              ELSE TextUpTo(s, sent[s])
<1> DEFINE x == body[s]
           n == sent[s]
           b == x[n + 1]
           Bytes == Sse!Characters \cup {"data", "nl"}
<1>1. /\ x \in Seq(Bytes) /\ Sse!Framed(x)
      /\ n \in Nat /\ n + 1 \in 1..Len(x) /\ Len(x) \in Nat
  BY DEF StreamInv, StreamTyped, Sse!StreamAssumption
<1>2. b \in Bytes
  BY <1>1
<1>3. /\ b \in Sse!Characters <=> n > 0 /\ ~LastByte(s, "nl") /\ b # "nl"
      /\ b = "tail" <=> LastByte(s, "head")
  <2>1. (n + 1 > 1 <=> n > 0) /\ (n + 1) - 1 = n
    BY <1>1
  <2>2. QED BY <1>1, <2>1 DEF Sse!Framed, LastByte
<1>4. /\ SubSeq(x, 1, n) \in Seq(Bytes)
      /\ SubSeq(x, 1, n + 1) = Append(SubSeq(x, 1, n), b)
  BY <1>1, OneMoreByte
<1>5. TextUpTo(s, n) \in Seq(Decoding)
  <2>1. SubSeq(x, 1, n) \in Seq(Decoding \cup {"nl"})
    <3>1. Bytes \subseteq Decoding \cup {"nl"}
      BY DEF Decoding
    <3>2. QED BY <1>4, <3>1
  <2>2. QED BY <2>1, TextTyped DEF TextUpTo
<1>6. TextUpTo(s, n + 1) = IF b \in Sse!Characters THEN Append(TextUpTo(s, n), b)
                                                   ELSE TextUpTo(s, n)
  <2>1. b \in Sse!Characters <=> b \notin {"data", "nl"}
    BY <1>2 DEF Sse!Characters
  <2> DEFINE start == SubSeq(x, 1, n)
  <2> HIDE DEF b, start, Bytes
  <2>2. Sse!TextIn(Append(start, b)) =
          IF b \notin {"data", "nl"} THEN Append(Sse!TextIn(start), b) ELSE Sse!TextIn(start)
    BY <1>2, <1>4, TextAppended DEF start
  <2>3. QED BY <1>4, <2>1, <2>2 DEF TextUpTo, start
<1>7. QED BY <1>1, <1>2, <1>3, <1>5, <1>6 DEF Sse!Characters, Byte

\* The first byte of a frame is no text.
LEMMA FrameBegins ==
    /\ <<"data">> \in Seq(Decoding) /\ <<"data">> # <<>> /\ Head(<<"data">>) = "data"
    /\ Sse!TextIn(<<"data">>) = <<>> /\ Sse!TextOf(<<"data">>) = <<>>
<1>1. <<"data">> = Append(<<>>, "data") /\ <<>> \in Seq(Decoding) /\ "data" \in Decoding
  BY DEF Decoding
<1>2. Sse!TextIn(<<"data">>) = Sse!TextIn(<<>>)
  BY <1>1, TextAppended
<1>3. QED BY <1>1, <1>2, TextOfNothing DEF Sse!TextOf

\* What becomes of a head without a tail.
LEMMA StrayTyped == Sse!Stray \in Seq(Decoding)
<1>1. "bad" \in Decoding
  BY DEF Decoding
<1>2. <<>> \in Seq(Decoding) /\ <<"bad">> \in Seq(Decoding)
  BY <1>1
<1>3. QED BY <1>2 DEF Sse!Stray

\* The types after a chunk.
LEMMA TransformTyped ==
    ASSUME Sse!StreamAssumption, StreamInv, NEW s \in Streams, Sse!Transform(s)
    PROVE  StreamTyped(s)'
<1> DEFINE b == Byte(s)
           text == buffer[s] \o Sse!Decoded(s, b)
<1>1. /\ sent[s] < Len(body[s]) /\ phase' = phase /\ body' = body
      /\ sent' = [sent EXCEPT ![s] = @ + 1]
      /\ \/ /\ b = "nl"
            /\ answer' = [answer EXCEPT ![s] = @ \o Sse!TextOf(SubSeq(text, 1, Len(text) - 1))]
            /\ buffer' = [buffer EXCEPT ![s] = <<>>]
         \/ /\ b # "nl"
            /\ buffer' = [buffer EXCEPT ![s] = text]
            /\ answer' = answer
  BY DEF Sse!Transform, Byte
<1>2. /\ buffer[s] \in Seq(Decoding) /\ answer[s] \in Seq(Decoding)
      /\ phase[s] \in {"open", "ended", "left"}
      /\ DOMAIN sent = Streams /\ DOMAIN buffer = Streams /\ DOMAIN answer = Streams
  BY DEF StreamInv, StreamTyped
<1>3. /\ b \in {"a", "head", "tail", "data", "nl"}
      /\ sent[s] \in Nat /\ sent[s] + 1 \in 0..Len(body[s])
  <2>1. sent[s] < Len(body[s])
    BY <1>1
  <2>2. QED BY <2>1, NextByte
<1>4. Sse!Stray \in Seq(Decoding)
  BY StrayTyped
<1>5. CASE b # "nl"
  <2>1. b \in Decoding
    BY <1>3, <1>5 DEF Decoding, Sse!Characters
  <2>2. Sse!Decoded(s, b) \in Seq(Decoding)
    <3>1. Sse!Stray \o <<b>> \in Seq(Decoding)
      BY <1>4, <2>1
    <3>2. /\ <<"bad">> \in Seq(Decoding) /\ <<"mixed">> \in Seq(Decoding)
          /\ <<"head", "tail">> \in Seq(Decoding)
      BY DEF Decoding, Sse!Characters
    <3>3. Sse!Decoded(s, b) \in {Sse!Stray, Sse!Stray \o <<b>>, <<"bad">>, <<"mixed">>, <<"head", "tail">>}
      BY DEF Sse!Decoded
    <3>4. QED BY <1>4, <3>1, <3>2, <3>3
  <2>3. text \in Seq(Decoding)
    BY <1>2, <2>2
  <2> HIDE DEF b, text
  <2>4. /\ buffer'[s] = text /\ answer'[s] = answer[s] /\ sent'[s] = sent[s] + 1
    BY <1>1, <1>2, <1>5
  <2>5. QED BY <1>1, <1>2, <1>3, <2>3, <2>4 DEF StreamTyped, b
<1>6. CASE b = "nl"
  <2>1. text = buffer[s] \o (Sse!Stray \o <<"nl">>)
    BY <1>6 DEF Sse!Decoded
  <2>2. SubSeq(text, 1, Len(text) - 1) = buffer[s] \o Sse!Stray
    <3>1. Sse!Stray = <<>> \/ Sse!Stray = <<"bad">>
      BY DEF Sse!Stray
    <3>2. QED BY <1>2, <2>1, <3>1
  <2>3. Sse!TextOf(buffer[s] \o Sse!Stray) \in Seq(Decoding)
    <3>1. buffer[s] \o Sse!Stray \in Seq(Decoding)
      BY <1>2, <1>4
    <3>2. QED BY <3>1 DEF Sse!TextOf
  <2> HIDE DEF b, text
  <2>4. /\ buffer'[s] = <<>> /\ sent'[s] = sent[s] + 1
        /\ answer'[s] = answer[s] \o Sse!TextOf(buffer[s] \o Sse!Stray)
    BY <1>1, <1>2, <1>6, <2>2
  <2>5. QED BY <1>1, <1>2, <1>3, <2>3, <2>4 DEF StreamTyped
<1>7. QED BY <1>5, <1>6

\* A chunk leaves a stream that nobody else disturbed whole.
LEMMA TransformWhole ==
    ASSUME Sse!StreamAssumption, StreamInv, NEW s \in Streams, Sse!Transform(s), s \notin met'
    PROVE  Whole(s)'
<1> DEFINE b == Byte(s)
           line == buffer[s]
           a == answer[s]
           n == sent[s]
           before == TextUpTo(s, n)
<1>1. /\ n < Len(body[s]) /\ phase' = phase /\ body' = body /\ phase[s] = "open"
      /\ sent' = [sent EXCEPT ![s] = @ + 1]
      /\ \/ /\ b = "nl"
            /\ answer' = [answer EXCEPT ![s] =
                 @ \o Sse!TextOf(SubSeq(line \o Sse!Decoded(s, b), 1,
                                        Len(line \o Sse!Decoded(s, b)) - 1))]
            /\ buffer' = [buffer EXCEPT ![s] = <<>>]
            /\ held' = None
         \/ /\ b # "nl"
            /\ buffer' = [buffer EXCEPT ![s] = line \o Sse!Decoded(s, b)]
            /\ held' = IF b = "head" THEN s ELSE None
            /\ answer' = answer
      /\ met' = met \cup Sse!Met(s)
  BY DEF Sse!Transform, Byte
<1>2. /\ line \in Seq(Decoding) /\ a \in Seq(Decoding)
      /\ DOMAIN sent = Streams /\ DOMAIN buffer = Streams /\ DOMAIN answer = Streams
      /\ held \in Streams \cup {None} /\ s # None
  BY DEF StreamInv, StreamTyped, Sse!StreamAssumption
<1>3. Whole(s) /\ held \in {None, s}
  BY <1>1, <1>2 DEF StreamInv, Sse!Met
<1>4. /\ b \in {"a", "head", "tail", "data", "nl"} /\ n \in Nat
      /\ b \in Sse!Characters <=> n > 0 /\ ~LastByte(s, "nl") /\ b # "nl"
      /\ b = "tail" <=> LastByte(s, "head")
      /\ before \in Seq(Decoding)
      /\ TextUpTo(s, n + 1) = IF b \in Sse!Characters THEN Append(before, b) ELSE before
  <2>1. n < Len(body[s])
    BY <1>1
  <2>2. QED BY <2>1, NextByte
\* What Whole says of s.
<1>5. /\ a \o Sse!TextIn(line) \o (IF held = s THEN <<"head">> ELSE <<>>) = before
      /\ Sse!TextOf(line) = Sse!TextIn(line)
      /\ line # <<>> => Head(line) = "data"
      /\ held = s <=> LastByte(s, "head")
      /\ line = <<>> <=> n = 0 \/ LastByte(s, "nl")
  BY <1>1, <1>3 DEF Whole, Sse!Kept, TextUpTo
<1>6. Sse!TextIn(line) \in Seq(Decoding)
  <2>1. line \in Seq(Decoding \cup {"nl"})
    BY <1>2
  <2>2. QED BY <2>1, TextTyped
<1>7. /\ sent'[s] = n + 1 /\ phase'[s] = "open" /\ body'[s] = body[s]
      /\ \A c : LastByte(s, c)' <=> b = c
      /\ TextUpTo(s, sent[s])' = TextUpTo(s, n + 1)
  BY <1>1, <1>2, <1>4 DEF LastByte, Byte, TextUpTo
\* What has to be shown of s.
<1>8. ASSUME answer'[s] \o Sse!TextIn(buffer'[s]) \o (IF held' = s THEN <<"head">> ELSE <<>>)
               = TextUpTo(s, n + 1),
             Sse!TextOf(buffer'[s]) = Sse!TextIn(buffer'[s]),
             buffer'[s] # <<>> => Head(buffer'[s]) = "data",
             held' = s <=> b = "head",
             buffer'[s] = <<>> <=> b = "nl"
      PROVE  Whole(s)'
  <2>1. Sse!Kept(s)'
    BY <1>7, <1>8 DEF Sse!Kept, TextUpTo
  <2>2. ~ (sent'[s] = 0)
    BY <1>4, <1>7
  <2>3. /\ Sse!TextOf(buffer[s])' = Sse!TextIn(buffer[s])'
        /\ buffer'[s] # <<>> => Head(buffer'[s]) = "data"
        /\ phase'[s] = "open" => (held' = s <=> LastByte(s, "head")')
        /\ phase'[s] = "open" => (buffer'[s] = <<>> <=> sent'[s] = 0 \/ LastByte(s, "nl")')
    BY <1>7, <1>8, <2>2
  <2>4. QED BY <2>1, <2>3 DEF Whole
<1> HIDE DEF b, line, a, n, before
\* The last half of a character.
<1>9. CASE b = "tail"
  <2>1. held = s /\ line # <<>> /\ b \in Sse!Characters /\ b # "nl"
    BY <1>4, <1>5, <1>9 DEF Sse!Characters
  <2>2. Sse!Decoded(s, b) = <<"head", "tail">>
    BY <1>2, <1>9, <2>1 DEF Sse!Decoded
  <2> DEFINE l1 == Append(line, "head")
             l2 == Append(l1, "tail")
  <2>3. /\ l1 \in Seq(Decoding) /\ l1 # <<>> /\ Head(l1) = "data"
        /\ Sse!TextIn(l1) = Append(Sse!TextIn(line), "head")
        /\ Sse!TextOf(l1) = Sse!TextIn(l1)
    <3>1. "head" \in Decoding \ {"data"}
      BY DEF Decoding, Sse!Characters
    <3>2. QED BY <1>2, <1>5, <2>1, <3>1, LineGrows
  <2> HIDE DEF l1
  <2>4. /\ l2 \in Seq(Decoding) /\ l2 # <<>> /\ Head(l2) = "data"
        /\ Sse!TextIn(l2) = Append(Sse!TextIn(l1), "tail")
        /\ Sse!TextOf(l2) = Sse!TextIn(l2)
    <3>1. "tail" \in Decoding \ {"data"}
      BY DEF Decoding, Sse!Characters
    <3>2. QED BY <2>3, <3>1, LineGrows
  <2>5. line \o <<"head", "tail">> = l2
    BY <1>2 DEF l1
  <2>6. buffer'[s] = l2 /\ answer'[s] = a /\ held' = None
    <3>1. /\ buffer' = [buffer EXCEPT ![s] = line \o Sse!Decoded(s, b)]
          /\ held' = None /\ answer' = answer
      BY <1>1, <1>9, <2>1
    <3>2. QED BY <1>2, <2>2, <2>5, <3>1 DEF a
  <2> HIDE DEF l2
  <2>7. a \o Sse!TextIn(l2) \o <<>> = Append(before, "tail")
    <3>1. /\ "head" \in Decoding /\ "tail" \in Decoding
      BY DEF Decoding, Sse!Characters
    <3>2. a \o Sse!TextIn(line) \o <<"head">> = before
      BY <1>5, <2>1
    <3>3. a \o Sse!TextIn(l1) = before
      <4>1. a \o Append(Sse!TextIn(line), "head") = Append(a \o Sse!TextIn(line), "head")
        BY <1>2, <1>6, <3>1, TextJoins
      <4>2. a \o Sse!TextIn(line) \o <<"head">> = Append(a \o Sse!TextIn(line), "head")
        BY <1>2, <1>6, <3>1, TextJoins
      <4>3. QED BY <2>3, <3>2, <4>1, <4>2
    <3>4. Sse!TextIn(l1) \in Seq(Decoding)
      BY <1>6, <2>3, <3>1
    <3>5. a \o Sse!TextIn(l2) = Append(before, "tail")
      <4>1. a \o Append(Sse!TextIn(l1), "tail") = Append(a \o Sse!TextIn(l1), "tail")
        BY <1>2, <3>1, <3>4, TextJoins
      <4>2. QED BY <2>4, <3>3, <4>1
    <3>6. QED BY <1>4, <3>1, <3>5
  <2>8. TextUpTo(s, n + 1) = Append(before, "tail")
    BY <1>4, <1>9, <2>1
  <2>9. QED BY <1>2, <1>8, <1>9, <2>1, <2>4, <2>6, <2>7, <2>8
\* The first half of one.
<1>10. CASE b = "head"
  <2>1. held = None /\ line # <<>> /\ b \in Sse!Characters /\ b # "nl"
    BY <1>3, <1>4, <1>5, <1>10 DEF Sse!Characters
  <2>2. Sse!Decoded(s, b) = <<>>
    BY <1>10, <2>1 DEF Sse!Decoded, Sse!Stray
  <2>3. buffer'[s] = line /\ answer'[s] = a /\ held' = s
    <3>1. /\ buffer' = [buffer EXCEPT ![s] = line \o Sse!Decoded(s, b)]
          /\ held' = s /\ answer' = answer
      BY <1>1, <1>10, <2>1
    <3>2. line \o <<>> = line
      BY <1>2
    <3>3. QED BY <1>2, <2>2, <3>1, <3>2 DEF a
  <2>4. a \o Sse!TextIn(line) \o <<"head">> = Append(before, "head")
    <3>1. "head" \in Decoding
      BY DEF Decoding, Sse!Characters
    <3>2. a \o Sse!TextIn(line) \o <<>> = before
      BY <1>2, <1>5, <2>1
    <3>3. QED BY <1>2, <1>6, <3>1, <3>2, TextJoins
  <2>5. QED BY <1>4, <1>5, <1>8, <1>10, <2>1, <2>3, <2>4
\* A character of one byte.
<1>11. CASE b = "a"
  <2>1. held = None /\ line # <<>> /\ b \in Sse!Characters /\ b # "nl" /\ b # "head"
    BY <1>3, <1>4, <1>5, <1>11 DEF Sse!Characters
  <2>2. Sse!Decoded(s, b) = <<"a">>
    BY <1>11, <2>1 DEF Sse!Decoded, Sse!Stray
  <2> DEFINE l1 == Append(line, "a")
  <2>3. /\ l1 \in Seq(Decoding) /\ l1 # <<>> /\ Head(l1) = "data"
        /\ Sse!TextIn(l1) = Append(Sse!TextIn(line), "a")
        /\ Sse!TextOf(l1) = Sse!TextIn(l1)
    <3>1. "a" \in Decoding \ {"data"}
      BY DEF Decoding, Sse!Characters
    <3>2. QED BY <1>2, <1>5, <2>1, <3>1, LineGrows
  <2>4. buffer'[s] = l1 /\ answer'[s] = a /\ held' = None
    <3>1. /\ buffer' = [buffer EXCEPT ![s] = line \o Sse!Decoded(s, b)]
          /\ held' = None /\ answer' = answer
      BY <1>1, <2>1
    <3>2. line \o <<"a">> = l1
      BY <1>2
    <3>3. QED BY <1>2, <2>2, <3>1, <3>2 DEF a
  <2> HIDE DEF l1
  <2>5. a \o Sse!TextIn(l1) \o <<>> = Append(before, "a")
    <3>1. "a" \in Decoding
      BY DEF Decoding, Sse!Characters
    <3>2. a \o Sse!TextIn(line) = before
      <4>1. a \o Sse!TextIn(line) \o <<>> = before
        BY <1>2, <1>5, <2>1
      <4>2. a \o Sse!TextIn(line) \o <<>> = a \o Sse!TextIn(line)
        BY <1>2, <1>6, <3>1, TextJoins
      <4>3. QED BY <4>1, <4>2
    <3>3. a \o Sse!TextIn(l1) = Append(before, "a")
      <4>1. a \o Append(Sse!TextIn(line), "a") = Append(a \o Sse!TextIn(line), "a")
        BY <1>2, <1>6, <3>1, TextJoins
      <4>2. QED BY <2>3, <3>2, <4>1
    <3>4. QED BY <1>4, <3>1, <3>3
  <2>6. TextUpTo(s, n + 1) = Append(before, "a")
    BY <1>4, <1>11, <2>1
  <2>7. QED BY <1>2, <1>8, <1>11, <2>1, <2>3, <2>4, <2>5, <2>6
\* The beginning of a frame.
<1>12. CASE b = "data"
  <2>1. held = None /\ line = <<>> /\ b \notin Sse!Characters /\ b # "nl" /\ b # "head"
    <3>1. b \notin Sse!Characters /\ b # "nl" /\ b # "head" /\ b # "tail"
      BY <1>12 DEF Sse!Characters
    <3>2. n = 0 \/ LastByte(s, "nl")
      BY <1>4, <3>1
    <3>3. QED BY <1>3, <1>4, <1>5, <3>1, <3>2
  <2>2. Sse!Decoded(s, b) = <<"data">>
    BY <1>12, <2>1 DEF Sse!Decoded, Sse!Stray
  <2>3. buffer'[s] = <<"data">> /\ answer'[s] = a /\ held' = None
    <3>1. /\ buffer' = [buffer EXCEPT ![s] = line \o Sse!Decoded(s, b)]
          /\ held' = None /\ answer' = answer
      BY <1>1, <2>1
    <3>2. QED BY <1>2, <2>1, <2>2, <3>1 DEF a
  <2>4. a \o <<>> \o <<>> = before
    BY <1>2, <1>5, <2>1, TextOfNothing
  <2>5. TextUpTo(s, n + 1) = before
    BY <1>4, <2>1
  <2>6. QED BY <1>2, <1>8, <1>12, <2>1, <2>3, <2>4, <2>5, FrameBegins
\* The end of a line, which is forwarded.
<1>13. CASE b = "nl"
  <2>1. held = None /\ b \notin Sse!Characters /\ b # "head"
    BY <1>3, <1>4, <1>5, <1>13 DEF Sse!Characters
  <2>2. Sse!Decoded(s, b) = <<"nl">>
    BY <1>13, <2>1 DEF Sse!Decoded, Sse!Stray
  <2>3. SubSeq(line \o <<"nl">>, 1, Len(line \o <<"nl">>) - 1) = line
    BY <1>2
  <2>4. buffer'[s] = <<>> /\ answer'[s] = a \o Sse!TextIn(line) /\ held' = None
    <3>1. /\ answer' = [answer EXCEPT ![s] = @ \o Sse!TextIn(line)]
          /\ buffer' = [buffer EXCEPT ![s] = <<>>] /\ held' = None
      BY <1>1, <1>5, <1>13, <2>2, <2>3
    <3>2. QED BY <1>2, <3>1 DEF a
  <2>5. a \o Sse!TextIn(line) \o <<>> \o <<>> = before
    <3>1. a \o Sse!TextIn(line) \o <<>> = before
      BY <1>2, <1>5, <2>1
    <3>2. QED BY <1>4, <3>1
  <2>6. TextUpTo(s, n + 1) = before
    BY <1>4, <2>1
  <2>7. Sse!TextOf(<<>>) = <<>> /\ Sse!TextIn(<<>>) = <<>>
    BY TextOfNothing DEF Sse!TextOf
  <2>8. QED BY <1>2, <1>8, <1>13, <2>1, <2>4, <2>5, <2>6, <2>7
<1>14. QED BY <1>4, <1>9, <1>10, <1>11, <1>12, <1>13

\* A chunk of another stream, which cuts no character of s.
LEMMA TransformElsewhere ==
    ASSUME Sse!StreamAssumption, StreamInv, NEW t \in Streams, Sse!Transform(t),
           NEW s \in Streams \ {t}
    PROVE  StreamTyped(s)' /\ (s \notin met' => Whole(s)')
<1>1. /\ body' = body /\ phase' = phase /\ met' = met \cup Sse!Met(t)
      /\ held' \in {t, None}
      /\ sent' = [sent EXCEPT ![t] = @ + 1]
      /\ buffer'[s] = buffer[s] /\ answer'[s] = answer[s]
  BY DEF Sse!Transform, StreamInv
<1>2. sent'[s] = sent[s] /\ phase'[s] = phase[s]
  BY <1>1 DEF StreamInv
<1>3. held' # s
  BY <1>1 DEF Sse!StreamAssumption
<1>4. StreamTyped(s)'
  BY <1>1, <1>2 DEF StreamInv, StreamTyped
<1>5. ASSUME s \notin met' PROVE Whole(s)'
  <2>1. held # s /\ s \notin met
    BY <1>1, <1>5 DEF Sse!Met, Sse!StreamAssumption
  <2>2. Whole(s)
    BY <2>1 DEF StreamInv
  <2>3. QED BY <1>1, <1>2, <1>3, <2>1, <2>2, StreamQuiet
<1>6. QED BY <1>4, <1>5

\* The end of a body, for every stream.
LEMMA FlushKeeps ==
    ASSUME Sse!StreamAssumption, StreamInv, NEW t \in Streams, Sse!Flush(t),
           NEW s \in Streams
    PROVE  StreamTyped(s)' /\ (s \notin met' => Whole(s)')
<1>1. /\ phase[t] = "open" /\ held # t /\ held' = None
      /\ body' = body /\ sent' = sent /\ met' = met \cup Sse!Met(t)
      /\ phase' = [phase EXCEPT ![t] = "ended"]
      /\ buffer' = [buffer EXCEPT ![t] = <<>>]
      /\ answer' = [answer EXCEPT ![t] = @ \o Sse!TextOf(buffer[t] \o Sse!Stray)]
  BY DEF Sse!Flush
<1>2. /\ DOMAIN phase = Streams /\ DOMAIN buffer = Streams /\ DOMAIN answer = Streams
      /\ s # None /\ StreamTyped(s)
  BY DEF StreamInv, Sse!StreamAssumption
<1>3. CASE s # t
  <2>1. /\ buffer'[s] = buffer[s] /\ answer'[s] = answer[s] /\ phase'[s] = phase[s]
        /\ sent'[s] = sent[s]
    BY <1>1, <1>2, <1>3
  <2>2. StreamTyped(s)'
    BY <1>1, <1>2, <2>1 DEF StreamTyped
  <2>3. ASSUME s \notin met' PROVE Whole(s)'
    <3>1. held # s /\ s \notin met
      BY <1>1, <1>2, <1>3, <2>3 DEF Sse!Met
    <3>2. Whole(s) /\ held' # s
      BY <1>1, <1>2, <3>1 DEF StreamInv
    <3>3. QED BY <1>1, <2>1, <3>1, <3>2, StreamQuiet
  <2>4. QED BY <2>2, <2>3
<1>4. CASE s = t
  <2>1. /\ buffer'[s] = <<>> /\ phase'[s] = "ended" /\ sent'[s] = sent[s]
        /\ answer'[s] = answer[s] \o Sse!TextOf(buffer[s] \o Sse!Stray)
    BY <1>1, <1>2, <1>4
  <2>2. answer[s] \in Seq(Decoding) /\ buffer[s] \in Seq(Decoding)
    BY <1>2 DEF StreamTyped
  <2>3. Sse!TextOf(buffer[s] \o Sse!Stray) \in Seq(Decoding)
    <3>1. buffer[s] \o Sse!Stray \in Seq(Decoding)
      BY <2>2, StrayTyped
    <3>2. QED BY <3>1 DEF Sse!TextOf
  <2>4. StreamTyped(s)'
    <3>1. answer'[s] \in Seq(Decoding)
      BY <2>1, <2>2, <2>3
    <3>2. QED BY <1>1, <1>2, <2>1, <3>1 DEF StreamTyped
  <2>5. ASSUME s \notin met' PROVE Whole(s)'
    <3>1. held = None /\ s \notin met
      BY <1>1, <1>2, <1>4, <2>5 DEF Sse!Met
    <3>2. Whole(s)
      BY <3>1 DEF StreamInv
    <3>3. buffer[s] \o Sse!Stray = buffer[s]
      BY <2>2, <3>1 DEF Sse!Stray
    <3>4. answer'[s] = answer[s] \o Sse!TextIn(buffer[s])
      BY <2>1, <3>2, <3>3 DEF Whole
    <3>5. /\ Sse!TextIn(<<>>) = <<>> /\ Sse!TextOf(<<>>) = <<>>
      BY TextOfNothing DEF Sse!TextOf
    <3>6. Sse!TextIn(buffer[s]) \in Seq(Decoding)
      <4>1. buffer[s] \in Seq(Decoding \cup {"nl"})
        BY <2>2
      <4>2. QED BY <4>1, TextTyped
    <3>7. Sse!Kept(s)'
      <4>1. answer[s] \o Sse!TextIn(buffer[s]) \o <<>> = TextUpTo(s, sent[s])
        BY <1>2, <3>1, <3>2 DEF Whole, Sse!Kept, TextUpTo
      <4> DEFINE all == answer[s] \o Sse!TextIn(buffer[s])
      <4>2. all \in Seq(Decoding)
        BY <2>2, <3>6
      <4>3. answer'[s] \o <<>> \o <<>> = TextUpTo(s, sent[s])
        <5> HIDE DEF all
        <5>1. all \o <<>> = all /\ all \o <<>> \o <<>> = all
          BY <4>2, NothingJoins
        <5>2. all \o <<>> = TextUpTo(s, sent[s])
          BY <4>1 DEF all
        <5>3. answer'[s] = all
          BY <3>4 DEF all
        <5>4. QED BY <5>1, <5>2, <5>3
      <4>4. QED BY <1>1, <1>2, <2>1, <3>5, <4>3 DEF Sse!Kept, TextUpTo
    <3>8. QED BY <2>1, <3>5, <3>7 DEF Whole
  <2>6. QED BY <2>4, <2>5
<1>5. QED BY <1>3, <1>4

\* The invariant is one.
LEMMA StreamInductive ==
    ASSUME Sse!StreamAssumption
    PROVE  StreamInv /\ [Sse!Next]_(Sse!vars) => StreamInv'
<1> SUFFICES ASSUME StreamInv, [Sse!Next]_(Sse!vars) PROVE StreamInv'
  OBVIOUS
<1>1. ASSUME NEW t \in Streams, Sse!Transform(t) PROVE StreamInv'
  <2>1. \A s \in Streams : StreamTyped(s)' /\ (s \notin met' => Whole(s)')
    BY <1>1, TransformTyped, TransformWhole, TransformElsewhere
  <2>2. /\ body' \in [Streams -> Bodies] /\ held' \in Streams \cup {None}
        /\ met' \subseteq Streams
        /\ DOMAIN sent' = Streams /\ DOMAIN buffer' = Streams
        /\ DOMAIN answer' = Streams /\ DOMAIN phase' = Streams
    BY <1>1 DEF StreamInv, Sse!Transform, Sse!Met
  <2>3. QED BY <2>1, <2>2 DEF StreamInv
<1>2. ASSUME NEW t \in Streams, Sse!Flush(t) PROVE StreamInv'
  <2>1. \A s \in Streams : StreamTyped(s)' /\ (s \notin met' => Whole(s)')
    BY <1>2, FlushKeeps
  <2>2. /\ body' \in [Streams -> Bodies] /\ held' \in Streams \cup {None}
        /\ met' \subseteq Streams
        /\ DOMAIN sent' = Streams /\ DOMAIN buffer' = Streams
        /\ DOMAIN answer' = Streams /\ DOMAIN phase' = Streams
    BY <1>2 DEF StreamInv, Sse!Flush, Sse!Met
  <2>3. QED BY <2>1, <2>2 DEF StreamInv
<1>3. ASSUME NEW t \in Streams, Sse!Leave(t) PROVE StreamInv'
  <2>1. /\ body' = body /\ sent' = sent /\ held' = held /\ buffer' = buffer
        /\ answer' = answer /\ met' = met /\ phase' = [phase EXCEPT ![t] = "left"]
    BY <1>3 DEF Sse!Leave
  <2>2. \A s \in Streams : phase'[s] \in {phase[s], "left"}
    BY <2>1 DEF StreamInv
  <2>3. \A s \in Streams : StreamTyped(s)' /\ (Whole(s) => Whole(s)')
    BY <2>1, <2>2, StreamQuiet
  <2>4. QED BY <2>1, <2>3 DEF StreamInv
<1>4. CASE UNCHANGED Sse!vars
  <2>1. /\ body' = body /\ sent' = sent /\ held' = held /\ buffer' = buffer
        /\ answer' = answer /\ met' = met /\ phase' = phase
    BY <1>4 DEF Sse!vars
  <2>2. \A s \in Streams : StreamTyped(s)' /\ (Whole(s) => Whole(s)')
    BY <2>1, StreamQuiet
  <2>3. QED BY <2>1, <2>2 DEF StreamInv
<1>5. QED BY <1>1, <1>2, <1>3, <1>4 DEF Sse!Next

\* It holds before anything was sent.
LEMMA StreamInvInit ==
    ASSUME Sse!StreamAssumption
    PROVE  Sse!Init => StreamInv
<1> SUFFICES ASSUME Sse!Init PROVE StreamInv
  OBVIOUS
<1>1. ASSUME NEW s \in Streams PROVE StreamTyped(s) /\ Whole(s)
  <2>1. /\ sent[s] = 0 /\ held = None /\ s # None /\ buffer[s] = <<>>
        /\ answer[s] = <<>> /\ phase[s] = "open"
        /\ body[s] \in Seq(Sse!Characters \cup {"data", "nl"})
    BY DEF Sse!Init, Sse!StreamAssumption
  <2>2. StreamTyped(s)
    BY <2>1 DEF StreamTyped
  <2>3. SubSeq(body[s], 1, 0) = <<>>
    BY <2>1
  <2>4. Sse!Kept(s)
    <3>1. <<>> \o <<>> \o <<>> = <<>>
      <4>1. <<>> \in Seq({})
        OBVIOUS
      <4>2. QED BY <4>1, NothingJoins
    <3>2. Sse!TextIn(SubSeq(body[s], 1, sent[s])) = <<>>
      BY <2>1, <2>3, TextOfNothing
    <3>3. QED BY <2>1, <3>1, <3>2, TextOfNothing DEF Sse!Kept
  <2>5. QED BY <2>1, <2>2, <2>4, TextOfNothing DEF Whole, LastByte, Sse!TextOf
<1>2. QED BY <1>1 DEF Sse!Init, StreamInv

\* However chunks cut lines and characters, and however many streams take turns,
\* end or are left: no text of a stream is lost, added or changed, unless a
\* character of it was cut while a chunk of another stream came in.
THEOREM StreamsKeepText ==
    ASSUME Sse!StreamAssumption
    PROVE  Sse!Spec => []Sse!ContentKept
<1>1. StreamInv => Sse!ContentKept
  BY DEF StreamInv, Whole, Sse!ContentKept
<1>2. QED BY <1>1, StreamInvInit, StreamInductive, PTL DEF Sse!Spec

\* What streams hold has its type.
THEOREM StreamTypeCorrect ==
    ASSUME Sse!StreamAssumption
    PROVE  Sse!Spec => []Sse!TypeOK
<1>1. StreamInv => Sse!TypeOK
  BY DEF StreamInv, StreamTyped, Decoding, Sse!TypeOK
<1>2. QED BY <1>1, StreamInvInit, StreamInductive, PTL DEF Sse!Spec
=============================================================================
