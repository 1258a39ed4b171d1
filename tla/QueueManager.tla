---------------------------- MODULE QueueManager ----------------------------
(***************************************************************************)
(* The request queue of src/src/lib/routing/queueManager.js.               *)
(*                                                                         *)
(* JavaScript runs enqueue, setConcurrency and the part of process up to   *)
(* its await without interruption, and the part after the await (settle,   *)
(* decrement, process again) without interruption too: each is one step.   *)
(* Whether the task resolves or rejects makes no difference to the queue.  *)
(* The item sits in the queue under the identity of its request; a request *)
(* whose promise settled may be enqueued again, as a new request.  The     *)
(* clock read into ts is taken to be monotone, so that equal priorities    *)
(* are ordered by arrival.                                                 *)
(***************************************************************************)
EXTENDS Integers, Sequences, FiniteSets

CONSTANTS
    Requests,      \* requests that may be in the queue
    Groups,        \* values of metadata.group
    Intents,       \* values of metadata.intent
    DefaultLimit,  \* concurrencyLimit of the constructor
    Limits         \* arguments of setConcurrency

ASSUME QueueAssumption ==
    /\ IsFiniteSet(Requests)
    /\ DefaultLimit \in Nat
    /\ Limits \subseteq Nat

VARIABLES
    queue,             \* the waiting items, first to be started first
    executing,         \* requests whose task is awaited
    activeCount,
    concurrencyLimit,
    priority           \* priority[r]: the priority of r's item

vars == <<queue, executing, activeCount, concurrencyLimit, priority>>

Items(q) == {q[i] : i \in DOMAIN q}
Queued == Items(queue)

-----------------------------------------------------------------------------
Weights ==
    [personal |-> 10, work |-> 20, team |-> 30, enterprise |-> 50, urgent |-> 100]

GroupWeight(group) == IF group \in DOMAIN Weights THEN Weights[group] ELSE 0

CalculatePriority(group, intent) ==
    GroupWeight(group) + IF intent \in {"urgent", "coding"} THEN Weights.urgent ELSE 0

PriorityValues == {CalculatePriority(g, i) : g \in Groups, i \in Intents}

\* x put into q behind its first k items.
InsertAfter(q, k, x) ==
    [i \in 1..(Len(q) + 1) |->
        IF i <= k THEN q[i] ELSE IF i = k + 1 THEN x ELSE q[i - 1]]

\* Faulty: equal priorities are sorted latest first.
SortsBefore(q, k, x, pr) ==
    /\ \A i \in 1..k : pr[q[i]] > pr[x]
    /\ \A i \in (k + 1)..Len(q) : pr[q[i]] <= pr[x]

\* Pushing x onto the sorted q and sorting stably by pr, highest first, puts
\* it behind the k items of its priority or a higher one.
SortsAfter(q, k, x, pr) ==
    /\ \A i \in 1..k : pr[q[i]] >= pr[x]
    /\ \A i \in (k + 1)..Len(q) : pr[q[i]] < pr[x]

\* Faulty: pop() takes the last item where shift() takes the first.
ProcessLast(q, ex, n, limit) ==
    \/ /\ n >= limit \/ q = <<>>
       /\ queue' = q
       /\ executing' = ex
       /\ activeCount' = n
    \/ /\ n < limit
       /\ q # <<>>
       /\ queue' = SubSeq(q, 1, Len(q) - 1)
       /\ executing' = ex \cup {q[Len(q)]}
       /\ activeCount' = n + 1

\* process() on queue q with n active tasks, those of the requests in ex,
\* under the limit: the head item starts if there is room, one item a call.
Process(q, ex, n, limit) ==
    \/ /\ n >= limit \/ q = <<>>
       /\ queue' = q
       /\ executing' = ex
       /\ activeCount' = n
    \/ /\ n < limit
       /\ q # <<>>
       /\ queue' = Tail(q)
       /\ executing' = ex \cup {Head(q)}
       /\ activeCount' = n + 1

-----------------------------------------------------------------------------
Init ==
    /\ queue = <<>>
    /\ executing = {}
    /\ activeCount = 0
    /\ concurrencyLimit = DefaultLimit
    /\ priority = [r \in Requests |-> 0]

\* enqueue(task, {group, intent}): push, sort, process.
Enqueue(r, group, intent) ==
    /\ r \notin Queued \cup executing
    /\ priority' = [priority EXCEPT ![r] = CalculatePriority(group, intent)]
    /\ \E k \in 0..Len(queue) :
         /\ SortsAfter(queue, k, r, priority')
         /\ Process(InsertAfter(queue, k, r), executing, activeCount, concurrencyLimit)
    /\ UNCHANGED concurrencyLimit

\* Faulty: the finally block decrements and does not call process() again.
SettleQuietly(r) ==
    /\ r \in executing
    /\ executing' = executing \ {r}
    /\ activeCount' = activeCount - 1
    /\ UNCHANGED <<queue, concurrencyLimit, priority>>

\* Faulty: the slot is not given back when the task rejects.
SettleLeaking(r) ==
    /\ r \in executing
    /\ \E n \in {activeCount - 1, activeCount} :
         Process(queue, executing \ {r}, n, concurrencyLimit)
    /\ UNCHANGED <<concurrencyLimit, priority>>

\* Faulty: the slot is given back in the catch block and in the finally block.
SettleTwice(r) ==
    /\ r \in executing
    /\ \E n \in {activeCount - 1, activeCount - 2} :
         Process(queue, executing \ {r}, n, concurrencyLimit)
    /\ UNCHANGED <<concurrencyLimit, priority>>

\* The task of r settles: its promise follows, then the finally block.
Settle(r) ==
    /\ r \in executing
    /\ Process(queue, executing \ {r}, activeCount - 1, concurrencyLimit)
    /\ UNCHANGED <<concurrencyLimit, priority>>

SetConcurrency(limit) ==
    /\ concurrencyLimit' = limit
    /\ Process(queue, executing, activeCount, limit)
    /\ UNCHANGED priority

Next ==
    \/ \E r \in Requests, g \in Groups, i \in Intents : Enqueue(r, g, i)
    \/ \E r \in Requests : Settle(r)
    \/ \E limit \in Limits : SetConcurrency(limit)

Spec == Init /\ [][Next]_vars

\* Every task eventually settles; nothing else is promised about callers.
FairSpec == Spec /\ \A r \in Requests : WF_vars(Settle(r))

-----------------------------------------------------------------------------
(* Properties.                                                             *)

TypeOK ==
    /\ queue \in Seq(Requests)
    /\ executing \in SUBSET Requests
    /\ activeCount \in Nat
    /\ concurrencyLimit \in Nat
    /\ priority \in [Requests -> Int]

\* The slots are accounted for: activeCount is the number of tasks under way,
\* and a request is never queued twice, or queued while its task runs.
SlotsAccountedFor ==
    /\ activeCount = Cardinality(executing)
    /\ Queued \cap executing = {}
    /\ \A i, j \in DOMAIN queue : queue[i] = queue[j] => i = j

\* No lost wakeup: whenever requests wait, either a task is under way, whose
\* end will start the next one, or the limit has been set to zero.
NoStall == queue # <<>> => activeCount > 0 \/ concurrencyLimit = 0

\* The queue stays sorted, so that the head is a request of the highest
\* waiting priority.
Sorted ==
    \A i, j \in DOMAIN queue : i < j => priority[queue[i]] >= priority[queue[j]]

\* r waits ahead of s.
Ahead(r, s) ==
    \E i, j \in DOMAIN queue : i < j /\ queue[i] = r /\ queue[j] = s

\* s is submitted by this step with a priority that r already has or exceeds.
ArrivesBehind(s, r) ==
    /\ s \notin Queued \cup executing
    /\ s \in Queued' \cup executing'
    /\ priority'[s] <= priority[r]

\* No request overtakes one that arrived before it with the same or a higher
\* priority: it is put behind, and who waits behind is not started first.
NoOvertaking ==
    [][\A r \in Queued, s \in Requests :
         Ahead(r, s) \/ ArrivesBehind(s, r) => r \in executing' \/ Ahead(r, s)']_vars

\* A request of the highest priority in use is served, however many others
\* arrive, unless the limit stays at zero.
TopPriorityServed ==
    \A r \in Requests :
        (/\ r \in Queued
         /\ \A n \in PriorityValues : n <= priority[r])
            ~> (r \in executing \/ concurrencyLimit = 0)

\* The pool this queue implements.
Pool == INSTANCE TaskPool WITH
    Tasks <- Requests,
    Priorities <- PriorityValues \cup {0},
    Limits <- Limits \cup {DefaultLimit},
    waiting <- Queued,
    running <- executing,
    limit <- concurrencyLimit

\* The sequence and the counter implement the pool's two sets.
ImplementsPool == Pool!Spec
=============================================================================
