------------------------- MODULE QueueManagerProofs -------------------------
(***************************************************************************)
(* Proofs about QueueManager for every finite set of requests, every limit *)
(* and every sequence of changes of the limit: the slots are accounted     *)
(* for, no wakeup is lost, and the queue implements TaskPool.              *)
(***************************************************************************)
EXTENDS QueueManager, FiniteSetTheorems, TLAPS

\* What the queue sequence satisfies on its own, with requests ex under way.
GoodQueue(q, ex, pr) ==
    /\ q \in Seq(Requests)
    /\ \A i, j \in DOMAIN q : q[i] = q[j] => i = j
    /\ Items(q) \cap ex = {}
    /\ \A i, j \in DOMAIN q : i < j => pr[q[i]] >= pr[q[j]]

IInv ==
    /\ TypeOK
    /\ SlotsAccountedFor
    /\ NoStall
    /\ Sorted

-----------------------------------------------------------------------------
(* Lemmas about the two sequence operations.                               *)

\* The length and the elements of a queue with one more item.
LEMMA InsertAfterShape ==
    ASSUME NEW q \in Seq(Requests), NEW k \in 0..Len(q), NEW x \in Requests
    PROVE  /\ InsertAfter(q, k, x) \in Seq(Requests)
           /\ Len(InsertAfter(q, k, x)) = Len(q) + 1
           /\ DOMAIN InsertAfter(q, k, x) = 1..(Len(q) + 1)
           /\ InsertAfter(q, k, x) # <<>>
<1> DEFINE s == InsertAfter(q, k, x)
<1>1. Len(q) \in Nat /\ DOMAIN q = 1..Len(q) /\ \A i \in 1..Len(q) : q[i] \in Requests
  OBVIOUS
<1>2. s \in [1..(Len(q) + 1) -> Requests]
  BY <1>1 DEF InsertAfter
<1>3. s \in Seq(Requests)
  BY <1>1, <1>2
<1>4. Len(s) = Len(q) + 1
  BY <1>1, <1>2, <1>3
<1>5. QED BY <1>1, <1>2, <1>3, <1>4

\* Inserting adds exactly the inserted item.
LEMMA InsertAfterItems ==
    ASSUME NEW q \in Seq(Requests), NEW k \in 0..Len(q), NEW x \in Requests
    PROVE  Items(InsertAfter(q, k, x)) = Items(q) \cup {x}
<1> DEFINE s == InsertAfter(q, k, x)
<1>0. Len(q) \in Nat /\ DOMAIN q = 1..Len(q) /\ DOMAIN s = 1..(Len(q) + 1)
  BY InsertAfterShape
<1>1. ASSUME NEW i \in DOMAIN s PROVE s[i] \in Items(q) \cup {x}
  BY <1>0 DEF InsertAfter, Items
<1>2. x \in Items(s)
  <2>1. k + 1 \in DOMAIN s /\ s[k + 1] = x
    BY <1>0 DEF InsertAfter
  <2>2. QED BY <2>1 DEF Items
<1>3. ASSUME NEW i \in DOMAIN q PROVE q[i] \in Items(s)
  <2>1. CASE i <= k
    <3>1. i \in DOMAIN s /\ s[i] = q[i]
      BY <1>0, <2>1 DEF InsertAfter
    <3>2. QED BY <3>1 DEF Items
  <2>2. CASE i > k
    <3>1. i + 1 \in DOMAIN s /\ s[i + 1] = q[i]
      BY <1>0, <2>2 DEF InsertAfter
    <3>2. QED BY <3>1 DEF Items
  <2>3. QED BY <1>0, <2>1, <2>2
<1>4. QED BY <1>1, <1>2, <1>3 DEF Items

\* Inserting where the stable sort would put the item keeps the queue free of
\* duplicates, apart from the running requests, and sorted.
LEMMA InsertAfterGood ==
    ASSUME NEW q, NEW ex, NEW pr \in [Requests -> Int], GoodQueue(q, ex, pr),
           NEW k \in 0..Len(q), NEW x \in Requests, x \notin Items(q) \cup ex,
           SortsAfter(q, k, x, pr)
    PROVE  GoodQueue(InsertAfter(q, k, x), ex, pr)
<1> DEFINE s == InsertAfter(q, k, x)
<1>0. /\ q \in Seq(Requests)
      /\ Len(q) \in Nat
      /\ DOMAIN q = 1..Len(q)
      /\ \A i \in 1..Len(q) : q[i] \in Requests /\ q[i] # x /\ pr[q[i]] \in Int
      /\ pr[x] \in Int
  BY DEF GoodQueue, Items
<1>1. s \in Seq(Requests) /\ DOMAIN s = 1..(Len(q) + 1)
  BY <1>0, InsertAfterShape
<1>2. Items(s) \cap ex = {}
  BY <1>0, InsertAfterItems DEF GoodQueue
<1>3. \A i \in 1..(Len(q) + 1) :
        s[i] = IF i <= k THEN q[i] ELSE IF i = k + 1 THEN x ELSE q[i - 1]
  BY DEF InsertAfter
<1>4. /\ \A m, n \in 1..Len(q) : q[m] = q[n] => m = n
      /\ \A m, n \in 1..Len(q) : m < n => pr[q[m]] >= pr[q[n]]
      /\ \A m \in 1..k : pr[q[m]] >= pr[x]
      /\ \A m \in (k + 1)..Len(q) : pr[x] >= pr[q[m]]
  <2>1. /\ \A m, n \in 1..Len(q) : q[m] = q[n] => m = n
        /\ \A m, n \in 1..Len(q) : m < n => pr[q[m]] >= pr[q[n]]
    BY <1>0 DEF GoodQueue
  <2>2. \A m \in 1..k : pr[q[m]] >= pr[x]
    BY DEF SortsAfter
  <2>3. ASSUME NEW m \in (k + 1)..Len(q) PROVE pr[x] >= pr[q[m]]
    <3>1. pr[q[m]] < pr[x]
      BY DEF SortsAfter
    <3>2. m \in 1..Len(q)
      BY <1>0
    <3>3. QED BY <1>0, <3>1, <3>2
  <2>4. QED BY <2>1, <2>2, <2>3
<1> HIDE DEF s
<1>5. ASSUME NEW i \in 1..(Len(q) + 1), NEW j \in 1..(Len(q) + 1), i < j
      PROVE  s[i] # s[j] /\ pr[s[i]] >= pr[s[j]]
  <2>1. CASE j <= k
    <3>1. i \in 1..Len(q) /\ j \in 1..Len(q)
      BY <1>0, <1>5, <2>1
    <3>2. s[i] = q[i] /\ s[j] = q[j]
      BY <1>0, <1>3, <1>5, <2>1
    <3>3. QED BY <1>4, <1>5, <3>1, <3>2
  <2>2. CASE i <= k /\ j = k + 1
    <3>1. i \in 1..Len(q) /\ i \in 1..k
      BY <1>0, <1>5, <2>2
    <3>2. s[i] = q[i] /\ s[j] = x
      BY <1>0, <1>3, <1>5, <2>2
    <3>3. QED BY <1>0, <1>4, <3>1, <3>2
  <2>3. CASE i <= k /\ j > k + 1
    <3>1. i \in 1..Len(q) /\ j - 1 \in 1..Len(q) /\ i < j - 1
      BY <1>0, <1>5, <2>3
    <3>2. s[i] = q[i] /\ s[j] = q[j - 1]
      BY <1>0, <1>3, <1>5, <2>3
    <3>3. QED BY <1>4, <3>1, <3>2
  <2>4. CASE i = k + 1 /\ j > k + 1
    <3>1. j - 1 \in 1..Len(q) /\ j - 1 \in (k + 1)..Len(q)
      BY <1>0, <1>5, <2>4
    <3>2. s[i] = x
      BY <1>0, <1>3, <2>4
    <3>3. s[j] = q[j - 1]
      BY <1>0, <1>3, <2>4
    <3>4. QED BY <1>0, <1>4, <3>1, <3>2, <3>3
  <2>5. CASE i > k + 1
    <3>1. i - 1 \in 1..Len(q) /\ j - 1 \in 1..Len(q) /\ i - 1 < j - 1
      BY <1>0, <1>5, <2>5
    <3>2. s[i] = q[i - 1] /\ s[j] = q[j - 1]
      BY <1>0, <1>3, <1>5, <2>5
    <3>3. QED BY <1>4, <3>1, <3>2
  <2>6. QED BY <1>0, <1>5, <2>1, <2>2, <2>3, <2>4, <2>5
<1>6. \A i, j \in DOMAIN s : s[i] = s[j] => i = j
  <2>1. SUFFICES ASSUME NEW i \in 1..(Len(q) + 1), NEW j \in 1..(Len(q) + 1), i # j
                 PROVE  s[i] # s[j]
    BY <1>1
  <2>2. i < j \/ j < i
    BY <1>0, <2>1
  <2>3. QED BY <1>5, <2>2
<1>7. \A i, j \in DOMAIN s : i < j => pr[s[i]] >= pr[s[j]]
  BY <1>1, <1>5
<1>8. GoodQueue(s, ex, pr)
  BY <1>1, <1>2, <1>6, <1>7 DEF GoodQueue
<1>9. QED BY <1>8 DEF s

\* Taking the head leaves a good queue without it, and the head is a waiting
\* request of the highest priority.
LEMMA TailGood ==
    ASSUME NEW q, NEW ex, NEW pr \in [Requests -> Int], GoodQueue(q, ex, pr),
           q # <<>>
    PROVE  /\ GoodQueue(Tail(q), ex \cup {Head(q)}, pr)
           /\ Items(Tail(q)) = Items(q) \ {Head(q)}
           /\ Head(q) \in Items(q)
           /\ Head(q) \in Requests
           /\ \A s \in Items(q) : pr[s] <= pr[Head(q)]
<1>0. /\ q \in Seq(Requests)
      /\ Len(q) \in Nat
      /\ Len(q) >= 1
      /\ DOMAIN q = 1..Len(q)
      /\ \A i \in 1..Len(q) : q[i] \in Requests /\ pr[q[i]] \in Int
      /\ \A i, j \in 1..Len(q) : q[i] = q[j] => i = j
      /\ \A i, j \in 1..Len(q) : i < j => pr[q[i]] >= pr[q[j]]
  BY DEF GoodQueue
<1>1. /\ Tail(q) \in Seq(Requests)
      /\ DOMAIN Tail(q) = 1..(Len(q) - 1)
      /\ \A i \in 1..(Len(q) - 1) : Tail(q)[i] = q[i + 1]
      /\ Head(q) = q[1]
  BY <1>0
<1>2. \A i \in 1..(Len(q) - 1) : i + 1 \in 1..Len(q)
  BY <1>0
<1>3. Items(Tail(q)) = Items(q) \ {Head(q)}
  <2>1. ASSUME NEW i \in DOMAIN Tail(q) PROVE Tail(q)[i] \in Items(q) \ {q[1]}
    <3>1. i + 1 \in 1..Len(q) /\ i + 1 # 1 /\ 1 \in 1..Len(q)
      BY <1>0, <1>1, <1>2
    <3>2. QED BY <1>0, <1>1, <3>1 DEF Items
  <2>2. ASSUME NEW i \in DOMAIN q, q[i] # q[1] PROVE q[i] \in Items(Tail(q))
    <3>1. i - 1 \in 1..(Len(q) - 1)
      BY <1>0, <2>2
    <3>2. Tail(q)[i - 1] = q[i]
      BY <1>0, <1>1, <3>1
    <3>3. QED BY <1>1, <3>1, <3>2 DEF Items
  <2>3. QED BY <1>1, <2>1, <2>2 DEF Items
<1>4. Head(q) \in Items(q) /\ Head(q) \in Requests
  BY <1>0, <1>1 DEF Items
<1>5. \A s \in Items(q) : pr[s] <= pr[Head(q)]
  <2>1. ASSUME NEW i \in 1..Len(q) PROVE pr[q[i]] <= pr[q[1]]
    BY <1>0
  <2>2. QED BY <1>0, <1>1, <2>1 DEF Items
<1>6. \A i, j \in DOMAIN Tail(q) : Tail(q)[i] = Tail(q)[j] => i = j
  BY <1>0, <1>1, <1>2
<1>7. \A i, j \in DOMAIN Tail(q) : i < j => pr[Tail(q)[i]] >= pr[Tail(q)[j]]
  BY <1>0, <1>1, <1>2
<1>8. Items(Tail(q)) \cap (ex \cup {Head(q)}) = {}
  BY <1>3 DEF GoodQueue
<1>9. QED BY <1>1, <1>3, <1>4, <1>5, <1>6, <1>7, <1>8 DEF GoodQueue

-----------------------------------------------------------------------------
(* The invariant.                                                          *)

\* What a call of process() leaves behind, from whatever state its caller
\* made: the counter still counts, the queue is still good, and if anything
\* is still waiting then something is running or nothing may.
LEMMA ProcessKeeps ==
    ASSUME NEW q, NEW ex \in SUBSET Requests, NEW n \in Nat, NEW l \in Nat,
           NEW pr \in [Requests -> Int], GoodQueue(q, ex, pr),
           n = Cardinality(ex), Process(q, ex, n, l)
    PROVE  /\ GoodQueue(queue', executing', pr)
           /\ executing' \in SUBSET Requests
           /\ activeCount' \in Nat
           /\ activeCount' = Cardinality(executing')
           /\ queue' # <<>> => activeCount' > 0 \/ l = 0
<1>1. CASE n >= l \/ q = <<>>
  <2>1. \/ queue' = q /\ executing' = ex /\ activeCount' = n
        \/ n < l /\ q # <<>>
    BY DEF Process
  <2>2. queue' = q /\ executing' = ex /\ activeCount' = n
    BY <1>1, <2>1
  <2>3. QED BY <1>1, <2>2
<1>2. CASE n < l /\ q # <<>>
  <2>1. queue' = Tail(q) /\ executing' = ex \cup {Head(q)} /\ activeCount' = n + 1
    BY <1>2 DEF Process
  <2>2. GoodQueue(queue', executing', pr) /\ Head(q) \in Requests /\ Head(q) \notin ex
    BY <1>2, <2>1, TailGood DEF GoodQueue
  <2>3. Cardinality(ex \cup {Head(q)}) = n + 1
    <3>1. IsFiniteSet(ex)
      BY FS_Subset, QueueAssumption
    <3>2. QED BY <2>2, <3>1, FS_AddElement
  <2>4. QED BY <2>1, <2>2, <2>3
<1>3. QED BY <1>1, <1>2

\* A priority is an integer.
LEMMA PriorityIsInt ==
    ASSUME NEW g, NEW i
    PROVE  CalculatePriority(g, i) \in Int
<1>1. GroupWeight(g) \in Int
  <2>1. Weights \in [{"personal", "work", "team", "enterprise", "urgent"} -> Int]
    BY DEF Weights
  <2>2. QED BY <2>1 DEF GroupWeight
<1>2. Weights.urgent = 100
  BY DEF Weights
<1>3. QED BY <1>1, <1>2 DEF CalculatePriority

\* The invariant says that the queue is good and the counter counts.
LEMMA IInvGood ==
    IInv => /\ GoodQueue(queue, executing, priority)
            /\ executing \in SUBSET Requests
            /\ activeCount \in Nat
            /\ activeCount = Cardinality(executing)
            /\ concurrencyLimit \in Nat
            /\ priority \in [Requests -> Int]
BY DEF IInv, TypeOK, SlotsAccountedFor, Sorted, GoodQueue, Queued

\* Conversely, about the next state.
LEMMA GoodIInvPrime ==
    ASSUME GoodQueue(queue', executing', priority'),
           executing' \in SUBSET Requests,
           activeCount' \in Nat,
           activeCount' = Cardinality(executing'),
           concurrencyLimit' \in Nat,
           priority' \in [Requests -> Int],
           queue' # <<>> => activeCount' > 0 \/ concurrencyLimit' = 0
    PROVE  IInv'
BY DEF IInv, TypeOK, SlotsAccountedFor, Sorted, NoStall, GoodQueue, Queued, Items

\* The state an enqueue hands to process(): the new item is in its place.
LEMMA EnqueuedGood ==
    ASSUME IInv, NEW r \in Requests, r \notin Queued \cup executing,
           NEW n \in Int, NEW k \in 0..Len(queue),
           SortsAfter(queue, k, r, [priority EXCEPT ![r] = n])
    PROVE  GoodQueue(InsertAfter(queue, k, r), executing, [priority EXCEPT ![r] = n])
<1> DEFINE pr == [priority EXCEPT ![r] = n]
<1>1. pr \in [Requests -> Int]
  BY IInvGood
<1>2. GoodQueue(queue, executing, pr)
  <2>1. \A i \in DOMAIN queue : queue[i] # r /\ queue[i] \in Requests
    BY IInvGood DEF Queued, Items, GoodQueue
  <2>2. \A i \in DOMAIN queue : pr[queue[i]] = priority[queue[i]]
    BY <2>1, IInvGood
  <2>3. QED BY <2>2, IInvGood DEF GoodQueue
<1>3. QED BY <1>1, <1>2, InsertAfterGood DEF Queued

\* The state a settled task hands to process(): one slot fewer is taken.
LEMMA SettledGood ==
    ASSUME IInv, NEW r \in executing
    PROVE  /\ GoodQueue(queue, executing \ {r}, priority)
           /\ executing \ {r} \in SUBSET Requests
           /\ activeCount - 1 \in Nat
           /\ activeCount - 1 = Cardinality(executing \ {r})
<1>1. IsFiniteSet(executing)
  BY FS_Subset, QueueAssumption, IInvGood
<1>2. Cardinality(executing \ {r}) = Cardinality(executing) - 1
  BY <1>1, FS_RemoveElement
<1>3. Cardinality(executing \ {r}) \in Nat
  BY <1>1, FS_RemoveElement, FS_CardinalityType
<1>4. QED BY <1>2, <1>3, IInvGood DEF GoodQueue

\* Every step of the queue keeps the invariant.
LEMMA IInvInductive == IInv /\ [Next]_vars => IInv'
<1> SUFFICES ASSUME IInv, [Next]_vars PROVE IInv'
  OBVIOUS
<1>1. ASSUME NEW r \in Requests, NEW g \in Groups, NEW i \in Intents, Enqueue(r, g, i)
      PROVE  IInv'
  <2> DEFINE n == CalculatePriority(g, i)
  <2>1. PICK k \in 0..Len(queue) :
          /\ SortsAfter(queue, k, r, priority')
          /\ Process(InsertAfter(queue, k, r), executing, activeCount, concurrencyLimit)
    BY <1>1 DEF Enqueue
  <2>2. /\ r \notin Queued \cup executing
        /\ priority' = [priority EXCEPT ![r] = n]
        /\ concurrencyLimit' = concurrencyLimit
    BY <1>1 DEF Enqueue
  <2>3. n \in Int /\ priority' \in [Requests -> Int]
    BY <2>2, PriorityIsInt, IInvGood
  <2>4. GoodQueue(InsertAfter(queue, k, r), executing, priority')
    BY <2>1, <2>2, <2>3, EnqueuedGood
  <2>5. /\ GoodQueue(queue', executing', priority')
        /\ executing' \in SUBSET Requests
        /\ activeCount' \in Nat
        /\ activeCount' = Cardinality(executing')
        /\ queue' # <<>> => activeCount' > 0 \/ concurrencyLimit = 0
    BY <2>1, <2>3, <2>4, IInvGood, ProcessKeeps
  <2>6. concurrencyLimit' \in Nat /\ concurrencyLimit' = concurrencyLimit
    BY <2>2, IInvGood
  <2>7. QED BY <2>3, <2>5, <2>6, GoodIInvPrime
<1>2. ASSUME NEW r \in Requests, Settle(r) PROVE IInv'
  <2>1. /\ Process(queue, executing \ {r}, activeCount - 1, concurrencyLimit)
        /\ r \in executing
        /\ UNCHANGED <<concurrencyLimit, priority>>
    BY <1>2 DEF Settle
  <2>2. QED BY <2>1, SettledGood, IInvGood, ProcessKeeps, GoodIInvPrime
<1>3. ASSUME NEW l \in Limits, SetConcurrency(l) PROVE IInv'
  <2>1. l \in Nat
    BY QueueAssumption
  <2>2. QED BY <1>3, <2>1, IInvGood, ProcessKeeps, GoodIInvPrime DEF SetConcurrency
<1>4. CASE UNCHANGED vars
  BY <1>4 DEF vars, IInv, TypeOK, SlotsAccountedFor, Sorted, NoStall, Queued
<1>5. QED BY <1>1, <1>2, <1>3, <1>4 DEF Next

\* The empty queue satisfies it.
LEMMA IInvInit == Init => IInv
<1> SUFFICES ASSUME Init PROVE IInv
  OBVIOUS
<1>1. Cardinality({}) = 0
  BY FS_EmptySet
<1>2. QED
  BY <1>1, QueueAssumption
  DEF Init, IInv, TypeOK, SlotsAccountedFor, Sorted, NoStall, Queued, Items

\* The invariant holds in every state of the queue.
LEMMA QueueInvariant == Spec => []IInv
BY IInvInit, IInvInductive, PTL DEF Spec

\* A call of process() loses nobody: who waited still waits or has started, and
\* who was under way still is.
LEMMA ProcessMoves ==
    ASSUME NEW q, NEW ex \in SUBSET Requests, NEW n, NEW l,
           NEW pr \in [Requests -> Int], GoodQueue(q, ex, pr), Process(q, ex, n, l)
    PROVE  /\ ex \subseteq executing'
           /\ Queued' \cup executing' = Items(q) \cup ex
<1>1. CASE queue' = q /\ executing' = ex
  BY <1>1 DEF Queued, Items
<1>2. CASE q # <<>> /\ queue' = Tail(q) /\ executing' = ex \cup {Head(q)}
  <2>1. Queued' = Items(q) \ {Head(q)} /\ Head(q) \in Items(q)
    BY <1>2, TailGood DEF Queued, Items
  <2>2. QED BY <1>2, <2>1
<1>3. QED BY <1>1, <1>2 DEF Process

\* enqueue adds the request to those that wait or run, and stops no task.
LEMMA EnqueueMoves ==
    ASSUME IInv, NEW r \in Requests, NEW g, NEW i, Enqueue(r, g, i)
    PROVE  /\ r \notin Queued \cup executing
           /\ executing \subseteq executing'
           /\ Queued' \cup executing' = Queued \cup executing \cup {r}
<1> DEFINE n == CalculatePriority(g, i)
<1>1. PICK k \in 0..Len(queue) :
        /\ SortsAfter(queue, k, r, priority')
        /\ Process(InsertAfter(queue, k, r), executing, activeCount, concurrencyLimit)
  BY DEF Enqueue
<1>2. r \notin Queued \cup executing /\ priority' = [priority EXCEPT ![r] = n]
  BY DEF Enqueue
<1>3. n \in Int /\ priority' \in [Requests -> Int]
  BY <1>2, PriorityIsInt, IInvGood
<1>4. GoodQueue(InsertAfter(queue, k, r), executing, priority')
  BY <1>1, <1>2, <1>3, EnqueuedGood
<1>5. Items(InsertAfter(queue, k, r)) = Queued \cup {r}
  BY InsertAfterItems, IInvGood DEF GoodQueue, Queued
<1>6. /\ executing \subseteq executing'
      /\ Queued' \cup executing' = Items(InsertAfter(queue, k, r)) \cup executing
  BY <1>1, <1>3, <1>4, IInvGood, ProcessMoves
<1>7. QED BY <1>2, <1>5, <1>6

\* A task that settles leaves, and nobody else does.
LEMMA SettleMoves ==
    ASSUME IInv, NEW r \in Requests, Settle(r)
    PROVE  /\ r \in executing
           /\ executing \ {r} \subseteq executing'
           /\ Queued' \cup executing' = (Queued \cup executing) \ {r}
<1>1. r \in executing /\ Process(queue, executing \ {r}, activeCount - 1, concurrencyLimit)
  BY DEF Settle
<1>2. /\ executing \ {r} \subseteq executing'
      /\ Queued' \cup executing' = Items(queue) \cup (executing \ {r})
  BY <1>1, SettledGood, IInvGood, ProcessMoves
<1>3. r \notin Queued
  BY <1>1 DEF IInv, SlotsAccountedFor
<1>4. QED BY <1>1, <1>2, <1>3 DEF Queued

-----------------------------------------------------------------------------
(* The theorems.                                                           *)

\* Type correctness of the queue (src/src/lib/routing/queueManager.js).
THEOREM QueueTypeCorrect == Spec => []TypeOK
<1>1. IInv => TypeOK
  BY DEF IInv
<1>2. QED BY <1>1, QueueInvariant, PTL

\* For every limit and every number of requests: activeCount never drifts from
\* the number of tasks under way, and no request is started or queued twice.
THEOREM SlotsNeverLeak == Spec => []SlotsAccountedFor
<1>1. IInv => SlotsAccountedFor
  BY DEF IInv
<1>2. QED BY <1>1, QueueInvariant, PTL

\* No wakeup is ever lost, although process() starts one task a call and the
\* limit may change at any moment.
THEOREM NoLostWakeup == Spec => []NoStall
<1>1. IInv => NoStall
  BY DEF IInv
<1>2. QED BY <1>1, QueueInvariant, PTL

\* The queue is always in the order of its priorities.
THEOREM QueueSorted == Spec => []Sorted
<1>1. IInv => Sorted
  BY DEF IInv
<1>2. QED BY <1>1, QueueInvariant, PTL

-----------------------------------------------------------------------------
(* The order of arrival.                                                   *)

\* r is ahead of s in the sequence q.
AheadIn(q, r, s) == \E i, j \in DOMAIN q : i < j /\ q[i] = r /\ q[j] = s

\* An item put in between changes nobody's order.
LEMMA InsertKeepsOrder ==
    ASSUME NEW q \in Seq(Requests), NEW k \in 0..Len(q), NEW x \in Requests,
           NEW r, NEW s, AheadIn(q, r, s)
    PROVE  AheadIn(InsertAfter(q, k, x), r, s)
<1> DEFINE t == InsertAfter(q, k, x)
           place(i) == IF i <= k THEN i ELSE i + 1
<1>1. PICK i \in DOMAIN q, j \in DOMAIN q : i < j /\ q[i] = r /\ q[j] = s
  BY DEF AheadIn
<1>2. DOMAIN q = 1..Len(q) /\ DOMAIN t = 1..(Len(q) + 1) /\ Len(q) \in Nat
  BY InsertAfterShape
<1>3. ASSUME NEW m \in DOMAIN q
      PROVE  place(m) \in DOMAIN t /\ t[place(m)] = q[m]
  BY <1>2 DEF InsertAfter
<1>4. place(i) < place(j)
  BY <1>1, <1>2
<1> HIDE DEF t, place
<1>5. QED BY <1>1, <1>3, <1>4 DEF AheadIn, t

\* Who arrives with a priority that r has or exceeds is put behind r.
LEMMA InsertBehind ==
    ASSUME NEW q \in Seq(Requests), NEW k \in 0..Len(q), NEW x \in Requests,
           NEW pr \in [Requests -> Int], SortsAfter(q, k, x, pr),
           NEW r \in Items(q), pr[x] <= pr[r]
    PROVE  AheadIn(InsertAfter(q, k, x), r, x)
<1> DEFINE t == InsertAfter(q, k, x)
<1>1. PICK i \in DOMAIN q : q[i] = r
  BY DEF Items
<1>2. DOMAIN q = 1..Len(q) /\ DOMAIN t = 1..(Len(q) + 1) /\ Len(q) \in Nat
  BY InsertAfterShape
<1>3. pr[x] \in Int /\ pr[r] \in Int
  BY <1>1
<1>4. i <= k
  <2>1. SUFFICES ASSUME i > k PROVE FALSE
    BY <1>2
  <2>2. i \in (k + 1)..Len(q)
    BY <1>2, <2>1
  <2>3. pr[q[i]] < pr[x]
    BY <2>2 DEF SortsAfter
  <2>4. QED BY <1>1, <1>3, <2>3
<1>5. i \in DOMAIN t /\ k + 1 \in DOMAIN t /\ i < k + 1 /\ t[i] = r /\ t[k + 1] = x
  BY <1>1, <1>2, <1>4 DEF InsertAfter
<1>6. QED BY <1>5 DEF AheadIn

\* process() starts the head of the queue only: who is ahead starts first.
LEMMA ProcessKeepsOrder ==
    ASSUME NEW q \in Seq(Requests), NEW ex, NEW n, NEW l, Process(q, ex, n, l),
           NEW r, NEW s, AheadIn(q, r, s)
    PROVE  r \in executing' \/ AheadIn(queue', r, s)
<1>1. CASE queue' = q
  BY <1>1
<1>2. CASE q # <<>> /\ queue' = Tail(q) /\ executing' = ex \cup {Head(q)}
  <2>1. PICK i \in DOMAIN q, j \in DOMAIN q : i < j /\ q[i] = r /\ q[j] = s
    BY DEF AheadIn
  <2>2. /\ DOMAIN q = 1..Len(q)
        /\ Len(q) \in Nat
        /\ DOMAIN Tail(q) = 1..(Len(q) - 1)
        /\ \A m \in 1..(Len(q) - 1) : Tail(q)[m] = q[m + 1]
        /\ Head(q) = q[1]
    BY <1>2
  <2>3. CASE i = 1
    BY <1>2, <2>1, <2>2, <2>3
  <2>4. CASE i # 1
    <3>1. /\ i - 1 \in DOMAIN Tail(q) /\ Tail(q)[i - 1] = r
          /\ j - 1 \in DOMAIN Tail(q) /\ Tail(q)[j - 1] = s
          /\ i - 1 < j - 1
      BY <2>1, <2>2, <2>4
    <3>2. QED BY <1>2, <3>1 DEF AheadIn
  <2>5. QED BY <2>3, <2>4
<1>3. QED BY <1>1, <1>2 DEF Process

\* No request is overtaken by one that arrives later with the same or a lower
\* priority, whatever the limit does and however tasks end.
THEOREM ArrivalOrderKept == Spec => NoOvertaking
<1> DEFINE Kept == \A r \in Queued, s \in Requests :
                     Ahead(r, s) \/ ArrivesBehind(s, r) => r \in executing' \/ Ahead(r, s)'
<1>1. IInv /\ [Next]_vars => [Kept]_vars
  <2> SUFFICES ASSUME IInv, Next, NEW r \in Queued, NEW s \in Requests,
                      Ahead(r, s) \/ ArrivesBehind(s, r)
               PROVE  r \in executing' \/ AheadIn(queue', r, s)
    BY DEF Ahead, AheadIn
  <2>0. /\ queue \in Seq(Requests)
        /\ r \in Requests
        /\ Ahead(r, s) => AheadIn(queue, r, s)
    BY DEF IInv, TypeOK, Ahead, AheadIn, Queued, Items
  <2>1. ASSUME NEW x \in Requests, NEW g \in Groups, NEW i \in Intents, Enqueue(x, g, i)
        PROVE  r \in executing' \/ AheadIn(queue', r, s)
    <3> DEFINE n == CalculatePriority(g, i)
    <3>1. PICK k \in 0..Len(queue) :
            /\ SortsAfter(queue, k, x, priority')
            /\ Process(InsertAfter(queue, k, x), executing, activeCount, concurrencyLimit)
      BY <2>1 DEF Enqueue
    <3>2. x \notin Queued \cup executing /\ priority' = [priority EXCEPT ![x] = n]
      BY <2>1 DEF Enqueue
    <3>3. n \in Int /\ priority' \in [Requests -> Int] /\ priority'[r] = priority[r]
      BY <2>0, <3>2, PriorityIsInt, IInvGood
    <3>4. AheadIn(InsertAfter(queue, k, x), r, s)
      <4>1. CASE Ahead(r, s)
        BY <2>0, <4>1, InsertKeepsOrder
      <4>2. CASE ArrivesBehind(s, r)
        <5>1. s = x /\ priority'[x] <= priority'[r]
          BY <2>1, <3>3, <4>2, EnqueueMoves DEF ArrivesBehind
        <5>2. QED BY <2>0, <3>1, <3>3, <5>1, InsertBehind DEF Queued
      <4>3. QED BY <4>1, <4>2
    <3>5. InsertAfter(queue, k, x) \in Seq(Requests)
      BY <2>0, InsertAfterShape
    <3>6. QED BY <3>1, <3>4, <3>5, ProcessKeepsOrder
  <2>2. ASSUME NEW x \in Requests, Settle(x)
        PROVE  r \in executing' \/ AheadIn(queue', r, s)
    <3>1. Ahead(r, s)
      BY <2>2, SettleMoves DEF ArrivesBehind
    <3>2. Process(queue, executing \ {x}, activeCount - 1, concurrencyLimit)
      BY <2>2 DEF Settle
    <3>3. QED BY <2>0, <3>1, <3>2, ProcessKeepsOrder
  <2>3. ASSUME NEW l \in Limits, SetConcurrency(l)
        PROVE  r \in executing' \/ AheadIn(queue', r, s)
    <3>1. Process(queue, executing, activeCount, l)
      BY <2>3 DEF SetConcurrency
    <3>2. Queued' \cup executing' = Queued \cup executing
      BY <3>1, IInvGood, ProcessMoves DEF Queued
    <3>3. Ahead(r, s)
      BY <3>2 DEF ArrivesBehind
    <3>4. QED BY <2>0, <3>1, <3>3, ProcessKeepsOrder
  <2>4. QED BY <2>1, <2>2, <2>3 DEF Next
<1>2. QED BY <1>1, QueueInvariant, PTL DEF Spec, NoOvertaking

-----------------------------------------------------------------------------
(* The refinement of TaskPool.                                             *)

\* The pool counts its tasks with the same Cardinality.
LEMMA PoolCounts == ASSUME NEW S PROVE Pool!Cardinality(S) = Cardinality(S)
BY DEF Pool!Cardinality, Cardinality

\* A call of process() is a step of the pool's StartOne.
LEMMA ProcessIsStartOne ==
    ASSUME NEW q, NEW ex \in SUBSET Requests, NEW n \in Nat, NEW l \in Nat,
           NEW pr \in [Requests -> Int], GoodQueue(q, ex, pr),
           n = Cardinality(ex), Process(q, ex, n, l)
    PROVE  Pool!StartOne(Items(q), ex, l, pr)
<1>1. CASE queue' = q /\ executing' = ex /\ (n >= l \/ q = <<>>)
  <2>1. Queued' = Items(q)
    BY <1>1 DEF Queued, Items
  <2>2. q = <<>> => Items(q) = {}
    BY DEF Items
  <2>3. QED BY <1>1, <2>1, <2>2, PoolCounts DEF Pool!StartOne
<1>2. CASE n < l /\ q # <<>> /\ queue' = Tail(q) /\ executing' = ex \cup {Head(q)}
  <2>1. Queued' = Items(q) \ {Head(q)}
    BY <1>2, TailGood DEF Queued, Items
  <2>2. Head(q) \in Items(q) /\ \A s \in Items(q) : pr[s] <= pr[Head(q)]
    BY <1>2, TailGood
  <2>3. QED BY <1>2, <2>1, <2>2, PoolCounts DEF Pool!StartOne
<1>3. QED BY <1>1, <1>2 DEF Process

\* Every step of the queue is a step of the pool or leaves the pool unchanged.
LEMMA StepImplementsPool == IInv /\ [Next]_vars => [Pool!Next]_(Pool!vars)
<1> SUFFICES ASSUME IInv, [Next]_vars PROVE [Pool!Next]_(Pool!vars)
  OBVIOUS
<1>1. ASSUME NEW r \in Requests, NEW g \in Groups, NEW i \in Intents, Enqueue(r, g, i)
      PROVE  Pool!Next
  <2> DEFINE n == CalculatePriority(g, i)
  <2>1. PICK k \in 0..Len(queue) :
          /\ SortsAfter(queue, k, r, priority')
          /\ Process(InsertAfter(queue, k, r), executing, activeCount, concurrencyLimit)
    BY <1>1 DEF Enqueue
  <2>2. /\ r \notin Queued \cup executing
        /\ priority' = [priority EXCEPT ![r] = n]
        /\ concurrencyLimit' = concurrencyLimit
    BY <1>1 DEF Enqueue
  <2>3. n \in Int /\ priority' \in [Requests -> Int]
    BY <2>2, PriorityIsInt, IInvGood
  <2>4. GoodQueue(InsertAfter(queue, k, r), executing, priority')
    BY <2>1, <2>2, <2>3, EnqueuedGood
  <2>5. Items(InsertAfter(queue, k, r)) = Queued \cup {r}
    BY InsertAfterItems, IInvGood DEF GoodQueue, Queued
  <2>6. Pool!StartOne(Queued \cup {r}, executing, concurrencyLimit, priority')
    BY <2>1, <2>3, <2>4, <2>5, IInvGood, ProcessIsStartOne
  <2>7. n \in PriorityValues \cup {0}
    BY DEF PriorityValues
  <2>8. Pool!Submit(r, n)
    BY <2>2, <2>6 DEF Pool!Submit
  <2>9. QED BY <2>7, <2>8 DEF Pool!Next
<1>2. ASSUME NEW r \in Requests, Settle(r) PROVE Pool!Next
  <2>1. /\ Process(queue, executing \ {r}, activeCount - 1, concurrencyLimit)
        /\ r \in executing
        /\ UNCHANGED <<concurrencyLimit, priority>>
    BY <1>2 DEF Settle
  <2>2. Pool!StartOne(Queued, executing \ {r}, concurrencyLimit, priority)
    BY <2>1, SettledGood, IInvGood, ProcessIsStartOne DEF Queued
  <2>3. Pool!Finish(r)
    BY <2>1, <2>2 DEF Pool!Finish
  <2>4. QED BY <2>3 DEF Pool!Next
<1>3. ASSUME NEW l \in Limits, SetConcurrency(l) PROVE Pool!Next
  <2>1. l \in Nat
    BY QueueAssumption
  <2>2. Pool!StartOne(Queued, executing, l, priority)
    BY <1>3, <2>1, IInvGood, ProcessIsStartOne DEF SetConcurrency, Queued
  <2>3. Pool!Resize(l)
    BY <1>3, <2>2 DEF SetConcurrency, Pool!Resize
  <2>4. QED BY <2>3 DEF Pool!Next
<1>4. CASE UNCHANGED vars
  BY <1>4 DEF vars, Pool!vars, Queued, Items
<1>5. QED BY <1>1, <1>2, <1>3, <1>4 DEF Next

\* The queue implements the abstract pool: its sorted sequence and its counter
\* behave as a set of waiting tasks, a set of running tasks and a limit.
THEOREM QueueImplementsPool == Spec => ImplementsPool
<1>1. Init => Pool!Init
  BY DEF Init, Pool!Init, Queued, Items
<1>2. QED
  BY <1>1, QueueInvariant, StepImplementsPool, PTL DEF Spec, ImplementsPool, Pool!Spec
=============================================================================
