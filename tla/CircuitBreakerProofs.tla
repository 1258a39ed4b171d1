------------------------ MODULE CircuitBreakerProofs ------------------------
(***************************************************************************)
(* Proofs about CircuitBreaker for every set of providers and calls, every *)
(* threshold and every cooldown.  The inductive invariant is the           *)
(* conjunction of the three invariants: FailuresMatchState needs the type  *)
(* of the counter and of the state, nothing else.                          *)
(***************************************************************************)
EXTENDS CircuitBreaker, WellFoundedInduction, TLAPS

\* What an entry must satisfy, whichever provider it belongs to.
GoodEntry(e) ==
    /\ e \in Entry
    /\ (e.state = "closed") <=> (e.failures < Threshold)
    /\ e.state = "halfOpen" => e.elapsed = Cooldown

IInv ==
    /\ TypeOK
    /\ FailuresMatchState
    /\ HalfOpenAfterCooldown

\* A fresh entry is good.
LEMMA NewEntryGood == GoodEntry(NewEntry)
BY EntryAssumption DEF GoodEntry, NewEntry, Entry

\* isAvailable keeps an entry good: it only moves an open entry on when the
\* cooldown is over.
LEMMA ConsultedGood ==
    ASSUME NEW e, GoodEntry(e)
    PROVE  GoodEntry(Consulted(e))
BY EntryAssumption DEF GoodEntry, Consulted, Entry

\* recordFailure keeps an entry good: it opens exactly when the counter
\* reaches the threshold, and a half-open entry is already past it.
LEMMA FailedGood ==
    ASSUME NEW e, GoodEntry(e)
    PROVE  GoodEntry(Failed(e))
<1>1. OneMore(e.failures) \in 0..MaxFailures /\ OneMore(e.failures) >= e.failures
  BY EntryAssumption DEF GoodEntry, Entry, OneMore
<1>2. CASE Trips(e)
  <2>1. OneMore(e.failures) >= Threshold
    BY <1>1, <1>2, EntryAssumption DEF GoodEntry, Entry, Trips
  <2>2. QED
    BY <1>1, <1>2, <2>1, EntryAssumption DEF GoodEntry, Entry, Failed
<1>3. CASE ~Trips(e)
  <2>1. Failed(e) = [e EXCEPT !.failures = OneMore(e.failures)]
    BY <1>3 DEF Failed
  <2>2. e.state = "closed" => OneMore(e.failures) < Threshold
    BY <1>1, <1>3, EntryAssumption DEF Trips
  <2>3. QED
    BY <1>1, <1>3, <2>1, <2>2, EntryAssumption DEF GoodEntry, Entry, Trips
<1>4. QED BY <1>2, <1>3

\* A tick keeps an entry good: an entry that ages is not half open yet at
\* less than the cooldown.
LEMMA AgedGood ==
    ASSUME NEW e, GoodEntry(e)
    PROVE  GoodEntry(Aged(e))
BY EntryAssumption DEF GoodEntry, Aged, Entry

\* The invariant, entry by entry.
LEMMA IInvByEntry ==
    IInv <=> /\ circuit = [p \in Providers |-> circuit[p]]
             /\ \A p \in Providers : GoodEntry(circuit[p])
             /\ flight \in [Calls -> Providers \cup {None}]
BY DEF IInv, TypeOK, FailuresMatchState, HalfOpenAfterCooldown, GoodEntry

\* The same lemma about the next state.
LEMMA IInvByEntryPrime ==
    IInv' <=> /\ circuit' = [p \in Providers |-> circuit'[p]]
              /\ \A p \in Providers : GoodEntry(circuit'[p])
              /\ flight' \in [Calls -> Providers \cup {None}]
BY DEF IInv, TypeOK, FailuresMatchState, HalfOpenAfterCooldown, GoodEntry

\* Every step of the breaker and of its callers keeps the invariant.
LEMMA IInvInductive == IInv /\ [Next]_vars => IInv'
<1> SUFFICES ASSUME IInv, [Next]_vars PROVE IInv'
  OBVIOUS
<1>0. /\ circuit = [p \in Providers |-> circuit[p]]
      /\ \A p \in Providers : GoodEntry(circuit[p])
      /\ flight \in [Calls -> Providers \cup {None}]
  BY IInvByEntry
<1>1. ASSUME NEW asked, Filter(asked) PROVE IInv'
  <2>1. \A p \in Providers : GoodEntry(circuit'[p])
    BY <1>0, <1>1, ConsultedGood DEF Filter
  <2>2. QED BY <1>1, <2>1, IInvByEntryPrime DEF Filter
<1>a. ASSUME NEW q \in Providers, NEW e, GoodEntry(e),
             circuit' = [circuit EXCEPT ![q] = e]
      PROVE  /\ circuit' = [p \in Providers |-> circuit'[p]]
             /\ \A p \in Providers : GoodEntry(circuit'[p])
  BY <1>0, <1>a
<1>2. ASSUME NEW c \in Calls, Succeed(c) PROVE IInv'
  <2>1. flight[c] \in Providers
    BY <1>0, <1>2 DEF Succeed
  <2>2. QED
    BY <1>0, <1>2, <1>a, <2>1, NewEntryGood, IInvByEntryPrime DEF Succeed, Succeeded
<1>3. ASSUME NEW c \in Calls, Fail(c) PROVE IInv'
  <2>1. flight[c] \in Providers
    BY <1>0, <1>3 DEF Fail
  <2>2. QED
    BY <1>0, <1>3, <1>a, <2>1, FailedGood, IInvByEntryPrime DEF Fail
<1>4. CASE Abandon
  BY <1>0, <1>4, IInvByEntryPrime DEF Abandon
<1>5. ASSUME NEW ps, Reset(ps) PROVE IInv'
  BY <1>0, <1>5, NewEntryGood, IInvByEntryPrime DEF Reset
<1>6. CASE Restart
  BY <1>0, <1>6, NewEntryGood, IInvByEntryPrime DEF Restart
<1>7. CASE Tick
  BY <1>0, <1>7, AgedGood, IInvByEntryPrime DEF Tick
<1>8. CASE UNCHANGED vars
  BY <1>0, <1>8, IInvByEntryPrime DEF vars
<1>9. QED
  BY <1>1, <1>2, <1>3, <1>4, <1>5, <1>6, <1>7, <1>8 DEF Next

\* The invariant holds in every state the breaker reaches.
LEMMA BreakerInvariant == Spec => []IInv
<1>1. Init => IInv
  BY NewEntryGood, IInvByEntry DEF Init
<1>2. QED
  BY <1>1, IInvInductive, PTL DEF Spec

\* Type correctness of the breaker (src/src/lib/circuitBreaker.js): an entry
\* always has one of the three states and counters within their ranges.
THEOREM BreakerTypeCorrect == Spec => []TypeOK
<1>1. IInv => TypeOK
  BY DEF IInv
<1>2. QED BY <1>1, BreakerInvariant, PTL

\* For every threshold, and however overlapping calls report, a circuit is
\* closed exactly when it has counted fewer failures than the threshold.
THEOREM ThresholdDecides == Spec => []FailuresMatchState
<1>1. IInv => FailuresMatchState
  BY DEF IInv
<1>2. QED BY <1>1, BreakerInvariant, PTL

\* For every cooldown, no circuit goes half open before it is over.
THEOREM CooldownObserved == Spec => []HalfOpenAfterCooldown
<1>1. IInv => HalfOpenAfterCooldown
  BY DEF IInv
<1>2. QED BY <1>1, BreakerInvariant, PTL

\* An open circuit drains: no step admits a candidate for its provider and
\* leaves the circuit open.
THEOREM OpenCircuitDrains == Spec => OpenDrains
<1> DEFINE Drains == \A p \in Providers :
                       circuit[p].state = "open" /\ circuit'[p].state = "open"
                         => InFlight(p)' \subseteq InFlight(p)
<1>1. IInv /\ [Next]_vars => [Drains]_vars
  <2> SUFFICES ASSUME IInv, Next, NEW p \in Providers,
                      circuit[p].state = "open", circuit'[p].state = "open",
                      NEW d \in Calls, flight'[d] = p
               PROVE  flight[d] = p
    BY DEF InFlight
  <2>0. /\ \A q \in Providers : circuit[q] \in Entry
        /\ circuit \in [Providers -> Entry]
        /\ flight \in [Calls -> Providers \cup {None}]
    BY DEF IInv, TypeOK
  <2>1. ASSUME NEW asked, Filter(asked) PROVE flight[d] = p
    <3>1. CASE flight[d] # p
      <4>1. p \in asked /\ Allowed(circuit[p])
        BY <2>1, <3>1 DEF Filter
      <4>2. circuit'[p] = Consulted(circuit[p])
        BY <2>1, <4>1 DEF Filter
      <4>3. circuit'[p].state = "halfOpen"
        BY <2>0, <4>1, <4>2 DEF Allowed, Consulted, Entry
      <4>4. QED BY <4>3
    <3>2. QED BY <3>1
  <2>2. ASSUME NEW c \in Calls, Succeed(c) \/ Fail(c) PROVE flight[d] = p
    BY <2>0, <2>2, BreakerAssumption DEF Succeed, Fail
  <2>3. CASE Abandon
    BY <2>3, BreakerAssumption DEF Abandon
  <2>4. ASSUME NEW ps, Reset(ps) PROVE flight[d] = p
    BY <2>4 DEF Reset
  <2>5. CASE Restart
    BY <2>5, BreakerAssumption DEF Restart
  <2>6. CASE Tick
    BY <2>6 DEF Tick
  <2>7. QED BY <2>1, <2>2, <2>3, <2>4, <2>5, <2>6 DEF Next
<1>2. QED BY <1>1, BreakerInvariant, PTL DEF Spec, OpenDrains

\* Late failures never restart a running cooldown.
THEOREM CooldownRunsOut == Spec => CooldownNeverRestarts
<1> DEFINE Runs == \A p \in Providers :
                     circuit[p].state = "open" /\ circuit'[p].state = "open"
                       => circuit'[p].elapsed >= circuit[p].elapsed
<1>1. IInv /\ [Next]_vars => [Runs]_vars
  <2> SUFFICES ASSUME IInv, Next, NEW p \in Providers,
                      circuit[p].state = "open", circuit'[p].state = "open"
               PROVE  circuit'[p].elapsed >= circuit[p].elapsed
    OBVIOUS
  <2>0. /\ circuit[p] \in Entry
        /\ circuit \in [Providers -> Entry]
        /\ flight \in [Calls -> Providers \cup {None}]
        /\ circuit[p].elapsed \in Int
    BY EntryAssumption DEF IInv, TypeOK, Entry
  <2>1. ASSUME NEW asked, Filter(asked)
        PROVE  circuit'[p].elapsed >= circuit[p].elapsed
    BY <2>0, <2>1 DEF Filter, Consulted, Entry
  <2>2. ASSUME NEW c \in Calls, Succeed(c)
        PROVE  circuit'[p].elapsed >= circuit[p].elapsed
    BY <2>0, <2>2 DEF Succeed, Succeeded, NewEntry
  <2>3. ASSUME NEW c \in Calls, Fail(c)
        PROVE  circuit'[p].elapsed >= circuit[p].elapsed
    BY <2>0, <2>3 DEF Fail, Failed, Trips, Entry
  <2>4. CASE Abandon
    BY <2>0, <2>4 DEF Abandon
  <2>5. ASSUME NEW ps, Reset(ps)
        PROVE  circuit'[p].elapsed >= circuit[p].elapsed
    BY <2>0, <2>5 DEF Reset, NewEntry
  <2>6. CASE Restart
    BY <2>6 DEF Restart, NewEntry
  <2>7. CASE Tick
    BY <2>0, <2>7 DEF Tick, Aged, Entry
  <2>8. QED BY <2>1, <2>2, <2>3, <2>4, <2>5, <2>6, <2>7 DEF Next
<1>2. QED BY <1>1, BreakerInvariant, PTL DEF Spec, CooldownNeverRestarts

-----------------------------------------------------------------------------
(* The filter over a list of candidates.  It is defined by recursion on    *)
(* the prefixes of the list: the proofs look at the shortest prefix for    *)
(* which a claim would be false.                                           *)

\* A set of numbers that is not empty has a least one.
LEMMA LeastNumber ==
    ASSUME NEW T \in SUBSET Nat, T # {}
    PROVE  \E m \in T : \A n \in T : m <= n
<1> DEFINE R == OpToRel(<, Nat)
<1>1. \A x, y \in Nat : y < x => <<y, x>> \in R
  BY DEF OpToRel
<1>2. IsWellFoundedOn(R, Nat)
  BY NatLessThanWellFounded
<1> HIDE DEF R
<1>3. PICK m \in T : \A n \in T : ~ (<<n, m>> \in R)
  BY <1>2, WFMin, Zenon
<1>4. \A n \in T : ~ (n < m)
  BY <1>1, <1>3
<1>5. QED BY <1>4

\* f[n] is what is picked of the first n elements of a list, if the elements at
\* the positions in K are.
Picking(f, list, K, m) ==
    f = [n \in 0..m |->
          IF n = 0 THEN <<>>
          ELSE IF n \in K THEN Append(f[n - 1], list[n])
          ELSE f[n - 1]]

\* The recursion defines a function for every length of the list.
LEMMA PickingExists ==
    ASSUME NEW list, NEW K
    PROVE  \A m \in Nat : \E f : Picking(f, list, K, m)
<1> DEFINE T == {m \in Nat : ~ \E f : Picking(f, list, K, m)}
<1>1. SUFFICES ASSUME T # {} PROVE FALSE
  OBVIOUS
<1>2. PICK m \in T : \A n \in T : m <= n
  BY <1>1, LeastNumber
<1>3. m # 0
  <2> DEFINE f == [n \in 0..0 |-> <<>>]
  <2>1. Picking(f, list, K, 0)
    BY DEF Picking
  <2>2. QED BY <2>1
<1>4. PICK f : Picking(f, list, K, m - 1)
  BY <1>2, <1>3
<1> DEFINE x == IF m \in K THEN Append(f[m - 1], list[m]) ELSE f[m - 1]
           g == [n \in 0..m |-> IF n = m THEN x ELSE f[n]]
<1>5. m \in Nat /\ m >= 1
  BY <1>3
<1>6. \A n \in 0..(m - 1) :
        f[n] = IF n = 0 THEN <<>>
               ELSE IF n \in K THEN Append(f[n - 1], list[n])
               ELSE f[n - 1]
  BY <1>4, <1>5 DEF Picking
<1>7. \A n \in 0..m :
        g[n] = IF n = 0 THEN <<>>
               ELSE IF n \in K THEN Append(g[n - 1], list[n])
               ELSE g[n - 1]
  <2> SUFFICES ASSUME NEW n \in 0..m
               PROVE  g[n] = IF n = 0 THEN <<>>
                             ELSE IF n \in K THEN Append(g[n - 1], list[n])
                             ELSE g[n - 1]
    OBVIOUS
  <2>1. CASE n = m
    <3>1. g[n] = x /\ g[n - 1] = f[m - 1] /\ n # 0
      BY <1>5, <2>1
    <3>2. QED BY <2>1, <3>1
  <2>2. CASE n = 0
    BY <1>5, <1>6, <2>2
  <2>3. CASE n # m /\ n # 0
    <3>1. g[n] = f[n] /\ g[n - 1] = f[n - 1] /\ n \in 0..(m - 1)
      BY <1>5, <2>3
    <3>2. QED BY <1>6, <2>3, <3>1
  <2>4. QED BY <2>1, <2>2, <2>3
<1>8. Picking(g, list, K, m)
  <2> HIDE DEF x
  <2>1. g = [n \in 0..m |-> g[n]]
    OBVIOUS
  <2> HIDE DEF g
  <2>2. QED BY <1>7, <2>1 DEF Picking
<1>9. QED BY <1>8

\* What is picked of a prefix does not depend on what comes after it.
LEMMA PickingAgrees ==
    ASSUME NEW f, NEW g, NEW a, NEW b, NEW J, NEW K, NEW m \in Nat, NEW k \in Nat, m <= k,
           Picking(f, a, J, m), Picking(g, b, K, k),
           \A n \in 1..m : a[n] = b[n] /\ (n \in J <=> n \in K)
    PROVE  f[m] = g[m]
<1> DEFINE T == {n \in 0..m : f[n] # g[n]}
<1>1. SUFFICES ASSUME T # {} PROVE FALSE
  OBVIOUS
<1>2. PICK n \in T : \A i \in T : n <= i
  <2>1. T \in SUBSET Nat
    OBVIOUS
  <2>2. QED BY <1>1, <2>1, LeastNumber
<1>3. /\ f[n] = IF n = 0 THEN <<>> ELSE IF n \in J THEN Append(f[n - 1], a[n]) ELSE f[n - 1]
      /\ g[n] = IF n = 0 THEN <<>> ELSE IF n \in K THEN Append(g[n - 1], b[n]) ELSE g[n - 1]
  <2>1. n \in 0..m /\ n \in 0..k
    OBVIOUS
  <2>2. QED BY <2>1 DEF Picking
<1>4. CASE n = 0
  BY <1>3, <1>4
<1>5. CASE n # 0
  <2>1. n \in 1..m /\ n - 1 \in 0..m /\ ~ (n <= n - 1)
    BY <1>5
  <2>2. f[n - 1] = g[n - 1]
    BY <1>2, <2>1
  <2>3. QED BY <1>3, <1>5, <2>1, <2>2
<1>6. QED BY <1>4, <1>5

\* What is picked is made of what is in the list.
LEMMA PickingTyped ==
    ASSUME NEW f, NEW list, NEW K, NEW S, NEW m \in Nat, Picking(f, list, K, m),
           \A n \in 1..m : n \in K => list[n] \in S
    PROVE  f[m] \in Seq(S)
<1> DEFINE T == {n \in 0..m : f[n] \notin Seq(S)}
<1>1. SUFFICES ASSUME T # {} PROVE FALSE
  OBVIOUS
<1>2. PICK n \in T : \A i \in T : n <= i
  <2>1. T \in SUBSET Nat
    OBVIOUS
  <2>2. QED BY <1>1, <2>1, LeastNumber
<1>3. f[n] = IF n = 0 THEN <<>> ELSE IF n \in K THEN Append(f[n - 1], list[n]) ELSE f[n - 1]
  BY DEF Picking
<1>4. f[n] \notin Seq(S) /\ n \in 0..m
  OBVIOUS
<1> HIDE DEF T
<1>5. CASE n = 0
  <2>1. f[n] = <<>>
    BY <1>3, <1>5
  <2>2. QED BY <1>4, <2>1
<1>6. CASE n # 0
  <2>1. n \in 1..m
    BY <1>4, <1>6
  <2>2. f[n - 1] \in Seq(S)
    BY <1>2, <2>1 DEF T
  <2>3. f[n] = IF n \in K THEN Append(f[n - 1], list[n]) ELSE f[n - 1]
    BY <1>3, <1>6
  <2>4. CASE n \in K
    <3>1. list[n] \in S /\ f[n] = Append(f[n - 1], list[n])
      BY <2>1, <2>3, <2>4
    <3>2. QED BY <1>4, <2>2, <3>1
  <2>5. CASE n \notin K
    BY <1>4, <2>2, <2>3, <2>5
  <2>6. QED BY <2>4, <2>5
<1>7. QED BY <1>5, <1>6

\* f[n] is what the filter has let through of the first n candidates.
Filtering(f, list, entries, m) ==
    f = [n \in 0..m |->
          IF n = 0 THEN <<>>
          ELSE IF Allowed(entries[list[n]]) THEN Append(f[n - 1], list[n])
          ELSE f[n - 1]]

\* It picks the candidates whose entries let them through.
LEMMA FilteringExists ==
    ASSUME NEW list, NEW entries
    PROVE  \A m \in Nat : \E f : Filtering(f, list, entries, m)
<1> SUFFICES ASSUME NEW m \in Nat PROVE \E f : Filtering(f, list, entries, m)
  OBVIOUS
<1> DEFINE K == {n \in Nat : Allowed(entries[list[n]])}
<1>1. PICK f : Picking(f, list, K, m)
  BY PickingExists
<1>2. \A n \in 0..m : n \in K <=> Allowed(entries[list[n]])
  OBVIOUS
<1> HIDE DEF K
<1>3. Filtering(f, list, entries, m)
  BY <1>1, <1>2 DEF Picking, Filtering
<1>4. QED BY <1>3

\* What passes the filter is a list of candidates no longer than the one that
\* was filtered, each of them from it and let through by its entry.
LEMMA AdmittedOnly ==
    ASSUME NEW list \in Seq(Providers), NEW entries
    PROVE  /\ LetThrough(list, entries) \in Seq(Providers)
           /\ Len(LetThrough(list, entries)) <= Len(list)
           /\ \A i \in 1..Len(LetThrough(list, entries)) :
                /\ Allowed(entries[LetThrough(list, entries)[i]])
                /\ \E j \in 1..Len(list) : LetThrough(list, entries)[i] = list[j]
<1> DEFINE L == Len(list)
           f == CHOOSE g : Filtering(g, list, entries, L)
<1>1. L \in Nat
  OBVIOUS
<1>2. Filtering(f, list, entries, L)
  BY <1>1, FilteringExists
<1>3. LetThrough(list, entries) = f[L]
  BY DEF LetThrough, Filtering
<1> DEFINE Fine(n) ==
      /\ f[n] \in Seq(Providers)
      /\ Len(f[n]) <= n
      /\ \A i \in 1..Len(f[n]) :
           /\ Allowed(entries[f[n][i]])
           /\ \E j \in 1..L : f[n][i] = list[j]
<1> HIDE DEF f
<1>4. ASSUME NEW n \in 1..L, Fine(n - 1) PROVE Fine(n)
  <2> DEFINE before == f[n - 1]
  <2>1. f[n] = IF Allowed(entries[list[n]]) THEN Append(before, list[n]) ELSE before
    <3>1. n \in 0..L /\ n # 0
      BY <1>1
    <3>2. QED BY <1>2, <3>1 DEF Filtering
  <2>2. /\ before \in Seq(Providers) /\ Len(before) <= n - 1 /\ Len(before) \in Nat
        /\ list[n] \in Providers
    BY <1>4
  <2>3. CASE Allowed(entries[list[n]])
    <3>1. f[n] = Append(before, list[n])
      BY <2>1, <2>3
    <3>2. f[n] \in Seq(Providers) /\ Len(f[n]) = Len(before) + 1
      BY <2>2, <3>1
    <3>3. ASSUME NEW i \in 1..Len(f[n])
          PROVE  Allowed(entries[f[n][i]]) /\ \E j \in 1..L : f[n][i] = list[j]
      <4>1. CASE i = Len(before) + 1
        <5>1. f[n][i] = list[n]
          BY <2>2, <3>1, <4>1
        <5>2. QED BY <2>3, <5>1
      <4>2. CASE i # Len(before) + 1
        <5>1. i \in 1..Len(before) /\ f[n][i] = before[i]
          BY <2>2, <3>1, <3>2, <4>2
        <5>2. QED BY <1>4, <5>1
      <4>3. QED BY <4>1, <4>2
    <3>4. QED BY <2>2, <3>2, <3>3
  <2>4. CASE ~Allowed(entries[list[n]])
    <3>1. f[n] = before
      BY <2>1, <2>4
    <3>2. QED BY <1>4, <2>2, <3>1
  <2>5. QED BY <2>3, <2>4
<1>5. Fine(0)
  <2>1. f[0] = <<>>
    BY <1>1, <1>2 DEF Filtering
  <2>2. QED BY <2>1
<1>6. \A n \in 0..L : Fine(n)
  <2> DEFINE T == {n \in 0..L : ~Fine(n)}
  <2>1. SUFFICES ASSUME T # {} PROVE FALSE
    OBVIOUS
  <2> HIDE DEF Fine
  <2>2. PICK m \in T : \A n \in T : m <= n
    <3>1. T \in SUBSET Nat
      BY <1>1
    <3>2. QED BY <2>1, <3>1, LeastNumber
  <2>3. m \in 1..L
    BY <1>1, <1>5
  <2>4. Fine(m - 1)
    BY <1>1, <2>2, <2>3
  <2>5. QED BY <1>4, <2>3, <2>4
<1>7. QED BY <1>1, <1>3, <1>6
=============================================================================
