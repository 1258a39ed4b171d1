------------------------- MODULE ModelHealthProofs -------------------------
(***************************************************************************)
(* The safety invariants of ModelHealth hold for every set of models,      *)
(* calls and sweeps, every threshold and every backoff schedule.           *)
(*                                                                         *)
(* All of them say something of one row at a time, so the argument is      *)
(* about rows: RowOK, with the number of torn failures as its parameter,   *)
(* is kept by every statement of modelHealth.js.                           *)
(***************************************************************************)
EXTENDS ModelHealth, TLAPS

RowOK(r, n) ==
    /\ r \in Row
    /\ IF r.degraded THEN r.failures >= Threshold ELSE r.failures < Threshold + n
    /\ r.tier > 0 => r.degraded /\ r.failures >= Threshold + r.tier
    /\ r.wait <= IF r.degraded THEN Backoff[r.tier] ELSE 0

Inv ==
    /\ TypeOK
    /\ \A m \in Models : RowOK(row[m], torn)

\* The parts of the assumption that the steps about rows need ...
LEMMA Numbers ==
    /\ Threshold \in Nat /\ Threshold > 0
    /\ MaxTier \in Nat
    /\ \A t \in 0..MaxTier : Backoff[t] \in Nat
    /\ MaxFailures \in Nat /\ MaxTorn \in Nat
    /\ MaxFailures >= Threshold + MaxTier
    /\ MaxFailures >= Threshold + MaxTorn
BY HealthAssumption

\* ... and those that the steps of the prober need.
LEMMA Names ==
    /\ None \notin Models
    /\ Local \subseteq Models
    /\ NodeRow \in [Local -> Local]
    /\ MaxTorn \in Nat
BY HealthAssumption

LEMMA NewRowOK ==
    ASSUME NEW n \in Nat
    PROVE  RowOK(NewRow, n)
BY Numbers DEF RowOK, NewRow, Row

LEMMA EscalatedOK ==
    ASSUME NEW c \in Row, NEW n \in Nat, c.degraded,
           c.failures >= Threshold,
           c.failures > Threshold + c.tier \/ c.failures = MaxFailures
    PROVE  RowOK(Escalated(c), n)
<1> USE Numbers DEF RowOK, Row
<1> DEFINE t == IF c.tier < MaxTier THEN c.tier + 1 ELSE MaxTier
<1>1. t \in 0..MaxTier /\ Backoff[t] \in Nat /\ c.failures >= Threshold + t
  OBVIOUS
<1>2. Escalated(c) = [c EXCEPT !.tier = t, !.wait = Backoff[t]]
  BY DEF Escalated
<1> HIDE DEF t
<1>3. /\ Escalated(c).degraded /\ Escalated(c).failures = c.failures
      /\ Escalated(c).tier = t /\ Escalated(c).wait = Backoff[t]
  BY <1>2
<1>4. Escalated(c) \in Row
  BY <1>1, <1>2
<1> QED
  BY <1>1, <1>3, <1>4

LEMMA MarkedOK ==
    ASSUME NEW c \in Row, NEW n \in Nat, c.failures >= Threshold
    PROVE  RowOK(Marked(c), n)
<1>1. Backoff[0] \in Nat /\ 0 \in 0..MaxTier
  BY Numbers
<1>2. /\ Marked(c).degraded /\ Marked(c).failures = c.failures
      /\ Marked(c).tier = 0 /\ Marked(c).wait = Backoff[0]
  BY DEF Marked, Row
<1>3. Marked(c) \in Row
  BY <1>1 DEF Marked, Row
<1> QED
  BY <1>1, <1>2, <1>3 DEF RowOK

\* One complete recordModelFailure keeps a row in order.
LEMMA FailedOK ==
    ASSUME NEW r, NEW n \in 0..MaxTorn, RowOK(r, n)
    PROVE  RowOK(Failed(r), n)
<1> DEFINE c == Counted(r)
<1>1. /\ c \in Row
      /\ c.degraded = r.degraded /\ c.tier = r.tier /\ c.wait = r.wait
      /\ c.failures > r.failures \/ c.failures = MaxFailures
      /\ c.failures >= r.failures
  BY Numbers DEF Counted, RowOK, Row
<1>2. CASE r.degraded
  <2>1. c.failures >= Threshold
    BY <1>1, <1>2, Numbers DEF RowOK, Row
  <2>2. c.failures > Threshold + c.tier \/ c.failures = MaxFailures
    BY <1>1, <1>2, Numbers DEF RowOK, Row
  <2>3. Failed(r) = Escalated(c)
    BY <1>2 DEF Failed
  <2> QED
    <3>1. n \in Nat /\ c \in Row /\ c.degraded
      BY <1>1, <1>2, Numbers
    <3> HIDE DEF c
    <3>2. RowOK(Escalated(c), n)
      BY <2>1, <2>2, <3>1, EscalatedOK
    <3> QED
      BY <2>3, <3>2
<1>3. CASE ~r.degraded /\ c.failures >= Threshold
  <2>1. Failed(r) = Marked(c)
    BY <1>3 DEF Failed
  <2> QED
    BY <1>1, <1>3, <2>1, MarkedOK
<1>4. CASE ~r.degraded /\ ~(c.failures >= Threshold)
  <2>1. Failed(r) = c
    BY <1>4 DEF Failed
  <2> QED
    BY <1>1, <1>4, <2>1, Numbers DEF RowOK, Row
<1> QED
  BY <1>2, <1>3, <1>4

\* A failure cut short by a crash keeps it too, with one more torn failure.
LEMMA CountedOK ==
    ASSUME NEW r, NEW n \in 0..MaxTorn, n < MaxTorn, RowOK(r, n)
    PROVE  RowOK(Counted(r), n + 1)
<1> USE Numbers DEF RowOK, Row
<1> DEFINE k == IF r.failures < MaxFailures THEN r.failures + 1 ELSE r.failures
<1>1. Counted(r) = [r EXCEPT !.failures = k]
  BY DEF Counted
<1>2. k \in 0..MaxFailures /\ k >= r.failures /\ k <= r.failures + 1
  OBVIOUS
<1> QED
  BY <1>1, <1>2

LEMMA TornAllows ==
    ASSUME NEW r, NEW n \in Nat, RowOK(r, n)
    PROVE  RowOK(r, n + 1)
BY Numbers DEF RowOK, Row

LEMMA AgedOK ==
    ASSUME NEW r, NEW n \in Nat, RowOK(r, n)
    PROVE  RowOK(Aged(r), n)
<1> USE Numbers DEF RowOK, Row
<1> DEFINE w == IF r.wait > 0 THEN r.wait - 1 ELSE 0
<1>1. w \in Nat /\ w <= r.wait
  OBVIOUS
<1>2. Aged(r) = [r EXCEPT !.wait = w]
  BY DEF Aged
<1>3. r.degraded => Backoff[r.tier] \in Nat
  OBVIOUS
<1> QED
  BY <1>1, <1>2, <1>3

\* A probe's outcome reaches one row.
LEMMA RowReplaced ==
    ASSUME NEW m \in Models, NEW r, RowOK(r, torn),
           row \in [Models -> Row], \A x \in Models : RowOK(row[x], torn),
           row' = [row EXCEPT ![m] = r], torn' = torn
    PROVE  /\ row' \in [Models -> Row]
           /\ \A x \in Models : RowOK(row'[x], torn')
<1>1. r \in Row
  BY DEF RowOK
<1> QED
  BY <1>1

LEMMA InvInit == Init => Inv
<1> SUFFICES ASSUME Init PROVE Inv
  OBVIOUS
<1> USE Names DEF Init
<1>1. 0 \in Nat /\ RowOK(NewRow, 0) /\ NewRow \in Row
  BY NewRowOK DEF RowOK
<1>2. Idle \in SweepType
  BY DEF Idle, SweepType
<1> QED
  BY <1>1, <1>2 DEF Inv, TypeOK

LEMMA InvNext == Inv /\ [Next]_vars => Inv'
<1> SUFFICES ASSUME Inv, [Next]_vars PROVE Inv'
  OBVIOUS
<1> USE Names
<1>1. /\ row \in [Models -> Row]
      /\ call \in [Calls -> Models \cup {None}]
      /\ sweep \in [Sweeps -> SweepType]
      /\ torn \in 0..MaxTorn
      /\ \A m \in Models : RowOK(row[m], torn)
  BY DEF Inv, TypeOK
<1>2. Idle \in SweepType
  BY DEF Idle, SweepType
<1>3. ASSUME NEW c \in Calls, NEW m \in Models, Send(c, m) PROVE Inv'
  BY <1>1, <1>3 DEF Send, Inv, TypeOK
<1>4. ASSUME NEW c \in Calls, RequestSucceeds(c) PROVE Inv'
  <2>1. call[c] \in Models /\ row' = [row EXCEPT ![call[c]] = NewRow]
    BY <1>1, <1>4 DEF RequestSucceeds, Succeeded
  <2>2. RowOK(NewRow, torn)
    BY <1>1, NewRowOK
  <2>3. row' \in [Models -> Row] /\ \A x \in Models : RowOK(row'[x], torn')
    BY <1>1, <1>4, <2>1, <2>2, RowReplaced DEF RequestSucceeds
  <2> QED
    BY <1>1, <1>4, <2>3 DEF RequestSucceeds, Inv, TypeOK
<1>5. ASSUME NEW c \in Calls, RequestFails(c) PROVE Inv'
  <2>1. /\ call[c] \in Models
        /\ row' = [row EXCEPT ![call[c]] = Failed(row[call[c]])]
    BY <1>1, <1>5 DEF RequestFails
  <2>2. RowOK(Failed(row[call[c]]), torn)
    BY <1>1, <2>1, FailedOK
  <2>3. row' \in [Models -> Row] /\ \A x \in Models : RowOK(row'[x], torn')
    BY <1>1, <1>5, <2>1, <2>2, RowReplaced DEF RequestFails
  <2> QED
    BY <1>1, <1>5, <2>3 DEF RequestFails, Inv, TypeOK
<1>6. ASSUME NEW c \in Calls, RequestLost(c) PROVE Inv'
  BY <1>1, <1>6 DEF RequestLost, Inv, TypeOK
<1>7. ASSUME NEW s \in Sweeps, Begin(s) PROVE Inv'
  <2>1. {m \in Local : WindowOpen(row[m])} \in SUBSET Local
    OBVIOUS
  <2> QED
    BY <1>1, <1>7, <2>1 DEF Begin, SweepType, Inv, TypeOK
<1>8. ASSUME NEW s \in Sweeps, NEW m \in Local, Recover(s, m) PROVE Inv'
  BY <1>1, <1>8 DEF Recover, SweepType, Inv, TypeOK
<1>9. ASSUME NEW s \in Sweeps, NEW m \in Local, Check(s, m) PROVE Inv'
  BY <1>1, <1>9 DEF Check, SweepType, Inv, TypeOK
<1>10. ASSUME NEW s \in Sweeps, ProbeSucceeds(s) \/ ProbeFails(s) PROVE Inv'
  <2> DEFINE name == Recorded(s)
  <2>1. sweep[s].probing \in Local /\ name \in Models
    BY <1>1, <1>10 DEF ProbeSucceeds, ProbeFails, Probed, Recorded, SweepType
  <2>2. PICK r : /\ r = NewRow \/ r = Failed(row[name])
                 /\ row' = [row EXCEPT ![name] = r]
    BY <1>10 DEF ProbeSucceeds, ProbeFails, Probed, Succeeded
  <2>3. RowOK(r, torn)
    BY <1>1, <2>1, <2>2, NewRowOK, FailedOK
  <2>4. /\ call' = call /\ torn' = torn
        /\ sweep' = [t \in Sweeps |->
                       [sweep[t] EXCEPT !.due = @ \ {name},
                                        !.probing = IF t = s THEN None ELSE @]]
    BY <1>10 DEF ProbeSucceeds, ProbeFails, Probed
  <2>5. row' \in [Models -> Row] /\ \A x \in Models : RowOK(row'[x], torn')
    BY <1>1, <2>1, <2>2, <2>3, <2>4, RowReplaced
  <2>6. sweep' \in [Sweeps -> SweepType]
    BY <1>1, <2>4 DEF SweepType
  <2> QED
    BY <1>1, <2>4, <2>5, <2>6 DEF Inv, TypeOK
<1>11. ASSUME NEW s \in Sweeps, Finish(s) PROVE Inv'
  BY <1>1, <1>2, <1>11 DEF Finish, Inv, TypeOK
<1>12. ASSUME Restart PROVE Inv'
  BY <1>1, <1>2, <1>12 DEF Restart, Died, Inv, TypeOK
<1>13. ASSUME NEW m \in Models, Crash(m) PROVE Inv'
  <2>1. torn < MaxTorn /\ torn' = torn + 1 /\ torn' \in 0..MaxTorn
    BY <1>1, <1>13 DEF Crash
  <2>2. RowOK(Counted(row[m]), torn')
    BY <1>1, <2>1, CountedOK
  <2>3. row' = [row EXCEPT ![m] = Counted(row[m])] /\ Counted(row[m]) \in Row
    BY <1>13, <2>2 DEF Crash, RowOK
  <2>4. \A x \in Models : RowOK(row[x], torn')
    BY <1>1, <2>1, TornAllows
  <2>5. row' \in [Models -> Row] /\ \A x \in Models : RowOK(row'[x], torn')
    BY <1>1, <2>2, <2>3, <2>4
  <2> QED
    BY <1>1, <1>2, <1>13, <2>1, <2>5 DEF Crash, Died, Inv, TypeOK
<1>14. ASSUME Tick PROVE Inv'
  <2>1. \A x \in Models : RowOK(Aged(row[x]), torn)
    BY <1>1, AgedOK
  <2>2. row' \in [Models -> Row] /\ \A x \in Models : RowOK(row'[x], torn')
    BY <1>14, <2>1 DEF Tick, RowOK
  <2> QED
    BY <1>1, <1>14, <2>2 DEF Tick, Inv, TypeOK
<1>15. ASSUME UNCHANGED vars PROVE Inv'
  BY <1>1, <1>15 DEF vars, Inv, TypeOK
<1> QED
  BY <1>3, <1>4, <1>5, <1>6, <1>7, <1>8, <1>9, <1>10, <1>11, <1>12, <1>13,
     <1>14, <1>15 DEF Next

LEMMA InvHolds == Spec => []Inv
BY InvInit, InvNext, PTL DEF Spec

\* The state of the tracker, the prober and the requests is well typed.
THEOREM HealthTypeCorrect == Spec => []TypeOK
<1>1. Inv => TypeOK
  BY DEF Inv
<1> QED
  BY <1>1, InvHolds, PTL

\* recordModelFailure is not a transaction, and yet a model is degraded
\* exactly when it failed Threshold times in a row, up to the failures a crash
\* cut short.
THEOREM DegradationExact == Spec => []DegradedAtThreshold
<1>1. Inv => DegradedAtThreshold
  BY DEF Inv, RowOK, DegradedAtThreshold
<1> QED
  BY <1>1, InvHolds, PTL

\* No tier without a failure of its own since the degradation.
THEOREM TiersEarned == Spec => []TierEarned
<1>1. Inv => TierEarned
  BY DEF Inv, RowOK, TierEarned
<1> QED
  BY <1>1, InvHolds, PTL

\* The ceiling in the SQL and the delay computed in the code never disagree.
THEOREM BackoffWithinTier == Spec => []HeldForItsTier
<1>1. Inv => HeldForItsTier
  BY DEF Inv, RowOK, HeldForItsTier
<1> QED
  BY <1>1, InvHolds, PTL
=============================================================================
