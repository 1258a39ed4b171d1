---------------------------- MODULE ModelHealth ----------------------------
(***************************************************************************)
(* The degradation tracker of src/src/lib/modelHealth.js, the requests     *)
(* that report to it (src/src/sse/services/orchestrator.js) and the prober *)
(* that probes the models it holds back (src/src/lib/modelProber.js).      *)
(*                                                                         *)
(* The tracker is a table with one row per provider and model; rows        *)
(* survive a crash, calls and probes do not.  Its functions are            *)
(* synchronous, but a failure is recorded by two statements outside any    *)
(* transaction: the counter first, the degradation after it.  A prober     *)
(* sweep awaits each probe, and a new sweep starts every five minutes      *)
(* whether or not the last one has ended.                                  *)
(*                                                                         *)
(* next_probe_at is kept as the ticks still to pass.  The health probes of *)
(* a sweep skip the models probed or used in the last half hour; any model *)
(* may be skipped here, and those times, with TTFT, are left out.          *)
(***************************************************************************)
EXTENDS Integers, FiniteSets

CONSTANTS
    Models,        \* rows: provider and model id as the requests name them
    Local,         \* the rows for which a sweep finds a local node
    NodeRow,       \* NodeRow[m]: the row under which a probe of m is recorded
    Calls,         \* slots for requests in flight
    Sweeps,        \* prober sweeps that may overlap
    None,          \* no model
    Threshold,     \* DEGRADE_THRESHOLD
    MaxTier,       \* BACKOFF_MS.length - 1
    Backoff,       \* BACKOFF_MS, in ticks
    MaxFailures,   \* where the failure counter saturates in the model
    MaxTorn        \* bound on crashes inside recordModelFailure

ASSUME HealthAssumption ==
    /\ None \notin Models
    /\ Local \subseteq Models
    /\ NodeRow \in [Local -> Local]
    /\ \A m \in Local : NodeRow[NodeRow[m]] = NodeRow[m]
    /\ Threshold \in Nat \ {0}
    /\ MaxTier \in Nat
    /\ Backoff \in [0..MaxTier -> Nat \ {0}]
    /\ MaxTorn \in Nat
    /\ MaxFailures \in Nat
    /\ MaxFailures >= Threshold + MaxTier
    /\ MaxFailures >= Threshold + MaxTorn

VARIABLES
    row,      \* row[m]: the row of m in model_health
    call,     \* call[c]: the model that the request in c was sent to
    sweep,    \* sweep[s]: what sweep s still has to do
    torn      \* failures cut short by a crash so far

vars == <<row, call, sweep, torn>>

Row == [degraded : BOOLEAN, failures : 0..MaxFailures,
        tier : 0..MaxTier, wait : Nat]

\* The row of a model that never failed; a missing row reads the same.
NewRow == [degraded |-> FALSE, failures |-> 0, tier |-> 0, wait |-> 0]

\* probeWindowOpen of getDegradedModels.
WindowOpen(r) == r.degraded /\ r.wait = 0

\* The models a local node is named after.
Named == {m \in Local : NodeRow[m] = m}

\* A sweep that is not running; todo is what is left of its snapshot of
\* degraded models, due the local models it has not reached yet.
Idle == [running |-> FALSE, todo |-> {}, due |-> {}, probing |-> None]

-----------------------------------------------------------------------------
(* The statements of modelHealth.js.                                       *)

\* upsertFail.
Counted(r) ==
    [r EXCEPT !.failures = IF @ < MaxFailures THEN @ + 1 ELSE @]

\* markDegraded.
Marked(r) == [r EXCEPT !.degraded = TRUE, !.tier = 0, !.wait = Backoff[0]]

\* Faulty: no ceiling on the tier.
EscalatedUncapped(r) ==
    LET top == IF r.tier < MaxTier THEN r.tier + 1 ELSE MaxTier
    IN  [r EXCEPT !.tier = @ + 1, !.wait = Backoff[top]]

\* Faulty: the delay is computed for the top tier, not for the one stored.
EscalatedTooFar(r) ==
    [r EXCEPT !.tier = IF @ < MaxTier THEN @ + 1 ELSE @, !.wait = Backoff[MaxTier]]

\* escalateBackoff, whose MIN agrees with the delay computed by the caller.
Escalated(r) ==
    LET next == IF r.tier < MaxTier THEN r.tier + 1 ELSE MaxTier
    IN  [r EXCEPT !.tier = next, !.wait = Backoff[next]]

\* recordModelFailure, both statements.
Failed(r) ==
    LET counted == Counted(r)
    IN  IF r.degraded THEN Escalated(counted)
        ELSE IF counted.failures >= Threshold THEN Marked(counted)
        ELSE counted

\* Faulty: the conflict clause forgets consecutive_failures.
SucceededKeepingCount(r) == [NewRow EXCEPT !.failures = r.failures]

\* Faulty: the conflict clause forgets backoff_tier.
SucceededKeepingTier(r) == [NewRow EXCEPT !.tier = r.tier]

\* Faulty: the conflict clause forgets degraded.
SucceededStillDegraded(r) == [NewRow EXCEPT !.degraded = r.degraded]

\* recordModelSuccess.
Succeeded(r) == NewRow

Aged(r) == [r EXCEPT !.wait = IF @ > 0 THEN @ - 1 ELSE 0]

-----------------------------------------------------------------------------
Init ==
    /\ row = [m \in Models |-> NewRow]
    /\ call = [c \in Calls |-> None]
    /\ sweep = [s \in Sweeps |-> Idle]
    /\ torn = 0

\* A request is sent to m.  Nothing on the way asks isModelDegraded: only
\* buildFailoverChain does, and no request builds that chain.
Send(c, m) ==
    /\ call[c] = None
    /\ call' = [call EXCEPT ![c] = m]
    /\ UNCHANGED <<row, sweep, torn>>

RequestSucceeds(c) ==
    /\ call[c] # None
    /\ row' = [row EXCEPT ![call[c]] = Succeeded(@)]
    /\ call' = [call EXCEPT ![c] = None]
    /\ UNCHANGED <<sweep, torn>>

\* A 4xx, or the failure that makes the orchestrator leave the candidate.
RequestFails(c) ==
    /\ call[c] # None
    /\ row' = [row EXCEPT ![call[c]] = Failed(@)]
    /\ call' = [call EXCEPT ![c] = None]
    /\ UNCHANGED <<sweep, torn>>

\* The request ends in an exception, or was part of a batch: no report.
RequestLost(c) ==
    /\ call[c] # None
    /\ call' = [call EXCEPT ![c] = None]
    /\ UNCHANGED <<row, sweep, torn>>

\* The interval timer starts runProbes, which takes its snapshot.
Begin(s) ==
    /\ ~sweep[s].running
    /\ sweep' = [sweep EXCEPT ![s] =
                   [running |-> TRUE,
                    todo |-> {m \in Local : WindowOpen(row[m])},
                    due |-> Named,
                    probing |-> None]]
    /\ UNCHANGED <<row, call, torn>>

\* The recovery loop takes the next model of the snapshot.
Recover(s, m) ==
    /\ sweep[s].probing = None
    /\ m \in sweep[s].todo
    /\ sweep' = [sweep EXCEPT ![s].todo = @ \ {m}, ![s].probing = m]
    /\ UNCHANGED <<row, call, torn>>

\* After the recovery loop, a health probe of a model that is due for one.
Check(s, m) ==
    /\ sweep[s].probing = None
    /\ sweep[s].todo = {}
    /\ m \in sweep[s].due
    /\ sweep' = [sweep EXCEPT ![s].due = @ \ {m}, ![s].probing = m]
    /\ UNCHANGED <<row, call, torn>>

\* The row under which the probe under way in s is recorded: its node's name.
Recorded(s) == NodeRow[sweep[s].probing]

\* A probe ends with r in its row, and sets lastHealthProbe, so that no sweep
\* under way probes the model again.
Probed(s, r) ==
    /\ sweep[s].probing # None
    /\ row' = [row EXCEPT ![Recorded(s)] = r]
    /\ sweep' = [t \in Sweeps |->
                   [sweep[t] EXCEPT !.due = @ \ {Recorded(s)},
                                    !.probing = IF t = s THEN None ELSE @]]
    /\ UNCHANGED <<call, torn>>

ProbeSucceeds(s) == Probed(s, Succeeded(row[Recorded(s)]))

ProbeFails(s) == Probed(s, Failed(row[Recorded(s)]))

\* The sweep ends, having skipped the models that were not due, and those a
\* node did not list.
Finish(s) ==
    /\ sweep[s].running
    /\ sweep[s].probing = None
    /\ sweep[s].todo = {}
    /\ sweep' = [sweep EXCEPT ![s] = Idle]
    /\ UNCHANGED <<row, call, torn>>

Died ==
    /\ call' = [c \in Calls |-> None]
    /\ sweep' = [s \in Sweeps |-> Idle]

\* The process restarts: the table stays.
Restart ==
    /\ Died
    /\ UNCHANGED <<row, torn>>

\* The process dies between the two statements of recordModelFailure.
Crash(m) ==
    /\ torn < MaxTorn
    /\ \/ \E c \in Calls : call[c] = m
       \/ \E s \in Sweeps : sweep[s].probing # None /\ Recorded(s) = m
    /\ Died
    /\ row' = [row EXCEPT ![m] = Counted(@)]
    /\ torn' = torn + 1

Tick ==
    /\ row' = [m \in Models |-> Aged(row[m])]
    /\ UNCHANGED <<call, sweep, torn>>

Next ==
    \/ \E c \in Calls :
         \/ \E m \in Models : Send(c, m)
         \/ RequestSucceeds(c) \/ RequestFails(c) \/ RequestLost(c)
    \/ \E s \in Sweeps :
         \/ Begin(s) \/ Finish(s) \/ ProbeSucceeds(s) \/ ProbeFails(s)
         \/ \E m \in Local : Recover(s, m) \/ Check(s, m)
    \/ Restart
    \/ \E m \in Models : Crash(m)
    \/ Tick

Spec == Init /\ [][Next]_vars

-----------------------------------------------------------------------------
(* Fairness: the clock and the interval timer run, a sweep works through   *)
(* its snapshot, and a probe of a node that can answer succeeds now and    *)
(* then.                                                                   *)
ProbeHeals(s, m) == sweep[s].probing = m /\ ProbeSucceeds(s)

FailureOf(m) ==
    \/ \E c \in Calls : call[c] = m /\ RequestFails(c)
    \/ \E s \in Sweeps : /\ sweep[s].probing # None
                         /\ Recorded(s) = m
                         /\ ProbeFails(s)

FairSpec ==
    /\ Spec
    /\ WF_vars(Tick)
    /\ \A s \in Sweeps :
         /\ WF_vars(Begin(s))
         /\ WF_vars(Finish(s))
         /\ \A m \in Local : SF_vars(Recover(s, m)) /\ SF_vars(ProbeHeals(s, m))

-----------------------------------------------------------------------------
(* Properties.                                                             *)

SweepType ==
    [running : BOOLEAN, todo : SUBSET Local, due : SUBSET Named,
     probing : Local \cup {None}]

TypeOK ==
    /\ row \in [Models -> Row]
    /\ call \in [Calls -> Models \cup {None}]
    /\ sweep \in [Sweeps -> SweepType]
    /\ torn \in 0..MaxTorn

\* The two statements of recordModelFailure agree although no transaction
\* joins them: a degraded model has failed at least Threshold times in a row,
\* and one that is not degraded fewer, but for the failures a crash cut short.
DegradedAtThreshold ==
    \A m \in Models :
        IF row[m].degraded THEN row[m].failures >= Threshold
        ELSE row[m].failures < Threshold + torn

\* Every tier was earned by a failure of its own after the degradation, in
\* whatever order requests and probes of several sweeps report: a model never
\* carries a tier over from an earlier degradation.
TierEarned ==
    \A m \in Models :
        row[m].tier > 0 => /\ row[m].degraded
                           /\ row[m].failures >= Threshold + row[m].tier

\* No model is held back for longer than the delay of its own tier, and one
\* that is not degraded is not held back.
HeldForItsTier ==
    \A m \in Models :
        row[m].wait <= IF row[m].degraded THEN Backoff[row[m].tier] ELSE 0

\* A degraded local model that stops failing is healthy again, without any
\* request to it: sweeps keep finding its window open until a probe succeeds.
HealsWithoutTraffic ==
    \A m \in Named :
        <>[][~FailureOf(m)]_vars => <>[](~row[m].degraded)

-----------------------------------------------------------------------------
(* What a comment says and the code does not.                              *)

\* "A recovery probe either clears degraded state (success) or escalates the
\* backoff tier (failure)": after it the model is not waiting to be probed.
ProbeDecides ==
    [][\A s \in Sweeps :
         LET m == sweep[s].probing
         IN  m # None /\ (ProbeSucceeds(s) \/ ProbeFails(s))
               => ~WindowOpen(row'[m])]_vars
=============================================================================
