--------------------------- MODULE CircuitBreaker ---------------------------
(***************************************************************************)
(* The per-provider circuit breaker of src/src/lib/circuitBreaker.js, with *)
(* the callers that consult it and report to it.                           *)
(*                                                                         *)
(* The breaker is a process-wide Map from provider to an entry.  Its       *)
(* functions are synchronous, so each call is one atomic step, and so is   *)
(* one pass of a caller's filter over a list of candidates; between the    *)
(* pass that admits a candidate and the call that reports its outcome the  *)
(* event loop runs any number of other requests.                           *)
(***************************************************************************)
EXTENDS BreakerEntry, FiniteSets

CONSTANTS
    Providers,    \* provider ids
    Calls,        \* slots for admitted candidates
    None          \* "no candidate in the slot"

ASSUME BreakerAssumption == None \notin Providers

VARIABLES
    circuit,   \* circuit[p]: the entry of provider p
    flight     \* flight[c]: the provider of the candidate admitted into
               \* slot c whose outcome is still to come, or None

vars == <<circuit, flight>>

InFlight(p) == {c \in Calls : flight[c] = p}

-----------------------------------------------------------------------------
Init ==
    /\ circuit = [p \in Providers |-> NewEntry]
    /\ flight = [c \in Calls |-> None]

\* isAvailable is asked about the providers in asked, and some candidates for
\* those that were allowed go ahead, each in a free slot.  A caller may drop
\* an allowed candidate.
Filter(asked) ==
    /\ circuit' = [p \in Providers |->
                     IF p \in asked THEN Consulted(circuit[p]) ELSE circuit[p]]
    /\ flight' \in [Calls -> Providers \cup {None}]
    /\ \A c \in Calls :
         flight'[c] # flight[c] => /\ flight[c] = None
                                   /\ flight'[c] \in asked
                                   /\ Allowed(circuit[flight'[c]])

\* recordSuccess is called for the candidate in c.  The candidate may go on,
\* storing what it learnt, and still end with a failure.
Succeed(c) ==
    /\ flight[c] # None
    /\ circuit' = [circuit EXCEPT ![flight[c]] = Succeeded(@)]
    /\ flight' \in {flight, [flight EXCEPT ![c] = None]}

\* The candidate in c ends and recordFailure is called for its provider.
Fail(c) ==
    /\ flight[c] # None
    /\ circuit' = [circuit EXCEPT ![flight[c]] = Failed(@)]
    /\ flight' = [flight EXCEPT ![c] = None]

\* Some candidates end and nobody reports: a client error, an aborted batch
\* candidate, an exception on the way, a list served before its end.
Abandon ==
    /\ flight' \in [Calls -> Providers \cup {None}]
    /\ \A c \in Calls : flight'[c] \in {flight[c], None}
    /\ UNCHANGED circuit

\* Faulty: the entries are deleted and not made again.
ResetDeleting(ps) ==
    /\ circuit' = [p \in Providers \ ps |-> circuit[p]]
    /\ UNCHANGED flight

\* reset(provider), or reset() of them all: the entries are deleted and the
\* next call makes new ones.
Reset(ps) ==
    /\ circuit' = [p \in Providers |-> IF p \in ps THEN NewEntry ELSE circuit[p]]
    /\ UNCHANGED flight

\* The process restarts: the Map and the candidates in flight are gone.
Restart ==
    /\ circuit' = [p \in Providers |-> NewEntry]
    /\ flight' = [c \in Calls |-> None]

Tick ==
    /\ circuit' = [p \in Providers |-> Aged(circuit[p])]
    /\ UNCHANGED flight

Next ==
    \/ \E asked \in SUBSET Providers : Filter(asked)
    \/ \E c \in Calls : Succeed(c) \/ Fail(c)
    \/ Abandon
    \/ \E ps \in {{p} : p \in Providers} \cup {Providers} : Reset(ps)
    \/ Restart
    \/ Tick

Spec == Init /\ [][Next]_vars

-----------------------------------------------------------------------------
(* Fairness: the clock runs; requests for every provider keep arriving and *)
(* a provider that can answer does not answer with client errors only.     *)
AdmitTo(p) == Filter({p}) /\ \E c \in Calls : flight[c] = None /\ flight'[c] = p
SucceedOn(p) == \E c \in Calls : flight[c] = p /\ Succeed(c)
FailOn(p) == \E c \in Calls : flight[c] = p /\ Fail(c)

FairSpec ==
    /\ Spec
    /\ WF_vars(Tick)
    /\ \A p \in Providers : SF_vars(AdmitTo(p)) /\ SF_vars(SucceedOn(p))

-----------------------------------------------------------------------------
(* Properties.                                                             *)

TypeOK ==
    /\ circuit \in [Providers -> Entry]
    /\ flight \in [Calls -> Providers \cup {None}]

\* The counter and the state agree, whatever the order in which overlapping
\* calls report: a closed circuit has fewer than Threshold failures since the
\* last success, an open or half-open one has at least that many.
FailuresMatchState ==
    \A p \in Providers :
        (circuit[p].state = "closed") <=> (circuit[p].failures < Threshold)

\* A circuit is half open only when the whole cooldown has passed since it
\* opened, also when late failures were reported in between.
HalfOpenAfterCooldown ==
    \A p \in Providers :
        circuit[p].state = "halfOpen" => circuit[p].elapsed = Cooldown

\* While a circuit stays open no candidate for its provider is admitted: those
\* in flight can only become fewer.
OpenDrains ==
    [][\A p \in Providers :
         circuit[p].state = "open" /\ circuit'[p].state = "open"
           => InFlight(p)' \subseteq InFlight(p)]_vars

\* Failures reported late, by candidates admitted before the circuit opened,
\* do not restart the cooldown of a circuit that is already open.
CooldownNeverRestarts ==
    [][\A p \in Providers :
         circuit[p].state = "open" /\ circuit'[p].state = "open"
           => circuit'[p].elapsed >= circuit[p].elapsed]_vars

\* A provider that stops failing is taken back for good: the breaker never
\* wedges open or half open, however it got there.
Recovers ==
    \A p \in Providers :
        <>[][~FailOn(p)]_vars => <>[](circuit[p].state = "closed")
=============================================================================
