--------------------------- MODULE CircuitProbes ----------------------------
(***************************************************************************)
(* CircuitBreaker with a history variable, the candidates in flight that   *)
(* were admitted while the circuit was half open.  The breaker keeps no    *)
(* such record, which is the point.  Every filter pass here admits one     *)
(* candidate at most, so that two slots are two concurrent requests.       *)
(***************************************************************************)
EXTENDS CircuitBreaker

VARIABLE probes   \* slots of candidates admitted as probes

Admitted == {c \in Calls : flight[c] = None /\ flight'[c] # None}

ProbeInit == Init /\ probes = {}

ProbeNext ==
    /\ Next
    /\ Cardinality(Admitted) <= 1
    /\ probes' = {c \in probes : flight'[c] # None}
                   \cup {c \in Admitted : circuit'[flight'[c]].state = "halfOpen"}

ProbeSpec == ProbeInit /\ [][ProbeNext]_<<vars, probes>>

\* "halfOpen (allow one probe)", src/src/lib/circuitBreaker.js:3: while a
\* circuit is half open at most one probe is in flight to its provider.
OneProbe ==
    \A p \in Providers :
        circuit[p].state = "halfOpen" => Cardinality(InFlight(p) \cap probes) <= 1
=============================================================================
