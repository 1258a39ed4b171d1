---------------------------- MODULE BreakerEntry ----------------------------
(***************************************************************************)
(* One entry of the circuit breaker of src/src/lib/circuitBreaker.js and   *)
(* what each of its functions does to it.                                  *)
(*                                                                         *)
(* The code stores absolute times (openedAt) and only ever compares        *)
(* now - openedAt with cooldownMs, so an entry keeps that difference, in   *)
(* ticks and saturated at Cooldown.  lastFailureAt, halfOpenProbeAt and    *)
(* probeAfterMs are written and never read by a decision: left out.        *)
(***************************************************************************)
EXTENDS Integers, Sequences

CONSTANTS
    Threshold,    \* DEFAULT_FAILURE_THRESHOLD
    Cooldown,     \* DEFAULT_COOLDOWN_MS, in ticks
    MaxFailures   \* where the failure counter saturates in the model

ASSUME EntryAssumption ==
    /\ Threshold \in Nat \ {0}
    /\ Cooldown \in Nat
    /\ MaxFailures \in Nat
    /\ MaxFailures >= Threshold

Entry == [state : {"closed", "open", "halfOpen"},
          failures : 0..MaxFailures,
          elapsed : 0..Cooldown]

\* The entry getOrCreate makes for a provider nobody has asked about.
NewEntry == [state |-> "closed", failures |-> 0, elapsed |-> 0]

\* Faulty: one tick short of the cooldown.
AllowedEarly(e) == e.state = "open" => e.elapsed + 1 >= Cooldown

\* Faulty: a half-open circuit admits nothing.
AllowedClosed(e) == e.state = "closed"

\* What isAvailable answers.
Allowed(e) == e.state = "open" => e.elapsed >= Cooldown

\* Faulty: half open one tick short of the cooldown.
ConsultedEarly(e) ==
    IF e.state = "open" /\ e.elapsed + 1 >= Cooldown
    THEN [e EXCEPT !.state = "halfOpen"]
    ELSE e

\* What isAvailable leaves behind: an open entry past its cooldown goes half
\* open, whether or not the caller then sends anything.
Consulted(e) ==
    IF e.state = "open" /\ e.elapsed >= Cooldown
    THEN [e EXCEPT !.state = "halfOpen"]
    ELSE e

\* A list of candidates filtered by isAvailable: in their order, those whose
\* entry lets them through.
LetThrough(list, entries) ==
    LET upTo[n \in 0..Len(list)] ==
          IF n = 0 THEN <<>>
          ELSE IF Allowed(entries[list[n]]) THEN Append(upTo[n - 1], list[n])
          ELSE upTo[n - 1]
    IN upTo[Len(list)]

\* Faulty: the counter is not cleared.
SucceededKeepingCount(e) == [NewEntry EXCEPT !.failures = e.failures]

\* recordSuccess: closed from any state, every counter cleared.
Succeeded(e) == NewEntry

\* The failure counter, saturated.
OneMore(n) == IF n < MaxFailures THEN n + 1 ELSE n

\* recordFailure trips a half-open entry at once and a closed one at the
\* threshold; it only counts on an open one, whose openedAt stays.
Trips(e) ==
    \/ e.state = "halfOpen"
    \/ e.state = "closed" /\ OneMore(e.failures) >= Threshold

\* Faulty: a failure on an open entry sets openedAt again.
FailedRestarting(e) ==
    IF Trips(e) \/ e.state = "open"
    THEN [state |-> "open", failures |-> OneMore(e.failures), elapsed |-> 0]
    ELSE [e EXCEPT !.failures = OneMore(@)]

Failed(e) ==
    IF Trips(e)
    THEN [state |-> "open", failures |-> OneMore(e.failures), elapsed |-> 0]
    ELSE [e EXCEPT !.failures = OneMore(@)]

\* A tick of the clock: openedAt is null while closed, so only an opened
\* entry ages.
Aged(e) ==
    IF e.state # "closed" /\ e.elapsed < Cooldown
    THEN [e EXCEPT !.elapsed = @ + 1]
    ELSE e
=============================================================================
