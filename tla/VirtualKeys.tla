---------------------------- MODULE VirtualKeys ----------------------------
(***************************************************************************)
(* One virtual key and the chat requests made with it: POST of             *)
(* src/src/app/api/v1/chat/completions/route.js around the orchestrator    *)
(* (external here), the row of virtual_keys and one entry of the prompt    *)
(* cache in src/src/lib/localDb.js.                                        *)
(*                                                                         *)
(* The key has a token budget; the budget in dollars is checked and        *)
(* charged by the same lines.  Requests without a key, the semantic cache  *)
(* (off by default) and forwarding to p2p models, which charges nothing,   *)
(* are left out.  What is stored are SQL statements without an await in    *)
(* between, taken to succeed, and survives a restart.                      *)
(***************************************************************************)
EXTENDS Integers, FiniteSets

CONSTANTS
    Requests, None,
    Budget,      \* monthly_token_budget
    MaxTokens,   \* what one answer may report as its usage
    MaxMonth     \* bound: the last month

ASSUME KeyAssumption ==
    /\ IsFiniteSet(Requests) /\ Requests # {}
    /\ Budget \in Nat \ {0}
    /\ MaxTokens \in Nat
    /\ MaxMonth \in Nat
    /\ None \notin Nat

VARIABLES
    key,        \* "gone" once the row is deleted
    used,       \* tokens_used_this_month
    resetMonth, \* budget_reset_month
    month,      \* the current month
    cached,     \* usage of the cached answer to the prompt of these requests
    call,       \* the await each request is at
    owed        \* history: tokens of this month's hits and routed answers

vars == <<key, used, resetMonth, month, cached, call, owed>>

Tokens == 0..MaxTokens

Idle == [pc |-> "idle", auto |-> FALSE, tokens |-> 0]

\* createVirtualKey
Init ==
    /\ key = "active"
    /\ used = 0
    /\ resetMonth = 0
    /\ month = 0
    /\ cached = None
    /\ call = [r \in Requests |-> Idle]
    /\ owed = 0

-----------------------------------------------------------------------------
\* checkVirtualKeyBudget
Exhausted == used >= Budget

\* auto: the model asked for is "auto", and smart routing succeeds.
AdmitUnchecked(r) ==
    /\ call[r].pc = "idle"
    /\ key = "active"
    /\ \E auto \in BOOLEAN : call' = [call EXCEPT ![r].pc = "admitted", ![r].auto = auto]
    /\ UNCHANGED <<key, used, resetMonth, month, cached, owed>>

Admit(r) == ~Exhausted /\ AdmitUnchecked(r)

\* Faulty: the counter of the last month is kept.
ChargeForever(tokens) ==
    /\ used' = IF key = "gone" THEN used ELSE used + tokens
    /\ resetMonth' = IF key = "gone" THEN resetMonth ELSE month

\* updateVirtualKeyUsage: of a revoked key too.
Charge(tokens) ==
    IF key = "gone"
      THEN UNCHANGED <<used, resetMonth>>
      ELSE /\ used' = IF resetMonth # month THEN tokens ELSE used + tokens
           /\ resetMonth' = month

\* recordCacheHit
Hit(r) ==
    /\ call[r].pc = "admitted"
    /\ cached # None
    /\ Charge(cached)
    /\ owed' = owed + cached
    /\ call' = [call EXCEPT ![r] = Idle]
    /\ UNCHANGED <<key, month, cached>>

\* Not cacheable, or not in the cache.
CallProvider(r) ==
    /\ call[r].pc = "admitted"
    /\ call' = [call EXCEPT ![r].pc = "calling"]
    /\ UNCHANGED <<key, used, resetMonth, month, cached, owed>>

Answer(r) ==
    /\ call[r].pc = "calling"
    /\ \E tokens \in Tokens :
         /\ call' = [call EXCEPT ![r].pc = "answered", ![r].tokens = tokens]
         /\ cached' \in {cached, tokens}
    /\ UNCHANGED <<key, used, resetMonth, month, owed>>

AnswerStream(r) ==
    /\ call[r].pc = "calling"
    /\ call' = [call EXCEPT ![r].pc = "streaming"]
    /\ UNCHANGED <<key, used, resetMonth, month, cached, owed>>

\* finalizeTelemetry returns early unless the request was routed.
FinalizeTelemetry(r, tokens) ==
    /\ IF call[r].auto
         THEN Charge(tokens) /\ owed' = owed + tokens
         ELSE UNCHANGED <<used, resetMonth, owed>>
    /\ call' = [call EXCEPT ![r] = Idle]
    /\ UNCHANGED <<key, month, cached>>

Finish(r) == call[r].pc = "answered" /\ FinalizeTelemetry(r, call[r].tokens)

FinishStream(r) ==
    /\ call[r].pc = "streaming"
    /\ \E tokens \in Tokens : FinalizeTelemetry(r, tokens)

\* The answer is an error.
AnswerError(r) == call[r].pc = "calling" /\ FinalizeTelemetry(r, 0)

\* The client leaves its stream, whose flush() is then not called; or
\* handleChat throws.
Leave(r) ==
    /\ call[r].pc \in {"calling", "streaming"}
    /\ call' = [call EXCEPT ![r] = Idle]
    /\ UNCHANGED <<key, used, resetMonth, month, cached, owed>>

-----------------------------------------------------------------------------
Revoke ==
    /\ key = "active"
    /\ key' = "revoked"
    /\ UNCHANGED <<used, resetMonth, month, cached, call, owed>>

\* purgeVirtualKeyData
Purge ==
    /\ key # "gone"
    /\ key' = "gone"
    /\ UNCHANGED <<used, resetMonth, month, cached, call, owed>>

\* expires_at of the cache entry
Expire ==
    /\ cached # None
    /\ cached' = None
    /\ UNCHANGED <<key, used, resetMonth, month, call, owed>>

NextMonth ==
    /\ month < MaxMonth
    /\ month' = month + 1
    /\ owed' = 0
    /\ UNCHANGED <<key, used, resetMonth, cached, call>>

Crash ==
    /\ call' = [r \in Requests |-> Idle]
    /\ UNCHANGED <<key, used, resetMonth, month, cached, owed>>

RequestStep(r) ==
    \/ Admit(r) \/ Hit(r) \/ CallProvider(r) \/ Answer(r) \/ AnswerStream(r)
    \/ Finish(r) \/ FinishStream(r) \/ AnswerError(r) \/ Leave(r)

Next ==
    \/ \E r \in Requests : RequestStep(r)
    \/ Revoke \/ Purge \/ Expire \/ NextMonth \/ Crash

Spec == Init /\ [][Next]_vars

-----------------------------------------------------------------------------
(* Properties.                                                             *)

TypeOK ==
    /\ key \in {"active", "revoked", "gone"}
    /\ used \in Nat /\ owed \in Nat
    /\ month \in 0..MaxMonth /\ resetMonth \in 0..month
    /\ cached \in Tokens \cup {None}
    /\ call \in [Requests ->
         [pc : {"idle", "admitted", "calling", "answered", "streaming"},
          auto : BOOLEAN, tokens : Tokens]]

\* The budget is checked before the call and charged after it: it is exceeded
\* by no more than all requests under way, the last one admitted included, can
\* use, also across the end of a month, hits and restarts.
OverspendBounded == used <= (Budget - 1) + Cardinality(Requests) * MaxTokens

\* The counter is what hits and routed answers of this month used, no matter
\* when they were admitted; before the first of them it is of another month.
CountsThisMonth == key # "gone" => owed = IF resetMonth = month THEN used ELSE 0

\* A key is refused for its budget only in the month the counter is of.
RefusedInItsMonth == key = "active" /\ Exhausted => resetMonth = month
=============================================================================
