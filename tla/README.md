# TLA+ models and proofs of the ZippyMesh router

The router takes OpenAI-compatible chat requests, queues them, asks a routing
engine for candidate accounts, and tries the candidates until one answers.
Around that loop it keeps health data in memory (circuit breaker, rate windows)
and in SQLite (model health, accounts). This directory models the parts whose
correctness depends on the order in which concurrent requests, timers and
crashes interleave, checks them with TLC and proves the invariants of the most
important ones with TLAPS.

Paths below are relative to the repository: `src/lib/...` is the code,
`open-sse/...` the request core.

## 1. The system

| component | state | operations | interacts with |
|---|---|---|---|
| circuit breaker, `src/lib/circuitBreaker.js` | Map provider → entry (state, failures, openedAt), lost on restart | isAvailable, recordSuccess, recordFailure, reset | called by the orchestrator, sequential and batch |
| request queue, `src/lib/routing/queueManager.js` | sorted array, activeCount, limit | enqueue, process, setConcurrency | wraps every orchestrated request |
| orchestrator, `src/sse/services/orchestrator.js` | per request: candidates, index, attempt | route, filter, call, retry, fail over, record | queue, breaker, model health, stores, routing engine, chat core |
| batch mode, same file | per request: tasks, AbortController | race, abort, Promise.any | breaker, stores |
| model health, `src/lib/modelHealth.js`, and prober, `src/lib/modelProber.js` | SQLite row per provider and model; sweeps in memory | recordModelFailure, recordModelSuccess, sweeps of probes | orchestrator, local nodes |
| rate limiter, `src/lib/routing/rateLimiter.js` | windows per bucket, saved every 10 s | checkLimit, recordUsage, syncFromHeaders, init, persistState | routing engine |
| votes on prices, `src/lib/localDb.js` | submissions and contributors in the JSON document | createPendingSubmission, voteOnSubmission, recordContribution | JSON store |
| streams, `open-sse/utils/stream.js`, `streamHandler.js` | per stream: buffer; one decoder for all | transform, flush, cancel | chat core, clients |
| account cooldowns, `src/sse/services/auth.js`, `open-sse/services/accountFallback.js` | rateLimitedUntil, backoffLevel, testStatus per connection | markAccountUnavailable, clearAccountError | callbacks of the orchestrator, JSON/SQLite store |
| token refresh, `src/lib/maintenance/tokenRefreshJob.js` | tokens per connection, in-progress set | sweep, refresh | store, providers |
| virtual keys, `src/app/api/v1/chat/completions/route.js`, `src/lib/localDb.js` | SQLite rows of keys and of cached prompts | check of the budget, cache hit, charge, revoke, purge | orchestrator, prompt cache |
| mesh peers, `src/lib/mesh/*.js` | SQLite row per peer | UDP heartbeat, upsert, expire | other nodes |
| JSON store, `src/lib/localDb.js` | one JSON file and SQLite tables | read-modify-write handlers | everything |

The other components (HTTP routes, dashboard, vault, wallets, translators,
discovery, combos, per-address limits) are listed with their
reasons in `PROJECT.json`.

What is hard in this code:

* everything is one event loop: synchronous stretches are atomic, and at each
  `await` any number of other requests run. State read before an `await`
  (candidate lists, circuit answers, snapshots of degraded models) is used after
  it;
* several calls to one provider report in an order that has nothing to do with
  the order in which they were admitted;
* one of several awaited steps may throw after the others have had their effect;
* rows survive a crash, the requests and timers that were about to update them do
  not;
* the JSON document is one object for all handlers, and every call of `getDb()`
  puts the content of the file in its place;
* retries, delays and aborts hold resources (queue slots, probes).

What makes each component correct: the breaker's counter and state agree, an
open circuit admits nobody for a whole cooldown, and it never wedges; the queue
loses no slot and no wakeup and keeps its order; a request tries every candidate
it may try and holds exactly one slot until it is settled; a race is answered as
its tasks ended, and once; a model is degraded exactly when it failed often enough, for
the delay of its tier, and heals without traffic; a limit is exceeded by no more
than the requests that overlap, or saw another window; the newest refresh token is never dropped while
the process lives; a silent peer disappears and no late packet brings it back; a
verdict follows from the votes stored with it; a stream keeps its text; a budget is exceeded
by no more than the requests under way, and its counter is of this month.

## 2. Modules

| module | models | notes |
|---|---|---|
| `BreakerEntry` | one entry of the breaker and the effect of each function on it | pure operators |
| `CircuitBreaker` | the Map with concurrent callers | `flight[c]`: a candidate that passed the filter and whose outcome is to come |
| `CircuitProbes` | `CircuitBreaker` with a history of probes | only for the finding on half-open circuits |
| `CircuitBreakerProofs` | theorems about `CircuitBreaker` | |
| `TaskPool` | abstract specification: a priority pool with a limit | two sets, no order, no counter |
| `QueueManager` | the queue | implements `TaskPool` |
| `QueueManagerProofs` | theorems about `QueueManager` | |
| `Orchestrator` | sequential requests; composes the queue (INSTANCE `QueueManager`) and the breaker (`BreakerEntry`) | implements `CircuitBreaker` |
| `BatchRace` | batch requests | implements `CircuitBreaker` |
| `ChatModes` | both modes over one breaker; composes `Orchestrator` and `BatchRace` | implements `CircuitBreaker` |
| `OrchestratorProofs` | theorems about `Orchestrator`, `BatchRace`, `ChatModes` and `SseStream` | uses the theorems about the queue and the breaker |
| `ModelHealth` | the model_health table, requests, prober sweeps, crashes | |
| `ModelHealthProofs` | theorems about `ModelHealth` | |
| `RateLimiter` | the counters of one provider and model, init, saves, restart | |
| `RateLimiterProofs` | theorems about `RateLimiter` | |
| `VirtualKeys` | a key, its requests and one cached prompt | |
| `TokenRefresh` | sweeps and requests over provider connections | also the account status left by requests |
| `TokenRefreshProofs` | theorems about `TokenRefresh` | |
| `Presence` | abstract specification: what is shown of a peer | |
| `PeerState` | heartbeats and the table of peers | implements `Presence` |
| `PeerStateProofs` | theorems about `PeerState` | |
| `Community` | votes on a price over the shared JSON document | also the model of `getDb` and `db.write` |
| `LocalDbProofs` | theorems about `Community` and `VirtualKeys` | |
| `SseStream` | streams that share a decoder | |
| `MC*` | values of the constants for TLC | `CircuitBreaker`, `CircuitProbes`, `QueueManager`, `TokenRefresh` and `VirtualKeys` need none |

The definitions named "Faulty" in the comments are mutations of the definition
that follows them. No specification uses them: they exist to show that a
property fails when the code has that bug.

### Circuit breaker

A JavaScript entry stores times; every decision compares `now - openedAt` with
`cooldownMs`, so the model keeps that difference, in ticks, saturated at
`Cooldown`. `Filter` is one pass of a caller's filter: every provider asked about
is consulted (which may turn its entry half open), and any of the allowed
candidates goes ahead. `Succeed`, `Fail` and `Abandon` are the outcomes; a
success may be followed by a failure of the same candidate, because batch mode
reports a failure when a store throws after the win. `Restart` loses everything.

`CircuitBreaker` is also the contract of its callers. `Orchestrator` and
`BatchRace` each show, with a refinement mapping from their candidates to
`flight`, that they only report outcomes of candidates they were allowed, once
each (`ImplementsBreaker`); what is proved of `CircuitBreaker` then holds with
those callers. `ChatModes` shows it of both together, which is how they run: the
two modes share one Map.

### Queue

`Enqueue` is push, sort and one call of `process`; `Settle` is the end of a task
with its `finally` block; both run without interruption. The sort is the
insertion of one item into a sorted sequence (`SortsAfter`); that the sequence is
sorted is an invariant that is checked and proved, not an assumption.
Arrival order relies on `Date.now()` not going backwards. The refinement to
`TaskPool` replaces the sequence by a set, and activeCount by its size.

### Orchestrator

`request[r].pc` is the await a request is at: `submitted` (queued, or started
and fetching candidates), `preparing`, `calling`, `backoff`, `reporting`
(failure callbacks), `recording` (stores after a success), `finished` (answer
ready, promise not settled). `Throw` is an exception of whatever is awaited. The
routing engine is not part of the repository: `CandidateLists` are the lists it
may return. The subscription filter for peers only shortens a list and is part
of that choice; its 403 stands with the empty list. Reports to model health are
left to `ModelHealth`; what is stored after a success is one step.

### Batch mode

One task per candidate, with the phases `calling`, `won` (success reported,
lifecycle event awaited), `storing` (others aborted, stores awaited), `failing`,
and the settled ones `returned`, `aborted` and `rejected`. `Answer` is
`Promise.any`. Losers go on after the answer; a slot is used again only when all
its tasks have ended.

`Abort` is any AbortError: the code knows it by its name (`orchestrator.js:668`)
and does not look at the signal. So a call that breaks off by itself also fulfils
its task, and the marker may be returned although nobody answered. What
`AnswerJustified` says of the marker is only that some task was aborted; what it
says of results, of 503 and of the signal does not depend on who aborted whom.

In `ChatModes` a step is one of a request or one of a race, and leaves everything
of the other mode but the circuits. A race waits in the queue like a request;
there it may begin at any time, which allows more than the code does.

### Model health and prober

`row[m]` is a row of model_health; `wait` is the time to `next_probe_at`.
`Crash(m)` ends the process between the two statements of `recordModelFailure`.
A sweep keeps the snapshot it took (`todo`), then reaches the local models
(`due`). `NodeRow[m]` is the row under which a probe of `m` is recorded: the
row of the node's name, which need not be `m`. Which models are due for a health
probe depends on times that no property mentions, so any may be skipped.

### Rate limiter

A window is a count of its bucket's unit and the time it still has; `Synced` and
`Counted` are what headers and usage make of it, for requests, tokens and neurons.
`Arrive` to `Load` are `init()`, which sets `configs` before it has the saved
windows: other requests are let through meanwhile, and what they record is
replaced. `LoadNothing` is the first start, where the file has no windows.
`saving` is a call of `persistState`, which keeps the object it was called with.

`Responses` are what the headers of a response may say of requests and of tokens:
a remainder, which may be negative (`Overdrawn`), a reset, both or neither. What
is not there leaves its half of the window alone, and either half ends the
counting of that request. A reset without a remainder may give a fixed window that was over
a new end and its old count (`Revives`). A reset that is no number becomes NaN
(`rateLimiter.js:173`), which the comparisons take for no end: such a window has
`Never` left. A remainder that is no number is none.

Each window has a history field `late`: the requests recorded in it whose check
saw another window, because a load replaced that, or a header brought this one
back (`early` holds the buckets of which that is true of a request). It is what
the bound of `Overshoot` grows by. A remainder, which is the provider's count,
begins it anew.

### Virtual keys

`Admit` is the head of `POST`: the key is looked up and its budget checked in one
stretch. A request is then `admitted` until the cache is asked, `calling` while
`handleChat` runs, `answered` while its JSON is parsed, or `streaming` until the
last chunk. `auto` says that smart routing chose its model: only such requests
are charged, because `finalizeTelemetry` returns early without routing metadata
(`route.js:460`), and hits, which always are (`:338`). `Leave` charges nothing:
`flush()` is not called for a client that left, and an exception goes past the
charge. Months are numbered. The history variable `owed` is what hits and routed
answers of the current month add up to.

### Token refresh and account status

A refresh token is its generation; the provider accepts the newest, and answers
with another one and its expiry (the job also stores answers that lack one of
them, `tokenRefreshJob.js:160`; they are left out). A sweep keeps
the rows it read (`sweep[s].rows`), and `inProgress` is the guard it shares with
other sweeps, but not with requests. `Refresh` of a connection that is not
GitHub's always fails: `refreshAccessToken` wants a `refreshUrl`
(`open-sse/services/tokenRefresh.js:13`), which no entry of `PROVIDERS` has.
`Route` gives a request the connection as it is then, and `ClearAccountError`
judges by that copy; `testStatus` and `expiresIn` given by `chat.js` are not
stored by `updateProviderCredentials`. The history variable `lost` holds the
connections whose newest token was issued and then dropped.

### Mesh peers

A packet is its sender and the clock of its sender; `skew` is the difference of
that clock from ours. `packets` only grows: a packet may arrive at any time, any
number of times, or never. `Admit` is `isPeerAllowed`, which lets everybody pass
when the settings cannot be read; `Upsert` is the SQL statement. `newest`, `sent`
and `passed` are history. A peer whose clock is more than 90 s behind is never
shown, although it sends (`peerState.js:6` speaks of peers not seen).

### Votes and the JSON document

`handler[c].reads` counts the calls of `getDb()` before the next synchronous
stretch; `Fetch` takes the content of the file, `Deliver` or the stretch itself
puts it in place of `mem`. `db.write()` appends to `writes`, and `Land` replaces
the file in that order. In the cloud mode reads and writes do nothing. A
contributor is in one call at a time; `MaxOverlap` bounds the calls under way.
`timeoutUntil` is never cleared, so a contributor is timed out once, and the
longer durations of `TIMEOUT_THRESHOLDS` are out of reach.

### Streams

A chunk is one byte. A body is any sequence of lines that begin as a frame or are
blank, of whole characters (`Framed`), of which the last may be cut; other lines
(comments, event names) are left out. What JSON, ids and usage add to a frame is
left out, since none changes `delta.content`. The decoder holds at most half a
character, and `held` says whose. `Flush` is the end of a body, `Leave` that of a
client or connection.

## 3. Runs

| run | module / cfg | shows | distinct states |
|---|---|---|---|
| breaker | CircuitBreaker / MCCircuitBreaker | TypeOK, FailuresMatchState, HalfOpenAfterCooldown, OpenDrains, CooldownNeverRestarts; liveness: Recovers | 2 364 |
| queue | QueueManager / MCQueueManager | TypeOK, SlotsAccountedFor, NoStall, NoOvertaking, ImplementsPool; liveness: TopPriorityServed | 64 152 |
| orchestrator | MCOrchestrator | TypeOK, SlotHeldUntilSettled, EveryCandidateTried, ImplementsBreaker; liveness: EveryRequestAnswered | 305 236 |
| batch | MCBatchRace | AnswerJustified, ImplementsBreaker; liveness: EveryRaceAnswered | 216 342 |
| health | MCModelHealth | TypeOK, DegradedAtThreshold, TierEarned, HeldForItsTier; liveness: HealsWithoutTraffic | 5 012 |
| community | MCCommunity | VerdictsFollowVotes, CloudDecidesOnce, RecordedVoteKept | 730 189 |
| tokens | TokenRefresh / MCTokenRefresh | TypeOK, NewestTokenKept; liveness: DueIsHandled, SuccessHeals | 247 116 |
| peers | MCPeerState | SilentPeerDisappears, ImplementsPresence | 107 872 |
| ratelimit | MCRateLimiter | Overshoot, SavedWhenClean; liveness: DenialEnds | 292 155 |
| streams | MCSseStream | ContentKept | 348 534 |
| keys | VirtualKeys / MCVirtualKeys | OverspendBounded, CountsThisMonth | 441 792 |
| key_stuck | VirtualKeys / MCKeyStuck | violated: RefusedInItsMonth | |

Runs with a liveness property use `FairSpec` and no symmetry.
`MCOrchestratorLarge.cfg`, run by hand, has longer candidate lists and more
retries and failures than the orchestrator run, for its safety properties
(222 161 states up to symmetry). `MCChatModes.cfg`, run by hand too, has one
request next to one race and checks `SlotHeldUntilSettled`, `EveryCandidateTried`,
`SharedFailuresMatchState` and `ModesImplementBreaker` (222 615 states). `TypeOK` of the modules whose run does not list
it was checked with the same configuration.

Bounds. The failure counter saturates at `MaxFailures`, above every value that a
decision tells apart; times saturate at the cooldown or the delay of a tier;
`MaxTorn` bounds the crashes inside one function. Thresholds are 1 or 2 instead of
5 or 3: the code only compares with them, and 2 (breaker, health, batch) is the
least value for which a failure may leave a circuit closed. Two requests, two
calls or two sweeps are what an interleaving needs; the orchestrator has three
requests for two slots, so that one waits in the queue; the queue has four requests over a limit that
changes, so that somebody waits behind somebody. The health run has one model
with two requests and two sweeps, since rows only share the sweeps; rows of two
names for one node are in `MCHealthAlias`, and in the proofs. Votes: two votes
decide either way, and two handlers overlap, so that each of the reads of one
falls between any two steps of the other.
Tokens: one GitHub connection, because connections share only the loop of a
sweep, two rotations, so that a stale token is refused, and one crash. Peers: one,
since rows are independent, and twice the expiry of time. The rate limiter has a
rolling bucket of requests and a fixed one of tokens, two requests that use two
tokens each, and a restart; its responses say nothing, a remainder with and
without a reset, a reset alone, or one that is no number. `MaxLate` bounds how
often a window is brought back. Keys: three requests, of
which one may use the budget up, and two ends of a month. Three streams have each
of two bodies. The theorems do not depend on these numbers.

### What the code does otherwise

The violated run:

* **key_stuck**: `checkVirtualKeyBudget` compares the stored counter and never
  looks at the month it is of (`localDb.js:1081`); only a charge starts a new
  month (`:1132`), and a refused request charges nothing. A key that used its
  budget up is refused with "Monthly token budget exceeded" in every later month,
  unless a request admitted before ends in one. `docs/project_status.md:39` speaks
  of monthly budgets, `localDb.js:1123` of a monthly reset.

More counterexamples are kept as configurations to run by hand; each checks one
property that a comment or a document states:

* `MCCommunity` / `MCVerdictLost`, VerdictIsStored: the vote that decides calls
  `recordContribution` before it writes; that reads the file again in place of the
  document (`localDb.js:4960`, `:1873`). The voter is told "Submission verified by
  community!" (`:4969`), the rewards are stored, the verdict is not.
* `MCSseStream` / `MCStreamsMixed`, ContentExact: all streams share one
  `TextDecoder` (`open-sse/utils/stream.js:9`). A stream cut inside a character, or
  left there, corrupts the next chunk of another one; a frame whose line then
  begins with the stray character is skipped by its client.
  `streamHelpers.js:39` promises "the assistant's answer and nothing else".
* `CircuitProbes` / `MCCircuitProbes`, OneProbe: `circuitBreaker.js:3` and `:50`
  promise one probe; every caller is let through a half-open circuit.
* `MCOrchestrator` / `MCStaleFilter`, NoCallWhileOpen: `circuitBreaker.js:3` says
  an open circuit rejects; candidates are filtered once, and called later without
  asking again.
* `MCOrchestrator` / `MCRateLimit`, RateLimitFailsOver: `docs/ARCHITECTURE.md:264`
  says that a 429 fails over; every 4xx returns at once, and the branches for 429
  and 400 after the loop are dead.
* `MCBatchRace` / `MCBatchAbort`, ReturnsSuccess: `orchestrator.js:683` expects the
  first success; an aborted task fulfils its promise with `{ aborted: true }`,
  while the winner is still storing its metrics, or before anybody answered when
  its call broke off by itself, and that marker is returned.
* `MCRateLimiter` / `MCQuotaResets`, QuotaResets: `rateLimiter.js:246` has the
  example "Daily quota resetting at 00:00 UTC"; after a reset header that is no
  number, such as a date, a full quota refuses for ever, also after a restart.
* `MCModelHealth` / `MCHealthAlias`, ProbeDecides: `modelProber.js:7` says that a
  probe clears or escalates the degraded row; a node found by its API type is
  recorded under its name.
* `TokenRefresh` / `MCTokenOAuth`, ReauthOnlyWhenDead: `tokenRefreshJob.js:15`
  promises to refresh tokens before they expire; every connection that is not
  GitHub's is marked needs_reauth instead, its token still good.

Behaviours that are part of the models and of every invariant, without a property
of their own:

* an ordinary request to a degraded model escalates its tier just as a failed
  probe does (`modelHealth.js:157`; nothing on the request path asks
  `isModelDegraded`), and a sweep may probe a model whose window closed again
  after its snapshot (`modelProber.js:205`);
* an answer to a request that names its model is never charged to its virtual
  key (`route.js:460`), although a hit in the cache for the same request is: the
  comment at `:303` says that a replay is accounted for exactly as a real answer;
* a header that only names a reset leaves its request uncounted
  (`rateLimiter.js:118`) and keeps the count of a window that was over; the bound
  of `Overshoot` takes both into account;
* usage recorded while a save is under way is not saved until more is recorded,
  because `isDirty` is cleared after the await (`rateLimiter.js:40`); the comment
  at `:125` calls the interval accurate enough across restarts;
* two overlapping calls of `voteOnSubmission` in a process with a file may lose
  the vote of one of them, although both were told that it was recorded:
  `RecordedVoteKept` speaks of the votes that no other call overlapped, and of all
  votes in the cloud;
* a sweep may mark a connection that a request has just refreshed.

### Fairness

Safety needs none. For liveness:

* `CircuitBreaker!FairSpec`: the clock runs; requests for a provider keep being
  admitted when they can, and some of them succeed when the provider does not
  fail. Strong fairness, because resets and restarts may interrupt both. Without
  requests nothing consults the breaker, which has no timer of its own.
* `QueueManager!FairSpec`: every task settles. Nothing is assumed of arrivals.
* `Orchestrator!FairSpec`, `BatchRace!FairSpec`: every await returns or throws
  in the end (calls have timeouts, delays are timers). A request waiting in the
  queue is not helped: it is started by the ends of others. All requests of the
  liveness run have the same priority, since higher ones may starve lower ones.
* `RateLimiter!FairSpec`: time passes.
* `TokenRefresh!FairSpec`: the scheduler's timer runs and every await of a sweep
  ends; marking a connection that is tried for ever succeeds for once (strong
  fairness: the update may throw). A request that succeeded comes to its callback.
* `ModelHealth!FairSpec`: the clock and the interval timer run, a sweep goes
  through its snapshot, a probe of a model that does not fail succeeds unless the
  process restarts for ever at that moment (strong fairness).

## 4. Proofs

All theorems are checked by TLAPS, for every value of the constants that
satisfies the named assumptions.

`CircuitBreakerProofs` (assumptions `EntryAssumption`, `BreakerAssumption`).
`FailuresMatchState` and `HalfOpenAfterCooldown` are inductive with `TypeOK`; the
first because a half-open or open entry already has `Threshold` failures and
failures are only cleared together with the state. The action properties
`OpenDrains` and `CooldownNeverRestarts` follow step by step from the invariant:
only `Filter` admits, and only `Trips`, which is false of an open entry, resets
the clock. The lemmas `FilteringExists` and `AdmittedOnly` are about the filter of
its callers (`LetThrough`), a recursion on the prefixes of a list. They rest on
lemmas about any recursion that picks members of a list (`Picking`,
`PickingExists`, `PickingAgrees`, `PickingTyped`): a shortest prefix for which it
gave nothing, or something it should not, is led to a contradiction
(`LeastNumber`). The text of a stream (`TextIn`) is such a recursion as well.

`QueueManagerProofs` (`QueueAssumption`). The inductive invariant joins `TypeOK`,
`SlotsAccountedFor`, `NoStall` and `Sorted`. `NoStall` needs
`activeCount = Cardinality(executing)` in order to know that a settling task
frees a slot for the head of the queue, and `Sorted` needs the uniqueness in
`SlotsAccountedFor`, since priorities are kept by request. Lemmas about
`InsertAfter` and `Tail` carry the sequence part. `QueueImplementsPool` maps each
action to `Submit`, `Finish` or `Resize`: `Sorted` is what makes the head of the
sequence a task of the highest waiting priority. `NoOvertaking` is the same
insertion seen from two items: it keeps the order of those that wait, and puts
the new one behind every item that does not sort after it.

`OrchestratorProofs` (`OrchestratorAssumption`; `RaceAssumption` where races take
part, `StreamAssumption` for streams). The invariant
of the queue is that of `QueueManagerProofs`, instanced: every step of the
orchestrator is `Enqueue`, `Settle` or nothing for the queue. `GoodRequest` is
what `EveryCandidateTried` needs: in the loop, the failures recorded for a
request are those of the candidates before `index`, in order, and of the current
one only while its callbacks are awaited. `Placed` says where the queue has a
request: `SlotHeldUntilSettled` follows from it. `OrchestratorImplementsBreaker`
takes the steps one by one. `RouteFilters` is the hard one: what passes the filter
was let through by its entries, fits into the positions of the request, and these
are free because it was only `submitted`. `SlotFreed` is a reported outcome, and
`StepAbandons` a request that ends with candidates it never called.
`BreakerHolds` then carries the invariants of `CircuitBreaker`, `OpenDrains` and
`CooldownNeverRestarts` over to the breaker that the orchestrator uses.
`OrchestratorImplementsQueue` does the same for the queue: `QueueNeverStalls` and
`QueueKeepsOrder` carry `NoStall`, `SlotsAccountedFor`, `NoOvertaking` and the
refinement of the pool. Batch mode, which is instanced, follows the same way in the second
half: `GoodRace` relates the phases of the tasks to the abort and to the answer,
which gives `AnswerJustified` (`RacesDecided`) and, with `SlotMoves`, the
refinement, where a task that won and then failed reports two outcomes;
`RacesKeepBreaker` is `BreakerHolds` for races.

Both modes at once (`ChatModes`; requests and races have different names). The
invariant is that of each mode, and neither is disturbed by steps of the other
(`ModesInductive`), because both speak of the circuits only by their type. The
refinement is put together from the two parts: `Uses` says what some callers do to
the breaker, every step of a mode is `Uses` of its own slots (`RequestsUse`,
`RacesUses`), and `UsesAmongMore` makes it a step of all callers, of which the
others do nothing. `SharedBreakerHolds` then says of the one Map what
`CircuitBreakerProofs` proves.

Streams (`SseStream`, instanced). `ContentKept` is about the text of a whole body,
so the invariant follows the bytes: `TextIn` of one byte more is that of the bytes
before it with that byte, and nothing for the marks of a frame. `Whole` adds what
makes this work for a stream outside `met`: its buffer begins as a frame or is
empty, so that its text is all the text in it, and while it is open its last byte
says whether the decoder holds a head of it and whether its buffer is empty. Here
`Framed` is needed: a tail finds its own head, and text comes only inside a frame.

`ModelHealthProofs` (`HealthAssumption`). The invariants speak of one row each,
so the proof is about rows: every statement of `modelHealth.js` keeps `RowOK`,
with the number of torn failures as a parameter.

`PeerStateProofs` (`PeerAssumption`). `SilentPeerDisappears` is not inductive: a
row comes from a stamp that passed the check, and that from a packet. `Heard`
bounds all three by the last time the peer sent, read on its clock, and the last
time it was let through. `RowIsNewest` carries the refinement: the row may be
older than the newest stamp only when that stamp is no longer fresh (the row had
expired and a late packet was written again), so nothing shown is old.

`RateLimiterProofs` (`LimiterAssumption`). `IInv` is `Types`, `Room`, `Saves` and
`Clean`. `Overshoot` alone is not inductive for two reasons. A request let through
by a check adds its share to a count later, so `Room` says that a window which
still runs has space, below the bound, for every request let through by it
(`Callers`, `Fits`): a check that passes saw a count below the limit, recording
moves a request from `Callers` into the count, and into `late` if it was not
among them, and a load or a window brought back empties `Callers` because what
they checked is gone. And old counts come back: `Room` bounds every version of
the windows, those in the file, those a save will write and those init() has
read, each with its own `late`. `Recorded` is the step that matters: it goes
through what a response may say. Counts of tokens make the bound a product, so
`MostFacts` and `FitsFewer` hold the arithmetic. `SavedWhenClean` needs to know
what a save under way will write (`Saves`: what is in memory, or it was overtaken)
and that memory may still be empty when a request of init() is about to load the
file (`Clean`).

`TokenRefreshProofs` (`RefreshAssumption`). `NewestTokenKept` is not inductive,
since it does not say who may ask the provider. `ReadsOld`: a token that a sweep
or a request has read is never newer than its row. So whoever the provider
accepts has the newest token, the row has it too, and, by `OneHolder`, nobody
else has one in hand: asking makes exactly one holder, storing makes none. Both hold of the
connections outside `lost`, a set that never shrinks (`LostGrows`).

`LocalDbProofs`, votes (`CommunityAssumption`). Every version of the document (in
memory, in the file, in a write that has not landed, in the hands of a handler)
comes from another version by an operation on documents. So a set of documents
that is closed under the operations holds all versions (`VersionsKept`), and
`VerdictsFollowVotes` is left with what each operation does to one document.
`RecordedVoteKept` uses the same lemma a second time, for the documents with a
given vote: once all versions have it, it stays. That they all have it when the
call ends is the other half: a call that nothing overlaps is the only one under
way (`AloneIsAlone`), and a write that has not landed is awaited by the handler
that made it (`Owned`), so its own is the only one left. `CloudDecidesOnce` needs
`Once`: in the cloud only the handler that changed the status gives rewards or
the penalty, there is one such handler, and whom it has still to reward was not
rewarded.

`LocalDbProofs`, budgets (`KeyAssumption`; `VirtualKeys` is instanced).
`OverspendBounded` needs `Room`: the counter and what all open requests may still
use stay within the bound. Admission is the only step that opens a request, and it
saw a counter below the budget; a charge closes one. A new month only lowers the
counter, whoever is still open.

The assumptions ask of the constants what the code gives them: a finite number of
requests and voters, natural numbers for limits and bounds, and a `None` that is
none of the values it stands beside.

Only model-checked: the liveness properties, `Recovers`, `TopPriorityServed`,
`EveryRequestAnswered`, `EveryRaceAnswered`, `HealsWithoutTraffic`, `DueIsHandled`,
`SuccessHeals` and `DenialEnds`, since TLAPS cannot reason about fairness and
ENABLED here. The violated properties are counterexamples and need no proof.

## 5. Plan

Done: the modules of section 2, and proofs of every safety property of a passing
run, refinements included.

Not modelled, and why: providers and translators (external to every model, any
outcome the callers handle), the routing engine (not in the repository), user
interface, storage of secrets, wording of answers and logs.
