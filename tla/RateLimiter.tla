---------------------------- MODULE RateLimiter ----------------------------
(***************************************************************************)
(* The usage counters of src/src/lib/routing/rateLimiter.js for one        *)
(* provider and one model: requests that check and record them, the lazy   *)
(* init() that loads the saved counters, the timer that saves them, and a  *)
(* restart.  A caller checks, calls the provider and records (external:    *)
(* the routing engine is not in the repository).                           *)
(*                                                                         *)
(* A window holds what was counted of its bucket's unit and how long it    *)
(* still has, instead of its start and its reset; both kinds of bucket     *)
(* start a new one when none is left.  Only buckets that evaluateBucket    *)
(* limits are modelled: a rolling bucket of tokens never refuses anything. *)
(* The timer's saves do not overlap, and other writers of the store are    *)
(* left out.                                                               *)
(*                                                                         *)
(* A response says how much remains and when the window ends, one of them, *)
(* or nothing, for requests and for tokens.  What it says is what parseInt *)
(* and parseFloat make of it: a remainder that is not a number is none; a  *)
(* reset that is not a number becomes NaN, in the file null, and both are  *)
(* taken for no end (Never).                                               *)
(***************************************************************************)
EXTENDS Integers, FiniteSets

CONSTANTS
    Requests, None, Never,
    Buckets,
    Fixed,       \* the buckets of window type "fixed_reset"; the rest roll
    Unit,        \* Unit[b]: "requests", "tokens" or "neurons"
    Length,      \* Length[b]: how long a new window of b lasts
    Limit,       \* Limit[b]: value_hint, or what stands for it
    Hinted,      \* the buckets that have a value_hint
    Usage,       \* what a request may use of tokens or neurons, at most
    MaxTokens,
    Responses,   \* what the headers of a response may say
    Overdrawn,   \* Overdrawn[b]: how far below zero a remainder of b may be
    MaxCrashes,  \* bound: restarts of the process
    MaxLate      \* bound: no window with that many late records is revived

\* late is history: the requests recorded in a window whose check saw another.
Window == [count : Nat, left : Nat \cup {Never}, late : Nat]

Header == [remaining : Int \cup {None},
           reset : Nat \cup {Never, None}]

ASSUME LimiterAssumption ==
    /\ IsFiniteSet(Requests) /\ Requests # {}
    /\ Buckets # {} /\ Fixed \subseteq Buckets /\ Hinted \subseteq Buckets
    /\ Unit \in [Buckets -> {"requests", "tokens", "neurons"}]
    /\ \A b \in Buckets \ Fixed : Unit[b] = "requests"
    /\ Length \in [Buckets -> Nat \ {0}]
    /\ Limit \in [Buckets -> Nat \ {0}]
    /\ None \notin Int \cup {Never} /\ Never \notin Int
    /\ \A bs \in SUBSET Buckets : None \notin [bs -> Window]
    /\ Responses \subseteq [{"requests", "tokens"} -> Header]
    /\ MaxTokens \in Nat \ {0} /\ Usage \subseteq 0..MaxTokens
    /\ Overdrawn \in [Buckets -> Nat]
    /\ \A response \in Responses, b \in Buckets :
         Unit[b] # "neurons" /\ response[Unit[b]].remaining # None =>
           response[Unit[b]].remaining >= -Overdrawn[b]
    /\ {MaxCrashes, MaxLate} \subseteq Nat

VARIABLES
    configs,    \* this.configs is set
    windows,    \* memoryStore.windows
    isDirty,
    saved,      \* windows of rateLimitState in the file, None before the first save
    request,    \* the await each request is at
    saving,     \* the call of persistState
    crashes,
    overtaken   \* history: a change or a load overtook the last save

vars == <<configs, windows, isDirty, saved, request, saving, crashes, overtaken>>

NoWindows == [b \in {} |-> None]

Idle == [pc |-> "idle", got |-> None,
         early |-> {}]   \* history: buckets whose window came after its check

NoSave == [pc |-> "idle", store |-> None]

Init ==
    /\ configs = FALSE
    /\ windows = NoWindows
    /\ isDirty = FALSE
    /\ saved = None
    /\ request = [r \in Requests |-> Idle]
    /\ saving = NoSave
    /\ crashes = 0
    /\ overtaken = FALSE

-----------------------------------------------------------------------------
(* init(): awaits the configuration, sets it, awaits the saved windows and *)
(* replaces its own by them, if there are any.                             *)

Arrive(r) ==
    /\ request[r].pc = "idle"
    /\ ~configs
    /\ request' = [request EXCEPT ![r].pc = "configs"]
    /\ UNCHANGED <<configs, windows, isDirty, saved, saving, crashes, overtaken>>

SetConfigs(r) ==
    /\ request[r].pc = "configs"
    /\ configs' = TRUE
    /\ request' = [request EXCEPT ![r].pc = "state"]
    /\ UNCHANGED <<windows, isDirty, saved, saving, crashes, overtaken>>

ReadState(r) ==
    /\ request[r].pc = "state"
    /\ request' = [request EXCEPT ![r].pc = "loading", ![r].got = saved]
    /\ UNCHANGED <<configs, windows, isDirty, saved, saving, crashes, overtaken>>

LoadNothing(r) ==
    /\ request[r].pc = "loading"
    /\ request[r].got = None
    /\ request' = [request EXCEPT ![r].pc = "check"]
    /\ UNCHANGED <<configs, windows, isDirty, saved, saving, crashes, overtaken>>

\* A save that has not written yet keeps the object that is replaced.
Load(r) ==
    /\ request[r].pc = "loading"
    /\ request[r].got # None
    /\ windows' = request[r].got
    /\ request' = [q \in Requests |->
         IF q = r THEN [Idle EXCEPT !.pc = "check"]
                  ELSE [request[q] EXCEPT !.early =
                          IF request[q].pc = "calling" THEN Buckets ELSE {}]]
    /\ saving' = IF saving = [pc |-> "reading", store |-> None]
                   THEN [saving EXCEPT !.store = windows] ELSE saving
    /\ overtaken' = (overtaken \/ saving # NoSave \/ request[r].got # saved)
    /\ UNCHANGED <<configs, isDirty, saved, crashes>>

-----------------------------------------------------------------------------
(* checkLimit and recordUsage: no await once the configuration is there.   *)

\* Faulty: the count is looked at before the end of the window.
FullEver(b) == b \in DOMAIN windows /\ windows[b].count >= Limit[b]

Runs(b) == b \in DOMAIN windows /\ windows[b].left # 0

\* Faulty: the last request of the limit is not counted.
FullAbove(b) == Runs(b) /\ windows[b].count > Limit[b]

\* evaluateBucket
Full(b) == Runs(b) /\ windows[b].count >= Limit[b]

CheckLimit(r) ==
    /\ \/ request[r].pc = "idle" /\ configs
       \/ request[r].pc = "check"
    /\ request' = [request EXCEPT
         ![r] = [Idle EXCEPT !.pc = IF \E b \in Buckets : Full(b) THEN "idle" ELSE "calling"]]
    /\ UNCHANGED <<configs, windows, isDirty, saved, saving, crashes, overtaken>>

\* updateBucketState
Counted(b, tokens, isLate) ==
    LET use == IF Unit[b] = "requests" THEN 1 ELSE tokens IN
    IF Runs(b)
      THEN [windows[b] EXCEPT !.count = @ + use, !.late = IF isLate THEN @ + 1 ELSE @]
      ELSE [count |-> use, left |-> Length[b], late |-> 0]

Silent == [remaining |-> None, reset |-> None]

\* What the response says of b.
Said(b, response) ==
    IF Unit[b] = "neurons" THEN Silent
    ELSE IF b \in Hinted THEN response[Unit[b]]
    ELSE [response[Unit[b]] EXCEPT !.remaining = None]

\* syncFromHeaders: the provider's count replaces the own one, and its reset
\* the end, which decides only for a fixed bucket; each without the other too.
Synced(b, h) ==
    LET known == IF b \in DOMAIN windows THEN windows[b]
                 ELSE [count |-> 0, left |-> Length[b], late |-> 0]
        ended == IF h.reset # None /\ b \in Fixed THEN [known EXCEPT !.left = h.reset] ELSE known
    IN  IF h.remaining = None THEN ended
        ELSE [ended EXCEPT !.count = IF h.remaining < Limit[b] THEN Limit[b] - h.remaining ELSE 0,
                           !.late = 0]

\* A window that was over gets a new end and keeps its count.
Revives(b, h) ==
    /\ b \in DOMAIN windows /\ ~Runs(b)
    /\ h.remaining = None /\ Synced(b, h).left # 0

\* What headers speak of is not counted, be it only the reset.
Record(r, response, tokens) ==
    LET said == [b \in Buckets |-> Said(b, response)]
        revived == {b \in Buckets : Revives(b, said[b])}
    IN
    /\ request[r].pc = "calling"
    /\ \A b \in revived : windows[b].late < MaxLate
    /\ windows' = [b \in Buckets |->
         IF said[b] = Silent THEN Counted(b, tokens, b \in request[r].early)
                             ELSE Synced(b, said[b])]
    /\ request' = [q \in Requests |->
         IF q = r THEN Idle
         ELSE IF request[q].pc = "calling" THEN [request[q] EXCEPT !.early = @ \cup revived]
         ELSE request[q]]
    /\ overtaken' = (overtaken \/ saving.pc = "writing")
    /\ UNCHANGED <<configs, saved, saving, crashes>>

\* Faulty: what the headers say is not marked for saving.
RecordUsageClean(r) ==
    \E response \in Responses, tokens \in Usage :
        /\ Record(r, response, tokens)
        /\ isDirty' = (isDirty \/ \E b \in Buckets : Said(b, response) = Silent)

RecordUsage(r) ==
    /\ \E response \in Responses, tokens \in Usage : Record(r, response, tokens)
    /\ isDirty' = TRUE

\* The call failed, and its usage is not recorded.
Leave(r) ==
    /\ request[r].pc = "calling"
    /\ request' = [request EXCEPT ![r] = Idle]
    /\ UNCHANGED <<configs, windows, isDirty, saved, saving, crashes, overtaken>>

-----------------------------------------------------------------------------
(* persistState, and saveRateLimitState, which reads the file before it    *)
(* writes; the file is replaced in one go.                                 *)

Persist ==
    /\ saving = NoSave
    /\ isDirty
    /\ saving' = [NoSave EXCEPT !.pc = "reading"]
    /\ UNCHANGED <<configs, windows, isDirty, saved, request, crashes, overtaken>>

Write ==
    /\ saving.pc = "reading"
    /\ saving' = [pc |-> "writing", store |-> IF saving.store = None THEN windows ELSE saving.store]
    /\ overtaken' = (overtaken /\ saving.store # None)
    /\ UNCHANGED <<configs, windows, isDirty, saved, request, crashes>>

Saved ==
    /\ saving.pc = "writing"
    /\ saved' = saving.store
    /\ saving' = NoSave
    /\ isDirty' = FALSE
    /\ UNCHANGED <<configs, windows, request, crashes, overtaken>>

SaveFails ==
    /\ saving # NoSave
    /\ saving' = NoSave
    /\ UNCHANGED <<configs, windows, isDirty, saved, request, crashes, overtaken>>

-----------------------------------------------------------------------------
Aged(ws) ==
    IF ws = None THEN None
    ELSE [b \in DOMAIN ws |-> [ws[b] EXCEPT !.left = IF @ \in {0, Never} THEN @ ELSE @ - 1]]

Tick ==
    /\ windows' = Aged(windows)
    /\ saved' = Aged(saved)
    /\ request' = [r \in Requests |-> [request[r] EXCEPT !.got = Aged(@)]]
    /\ saving' = [saving EXCEPT !.store = Aged(@)]
    /\ UNCHANGED <<configs, isDirty, crashes, overtaken>>

Crash ==
    /\ crashes < MaxCrashes
    /\ crashes' = crashes + 1
    /\ configs' = FALSE
    /\ windows' = NoWindows
    /\ isDirty' = FALSE
    /\ \/ saved' = saved
       \/ saving.pc = "writing" /\ saved' = saving.store
    /\ request' = [r \in Requests |-> Idle]
    /\ saving' = NoSave
    /\ overtaken' = FALSE

RequestStep(r) ==
    \/ Arrive(r) \/ SetConfigs(r) \/ ReadState(r) \/ LoadNothing(r) \/ Load(r)
    \/ CheckLimit(r) \/ RecordUsage(r) \/ Leave(r)

Next ==
    \/ \E r \in Requests : RequestStep(r)
    \/ Persist \/ Write \/ Saved \/ SaveFails
    \/ Tick
    \/ Crash

Spec == Init /\ [][Next]_vars

\* Time passes.
FairSpec == Spec /\ WF_vars(Tick)

-----------------------------------------------------------------------------
(* Properties.                                                             *)

IsWindows(ws) == \E bs \in SUBSET Buckets : ws \in [bs -> Window]
IsStored(ws) == ws = None \/ IsWindows(ws)

TypeOK ==
    /\ configs \in BOOLEAN /\ isDirty \in BOOLEAN /\ overtaken \in BOOLEAN
    /\ IsWindows(windows)
    /\ IsStored(saved)
    /\ request \in [Requests ->
         [pc : {"idle", "configs", "state", "loading", "check", "calling"},
          got : {request[r].got : r \in Requests}, early : SUBSET Buckets]]
    /\ \A r \in Requests : IsStored(request[r].got)
    /\ saving \in [pc : {"idle", "reading", "writing"}, store : {saving.store}]
    /\ IsStored(saving.store)
    /\ saving.pc = "writing" => saving.store # None
    /\ crashes \in 0..MaxCrashes

\* What a request may add to a bucket.
Share(b) == IF Unit[b] = "requests" THEN 1 ELSE MaxTokens

\* What goes past the limit at once: a request that was checked just below it,
\* or what a provider says was used too much.
Excess(b) == IF Overdrawn[b] < Share(b) THEN Share(b) - 1 ELSE Overdrawn[b]

\* What a window with n late records may hold.
Most(b, n) == Limit[b] + Excess(b) + (Cardinality(Requests) - 1 + n) * Share(b)

\* Check and record are two calls with the provider's answer between them: the
\* count of a window, in memory or in the file, exceeds the limit by no more
\* than what the requests under way use, and those recorded in it whose check
\* saw another window, because a load replaced it, or a reset without a
\* remainder brought an old one back.
Overshoot ==
    \A ws \in {windows, saved} \ {None} : \A b \in DOMAIN ws :
        ws[b].count <= Most(b, ws[b].late)

\* Nothing under way and isDirty not set: the file holds what memory holds,
\* unless usage was recorded, or the windows replaced, during the last save.
SavedWhenClean ==
    /\ configs /\ ~isDirty /\ saving = NoSave
    /\ \A r \in Requests : request[r].pc \notin {"configs", "state", "loading"}
    => overtaken \/ windows = (IF saved = None THEN NoWindows ELSE saved)

\* A bucket that refuses requests does not refuse them for ever, whatever
\* loads, restarts and headers do to its window, unless a reset that could not
\* be read took its end away.
DenialEnds == \A b \in Buckets : Full(b) ~> ~Full(b) \/ windows[b].left = Never

\* "e.g. Daily quota resetting at 00:00 UTC",
\* src/src/lib/routing/rateLimiter.js:246.
QuotaResets == \A b \in Buckets : Full(b) ~> ~Full(b)
=============================================================================
