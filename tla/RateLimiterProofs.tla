-------------------------- MODULE RateLimiterProofs --------------------------
(***************************************************************************)
(* Proofs about RateLimiter for every finite set of requests, every set of *)
(* buckets and limits, every set of responses, and any number of restarts: *)
(* how far a limit may be exceeded, and what the file holds when nothing   *)
(* is left to be saved.                                                    *)
(***************************************************************************)
EXTENDS RateLimiter, FiniteSetTheorems, TLAPS

WindowSets == UNION {[bs -> Window] : bs \in SUBSET Buckets}

Stores == WindowSets \cup {None}

Request ==
    [pc : {"idle", "configs", "state", "loading", "check", "calling"},
     got : Stores, early : SUBSET Buckets]

\* TypeOK, with the sets its values are drawn from.
Types ==
    /\ configs \in BOOLEAN /\ isDirty \in BOOLEAN /\ overtaken \in BOOLEAN
    /\ windows \in WindowSets
    /\ saved \in Stores
    /\ request \in [Requests -> Request]
    /\ saving \in [pc : {"idle", "reading", "writing"}, store : Stores]
    /\ saving.pc = "writing" => saving.store # None
    /\ crashes \in 0..MaxCrashes

\* Requests let through by a check of the window b has now.
Callers(b) == {r \in Requests : request[r].pc = "calling" /\ b \notin request[r].early}

Bounded(ws) == ws # None => \A b \in DOMAIN ws : ws[b].count <= Most(b, ws[b].late)

\* w has room for k requests under way.
Fits(b, w, k) == w.count + k * Share(b) <= Most(b, w.late)

\* Every version of the windows is bounded, and a window that still runs has
\* room for those that were let through by it.
Room ==
    /\ Bounded(windows) /\ Bounded(saved) /\ Bounded(saving.store)
    /\ \A r \in Requests : Bounded(request[r].got)
    /\ \A b \in Buckets : Runs(b) => Fits(b, windows[b], Cardinality(Callers(b)))

\* Before the first configuration there is nothing; a save under way keeps
\* isDirty set, and what it writes is what is in memory or was overtaken.
Saves ==
    /\ ~configs => /\ windows = NoWindows /\ ~isDirty /\ saving = NoSave
                   /\ \A r \in Requests : request[r].pc \in {"idle", "configs"}
    /\ saving.pc = "idle" => saving = NoSave
    /\ saving.pc # "idle" => isDirty
    /\ saving.pc = "reading" /\ saving.store # None => overtaken
    /\ saving.pc = "writing" => overtaken \/ windows = saving.store

\* A request of init() is about to read the file, or has read what it holds.
Initialising == \E r \in Requests :
    \/ request[r].pc = "state"
    \/ request[r].pc = "loading" /\ request[r].got = saved

InFile == IF saved = None THEN NoWindows ELSE saved

\* Nothing to save: memory is what the file holds, or init() is about to load.
Clean ==
    configs /\ ~isDirty /\ saving.pc = "idle" =>
        overtaken \/ windows = InFile \/ (windows = NoWindows /\ Initialising)

IInv == Types /\ Room /\ Saves /\ Clean

-----------------------------------------------------------------------------
(* Windows.                                                                *)

\* A function from some buckets to windows is a set of windows.
LEMMA WindowsIntro ==
    ASSUME NEW bs \in SUBSET Buckets, NEW f \in [bs -> Window]
    PROVE  f \in WindowSets
BY DEF WindowSets

\* What a set of windows is made of.
LEMMA WindowsElim ==
    ASSUME NEW ws \in WindowSets
    PROVE  /\ DOMAIN ws \subseteq Buckets
           /\ ws \in [DOMAIN ws -> Window]
           /\ \A b \in DOMAIN ws : ws[b] \in Window
           /\ ws # None
<1>1. PICK bs \in SUBSET Buckets : ws \in [bs -> Window]
  BY DEF WindowSets
<1>2. DOMAIN ws = bs
  BY <1>1
<1>4. ws # None
  BY <1>1, LimiterAssumption
<1>5. QED BY <1>1, <1>2, <1>4

\* No windows at all.
LEMMA NoWindowsType == NoWindows \in WindowSets /\ DOMAIN NoWindows = {}
<1>1. NoWindows \in [{} -> Window]
  BY DEF NoWindows
<1>2. QED BY <1>1, WindowsIntro DEF NoWindows

\* Time changes no count, and revives no window.
LEMMA AgedFacts ==
    ASSUME NEW ws \in WindowSets
    PROVE  /\ Aged(ws) \in WindowSets
           /\ DOMAIN Aged(ws) = DOMAIN ws
           /\ \A b \in DOMAIN ws : /\ Aged(ws)[b].count = ws[b].count
                                   /\ Aged(ws)[b].late = ws[b].late
                                   /\ ws[b].left = 0 => Aged(ws)[b].left = 0
<1>1. ws # None /\ DOMAIN ws \in SUBSET Buckets /\ ws \in [DOMAIN ws -> Window]
  BY WindowsElim
<1>2. Aged(ws) = [b \in DOMAIN ws |->
                    [ws[b] EXCEPT !.left = IF @ \in {0, Never} THEN @ ELSE @ - 1]]
  BY <1>1 DEF Aged
<1>3. ASSUME NEW b \in DOMAIN ws
      PROVE  /\ Aged(ws)[b] \in Window
             /\ Aged(ws)[b].count = ws[b].count
             /\ Aged(ws)[b].late = ws[b].late
             /\ ws[b].left = 0 => Aged(ws)[b].left = 0
  <2>1. ws[b] \in Window
    BY <1>1
  <2>2. PICK left \in Nat \cup {Never} :
            /\ left = IF ws[b].left \in {0, Never} THEN ws[b].left ELSE ws[b].left - 1
            /\ ws[b].left = 0 => left = 0
    <3>1. CASE ws[b].left \in {0, Never}
      BY <3>1
    <3>2. CASE ws[b].left \notin {0, Never}
      <4>1. ws[b].left \in Nat /\ ws[b].left # 0
        BY <2>1, <3>2 DEF Window
      <4>2. ws[b].left - 1 \in Nat
        BY <4>1
      <4>3. QED BY <3>2, <4>1, <4>2
    <3>3. QED BY <3>1, <3>2
  <2>3. Aged(ws)[b] = [ws[b] EXCEPT !.left = left]
    BY <1>2, <2>2
  <2>4. QED BY <2>1, <2>2, <2>3 DEF Window
<1>4. DOMAIN Aged(ws) = DOMAIN ws
  BY <1>2
<1>5. Aged(ws) \in [DOMAIN ws -> Window]
  BY <1>2, <1>3
<1>6. QED BY <1>1, <1>3, <1>4, <1>5, WindowsIntro

\* The same of what may be None.
LEMMA AgedStore ==
    ASSUME NEW ws \in Stores
    PROVE  Aged(ws) \in Stores /\ (Aged(ws) = None <=> ws = None)
<1>1. CASE ws = None
  BY <1>1 DEF Aged, Stores
<1>2. CASE ws \in WindowSets
  BY <1>2, AgedFacts, WindowsElim DEF Stores
<1>3. QED BY <1>1, <1>2 DEF Stores

\* Nothing ages.
LEMMA AgedNoWindows == Aged(NoWindows) = NoWindows
<1>1. NoWindows # None
  BY NoWindowsType, WindowsElim
<1>2. QED BY <1>1 DEF Aged, NoWindows

-----------------------------------------------------------------------------
(* What a response makes of a bucket.                                      *)

\* What goes past a limit covers one request, and what a provider may say.
LEMMA ShareFacts ==
    ASSUME NEW b \in Buckets
    PROVE  /\ Limit[b] \in Nat \ {0} /\ Length[b] \in Nat \ {0}
           /\ Share(b) \in Nat \ {0} /\ Excess(b) \in Nat
           /\ Share(b) - 1 <= Excess(b) /\ Overdrawn[b] <= Excess(b) /\ Overdrawn[b] \in Nat
           /\ \A tokens \in Usage : tokens \in Nat /\ tokens <= MaxTokens
<1>1. Limit[b] \in Nat \ {0} /\ Length[b] \in Nat \ {0} /\ MaxTokens \in Nat \ {0}
  BY LimiterAssumption
<1>2. Overdrawn[b] \in Nat
  BY LimiterAssumption
<1>3. \A tokens \in Usage : tokens \in Nat /\ tokens <= MaxTokens
  BY <1>1, LimiterAssumption
<1>4. Share(b) \in Nat \ {0}
  BY <1>1 DEF Share
<1>5. Excess(b) \in Nat /\ Share(b) - 1 <= Excess(b) /\ Overdrawn[b] <= Excess(b)
  BY <1>2, <1>4 DEF Excess
<1>6. QED BY <1>1, <1>2, <1>3, <1>4, <1>5

\* What is said of a bucket is a remainder, a reset, both or nothing.
LEMMA SaidType ==
    ASSUME NEW b \in Buckets, NEW response \in Responses
    PROVE  /\ Said(b, response) \in Header
           /\ Said(b, response).remaining # None => Said(b, response).remaining >= -Overdrawn[b]
<1>1. Silent \in Header /\ Silent.remaining = None
  BY DEF Silent, Header
<1>2. CASE Unit[b] = "neurons"
  BY <1>1, <1>2 DEF Said
<1>3. CASE Unit[b] # "neurons"
  <2>1. Unit[b] \in {"requests", "tokens"}
    BY <1>3, LimiterAssumption
  <2>2. response \in [{"requests", "tokens"} -> Header]
    BY LimiterAssumption
  <2>3. response[Unit[b]] \in Header
    BY <2>1, <2>2
  <2>4. /\ [response[Unit[b]] EXCEPT !.remaining = None] \in Header
        /\ [response[Unit[b]] EXCEPT !.remaining = None].remaining = None
    BY <2>3 DEF Header
  <2>5. response[Unit[b]].remaining # None => response[Unit[b]].remaining >= -Overdrawn[b]
    BY <1>3, LimiterAssumption
  <2>6. QED BY <1>3, <2>3, <2>4, <2>5 DEF Said
<1>4. QED BY <1>2, <1>3

\* A count of one's own begins a window, or adds to the one that runs.
LEMMA CountedFacts ==
    ASSUME Types, NEW b \in Buckets, NEW tokens \in Usage, NEW isLate \in BOOLEAN
    PROVE  /\ Counted(b, tokens, isLate) \in Window
           /\ \E use \in Nat :
                /\ use <= Share(b)
                /\ \/ /\ ~Runs(b)
                      /\ Counted(b, tokens, isLate) = [count |-> use, left |-> Length[b], late |-> 0]
                   \/ /\ Runs(b)
                      /\ Counted(b, tokens, isLate) =
                           [count |-> windows[b].count + use, left |-> windows[b].left,
                            late |-> windows[b].late + (IF isLate THEN 1 ELSE 0)]
<1>1. PICK use : use = IF Unit[b] = "requests" THEN 1 ELSE tokens
  OBVIOUS
<1>2. use \in Nat /\ use <= Share(b)
  BY <1>1, ShareFacts DEF Share
<1>3. Length[b] \in Nat
  BY ShareFacts
<1>4. CASE Runs(b)
  <2>1. windows[b] \in Window
    BY <1>4, WindowsElim DEF Types, Runs
  <2>2. Counted(b, tokens, isLate) =
          [windows[b] EXCEPT !.count = @ + use, !.late = IF isLate THEN @ + 1 ELSE @]
    BY <1>1, <1>4 DEF Counted
  <2>3. /\ windows[b].count \in Nat /\ windows[b].late \in Nat
        /\ windows[b].left \in Nat \cup {Never}
        /\ windows[b] = [count |-> windows[b].count, left |-> windows[b].left,
                         late |-> windows[b].late]
    BY <2>1 DEF Window
  <2>4. Counted(b, tokens, isLate) =
          [count |-> windows[b].count + use, left |-> windows[b].left,
           late |-> windows[b].late + (IF isLate THEN 1 ELSE 0)]
    <3>1. PICK n \in Nat : n = IF isLate THEN windows[b].late + 1 ELSE windows[b].late
      BY <2>3
    <3>2. Counted(b, tokens, isLate) =
            [windows[b] EXCEPT !.count = windows[b].count + use, !.late = n]
      BY <2>2, <3>1
    <3>3. Counted(b, tokens, isLate) =
            [count |-> windows[b].count + use, left |-> windows[b].left, late |-> n]
      BY <2>3, <3>2
    <3>4. n = windows[b].late + (IF isLate THEN 1 ELSE 0)
      BY <2>3, <3>1
    <3>5. QED BY <3>3, <3>4
  <2>5. Counted(b, tokens, isLate) \in Window
    BY <1>2, <2>3, <2>4 DEF Window
  <2>6. QED BY <1>2, <1>4, <2>4, <2>5
<1>5. CASE ~Runs(b)
  <2>1. Counted(b, tokens, isLate) = [count |-> use, left |-> Length[b], late |-> 0]
    BY <1>1, <1>5 DEF Counted
  <2>2. Counted(b, tokens, isLate) \in Window
    BY <1>2, <1>3, <2>1 DEF Window
  <2>3. QED BY <1>2, <1>5, <2>1, <2>2
<1>6. QED BY <1>4, <1>5

\* A remainder sets the count; a reset alone keeps it, and what is not there
\* yet begins with nothing.
LEMMA SyncedFacts ==
    ASSUME Types, NEW b \in Buckets, NEW h \in Header,
           h.remaining # None => h.remaining >= -Overdrawn[b]
    PROVE  /\ Synced(b, h) \in Window
           /\ h.remaining # None =>
                Synced(b, h).count <= Limit[b] + Overdrawn[b] /\ Synced(b, h).late = 0
           /\ h.remaining = None /\ b \notin DOMAIN windows =>
                Synced(b, h).count = 0 /\ Synced(b, h).late = 0
           /\ h.remaining = None /\ b \in DOMAIN windows =>
                /\ Synced(b, h).count = windows[b].count
                /\ Synced(b, h).late = windows[b].late
<1> DEFINE known == IF b \in DOMAIN windows THEN windows[b]
                    ELSE [count |-> 0, left |-> Length[b], late |-> 0]
           ended == IF h.reset # None /\ b \in Fixed THEN [known EXCEPT !.left = h.reset]
                    ELSE known
<1>1. known \in Window
  <2>1. b \in DOMAIN windows => windows[b] \in Window
    BY WindowsElim DEF Types
  <2>2. QED BY <2>1, ShareFacts DEF Window
<1>2. ended \in Window /\ ended.count = known.count /\ ended.late = known.late
  <2>1. h.reset # None => h.reset \in Nat \cup {Never}
    BY DEF Header
  <2> HIDE DEF known
  <2>2. QED BY <1>1, <2>1 DEF Window
<1> HIDE DEF ended
<1>3. CASE h.remaining = None
  <2>1. Synced(b, h) = ended
    BY <1>3 DEF Synced, ended
  <2>2. QED BY <1>2, <1>3, <2>1
<1>4. CASE h.remaining # None
  <2>1. h.remaining \in Int /\ h.remaining >= -Overdrawn[b]
    BY <1>4 DEF Header
  <2>2. PICK count : count = IF h.remaining < Limit[b] THEN Limit[b] - h.remaining ELSE 0
    OBVIOUS
  <2>3. count \in Nat /\ count <= Limit[b] + Overdrawn[b]
    BY <2>1, <2>2, ShareFacts
  <2>4. Synced(b, h) = [ended EXCEPT !.count = count, !.late = 0]
    BY <1>4, <2>2 DEF Synced, ended
  <2>5. Synced(b, h) = [count |-> count, left |-> ended.left, late |-> 0]
    BY <1>2, <2>4 DEF Window
  <2>6. ended.left \in Nat \cup {Never}
    BY <1>2 DEF Window
  <2>7. Synced(b, h) \in Window
    BY <2>3, <2>5, <2>6 DEF Window
  <2>8. QED BY <1>4, <2>3, <2>5, <2>7
<1>5. QED BY <1>3, <1>4

\* Recording makes a window of every bucket.
LEMMA RecordFacts ==
    ASSUME Types, NEW r \in Requests, NEW response \in Responses, NEW tokens \in Usage,
           Record(r, response, tokens)
    PROVE  /\ windows' \in [Buckets -> Window]
           /\ \A b \in Buckets :
                windows'[b] = IF Said(b, response) = Silent
                                THEN Counted(b, tokens, b \in request[r].early)
                                ELSE Synced(b, Said(b, response))
           /\ request'[r] = Idle
           /\ \A q \in Requests : q # r =>
                /\ request'[q].pc = request[q].pc /\ request'[q].got = request[q].got
                /\ request[q].pc # "calling" => request'[q] = request[q]
                /\ request[q].pc = "calling" =>
                     request'[q].early = request[q].early
                       \cup {b \in Buckets : Revives(b, Said(b, response))}
           /\ request' \in [Requests -> Request]
           /\ UNCHANGED <<configs, saved, saving, crashes>>
           /\ overtaken' \in BOOLEAN
<1> DEFINE revived == {b \in Buckets : Revives(b, Said(b, response))}
<1>0. \A q \in Requests : request[q] \in Request
  BY DEF Types
<1>a. windows' = [b \in Buckets |->
         IF Said(b, response) = Silent THEN Counted(b, tokens, b \in request[r].early)
                                       ELSE Synced(b, Said(b, response))]
  BY Zenon DEF Record
<1>1. ASSUME NEW b \in Buckets
      PROVE  windows'[b] = IF Said(b, response) = Silent
                             THEN Counted(b, tokens, b \in request[r].early)
                             ELSE Synced(b, Said(b, response))
  BY <1>a, Zenon
<1>2. ASSUME NEW b \in Buckets PROVE windows'[b] \in Window
  <2>1. Counted(b, tokens, b \in request[r].early) \in Window
    <3>1. (b \in request[r].early) \in BOOLEAN
      OBVIOUS
    <3>2. QED BY <3>1, CountedFacts
  <2>2. Synced(b, Said(b, response)) \in Window
    BY SaidType, SyncedFacts
  <2>3. QED BY <1>1, <2>1, <2>2
<1>3. windows' \in [Buckets -> Window]
  <2>1. windows' = [b \in Buckets |-> windows'[b]]
    BY <1>a, <1>1, Zenon
  <2>2. QED BY <1>2, <2>1, Zenon
<1>4. request' = [q \in Requests |->
         IF q = r THEN Idle
         ELSE IF request[q].pc = "calling" THEN [request[q] EXCEPT !.early = @ \cup revived]
         ELSE request[q]]
  <2>1. {b \in Buckets : Revives(b, [c \in Buckets |-> Said(c, response)][b])} = revived
    OBVIOUS
  <2>2. QED BY <2>1 DEF Record
<1>5. Idle \in Request
  BY DEF Idle, Request, Stores
<1>6. ASSUME NEW q \in Requests
      PROVE  /\ [request[q] EXCEPT !.early = @ \cup revived] \in Request
             /\ [request[q] EXCEPT !.early = @ \cup revived].pc = request[q].pc
             /\ [request[q] EXCEPT !.early = @ \cup revived].got = request[q].got
             /\ [request[q] EXCEPT !.early = @ \cup revived].early = request[q].early \cup revived
  <2>1. revived \subseteq Buckets
    OBVIOUS
  <2> HIDE DEF revived
  <2>2. QED BY <1>0, <2>1 DEF Request
<1> HIDE DEF revived
<1>7. request' \in [Requests -> Request]
  BY <1>0, <1>4, <1>5, <1>6
<1>8. ASSUME NEW q \in Requests, q # r
      PROVE  /\ request'[q].pc = request[q].pc /\ request'[q].got = request[q].got
             /\ request[q].pc # "calling" => request'[q] = request[q]
             /\ request[q].pc = "calling" => request'[q].early = request[q].early \cup revived
  BY <1>4, <1>6, <1>8
<1>9. request'[r] = Idle
  BY <1>4
<1>10. UNCHANGED <<configs, saved, saving, crashes>> /\ overtaken' \in BOOLEAN
  BY DEF Record, Types
<1>11. QED BY <1>1, <1>3, <1>7, <1>8, <1>9, <1>10 DEF revived

-----------------------------------------------------------------------------
(* Type correctness.                                                       *)

\* Every step keeps the types.
LEMMA TypesInductive == Types /\ [Next]_vars => Types'
<1> SUFFICES ASSUME Types, [Next]_vars PROVE Types'
  OBVIOUS
<1>0. Idle \in Request /\ [Idle EXCEPT !.pc = "check"] \in Request
        /\ [Idle EXCEPT !.pc = "calling"] \in Request
  BY DEF Idle, Request, Stores
<1>1. ASSUME NEW r \in Requests, Arrive(r) PROVE Types'
  BY <1>1 DEF Arrive, Types, Request
<1>2. ASSUME NEW r \in Requests, SetConfigs(r) PROVE Types'
  BY <1>2 DEF SetConfigs, Types, Request
<1>3. ASSUME NEW r \in Requests, ReadState(r) PROVE Types'
  BY <1>3 DEF ReadState, Types, Request
<1>4. ASSUME NEW r \in Requests, LoadNothing(r) PROVE Types'
  BY <1>4 DEF LoadNothing, Types, Request
<1>5. ASSUME NEW r \in Requests, Load(r) PROVE Types'
  <2>1. request[r] \in Request /\ request[r].got \in WindowSets
    BY <1>5 DEF Load, Types, Request, Stores
  <2>2. windows' \in WindowSets
    BY <1>5, <2>1 DEF Load
  <2>3. request' \in [Requests -> Request]
    <3>1. ASSUME NEW q \in Requests
          PROVE  [request[q] EXCEPT !.early =
                    IF request[q].pc = "calling" THEN Buckets ELSE {}] \in Request
      <4>1. request[q] \in Request
        BY DEF Types
      <4>2. (IF request[q].pc = "calling" THEN Buckets ELSE {}) \in SUBSET Buckets
        OBVIOUS
      <4>3. QED BY <4>1, <4>2 DEF Request
    <3>2. QED BY <1>0, <1>5, <3>1 DEF Load
  <2>4. /\ saving' \in [pc : {"idle", "reading", "writing"}, store : Stores]
        /\ saving'.pc = "writing" => saving'.store # None
    BY <1>5 DEF Load, Types, Stores
  <2>5. overtaken' \in BOOLEAN
    BY <1>5 DEF Load, Types
  <2>6. UNCHANGED <<configs, isDirty, saved, crashes>>
    BY <1>5 DEF Load
  <2>7. QED BY <2>2, <2>3, <2>4, <2>5, <2>6 DEF Types
<1>6. ASSUME NEW r \in Requests, CheckLimit(r) PROVE Types'
  <2>1. [Idle EXCEPT !.pc = IF \E b \in Buckets : Full(b) THEN "idle" ELSE "calling"] \in Request
    BY DEF Idle, Request, Stores
  <2>2. request' \in [Requests -> Request]
    BY <1>6, <2>1 DEF CheckLimit, Types
  <2>3. UNCHANGED <<configs, windows, isDirty, saved, saving, crashes, overtaken>>
    BY <1>6 DEF CheckLimit
  <2>4. QED BY <2>2, <2>3 DEF Types
<1>8. ASSUME NEW r \in Requests, RecordUsage(r) PROVE Types'
  <2>1. PICK response \in Responses, tokens \in Usage : Record(r, response, tokens)
    BY <1>8 DEF RecordUsage
  <2>2. windows' \in WindowSets
    BY <2>1, RecordFacts, WindowsIntro
  <2>3. /\ request' \in [Requests -> Request] /\ overtaken' \in BOOLEAN
        /\ UNCHANGED <<configs, saved, saving, crashes>>
    BY <2>1, RecordFacts
  <2>4. QED BY <1>8, <2>2, <2>3 DEF RecordUsage, Types
<1>10. ASSUME NEW r \in Requests, Leave(r) PROVE Types'
  BY <1>0, <1>10 DEF Leave, Types
<1>11. CASE Persist
  BY <1>11 DEF Persist, NoSave, Types, Stores
<1>12. CASE Write
  <2>1. windows \in Stores /\ windows # None
    BY WindowsElim DEF Types, Stores
  <2>2. QED BY <1>12, <2>1 DEF Write, Types
<1>13. CASE Saved
  BY <1>13 DEF Saved, NoSave, Types, Stores
<1>14. CASE SaveFails
  BY <1>14 DEF SaveFails, NoSave, Types, Stores
<1>15. CASE Tick
  <2>1. windows' \in WindowSets /\ saved' \in Stores
    BY <1>15, AgedFacts, AgedStore DEF Tick, Types
  <2>2. request' \in [Requests -> Request]
    <3>1. ASSUME NEW r \in Requests PROVE [request[r] EXCEPT !.got = Aged(@)] \in Request
      <4>1. request[r] \in Request /\ request[r].got \in Stores
        BY DEF Types, Request
      <4>2. QED BY <4>1, AgedStore DEF Request
    <3>2. QED BY <1>15, <3>1 DEF Tick
  <2>3. /\ saving' \in [pc : {"idle", "reading", "writing"}, store : Stores]
        /\ saving'.pc = "writing" => saving'.store # None
    <3>1. saving.store \in Stores
      BY DEF Types
    <3>2. Aged(saving.store) \in Stores /\ (Aged(saving.store) = None <=> saving.store = None)
      BY <3>1, AgedStore
    <3>3. saving' = [saving EXCEPT !.store = Aged(saving.store)]
      BY <1>15 DEF Tick
    <3>4. saving'.pc = saving.pc /\ saving'.store = Aged(saving.store)
      BY <3>3 DEF Types
    <3>5. QED BY <3>2, <3>3, <3>4 DEF Types
  <2>4. UNCHANGED <<configs, isDirty, crashes, overtaken>>
    BY <1>15 DEF Tick
  <2>5. QED BY <2>1, <2>2, <2>3, <2>4 DEF Types
<1>16. CASE Crash
  <2>1. saved' \in Stores
    BY <1>16 DEF Crash, Types
  <2>2. request' \in [Requests -> Request]
    BY <1>0, <1>16 DEF Crash
  <2>3. windows' \in WindowSets
    BY <1>16, NoWindowsType DEF Crash
  <2>4. /\ saving' \in [pc : {"idle", "reading", "writing"}, store : Stores]
        /\ saving'.pc = "writing" => saving'.store # None
    BY <1>16 DEF Crash, NoSave, Stores
  <2>5. crashes' \in 0..MaxCrashes
    BY <1>16, LimiterAssumption DEF Crash, Types
  <2>6. configs' \in BOOLEAN /\ isDirty' \in BOOLEAN /\ overtaken' \in BOOLEAN
    BY <1>16 DEF Crash, Types
  <2>7. QED BY <2>1, <2>2, <2>3, <2>4, <2>5, <2>6 DEF Types
<1>17. CASE UNCHANGED vars
  BY <1>17 DEF vars, Types
<1>18. QED
  BY <1>1, <1>2, <1>3, <1>4, <1>5, <1>6, <1>8, <1>10, <1>11, <1>12,
     <1>13, <1>14, <1>15, <1>16, <1>17 DEF Next, RequestStep

-----------------------------------------------------------------------------
(* How far a limit may be exceeded.                                        *)

\* Products of what is compared.
LEMMA Products ==
    ASSUME NEW m \in Nat, NEW n \in Nat, NEW s \in Nat
    PROVE  /\ m * s \in Nat
           /\ (m + 1) * s = m * s + s
           /\ m <= n => m * s <= n * s
<1>1. m * s \in Nat /\ (m + 1) * s = m * s + s
  OBVIOUS
<1>2. ASSUME m <= n PROVE m * s <= n * s
  <2>1. PICK d \in Nat : n = m + d
    BY <1>2
  <2>2. n * s = m * s + d * s /\ d * s \in Nat
    BY <2>1
  <2>3. QED BY <1>1, <2>2
<1>3. QED BY <1>1, <1>2

\* The requests let through are some of all of them.
LEMMA CallersFacts ==
    ASSUME Types, NEW b
    PROVE  /\ Cardinality(Requests) \in Nat /\ Cardinality(Requests) > 0
           /\ IsFiniteSet(Callers(b))
           /\ Cardinality(Callers(b)) \in Nat
           /\ Cardinality(Callers(b)) <= Cardinality(Requests)
<1>1. IsFiniteSet(Requests) /\ Requests # {}
  BY LimiterAssumption
<1>2. Callers(b) \subseteq Requests
  BY DEF Callers
<1>3. QED BY <1>1, <1>2, FS_Subset, FS_CardinalityType, FS_EmptySet

\* The bound is a number, and a request more is a share more.
LEMMA MostFacts ==
    ASSUME NEW b \in Buckets, NEW n \in Nat
    PROVE  /\ Most(b, n) \in Nat
           /\ Most(b, n + 1) = Most(b, n) + Share(b)
           /\ \A c, k \in Nat : c <= Limit[b] + Excess(b) /\ k <= Cardinality(Requests) - 1 =>
                c + k * Share(b) <= Most(b, n)
           /\ \A c, k \in Nat : c < Limit[b] /\ k <= Cardinality(Requests) =>
                c + k * Share(b) <= Most(b, n)
<1> DEFINE s == Share(b)
           all == Cardinality(Requests) - 1 + n
<1>1. s \in Nat \ {0} /\ Limit[b] \in Nat /\ Excess(b) \in Nat /\ s - 1 <= Excess(b)
  BY ShareFacts
<1>2. Cardinality(Requests) \in Nat /\ Cardinality(Requests) > 0
  BY LimiterAssumption, FS_CardinalityType, FS_EmptySet
<1>3. all \in Nat /\ Cardinality(Requests) - 1 + (n + 1) = all + 1
  BY <1>2
<1>4. Most(b, n) = Limit[b] + Excess(b) + all * s
  BY DEF Most
<1>5. Most(b, n + 1) = Limit[b] + Excess(b) + (all + 1) * s
  BY <1>3 DEF Most
<1>6. \A k \in Nat : k <= Cardinality(Requests) - 1 => k <= all
  BY <1>2
<1>7. \A k \in Nat : k <= Cardinality(Requests) => k <= all + 1
  BY <1>2
<1> HIDE DEF s, all
<1>8. all * s \in Nat /\ (all + 1) * s = all * s + s
  BY <1>1, <1>3, Products
<1>9. Most(b, n) \in Nat /\ Most(b, n + 1) = Most(b, n) + s
  BY <1>1, <1>4, <1>5, <1>8
<1>10. ASSUME NEW c \in Nat, NEW k \in Nat,
              c <= Limit[b] + Excess(b), k <= Cardinality(Requests) - 1
       PROVE  c + k * s <= Most(b, n)
  <2>1. k * s \in Nat /\ k * s <= all * s
    BY <1>1, <1>3, <1>6, <1>10, Products
  <2>2. QED BY <1>1, <1>4, <1>8, <1>10, <2>1
<1>11. ASSUME NEW c \in Nat, NEW k \in Nat, c < Limit[b], k <= Cardinality(Requests)
       PROVE  c + k * s <= Most(b, n)
  <2>1. k * s \in Nat /\ k * s <= (all + 1) * s
    BY <1>1, <1>3, <1>7, <1>11, Products
  <2>2. QED BY <1>1, <1>4, <1>8, <1>11, <2>1
<1>12. QED BY <1>9, <1>10, <1>11 DEF s

\* Room for more requests is room for fewer, and room is a bound.
LEMMA FitsFewer ==
    ASSUME NEW b \in Buckets, NEW w \in Window, NEW k \in Nat, NEW j \in Nat,
           Fits(b, w, k), j <= k
    PROVE  Fits(b, w, j) /\ w.count <= Most(b, w.late)
<1>1. w.count \in Nat /\ w.late \in Nat
  BY DEF Window
<1>2. Share(b) \in Nat /\ Most(b, w.late) \in Nat
  BY <1>1, ShareFacts, MostFacts
<1>3. j * Share(b) \in Nat /\ k * Share(b) \in Nat /\ j * Share(b) <= k * Share(b)
  BY <1>2, Products
<1>4. w.count + k * Share(b) <= Most(b, w.late)
  BY DEF Fits
<1>5. QED BY <1>1, <1>2, <1>3, <1>4 DEF Fits

\* Nobody under way: the bound is the room there is.
LEMMA FitsNone ==
    ASSUME NEW b \in Buckets, NEW w \in Window, w.count <= Most(b, w.late)
    PROVE  Fits(b, w, 0)
<1>1. w.count \in Nat /\ Share(b) \in Nat
  BY ShareFacts DEF Window
<1>2. 0 * Share(b) = 0
  BY <1>1
<1>3. QED BY <1>1, <1>2 DEF Fits

\* A step that lets nobody through and changes no window keeps Room.
LEMMA RoomKept ==
    ASSUME Types, Types', Room, \A b \in Buckets : Callers(b)' \subseteq Callers(b),
           UNCHANGED windows,
           Bounded(saved'), Bounded(saving'.store),
           \A r \in Requests : Bounded(request'[r].got)
    PROVE  Room'
<1>1. ASSUME NEW b \in Buckets, Runs(b)'
      PROVE  Fits(b, windows[b], Cardinality(Callers(b)'))
  <2>1. Runs(b) /\ windows[b] \in Window
    BY <1>1, WindowsElim DEF Runs, Types
  <2>2. Fits(b, windows[b], Cardinality(Callers(b)))
    BY <2>1 DEF Room
  <2>3. Cardinality(Callers(b)') <= Cardinality(Callers(b))
    BY CallersFacts, FS_Subset
  <2>4. Cardinality(Callers(b)') \in Nat /\ Cardinality(Callers(b)) \in Nat
    BY CallersFacts, FS_Subset, FS_CardinalityType
  <2>5. QED BY <2>1, <2>2, <2>3, <2>4, FitsFewer
<1>2. Bounded(windows')
  BY DEF Room
<1>3. QED BY <1>1, <1>2 DEF Room, Bounded, Fits, Runs

\* The requests that still come after a record: one less of those let through
\* by the window, and nobody when it was revived.
LEMMA CallersLeft ==
    ASSUME Types, Types', NEW r \in Requests, NEW response \in Responses, NEW tokens \in Usage,
           Record(r, response, tokens), NEW b \in Buckets
    PROVE  /\ Cardinality(Callers(b)') \in Nat
           /\ Cardinality(Callers(b)') <= Cardinality(Requests) - 1
           /\ Cardinality(Callers(b)') <= Cardinality(Callers(b))
           /\ b \notin request[r].early => Cardinality(Callers(b)') <= Cardinality(Callers(b)) - 1
           /\ Revives(b, Said(b, response)) => Cardinality(Callers(b)') = 0
<1>1. request'[r].pc # "calling"
  BY RecordFacts DEF Idle
<1>2. Callers(b)' \subseteq Callers(b) \ {r}
  <2>1. ASSUME NEW q \in Requests, q # r, request'[q].pc = "calling",
               b \notin request'[q].early
        PROVE  request[q].pc = "calling" /\ b \notin request[q].early
    BY <2>1, RecordFacts
  <2>2. QED BY <1>1, <2>1 DEF Callers
<1>3. Callers(b)' \subseteq Requests \ {r}
  BY <1>2 DEF Callers
<1>4. IsFiniteSet(Requests) /\ IsFiniteSet(Callers(b)) /\ Cardinality(Callers(b)) \in Nat
  BY LimiterAssumption, CallersFacts
<1>5. Cardinality(Requests \ {r}) = Cardinality(Requests) - 1
  BY <1>4, FS_RemoveElement
<1>6. Cardinality(Callers(b)') \in Nat /\ Cardinality(Callers(b)') <= Cardinality(Requests) - 1
  BY <1>3, <1>4, <1>5, FS_Subset, FS_CardinalityType, FS_RemoveElement
<1>7. Cardinality(Callers(b)') <= Cardinality(Callers(b))
  BY <1>2, <1>4, FS_Subset
<1>8. ASSUME b \notin request[r].early
      PROVE  Cardinality(Callers(b)') <= Cardinality(Callers(b)) - 1
  <2>1. r \in Callers(b)
    BY <1>8 DEF Record, Callers
  <2>2. Cardinality(Callers(b) \ {r}) = Cardinality(Callers(b)) - 1
    BY <1>4, <2>1, FS_RemoveElement
  <2>3. QED BY <1>2, <1>4, <2>2, FS_Subset, FS_RemoveElement
<1>9. ASSUME Revives(b, Said(b, response)) PROVE Cardinality(Callers(b)') = 0
  <2>1. \A q \in Requests : q # r /\ request'[q].pc = "calling" => b \in request'[q].early
    BY <1>9, RecordFacts
  <2>2. Callers(b)' = {}
    BY <1>1, <2>1 DEF Callers
  <2>3. QED BY <2>2, FS_EmptySet
<1>10. QED BY <1>6, <1>7, <1>8, <1>9

\* What is recorded of a bucket has the bound, and while it runs the room.
LEMMA Recorded ==
    ASSUME Types, Types', Room,
           NEW r \in Requests, NEW response \in Responses, NEW tokens \in Usage,
           Record(r, response, tokens), NEW b \in Buckets
    PROVE  /\ windows'[b].count <= Most(b, windows'[b].late)
           /\ Runs(b)' => Fits(b, windows'[b], Cardinality(Callers(b)'))
<1> DEFINE k == Cardinality(Callers(b)')
           w == windows'[b]
           h == Said(b, response)
<1>1. w \in Window /\ w.count \in Nat /\ w.late \in Nat
  BY RecordFacts DEF Window
<1>2. /\ k \in Nat /\ k <= Cardinality(Requests) - 1 /\ k <= Cardinality(Callers(b))
      /\ b \notin request[r].early => k <= Cardinality(Callers(b)) - 1
      /\ Revives(b, h) => k = 0
  BY CallersLeft
<1>3. Cardinality(Callers(b)) \in Nat
  BY CallersFacts
<1>4. /\ Limit[b] \in Nat \ {0} /\ Share(b) \in Nat \ {0} /\ Excess(b) \in Nat
      /\ Share(b) - 1 <= Excess(b) /\ Overdrawn[b] \in Nat /\ Overdrawn[b] <= Excess(b)
  BY ShareFacts
<1>5. b \in DOMAIN windows => /\ windows[b] \in Window
                              /\ windows[b].count <= Most(b, windows[b].late)
  BY WindowsElim DEF Types, Room, Bounded
<1>6. w = IF h = Silent THEN Counted(b, tokens, b \in request[r].early) ELSE Synced(b, h)
  BY RecordFacts
<1>7. h \in Header /\ (h.remaining # None => h.remaining >= -Overdrawn[b])
  BY SaidType
<1> HIDE DEF k, w, h
<1>8. SUFFICES Fits(b, w, k) \/ (~Runs(b)' /\ w.count <= Most(b, w.late))
  BY <1>1, <1>2, FitsFewer DEF k, w
<1>9. ASSUME w.count <= Limit[b] + Excess(b) PROVE Fits(b, w, k)
  BY <1>1, <1>2, <1>9, MostFacts DEF Fits
<1>10. CASE h = Silent
  <2>1. PICK use \in Nat :
          /\ use <= Share(b)
          /\ \/ ~Runs(b) /\ w = [count |-> use, left |-> Length[b], late |-> 0]
             \/ /\ Runs(b)
                /\ w = [count |-> windows[b].count + use, left |-> windows[b].left,
                        late |-> windows[b].late + (IF b \in request[r].early THEN 1 ELSE 0)]
    <3>1. (b \in request[r].early) \in BOOLEAN
      OBVIOUS
    <3>2. QED BY <1>6, <1>10, <3>1, CountedFacts
  <2>2. CASE ~Runs(b)
    <3>1. w.count = use
      BY <2>1, <2>2
    <3>2. QED BY <1>4, <1>9, <2>1, <3>1
  <2>3. CASE Runs(b)
    <3>1. windows[b] \in Window /\ Fits(b, windows[b], Cardinality(Callers(b)))
      BY <1>5, <2>3 DEF Runs, Room
    <3>2. windows[b].count \in Nat /\ windows[b].late \in Nat
      BY <3>1 DEF Window
    <3>3. /\ Most(b, windows[b].late) \in Nat
          /\ Most(b, windows[b].late + 1) = Most(b, windows[b].late) + Share(b)
      BY <3>2, MostFacts
    <3>4. CASE b \in request[r].early
      <4>1. w.count = windows[b].count + use /\ w.late = windows[b].late + 1
        BY <2>1, <2>3, <3>4
      <4>2. windows[b].count + k * Share(b) <= Most(b, windows[b].late)
        BY <1>2, <1>3, <3>1, FitsFewer DEF Fits
      <4>3. k * Share(b) \in Nat
        BY <1>2, <1>4, Products
      <4>4. QED BY <1>4, <2>1, <3>2, <3>3, <4>1, <4>2, <4>3 DEF Fits
    <3>5. CASE b \notin request[r].early
      <4>1. w.count = windows[b].count + use /\ w.late = windows[b].late
        BY <2>1, <2>3, <3>2, <3>5
      <4>2. k + 1 \in Nat /\ k + 1 <= Cardinality(Callers(b))
        BY <1>2, <1>3, <3>5
      <4>3. windows[b].count + (k + 1) * Share(b) <= Most(b, windows[b].late)
        BY <1>3, <3>1, <4>2, FitsFewer DEF Fits
      <4>4. k * Share(b) \in Nat /\ (k + 1) * Share(b) = k * Share(b) + Share(b)
        BY <1>2, <1>4, Products
      <4>5. QED BY <1>4, <2>1, <3>2, <3>3, <4>1, <4>3, <4>4 DEF Fits
    <3>6. QED BY <3>4, <3>5
  <2>4. QED BY <2>2, <2>3
<1>11. CASE h # Silent
  <2>1. w = Synced(b, h)
    BY <1>6, <1>11
  <2>2. CASE h.remaining # None
    <3>1. w.count <= Limit[b] + Overdrawn[b]
      BY <1>7, <2>1, <2>2, SyncedFacts
    <3>2. QED BY <1>1, <1>4, <1>9, <3>1
  <2>3. CASE h.remaining = None /\ b \notin DOMAIN windows
    <3>1. w.count = 0
      BY <1>7, <2>1, <2>3, SyncedFacts
    <3>2. QED BY <1>4, <1>9, <3>1
  <2>4. CASE h.remaining = None /\ b \in DOMAIN windows
    <3>1. w.count = windows[b].count /\ w.late = windows[b].late
      BY <1>7, <2>1, <2>4, SyncedFacts
    <3>2. CASE Runs(b)
      <4>1. Fits(b, windows[b], k)
        BY <1>2, <1>3, <1>5, <2>4, <3>2, FitsFewer DEF Room
      <4>2. QED BY <3>1, <4>1 DEF Fits
    <3>3. CASE ~Runs(b) /\ w.left # 0
      <4>1. Revives(b, h)
        BY <2>1, <2>4, <3>3 DEF Revives
      <4>2. k = 0 /\ w.count <= Most(b, w.late)
        BY <1>2, <1>5, <2>4, <3>1, <4>1
      <4>3. QED BY <1>1, <4>2, FitsNone
    <3>4. CASE w.left = 0
      <4>1. ~Runs(b)'
        BY <3>4 DEF Runs, w
      <4>2. QED BY <1>5, <2>4, <3>1, <4>1
    <3>5. QED BY <3>2, <3>3, <3>4
  <2>5. QED BY <2>2, <2>3, <2>4
<1>12. QED BY <1>10, <1>11

\* Every step keeps the counts bounded, and the room for those let through.
LEMMA RoomInductive == Types /\ Types' /\ Room /\ [Next]_vars => Room'
<1> SUFFICES ASSUME Types, Types', Room, [Next]_vars PROVE Room'
  OBVIOUS
<1>0. /\ Bounded(windows) /\ Bounded(saved) /\ Bounded(saving.store)
      /\ \A r \in Requests : Bounded(request[r].got)
      /\ \A r \in Requests : request[r] \in Request
  BY DEF Room, Types
<1>a. Bounded(None)
  BY DEF Bounded
<1>1. ASSUME NEW r \in Requests, Arrive(r) PROVE Room'
  <2>1. \A b \in Buckets : Callers(b)' \subseteq Callers(b)
    BY <1>0, <1>1 DEF Arrive, Callers, Request, Types
  <2>2. \A q \in Requests : request'[q].got = request[q].got
    BY <1>0, <1>1 DEF Arrive, Request, Types
  <2>3. QED BY <1>0, <1>1, <2>1, <2>2, <1>a, RoomKept DEF Arrive, Bounded
<1>2. ASSUME NEW r \in Requests, SetConfigs(r) PROVE Room'
  <2>1. \A b \in Buckets : Callers(b)' \subseteq Callers(b)
    BY <1>0, <1>2 DEF SetConfigs, Callers, Request, Types
  <2>2. \A q \in Requests : request'[q].got = request[q].got
    BY <1>0, <1>2 DEF SetConfigs, Request, Types
  <2>3. QED BY <1>0, <1>2, <2>1, <2>2, <1>a, RoomKept DEF SetConfigs, Bounded
<1>3. ASSUME NEW r \in Requests, ReadState(r) PROVE Room'
  <2>1. \A b \in Buckets : Callers(b)' \subseteq Callers(b)
    BY <1>0, <1>3 DEF ReadState, Callers, Request, Types
  <2>2. \A q \in Requests : request'[q].got = request[q].got \/ request'[q].got = saved
    BY <1>0, <1>3 DEF ReadState, Request, Types
  <2>3. QED BY <1>0, <1>3, <2>1, <2>2, <1>a, RoomKept DEF ReadState, Bounded
<1>4. ASSUME NEW r \in Requests, LoadNothing(r) PROVE Room'
  <2>1. \A b \in Buckets : Callers(b)' \subseteq Callers(b)
    BY <1>0, <1>4 DEF LoadNothing, Callers, Request, Types
  <2>2. \A q \in Requests : request'[q].got = request[q].got
    BY <1>0, <1>4 DEF LoadNothing, Request, Types
  <2>3. QED BY <1>0, <1>4, <2>1, <2>2, <1>a, RoomKept DEF LoadNothing, Bounded
<1>10. ASSUME NEW r \in Requests, Leave(r) PROVE Room'
  <2>1. \A b \in Buckets : Callers(b)' \subseteq Callers(b)
    BY <1>0, <1>10 DEF Leave, Idle, Callers, Request, Types
  <2>2. \A q \in Requests : request'[q].got = request[q].got \/ request'[q].got = None
    BY <1>0, <1>10 DEF Leave, Idle, Request, Types
  <2>3. QED BY <1>0, <1>10, <2>1, <2>2, <1>a, RoomKept DEF Leave, Bounded
<1>5. ASSUME NEW r \in Requests, Load(r) PROVE Room'
  <2>1. ASSUME NEW b \in Buckets PROVE Cardinality(Callers(b)') = 0
    <3>1. ASSUME NEW q \in Requests
          PROVE  request'[q].pc # "calling" \/ b \in request'[q].early
      BY <1>0, <1>5 DEF Load, Idle, Request
    <3>2. Callers(b)' = {}
      BY <3>1 DEF Callers
    <3>3. QED BY <3>2, FS_EmptySet
  <2>2. \A q \in Requests : request'[q].got = request[q].got \/ request'[q].got = None
    BY <1>0, <1>5 DEF Load, Idle, Request
  <2>3. saving'.store = saving.store \/ saving'.store = windows
    BY <1>5 DEF Load
  <2>4. UNCHANGED saved /\ windows' = request[r].got /\ request[r].got # None
    BY <1>5 DEF Load
  <2>5. Bounded(windows') /\ Bounded(saved') /\ Bounded(saving'.store)
    BY <1>0, <2>3, <2>4
  <2>6. \A q \in Requests : Bounded(request'[q].got)
    BY <1>0, <1>a, <2>2
  <2>7. ASSUME NEW b \in Buckets, Runs(b)'
        PROVE  Fits(b, windows'[b], Cardinality(Callers(b)'))
    <3>1. b \in DOMAIN windows' /\ windows' # None /\ windows'[b] \in Window
      BY <2>7, WindowsElim DEF Types, Runs
    <3>2. windows'[b].count <= Most(b, windows'[b].late)
      BY <2>5, <3>1 DEF Bounded
    <3>3. QED BY <2>1, <3>1, <3>2, FitsNone
  <2>8. QED BY <2>5, <2>6, <2>7 DEF Room, Bounded, Fits
<1>6. ASSUME NEW r \in Requests, CheckLimit(r) PROVE Room'
  <2>1. \A q \in Requests : request'[q].got = request[q].got \/ request'[q].got = None
    BY <1>0, <1>6 DEF CheckLimit, Idle, Request, Types
  <2>2. UNCHANGED <<windows, saved, saving>>
    BY <1>6 DEF CheckLimit
  <2>3. /\ Bounded(windows') /\ Bounded(saved') /\ Bounded(saving'.store)
        /\ \A q \in Requests : Bounded(request'[q].got)
    BY <1>0, <1>a, <2>1, <2>2
  <2>4. CASE \E b \in Buckets : Full(b)
    <3>1. \A b \in Buckets : Callers(b)' \subseteq Callers(b)
      BY <1>0, <1>6, <2>4 DEF CheckLimit, Idle, Callers, Request, Types
    <3>2. QED BY <2>2, <2>3, <3>1, RoomKept
  <2>5. CASE ~\E b \in Buckets : Full(b)
    <3>1. ASSUME NEW b \in Buckets, Runs(b)
          PROVE  Fits(b, windows[b], Cardinality(Callers(b)'))
      <4>1. windows[b].count \in Nat /\ windows[b].late \in Nat
        BY <3>1, WindowsElim DEF Types, Runs, Window
      <4>2. windows[b].count < Limit[b]
        BY <2>5, <3>1, <4>1, ShareFacts DEF Full
      <4>3. Callers(b)' \subseteq Requests
        BY DEF Callers
      <4>4. Cardinality(Callers(b)') \in Nat /\ Cardinality(Callers(b)') <= Cardinality(Requests)
        BY <4>3, LimiterAssumption, FS_Subset, FS_CardinalityType
      <4>5. QED BY <4>1, <4>2, <4>4, MostFacts DEF Fits
    <3>2. QED BY <2>2, <2>3, <3>1 DEF Room, Bounded, Fits, Runs
  <2>6. QED BY <2>4, <2>5
<1>8. ASSUME NEW r \in Requests, RecordUsage(r) PROVE Room'
  <2>1. PICK response \in Responses, tokens \in Usage : Record(r, response, tokens)
    BY <1>8 DEF RecordUsage
  <2>2. /\ windows' \in [Buckets -> Window] /\ UNCHANGED <<saved, saving>>
        /\ \A q \in Requests : request'[q].got = request[q].got \/ request'[q].got = None
    BY <2>1, RecordFacts DEF Idle
  <2>3. Bounded(windows')
    BY <2>1, <2>2, Recorded DEF Bounded
  <2>4. /\ Bounded(saved') /\ Bounded(saving'.store)
        /\ \A q \in Requests : Bounded(request'[q].got)
    BY <1>0, <1>a, <2>2
  <2>5. \A b \in Buckets : Runs(b)' => Fits(b, windows'[b], Cardinality(Callers(b)'))
    BY <2>1, Recorded
  <2>6. QED BY <2>3, <2>4, <2>5 DEF Room, Bounded, Fits
<1>11. CASE Persist
  BY <1>0, <1>11, <1>a, RoomKept DEF Persist, NoSave, Callers, Bounded
<1>12. CASE Write
  <2>1. saving'.store = windows \/ saving'.store = saving.store
    BY <1>12 DEF Write
  <2>2. QED BY <1>0, <1>12, <2>1, <1>a, RoomKept DEF Write, Callers, Bounded
<1>13. CASE Saved
  BY <1>0, <1>13, <1>a, RoomKept DEF Saved, NoSave, Callers, Bounded
<1>14. CASE SaveFails
  BY <1>0, <1>14, <1>a, RoomKept DEF SaveFails, NoSave, Callers, Bounded
<1>15. CASE Tick
  <2>1. ASSUME NEW ws \in Stores, Bounded(ws) PROVE Bounded(Aged(ws))
    <3>1. CASE ws = None
      BY <3>1 DEF Aged, Bounded
    <3>2. CASE ws \in WindowSets
      BY <2>1, <3>2, AgedFacts, WindowsElim DEF Bounded
    <3>3. QED BY <3>1, <3>2 DEF Stores
  <2>2. /\ windows' = Aged(windows) /\ saved' = Aged(saved)
        /\ saving'.store = Aged(saving.store)
    BY <1>15 DEF Tick, Types
  <2>3. \A q \in Requests : /\ request'[q].got = Aged(request[q].got)
                            /\ request'[q].pc = request[q].pc
                            /\ request'[q].early = request[q].early
    BY <1>0, <1>15 DEF Tick, Request
  <2>4. windows \in Stores /\ saved \in Stores /\ saving.store \in Stores
    BY DEF Types, Stores
  <2>5. Bounded(windows') /\ Bounded(saved') /\ Bounded(saving'.store)
    BY <1>0, <2>1, <2>2, <2>4
  <2>6. \A q \in Requests : Bounded(request'[q].got)
    BY <1>0, <2>1, <2>3 DEF Request
  <2>7. ASSUME NEW b \in Buckets, Runs(b)'
        PROVE  Fits(b, windows'[b], Cardinality(Callers(b)'))
    <3>1. windows \in WindowSets
      BY DEF Types
    <3>2. /\ b \in DOMAIN windows /\ windows[b].left # 0
          /\ windows'[b].count = windows[b].count /\ windows'[b].late = windows[b].late
      BY <2>2, <2>7, <3>1, AgedFacts DEF Runs
    <3>3. Callers(b)' = Callers(b)
      BY <2>3 DEF Callers
    <3>4. QED BY <3>2, <3>3 DEF Room, Runs, Fits
  <2>8. QED BY <2>5, <2>6, <2>7 DEF Room, Bounded, Fits
<1>16. CASE Crash
  <2>1. /\ windows' = NoWindows
        /\ saved' = saved \/ saved' = saving.store
        /\ saving'.store = None
        /\ \A q \in Requests : request'[q].got = None
    BY <1>16 DEF Crash, NoSave, Idle
  <2>2. DOMAIN windows' = {}
    BY <2>1, NoWindowsType
  <2>3. /\ Bounded(windows') /\ Bounded(saved') /\ Bounded(saving'.store)
        /\ \A q \in Requests : Bounded(request'[q].got)
    BY <1>0, <1>a, <2>1, <2>2 DEF Bounded
  <2>4. \A b \in Buckets : ~Runs(b)'
    BY <2>2 DEF Runs
  <2>5. QED BY <2>3, <2>4 DEF Room, Bounded
<1>17. CASE UNCHANGED vars
  BY <1>0, <1>17, <1>a, RoomKept DEF vars, Callers, Bounded
<1>18. QED
  BY <1>1, <1>2, <1>3, <1>4, <1>5, <1>6, <1>8, <1>10, <1>11, <1>12,
     <1>13, <1>14, <1>15, <1>16, <1>17 DEF Next, RequestStep

-----------------------------------------------------------------------------
(* What the file holds.                                                    *)

\* Every step keeps what a save under way is known to write.
LEMMA SavesInductive == Types /\ Types' /\ Saves /\ [Next]_vars => Saves'
<1> SUFFICES ASSUME Types, Types', Saves, [Next]_vars PROVE Saves'
  OBVIOUS
<1>0. \A r \in Requests : request[r] \in Request
  BY DEF Types
<1>a. ASSUME UNCHANGED <<configs, windows, isDirty, saving, overtaken>>, configs
      PROVE  Saves'
  BY <1>a DEF Saves
<1>1. ASSUME NEW r \in Requests, Arrive(r) PROVE Saves'
  <2>1. \A q \in Requests : request'[q].pc = request[q].pc \/ request'[q].pc = "configs"
    BY <1>0, <1>1 DEF Arrive, Request, Types
  <2>2. QED BY <1>1, <2>1 DEF Arrive, Saves
<1>2. ASSUME NEW r \in Requests, SetConfigs(r) PROVE Saves'
  BY <1>2 DEF SetConfigs, Saves
<1>3. ASSUME NEW r \in Requests, ReadState(r) PROVE Saves'
  <2>1. configs
    BY <1>3 DEF ReadState, Saves
  <2>2. QED BY <1>3, <1>a, <2>1 DEF ReadState
<1>4. ASSUME NEW r \in Requests, LoadNothing(r) PROVE Saves'
  <2>1. configs
    BY <1>4 DEF LoadNothing, Saves
  <2>2. QED BY <1>4, <1>a, <2>1 DEF LoadNothing
<1>5. ASSUME NEW r \in Requests, Load(r) PROVE Saves'
  <2>1. configs /\ configs' /\ isDirty' = isDirty
    BY <1>5 DEF Load, Saves
  <2>2. CASE saving = NoSave
    <3>1. saving' = NoSave
      BY <1>5, <2>2 DEF Load, NoSave
    <3>2. QED BY <2>1, <3>1 DEF Saves, NoSave
  <2>3. CASE saving # NoSave
    <3>1. saving.pc # "idle" /\ overtaken' /\ isDirty
      BY <1>5, <2>3 DEF Load, Saves
    <3>2. saving'.pc = saving.pc
      BY <1>5 DEF Load
    <3>3. QED BY <2>1, <3>1, <3>2 DEF Saves
  <2>4. QED BY <2>2, <2>3
<1>6. ASSUME NEW r \in Requests, CheckLimit(r) PROVE Saves'
  <2>1. configs
    BY <1>6 DEF CheckLimit, Saves
  <2>2. QED BY <1>6, <1>a, <2>1 DEF CheckLimit
<1>8. ASSUME NEW r \in Requests, RecordUsage(r) PROVE Saves'
  <2>1. PICK response \in Responses, tokens \in Usage : Record(r, response, tokens)
    BY <1>8 DEF RecordUsage
  <2>2. configs
    BY <2>1 DEF Record, Saves
  <2>3. configs' = configs /\ saving' = saving /\ overtaken' = (overtaken \/ saving.pc = "writing")
    BY <2>1 DEF Record
  <2>4. isDirty'
    BY <1>8 DEF RecordUsage
  <2>5. QED BY <2>2, <2>3, <2>4 DEF Saves
<1>10. ASSUME NEW r \in Requests, Leave(r) PROVE Saves'
  <2>1. configs
    BY <1>10 DEF Leave, Saves
  <2>2. QED BY <1>10, <1>a, <2>1 DEF Leave
<1>11. CASE Persist
  BY <1>11 DEF Persist, NoSave, Saves
<1>12. CASE Write
  BY <1>12 DEF Write, NoSave, Saves
<1>13. CASE Saved
  BY <1>13 DEF Saved, NoSave, Saves
<1>14. CASE SaveFails
  BY <1>14 DEF SaveFails, NoSave, Saves
<1>15. CASE Tick
  <2>1. /\ windows' = Aged(windows) /\ UNCHANGED <<configs, isDirty, overtaken>>
        /\ saving'.pc = saving.pc /\ saving'.store = Aged(saving.store)
        /\ saving' = [saving EXCEPT !.store = Aged(saving.store)]
    BY <1>15 DEF Tick, Types
  <2>2. \A q \in Requests : request'[q].pc = request[q].pc
    BY <1>0, <1>15 DEF Tick, Request
  <2>3. Aged(saving.store) = None <=> saving.store = None
    BY AgedStore DEF Types
  <2>4. saving = NoSave => saving' = NoSave
    BY <2>1 DEF Aged, NoSave
  <2>5. QED BY <2>1, <2>2, <2>3, <2>4, AgedNoWindows DEF Saves
<1>16. CASE Crash
  BY <1>16 DEF Crash, NoSave, Idle, Saves
<1>17. CASE UNCHANGED vars
  BY <1>17 DEF vars, Saves
<1>18. QED
  BY <1>1, <1>2, <1>3, <1>4, <1>5, <1>6, <1>8, <1>10, <1>11, <1>12,
     <1>13, <1>14, <1>15, <1>16, <1>17 DEF Next, RequestStep

\* Every step keeps what the file holds when there is nothing to save.
LEMMA CleanInductive == Types /\ Types' /\ Saves /\ Clean /\ [Next]_vars => Clean'
<1> SUFFICES ASSUME Types, Types', Saves, Clean, [Next]_vars PROVE Clean'
  OBVIOUS
<1>0. \A r \in Requests : request[r] \in Request
  BY DEF Types
<1>a. ASSUME UNCHANGED <<configs, windows, isDirty, saved, saving, overtaken>>,
             Initialising => Initialising'
      PROVE  Clean'
  BY <1>a DEF Clean, InFile
<1>1. ASSUME NEW r \in Requests, Arrive(r) PROVE Clean'
  BY <1>1 DEF Arrive, Clean
<1>2. ASSUME NEW r \in Requests, SetConfigs(r) PROVE Clean'
  <2>1. request'[r].pc = "state"
    BY <1>0, <1>2 DEF SetConfigs, Request, Types
  <2>2. Initialising'
    BY <2>1 DEF Initialising
  <2>3. CASE configs
    BY <1>2, <1>a, <2>2, <2>3 DEF SetConfigs
  <2>4. CASE ~configs
    BY <1>2, <2>2, <2>4 DEF SetConfigs, Saves, Clean
  <2>5. QED BY <2>3, <2>4
<1>3. ASSUME NEW r \in Requests, ReadState(r) PROVE Clean'
  <2>1. request'[r].pc = "loading" /\ request'[r].got = saved /\ saved' = saved
    BY <1>0, <1>3 DEF ReadState, Request, Types
  <2>2. Initialising'
    BY <2>1 DEF Initialising
  <2>3. QED BY <1>3, <1>a, <2>2 DEF ReadState
<1>4. ASSUME NEW r \in Requests, LoadNothing(r) PROVE Clean'
  <2>1. \A q \in Requests \ {r} : request'[q] = request[q]
    BY <1>4 DEF LoadNothing, Types
  <2>2. UNCHANGED <<configs, windows, isDirty, saved, saving, overtaken>>
    BY <1>4 DEF LoadNothing
  <2>3. CASE saved = None
    BY <2>2, <2>3 DEF Clean, InFile
  <2>4. CASE saved # None
    <3>1. Initialising => Initialising'
      BY <1>4, <2>1, <2>2, <2>4 DEF LoadNothing, Initialising
    <3>2. QED BY <1>a, <2>2, <3>1
  <2>5. QED BY <2>3, <2>4
<1>5. ASSUME NEW r \in Requests, Load(r) PROVE Clean'
  <2>1. windows' = request[r].got /\ request[r].got # None /\ saved' = saved
    BY <1>5 DEF Load
  <2>2. overtaken' \/ request[r].got = saved
    BY <1>5 DEF Load
  <2>3. QED BY <2>1, <2>2 DEF Clean, InFile
<1>6. ASSUME NEW r \in Requests, CheckLimit(r) PROVE Clean'
  <2>1. \A q \in Requests \ {r} : request'[q] = request[q]
    BY <1>6 DEF CheckLimit, Types
  <2>2. request[r].pc \notin {"state", "loading"}
    BY <1>6 DEF CheckLimit
  <2>3. UNCHANGED <<configs, windows, isDirty, saved, saving, overtaken>>
    BY <1>6 DEF CheckLimit
  <2>4. Initialising => Initialising'
    BY <2>1, <2>2, <2>3 DEF Initialising
  <2>5. QED BY <1>a, <2>3, <2>4
<1>8. ASSUME NEW r \in Requests, RecordUsage(r) PROVE Clean'
  BY <1>8 DEF RecordUsage, Clean
<1>10. ASSUME NEW r \in Requests, Leave(r) PROVE Clean'
  <2>1. \A q \in Requests \ {r} : request'[q] = request[q]
    BY <1>10 DEF Leave, Types
  <2>2. request[r].pc \notin {"state", "loading"}
    BY <1>10 DEF Leave
  <2>3. UNCHANGED <<configs, windows, isDirty, saved, saving, overtaken>>
    BY <1>10 DEF Leave
  <2>4. Initialising => Initialising'
    BY <2>1, <2>2, <2>3 DEF Initialising
  <2>5. QED BY <1>a, <2>3, <2>4
<1>11. CASE Persist
  BY <1>11 DEF Persist, NoSave, Clean
<1>12. CASE Write
  BY <1>12 DEF Write, Clean
<1>13. CASE Saved
  <2>1. saved' = saving.store /\ saving.store # None
    BY <1>13 DEF Saved, Types
  <2>2. overtaken' \/ windows' = saving.store
    BY <1>13 DEF Saved, Saves
  <2>3. QED BY <2>1, <2>2 DEF Clean, InFile
<1>14. CASE SaveFails
  <2>1. isDirty'
    BY <1>14 DEF SaveFails, Saves
  <2>2. QED BY <2>1 DEF Clean
<1>15. CASE Tick
  <2>1. /\ windows' = Aged(windows) /\ saved' = Aged(saved)
        /\ saving'.pc = saving.pc /\ UNCHANGED <<configs, isDirty, overtaken>>
    BY <1>15 DEF Tick, Types
  <2>2. \A q \in Requests : /\ request'[q].got = Aged(request[q].got)
                            /\ request'[q].pc = request[q].pc
    BY <1>0, <1>15 DEF Tick, Request
  <2>3. Initialising => Initialising'
    BY <2>1, <2>2 DEF Initialising
  <2>4. windows = InFile => windows' = InFile'
    <3>1. saved = None <=> saved' = None
      BY <2>1, AgedStore DEF Types
    <3>2. QED BY <2>1, <3>1, AgedNoWindows DEF InFile
  <2>5. windows = NoWindows => windows' = NoWindows
    BY <2>1, AgedNoWindows
  <2>6. QED BY <2>1, <2>3, <2>4, <2>5 DEF Clean
<1>16. CASE Crash
  BY <1>16 DEF Crash, Clean
<1>17. CASE UNCHANGED vars
  BY <1>17, <1>a DEF vars, Initialising
<1>18. QED
  BY <1>1, <1>2, <1>3, <1>4, <1>5, <1>6, <1>8, <1>10, <1>11, <1>12,
     <1>13, <1>14, <1>15, <1>16, <1>17 DEF Next, RequestStep

-----------------------------------------------------------------------------
(* The theorems.                                                           *)

\* A process that starts has no windows and nothing under way.
LEMMA InitIInv == Init => IInv
<1> SUFFICES ASSUME Init PROVE IInv
  OBVIOUS
<1>1. Types
  <2>1. Idle \in Request
    BY DEF Idle, Request, Stores
  <2>2. request \in [Requests -> Request]
    BY <2>1 DEF Init
  <2>3. saving \in [pc : {"idle", "reading", "writing"}, store : Stores] /\ saving.pc # "writing"
    BY DEF Init, NoSave, Stores
  <2>4. crashes \in 0..MaxCrashes
    BY LimiterAssumption DEF Init
  <2>5. windows \in WindowSets /\ saved \in Stores
    BY NoWindowsType DEF Init, Stores
  <2>6. QED BY <2>2, <2>3, <2>4, <2>5 DEF Init, Types
<1>2. DOMAIN windows = {}
  BY NoWindowsType DEF Init
<1>3. Room
  BY <1>2 DEF Init, Room, Bounded, Runs, Idle, NoSave
<1>4. Saves /\ Clean
  BY DEF Init, Saves, Clean, Idle, NoSave
<1>5. QED BY <1>1, <1>3, <1>4 DEF IInv

\* The inductive invariant.
THEOREM RateLimiterInvariant == Spec => []IInv
<1>1. IInv /\ [Next]_vars => IInv'
  BY TypesInductive, RoomInductive, SavesInductive, CleanInductive DEF IInv
<1>2. QED BY InitIInv, <1>1, PTL DEF Spec

\* The state of the limiter keeps its types, through loads, saves and restarts.
THEOREM LimiterTypeCorrect == Spec => []TypeOK
<1>1. ASSUME NEW ws \in WindowSets PROVE IsWindows(ws)
  BY DEF WindowSets, IsWindows
<1>2. ASSUME NEW ws \in Stores PROVE IsStored(ws)
  BY <1>1 DEF Stores, IsStored
<1>3. IInv => TypeOK
  <2> SUFFICES ASSUME Types PROVE TypeOK
    BY DEF IInv
  <2>1. IsWindows(windows) /\ IsStored(saved) /\ IsStored(saving.store)
    BY <1>1, <1>2 DEF Types
  <2>2. \A r \in Requests : request[r] \in Request
    BY DEF Types
  <2>3. \A r \in Requests : IsStored(request[r].got)
    BY <1>2, <2>2 DEF Request
  <2>4. request \in [Requests ->
         [pc : {"idle", "configs", "state", "loading", "check", "calling"},
          got : {request[r].got : r \in Requests}, early : SUBSET Buckets]]
    <3>1. ASSUME NEW r \in Requests
          PROVE  request[r] \in
                   [pc : {"idle", "configs", "state", "loading", "check", "calling"},
                    got : {request[q].got : q \in Requests}, early : SUBSET Buckets]
      BY <2>2 DEF Request
    <3>2. QED BY <3>1 DEF Types
  <2>5. saving \in [pc : {"idle", "reading", "writing"}, store : {saving.store}]
    BY DEF Types
  <2>6. QED BY <2>1, <2>3, <2>4, <2>5 DEF Types, TypeOK
<1>4. QED BY RateLimiterInvariant, <1>3, PTL

\* However many requests check and record, whatever responses say, be it only
\* a reset or one that cannot be read, and however often counters are loaded,
\* saved and lost: in memory and in the file, a limit is exceeded by no more
\* than what the requests under way use, and those recorded in a window that
\* their check had not seen.
THEOREM OvershootBounded == Spec => []Overshoot
<1>1. IInv => Overshoot
  BY DEF IInv, Room, Bounded, Overshoot
<1>2. QED BY RateLimiterInvariant, <1>1, PTL

\* When nothing is marked for saving and nothing is under way, the file holds
\* what memory holds, unless the last save was overtaken.
THEOREM SavedUnlessOvertaken == Spec => []SavedWhenClean
<1>1. IInv => SavedWhenClean
  <2> SUFFICES ASSUME Clean, configs, ~isDirty, saving = NoSave,
                      \A r \in Requests : request[r].pc \notin {"configs", "state", "loading"}
               PROVE  overtaken \/ windows = InFile
    BY DEF IInv, SavedWhenClean, InFile
  <2>1. ~Initialising
    BY DEF Initialising
  <2>2. QED BY <2>1 DEF Clean, NoSave
<1>2. QED BY RateLimiterInvariant, <1>1, PTL
=============================================================================
