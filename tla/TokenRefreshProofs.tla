------------------------- MODULE TokenRefreshProofs -------------------------
(***************************************************************************)
(* Proofs about TokenRefresh for every set of connections, sweeps and      *)
(* requests, every combination of faults and every number of rotations and *)
(* crashes.  That no token is lost rests on who may ask for a new one: a   *)
(* token read from a row is never newer than what the row holds now, so    *)
(* the provider accepts it only while the row is up to date, and then      *)
(* nobody has another one in hand.                                         *)
(***************************************************************************)
EXTENDS TokenRefresh, FiniteSetTheorems, TLAPS

-----------------------------------------------------------------------------
(* The invariant.                                                          *)

\* What is read of a row.
Snap == [token : Generations, due : BOOLEAN, copilotDue : BOOLEAN]

\* Records of a sweep and of a request.
SweepState ==
    [pc : {"idle", "loop", "refreshing", "storing", "copilot", "failing"},
     rows : UNION {[T -> Snap] : T \in SUBSET Connections},
     conn : Connections \cup {None}, got : Answers]

RequestState ==
    [pc : {"idle", "calling", "saving", "called", "succeeded", "failed"},
     conn : Connections \cup {None}, token : Answers, error : BOOLEAN, got : Answers]

\* A sweep is at a connection that it has not done with, and has a token in
\* hand exactly when it is about to store it.
GoodSweep(s) ==
    /\ s \in SweepState
    /\ s.conn # None <=> s.pc \notin {"idle", "loop"}
    /\ s.conn \in DOMAIN s.rows \cup {None}
    /\ s.got # None <=> s.pc = "storing"

\* A request has a connection while it is under way, a token of its row until
\* it asks for another, and that one in hand until it is stored.
GoodRequest(r) ==
    /\ r \in RequestState
    /\ r.pc # "idle" => r.conn # None
    /\ r.pc = "calling" => r.token # None
    /\ r.got # None <=> r.pc = "saving"

Typed ==
    /\ newest \in [Connections -> Generations]
    /\ row \in [Connections -> Row]
    /\ inProgress \subseteq Connections
    /\ lost \subseteq Connections
    /\ crashes \in 0..MaxCrashes
    /\ sweep \in [Sweeps -> SweepState] /\ \A s \in Sweeps : GoodSweep(sweep[s])
    /\ request \in [Requests -> RequestState] /\ \A r \in Requests : GoodRequest(request[r])

\* Who has a token of c that is not in its row.
HoldingSweeps(c) == {s \in Sweeps : sweep[s].conn = c /\ sweep[s].got # None}
HoldingRequests(c) == {r \in Requests : request[r].conn = c /\ request[r].got # None}

\* No token read from a row is newer than what the row holds now.
ReadsOld(c) ==
    /\ row[c].token <= newest[c]
    /\ \A s \in Sweeps : c \in DOMAIN sweep[s].rows => sweep[s].rows[c].token <= row[c].token
    /\ \A r \in Requests :
         request[r].conn = c /\ request[r].token # None => request[r].token <= row[c].token

\* Either the row holds the newest token, or one sweep or request has it.
OneHolder(c) ==
    /\ \A s \in HoldingSweeps(c) : sweep[s].got = newest[c]
    /\ \A r \in HoldingRequests(c) : request[r].got = newest[c]
    /\ \/ /\ row[c].token = newest[c]
          /\ HoldingSweeps(c) = {} /\ HoldingRequests(c) = {}
       \/ /\ row[c].token # newest[c]
          /\ \/ HoldingRequests(c) = {} /\ \E s \in Sweeps : HoldingSweeps(c) = {s}
             \/ HoldingSweeps(c) = {} /\ \E r \in Requests : HoldingRequests(c) = {r}

Kept(c) == ReadsOld(c) /\ OneHolder(c)

IInv ==
    /\ Typed
    /\ \A c \in Connections \ lost : Kept(c)

-----------------------------------------------------------------------------
(* Types.                                                                  *)

\* What a sweep reads of a row has the type of a snapshot, and nothing else has.
LEMMA Snapshots ==
    /\ \A r \in Row : Snapshot(r) \in Snap /\ Snapshot(r).token = r.token
    /\ \A x \in Snap : \E r \in Row : x = Snapshot(r)
<1>1. \A r \in Row : Snapshot(r) \in Snap /\ Snapshot(r).token = r.token
  BY DEF Row, Snapshot, Snap
<1>2. ASSUME NEW x \in Snap PROVE \E r \in Row : x = Snapshot(r)
  <2> DEFINE r == [token |-> x.token, due |-> x.due, copilotDue |-> x.copilotDue,
                   status |-> "active"]
  <2>1. r \in Row
    BY DEF Row, Snap
  <2>2. x = Snapshot(r)
    BY DEF Snap, Snapshot
  <2>3. QED BY <2>1, <2>2
<1>3. QED BY <1>1, <1>2

\* Tokens are numbers, and None is none of them.
LEMMA Tokens ==
    /\ None \notin Connections
    /\ None \notin Generations
    /\ Generations \subseteq Nat
BY RefreshAssumption DEF Generations

\* What is known of a sweep.
LEMMA SweepFacts ==
    ASSUME Typed, NEW s \in Sweeps
    PROVE  /\ GoodSweep(sweep[s]) /\ sweep[s] \in SweepState
           /\ sweep[s].conn \in Connections \cup {None}
           /\ sweep[s].got \in Answers
           /\ sweep[s].rows \in [DOMAIN sweep[s].rows -> Snap]
           /\ DOMAIN sweep[s].rows \subseteq Connections
<1>1. GoodSweep(sweep[s]) /\ sweep[s] \in SweepState
  BY DEF Typed
<1>2. PICK T \in SUBSET Connections : sweep[s].rows \in [T -> Snap]
  BY <1>1 DEF SweepState
<1>3. QED BY <1>1, <1>2 DEF SweepState

\* A sweep goes on.
LEMMA SweepMoves ==
    ASSUME Typed, NEW s \in Sweeps, NEW new, GoodSweep(new),
           sweep' = [sweep EXCEPT ![s] = new]
    PROVE  /\ sweep' \in [Sweeps -> SweepState]
           /\ \A t \in Sweeps : GoodSweep(sweep'[t])
BY DEF Typed, GoodSweep

\* So does a request.
LEMMA RequestMoves ==
    ASSUME Typed, NEW r \in Requests, NEW new, GoodRequest(new), Move(r, new)
    PROVE  /\ request' \in [Requests -> RequestState]
           /\ \A q \in Requests : GoodRequest(request'[q])
BY DEF Typed, GoodRequest, Move

\* The rows that are left to a sweep.
LEMMA WithoutShape ==
    ASSUME Typed, NEW s \in Sweeps, NEW c
    PROVE  /\ Without(s, c) \in UNION {[T -> Snap] : T \in SUBSET Connections}
           /\ DOMAIN Without(s, c) = DOMAIN sweep[s].rows \ {c}
           /\ \A d \in DOMAIN Without(s, c) : Without(s, c)[d] = sweep[s].rows[d]
<1>1. /\ sweep[s].rows \in [DOMAIN sweep[s].rows -> Snap]
      /\ DOMAIN sweep[s].rows \subseteq Connections
  BY SweepFacts
<1>2. Without(s, c) \in [DOMAIN sweep[s].rows \ {c} -> Snap]
  BY <1>1 DEF Without, Todo, Seen
<1>3. (DOMAIN sweep[s].rows \ {c}) \in SUBSET Connections
  BY <1>1
<1>4. QED BY <1>2, <1>3 DEF Without, Todo, Seen

\* A sweep that has done with its connection is in order.
LEMMA ReleasedGood ==
    ASSUME Typed, NEW s \in Sweeps
    PROVE  GoodSweep([sweep[s] EXCEPT !.pc = "loop", !.rows = Without(s, sweep[s].conn),
                                      !.conn = None, !.got = None])
<1> DEFINE t == [sweep[s] EXCEPT !.pc = "loop", !.rows = Without(s, sweep[s].conn),
                                 !.conn = None, !.got = None]
<1>1. sweep[s] \in SweepState
  BY SweepFacts
<1>2. t \in SweepState
  BY <1>1, WithoutShape DEF SweepState, Answers
<1>3. t.pc = "loop" /\ t.conn = None /\ t.got = None
  BY <1>1 DEF SweepState
<1> HIDE DEF t
<1>4. GoodSweep(t)
  BY <1>2, <1>3 DEF GoodSweep
<1>5. QED BY <1>4 DEF t

\* Rows keep their type when a token is stored, a mark is set or time passes.
LEMMA RowMoves ==
    ASSUME Typed, NEW c \in Connections, NEW x \in Row, row' = [row EXCEPT ![c] = x]
    PROVE  row' \in [Connections -> Row]
BY DEF Typed

\* What a provider answers.
LEMMA ExchangeTyped ==
    ASSUME Typed, NEW c \in Connections, NEW g \in Generations, NEW got, Exchange(c, g, got)
    PROVE  /\ newest' \in [Connections -> Generations]
           /\ lost' \subseteq Connections /\ lost \subseteq lost'
           /\ \A d \in Connections \ {c} : newest'[d] = newest[d]
           /\ \/ got = None /\ newest' = newest /\ lost' = lost
              \/ got = None /\ c \in lost'
              \/ /\ g = newest[c] /\ got = g + 1 /\ newest'[c] = g + 1
                 /\ g + 1 \in Generations /\ lost' = lost
<1>1. CASE got = None /\ UNCHANGED <<newest, lost>>
  BY <1>1 DEF Typed
<1>2. CASE /\ g = newest[c] /\ g < MaxRotations
           /\ newest' = [newest EXCEPT ![c] = g + 1]
           /\ \/ got = g + 1 /\ UNCHANGED lost
              \/ "network" \in Faults /\ got = None /\ lost' = lost \cup {c}
  <2>1. g + 1 \in Generations
    BY <1>2, RefreshAssumption DEF Generations
  <2>2. QED BY <1>2, <2>1 DEF Typed
<1>3. QED BY <1>1, <1>2 DEF Exchange

\* A sweep reads the rows, or comes to its end.
LEMMA SweepTurns ==
    ASSUME Typed, NEW s \in Sweeps, Begin(s) \/ End(s)
    PROVE  Typed'
<1>0. NoSweep \in SweepState
  <2>1. NoSweep.rows \in [{} -> Snap]
    BY DEF NoSweep
  <2>2. QED BY <2>1 DEF NoSweep, SweepState, Answers
<1>1. CASE Begin(s)
  <2> DEFINE R == [c \in Connections |-> Snapshot(row[c])]
             t == [NoSweep EXCEPT !.pc = "loop", !.rows = R]
  <2>1. R \in [Connections -> Snap]
    BY Snapshots DEF Typed
  <2>2. R \in UNION {[T -> Snap] : T \in SUBSET Connections}
    BY <2>1
  <2> HIDE DEF R
  <2>3. t \in SweepState
    BY <1>0, <2>2 DEF SweepState
  <2>4. t.pc = "loop" /\ t.conn = None /\ t.got = None
    BY <1>0 DEF SweepState, NoSweep
  <2>5. sweep' = [sweep EXCEPT ![s] = t]
    BY <1>1 DEF Begin, R
  <2> HIDE DEF t
  <2>6. GoodSweep(t)
    BY <2>3, <2>4 DEF GoodSweep
  <2>7. QED BY <1>1, <2>5, <2>6, SweepMoves DEF Begin, Typed
<1>2. CASE End(s)
  <2>1. GoodSweep(NoSweep)
    BY <1>0 DEF GoodSweep, NoSweep
  <2>2. QED BY <1>2, <2>1, SweepMoves DEF End, Typed
<1>3. QED BY <1>1, <1>2

\* It passes a connection over, or takes it.
LEMMA SweepChooses ==
    ASSUME Typed, NEW s \in Sweeps, Skip(s) \/ Take(s)
    PROVE  Typed'
<1>0. /\ sweep[s] \in SweepState /\ GoodSweep(sweep[s])
      /\ Todo(s) = DOMAIN sweep[s].rows /\ DOMAIN sweep[s].rows \subseteq Connections
  BY SweepFacts DEF Todo
<1>a. sweep[s].pc = "loop" /\ sweep[s].conn = None /\ sweep[s].got = None
  BY <1>0 DEF Skip, Take, GoodSweep
<1>1. CASE Skip(s)
  <2>1. PICK c \in Todo(s) : sweep' = [sweep EXCEPT ![s].rows = Without(s, c)]
    BY <1>1 DEF Skip
  <2> DEFINE t == [sweep[s] EXCEPT !.rows = Without(s, c)]
  <2>2. t \in SweepState
    BY <1>0, WithoutShape DEF SweepState
  <2>3. t.pc = "loop" /\ t.conn = None /\ t.got = None
    BY <1>0, <1>a DEF SweepState
  <2>4. sweep' = [sweep EXCEPT ![s] = t]
    BY <2>1
  <2> HIDE DEF t
  <2>5. GoodSweep(t)
    BY <2>2, <2>3 DEF GoodSweep
  <2>6. QED BY <1>1, <2>4, <2>5, SweepMoves DEF Skip, Typed
<1>2. CASE Take(s)
  <2>1. PICK c \in Todo(s), where \in {"refreshing", "copilot"} :
          /\ inProgress' = inProgress \cup {c}
          /\ sweep' = [sweep EXCEPT ![s].pc = where, ![s].conn = c]
    BY <1>2 DEF Take
  <2> DEFINE t == [sweep[s] EXCEPT !.pc = where, !.conn = c]
  <2>2. c \in Connections /\ c # None
    BY <1>0, Tokens
  <2>3. t \in SweepState
    BY <1>0, <2>2 DEF SweepState
  <2>4. t.pc = where /\ t.conn = c /\ t.got = None /\ t.rows = sweep[s].rows
    BY <1>0, <1>a DEF SweepState
  <2>5. sweep' = [sweep EXCEPT ![s] = t]
    BY <2>1
  <2> HIDE DEF t
  <2>6. GoodSweep(t)
    BY <1>0, <2>2, <2>3, <2>4 DEF GoodSweep
  <2>7. QED BY <1>2, <2>1, <2>2, <2>5, <2>6, SweepMoves DEF Take, Typed
<1>3. QED BY <1>1, <1>2

\* A sweep that is at a connection.
LEMMA AtConnection ==
    ASSUME Typed, NEW s \in Sweeps, sweep[s].pc \notin {"idle", "loop"}
    PROVE  /\ sweep[s].conn \in Connections /\ sweep[s].conn \in DOMAIN sweep[s].rows
           /\ row[sweep[s].conn] \in Row
           /\ Seen(s, sweep[s].conn) \in Snap
           /\ Seen(s, sweep[s].conn).token \in Generations
<1>1. /\ sweep[s].conn \in Connections /\ sweep[s].conn \in DOMAIN sweep[s].rows
      /\ sweep[s].rows \in [DOMAIN sweep[s].rows -> Snap]
  BY SweepFacts DEF GoodSweep
<1>2. sweep[s].rows[sweep[s].conn] \in Snap
  BY <1>1
<1>3. QED BY <1>1, <1>2 DEF Typed, Seen, Snap

\* It asks for a new token.
LEMMA SweepAsks ==
    ASSUME Typed, NEW s \in Sweeps, Refresh(s)
    PROVE  /\ Typed'
           /\ \E c \in Connections, got \in Answers :
                /\ c = sweep[s].conn /\ c \in DOMAIN sweep[s].rows
                /\ sweep' = [sweep EXCEPT
                     ![s] = [sweep[s] EXCEPT
                               !.pc = IF got = None THEN "failing" ELSE "storing",
                               !.got = got]]
                /\ lost \subseteq lost'
                /\ \A d \in Connections \ {c} : newest'[d] = newest[d]
                /\ \/ got = None /\ newest' = newest
                   \/ got = None /\ c \in lost'
                   \/ /\ sweep[s].rows[c].token = newest[c]
                      /\ got = newest[c] + 1 /\ newest'[c] = got /\ got # None
<1>0. sweep[s].pc = "refreshing"
  BY DEF Refresh
<1>1. PICK c \in Connections :
        /\ c = sweep[s].conn /\ c \in DOMAIN sweep[s].rows
        /\ Seen(s, c).token \in Generations /\ Seen(s, c).token = sweep[s].rows[c].token
  BY <1>0, AtConnection DEF Seen
<1>2. PICK got \in Answers :
        /\ IF c \in GitHub THEN Exchange(c, Seen(s, c).token, got)
                           ELSE got = None /\ UNCHANGED <<newest, lost>>
        /\ sweep' = [sweep EXCEPT ![s].pc = IF got = None THEN "failing" ELSE "storing",
                                  ![s].got = got]
  BY <1>1 DEF Refresh
<1>3. /\ newest' \in [Connections -> Generations]
      /\ lost' \subseteq Connections /\ lost \subseteq lost'
      /\ \A d \in Connections \ {c} : newest'[d] = newest[d]
      /\ \/ got = None /\ newest' = newest
         \/ got = None /\ c \in lost'
         \/ /\ sweep[s].rows[c].token = newest[c]
            /\ got = newest[c] + 1 /\ newest'[c] = got /\ got # None
  <2>1. CASE c \in GitHub
    <3>1. PICK g \in Generations : g = Seen(s, c).token /\ g = sweep[s].rows[c].token
      BY <1>1
    <3>2. Exchange(c, Seen(s, c).token, got)
      BY <1>2, <2>1
    <3>3. Exchange(c, g, got)
      BY <3>1, <3>2 DEF Exchange
    <3>4. /\ newest' \in [Connections -> Generations]
          /\ lost' \subseteq Connections /\ lost \subseteq lost'
          /\ \A d \in Connections \ {c} : newest'[d] = newest[d]
          /\ \/ got = None /\ newest' = newest /\ lost' = lost
             \/ got = None /\ c \in lost'
             \/ /\ g = newest[c] /\ got = g + 1 /\ newest'[c] = g + 1
                /\ g + 1 \in Generations /\ lost' = lost
      BY <3>3, ExchangeTyped
    <3>5. QED BY <3>1, <3>4, Tokens
  <2>2. CASE c \notin GitHub
    BY <1>2, <2>2 DEF Typed
  <2>3. QED BY <2>1, <2>2
<1> DEFINE where == IF got = None THEN "failing" ELSE "storing"
           t == [sweep[s] EXCEPT !.pc = where, !.got = got]
<1>4. sweep[s] \in SweepState /\ GoodSweep(sweep[s])
  BY SweepFacts
<1>5. t \in SweepState
  BY <1>4 DEF SweepState
<1>6. t.pc = where /\ t.conn = sweep[s].conn /\ t.got = got /\ t.rows = sweep[s].rows
  BY <1>4 DEF SweepState
<1>7. sweep' = [sweep EXCEPT ![s] = t]
  BY <1>2
<1> HIDE DEF t
<1>8. GoodSweep(t)
  BY <1>0, <1>4, <1>5, <1>6 DEF GoodSweep
<1>9. Typed'
  BY <1>3, <1>7, <1>8, SweepMoves DEF Refresh, Typed
<1>10. QED BY <1>1, <1>3, <1>7, <1>9 DEF t

\* It stores what it was given.
LEMMA SweepStores ==
    ASSUME Typed, NEW s \in Sweeps, Store(s)
    PROVE  Typed'
<1>0. sweep[s].pc = "storing" /\ sweep[s] \in SweepState /\ GoodSweep(sweep[s])
  BY SweepFacts DEF Store
<1>1. PICK c \in Connections :
        /\ c = sweep[s].conn /\ c \in DOMAIN sweep[s].rows /\ row[c] \in Row
  BY <1>0, AtConnection
<1>2. sweep[s].got \in Generations
  BY <1>0 DEF GoodSweep, SweepState, Answers
<1> DEFINE x == [row[c] EXCEPT !.token = sweep[s].got, !.due = FALSE]
<1>3. x \in Row
  BY <1>1, <1>2 DEF Row
<1>4. row' = [row EXCEPT ![c] = x]
  BY <1>1 DEF Store
<1> HIDE DEF x
<1>5. row' \in [Connections -> Row]
  BY <1>3, <1>4, RowMoves
<1>6. CASE /\ sweep' = [sweep EXCEPT ![s].pc = "copilot", ![s].got = None]
           /\ UNCHANGED inProgress
  <2> DEFINE t == [sweep[s] EXCEPT !.pc = "copilot", !.got = None]
  <2>1. t \in SweepState
    BY <1>0 DEF SweepState, Answers
  <2>2. t.pc = "copilot" /\ t.conn = sweep[s].conn /\ t.got = None /\ t.rows = sweep[s].rows
    BY <1>0 DEF SweepState
  <2>3. sweep' = [sweep EXCEPT ![s] = t]
    BY <1>6
  <2> HIDE DEF t
  <2>4. GoodSweep(t)
    BY <1>0, <2>1, <2>2 DEF GoodSweep
  <2>5. QED BY <1>5, <1>6, <2>3, <2>4, SweepMoves DEF Store, Typed
<1>7. CASE Released(s)
  BY <1>5, <1>7, ReleasedGood, SweepMoves DEF Store, Released, Typed
<1>8. QED BY <1>6, <1>7 DEF Store

\* It fails to store it, asks for a Copilot token, or marks the connection.
LEMMA SweepGoesOn ==
    ASSUME Typed, NEW s \in Sweeps,
           StoreFails(s) \/ RefreshCopilot(s) \/ MarkNeedsReauth(s) \/ MarkFails(s)
    PROVE  Typed'
<1>0. /\ sweep[s].pc \in {"storing", "copilot", "failing"}
      /\ sweep[s] \in SweepState /\ GoodSweep(sweep[s])
  BY SweepFacts DEF StoreFails, RefreshCopilot, MarkNeedsReauth, MarkFails
<1>1. PICK c \in Connections :
        /\ c = sweep[s].conn /\ c \in DOMAIN sweep[s].rows /\ row[c] \in Row
  BY <1>0, AtConnection
<1>2. CASE StoreFails(s)
  <2> DEFINE t == [sweep[s] EXCEPT !.pc = "failing", !.got = None]
  <2>1. t \in SweepState
    BY <1>0 DEF SweepState, Answers
  <2>2. t.pc = "failing" /\ t.conn = sweep[s].conn /\ t.got = None /\ t.rows = sweep[s].rows
    BY <1>0 DEF SweepState
  <2>3. sweep' = [sweep EXCEPT ![s] = t]
    BY <1>2 DEF StoreFails
  <2> HIDE DEF t
  <2>4. GoodSweep(t)
    BY <1>0, <2>1, <2>2 DEF GoodSweep
  <2>5. QED BY <1>1, <1>2, <2>3, <2>4, SweepMoves DEF StoreFails, Typed
<1>3. CASE RefreshCopilot(s) \/ MarkNeedsReauth(s) \/ MarkFails(s)
  <2>1. Released(s) /\ UNCHANGED <<newest, request, lost, crashes>>
    BY <1>3 DEF RefreshCopilot, MarkNeedsReauth, MarkFails
  <2>2. [row[c] EXCEPT !.copilotDue = FALSE] \in Row /\ [row[c] EXCEPT !.status = "needs_reauth"] \in Row
    BY <1>1 DEF Row
  <2>3. \/ row' = row
        \/ row' = [row EXCEPT ![c] = [row[c] EXCEPT !.copilotDue = FALSE]]
        \/ row' = [row EXCEPT ![c] = [row[c] EXCEPT !.status = "needs_reauth"]]
    BY <1>1, <1>3 DEF RefreshCopilot, MarkNeedsReauth, MarkFails
  <2>4. row' \in [Connections -> Row]
    BY <2>2, <2>3, RowMoves DEF Typed
  <2>5. QED BY <2>1, <2>4, ReleasedGood, SweepMoves DEF Released, Typed
<1>4. QED BY <1>2, <1>3

\* What is known of a request.
LEMMA RequestFacts ==
    ASSUME Typed, NEW r \in Requests
    PROVE  /\ GoodRequest(request[r]) /\ request[r] \in RequestState
           /\ request[r].pc # "idle" => request[r].conn \in Connections
           /\ request[r].pc = "calling" => request[r].token \in Generations
           /\ request[r].pc = "saving" => request[r].got \in Generations
BY DEF Typed, GoodRequest, RequestState, Answers

\* A request that is done with.
LEMMA IdleGood == GoodRequest(NoRequest)
<1>1. NoRequest \in RequestState
  BY DEF NoRequest, RequestState, Answers
<1>2. QED BY <1>1 DEF GoodRequest, NoRequest

\* A request is routed.
LEMMA RequestRouted ==
    ASSUME Typed, NEW r \in Requests, Route(r)
    PROVE  /\ Typed'
           /\ \E c \in Connections, new \in RequestState :
                /\ request' = [request EXCEPT ![r] = new]
                /\ new.conn = c /\ new.token = row[c].token /\ new.got = None
<1>1. PICK c \in Connections :
        Move(r, [NoRequest EXCEPT !.pc = "calling", !.conn = c, !.token = row[c].token,
                                   !.error = row[c].status # "active"])
  BY DEF Route
<1> DEFINE e == row[c].status # "active"
           t == [NoRequest EXCEPT !.pc = "calling", !.conn = c, !.token = row[c].token,
                                  !.error = e]
<1>2. row[c].token \in Generations /\ e \in BOOLEAN
  BY DEF Typed, Row
<1>3. Move(r, t)
  BY <1>1
<1>4. NoRequest \in RequestState /\ NoRequest.got = None
  BY IdleGood DEF GoodRequest, NoRequest
<1> HIDE DEF e
<1>5. t \in RequestState
  BY <1>2, <1>4 DEF RequestState, Answers
<1>6. t.pc = "calling" /\ t.conn = c /\ t.token = row[c].token /\ t.got = None
  BY <1>4 DEF RequestState
<1> HIDE DEF t
<1>7. GoodRequest(t)
  BY <1>2, <1>5, <1>6, Tokens DEF GoodRequest
<1>8. Typed'
  BY <1>3, <1>7, RequestMoves DEF Route, Typed
<1>9. QED BY <1>3, <1>5, <1>6, <1>8 DEF Move

\* A request asks for a new token.
LEMMA RequestAsks ==
    ASSUME Typed, NEW r \in Requests, Renew(r)
    PROVE  /\ Typed'
           /\ \E c \in Connections, got \in Answers :
                /\ c = request[r].conn /\ request[r].token # None
                /\ request' = [request EXCEPT
                     ![r] = [request[r] EXCEPT
                               !.pc = IF got = None THEN "failed" ELSE "saving",
                               !.token = None, !.got = got]]
                /\ lost \subseteq lost'
                /\ \A d \in Connections \ {c} : newest'[d] = newest[d]
                /\ \/ got = None /\ newest' = newest
                   \/ got = None /\ c \in lost'
                   \/ /\ request[r].token = newest[c]
                      /\ got = newest[c] + 1 /\ newest'[c] = got /\ got # None
<1>0. request[r].pc = "calling" /\ request[r] \in RequestState /\ GoodRequest(request[r])
  BY RequestFacts DEF Renew
<1>1. PICK c \in Connections, g \in Generations :
        c = request[r].conn /\ g = request[r].token /\ request[r].token # None
  BY <1>0, RequestFacts, Tokens
<1>2. PICK got \in Answers :
        /\ Exchange(request[r].conn, request[r].token, got)
        /\ Move(r, [request[r] EXCEPT !.pc = IF got = None THEN "failed" ELSE "saving",
                                      !.token = None, !.got = got])
  BY DEF Renew
<1>3. Exchange(c, g, got)
  BY <1>1, <1>2 DEF Exchange
<1>4. /\ newest' \in [Connections -> Generations]
      /\ lost' \subseteq Connections /\ lost \subseteq lost'
      /\ \A d \in Connections \ {c} : newest'[d] = newest[d]
      /\ \/ got = None /\ newest' = newest /\ lost' = lost
         \/ got = None /\ c \in lost'
         \/ /\ g = newest[c] /\ got = g + 1 /\ newest'[c] = g + 1
            /\ g + 1 \in Generations /\ lost' = lost
  BY <1>3, ExchangeTyped
<1> DEFINE where == IF got = None THEN "failed" ELSE "saving"
           t == [request[r] EXCEPT !.pc = where, !.token = None, !.got = got]
<1>5. t \in RequestState
  BY <1>0 DEF RequestState, Answers
<1>6. t.pc = where /\ t.conn = request[r].conn /\ t.got = got
  BY <1>0 DEF RequestState
<1>7. Move(r, t)
  BY <1>2
<1> HIDE DEF t
<1>8. GoodRequest(t)
  BY <1>0, <1>5, <1>6 DEF GoodRequest
<1>9. Typed'
  BY <1>4, <1>7, <1>8, RequestMoves DEF Renew, Typed
<1>10. QED BY <1>1, <1>4, <1>7, <1>9, Tokens DEF t, Move

\* A request stores its token, or fails to.
LEMMA RequestStores ==
    ASSUME Typed, NEW r \in Requests, Save(r)
    PROVE  Typed'
<1>0. request[r].pc = "saving" /\ request[r] \in RequestState /\ GoodRequest(request[r])
  BY RequestFacts DEF Save
<1>1. PICK c \in Connections : c = request[r].conn /\ row[c] \in Row
  BY <1>0, RequestFacts DEF Typed
<1>2. [row[c] EXCEPT !.token = request[r].got] \in Row
  BY <1>0, <1>1, RequestFacts DEF Row
<1>3. \/ row' = [row EXCEPT ![c] = [row[c] EXCEPT !.token = request[r].got]]
      \/ row' = row
  BY <1>1 DEF Save
<1>4. row' \in [Connections -> Row]
  BY <1>2, <1>3, RowMoves DEF Typed
<1>5. lost' \subseteq Connections
  BY <1>1 DEF Save, Typed
<1> DEFINE t == [request[r] EXCEPT !.pc = "called", !.got = None]
<1>6. t \in RequestState
  BY <1>0 DEF RequestState, Answers
<1>7. t.pc = "called" /\ t.conn = request[r].conn /\ t.got = None
  BY <1>0 DEF RequestState
<1>8. Move(r, t)
  BY DEF Save
<1> HIDE DEF t
<1>9. GoodRequest(t)
  BY <1>0, <1>6, <1>7 DEF GoodRequest
<1>10. QED BY <1>4, <1>5, <1>8, <1>9, RequestMoves DEF Save, Typed

\* The provider answers.
LEMMA RequestAnswered ==
    ASSUME Typed, NEW r \in Requests, Answer(r)
    PROVE  /\ Typed'
           /\ request[r].got = None
           /\ \E pc \in {"succeeded", "failed"} :
                request' = [request EXCEPT ![r] = [request[r] EXCEPT !.pc = pc]]
<1>0. /\ request[r].pc \in {"calling", "called"}
      /\ request[r] \in RequestState /\ GoodRequest(request[r])
  BY RequestFacts DEF Answer
<1>1. PICK pc \in {"succeeded", "failed"} : Move(r, [request[r] EXCEPT !.pc = pc])
  BY DEF Answer
<1> DEFINE t == [request[r] EXCEPT !.pc = pc]
<1>2. t \in RequestState
  BY <1>0 DEF RequestState
<1>3. t.pc = pc /\ t.conn = request[r].conn /\ t.got = request[r].got
  BY <1>0 DEF RequestState
<1>4. Move(r, t)
  BY <1>1
<1> HIDE DEF t
<1>5. GoodRequest(t)
  BY <1>0, <1>2, <1>3 DEF GoodRequest
<1>6. Typed'
  BY <1>4, <1>5, RequestMoves DEF Answer, Typed
<1>7. request[r].got = None
  BY <1>0 DEF GoodRequest
<1>8. QED BY <1>4, <1>6, <1>7 DEF t, Move

\* A request ends, and its account may be marked or healed.
LEMMA RequestEnds ==
    ASSUME Typed, NEW r \in Requests,
           Leave(r) \/ ClearAccountError(r) \/ MarkAccountUnavailable(r)
    PROVE  /\ Typed'
           /\ request[r].got = None
           /\ Move(r, NoRequest)
           /\ UNCHANGED <<newest, inProgress, sweep, lost, crashes>>
           /\ \A c \in Connections : row'[c].token = row[c].token
<1>0. /\ request[r].pc \in {"calling", "called", "succeeded", "failed"}
      /\ GoodRequest(request[r])
  BY RequestFacts DEF Leave, ClearAccountError, MarkAccountUnavailable
<1>1. PICK c \in Connections : c = request[r].conn /\ row[c] \in Row
  BY <1>0, RequestFacts DEF Typed
<1>2. PICK status \in {"active", "unavailable", "needs_reauth"} :
        row' = row \/ row' = [row EXCEPT ![c] = [row[c] EXCEPT !.status = status]]
  <2>1. CASE Leave(r)
    BY <2>1 DEF Leave
  <2>2. CASE ClearAccountError(r)
    <3>1. row' = [row EXCEPT ![c] = [row[c] EXCEPT
                    !.status = IF request[r].error THEN "active" ELSE row[c].status]]
      BY <1>1, <2>2 DEF ClearAccountError
    <3>2. row[c].status \in {"active", "unavailable", "needs_reauth"}
      BY <1>1 DEF Row
    <3>3. QED BY <3>1, <3>2
  <2>3. CASE MarkAccountUnavailable(r)
    BY <1>1, <2>3 DEF MarkAccountUnavailable
  <2>4. QED BY <2>1, <2>2, <2>3
<1> DEFINE x == [row[c] EXCEPT !.status = status]
<1>3. x \in Row /\ x.token = row[c].token
  BY <1>1 DEF Row
<1>4. row' = row \/ row' = [row EXCEPT ![c] = x]
  BY <1>2
<1> HIDE DEF x
<1>5. row' \in [Connections -> Row] /\ \A d \in Connections : row'[d].token = row[d].token
  BY <1>3, <1>4, RowMoves DEF Typed
<1>6. Move(r, NoRequest) /\ UNCHANGED <<newest, inProgress, sweep, lost, crashes>>
  BY DEF Leave, ClearAccountError, MarkAccountUnavailable
<1>7. Typed'
  BY <1>5, <1>6, IdleGood, RequestMoves DEF Typed
<1>8. request[r].got = None
  BY <1>0 DEF GoodRequest
<1>9. QED BY <1>5, <1>6, <1>7, <1>8

\* Time passes.
LEMMA TokenExpires ==
    ASSUME Typed, NEW c \in Connections, Expire(c)
    PROVE  /\ Typed'
           /\ UNCHANGED <<newest, sweep, request, lost>>
           /\ \A d \in Connections : row'[d].token = row[d].token
<1>1. row[c] \in Row
  BY DEF Typed
<1>2. /\ [row[c] EXCEPT !.due = TRUE] \in Row
      /\ [row[c] EXCEPT !.copilotDue = TRUE] \in Row
      /\ [row[c] EXCEPT !.due = TRUE].token = row[c].token
      /\ [row[c] EXCEPT !.copilotDue = TRUE].token = row[c].token
  BY <1>1 DEF Row
<1>3. PICK x \in Row : x.token = row[c].token /\ row' = [row EXCEPT ![c] = x]
  BY <1>2 DEF Expire
<1>4. row' \in [Connections -> Row] /\ \A d \in Connections : row'[d].token = row[d].token
  BY <1>3, RowMoves DEF Typed
<1>5. QED BY <1>4 DEF Expire, Typed

\* The process dies.
LEMMA ProcessDies ==
    ASSUME Typed, Crash
    PROVE  Typed'
<1>1. NoSweep \in SweepState
  <2>1. NoSweep.rows \in [{} -> Snap]
    BY DEF NoSweep
  <2>2. QED BY <2>1 DEF NoSweep, SweepState, Answers
<1>2. GoodSweep(NoSweep)
  BY <1>1 DEF GoodSweep, NoSweep
<1>3. lost' \subseteq Connections
  <2>1. \A s \in Sweeps : sweep[s].pc = "storing" => sweep[s].conn \in Connections
    BY AtConnection
  <2>2. \A r \in Requests : request[r].pc = "saving" => request[r].conn \in Connections
    BY RequestFacts
  <2>3. QED BY <2>1, <2>2 DEF Crash, Typed
<1>4. crashes' \in 0..MaxCrashes
  BY RefreshAssumption DEF Crash, Typed
<1>5. /\ sweep' \in [Sweeps -> SweepState] /\ \A s \in Sweeps : GoodSweep(sweep'[s])
      /\ request' \in [Requests -> RequestState] /\ \A r \in Requests : GoodRequest(request'[r])
  BY <1>1, <1>2, IdleGood DEF Crash, GoodRequest
<1>6. inProgress' \subseteq Connections
  BY DEF Crash
<1>7. QED BY <1>3, <1>4, <1>5, <1>6 DEF Crash, Typed

\* Every step keeps the types.
LEMMA TypedInductive == Typed /\ [Next]_vars => Typed'
<1> SUFFICES ASSUME Typed, [Next]_vars PROVE Typed'
  OBVIOUS
<1>1. ASSUME NEW s \in Sweeps, SweepStep(s) PROVE Typed'
  BY <1>1, SweepTurns, SweepChooses, SweepAsks, SweepStores, SweepGoesOn DEF SweepStep
<1>2. ASSUME NEW r \in Requests, RequestStep(r) PROVE Typed'
  BY <1>2, RequestRouted, RequestAsks, RequestStores, RequestAnswered, RequestEnds
  DEF RequestStep
<1>3. ASSUME NEW c \in Connections, Expire(c) PROVE Typed'
  BY <1>3, TokenExpires
<1>4. CASE Crash
  BY <1>4, ProcessDies
<1>5. CASE UNCHANGED vars
  BY <1>5 DEF vars, Typed
<1>6. QED BY <1>1, <1>2, <1>3, <1>4, <1>5 DEF Next

-----------------------------------------------------------------------------
(* The newest token of one connection.                                     *)

\* The tokens of a connection are numbers.
LEMMA TokenNumbers ==
    ASSUME Typed, NEW c \in Connections
    PROVE  /\ newest[c] \in Nat /\ row[c].token \in Nat
           /\ newest[c] # None /\ row[c].token # None
           /\ \A s \in Sweeps :
                c \in DOMAIN sweep[s].rows => sweep[s].rows[c].token \in Nat
           /\ \A r \in Requests :
                request[r].token # None => request[r].token \in Nat
<1>1. \A s \in Sweeps : c \in DOMAIN sweep[s].rows => sweep[s].rows[c] \in Snap
  BY SweepFacts
<1>2. newest[c] \in Generations /\ row[c].token \in Generations
  BY DEF Typed, Row
<1>3. \A s \in Sweeps : c \in DOMAIN sweep[s].rows => sweep[s].rows[c].token \in Generations
  BY <1>1 DEF Snap
<1>4. \A r \in Requests : request[r].token # None => request[r].token \in Generations
  BY DEF Typed, RequestState, Answers
<1>5. QED BY <1>2, <1>3, <1>4, Tokens

\* Nothing happens to c.
LEMMA NothingNew ==
    ASSUME NEW c \in Connections, ReadsOld(c), OneHolder(c),
           sweep' = sweep, request' = request,
           newest'[c] = newest[c], row'[c].token = row[c].token
    PROVE  ReadsOld(c)' /\ OneHolder(c)'
BY DEF ReadsOld, OneHolder, HoldingSweeps, HoldingRequests

\* A sweep goes on and neither gets nor stores a token of c.
LEMMA SweepQuiet ==
    ASSUME Typed, NEW c \in Connections, ReadsOld(c), OneHolder(c),
           NEW s \in Sweeps, NEW new, sweep' = [sweep EXCEPT ![s] = new],
           request' = request, newest'[c] = newest[c], row'[c].token = row[c].token,
           c \in DOMAIN new.rows => new.rows[c].token <= row[c].token,
           (new.conn = c /\ new.got # None) <=> (sweep[s].conn = c /\ sweep[s].got # None),
           (new.conn = c /\ new.got # None) => new.got = sweep[s].got
    PROVE  ReadsOld(c)' /\ OneHolder(c)'
<1>1. sweep'[s] = new /\ \A t \in Sweeps \ {s} : sweep'[t] = sweep[t]
  BY DEF Typed
<1>2. HoldingSweeps(c)' = HoldingSweeps(c) /\ HoldingRequests(c)' = HoldingRequests(c)
  BY <1>1 DEF HoldingSweeps, HoldingRequests
<1>3. \A t \in HoldingSweeps(c) : sweep'[t].got = newest[c]
  BY <1>1 DEF HoldingSweeps, OneHolder
<1>4. OneHolder(c)'
  BY <1>2, <1>3 DEF OneHolder
<1>5. ReadsOld(c)'
  BY <1>1 DEF ReadsOld
<1>6. QED BY <1>4, <1>5

\* The same of a request.
LEMMA RequestQuiet ==
    ASSUME Typed, NEW c \in Connections, ReadsOld(c), OneHolder(c),
           NEW r \in Requests, NEW new, request' = [request EXCEPT ![r] = new],
           sweep' = sweep, newest'[c] = newest[c], row'[c].token = row[c].token,
           (new.conn = c /\ new.token # None) => new.token <= row[c].token,
           (new.conn = c /\ new.got # None) <=> (request[r].conn = c /\ request[r].got # None),
           (new.conn = c /\ new.got # None) => new.got = request[r].got
    PROVE  ReadsOld(c)' /\ OneHolder(c)'
<1>1. request'[r] = new /\ \A q \in Requests \ {r} : request'[q] = request[q]
  BY DEF Typed
<1>2. HoldingRequests(c)' = HoldingRequests(c) /\ HoldingSweeps(c)' = HoldingSweeps(c)
  BY <1>1 DEF HoldingSweeps, HoldingRequests
<1>3. \A q \in HoldingRequests(c) : request'[q].got = newest[c]
  BY <1>1 DEF HoldingRequests, OneHolder
<1>4. OneHolder(c)'
  BY <1>2, <1>3 DEF OneHolder
<1>5. ReadsOld(c)'
  BY <1>1 DEF ReadsOld
<1>6. QED BY <1>4, <1>5

\* The provider accepts a token that was read: the row holds it, and nobody
\* has another one.
LEMMA AcceptedIsStored ==
    ASSUME Typed, NEW c \in Connections, ReadsOld(c), OneHolder(c),
           \/ \E s \in Sweeps : c \in DOMAIN sweep[s].rows /\ sweep[s].rows[c].token = newest[c]
           \/ \E r \in Requests : /\ request[r].conn = c /\ request[r].token # None
                                  /\ request[r].token = newest[c]
    PROVE  /\ row[c].token = newest[c]
           /\ HoldingSweeps(c) = {} /\ HoldingRequests(c) = {}
<1>1. newest[c] <= row[c].token /\ row[c].token <= newest[c]
  BY DEF ReadsOld
<1>2. row[c].token = newest[c]
  BY <1>1, TokenNumbers
<1>3. QED BY <1>2 DEF OneHolder

\* A sweep gets a new token of c.
LEMMA SweepGets ==
    ASSUME Typed, NEW c \in Connections, ReadsOld(c), OneHolder(c),
           NEW s \in Sweeps, NEW new, sweep' = [sweep EXCEPT ![s] = new],
           request' = request, row' = row,
           c \in DOMAIN sweep[s].rows, sweep[s].rows[c].token = newest[c],
           newest'[c] = newest[c] + 1,
           new.rows = sweep[s].rows, new.conn = c, new.got = newest'[c], new.got # None
    PROVE  ReadsOld(c)' /\ OneHolder(c)'
<1>1. sweep'[s] = new /\ \A t \in Sweeps \ {s} : sweep'[t] = sweep[t]
  BY DEF Typed
<1>2. /\ row[c].token = newest[c]
      /\ HoldingSweeps(c) = {} /\ HoldingRequests(c) = {}
  BY AcceptedIsStored
<1>3. HoldingSweeps(c)' = {s} /\ HoldingRequests(c)' = {}
  BY <1>1, <1>2 DEF HoldingSweeps, HoldingRequests
<1>4. row'[c].token # newest'[c] /\ row'[c].token <= newest'[c]
  BY <1>2, TokenNumbers
<1>5. OneHolder(c)'
  BY <1>1, <1>3, <1>4 DEF OneHolder
<1>6. ReadsOld(c)'
  BY <1>1, <1>4 DEF ReadsOld
<1>7. QED BY <1>5, <1>6

\* A request does.
LEMMA RequestGets ==
    ASSUME Typed, NEW c \in Connections, ReadsOld(c), OneHolder(c),
           NEW r \in Requests, NEW new, request' = [request EXCEPT ![r] = new],
           sweep' = sweep, row' = row,
           request[r].conn = c, request[r].token # None, request[r].token = newest[c],
           newest'[c] = newest[c] + 1,
           new.token = None, new.conn = c, new.got = newest'[c], new.got # None
    PROVE  ReadsOld(c)' /\ OneHolder(c)'
<1>1. request'[r] = new /\ \A q \in Requests \ {r} : request'[q] = request[q]
  BY DEF Typed
<1>2. /\ row[c].token = newest[c]
      /\ HoldingSweeps(c) = {} /\ HoldingRequests(c) = {}
  BY AcceptedIsStored
<1>3. HoldingRequests(c)' = {r} /\ HoldingSweeps(c)' = {}
  BY <1>1, <1>2 DEF HoldingSweeps, HoldingRequests
<1>4. row'[c].token # newest'[c] /\ row'[c].token <= newest'[c]
  BY <1>2, TokenNumbers
<1>5. OneHolder(c)'
  BY <1>1, <1>3, <1>4 DEF OneHolder
<1>6. ReadsOld(c)'
  BY <1>1, <1>4 DEF ReadsOld
<1>7. QED BY <1>5, <1>6

\* The sweep that holds the newest token stores it.
LEMMA SweepGives ==
    ASSUME Typed, NEW c \in Connections, ReadsOld(c), OneHolder(c),
           NEW s \in Sweeps, NEW new, sweep' = [sweep EXCEPT ![s] = new],
           request' = request, newest' = newest,
           sweep[s].conn = c, sweep[s].got # None, row'[c].token = sweep[s].got,
           new.got = None,
           c \in DOMAIN new.rows =>
             c \in DOMAIN sweep[s].rows /\ new.rows[c] = sweep[s].rows[c]
    PROVE  ReadsOld(c)' /\ OneHolder(c)'
<1>1. sweep'[s] = new /\ \A t \in Sweeps \ {s} : sweep'[t] = sweep[t]
  BY DEF Typed
<1>2. s \in HoldingSweeps(c)
  BY DEF HoldingSweeps
<1>3. HoldingSweeps(c) = {s} /\ HoldingRequests(c) = {} /\ sweep[s].got = newest[c]
  BY <1>2 DEF OneHolder
<1>4. HoldingSweeps(c)' = {} /\ HoldingRequests(c)' = {}
  BY <1>1, <1>3 DEF HoldingSweeps, HoldingRequests
<1>5. row'[c].token = newest'[c] /\ row[c].token <= row'[c].token
  BY <1>3 DEF ReadsOld
<1>6. OneHolder(c)'
  BY <1>4, <1>5 DEF OneHolder
<1>7. newest'[c] \in Nat /\ row'[c].token \in Nat /\ row[c].token \in Nat
  BY <1>5, TokenNumbers
<1>8. ASSUME NEW t \in Sweeps, c \in DOMAIN sweep'[t].rows
      PROVE  sweep'[t].rows[c].token <= row'[c].token
  <2>1. c \in DOMAIN sweep[t].rows /\ sweep'[t].rows[c] = sweep[t].rows[c]
    BY <1>1, <1>8
  <2>2. sweep[t].rows[c].token <= row[c].token /\ sweep[t].rows[c].token \in Nat
    BY <2>1, TokenNumbers DEF ReadsOld
  <2>3. QED BY <1>5, <1>7, <2>1, <2>2
<1>9. ASSUME NEW r \in Requests, request[r].conn = c, request[r].token # None
      PROVE  request[r].token <= row'[c].token
  <2>1. request[r].token <= row[c].token /\ request[r].token \in Nat
    BY <1>9, TokenNumbers DEF ReadsOld
  <2>2. QED BY <1>5, <1>7, <2>1
<1>10. row'[c].token <= newest'[c]
  BY <1>5, <1>7
<1>11. ReadsOld(c)'
  BY <1>8, <1>9, <1>10 DEF ReadsOld
<1>12. QED BY <1>6, <1>11

\* And the request that holds it.
LEMMA RequestGives ==
    ASSUME Typed, NEW c \in Connections, ReadsOld(c), OneHolder(c),
           NEW r \in Requests, NEW new, request' = [request EXCEPT ![r] = new],
           sweep' = sweep, newest' = newest,
           request[r].conn = c, request[r].got # None, row'[c].token = request[r].got,
           new.got = None, (new.conn = c /\ new.token # None) => new.token <= row[c].token,
           new.token # None => new.token \in Nat
    PROVE  ReadsOld(c)' /\ OneHolder(c)'
<1>1. request'[r] = new /\ \A q \in Requests \ {r} : request'[q] = request[q]
  BY DEF Typed
<1>2. r \in HoldingRequests(c)
  BY DEF HoldingRequests
<1>3. HoldingRequests(c) = {r} /\ HoldingSweeps(c) = {} /\ request[r].got = newest[c]
  BY <1>2 DEF OneHolder
<1>4. HoldingSweeps(c)' = {} /\ HoldingRequests(c)' = {}
  BY <1>1, <1>3 DEF HoldingSweeps, HoldingRequests
<1>5. row'[c].token = newest'[c] /\ row[c].token <= row'[c].token
  BY <1>3 DEF ReadsOld
<1>6. OneHolder(c)'
  BY <1>4, <1>5 DEF OneHolder
<1>7. newest'[c] \in Nat /\ row'[c].token \in Nat /\ row[c].token \in Nat
  BY <1>5, TokenNumbers
<1>8. ReadsOld(c)'
  BY <1>1, <1>5, <1>7, TokenNumbers DEF ReadsOld
<1>9. QED BY <1>6, <1>8

-----------------------------------------------------------------------------
(* The steps, for one connection whose newest token is not lost.           *)

\* A sweep that is at no connection, or whose token is stored.
LEMMA SweepTurnsKeep ==
    ASSUME Typed, NEW s \in Sweeps, Begin(s) \/ Skip(s) \/ Take(s) \/ End(s),
           NEW c \in Connections, Kept(c)
    PROVE  Kept(c)'
<1>0. sweep[s] \in SweepState /\ sweep[s].got = None
  BY SweepFacts DEF Begin, Skip, Take, End, GoodSweep
<1>1. request' = request /\ newest' = newest /\ row' = row
  BY DEF Begin, Skip, Take, End
<1>2. PICK new :
        /\ sweep' = [sweep EXCEPT ![s] = new]
        /\ new.got = None
        /\ c \in DOMAIN new.rows => new.rows[c].token <= row[c].token
  <2>1. CASE Begin(s)
    <3> DEFINE R == [d \in Connections |-> Snapshot(row[d])]
               t == [NoSweep EXCEPT !.pc = "loop", !.rows = R]
    <3>1. sweep' = [sweep EXCEPT ![s] = t]
      BY <2>1 DEF Begin
    <3>2. R[c].token = row[c].token
      BY DEF Snapshot
    <3>3. R[c].token <= row[c].token
      BY <3>2, TokenNumbers
    <3> HIDE DEF R
    <3>4. t.got = None /\ t.rows = R
      BY DEF NoSweep
    <3> HIDE DEF t
    <3>5. QED BY <3>1, <3>3, <3>4
  <2>2. CASE Skip(s)
    <3>1. PICK d : sweep' = [sweep EXCEPT ![s].rows = Without(s, d)]
      BY <2>2 DEF Skip
    <3> DEFINE t == [sweep[s] EXCEPT !.rows = Without(s, d)]
    <3>2. t.got = None /\ t.rows = Without(s, d)
      BY <1>0 DEF SweepState
    <3>3. sweep' = [sweep EXCEPT ![s] = t]
      BY <3>1
    <3> HIDE DEF t
    <3>4. c \in DOMAIN t.rows => c \in DOMAIN sweep[s].rows /\ t.rows[c] = sweep[s].rows[c]
      BY <3>2 DEF Without, Todo, Seen
    <3>5. QED BY <3>2, <3>3, <3>4 DEF Kept, ReadsOld
  <2>3. CASE Take(s)
    <3>1. PICK d, where : sweep' = [sweep EXCEPT ![s].pc = where, ![s].conn = d]
      BY <2>3 DEF Take
    <3> DEFINE t == [sweep[s] EXCEPT !.pc = where, !.conn = d]
    <3>2. t.got = None /\ t.rows = sweep[s].rows
      BY <1>0 DEF SweepState
    <3>3. sweep' = [sweep EXCEPT ![s] = t]
      BY <3>1
    <3> HIDE DEF t
    <3>4. QED BY <3>2, <3>3 DEF Kept, ReadsOld
  <2>4. CASE End(s)
    <3>1. NoSweep.got = None /\ DOMAIN NoSweep.rows = {}
      BY DEF NoSweep
    <3>2. QED BY <2>4, <3>1 DEF End
  <2>5. QED BY <2>1, <2>2, <2>3, <2>4
<1>3. QED BY <1>0, <1>1, <1>2, SweepQuiet DEF Kept

\* A sweep that asks for a token.
LEMMA SweepAsksKeep ==
    ASSUME Typed, NEW s \in Sweeps, Refresh(s), NEW c \in Connections, c \notin lost', Kept(c)
    PROVE  Kept(c)'
<1>1. PICK d \in Connections, got \in Answers :
        /\ d = sweep[s].conn /\ d \in DOMAIN sweep[s].rows
        /\ sweep' = [sweep EXCEPT
             ![s] = [sweep[s] EXCEPT
                       !.pc = IF got = None THEN "failing" ELSE "storing",
                       !.got = got]]
        /\ lost \subseteq lost'
        /\ \A x \in Connections \ {d} : newest'[x] = newest[x]
        /\ \/ got = None /\ newest' = newest
           \/ got = None /\ d \in lost'
           \/ /\ sweep[s].rows[d].token = newest[d]
              /\ got = newest[d] + 1 /\ newest'[d] = got /\ got # None
  BY SweepAsks
<1> DEFINE t == [sweep[s] EXCEPT !.pc = IF got = None THEN "failing" ELSE "storing",
                                 !.got = got]
<1>2. t.conn = d /\ t.got = got /\ t.rows = sweep[s].rows
  BY <1>1, SweepFacts DEF SweepState
<1>3. sweep' = [sweep EXCEPT ![s] = t]
  BY <1>1
<1> HIDE DEF t
<1>4. request' = request /\ row' = row /\ sweep[s].got = None
  BY SweepFacts DEF Refresh, GoodSweep
<1>5. c \in DOMAIN sweep[s].rows => sweep[s].rows[c].token <= row[c].token
  BY DEF Kept, ReadsOld
<1>6. CASE newest'[c] = newest[c] /\ (got = None \/ c # d)
  BY <1>1, <1>2, <1>3, <1>4, <1>5, <1>6, SweepQuiet DEF Kept
<1>7. CASE c = d /\ got # None
  <2>1. /\ sweep[s].rows[d].token = newest[d]
        /\ got = newest[d] + 1 /\ newest'[d] = got
    BY <1>1, <1>7
  <2>2. sweep[s].rows[c].token = newest[c] /\ newest'[c] = newest[c] + 1
    BY <1>7, <2>1
  <2>3. /\ c \in DOMAIN sweep[s].rows
        /\ t.rows = sweep[s].rows /\ t.conn = c /\ t.got = newest'[c] /\ t.got # None
    BY <1>1, <1>2, <1>7, <2>1
  <2>4. QED BY <1>3, <1>4, <2>2, <2>3, SweepGets DEF Kept
<1>8. QED BY <1>1, <1>6, <1>7

\* A sweep that has done with its connection: what it read of c is as old.
LEMMA ReleasedRows ==
    ASSUME Typed, NEW s \in Sweeps, NEW c \in Connections, Released(s)
    PROVE  \E new : /\ sweep' = [sweep EXCEPT ![s] = new]
                    /\ new.got = None
                    /\ c \in DOMAIN new.rows =>
                         c \in DOMAIN sweep[s].rows /\ new.rows[c] = sweep[s].rows[c]
<1> DEFINE t == [sweep[s] EXCEPT !.pc = "loop", !.rows = Without(s, sweep[s].conn),
                                 !.conn = None, !.got = None]
<1>1. sweep' = [sweep EXCEPT ![s] = t]
  BY DEF Released
<1>2. t.got = None /\ t.rows = Without(s, sweep[s].conn)
  BY SweepFacts DEF SweepState
<1> HIDE DEF t
<1>3. c \in DOMAIN t.rows => c \in DOMAIN sweep[s].rows /\ t.rows[c] = sweep[s].rows[c]
  BY <1>2 DEF Without, Todo, Seen
<1>4. QED BY <1>1, <1>2, <1>3

\* A sweep that stores its token.
LEMMA SweepStoresKeep ==
    ASSUME Typed, NEW s \in Sweeps, Store(s), NEW c \in Connections, Kept(c)
    PROVE  Kept(c)'
<1>0. /\ sweep[s].pc = "storing" /\ sweep[s] \in SweepState /\ sweep[s].got # None
      /\ request' = request /\ newest' = newest
  BY SweepFacts DEF Store, GoodSweep
<1>1. PICK d \in Connections : d = sweep[s].conn /\ row[d] \in Row
  BY <1>0, AtConnection
<1>2. row' = [row EXCEPT ![d].token = sweep[s].got, ![d].due = FALSE]
  BY <1>1 DEF Store
<1>3. row'[d].token = sweep[s].got /\ \A x \in Connections \ {d} : row'[x] = row[x]
  BY <1>1, <1>2 DEF Typed, Row
<1>4. PICK new :
        /\ sweep' = [sweep EXCEPT ![s] = new]
        /\ new.got = None
        /\ c \in DOMAIN new.rows =>
             c \in DOMAIN sweep[s].rows /\ new.rows[c] = sweep[s].rows[c]
  <2>1. CASE sweep' = [sweep EXCEPT ![s].pc = "copilot", ![s].got = None]
    <3> DEFINE t == [sweep[s] EXCEPT !.pc = "copilot", !.got = None]
    <3>1. t.got = None /\ t.rows = sweep[s].rows
      BY <1>0 DEF SweepState
    <3>2. sweep' = [sweep EXCEPT ![s] = t]
      BY <2>1
    <3> HIDE DEF t
    <3>3. QED BY <3>1, <3>2
  <2>2. CASE Released(s)
    BY <2>2, ReleasedRows
  <2>3. QED BY <2>1, <2>2 DEF Store
<1>5. CASE c = d
  BY <1>0, <1>1, <1>3, <1>4, <1>5, SweepGives DEF Kept
<1>6. CASE c # d
  <2>1. c \in DOMAIN new.rows => new.rows[c].token <= row[c].token
    BY <1>4 DEF Kept, ReadsOld
  <2>2. QED BY <1>0, <1>1, <1>3, <1>4, <1>6, <2>1, SweepQuiet DEF Kept
<1>7. QED BY <1>5, <1>6

\* A sweep that gives its connection up, or asks for a Copilot token.
LEMMA SweepGoesOnKeeps ==
    ASSUME Typed, NEW s \in Sweeps,
           StoreFails(s) \/ RefreshCopilot(s) \/ MarkNeedsReauth(s) \/ MarkFails(s),
           NEW c \in Connections, c \notin lost', Kept(c)
    PROVE  Kept(c)'
<1>0. /\ sweep[s].pc \in {"storing", "copilot", "failing"}
      /\ sweep[s] \in SweepState /\ GoodSweep(sweep[s])
      /\ request' = request /\ newest' = newest
  BY SweepFacts DEF StoreFails, RefreshCopilot, MarkNeedsReauth, MarkFails
<1>1. PICK d \in Connections : d = sweep[s].conn /\ row[d] \in Row
  BY <1>0, AtConnection
<1>2. CASE StoreFails(s)
  <2> DEFINE t == [sweep[s] EXCEPT !.pc = "failing", !.got = None]
  <2>1. t.got = None /\ t.rows = sweep[s].rows
    BY <1>0 DEF SweepState
  <2>2. sweep' = [sweep EXCEPT ![s] = t]
    BY <1>2 DEF StoreFails
  <2> HIDE DEF t
  <2>3. c # d /\ row' = row
    BY <1>1, <1>2 DEF StoreFails
  <2>4. c \in DOMAIN sweep[s].rows => sweep[s].rows[c].token <= row[c].token
    BY DEF Kept, ReadsOld
  <2>5. QED BY <1>0, <1>1, <2>1, <2>2, <2>3, <2>4, SweepQuiet DEF Kept
<1>3. CASE RefreshCopilot(s) \/ MarkNeedsReauth(s) \/ MarkFails(s)
  <2>1. PICK new :
          /\ sweep' = [sweep EXCEPT ![s] = new]
          /\ new.got = None
          /\ c \in DOMAIN new.rows =>
               c \in DOMAIN sweep[s].rows /\ new.rows[c] = sweep[s].rows[c]
    BY <1>3, ReleasedRows DEF RefreshCopilot, MarkNeedsReauth, MarkFails
  <2>2. \/ row' = row
        \/ row' = [row EXCEPT ![d] = [row[d] EXCEPT !.copilotDue = FALSE]]
        \/ row' = [row EXCEPT ![d] = [row[d] EXCEPT !.status = "needs_reauth"]]
    BY <1>1, <1>3 DEF RefreshCopilot, MarkNeedsReauth, MarkFails
  <2>3. /\ [row[d] EXCEPT !.copilotDue = FALSE].token = row[d].token
        /\ [row[d] EXCEPT !.status = "needs_reauth"].token = row[d].token
    BY <1>1 DEF Row
  <2>4. row'[c].token = row[c].token
    BY <2>2, <2>3 DEF Typed
  <2>5. sweep[s].got = None
    BY <1>0, <1>3 DEF GoodSweep, RefreshCopilot, MarkNeedsReauth, MarkFails
  <2>6. c \in DOMAIN new.rows => new.rows[c].token <= row[c].token
    BY <2>1 DEF Kept, ReadsOld
  <2>7. QED BY <1>0, <2>1, <2>4, <2>5, <2>6, SweepQuiet DEF Kept
<1>4. QED BY <1>2, <1>3

\* A request is routed.
LEMMA RequestRoutedKeeps ==
    ASSUME Typed, NEW r \in Requests, Route(r), NEW c \in Connections, Kept(c)
    PROVE  Kept(c)'
<1>1. PICK d \in Connections, new \in RequestState :
        /\ request' = [request EXCEPT ![r] = new]
        /\ new.conn = d /\ new.token = row[d].token /\ new.got = None
  BY RequestRouted
<1>2. sweep' = sweep /\ newest' = newest /\ row' = row /\ request[r].got = None
  BY RequestFacts DEF Route, GoodRequest
<1>3. new.conn = c => new.token <= row[c].token
  BY <1>1, TokenNumbers
<1>4. QED BY <1>1, <1>2, <1>3, RequestQuiet DEF Kept

\* A request asks for a token.
LEMMA RequestAsksKeep ==
    ASSUME Typed, NEW r \in Requests, Renew(r), NEW c \in Connections, c \notin lost', Kept(c)
    PROVE  Kept(c)'
<1>1. PICK d \in Connections, got \in Answers :
        /\ d = request[r].conn /\ request[r].token # None
        /\ request' = [request EXCEPT
             ![r] = [request[r] EXCEPT
                       !.pc = IF got = None THEN "failed" ELSE "saving",
                       !.token = None, !.got = got]]
        /\ lost \subseteq lost'
        /\ \A x \in Connections \ {d} : newest'[x] = newest[x]
        /\ \/ got = None /\ newest' = newest
           \/ got = None /\ d \in lost'
           \/ /\ request[r].token = newest[d]
              /\ got = newest[d] + 1 /\ newest'[d] = got /\ got # None
  BY RequestAsks
<1> DEFINE t == [request[r] EXCEPT !.pc = IF got = None THEN "failed" ELSE "saving",
                                   !.token = None, !.got = got]
<1>2. t.conn = d /\ t.got = got /\ t.token = None
  BY <1>1, RequestFacts DEF RequestState
<1>3. request' = [request EXCEPT ![r] = t]
  BY <1>1
<1> HIDE DEF t
<1>4. sweep' = sweep /\ row' = row /\ request[r].got = None
  BY RequestFacts DEF Renew, GoodRequest
<1>5. CASE newest'[c] = newest[c] /\ (got = None \/ c # d)
  BY <1>1, <1>2, <1>3, <1>4, <1>5, RequestQuiet DEF Kept
<1>6. CASE c = d /\ got # None
  <2>1. /\ request[r].token = newest[d]
        /\ got = newest[d] + 1 /\ newest'[d] = got
    BY <1>1, <1>6
  <2>2. request[r].token = newest[c] /\ newest'[c] = newest[c] + 1
    BY <1>6, <2>1
  <2>3. /\ request[r].conn = c /\ request[r].token # None
        /\ t.token = None /\ t.conn = c /\ t.got = newest'[c] /\ t.got # None
    BY <1>1, <1>2, <1>6, <2>1
  <2>4. QED BY <1>3, <1>4, <2>2, <2>3, RequestGets DEF Kept
<1>7. QED BY <1>1, <1>5, <1>6

\* A request stores its token, or loses it.
LEMMA RequestStoresKeep ==
    ASSUME Typed, NEW r \in Requests, Save(r), NEW c \in Connections, c \notin lost', Kept(c)
    PROVE  Kept(c)'
<1>0. /\ request[r].pc = "saving" /\ request[r] \in RequestState /\ request[r].got # None
      /\ sweep' = sweep /\ newest' = newest
  BY RequestFacts DEF Save, GoodRequest
<1>1. PICK d \in Connections : d = request[r].conn /\ row[d] \in Row
  BY <1>0, RequestFacts DEF Typed
<1> DEFINE t == [request[r] EXCEPT !.pc = "called", !.got = None]
<1>2. t.conn = request[r].conn /\ t.token = request[r].token /\ t.got = None
  BY <1>0 DEF RequestState
<1>3. request' = [request EXCEPT ![r] = t]
  BY DEF Save, Move
<1> HIDE DEF t
<1>4. (t.conn = c /\ t.token # None) => t.token <= row[c].token /\ t.token \in Nat
  BY <1>2, TokenNumbers DEF Kept, ReadsOld
<1>5. t.token # None => t.token \in Nat
  BY <1>2, TokenNumbers
<1>6. CASE c = d
  <2>1. row' = [row EXCEPT ![d] = [row[d] EXCEPT !.token = request[r].got]]
    BY <1>1, <1>6 DEF Save
  <2>2. row'[c].token = request[r].got
    BY <1>1, <1>6, <2>1 DEF Typed, Row
  <2>3. request[r].conn = c
    BY <1>1, <1>6
  <2>4. QED BY <1>0, <1>2, <1>3, <1>4, <1>5, <2>2, <2>3, RequestGives DEF Kept
<1>7. CASE c # d
  <2>1. row'[c] = row[c]
    BY <1>1, <1>7 DEF Save, Typed
  <2>2. request[r].conn # c /\ t.conn # c
    BY <1>1, <1>2, <1>7
  <2>3. QED BY <1>0, <1>3, <2>1, <2>2, RequestQuiet DEF Kept
<1>8. QED BY <1>6, <1>7

\* A request is answered, or ends.
LEMMA RequestEndsKeep ==
    ASSUME Typed, NEW r \in Requests,
           Answer(r) \/ Leave(r) \/ ClearAccountError(r) \/ MarkAccountUnavailable(r),
           NEW c \in Connections, Kept(c)
    PROVE  Kept(c)'
<1>1. CASE Answer(r)
  <2>1. PICK pc \in {"succeeded", "failed"} :
          request' = [request EXCEPT ![r] = [request[r] EXCEPT !.pc = pc]]
    BY <1>1, RequestAnswered
  <2> DEFINE t == [request[r] EXCEPT !.pc = pc]
  <2>2. t.conn = request[r].conn /\ t.token = request[r].token /\ t.got = request[r].got
    BY RequestFacts DEF RequestState
  <2>3. request' = [request EXCEPT ![r] = t]
    BY <2>1
  <2> HIDE DEF t
  <2>4. sweep' = sweep /\ newest' = newest /\ row' = row
    BY <1>1 DEF Answer
  <2>5. (t.conn = c /\ t.token # None) => t.token <= row[c].token
    BY <2>2 DEF Kept, ReadsOld
  <2>6. QED BY <2>2, <2>3, <2>4, <2>5, RequestQuiet DEF Kept
<1>2. CASE Leave(r) \/ ClearAccountError(r) \/ MarkAccountUnavailable(r)
  <2>1. /\ request[r].got = None /\ request' = [request EXCEPT ![r] = NoRequest]
        /\ sweep' = sweep /\ newest' = newest /\ row'[c].token = row[c].token
    BY <1>2, RequestEnds DEF Move
  <2>2. NoRequest.got = None /\ NoRequest.token = None
    BY DEF NoRequest
  <2>3. QED BY <2>1, <2>2, RequestQuiet DEF Kept
<1>3. QED BY <1>1, <1>2

\* The process dies while nobody has a token of c in hand.
LEMMA ProcessDiesKeeping ==
    ASSUME Typed, Crash, NEW c \in Connections, c \notin lost', Kept(c)
    PROVE  Kept(c)'
<1>1. HoldingSweeps(c) = {} /\ HoldingRequests(c) = {}
  <2>1. ASSUME NEW s \in HoldingSweeps(c) PROVE FALSE
    <3>1. s \in Sweeps /\ sweep[s].pc = "storing" /\ sweep[s].conn = c
      BY <2>1, SweepFacts DEF HoldingSweeps, GoodSweep
    <3>2. QED BY <3>1 DEF Crash
  <2>2. ASSUME NEW r \in HoldingRequests(c) PROVE FALSE
    <3>1. r \in Requests /\ request[r].pc = "saving" /\ request[r].conn = c
      BY <2>2, RequestFacts DEF HoldingRequests, GoodRequest
    <3>2. QED BY <3>1 DEF Crash
  <2>3. QED BY <2>1, <2>2
<1>2. /\ \A s \in Sweeps : sweep'[s].got = None /\ DOMAIN sweep'[s].rows = {}
      /\ \A r \in Requests : request'[r].got = None /\ request'[r].token = None
      /\ newest' = newest /\ row' = row
  BY DEF Crash, NoSweep, NoRequest
<1>3. HoldingSweeps(c)' = {} /\ HoldingRequests(c)' = {}
  BY <1>2 DEF HoldingSweeps, HoldingRequests
<1>4. row[c].token = newest[c] /\ row[c].token <= newest[c]
  BY <1>1 DEF Kept, OneHolder, ReadsOld
<1>5. OneHolder(c)'
  BY <1>2, <1>3, <1>4 DEF OneHolder
<1>6. ReadsOld(c)'
  BY <1>2, <1>4 DEF ReadsOld
<1>7. QED BY <1>5, <1>6 DEF Kept

\* A token that is lost stays lost.
LEMMA LostGrows == Typed /\ [Next]_vars => lost \subseteq lost'
<1> SUFFICES ASSUME Typed, [Next]_vars PROVE lost \subseteq lost'
  OBVIOUS
<1>1. ASSUME NEW s \in Sweeps, SweepStep(s) PROVE lost \subseteq lost'
  BY <1>1, SweepAsks
  DEF SweepStep, Begin, Skip, Take, Store, StoreFails, RefreshCopilot, MarkNeedsReauth,
      MarkFails, End
<1>2. ASSUME NEW r \in Requests, RequestStep(r) PROVE lost \subseteq lost'
  BY <1>2, RequestAsks
  DEF RequestStep, Route, Save, Answer, Leave, ClearAccountError, MarkAccountUnavailable
<1>3. ASSUME NEW c \in Connections, Expire(c) PROVE lost \subseteq lost'
  BY <1>3 DEF Expire
<1>4. CASE Crash
  BY <1>4 DEF Crash
<1>5. CASE UNCHANGED vars
  BY <1>5 DEF vars
<1>6. QED BY <1>1, <1>2, <1>3, <1>4, <1>5 DEF Next

\* Every step keeps the invariant.
LEMMA IInvInductive == IInv /\ [Next]_vars => IInv'
<1> SUFFICES ASSUME IInv, [Next]_vars PROVE IInv'
  OBVIOUS
<1>1. Typed /\ Typed' /\ lost \subseteq lost'
  BY TypedInductive, LostGrows DEF IInv
<1>2. ASSUME NEW c \in Connections, c \notin lost' PROVE Kept(c)'
  <2>0. Kept(c)
    BY <1>1, <1>2 DEF IInv
  <2>1. ASSUME NEW s \in Sweeps, SweepStep(s) PROVE Kept(c)'
    BY <1>1, <1>2, <2>0, <2>1, SweepTurnsKeep, SweepAsksKeep, SweepStoresKeep,
       SweepGoesOnKeeps
    DEF SweepStep
  <2>2. ASSUME NEW r \in Requests, RequestStep(r) PROVE Kept(c)'
    BY <1>1, <1>2, <2>0, <2>2, RequestRoutedKeeps, RequestAsksKeep, RequestStoresKeep,
       RequestEndsKeep
    DEF RequestStep
  <2>3. ASSUME NEW d \in Connections, Expire(d) PROVE Kept(c)'
    BY <1>1, <2>0, <2>3, TokenExpires, NothingNew DEF Kept
  <2>4. CASE Crash
    BY <1>1, <1>2, <2>0, <2>4, ProcessDiesKeeping
  <2>5. CASE UNCHANGED vars
    BY <2>0, <2>5, NothingNew DEF vars, Kept
  <2>6. QED BY <2>1, <2>2, <2>3, <2>4, <2>5 DEF Next
<1>3. QED BY <1>1, <1>2 DEF IInv

\* Every row starts with the newest token, and nobody has another.
LEMMA IInvInit == Init => IInv
<1> SUFFICES ASSUME Init PROVE IInv
  OBVIOUS
<1>1. 0 \in Generations /\ 0 \in 0..MaxCrashes
  BY RefreshAssumption DEF Generations
<1>2. NoSweep \in SweepState
  <2>1. NoSweep.rows \in [{} -> Snap]
    BY DEF NoSweep
  <2>2. QED BY <2>1 DEF NoSweep, SweepState, Answers
<1>3. GoodSweep(NoSweep)
  BY <1>2 DEF GoodSweep, NoSweep
<1>4. NoRequest \in RequestState
  BY IdleGood DEF GoodRequest
<1>5. newest \in [Connections -> Generations] /\ row \in [Connections -> Row]
  BY <1>1 DEF Init
<1>6. Typed
  BY <1>1, <1>2, <1>3, <1>4, <1>5, IdleGood DEF Init, Typed
<1>7. ASSUME NEW c \in Connections PROVE Kept(c)
  <2>1. row[c].token = 0 /\ newest[c] = 0
    BY DEF Init
  <2>2. /\ \A s \in Sweeps : sweep[s].got = None /\ DOMAIN sweep[s].rows = {}
        /\ \A r \in Requests : request[r].got = None /\ request[r].token = None
    BY DEF Init, NoSweep, NoRequest
  <2>3. QED BY <2>1, <2>2 DEF Kept, ReadsOld, OneHolder, HoldingSweeps, HoldingRequests
<1>8. QED BY <1>6, <1>7 DEF IInv

\* The invariant holds in every state.
LEMMA TokenInvariant == Spec => []IInv
BY IInvInit, IInvInductive, PTL DEF Spec

-----------------------------------------------------------------------------
(* What follows from it.                                                   *)

\* Type correctness of the job, the requests and the rows
\* (src/src/lib/maintenance/tokenRefreshJob.js): a sweep works on one of the
\* connections it still has to look at, or on none.
THEOREM TokenTypeCorrect == Spec => []TypeOK
<1>1. Typed => TypeOK
  <2> SUFFICES ASSUME Typed PROVE TypeOK
    OBVIOUS
  <2>1. ASSUME NEW s \in Sweeps
        PROVE  /\ sweep[s].pc \in {"idle", "loop", "refreshing", "storing", "copilot", "failing"}
               /\ Todo(s) \subseteq Connections
               /\ Sweeping(s) <=> sweep[s].pc \notin {"idle", "loop"}
               /\ sweep[s].conn \in Todo(s) \cup {None}
               /\ sweep[s].got \in Answers
    BY SweepFacts DEF GoodSweep, SweepState, Todo, Sweeping
  <2>2. ASSUME NEW s \in Sweeps, NEW c \in Todo(s)
        PROVE  Seen(s, c) \in {Snapshot(r) : r \in Row}
    <3>1. Seen(s, c) \in Snap
      BY <2>2, SweepFacts DEF Todo, Seen
    <3>2. QED BY <3>1, Snapshots
  <2>3. ASSUME NEW r \in Requests
        PROVE  /\ request[r].pc \in {"idle", "calling", "saving", "called", "succeeded", "failed"}
               /\ request[r].pc # "idle" => /\ request[r].conn \in Connections
                                            /\ request[r].token \in Answers
               /\ request[r].error \in BOOLEAN
               /\ request[r].got \in Answers
    BY RequestFacts DEF RequestState
  <2>4. QED BY <2>1, <2>2, <2>3 DEF Typed, TypeOK
<1>2. IInv => TypeOK
  BY <1>1 DEF IInv
<1>3. QED BY <1>2, TokenInvariant, PTL

\* For every number of sweeps that overlap and of requests that refresh at the
\* same time: the newest token of a connection is in its row, or one of them
\* has it in hand, unless a crash, an answer that did not arrive or a failed
\* update lost it.
THEOREM NoTokenLost == Spec => []NewestTokenKept
<1>1. IInv => NewestTokenKept
  <2> SUFFICES ASSUME IInv, NEW c \in Connections \ lost
               PROVE  LET holders ==
                            {s \in Sweeps : sweep[s].conn = c /\ sweep[s].got = newest[c]}
                              \cup {r \in Requests :
                                      request[r].conn = c /\ request[r].got = newest[c]}
                      IN IF row[c].token = newest[c] THEN holders = {}
                         ELSE Cardinality(holders) = 1
    BY DEF NewestTokenKept
  <2>1. Typed /\ OneHolder(c) /\ newest[c] # None
    BY TokenNumbers DEF IInv, Kept
  <2>2. {s \in Sweeps : sweep[s].conn = c /\ sweep[s].got = newest[c]} = HoldingSweeps(c)
    BY <2>1 DEF OneHolder, HoldingSweeps
  <2>3. {r \in Requests : request[r].conn = c /\ request[r].got = newest[c]}
          = HoldingRequests(c)
    BY <2>1 DEF OneHolder, HoldingRequests
  <2>4. CASE row[c].token = newest[c]
    BY <2>1, <2>2, <2>3, <2>4 DEF OneHolder
  <2>5. CASE row[c].token # newest[c]
    <3>1. PICK x : HoldingSweeps(c) \cup HoldingRequests(c) = {x}
      BY <2>1, <2>5 DEF OneHolder
    <3>2. Cardinality({x}) = 1
      BY FS_Singleton
    <3>3. QED BY <2>2, <2>3, <2>5, <3>1, <3>2
  <2>6. QED BY <2>4, <2>5
<1>2. QED BY <1>1, TokenInvariant, PTL
=============================================================================
