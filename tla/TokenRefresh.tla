---------------------------- MODULE TokenRefresh ----------------------------
(***************************************************************************)
(* Provider connections and their OAuth tokens: the sweeps of the          *)
(* background job (src/src/lib/maintenance/tokenRefreshJob.js), and the    *)
(* requests that refresh a token or report how the account did             *)
(* (src/src/sse/handlers/chat.js, services/auth.js, services/              *)
(* tokenRefresh.js) over the rows of provider_connections.                 *)
(*                                                                         *)
(* A refresh token is its generation.  The provider accepts the newest one *)
(* it issued and answers with the next and with its expiry (external; a    *)
(* provider that keeps its tokens, or names no expiry, is left out).  A    *)
(* sweep may overlap another: the scheduler's timer does not wait for it.  *)
(* An update of a row is one SQL statement.  Cooldowns are left out except *)
(* for the status they leave behind; so are the routing engine and         *)
(* handleChatCore.                                                         *)
(***************************************************************************)
EXTENDS Integers, FiniteSets

CONSTANTS
    Connections, Sweeps, Requests, None,
    GitHub,         \* the connections of provider "github"
    Faults,         \* what may go wrong: subset of {"network", "store", "crash"}
    MaxRotations,   \* bound: tokens a provider issues
    MaxCrashes      \* bound: restarts of the process

ASSUME RefreshAssumption ==
    /\ GitHub \subseteq Connections
    /\ None \notin Connections \cup (0..MaxRotations)
    /\ Faults \subseteq {"network", "store", "crash"}
    /\ {MaxRotations, MaxCrashes} \subseteq Nat

VARIABLES
    newest,       \* newest[c]: generation the provider accepts
    row,          \* the row of each connection
    inProgress,   \* _inProgress of the job
    sweep, request,
    lost,         \* history: the newest token of these was never stored
    crashes

vars == <<newest, row, inProgress, sweep, request, lost, crashes>>

Generations == 0..MaxRotations

Row ==
    [token : Generations,
     due : BOOLEAN,          \* expiresAt is within the threshold
     copilotDue : BOOLEAN,   \* and so is copilotTokenExpiresAt
     status : {"active", "unavailable", "needs_reauth"}]

NoSweep == [pc |-> "idle",    \* the await it is at
            rows |-> <<>>,    \* what it read of those still to be looked at
            conn |-> None,    \* the one it is at
            got |-> None]     \* the token it was given

NoRequest == [pc |-> "idle", conn |-> None,
              token |-> None,     \* what it read of the row: the refresh token,
              error |-> FALSE,    \* and whether its status is an error
              got |-> None]

\* What a sweep looks at of a row it read.
Snapshot(r) == [token |-> r.token, due |-> r.due, copilotDue |-> r.copilotDue]

Init ==
    /\ newest = [c \in Connections |-> 0]
    /\ row \in [Connections -> {r \in Row : r.token = 0 /\ r.status = "active"}]
    /\ \A c \in Connections \ GitHub : ~row[c].copilotDue
    /\ inProgress = {}
    /\ sweep = [s \in Sweeps |-> NoSweep]
    /\ request = [r \in Requests |-> NoRequest]
    /\ lost = {}
    /\ crashes = 0

-----------------------------------------------------------------------------
(* What a provider does with a refresh token of generation g.  The answer  *)
(* is the next token, or None: refused, not asked, or lost on its way.     *)

Exchange(c, g, got) ==
    \/ /\ g # newest[c] \/ "network" \in Faults
       /\ got = None
       /\ UNCHANGED <<newest, lost>>
    \/ /\ g = newest[c]
       /\ g < MaxRotations
       /\ newest' = [newest EXCEPT ![c] = g + 1]
       /\ \/ got = g + 1 /\ UNCHANGED lost
          \/ "network" \in Faults /\ got = None /\ lost' = lost \cup {c}

Answers == Generations \cup {None}

-----------------------------------------------------------------------------
(* The sweeps.                                                             *)

Begin(s) ==
    /\ sweep[s].pc = "idle"
    /\ sweep' = [sweep EXCEPT ![s] = [NoSweep EXCEPT
         !.pc = "loop", !.rows = [c \in Connections |-> Snapshot(row[c])]]]
    /\ UNCHANGED <<newest, row, inProgress, request, lost, crashes>>

Todo(s) == DOMAIN sweep[s].rows
Seen(s, c) == sweep[s].rows[c]
Without(s, c) == [d \in Todo(s) \ {c} |-> Seen(s, d)]

\* Nothing to do for c, or another sweep is at it.
Skip(s) ==
    /\ sweep[s].pc = "loop"
    /\ \E c \in Todo(s) :
         /\ c \in inProgress \/ ~(Seen(s, c).due \/ Seen(s, c).copilotDue)
         /\ sweep' = [sweep EXCEPT ![s].rows = Without(s, c)]
    /\ UNCHANGED <<newest, row, inProgress, request, lost, crashes>>

Take(s) ==
    /\ sweep[s].pc = "loop"
    /\ \E c \in Todo(s) \ inProgress :
         /\ Seen(s, c).due \/ Seen(s, c).copilotDue
         /\ inProgress' = inProgress \cup {c}
         /\ sweep' = [sweep EXCEPT
              ![s].pc = IF Seen(s, c).due THEN "refreshing" ELSE "copilot",
              ![s].conn = c]
    /\ UNCHANGED <<newest, row, request, lost, crashes>>

\* Faulty: the answer is stored without looking whether it holds a token.
RefreshUnchecked(s) ==
    /\ sweep[s].pc = "refreshing"
    /\ \E got \in Answers :
         /\ Exchange(sweep[s].conn, Seen(s, sweep[s].conn).token, got)
         /\ sweep' = [sweep EXCEPT ![s].pc = "storing", ![s].got = got]
    /\ UNCHANGED <<row, inProgress, request, crashes>>

\* refreshGitHubToken calls GitHub.  refreshAccessToken, for all others,
\* wants a refreshUrl, which no provider of PROVIDERS has: it answers null.
Refresh(s) ==
    LET c == sweep[s].conn IN
    /\ sweep[s].pc = "refreshing"
    /\ \E got \in Answers :
         /\ IF c \in GitHub THEN Exchange(c, Seen(s, c).token, got)
                            ELSE got = None /\ UNCHANGED <<newest, lost>>
         /\ sweep' = [sweep EXCEPT ![s].pc = IF got = None THEN "failing" ELSE "storing",
                                   ![s].got = got]
    /\ UNCHANGED <<row, inProgress, request, crashes>>

\* The finally clause: c is done with.
Released(s) ==
    /\ inProgress' = inProgress \ {sweep[s].conn}
    /\ sweep' = [sweep EXCEPT ![s] = [@ EXCEPT
         !.pc = "loop", !.rows = Without(s, sweep[s].conn), !.conn = None, !.got = None]]

\* Faulty: only the access token is stored.
StoreAccessOnly(s) ==
    LET c == sweep[s].conn IN
    /\ sweep[s].pc = "storing"
    /\ row' = [row EXCEPT ![c].due = FALSE]
    /\ Released(s)
    /\ UNCHANGED <<newest, request, lost, crashes>>

\* The new tokens are stored; a Copilot token that is due comes next.
Store(s) ==
    LET c == sweep[s].conn IN
    /\ sweep[s].pc = "storing"
    /\ row' = [row EXCEPT ![c].token = sweep[s].got, ![c].due = FALSE]
    /\ \/ /\ Seen(s, c).copilotDue
          /\ sweep' = [sweep EXCEPT ![s].pc = "copilot", ![s].got = None]
          /\ UNCHANGED inProgress
       \/ (~Seen(s, c).copilotDue) /\ Released(s)
    /\ UNCHANGED <<newest, request, lost, crashes>>

\* The update throws.
StoreFails(s) ==
    /\ sweep[s].pc = "storing"
    /\ "store" \in Faults
    /\ lost' = lost \cup {sweep[s].conn}
    /\ sweep' = [sweep EXCEPT ![s].pc = "failing", ![s].got = None]
    /\ UNCHANGED <<newest, row, inProgress, request, crashes>>

\* refreshCopilotToken; a failure is not held against the connection.
RefreshCopilot(s) ==
    /\ sweep[s].pc = "copilot"
    /\ \/ row' = [row EXCEPT ![sweep[s].conn].copilotDue = FALSE]
       \/ UNCHANGED row
    /\ Released(s)
    /\ UNCHANGED <<newest, request, lost, crashes>>

\* Faulty: the failure returns before the connection is released.
MarkNeedsReauthHolding(s) ==
    /\ sweep[s].pc = "failing"
    /\ row' = [row EXCEPT ![sweep[s].conn].status = "needs_reauth"]
    /\ sweep' = [sweep EXCEPT ![s] = [@ EXCEPT
         !.pc = "loop", !.rows = Without(s, sweep[s].conn), !.conn = None]]
    /\ UNCHANGED <<newest, inProgress, request, lost, crashes>>

\* _markNeedsReauth: what was read when the sweep began decides.
MarkNeedsReauth(s) ==
    /\ sweep[s].pc = "failing"
    /\ row' = [row EXCEPT ![sweep[s].conn].status = "needs_reauth"]
    /\ Released(s)
    /\ UNCHANGED <<newest, request, lost, crashes>>

\* Its update throws too, which is caught.
MarkFails(s) ==
    /\ sweep[s].pc = "failing"
    /\ "store" \in Faults
    /\ Released(s)
    /\ UNCHANGED <<newest, row, request, lost, crashes>>

End(s) ==
    /\ sweep[s].pc = "loop"
    /\ Todo(s) = {}
    /\ sweep' = [sweep EXCEPT ![s] = NoSweep]
    /\ UNCHANGED <<newest, row, inProgress, request, lost, crashes>>

-----------------------------------------------------------------------------
(* The requests.                                                           *)

Move(r, new) == request' = [request EXCEPT ![r] = new]

\* A candidate carries its connection as it was when the request was routed.
Route(r) ==
    /\ request[r].pc = "idle"
    /\ \E c \in Connections :
         Move(r, [NoRequest EXCEPT !.pc = "calling", !.conn = c, !.token = row[c].token,
                                    !.error = row[c].status # "active"])
    /\ UNCHANGED <<newest, row, inProgress, sweep, lost, crashes>>

\* The provider refuses the access token: the call refreshes it (external),
\* once.
Renew(r) ==
    /\ request[r].pc = "calling"
    /\ \E got \in Answers :
         /\ Exchange(request[r].conn, request[r].token, got)
         /\ Move(r, [request[r] EXCEPT !.pc = IF got = None THEN "failed" ELSE "saving",
                                       !.token = None, !.got = got])
    /\ UNCHANGED <<row, inProgress, sweep, crashes>>

\* updateProviderCredentials: neither expiresAt nor testStatus is stored, and
\* an exception is logged.
Save(r) ==
    LET c == request[r].conn IN
    /\ request[r].pc = "saving"
    /\ \/ /\ row' = [row EXCEPT ![c].token = request[r].got]
          /\ UNCHANGED lost
       \/ /\ "store" \in Faults
          /\ lost' = lost \cup {c}
          /\ UNCHANGED row
    /\ Move(r, [request[r] EXCEPT !.pc = "called", !.got = None])
    /\ UNCHANGED <<newest, inProgress, sweep, crashes>>

\* The provider answers or fails.
Answer(r) ==
    /\ request[r].pc \in {"calling", "called"}
    /\ \E pc \in {"succeeded", "failed"} : Move(r, [request[r] EXCEPT !.pc = pc])
    /\ UNCHANGED <<newest, row, inProgress, sweep, lost, crashes>>

\* A client error, or an exception: no callback hears of it.
Leave(r) ==
    /\ request[r].pc \in {"calling", "called", "failed"}
    /\ Move(r, NoRequest)
    /\ UNCHANGED <<newest, row, inProgress, sweep, lost, crashes>>

\* Faulty: only a cooldown counts as an error to be cleared.
ClearUnavailableOnly(r) ==
    LET q == request[r] IN
    /\ q.pc = "succeeded"
    /\ row' = [row EXCEPT ![q.conn].status = IF @ = "unavailable" THEN "active" ELSE @]
    /\ Move(r, NoRequest)
    /\ UNCHANGED <<newest, inProgress, sweep, lost, crashes>>

\* clearAccountError: what was read when the request was routed decides.
ClearAccountError(r) ==
    LET q == request[r] IN
    /\ q.pc = "succeeded"
    /\ row' = [row EXCEPT ![q.conn].status = IF q.error THEN "active" ELSE @]
    /\ Move(r, NoRequest)
    /\ UNCHANGED <<newest, inProgress, sweep, lost, crashes>>

MarkAccountUnavailable(r) ==
    /\ request[r].pc = "failed"
    /\ row' = [row EXCEPT ![request[r].conn].status = "unavailable"]
    /\ Move(r, NoRequest)
    /\ UNCHANGED <<newest, inProgress, sweep, lost, crashes>>

-----------------------------------------------------------------------------
\* Time passes: a token of c comes close to its expiry.
Expire(c) ==
    /\ \/ row' = [row EXCEPT ![c].due = TRUE]
       \/ c \in GitHub /\ row' = [row EXCEPT ![c].copilotDue = TRUE]
    /\ UNCHANGED <<newest, inProgress, sweep, request, lost, crashes>>

\* The process dies: tokens received and not stored are lost.
Crash ==
    /\ "crash" \in Faults
    /\ crashes < MaxCrashes
    /\ crashes' = crashes + 1
    /\ lost' = lost \cup {sweep[s].conn : s \in {t \in Sweeps : sweep[t].pc = "storing"}}
                    \cup {request[r].conn : r \in {q \in Requests : request[q].pc = "saving"}}
    /\ inProgress' = {}
    /\ sweep' = [s \in Sweeps |-> NoSweep]
    /\ request' = [r \in Requests |-> NoRequest]
    /\ UNCHANGED <<newest, row>>

SweepStep(s) ==
    \/ Begin(s) \/ Skip(s) \/ Take(s) \/ Refresh(s) \/ Store(s) \/ StoreFails(s)
    \/ RefreshCopilot(s) \/ MarkNeedsReauth(s) \/ MarkFails(s) \/ End(s)

RequestStep(r) ==
    \/ Route(r) \/ Renew(r) \/ Save(r) \/ Answer(r) \/ Leave(r)
    \/ ClearAccountError(r) \/ MarkAccountUnavailable(r)

Next ==
    \/ \E s \in Sweeps : SweepStep(s)
    \/ \E r \in Requests : RequestStep(r)
    \/ \E c \in Connections : Expire(c)
    \/ Crash

Spec == Init /\ [][Next]_vars

\* The timer of the scheduler runs, awaits end, and marking a connection
\* works if it is tried for ever.
FairSpec ==
    /\ Spec
    /\ \A s \in Sweeps : WF_vars(SweepStep(s)) /\ SF_vars(MarkNeedsReauth(s))
    /\ \A r \in Requests : WF_vars(ClearAccountError(r))

-----------------------------------------------------------------------------
(* Properties.                                                             *)

Sweeping(s) == sweep[s].conn # None

TypeOK ==
    /\ newest \in [Connections -> Generations]
    /\ row \in [Connections -> Row]
    /\ inProgress \subseteq Connections
    /\ lost \subseteq Connections
    /\ crashes \in 0..MaxCrashes
    /\ \A s \in Sweeps :
         /\ sweep[s].pc \in {"idle", "loop", "refreshing", "storing", "copilot", "failing"}
         /\ Todo(s) \subseteq Connections
         /\ \A c \in Todo(s) : Seen(s, c) \in {Snapshot(r) : r \in Row}
         /\ Sweeping(s) <=> sweep[s].pc \notin {"idle", "loop"}
         /\ sweep[s].conn \in Todo(s) \cup {None}
         /\ sweep[s].got \in Answers
    /\ \A r \in Requests :
         /\ request[r].pc \in {"idle", "calling", "saving", "called", "succeeded", "failed"}
         /\ request[r].pc # "idle" => /\ request[r].conn \in Connections
                                      /\ request[r].token \in Answers
         /\ request[r].error \in BOOLEAN
         /\ request[r].got \in Answers

\* The newest token of a connection is in its row, or in the hands of the one
\* sweep or request that obtained it: it is lost only by a crash, an answer
\* that did not arrive, or an update that failed.
NewestTokenKept ==
    \A c \in Connections \ lost :
        LET holders == {s \in Sweeps : sweep[s].conn = c /\ sweep[s].got = newest[c]}
                         \cup {r \in Requests : request[r].conn = c /\ request[r].got = newest[c]}
        IN IF row[c].token = newest[c] THEN holders = {} ELSE Cardinality(holders) = 1

\* A GitHub token that comes close to its expiry is refreshed, or its
\* connection is marked, whatever sweeps skip, fail or find in progress.
DueIsHandled ==
    \A c \in Connections :
        row[c].due ~> (~row[c].due \/ row[c].status = "needs_reauth")

\* An account whose requests succeed again and again does not stay marked,
\* although a success clears only a mark that was there when it was routed.
SuccessHeals ==
    \A c \in Connections :
        []<>(\E r \in Requests : request[r].pc = "succeeded" /\ request[r].conn = c)
          => []<>(row[c].status = "active")

\* "marking a connection as needing re-authentication after a failed
\* refresh", src/src/lib/maintenance/tokenRefreshJob.js:225: it is not done to
\* a connection whose stored refresh token the provider would accept.
ReauthOnlyWhenDead ==
    [][\A c \in Connections :
         row[c].status # "needs_reauth" /\ row'[c].status = "needs_reauth"
           => row[c].token # newest[c]]_vars
=============================================================================
