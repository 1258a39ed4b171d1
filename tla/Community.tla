----------------------------- MODULE Community ------------------------------
(***************************************************************************)
(* Votes on a submitted price (voteOnSubmission, createPendingSubmission   *)
(* and the recordContribution they call, src/src/lib/localDb.js) over the  *)
(* JSON document that every handler of the process shares.                 *)
(*                                                                         *)
(* getDb() reads the file again on every call and puts what it read in the *)
(* place of the document in memory; db.write() takes the document as it is *)
(* at the call and replaces the file later, writes landing in the order of *)
(* the calls.  A read takes the content of the file in one step and        *)
(* delivers it in another: in the turn of the event loop in which the last *)
(* read of a function is delivered, the function runs up to its next await.*)
(* In the cloud there is no file: reads and writes do nothing.             *)
(*                                                                         *)
(* One submission; points, badges and dates are left out, except that a    *)
(* reward or a penalty was recorded.  The voters have the points to vote.  *)
(***************************************************************************)
EXTENDS Integers, Sequences, FiniteSets

CONSTANTS
    Voters, Submitter, None,
    VotesRequired,   \* votesRequired of the submitter's trust level
    VotesToReject,   \* MODERATION_CONFIG.VOTES_TO_REJECT
    TimeoutAt,       \* the least of TIMEOUT_THRESHOLDS
    Modes,           \* subset of {"file", "cloud"}
    MaxVotes,        \* bound: calls of voteOnSubmission
    MaxOverlap       \* bound: handlers under way at once

Contributors == Voters \cup {Submitter}

ASSUME CommunityAssumption ==
    /\ IsFiniteSet(Voters)
    /\ Submitter \notin Voters
    /\ None \notin Contributors \cup {"submitted", "refused", "recorded", "verified", "rejected"}
    /\ {VotesRequired, VotesToReject, TimeoutAt} \subseteq Nat \ {0}
    /\ {MaxVotes, MaxOverlap} \subseteq Nat
    /\ Modes \subseteq {"file", "cloud"}

VARIABLES
    mode,
    disk,      \* the document in the file
    mem,       \* dbInstance.data
    writes,    \* writes under way: the handler and the document it wrote
    handler,   \* handler[c]: the call c has under way
    started    \* calls of voteOnSubmission so far

vars == <<mode, disk, mem, writes, handler, started>>

-----------------------------------------------------------------------------
(* Documents: the submission, the community price it leads to, and what    *)
(* the contributors were given.                                            *)

Document ==
    [status : {"none", "pending", "verified", "rejected"},
     up : SUBSET Contributors, down : SUBSET Voters,
     prices : Nat,        \* records in communityPriceSubmissions
     rewards : [Contributors -> Nat],
     rejections : Nat,    \* rejectedSubmissions of the submitter
     timeout : BOOLEAN]   \* timeoutUntil of the submitter is set

NewDocument ==
    [status |-> "none", up |-> {}, down |-> {}, prices |-> 0,
     rewards |-> [c \in Contributors |-> 0], rejections |-> 0, timeout |-> FALSE]

Pushed(doc, auto) ==
    IF auto
    THEN [doc EXCEPT !.status = "verified", !.up = {Submitter}, !.prices = @ + 1]
    ELSE [doc EXCEPT !.status = "pending"]

\* Faulty: a decided submission still takes votes.
MayVoteAnyTime(doc, v) ==
    doc.status # "none" /\ v # Submitter /\ v \notin doc.up \cup doc.down

\* Faulty: only the votes in favour are looked through.
MayVoteAgain(doc, v) == doc.status = "pending" /\ v # Submitter /\ v \notin doc.up

MayVote(doc, v) ==
    doc.status = "pending" /\ v # Submitter /\ v \notin doc.up \cup doc.down

Voted(doc, v, ballot) ==
    LET d == IF ballot = "up" THEN [doc EXCEPT !.up = @ \cup {v}]
                              ELSE [doc EXCEPT !.down = @ \cup {v}] IN
    IF Cardinality(d.up) >= VotesRequired
    THEN [d EXCEPT !.status = "verified", !.prices = @ + 1]
    ELSE IF Cardinality(d.down) >= VotesToReject
    THEN [d EXCEPT !.status = "rejected"]
    ELSE d

Rewarded(doc, c) == [doc EXCEPT !.rewards[c] = @ + 1]

Penalised(doc) ==
    [doc EXCEPT !.rejections = @ + 1,
                !.timeout = @ \/ doc.rejections + 1 >= TimeoutAt]

\* isInTimeout: a timeout that was set may be over.
InTimeout(doc, c) == IF c = Submitter /\ doc.timeout THEN BOOLEAN ELSE {FALSE}

-----------------------------------------------------------------------------
Idle == [job |-> "none",     \* what follows the reads
         reads |-> 0,        \* getDb calls before it
         copy |-> None,      \* content of the file, read and not delivered
         ballot |-> None,
         todo |-> {},        \* contributors still to be rewarded
         alone |-> TRUE,     \* history: no other call overlapped
         answer |-> None]    \* of the last call

Begin(c, job, reads, ballot) ==
    LET others == {d \in Contributors : handler[d].job # "none"} IN
    /\ handler[c].job = "none"
    /\ Cardinality(others) < MaxOverlap
    /\ handler' = [d \in Contributors |->
         IF d = c THEN [Idle EXCEPT !.job = job, !.reads = reads,
                                    !.ballot = ballot, !.alone = others = {}]
         ELSE [handler[d] EXCEPT !.alone = @ /\ d \notin others]]

Init ==
    /\ mode \in Modes
    /\ disk = NewDocument
    /\ mem = NewDocument
    /\ writes = <<>>
    /\ handler = [c \in Contributors |-> Idle]
    /\ started = 0

\* Once: every call makes a new submission.
Submit ==
    /\ handler[Submitter].answer = None
    /\ Begin(Submitter, "submit", 2, None)
    /\ UNCHANGED <<mode, disk, mem, writes, started>>

Vote(v) ==
    /\ v = Submitter => handler[v].answer # None
    /\ started < MaxVotes
    /\ started' = started + 1
    /\ \E ballot \in {"up", "down"} : Begin(v, "vote", 2, ballot)
    /\ UNCHANGED <<mode, disk, mem, writes>>

\* Low.read() has taken the content of the file.
Fetch(c) ==
    /\ mode = "file"
    /\ handler[c].reads > 0
    /\ handler[c].copy = None
    /\ handler' = [handler EXCEPT ![c].copy = disk]
    /\ UNCHANGED <<mode, disk, mem, writes, started>>

\* The document after c's read was delivered, once it can be.
Ready(c) == mode = "cloud" \/ handler[c].copy # None
Delivered(c) == IF mode = "cloud" THEN mem ELSE handler[c].copy

\* A read that is not the last one: the next one follows.
Deliver(c) ==
    /\ handler[c].reads > 1
    /\ Ready(c)
    /\ mem' = Delivered(c)
    /\ handler' = [handler EXCEPT ![c].reads = @ - 1, ![c].copy = None]
    /\ UNCHANGED <<mode, disk, writes, started>>

\* The last read of the function that does `job` is delivered to c.
LastRead(c, job) == handler[c].job = job /\ handler[c].reads = 1 /\ Ready(c)

\* c goes on to reward those in todo.
AwaitReward(c, todo, answer) ==
    handler' = [handler EXCEPT ![c] =
                  [@ EXCEPT !.job = "reward", !.reads = 2, !.copy = None,
                            !.todo = todo, !.answer = answer]]

\* c awaits the write of doc, put behind those in queue.
AwaitWrite(c, job, queue, doc, todo, answer) ==
    /\ writes' = Append(queue, <<c, doc>>)
    /\ handler' = [handler EXCEPT ![c] =
                     [@ EXCEPT !.job = job, !.reads = 0, !.copy = None,
                               !.todo = todo, !.answer = answer]]

Return(c, answer) ==
    handler' = [handler EXCEPT ![c] =
                  [Idle EXCEPT !.answer = answer, !.alone = handler[c].alone]]

\* createPendingSubmission; a VERIFIED submitter needs no votes.
Push ==
    /\ LastRead(Submitter, "submit")
    /\ \E auto \in BOOLEAN : mem' = Pushed(Delivered(Submitter), auto)
    /\ AwaitWrite(Submitter, "closing", writes, mem', {}, "submitted")
    /\ UNCHANGED <<mode, disk, started>>

Refuse(v) ==
    /\ LastRead(v, "vote")
    /\ ~MayVote(Delivered(v), v)
    /\ mem' = Delivered(v)
    /\ Return(v, "refused")
    /\ UNCHANGED <<mode, disk, writes, started>>

\* Faulty: the document is written before the vote is recorded in it.
CastAfterWrite(v) ==
    /\ LastRead(v, "vote")
    /\ MayVote(Delivered(v), v)
    /\ mem' = Voted(Delivered(v), v, handler[v].ballot)
    /\ mem'.status = "pending"
    /\ AwaitWrite(v, "closing", writes, Delivered(v), {}, "recorded")
    /\ UNCHANGED <<mode, disk, started>>

\* The vote is recorded in the document in memory; if it decides, what
\* follows reads before it writes.
Cast(v) ==
    /\ LastRead(v, "vote")
    /\ MayVote(Delivered(v), v)
    /\ mem' = Voted(Delivered(v), v, handler[v].ballot)
    /\ \/ /\ mem'.status = "pending"
          /\ AwaitWrite(v, "closing", writes, mem', {}, "recorded")
       \/ /\ mem'.status = "verified"
          /\ AwaitReward(v, {Submitter} \cup mem'.up, "verified")
          /\ UNCHANGED writes
       \/ /\ mem'.status = "rejected"
          /\ handler' = [handler EXCEPT ![v] =
                           [@ EXCEPT !.job = "penalty", !.reads = 1, !.copy = None,
                                     !.answer = "rejected"]]
          /\ UNCHANGED writes
    /\ UNCHANGED <<mode, disk, started>>

\* recordContribution for the submitter first, then for the voters; it writes
\* nothing when the contributor is in timeout.
Reward(v) ==
    /\ LastRead(v, "reward")
    /\ \E c \in IF Submitter \in handler[v].todo THEN {Submitter} ELSE handler[v].todo :
       LET doc == Delivered(v)
           rest == handler[v].todo \ {c}
           answer == handler[v].answer IN
         \/ /\ FALSE \in InTimeout(doc, c)
            /\ mem' = Rewarded(doc, c)
            /\ AwaitWrite(v, "rewarding", writes, mem', rest, answer)
         \/ /\ TRUE \in InTimeout(doc, c)
            /\ mem' = doc
            /\ \/ rest # {} /\ AwaitReward(v, rest, answer) /\ UNCHANGED writes
               \/ rest = {} /\ AwaitWrite(v, "closing", writes, doc, {}, answer)
    /\ UNCHANGED <<mode, disk, started>>

\* The submitter of a rejected submission is penalised.
Penalise(v) ==
    /\ LastRead(v, "penalty")
    /\ mem' = Penalised(Delivered(v))
    /\ AwaitWrite(v, "closing", writes, mem', {}, handler[v].answer)
    /\ UNCHANGED <<mode, disk, started>>

\* The oldest write lands, and its handler goes on: to the next reward, to
\* the write at its end, or to its answer.
Land ==
    /\ writes # <<>>
    /\ LET c == writes[1][1]
           h == handler[c] IN
       /\ disk' = writes[1][2]
       /\ \/ /\ h.job = "rewarding" /\ h.todo # {}
             /\ AwaitReward(c, h.todo, h.answer)
             /\ writes' = Tail(writes)
          \/ /\ h.job = "rewarding" /\ h.todo = {}
             /\ AwaitWrite(c, "closing", Tail(writes), mem, {}, h.answer)
          \/ /\ h.job = "closing"
             /\ Return(c, h.answer)
             /\ writes' = Tail(writes)
    /\ UNCHANGED <<mode, mem, started>>

Work(c) == Fetch(c) \/ Deliver(c) \/ Refuse(c) \/ Cast(c) \/ Reward(c) \/ Penalise(c)

Next ==
    \/ Submit \/ Push
    \/ \E c \in Contributors : Vote(c) \/ Work(c)
    \/ Land

Spec == Init /\ [][Next]_vars

-----------------------------------------------------------------------------
(* Properties.                                                             *)

Store == IF mode = "cloud" THEN mem ELSE disk

TypeOK ==
    /\ mode \in Modes
    /\ disk \in Document /\ mem \in Document
    /\ writes \in Seq(Contributors \X Document)
    /\ started \in 0..MaxVotes
    /\ \A c \in Contributors :
         LET h == handler[c] IN
         /\ h.job \in {"none", "submit", "vote", "reward", "penalty", "rewarding", "closing"}
         /\ h.reads \in 0..2
         /\ h.copy \in Document \cup {None}
         /\ h.ballot \in {"up", "down", None}
         /\ h.todo \subseteq Contributors
         /\ h.alone \in BOOLEAN
         /\ h.answer \in {"submitted", "refused", "recorded", "verified", "rejected", None}

\* Every version of the document there is: in the file, in memory, read and
\* not delivered, or on its way to the file.
Versions ==
    {disk, mem} \cup {writes[i][2] : i \in DOMAIN writes}
        \cup ({handler[c].copy : c \in Contributors} \ {None})

\* However stale the document a handler works on: no version of it holds two
\* votes of one voter, or a verdict its votes do not carry, or a verified
\* submission whose price was published twice or not at all.
VerdictsFollowVotes ==
    \A d \in Versions :
        /\ d.up \cap d.down = {}
        /\ d.prices = IF d.status = "verified" THEN 1 ELSE 0
        /\ d.status = "pending" => Cardinality(d.up) < VotesRequired
        /\ d.status = "pending" => Cardinality(d.down) < VotesToReject
        /\ d.status = "verified" => \/ d.up = {Submitter}
                                    \/ Cardinality(d.up) = VotesRequired
        /\ d.status = "rejected" => Cardinality(d.down) = VotesToReject

\* With one document that is never read again (the cloud), votes that overlap
\* decide once: nobody is rewarded or penalised twice for the submission, nor
\* for a verdict that it did not get.
CloudDecidesOnce ==
    mode = "cloud" =>
        /\ mem.status # "verified" => \A c \in Contributors : mem.rewards[c] = 0
        /\ mem.status # "rejected" => mem.rejections = 0
        /\ \A c \in Contributors : mem.rewards[c] <= 1
        /\ mem.rejections <= 1

\* A vote that decided nothing is kept: from its answer on it is in the store,
\* whatever is read and written later, unless another call overlapped it and
\* both worked on copies of the file.
RecordedVoteKept ==
    \A v \in Voters :
        /\ handler[v].job = "none" /\ handler[v].answer = "recorded"
        /\ mode = "cloud" \/ handler[v].alone
        => v \in Store.up \cup Store.down

Answered(v, answer) ==
    handler[v].job # "none" /\ handler'[v].job = "none" /\ handler'[v].answer = answer

\* "Submission verified by community!", src/src/lib/localDb.js:4969: when a
\* voter is told so, the submission in the store is verified.
VerdictIsStored ==
    [][\A v \in Voters :
         Answered(v, "verified") => Store'.status = "verified"]_vars
=============================================================================
