--------------------------- MODULE LocalDbProofs ---------------------------
(***************************************************************************)
(* Proofs about two of the things src/src/lib/localDb.js keeps: Community, *)
(* the votes on a price, for every set of voters, every number of votes    *)
(* that decide and any number of calls under way, and at the end           *)
(* VirtualKeys, the budget of a key, for every set of requests, budget and *)
(* usage and any number of months and restarts.                            *)
(*                                                                         *)
(* Every version of the document comes from another one by what a handler  *)
(* does to it, so what all versions satisfy is what the operations on      *)
(* documents keep (VersionsKept): a verdict follows from its votes, and a  *)
(* vote that all versions hold stays.                                      *)
(***************************************************************************)
EXTENDS Community, FiniteSetTheorems, TLAPS

-----------------------------------------------------------------------------
(* Votes on a price.                                                       *)

Jobs == {"none", "submit", "vote", "reward", "penalty", "rewarding", "closing"}
Given == {"submitted", "refused", "recorded", "verified", "rejected"}

HandlerState ==
    [job : Jobs, reads : 0..2, copy : Document \cup {None}, ballot : {"up", "down", None},
     todo : SUBSET Contributors, alone : BOOLEAN, answer : Given \cup {None}]

\* A handler awaits reads or a write, not both; its answer is known once it
\* has cast its vote.
GoodHandler(c, h) ==
    /\ h \in HandlerState
    /\ h.job = "submit" => c = Submitter /\ h.answer = None
    /\ h.job \in {"reward", "penalty", "rewarding", "closing"} => h.answer # None
    /\ h.job \in {"none", "rewarding", "closing"} => h.reads = 0 /\ h.copy = None

\* Documents whose verdict follows from their votes.
FineDocs ==
    {d \in Document :
        /\ d.up \cap d.down = {}
        /\ d.prices = IF d.status = "verified" THEN 1 ELSE 0
        /\ d.status = "pending" => Cardinality(d.up) < VotesRequired
        /\ d.status = "pending" => Cardinality(d.down) < VotesToReject
        /\ d.status = "verified" => \/ d.up = {Submitter}
                                    \/ Cardinality(d.up) = VotesRequired
        /\ d.status = "rejected" => Cardinality(d.down) = VotesToReject}

\* Documents with a vote of v.
Holding(v) == {d \in Document : v \in d.up \cup d.down}

\* Every version is one of D.
AllIn(D) ==
    /\ disk \in D /\ mem \in D
    /\ writes \in Seq(Contributors \X D)
    /\ \A c \in Contributors : handler[c].copy \in D \cup {None}

\* Nothing was submitted yet.
Fresh == handler[Submitter].job \in {"none", "submit"} /\ handler[Submitter].answer = None

NothingYet ==
    /\ disk = NewDocument /\ mem = NewDocument /\ writes = <<>>
    /\ \A c \in Contributors : /\ handler[c].copy \in {NewDocument, None}
                               /\ handler[c].job \in {"none", "submit", "vote"}

Handlers ==
    /\ mode \in Modes
    /\ handler \in [Contributors -> HandlerState]
    /\ \A c \in Contributors : GoodHandler(c, handler[c])

Sound == Handlers /\ AllIn(FineDocs) /\ (Fresh => NothingYet)

-----------------------------------------------------------------------------
(* Operations on documents.                                                *)

\* A document before anything was submitted.
LEMMA NewDocumentFine ==
    ASSUME CommunityAssumption
    PROVE  /\ NewDocument \in Document /\ NewDocument \in FineDocs
           /\ NewDocument.status = "none"
           /\ NewDocument.up = {} /\ NewDocument.down = {}
           /\ NewDocument.rejections = 0
           /\ \A c \in Contributors : NewDocument.rewards[c] = 0
<1>1. /\ NewDocument \in Document
      /\ NewDocument.status = "none" /\ NewDocument.prices = 0
      /\ NewDocument.up = {} /\ NewDocument.down = {}
      /\ NewDocument.rejections = 0
      /\ \A c \in Contributors : NewDocument.rewards[c] = 0
  BY DEF NewDocument, Document
<1>2. NewDocument \in FineDocs
  BY <1>1 DEF FineDocs
<1>3. QED BY <1>1, <1>2

\* What a submission makes of it.
LEMMA PushedFine ==
    ASSUME CommunityAssumption, NEW auto \in BOOLEAN
    PROVE  /\ Pushed(NewDocument, auto) \in FineDocs
           /\ Pushed(NewDocument, auto).rejections = 0
           /\ \A c \in Contributors : Pushed(NewDocument, auto).rewards[c] = 0
<1> DEFINE d == NewDocument
           e == Pushed(d, auto)
<1>1. /\ d \in Document /\ d.prices = 0 /\ d.up = {} /\ d.down = {} /\ d.rejections = 0
      /\ \A c \in Contributors : d.rewards[c] = 0
  BY NewDocumentFine DEF NewDocument
<1>2. Submitter \in Contributors
  BY DEF Contributors
<1> HIDE DEF d
<1>3. e = IF auto THEN [d EXCEPT !.status = "verified", !.up = {Submitter}, !.prices = @ + 1]
                  ELSE [d EXCEPT !.status = "pending"]
  BY DEF Pushed
<1> HIDE DEF e
<1>4. /\ e \in Document /\ e.down = {} /\ e.rejections = 0
      /\ \A c \in Contributors : e.rewards[c] = 0
      /\ auto => e.status = "verified" /\ e.up = {Submitter} /\ e.prices = 1
      /\ ~auto => e.status = "pending" /\ e.up = {} /\ e.prices = 0
  <2>1. CASE auto
    <3>1. e = [d EXCEPT !.status = "verified", !.up = {Submitter}, !.prices = 1]
      BY <1>1, <1>3, <2>1
    <3>2. e \in Document
      BY <1>1, <1>2, <3>1 DEF Document
    <3>3. /\ e.down = {} /\ e.rejections = 0 /\ e.rewards = d.rewards
          /\ e.status = "verified" /\ e.up = {Submitter} /\ e.prices = 1
      BY <1>1, <3>1 DEF Document
    <3>4. QED BY <1>1, <2>1, <3>2, <3>3
  <2>2. CASE ~auto
    <3>1. e = [d EXCEPT !.status = "pending"]
      BY <1>3, <2>2
    <3>2. e \in Document
      BY <1>1, <3>1 DEF Document
    <3>3. /\ e.down = {} /\ e.rejections = 0 /\ e.rewards = d.rewards
          /\ e.status = "pending" /\ e.up = {} /\ e.prices = 0
      BY <1>1, <3>1 DEF Document
    <3>4. QED BY <1>1, <2>2, <3>2, <3>3
  <2>3. QED BY <2>1, <2>2
<1>5. Cardinality({}) = 0 /\ VotesRequired > 0 /\ VotesToReject > 0
  BY FS_EmptySet DEF CommunityAssumption
<1>6. e \in FineDocs
  BY <1>4, <1>5 DEF FineDocs
<1>7. QED BY <1>4, <1>6 DEF e, d

\* The effect of a vote that may be cast.
LEMMA VotedFacts ==
    ASSUME CommunityAssumption, NEW d \in FineDocs, NEW v \in Contributors, MayVote(d, v),
           NEW ballot
    PROVE  /\ Voted(d, v, ballot) \in FineDocs
           /\ Voted(d, v, ballot) \in Holding(v)
           /\ d.up \cup d.down \subseteq Voted(d, v, ballot).up \cup Voted(d, v, ballot).down
           /\ Voted(d, v, ballot).rewards = d.rewards
           /\ Voted(d, v, ballot).rejections = d.rejections
<1> DEFINE u == IF ballot = "up" THEN [d EXCEPT !.up = @ \cup {v}]
                                 ELSE [d EXCEPT !.down = @ \cup {v}]
           e == Voted(d, v, ballot)
<1>1. /\ d \in Document /\ d.status = "pending" /\ v \notin d.up /\ v \notin d.down
      /\ d.up \cap d.down = {} /\ d.prices = 0 /\ v \in Voters
      /\ Cardinality(d.up) < VotesRequired /\ Cardinality(d.down) < VotesToReject
  BY DEF FineDocs, MayVote, Contributors
<1>2. /\ IsFiniteSet(Voters) /\ IsFiniteSet(Contributors)
      /\ VotesRequired \in Nat \ {0} /\ VotesToReject \in Nat \ {0}
  BY FS_AddElement DEF CommunityAssumption, Contributors
<1>3. /\ d.up \subseteq Contributors /\ d.down \subseteq Voters /\ d.prices \in Nat
  BY <1>1 DEF Document
<1>4. /\ IsFiniteSet(d.up) /\ IsFiniteSet(d.down)
      /\ Cardinality(d.up) \in Nat /\ Cardinality(d.down) \in Nat
  BY <1>2, <1>3, FS_Subset, FS_CardinalityType
<1>5. /\ Cardinality(d.up \cup {v}) = Cardinality(d.up) + 1
      /\ Cardinality(d.down \cup {v}) = Cardinality(d.down) + 1
  BY <1>1, <1>4, FS_AddElement
<1>6. /\ u \in Document /\ u.status = "pending" /\ u.prices = 0
      /\ u.rewards = d.rewards /\ u.rejections = d.rejections
      /\ \/ u.up = d.up \cup {v} /\ u.down = d.down
         \/ u.up = d.up /\ u.down = d.down \cup {v}
  BY <1>1, <1>3 DEF Document
<1>7. e = IF Cardinality(u.up) >= VotesRequired
          THEN [u EXCEPT !.status = "verified", !.prices = @ + 1]
          ELSE IF Cardinality(u.down) >= VotesToReject THEN [u EXCEPT !.status = "rejected"]
          ELSE u
  BY DEF Voted
<1> HIDE DEF u, e
<1>8. /\ u.up \cap u.down = {} /\ v \in u.up \cup u.down
      /\ d.up \cup d.down \subseteq u.up \cup u.down
      /\ Cardinality(u.up) <= VotesRequired /\ Cardinality(u.down) <= VotesToReject
      /\ Cardinality(u.up) \in Nat /\ Cardinality(u.down) \in Nat
  <2>1. CASE u.up = d.up \cup {v} /\ u.down = d.down
    <3>1. Cardinality(u.up) = Cardinality(d.up) + 1 /\ Cardinality(u.down) = Cardinality(d.down)
      BY <1>5, <2>1
    <3>2. u.up \cap u.down = {} /\ v \in u.up
      BY <1>1, <2>1
    <3>3. QED BY <1>1, <1>2, <1>4, <2>1, <3>1, <3>2
  <2>2. CASE u.up = d.up /\ u.down = d.down \cup {v}
    <3>1. Cardinality(u.up) = Cardinality(d.up) /\ Cardinality(u.down) = Cardinality(d.down) + 1
      BY <1>5, <2>2
    <3>2. u.up \cap u.down = {} /\ v \in u.down
      BY <1>1, <2>2
    <3>3. QED BY <1>1, <1>2, <1>4, <2>2, <3>1, <3>2
  <2>3. QED BY <1>6, <2>1, <2>2
<1>9. /\ e \in Document /\ e.up = u.up /\ e.down = u.down
      /\ e.rewards = u.rewards /\ e.rejections = u.rejections
      /\ \/ /\ Cardinality(u.up) >= VotesRequired
            /\ e.status = "verified" /\ e.prices = 1
         \/ /\ Cardinality(u.up) < VotesRequired /\ Cardinality(u.down) >= VotesToReject
            /\ e.status = "rejected" /\ e.prices = 0
         \/ /\ Cardinality(u.up) < VotesRequired /\ Cardinality(u.down) < VotesToReject
            /\ e.status = "pending" /\ e.prices = 0
  <2>1. CASE Cardinality(u.up) >= VotesRequired
    <3>1. e = [u EXCEPT !.status = "verified", !.prices = 1]
      BY <1>6, <1>7, <2>1
    <3>2. e \in Document
      BY <1>6, <3>1 DEF Document
    <3>3. /\ e.up = u.up /\ e.down = u.down
          /\ e.rewards = u.rewards /\ e.rejections = u.rejections
          /\ e.status = "verified" /\ e.prices = 1
      BY <1>6, <3>1 DEF Document
    <3>4. QED BY <2>1, <3>2, <3>3
  <2>2. CASE Cardinality(u.up) < VotesRequired /\ Cardinality(u.down) >= VotesToReject
    <3>1. e = [u EXCEPT !.status = "rejected"]
      BY <1>2, <1>7, <1>8, <2>2
    <3>2. QED BY <1>6, <2>2, <3>1 DEF Document
  <2>3. CASE Cardinality(u.up) < VotesRequired /\ Cardinality(u.down) < VotesToReject
    <3>1. e = u
      BY <1>2, <1>7, <1>8, <2>3
    <3>2. QED BY <1>6, <2>3, <3>1
  <2>4. QED BY <1>2, <1>8, <2>1, <2>2, <2>3
<1>10. e \in FineDocs
  BY <1>2, <1>8, <1>9 DEF FineDocs
<1>11. e \in Holding(v)
  BY <1>8, <1>9 DEF Holding
<1>12. QED BY <1>6, <1>8, <1>9, <1>10, <1>11 DEF e

\* A reward touches nothing else.
LEMMA RewardedFacts ==
    ASSUME NEW d \in FineDocs, NEW c \in Contributors
    PROVE  /\ Rewarded(d, c) \in FineDocs
           /\ Rewarded(d, c).up = d.up /\ Rewarded(d, c).down = d.down
           /\ Rewarded(d, c).status = d.status
           /\ Rewarded(d, c).rejections = d.rejections
           /\ Rewarded(d, c).rewards[c] = d.rewards[c] + 1
           /\ \A x \in Contributors \ {c} : Rewarded(d, c).rewards[x] = d.rewards[x]
<1> DEFINE e == Rewarded(d, c)
<1>1. d \in Document
  BY DEF FineDocs
<1>2. /\ e \in Document
      /\ e.up = d.up /\ e.down = d.down /\ e.status = d.status /\ e.prices = d.prices
      /\ e.rejections = d.rejections
      /\ e.rewards[c] = d.rewards[c] + 1
      /\ \A x \in Contributors \ {c} : e.rewards[x] = d.rewards[x]
  BY <1>1 DEF Rewarded, Document
<1> HIDE DEF e
<1>3. e \in FineDocs
  BY <1>2 DEF FineDocs
<1>4. QED BY <1>2, <1>3 DEF e

\* And so does a penalty.
LEMMA PenalisedFacts ==
    ASSUME NEW d \in FineDocs
    PROVE  /\ Penalised(d) \in FineDocs
           /\ Penalised(d).up = d.up /\ Penalised(d).down = d.down
           /\ Penalised(d).status = d.status
           /\ Penalised(d).rejections = d.rejections + 1
           /\ Penalised(d).rewards = d.rewards
<1> DEFINE e == Penalised(d)
<1>1. d \in Document
  BY DEF FineDocs
<1>2. /\ e \in Document
      /\ e.up = d.up /\ e.down = d.down /\ e.status = d.status /\ e.prices = d.prices
      /\ e.rejections = d.rejections + 1
      /\ e.rewards = d.rewards
  <2> DEFINE t == d.timeout \/ d.rejections + 1 >= TimeoutAt
  <2>1. t \in BOOLEAN
    OBVIOUS
  <2>2. e = [d EXCEPT !.rejections = d.rejections + 1, !.timeout = t]
    BY DEF Penalised
  <2> HIDE DEF t, e
  <2>3. e \in Document
    <3>1. PICK n \in Nat : n = d.rejections + 1
      BY <1>1 DEF Document
    <3>2. PICK b \in BOOLEAN : b = t
      BY <2>1
    <3>3. e = [d EXCEPT !.rejections = n, !.timeout = b]
      BY <2>2, <3>1, <3>2, Zenon
    <3>4. QED BY <1>1, <3>3 DEF Document
  <2>4. /\ e.up = d.up /\ e.down = d.down /\ e.status = d.status /\ e.prices = d.prices
        /\ e.rejections = d.rejections + 1
        /\ e.rewards = d.rewards
    BY <1>1, <2>2 DEF Document
  <2>5. QED BY <2>3, <2>4
<1> HIDE DEF e
<1>3. e \in FineDocs
  BY <1>2 DEF FineDocs
<1>4. QED BY <1>2, <1>3 DEF e

-----------------------------------------------------------------------------
(* What a step does to the handlers.                                       *)

\* c's handler goes on: to another job, with reads to do, contributors to
\* reward and an answer.
Becomes(c, job, reads, todo, answer) ==
    /\ handler' \in [Contributors -> HandlerState]
    /\ \A d \in Contributors : d # c => handler'[d] = handler[d]
    /\ handler'[c].job = job /\ handler'[c].reads = reads /\ handler'[c].todo = todo
    /\ handler'[c].answer = answer /\ handler'[c].copy = None
    /\ handler'[c].alone = handler[c].alone

\* Replacing fields of a handler by others of their kind leaves a handler.
LEMMA FieldsReplaced ==
    ASSUME NEW h \in HandlerState, NEW job \in Jobs, NEW reads \in 0..2,
           NEW copy \in Document \cup {None}, NEW todo \in SUBSET Contributors,
           NEW answer \in Given \cup {None}, NEW ballot \in {"up", "down", None},
           NEW alone \in BOOLEAN
    PROVE  /\ [h EXCEPT !.job = job, !.reads = reads, !.copy = copy,
                        !.todo = todo, !.answer = answer] \in HandlerState
           /\ [h EXCEPT !.reads = reads, !.copy = copy] \in HandlerState
           /\ [h EXCEPT !.job = job, !.reads = reads, !.ballot = ballot, !.alone = alone]
                \in HandlerState
<1> DEFINE J == Jobs  R == 0..2  C == Document \cup {None}  B == {"up", "down", None}
           T == SUBSET Contributors  A == Given \cup {None}
<1>1. h \in [job : J, reads : R, copy : C, ballot : B, todo : T, alone : BOOLEAN, answer : A]
  BY DEF HandlerState
<1>2. job \in J /\ reads \in R /\ copy \in C /\ todo \in T /\ answer \in A /\ ballot \in B
  OBVIOUS
<1> HIDE DEF J, R, C, B, T, A
<1>3. [h EXCEPT !.job = job, !.reads = reads, !.copy = copy, !.todo = todo, !.answer = answer]
        \in [job : J, reads : R, copy : C, ballot : B, todo : T, alone : BOOLEAN, answer : A]
  BY <1>1, <1>2
<1>4. [h EXCEPT !.reads = reads, !.copy = copy]
        \in [job : J, reads : R, copy : C, ballot : B, todo : T, alone : BOOLEAN, answer : A]
  BY <1>1, <1>2
<1>5. [h EXCEPT !.job = job, !.reads = reads, !.ballot = ballot, !.alone = alone]
        \in [job : J, reads : R, copy : C, ballot : B, todo : T, alone : BOOLEAN, answer : A]
  BY <1>1, <1>2
<1>6. QED BY <1>3, <1>4, <1>5 DEF HandlerState, J, R, C, B, T, A

\* It awaits what a reward reads.
LEMMA RewardAwaited ==
    ASSUME Handlers, NEW c \in Contributors, NEW todo \in SUBSET Contributors,
           NEW answer \in Given \cup {None}, AwaitReward(c, todo, answer)
    PROVE  Becomes(c, "reward", 2, todo, answer)
<1> DEFINE h == handler[c]
           k == [h EXCEPT !.job = "reward", !.reads = 2, !.copy = None,
                          !.todo = todo, !.answer = answer]
<1>1. handler \in [Contributors -> HandlerState] /\ h \in HandlerState
  BY DEF Handlers
<1>2. handler' = [handler EXCEPT ![c] = k]
  BY <1>1 DEF AwaitReward
<1>3. k \in HandlerState
  <2>1. "reward" \in Jobs /\ 2 \in 0..2 /\ None \in Document \cup {None}
    BY DEF Jobs
  <2>2. QED BY <1>1, <2>1, FieldsReplaced
<1>4. /\ k.job = "reward" /\ k.reads = 2 /\ k.todo = todo
      /\ k.answer = answer /\ k.copy = None /\ k.alone = h.alone
  BY <1>1 DEF HandlerState
<1> HIDE DEF k
<1>5. QED BY <1>1, <1>2, <1>3, <1>4 DEF Becomes

\* It awaits a write.
LEMMA WriteAwaited ==
    ASSUME Handlers, NEW c \in Contributors, NEW job \in Jobs, NEW queue, NEW doc,
           NEW todo \in SUBSET Contributors,
           NEW answer \in Given \cup {None}, AwaitWrite(c, job, queue, doc, todo, answer)
    PROVE  /\ Becomes(c, job, 0, todo, answer)
           /\ writes' = Append(queue, <<c, doc>>)
<1> DEFINE h == handler[c]
           k == [h EXCEPT !.job = job, !.reads = 0, !.copy = None,
                          !.todo = todo, !.answer = answer]
<1>1. handler \in [Contributors -> HandlerState] /\ h \in HandlerState
  BY DEF Handlers
<1>2. handler' = [handler EXCEPT ![c] = k] /\ writes' = Append(queue, <<c, doc>>)
  BY <1>1 DEF AwaitWrite
<1>3. k \in HandlerState
  <2>1. 0 \in 0..2 /\ None \in Document \cup {None}
    OBVIOUS
  <2>2. QED BY <1>1, <2>1, FieldsReplaced
<1>4. /\ k.job = job /\ k.reads = 0 /\ k.todo = todo
      /\ k.answer = answer /\ k.copy = None /\ k.alone = h.alone
  BY <1>1 DEF HandlerState
<1> HIDE DEF k
<1>5. QED BY <1>1, <1>2, <1>3, <1>4 DEF Becomes

\* It returns.
LEMMA Returned ==
    ASSUME Handlers, NEW c \in Contributors, NEW answer \in Given \cup {None}, Return(c, answer)
    PROVE  Becomes(c, "none", 0, {}, answer)
<1> DEFINE h == handler[c]
           k == [Idle EXCEPT !.answer = answer, !.alone = h.alone]
<1>1. handler \in [Contributors -> HandlerState] /\ h \in HandlerState
  BY DEF Handlers
<1>2. handler' = [handler EXCEPT ![c] = k]
  BY <1>1 DEF Return
<1>3. /\ Idle \in HandlerState /\ Idle.job = "none" /\ Idle.reads = 0
      /\ Idle.todo = {} /\ Idle.copy = None
  BY DEF Idle, HandlerState, Jobs
<1>4. k \in HandlerState
  BY <1>1, <1>3 DEF HandlerState
<1>5. /\ k.job = "none" /\ k.reads = 0 /\ k.todo = {}
      /\ k.answer = answer /\ k.copy = None /\ k.alone = h.alone
  BY <1>3 DEF HandlerState
<1> HIDE DEF k
<1>6. QED BY <1>1, <1>2, <1>4, <1>5 DEF Becomes

\* A call begins: the others under way are not alone any more.
Begins(c, job) ==
    /\ handler' \in [Contributors -> HandlerState]
    /\ handler[c].job = "none"
    /\ \A d \in Contributors : d # c =>
         /\ handler'[d].job = handler[d].job /\ handler'[d].reads = handler[d].reads
         /\ handler'[d].copy = handler[d].copy /\ handler'[d].todo = handler[d].todo
         /\ handler'[d].answer = handler[d].answer
         /\ handler'[d].alone <=> handler[d].alone /\ handler[d].job = "none"
    /\ handler'[c].job = job /\ handler'[c].reads = 2 /\ handler'[c].todo = {}
    /\ handler'[c].answer = None /\ handler'[c].copy = None
    /\ handler'[c].alone <=> \A d \in Contributors : handler[d].job = "none"

\* So it is with both kinds of calls.
LEMMA Begun ==
    ASSUME Handlers, NEW c \in Contributors, NEW job \in {"submit", "vote"},
           NEW ballot \in {"up", "down", None}, Begin(c, job, 2, ballot)
    PROVE  Begins(c, job)
<1> DEFINE others == {d \in Contributors : handler[d].job # "none"}
           k == [Idle EXCEPT !.job = job, !.reads = 2, !.ballot = ballot,
                             !.alone = others = {}]
           g(d) == [handler[d] EXCEPT !.alone = @ /\ d \notin others]
<1>1. handler \in [Contributors -> HandlerState] /\ handler[c].job = "none"
  BY DEF Handlers, Begin
<1>2. handler' = [d \in Contributors |-> IF d = c THEN k ELSE g(d)]
  BY DEF Begin
<1>3. /\ Idle \in HandlerState /\ Idle.todo = {} /\ Idle.copy = None /\ Idle.answer = None
  BY DEF Idle, HandlerState, Jobs
<1>4. PICK a \in BOOLEAN : a = (others = {})
  OBVIOUS
<1>5. k = [Idle EXCEPT !.job = job, !.reads = 2, !.ballot = ballot, !.alone = a]
  BY <1>4, Zenon
<1>6. /\ k \in HandlerState
      /\ k.job = job /\ k.reads = 2 /\ k.todo = {} /\ k.copy = None /\ k.answer = None
      /\ k.alone = a
  <2>1. job \in Jobs /\ 2 \in 0..2
    BY DEF Jobs
  <2>2. [Idle EXCEPT !.job = job, !.reads = 2, !.ballot = ballot, !.alone = a] \in HandlerState
    BY <1>3, <2>1, FieldsReplaced
  <2>3. k \in HandlerState
    BY <1>5, <2>2
  <2>4. QED BY <1>3, <1>5, <2>3 DEF HandlerState
<1>7. ASSUME NEW d \in Contributors
      PROVE  /\ g(d) \in HandlerState
             /\ g(d).job = handler[d].job /\ g(d).reads = handler[d].reads
             /\ g(d).copy = handler[d].copy /\ g(d).todo = handler[d].todo
             /\ g(d).answer = handler[d].answer
             /\ g(d).alone <=> handler[d].alone /\ handler[d].job = "none"
  <2>1. handler[d] \in HandlerState /\ handler[d].alone \in BOOLEAN
    BY <1>1 DEF HandlerState
  <2>2. PICK b \in BOOLEAN : b = (handler[d].alone /\ d \notin others)
    OBVIOUS
  <2>3. g(d) = [handler[d] EXCEPT !.alone = b]
    BY <2>2, Zenon
  <2>4. /\ g(d) \in HandlerState
        /\ g(d).job = handler[d].job /\ g(d).reads = handler[d].reads
        /\ g(d).copy = handler[d].copy /\ g(d).todo = handler[d].todo
        /\ g(d).answer = handler[d].answer
        /\ g(d).alone = b
    BY <2>1, <2>3 DEF HandlerState
  <2>5. QED BY <2>1, <2>2, <2>4
<1>8. a <=> \A d \in Contributors : handler[d].job = "none"
  BY <1>4
<1> HIDE DEF k, g, others
<1>9. /\ handler' \in [Contributors -> HandlerState]
      /\ handler'[c] = k
      /\ \A d \in Contributors : d # c => handler'[d] = g(d)
  BY <1>2, <1>6, <1>7
<1>10. QED BY <1>1, <1>6, <1>7, <1>8, <1>9 DEF Begins

-----------------------------------------------------------------------------
(* What each step does.                                                    *)

\* A document that is delivered is one of the versions, in the cloud the only one.
LEMMA DeliveredIn ==
    ASSUME NEW D, AllIn(D), NEW c \in Contributors, Ready(c)
    PROVE  Delivered(c) \in D /\ (mode = "cloud" => Delivered(c) = mem)
BY DEF AllIn, Ready, Delivered

\* A read takes the file.
LEMMA FetchFacts ==
    ASSUME Sound, NEW c \in Contributors, Fetch(c)
    PROVE  /\ handler' \in [Contributors -> HandlerState]
           /\ \A d \in Contributors : d # c => handler'[d] = handler[d]
           /\ handler'[c].job = handler[c].job /\ handler'[c].reads = handler[c].reads
           /\ handler'[c].todo = handler[c].todo /\ handler'[c].answer = handler[c].answer
           /\ handler'[c].alone = handler[c].alone /\ handler'[c].copy = disk
           /\ mode' = mode /\ disk' = disk /\ mem' = mem /\ writes' = writes
           /\ handler[c].reads > 0
<1>1. /\ handler \in [Contributors -> HandlerState] /\ handler[c] \in HandlerState
      /\ disk \in Document
  BY DEF Sound, Handlers, AllIn, FineDocs
<1>2. handler' = [handler EXCEPT ![c] = [handler[c] EXCEPT !.copy = disk]]
  BY <1>1 DEF Fetch
<1>3. [handler[c] EXCEPT !.copy = disk] \in HandlerState
  BY <1>1 DEF HandlerState
<1>4. QED BY <1>1, <1>2, <1>3 DEF Fetch, HandlerState

\* A read that is not the last puts its document in place.
LEMMA DeliverFacts ==
    ASSUME Sound, NEW c \in Contributors, Deliver(c)
    PROVE  /\ Becomes(c, handler[c].job, handler[c].reads - 1, handler[c].todo, handler[c].answer)
           /\ mode' = mode /\ disk' = disk /\ mem' = Delivered(c) /\ writes' = writes
           /\ Ready(c) /\ handler[c].reads > 1
<1> DEFINE h == handler[c]
           k == [h EXCEPT !.reads = @ - 1, !.copy = None]
<1>1. handler \in [Contributors -> HandlerState] /\ h \in HandlerState
  BY DEF Sound, Handlers
<1>2. handler' = [handler EXCEPT ![c] = k]
  BY <1>1 DEF Deliver
<1>3. h.reads \in 0..2 /\ h.reads > 1
  BY <1>1 DEF HandlerState, Deliver
<1>4. PICK n \in 0..2 : n = h.reads - 1
  BY <1>3
<1>5. k = [h EXCEPT !.reads = n, !.copy = None]
  BY <1>4
<1>6. /\ h.job \in Jobs /\ h.todo \in SUBSET Contributors /\ h.answer \in Given \cup {None}
      /\ h.ballot \in {"up", "down", None} /\ h.alone \in BOOLEAN
  BY <1>1 DEF HandlerState
<1>7. k \in HandlerState
  <2>1. None \in Document \cup {None}
    OBVIOUS
  <2>2. [h EXCEPT !.reads = n, !.copy = None] \in HandlerState
    BY <1>1, <1>6, <2>1, FieldsReplaced
  <2>3. QED BY <1>5, <2>2
<1>8. /\ k.job = h.job /\ k.reads = h.reads - 1 /\ k.todo = h.todo
      /\ k.answer = h.answer /\ k.copy = None /\ k.alone = h.alone
  BY <1>1 DEF HandlerState
<1> HIDE DEF k
<1>9. Becomes(c, h.job, h.reads - 1, h.todo, h.answer)
  BY <1>1, <1>2, <1>7, <1>8 DEF Becomes
<1>10. QED BY <1>9 DEF Deliver

\* The submission is made, out of a document that knows of none.
LEMMA PushFacts ==
    ASSUME CommunityAssumption, Sound, Push
    PROVE  /\ NothingYet /\ handler[Submitter].job = "submit" /\ Submitter \in Contributors
           /\ Becomes(Submitter, "closing", 0, {}, "submitted")
           /\ \E auto \in BOOLEAN : mem' = Pushed(NewDocument, auto)
           /\ mode' = mode /\ disk' = disk /\ writes' = Append(writes, <<Submitter, mem'>>)
<1>1. /\ Submitter \in Contributors /\ handler[Submitter].job = "submit" /\ Ready(Submitter)
      /\ handler[Submitter] \in HandlerState
  BY DEF Push, LastRead, Contributors, Sound, Handlers
<1>2. NothingYet
  BY <1>1 DEF Sound, Handlers, GoodHandler, Fresh
<1>3. Delivered(Submitter) = NewDocument
  BY <1>1, <1>2 DEF NothingYet, Ready, Delivered
<1>4. "closing" \in Jobs /\ "submitted" \in Given
  BY DEF Jobs, Given
<1>5. AwaitWrite(Submitter, "closing", writes, mem', {}, "submitted")
  BY DEF Push
<1>6. /\ Becomes(Submitter, "closing", 0, {}, "submitted")
      /\ writes' = Append(writes, <<Submitter, mem'>>)
  BY <1>1, <1>4, <1>5, WriteAwaited DEF Sound
<1>7. QED BY <1>1, <1>2, <1>3, <1>6 DEF Push

\* A vote is refused.
LEMMA RefuseFacts ==
    ASSUME Sound, NEW v \in Contributors, Refuse(v)
    PROVE  /\ handler[v].job = "vote" /\ Ready(v)
           /\ Becomes(v, "none", 0, {}, "refused")
           /\ mode' = mode /\ disk' = disk /\ mem' = Delivered(v) /\ writes' = writes
<1>1. Becomes(v, "none", 0, {}, "refused")
  BY Returned DEF Refuse, Sound, Given
<1>2. QED BY <1>1 DEF Refuse, LastRead

\* A vote is cast.  It is written, or what follows from it begins.
LEMMA CastFacts ==
    ASSUME CommunityAssumption, Sound, NEW v \in Contributors, Cast(v)
    PROVE  /\ handler[v].job = "vote" /\ Ready(v) /\ MayVote(Delivered(v), v)
           /\ \E ballot : mem' = Voted(Delivered(v), v, ballot)
           /\ mem' \in FineDocs /\ mode' = mode /\ disk' = disk
           /\ \/ /\ mem'.status = "pending"
                 /\ Becomes(v, "closing", 0, {}, "recorded")
                 /\ writes' = Append(writes, <<v, mem'>>)
              \/ /\ mem'.status = "verified"
                 /\ \E todo \in SUBSET Contributors : Becomes(v, "reward", 2, todo, "verified")
                 /\ writes' = writes
              \/ /\ mem'.status = "rejected"
                 /\ \E todo \in SUBSET Contributors : Becomes(v, "penalty", 1, todo, "rejected")
                 /\ writes' = writes
<1>1. /\ handler[v].job = "vote" /\ Ready(v) /\ MayVote(Delivered(v), v)
      /\ mem' = Voted(Delivered(v), v, handler[v].ballot)
      /\ mode' = mode /\ disk' = disk
  BY DEF Cast, LastRead
<1>2. mem' \in FineDocs
  BY <1>1, DeliveredIn, VotedFacts DEF Sound
<1>3. mem'.up \subseteq Contributors /\ Submitter \in Contributors
  BY <1>2 DEF FineDocs, Document, Contributors
<1>4. CASE mem'.status = "pending" /\ AwaitWrite(v, "closing", writes, mem', {}, "recorded")
  <2>1. Becomes(v, "closing", 0, {}, "recorded") /\ writes' = Append(writes, <<v, mem'>>)
    BY <1>4, WriteAwaited DEF Sound, Jobs, Given
  <2>2. QED BY <1>1, <1>2, <1>4, <2>1
<1>5. CASE /\ mem'.status = "verified" /\ AwaitReward(v, {Submitter} \cup mem'.up, "verified")
           /\ UNCHANGED writes
  <2>1. PICK todo \in SUBSET Contributors : todo = {Submitter} \cup mem'.up
    BY <1>3
  <2>2. Becomes(v, "reward", 2, todo, "verified")
    BY <1>5, <2>1, RewardAwaited DEF Sound, Given
  <2>3. QED BY <1>1, <1>2, <1>5, <2>2
<1>6. CASE /\ mem'.status = "rejected"
           /\ handler' = [handler EXCEPT ![v] =
                            [@ EXCEPT !.job = "penalty", !.reads = 1, !.copy = None,
                                      !.answer = "rejected"]]
           /\ UNCHANGED writes
  <2> DEFINE h == handler[v]
             k == [h EXCEPT !.job = "penalty", !.reads = 1, !.copy = None, !.todo = h.todo,
                            !.answer = "rejected"]
  <2>1. handler \in [Contributors -> HandlerState] /\ h \in HandlerState
    BY DEF Sound, Handlers
  <2>2. /\ "penalty" \in Jobs /\ "rejected" \in Given \cup {None} /\ 1 \in 0..2
        /\ h.todo \in SUBSET Contributors /\ None \in Document \cup {None}
        /\ h.ballot \in {"up", "down", None} /\ h.alone \in BOOLEAN
    BY <2>1 DEF Jobs, Given, HandlerState
  <2>3. k \in HandlerState
    BY <2>1, <2>2, FieldsReplaced
  <2>4. /\ k.job = "penalty" /\ k.reads = 1 /\ k.todo = h.todo
        /\ k.answer = "rejected" /\ k.copy = None /\ k.alone = h.alone
    BY <2>1 DEF HandlerState
  <2>5. k = [h EXCEPT !.job = "penalty", !.reads = 1, !.copy = None, !.answer = "rejected"]
    BY <2>1 DEF HandlerState
  <2>6. handler' = [handler EXCEPT ![v] = k]
    BY <1>6, <2>1, <2>5
  <2> HIDE DEF k
  <2>7. Becomes(v, "penalty", 1, h.todo, "rejected")
    BY <2>1, <2>3, <2>4, <2>6 DEF Becomes
  <2>8. QED BY <1>1, <1>2, <1>6, <2>2, <2>7
<1>7. QED BY <1>4, <1>5, <1>6 DEF Cast

\* A contributor is rewarded, or in timeout and passed over.
LEMMA RewardFacts ==
    ASSUME CommunityAssumption, Sound, NEW v \in Contributors, Reward(v)
    PROVE  /\ handler[v].job = "reward" /\ Ready(v) /\ handler[v].answer \in Given
           /\ mode' = mode /\ disk' = disk
           /\ \E c \in handler[v].todo, rest \in SUBSET handler[v].todo :
                /\ c \in Contributors /\ c \notin rest
                /\ \/ /\ mem' = Rewarded(Delivered(v), c)
                      /\ Becomes(v, "rewarding", 0, rest, handler[v].answer)
                      /\ writes' = Append(writes, <<v, mem'>>)
                   \/ /\ mem' = Delivered(v)
                      /\ Becomes(v, "reward", 2, rest, handler[v].answer)
                      /\ writes' = writes
                   \/ /\ mem' = Delivered(v)
                      /\ Becomes(v, "closing", 0, {}, handler[v].answer)
                      /\ writes' = Append(writes, <<v, mem'>>)
<1>1. /\ handler[v].job = "reward" /\ Ready(v) /\ mode' = mode /\ disk' = disk
      /\ handler[v] \in HandlerState /\ handler[v].answer # None
  BY DEF Reward, LastRead, Sound, Handlers, GoodHandler
<1>2. handler[v].todo \subseteq Contributors /\ handler[v].answer \in Given
  BY <1>1 DEF HandlerState
<1>3. PICK c \in handler[v].todo :
        \/ /\ mem' = Rewarded(Delivered(v), c)
           /\ AwaitWrite(v, "rewarding", writes, mem', handler[v].todo \ {c}, handler[v].answer)
        \/ /\ mem' = Delivered(v)
           /\ \/ /\ AwaitReward(v, handler[v].todo \ {c}, handler[v].answer)
                 /\ UNCHANGED writes
              \/ AwaitWrite(v, "closing", writes, Delivered(v), {}, handler[v].answer)
  BY DEF Reward
<1>4. PICK rest \in SUBSET handler[v].todo : rest = handler[v].todo \ {c}
  OBVIOUS
<1>5. rest \in SUBSET Contributors /\ c \in Contributors /\ c \notin rest
  BY <1>2, <1>4
<1>6. {"rewarding", "closing"} \subseteq Jobs
  BY DEF Jobs
<1>7. CASE /\ mem' = Rewarded(Delivered(v), c)
           /\ AwaitWrite(v, "rewarding", writes, mem', handler[v].todo \ {c}, handler[v].answer)
  <2>1. /\ Becomes(v, "rewarding", 0, rest, handler[v].answer)
        /\ writes' = Append(writes, <<v, mem'>>)
    BY <1>2, <1>4, <1>5, <1>6, <1>7, WriteAwaited DEF Sound
  <2>2. QED BY <1>1, <1>2, <1>5, <1>7, <2>1
<1>8. CASE /\ mem' = Delivered(v)
           /\ AwaitReward(v, handler[v].todo \ {c}, handler[v].answer)
           /\ UNCHANGED writes
  <2>1. Becomes(v, "reward", 2, rest, handler[v].answer)
    BY <1>2, <1>4, <1>5, <1>8, RewardAwaited DEF Sound
  <2>2. QED BY <1>1, <1>2, <1>5, <1>8, <2>1
<1>9. CASE /\ mem' = Delivered(v)
           /\ AwaitWrite(v, "closing", writes, Delivered(v), {}, handler[v].answer)
  <2>1. /\ Becomes(v, "closing", 0, {}, handler[v].answer)
        /\ writes' = Append(writes, <<v, mem'>>)
    BY <1>2, <1>6, <1>9, WriteAwaited DEF Sound
  <2>2. QED BY <1>1, <1>2, <1>5, <1>9, <2>1
<1>10. QED BY <1>3, <1>7, <1>8, <1>9

\* The submitter is penalised.
LEMMA PenaliseFacts ==
    ASSUME CommunityAssumption, Sound, NEW v \in Contributors, Penalise(v)
    PROVE  /\ handler[v].job = "penalty" /\ Ready(v) /\ handler[v].answer \in Given
           /\ Becomes(v, "closing", 0, {}, handler[v].answer)
           /\ mode' = mode /\ disk' = disk
           /\ mem' = Penalised(Delivered(v)) /\ writes' = Append(writes, <<v, mem'>>)
<1>1. /\ handler[v].job = "penalty" /\ Ready(v) /\ mode' = mode /\ disk' = disk
      /\ handler[v] \in HandlerState /\ handler[v].answer # None
      /\ mem' = Penalised(Delivered(v))
  BY DEF Penalise, LastRead, Sound, Handlers, GoodHandler
<1>2. handler[v].answer \in Given
  BY <1>1 DEF HandlerState
<1>3. /\ Becomes(v, "closing", 0, {}, handler[v].answer)
      /\ writes' = Append(writes, <<v, mem'>>)
  BY <1>2, WriteAwaited DEF Penalise, Sound, Jobs
<1>4. QED BY <1>1, <1>2, <1>3

\* The oldest write lands, and its handler goes on.
LEMMA LandFacts ==
    ASSUME CommunityAssumption, Sound, Land
    PROVE  \E c \in Contributors :
             /\ writes # <<>> /\ writes[1][1] = c /\ disk' = writes[1][2]
             /\ mode' = mode /\ mem' = mem /\ handler[c].answer \in Given
             /\ \/ /\ handler[c].job = "rewarding"
                   /\ Becomes(c, "reward", 2, handler[c].todo, handler[c].answer)
                   /\ writes' = Tail(writes)
                \/ /\ handler[c].job = "rewarding"
                   /\ Becomes(c, "closing", 0, {}, handler[c].answer)
                   /\ writes' = Append(Tail(writes), <<c, mem>>)
                \/ /\ handler[c].job = "closing"
                   /\ Becomes(c, "none", 0, {}, handler[c].answer)
                   /\ writes' = Tail(writes)
<1> DEFINE c == writes[1][1]
           h == handler[c]
<1>1. writes \in Seq(Contributors \X FineDocs) /\ writes # <<>>
  BY DEF Land, Sound, AllIn
<1>2. writes[1] \in Contributors \X FineDocs
  BY <1>1
<1>3. PICK d \in Contributors : d = c
  BY <1>2
<1>4. /\ disk' = writes[1][2] /\ mode' = mode /\ mem' = mem
      /\ \/ /\ h.job = "rewarding" /\ AwaitReward(c, h.todo, h.answer) /\ writes' = Tail(writes)
         \/ /\ h.job = "rewarding" /\ AwaitWrite(c, "closing", Tail(writes), mem, {}, h.answer)
         \/ /\ h.job = "closing" /\ Return(c, h.answer) /\ writes' = Tail(writes)
  BY DEF Land
<1> HIDE DEF c
<1>5. handler[d] \in HandlerState /\ GoodHandler(d, handler[d])
  BY DEF Sound, Handlers
<1>6. handler[d].job \in {"rewarding", "closing"}
  BY <1>3, <1>4
<1>7. handler[d].answer \in Given /\ handler[d].todo \in SUBSET Contributors
  BY <1>5, <1>6 DEF HandlerState, GoodHandler
<1>8. "closing" \in Jobs /\ Handlers
  BY DEF Jobs, Sound
<1>9. CASE /\ h.job = "rewarding" /\ AwaitReward(c, h.todo, h.answer) /\ writes' = Tail(writes)
  <2>1. AwaitReward(d, handler[d].todo, handler[d].answer)
    BY <1>3, <1>9
  <2>2. Becomes(d, "reward", 2, handler[d].todo, handler[d].answer)
    BY <1>7, <1>8, <2>1, RewardAwaited
  <2>3. QED BY <1>1, <1>3, <1>4, <1>7, <1>9, <2>2 DEF c
<1>10. CASE /\ h.job = "rewarding" /\ AwaitWrite(c, "closing", Tail(writes), mem, {}, h.answer)
  <2>1. AwaitWrite(d, "closing", Tail(writes), mem, {}, handler[d].answer)
    BY <1>3, <1>10
  <2>2. /\ Becomes(d, "closing", 0, {}, handler[d].answer)
        /\ writes' = Append(Tail(writes), <<d, mem>>)
    BY <1>7, <1>8, <2>1, WriteAwaited
  <2>3. QED BY <1>1, <1>3, <1>4, <1>7, <1>10, <2>2 DEF c
<1>11. CASE /\ h.job = "closing" /\ Return(c, h.answer) /\ writes' = Tail(writes)
  <2>1. Return(d, handler[d].answer)
    BY <1>3, <1>11
  <2>2. Becomes(d, "none", 0, {}, handler[d].answer)
    BY <1>7, <1>8, <2>1, Returned
  <2>3. QED BY <1>1, <1>3, <1>4, <1>7, <1>11, <2>2 DEF c
<1>12. QED BY <1>4, <1>9, <1>10, <1>11

-----------------------------------------------------------------------------
(* What all versions satisfy.                                              *)

\* The operations on documents lead from D to D.
Closed(D) ==
    /\ D \in SUBSET FineDocs
    /\ \A d \in D, v \in Contributors, ballot \in {"up", "down"} :
         MayVote(d, v) => Voted(d, v, ballot) \in D
    /\ \A d \in D, c \in Contributors : Rewarded(d, c) \in D
    /\ \A d \in D : Penalised(d) \in D
    /\ NewDocument \in D => \A auto \in BOOLEAN : Pushed(NewDocument, auto) \in D

\* Of a ballot it only matters whether it is in favour.
LEMMA BallotKinds ==
    ASSUME NEW d, NEW v, NEW ballot
    PROVE  \E b \in {"up", "down"} : Voted(d, v, ballot) = Voted(d, v, b)
<1>1. CASE ballot = "up"
  BY <1>1
<1>2. CASE ballot # "up"
  <2>1. Voted(d, v, ballot) = Voted(d, v, "down")
    BY <1>2 DEF Voted
  <2>2. QED BY <2>1
<1>3. QED BY <1>1, <1>2

\* When a handler goes on, nothing is read that was not there.
LEMMA CopiesKept ==
    ASSUME NEW D, NEW c \in Contributors, NEW job, NEW reads, NEW todo, NEW answer,
           AllIn(D), Becomes(c, job, reads, todo, answer)
    PROVE  \A d \in Contributors : handler'[d].copy \in D \cup {None}
BY DEF AllIn, Becomes

\* Every version there will be is of D, if every version there is is.
LEMMA VersionsKept ==
    ASSUME CommunityAssumption, Sound, [Next]_vars, NEW D, Closed(D), AllIn(D)
    PROVE  AllIn(D)'
<1>1. /\ disk \in D /\ mem \in D /\ writes \in Seq(Contributors \X D)
      /\ \A c \in Contributors : handler[c].copy \in D \cup {None}
  BY DEF AllIn
<1>2. ASSUME NEW c \in Contributors, NEW doc \in D, disk' \in D, mem' \in D,
             NEW queue \in Seq(Contributors \X D), writes' = Append(queue, <<c, doc>>),
             \A d \in Contributors : handler'[d].copy \in D \cup {None}
      PROVE  AllIn(D)'
  <2>1. writes' \in Seq(Contributors \X D)
    BY <1>2
  <2>2. QED BY <1>2, <2>1 DEF AllIn
<1>3. ASSUME NEW c \in Contributors, NEW job, Begins(c, job), UNCHANGED <<disk, mem, writes>>
      PROVE  AllIn(D)'
  BY <1>1, <1>3 DEF AllIn, Begins
<1>4. CASE Submit
  <2>1. Begins(Submitter, "submit") /\ Submitter \in Contributors
    BY <1>4, Begun DEF Submit, Sound, Contributors
  <2>2. QED BY <1>3, <1>4, <2>1 DEF Submit
<1>5. ASSUME NEW v \in Contributors, Vote(v) PROVE AllIn(D)'
  <2>1. Begins(v, "vote")
    BY <1>5, Begun DEF Vote, Sound
  <2>2. QED BY <1>3, <1>5, <2>1 DEF Vote
<1>6. ASSUME NEW c \in Contributors, Fetch(c) PROVE AllIn(D)'
  <2>1. /\ \A d \in Contributors : d # c => handler'[d] = handler[d]
        /\ handler'[c].copy = disk /\ disk' = disk /\ mem' = mem /\ writes' = writes
    BY <1>6, FetchFacts
  <2>2. \A d \in Contributors : handler'[d].copy \in D \cup {None}
    BY <1>1, <2>1
  <2>3. QED BY <1>1, <2>1, <2>2 DEF AllIn
<1>7. ASSUME NEW c \in Contributors, Deliver(c) PROVE AllIn(D)'
  <2>1. /\ Becomes(c, handler[c].job, handler[c].reads - 1, handler[c].todo, handler[c].answer)
        /\ disk' = disk /\ mem' = Delivered(c) /\ writes' = writes /\ Ready(c)
    BY <1>7, DeliverFacts
  <2>2. mem' \in D
    BY <2>1, DeliveredIn
  <2>3. \A d \in Contributors : handler'[d].copy \in D \cup {None}
    BY <2>1, CopiesKept
  <2>4. QED BY <1>1, <2>1, <2>2, <2>3 DEF AllIn
<1>8. CASE Push
  <2>1. /\ NothingYet /\ Submitter \in Contributors
        /\ Becomes(Submitter, "closing", 0, {}, "submitted")
        /\ \E auto \in BOOLEAN : mem' = Pushed(NewDocument, auto)
        /\ disk' = disk /\ writes' = Append(writes, <<Submitter, mem'>>)
    BY <1>8, PushFacts
  <2>2. mem' \in D
    BY <1>1, <2>1 DEF Closed, NothingYet
  <2>3. \A d \in Contributors : handler'[d].copy \in D \cup {None}
    BY <2>1, CopiesKept
  <2>4. QED BY <1>1, <1>2, <2>1, <2>2, <2>3
<1>9. ASSUME NEW v \in Contributors, Refuse(v) PROVE AllIn(D)'
  <2>1. /\ Becomes(v, "none", 0, {}, "refused") /\ Ready(v)
        /\ disk' = disk /\ mem' = Delivered(v) /\ writes' = writes
    BY <1>9, RefuseFacts
  <2>2. mem' \in D
    BY <2>1, DeliveredIn
  <2>3. \A d \in Contributors : handler'[d].copy \in D \cup {None}
    BY <2>1, CopiesKept
  <2>4. QED BY <1>1, <2>1, <2>2, <2>3 DEF AllIn
<1>10. ASSUME NEW v \in Contributors, Cast(v) PROVE AllIn(D)'
  <2>1. /\ Ready(v) /\ MayVote(Delivered(v), v)
        /\ \E ballot : mem' = Voted(Delivered(v), v, ballot)
        /\ disk' = disk
        /\ \/ \E todo \in SUBSET Contributors : Becomes(v, "reward", 2, todo, "verified")
           \/ \E todo \in SUBSET Contributors : Becomes(v, "penalty", 1, todo, "rejected")
           \/ Becomes(v, "closing", 0, {}, "recorded")
        /\ writes' = writes \/ writes' = Append(writes, <<v, mem'>>)
    BY <1>10, CastFacts
  <2>2. Delivered(v) \in D
    BY <2>1, DeliveredIn
  <2>3. PICK b \in {"up", "down"} : mem' = Voted(Delivered(v), v, b)
    BY <2>1, BallotKinds
  <2>4. mem' \in D
    BY <2>1, <2>2, <2>3 DEF Closed
  <2>5. \A d \in Contributors : handler'[d].copy \in D \cup {None}
    BY <2>1, CopiesKept
  <2>6. CASE writes' = writes
    BY <1>1, <2>1, <2>4, <2>5, <2>6 DEF AllIn
  <2>7. QED BY <1>1, <1>2, <2>1, <2>4, <2>5, <2>6
<1>11. ASSUME NEW v \in Contributors, Reward(v) PROVE AllIn(D)'
  <2>1. /\ Ready(v) /\ disk' = disk
        /\ \E c \in Contributors : mem' \in {Rewarded(Delivered(v), c), Delivered(v)}
        /\ \E job, reads, rest : Becomes(v, job, reads, rest, handler[v].answer)
        /\ writes' = writes \/ writes' = Append(writes, <<v, mem'>>)
    BY <1>11, RewardFacts
  <2>2. Delivered(v) \in D
    BY <2>1, DeliveredIn
  <2>3. mem' \in D
    BY <2>1, <2>2 DEF Closed
  <2>4. \A d \in Contributors : handler'[d].copy \in D \cup {None}
    BY <2>1, CopiesKept
  <2>5. CASE writes' = writes
    BY <1>1, <2>1, <2>3, <2>4, <2>5 DEF AllIn
  <2>6. QED BY <1>1, <1>2, <2>1, <2>3, <2>4, <2>5
<1>12. ASSUME NEW v \in Contributors, Penalise(v) PROVE AllIn(D)'
  <2>1. /\ Ready(v) /\ disk' = disk /\ mem' = Penalised(Delivered(v))
        /\ Becomes(v, "closing", 0, {}, handler[v].answer)
        /\ writes' = Append(writes, <<v, mem'>>)
    BY <1>12, PenaliseFacts
  <2>2. mem' \in D
    BY <2>1, DeliveredIn DEF Closed
  <2>3. \A d \in Contributors : handler'[d].copy \in D \cup {None}
    BY <2>1, CopiesKept
  <2>4. QED BY <1>1, <1>2, <2>1, <2>2, <2>3
<1>13. CASE Land
  <2>1. PICK c \in Contributors :
          /\ writes # <<>> /\ disk' = writes[1][2] /\ mem' = mem
          /\ \E job, reads, todo : Becomes(c, job, reads, todo, handler[c].answer)
          /\ writes' = Tail(writes) \/ writes' = Append(Tail(writes), <<c, mem>>)
    BY <1>13, LandFacts
  <2>2. writes[1] \in Contributors \X D /\ Tail(writes) \in Seq(Contributors \X D)
    BY <1>1, <2>1
  <2>3. disk' \in D
    BY <2>1, <2>2
  <2>4. \A d \in Contributors : handler'[d].copy \in D \cup {None}
    BY <2>1, CopiesKept
  <2>5. CASE writes' = Tail(writes)
    BY <1>1, <2>1, <2>2, <2>3, <2>4, <2>5 DEF AllIn
  <2>6. CASE writes' = Append(Tail(writes), <<c, mem>>)
    BY <1>1, <1>2, <2>1, <2>2, <2>3, <2>4, <2>6
  <2>7. QED BY <2>1, <2>5, <2>6
<1>14. CASE UNCHANGED vars
  BY <1>1, <1>14 DEF vars, AllIn
<1>15. QED BY <1>4, <1>5, <1>6, <1>7, <1>8, <1>9, <1>10, <1>11, <1>12, <1>13, <1>14
       DEF Next, Work

\* When a handler goes on as its job requires, all handlers are as they should be.
LEMMA HandlersKept ==
    ASSUME Handlers, NEW c \in Contributors, NEW job, NEW reads, NEW todo, NEW answer,
           Becomes(c, job, reads, todo, answer), mode' = mode,
           job = "submit" => c = Submitter /\ answer = None,
           job \in {"reward", "penalty", "rewarding", "closing"} => answer # None,
           job \in {"none", "rewarding", "closing"} => reads = 0
    PROVE  Handlers'
<1>1. mode' \in Modes /\ handler' \in [Contributors -> HandlerState]
  BY DEF Handlers, Becomes
<1>2. GoodHandler(c, handler'[c])
  BY <1>1 DEF Becomes, GoodHandler
<1>3. \A d \in Contributors : d # c => GoodHandler(d, handler'[d])
  BY DEF Becomes, Handlers
<1>4. QED BY <1>1, <1>2, <1>3 DEF Handlers

\* And so they are when a call begins.
LEMMA HandlersBegin ==
    ASSUME Handlers, NEW c \in Contributors, NEW job \in {"submit", "vote"},
           Begins(c, job), mode' = mode, job = "submit" => c = Submitter
    PROVE  Handlers'
<1>1. mode' \in Modes /\ handler' \in [Contributors -> HandlerState]
  BY DEF Handlers, Begins
<1>2. GoodHandler(c, handler'[c])
  BY <1>1 DEF Begins, GoodHandler
<1>3. ASSUME NEW d \in Contributors, d # c PROVE GoodHandler(d, handler'[d])
  BY <1>1, <1>3 DEF Begins, Handlers, GoodHandler
<1>4. QED BY <1>1, <1>2, <1>3 DEF Handlers

\* Every step keeps the handlers as they should be.
LEMMA HandlersInductive ==
    ASSUME CommunityAssumption, Sound, [Next]_vars
    PROVE  Handlers'
<1>1. None \notin Given /\ {"submitted", "refused", "recorded", "verified", "rejected"} \subseteq Given
  BY DEF CommunityAssumption, Given
<1>2. Handlers /\ Submitter \in Contributors
  BY DEF Sound, Contributors
<1>3. CASE Submit
  <2>1. Begins(Submitter, "submit") /\ mode' = mode
    BY <1>2, <1>3, Begun DEF Submit
  <2>2. QED BY <1>2, <2>1, HandlersBegin
<1>4. ASSUME NEW v \in Contributors, Vote(v) PROVE Handlers'
  <2>1. Begins(v, "vote") /\ mode' = mode
    BY <1>2, <1>4, Begun DEF Vote
  <2>2. QED BY <1>2, <2>1, HandlersBegin
<1>5. ASSUME NEW c \in Contributors, Fetch(c) PROVE Handlers'
  <2>1. /\ handler' \in [Contributors -> HandlerState]
        /\ \A d \in Contributors : d # c => handler'[d] = handler[d]
        /\ handler'[c].job = handler[c].job
        /\ handler'[c].answer = handler[c].answer
        /\ mode' = mode /\ handler[c].reads > 0
    BY <1>5, FetchFacts
  <2>2. GoodHandler(c, handler[c])
    BY <1>2 DEF Handlers
  <2>3. GoodHandler(c, handler'[c])
    BY <2>1, <2>2 DEF GoodHandler
  <2>4. QED BY <1>2, <2>1, <2>3 DEF Handlers
<1>6. ASSUME NEW c \in Contributors, Deliver(c) PROVE Handlers'
  <2>1. /\ Becomes(c, handler[c].job, handler[c].reads - 1, handler[c].todo, handler[c].answer)
        /\ mode' = mode /\ handler[c].reads > 1
    BY <1>6, DeliverFacts
  <2>2. GoodHandler(c, handler[c])
    BY <1>2 DEF Handlers
  <2>3. QED BY <1>2, <2>1, <2>2, HandlersKept DEF GoodHandler
<1>7. CASE Push
  <2>1. Becomes(Submitter, "closing", 0, {}, "submitted") /\ mode' = mode
    BY <1>7, PushFacts
  <2>2. QED BY <1>1, <1>2, <2>1, HandlersKept
<1>8. ASSUME NEW v \in Contributors, Refuse(v) PROVE Handlers'
  <2>1. Becomes(v, "none", 0, {}, "refused") /\ mode' = mode
    BY <1>8, RefuseFacts
  <2>2. QED BY <1>1, <1>2, <2>1, HandlersKept
<1>9. ASSUME NEW v \in Contributors, Cast(v) PROVE Handlers'
  <2>1. /\ mode' = mode
        /\ \/ \E todo \in SUBSET Contributors : Becomes(v, "reward", 2, todo, "verified")
           \/ \E todo \in SUBSET Contributors : Becomes(v, "penalty", 1, todo, "rejected")
           \/ Becomes(v, "closing", 0, {}, "recorded")
    BY <1>9, CastFacts
  <2>2. CASE \E todo \in SUBSET Contributors : Becomes(v, "reward", 2, todo, "verified")
    BY <1>1, <1>2, <2>1, <2>2, HandlersKept
  <2>3. CASE \E todo \in SUBSET Contributors : Becomes(v, "penalty", 1, todo, "rejected")
    BY <1>1, <1>2, <2>1, <2>3, HandlersKept
  <2>4. CASE Becomes(v, "closing", 0, {}, "recorded")
    BY <1>1, <1>2, <2>1, <2>4, HandlersKept
  <2>5. QED BY <2>1, <2>2, <2>3, <2>4
<1>10. ASSUME NEW v \in Contributors, Reward(v) PROVE Handlers'
  <2>1. /\ mode' = mode /\ handler[v].answer \in Given
        /\ \E rest : \/ Becomes(v, "rewarding", 0, rest, handler[v].answer)
                     \/ Becomes(v, "reward", 2, rest, handler[v].answer)
                     \/ Becomes(v, "closing", 0, {}, handler[v].answer)
    BY <1>10, RewardFacts
  <2>2. ASSUME NEW rest, Becomes(v, "rewarding", 0, rest, handler[v].answer) PROVE Handlers'
    BY <1>1, <1>2, <2>1, <2>2, HandlersKept
  <2>3. ASSUME NEW rest, Becomes(v, "reward", 2, rest, handler[v].answer) PROVE Handlers'
    BY <1>1, <1>2, <2>1, <2>3, HandlersKept
  <2>4. CASE Becomes(v, "closing", 0, {}, handler[v].answer)
    BY <1>1, <1>2, <2>1, <2>4, HandlersKept
  <2>5. QED BY <2>1, <2>2, <2>3, <2>4
<1>11. ASSUME NEW v \in Contributors, Penalise(v) PROVE Handlers'
  <2>1. /\ mode' = mode /\ handler[v].answer \in Given
        /\ Becomes(v, "closing", 0, {}, handler[v].answer)
    BY <1>11, PenaliseFacts
  <2>2. QED BY <1>1, <1>2, <2>1, HandlersKept
<1>12. CASE Land
  <2>1. PICK c \in Contributors :
          /\ mode' = mode /\ handler[c].answer \in Given
          /\ \/ Becomes(c, "reward", 2, handler[c].todo, handler[c].answer)
             \/ Becomes(c, "closing", 0, {}, handler[c].answer)
             \/ Becomes(c, "none", 0, {}, handler[c].answer)
    BY <1>12, LandFacts
  <2>2. CASE Becomes(c, "reward", 2, handler[c].todo, handler[c].answer)
    BY <1>1, <1>2, <2>1, <2>2, HandlersKept
  <2>3. CASE Becomes(c, "closing", 0, {}, handler[c].answer)
    BY <1>1, <1>2, <2>1, <2>3, HandlersKept
  <2>4. CASE Becomes(c, "none", 0, {}, handler[c].answer)
    BY <1>1, <1>2, <2>1, <2>4, HandlersKept
  <2>5. QED BY <2>1, <2>2, <2>3, <2>4
<1>13. CASE UNCHANGED vars
  BY <1>2, <1>13 DEF vars, Handlers
<1>14. QED BY <1>3, <1>4, <1>5, <1>6, <1>7, <1>8, <1>9, <1>10, <1>11, <1>12, <1>13
       DEF Next, Work

\* Until the submission is made, no step but reads changes anything.
LEMMA FreshInductive ==
    ASSUME CommunityAssumption, Sound, [Next]_vars, Fresh'
    PROVE  NothingYet'
<1>1. None \notin Given /\ {"submitted", "refused", "recorded", "verified", "rejected"} \subseteq Given
  BY DEF CommunityAssumption, Given
<1>2. Handlers /\ Submitter \in Contributors /\ (Fresh => NothingYet)
  BY DEF Sound, Contributors
<1>3. handler'[Submitter].job \in {"none", "submit"} /\ handler'[Submitter].answer = None
  BY DEF Fresh
<1>4. ASSUME NEW c \in Contributors, NEW job, Begins(c, job), job \in {"submit", "vote"}, NothingYet,
             UNCHANGED <<disk, mem, writes>>
      PROVE  NothingYet'
  BY <1>4 DEF Begins, NothingYet
<1>5. ASSUME NEW c \in Contributors, NEW job, NEW reads, NEW todo, NEW answer,
             Becomes(c, job, reads, todo, answer), c # Submitter
      PROVE  NothingYet
  BY <1>2, <1>3, <1>5 DEF Becomes, Fresh
<1>6. ASSUME NEW c \in Contributors, NEW job, NEW reads, NEW todo, NEW answer,
             Becomes(c, job, reads, todo, answer), job \in {"none", "submit", "vote"},
             NothingYet, mem' = Delivered(c), Ready(c), UNCHANGED <<disk, writes>>
      PROVE  NothingYet'
  BY <1>6 DEF Becomes, NothingYet, Delivered, Ready
<1>7. CASE Submit
  <2>1. Begins(Submitter, "submit") /\ handler[Submitter].answer = None
    BY <1>2, <1>7, Begun DEF Submit
  <2>2. NothingYet
    BY <1>2, <2>1 DEF Begins, Fresh
  <2>3. QED BY <1>2, <1>4, <1>7, <2>1, <2>2 DEF Submit
<1>8. ASSUME NEW v \in Contributors, Vote(v) PROVE NothingYet'
  <2>1. Begins(v, "vote")
    BY <1>2, <1>8, Begun DEF Vote
  <2>2. v # Submitter
    BY <1>3, <2>1 DEF Begins
  <2>3. NothingYet
    BY <1>2, <1>3, <2>1, <2>2 DEF Begins, Fresh
  <2>4. QED BY <1>4, <1>8, <2>1, <2>3 DEF Vote
<1>9. ASSUME NEW c \in Contributors, Fetch(c) PROVE NothingYet'
  <2>1. /\ \A d \in Contributors : d # c => handler'[d] = handler[d]
        /\ handler'[c].job = handler[c].job /\ handler'[c].answer = handler[c].answer
        /\ handler'[c].copy = disk /\ disk' = disk /\ mem' = mem /\ writes' = writes
    BY <1>9, FetchFacts
  <2>2. NothingYet
    BY <1>2, <1>3, <2>1 DEF Fresh
  <2>3. QED BY <2>1, <2>2 DEF NothingYet
<1>10. ASSUME NEW c \in Contributors, Deliver(c) PROVE NothingYet'
  <2>1. /\ Becomes(c, handler[c].job, handler[c].reads - 1, handler[c].todo, handler[c].answer)
        /\ disk' = disk /\ mem' = Delivered(c) /\ writes' = writes /\ Ready(c)
    BY <1>10, DeliverFacts
  <2>2. NothingYet
    BY <1>2, <1>3, <2>1 DEF Fresh, Becomes
  <2>3. handler[c].job \in {"none", "submit", "vote"}
    BY <2>2 DEF NothingYet
  <2>4. QED BY <1>6, <2>1, <2>2, <2>3
<1>11. CASE Push
  <2>1. Becomes(Submitter, "closing", 0, {}, "submitted")
    BY <1>11, PushFacts
  <2>2. QED BY <1>3, <2>1 DEF Becomes
<1>12. ASSUME NEW v \in Contributors, Refuse(v) PROVE NothingYet'
  <2>1. /\ Becomes(v, "none", 0, {}, "refused") /\ Ready(v)
        /\ disk' = disk /\ mem' = Delivered(v) /\ writes' = writes
    BY <1>12, RefuseFacts
  <2>2. v # Submitter
    BY <1>1, <1>3, <2>1 DEF Becomes
  <2>3. NothingYet
    BY <1>5, <2>1, <2>2
  <2>4. QED BY <1>6, <2>1, <2>3
<1>13. ASSUME NEW v \in Contributors, Cast(v) PROVE FALSE
  <2>1. /\ MayVote(Delivered(v), v) /\ Ready(v)
        /\ \/ \E todo \in SUBSET Contributors : Becomes(v, "reward", 2, todo, "verified")
           \/ \E todo \in SUBSET Contributors : Becomes(v, "penalty", 1, todo, "rejected")
           \/ Becomes(v, "closing", 0, {}, "recorded")
    BY <1>13, CastFacts
  <2>2. v # Submitter
    BY <2>1 DEF MayVote
  <2>3. NothingYet
    BY <1>5, <2>1, <2>2
  <2>4. Delivered(v) = NewDocument
    BY <2>1, <2>3 DEF NothingYet, Ready, Delivered
  <2>5. QED BY <2>1, <2>4, NewDocumentFine DEF MayVote
<1>14. ASSUME NEW v \in Contributors, NEW job, NEW reads, NEW todo,
              Becomes(v, job, reads, todo, handler[v].answer), handler[v].answer \in Given
       PROVE  NothingYet
  <2>1. v # Submitter
    BY <1>1, <1>3, <1>14 DEF Becomes
  <2>2. QED BY <1>5, <1>14, <2>1
<1>15. ASSUME NEW v \in Contributors, Reward(v) PROVE FALSE
  <2>1. /\ handler[v].answer \in Given /\ handler[v].job = "reward"
        /\ \E job, reads, rest : Becomes(v, job, reads, rest, handler[v].answer)
    BY <1>15, RewardFacts
  <2>2. NothingYet
    BY <1>14, <2>1
  <2>3. QED BY <2>1, <2>2 DEF NothingYet
<1>16. ASSUME NEW v \in Contributors, Penalise(v) PROVE FALSE
  <2>1. /\ handler[v].answer \in Given /\ handler[v].job = "penalty"
        /\ Becomes(v, "closing", 0, {}, handler[v].answer)
    BY <1>16, PenaliseFacts
  <2>2. NothingYet
    BY <1>14, <2>1
  <2>3. QED BY <2>1, <2>2 DEF NothingYet
<1>17. CASE Land
  <2>1. PICK c \in Contributors :
          /\ handler[c].answer \in Given /\ writes # <<>>
          /\ \E job, reads, todo : Becomes(c, job, reads, todo, handler[c].answer)
    BY <1>17, LandFacts
  <2>2. NothingYet
    BY <1>14, <2>1
  <2>3. QED BY <2>1, <2>2 DEF NothingYet
<1>18. CASE UNCHANGED vars
  BY <1>2, <1>3, <1>18 DEF vars, NothingYet, Fresh
<1>19. QED BY <1>7, <1>8, <1>9, <1>10, <1>11, <1>12, <1>13, <1>15, <1>16, <1>17, <1>18
       DEF Next, Work

\* The operations on documents lead from fine ones to fine ones, and keep a
\* vote that was cast.
LEMMA FineClosed ==
    ASSUME CommunityAssumption
    PROVE  /\ Closed(FineDocs)
           /\ \A v : Closed(Holding(v) \cap FineDocs)
<1>1. Closed(FineDocs)
  BY VotedFacts, RewardedFacts, PenalisedFacts, PushedFine DEF Closed
<1>2. ASSUME NEW v PROVE Closed(Holding(v) \cap FineDocs)
  <2> DEFINE D == Holding(v) \cap FineDocs
  <2>1. NewDocument \notin D
    BY NewDocumentFine DEF Holding
  <2>2. ASSUME NEW d \in D, NEW w \in Contributors, NEW ballot \in {"up", "down"}, MayVote(d, w)
        PROVE  Voted(d, w, ballot) \in D
    <3>1. /\ Voted(d, w, ballot) \in FineDocs /\ v \in d.up \cup d.down
          /\ d.up \cup d.down \subseteq Voted(d, w, ballot).up \cup Voted(d, w, ballot).down
      BY <2>2, VotedFacts DEF Holding
    <3>2. QED BY <3>1 DEF Holding, FineDocs
  <2>3. ASSUME NEW d \in D, NEW c \in Contributors PROVE Rewarded(d, c) \in D
    <3>1. /\ Rewarded(d, c) \in FineDocs /\ v \in d.up \cup d.down
          /\ Rewarded(d, c).up = d.up /\ Rewarded(d, c).down = d.down
      BY RewardedFacts DEF Holding
    <3>2. QED BY <3>1 DEF Holding, FineDocs
  <2>4. ASSUME NEW d \in D PROVE Penalised(d) \in D
    <3>1. /\ Penalised(d) \in FineDocs /\ v \in d.up \cup d.down
          /\ Penalised(d).up = d.up /\ Penalised(d).down = d.down
      BY PenalisedFacts DEF Holding
    <3>2. QED BY <3>1 DEF Holding, FineDocs
  <2>5. D \in SUBSET FineDocs
    OBVIOUS
  <2> HIDE DEF D
  <2>6. Closed(D)
    BY <2>1, <2>2, <2>3, <2>4, <2>5 DEF Closed
  <2>7. QED BY <2>6 DEF D
<1>3. QED BY <1>1, <1>2

\* At first there is nothing.
LEMMA SoundInit ==
    ASSUME CommunityAssumption, Init
    PROVE  Sound /\ NothingYet
<1>1. /\ mode \in Modes /\ disk = NewDocument /\ mem = NewDocument /\ writes = <<>>
      /\ handler = [c \in Contributors |-> Idle] /\ NewDocument \in FineDocs
  BY NewDocumentFine DEF Init
<1>2. /\ Idle \in HandlerState /\ Idle.job = "none" /\ Idle.reads = 0 /\ Idle.copy = None
  BY DEF Idle, HandlerState, Jobs
<1>3. Handlers
  BY <1>1, <1>2 DEF Handlers, GoodHandler
<1>4. AllIn(FineDocs)
  BY <1>1, <1>2 DEF AllIn
<1>5. NothingYet
  BY <1>1, <1>2 DEF NothingYet
<1>6. QED BY <1>3, <1>4, <1>5 DEF Sound

\* Every step keeps handlers and documents sound.
LEMMA SoundInductive ==
    ASSUME CommunityAssumption, Sound, [Next]_vars
    PROVE  Sound'
<1>1. Handlers'
  BY HandlersInductive
<1>2. AllIn(FineDocs)
  BY DEF Sound
<1>3. AllIn(FineDocs)'
  BY <1>2, VersionsKept, FineClosed
<1>4. Fresh' => NothingYet'
  BY FreshInductive
<1>5. QED BY <1>1, <1>3, <1>4 DEF Sound

\* Every version is sound in what AllIn says of it.
LEMMA VersionsIn ==
    ASSUME NEW D, AllIn(D)
    PROVE  Versions \subseteq D
<1>1. ASSUME NEW i \in DOMAIN writes PROVE writes[i][2] \in D
  <2>1. writes \in Seq(Contributors \X D)
    BY DEF AllIn
  <2>2. writes[i] \in Contributors \X D
    BY <2>1
  <2>3. QED BY <2>2
<1>2. QED BY <1>1 DEF AllIn, Versions

\* Whatever handlers overlap and however stale the documents they work on, no
\* version of the document holds a verdict its votes do not carry, or two votes of
\* one voter, or a price published twice (voteOnSubmission, createPendingSubmission).
THEOREM VerdictsCarried ==
    ASSUME CommunityAssumption
    PROVE  Spec => []VerdictsFollowVotes
<1>1. Init => Sound
  BY SoundInit
<1>2. Sound /\ [Next]_vars => Sound'
  BY SoundInductive
<1>3. Sound => VerdictsFollowVotes
  <2>1. ASSUME Sound, NEW d \in Versions PROVE d \in FineDocs
    BY <2>1, VersionsIn DEF Sound
  <2>2. QED BY <2>1 DEF FineDocs, VerdictsFollowVotes
<1>4. QED BY <1>1, <1>2, <1>3, PTL DEF Spec

-----------------------------------------------------------------------------
(* Types.                                                                  *)

Calls == started \in 0..MaxVotes

\* Every variable has its type.
THEOREM CommunityTypeCorrect ==
    ASSUME CommunityAssumption
    PROVE  Spec => []TypeOK
<1>1. Init => Sound /\ Calls
  BY SoundInit DEF CommunityAssumption, Calls, Init
<1>2. Sound /\ Calls /\ [Next]_vars => Sound' /\ Calls'
  <2> SUFFICES ASSUME Sound, Calls, [Next]_vars PROVE Calls'
    BY SoundInductive
  <2>1. MaxVotes \in Nat
    BY DEF CommunityAssumption
  <2>2. ASSUME NEW v \in Contributors, Vote(v) PROVE Calls'
    BY <2>1, <2>2 DEF Vote, Calls
  <2>3. CASE UNCHANGED started
    BY <2>3 DEF Calls
  <2>4. (\A v \in Contributors : ~Vote(v)) => UNCHANGED started
    BY DEF Next, Work, Submit, Push, Fetch, Deliver, Refuse, Cast, Reward, Penalise, Land, vars
  <2>5. QED BY <2>2, <2>3, <2>4
<1>3. Sound /\ Calls => TypeOK
  <2> SUFFICES ASSUME Sound, Calls PROVE TypeOK
    OBVIOUS
  <2>1. mode \in Modes /\ disk \in Document /\ mem \in Document /\ started \in 0..MaxVotes
    BY DEF Sound, Handlers, AllIn, FineDocs, Calls
  <2>2. writes \in Seq(Contributors \X Document)
    <3>1. writes \in Seq(Contributors \X FineDocs) /\ FineDocs \subseteq Document
      BY DEF Sound, AllIn, FineDocs
    <3>2. Contributors \X FineDocs \subseteq Contributors \X Document
      BY <3>1
    <3>3. QED BY <3>1, <3>2
  <2>3. ASSUME NEW c \in Contributors
        PROVE  LET h == handler[c] IN
               /\ h.job \in {"none", "submit", "vote", "reward", "penalty", "rewarding", "closing"}
               /\ h.reads \in 0..2 /\ h.copy \in Document \cup {None}
               /\ h.ballot \in {"up", "down", None} /\ h.todo \subseteq Contributors
               /\ h.alone \in BOOLEAN
               /\ h.answer \in {"submitted", "refused", "recorded", "verified", "rejected", None}
    <3>1. handler[c] \in HandlerState
      BY DEF Sound, Handlers
    <3>2. QED BY <3>1 DEF HandlerState, Jobs, Given
  <2>4. QED BY <2>1, <2>2, <2>3 DEF TypeOK
<1>4. QED BY <1>1, <1>2, <1>3, PTL DEF Spec

-----------------------------------------------------------------------------
(* Recorded votes.                                                         *)

\* The writes under way belong to different handlers, which await them, and the
\* write of a handler that recorded a vote holds it.
Owned(q, h) ==
    /\ q \in Seq(Contributors \X FineDocs)
    /\ \A i \in DOMAIN q :
         /\ h[q[i][1]].job \in {"rewarding", "closing"}
         /\ h[q[i][1]].job = "closing" /\ h[q[i][1]].answer = "recorded"
              => q[i][2] \in Holding(q[i][1])
    /\ \A i, j \in DOMAIN q : q[i][1] = q[j][1] => i = j

\* A handler that no other one overlaps is the only one under way.
AloneIsAlone ==
    \A c, d \in Contributors :
        handler[c].job # "none" /\ handler[c].alone /\ d # c => handler[d].job = "none"

\* A vote that decides is not answered as a recorded one.
Deciding ==
    \A c \in Contributors :
        handler[c].job \in {"reward", "penalty", "rewarding"} => handler[c].answer # "recorded"

\* The call of v wrote its vote, and its answer is, or will be, that it did.
Wrote(v) == handler[v].job \in {"none", "closing"} /\ handler[v].answer = "recorded"

Recorded ==
    \A v \in Contributors :
        Wrote(v) =>
            /\ mode = "cloud" \/ (handler[v].alone /\ handler[v].job = "closing")
                 => mem \in Holding(v)
            /\ handler[v].alone /\ handler[v].job = "none" => AllIn(Holding(v))

Kept == Sound /\ Owned(writes, handler) /\ AloneIsAlone /\ Deciding /\ Recorded

\* What becomes of the others does not concern the writes.
LEMMA OwnedSame ==
    ASSUME NEW q, NEW h, NEW g, Owned(q, h),
           \A i \in DOMAIN q : /\ g[q[i][1]].job = h[q[i][1]].job
                               /\ g[q[i][1]].answer = h[q[i][1]].answer
    PROVE  Owned(q, g)
BY DEF Owned

\* The writes behind the oldest one are of other handlers.
LEMMA OwnedTail ==
    ASSUME NEW q, NEW h, Owned(q, h), q # <<>>
    PROVE  /\ Owned(Tail(q), h)
           /\ \A i \in DOMAIN Tail(q) : Tail(q)[i][1] # q[1][1]
           /\ q[1] \in Contributors \X FineDocs
           /\ h[q[1][1]].job = "closing" /\ h[q[1][1]].answer = "recorded"
                => q[1][2] \in Holding(q[1][1])
<1>1. /\ q \in Seq(Contributors \X FineDocs) /\ Len(q) >= 1 /\ DOMAIN q = 1..Len(q)
      /\ Tail(q) \in Seq(Contributors \X FineDocs) /\ DOMAIN Tail(q) = 1..(Len(q) - 1)
      /\ \A i \in 1..(Len(q) - 1) : Tail(q)[i] = q[i + 1] /\ i + 1 \in DOMAIN q /\ i + 1 # 1
      /\ 1 \in DOMAIN q
  BY DEF Owned
<1>2. ASSUME NEW i \in DOMAIN Tail(q)
      PROVE  /\ h[Tail(q)[i][1]].job \in {"rewarding", "closing"}
             /\ h[Tail(q)[i][1]].job = "closing" /\ h[Tail(q)[i][1]].answer = "recorded"
                  => Tail(q)[i][2] \in Holding(Tail(q)[i][1])
             /\ Tail(q)[i][1] # q[1][1]
  <2>1. Tail(q)[i] = q[i + 1] /\ i + 1 \in DOMAIN q /\ i + 1 # 1
    BY <1>1
  <2>2. /\ h[q[i + 1][1]].job \in {"rewarding", "closing"}
        /\ h[q[i + 1][1]].job = "closing" /\ h[q[i + 1][1]].answer = "recorded"
             => q[i + 1][2] \in Holding(q[i + 1][1])
        /\ q[i + 1][1] # q[1][1]
    BY <1>1, <2>1 DEF Owned
  <2>3. QED BY <2>1, <2>2
<1>3. ASSUME NEW i \in DOMAIN Tail(q), NEW j \in DOMAIN Tail(q), Tail(q)[i][1] = Tail(q)[j][1]
      PROVE  i = j
  <2>1. /\ Tail(q)[i] = q[i + 1] /\ i + 1 \in DOMAIN q /\ i \in Int
        /\ Tail(q)[j] = q[j + 1] /\ j + 1 \in DOMAIN q /\ j \in Int
    BY <1>1
  <2>2. i + 1 = j + 1
    BY <1>3, <2>1 DEF Owned
  <2>3. QED BY <2>1, <2>2
<1>4. Owned(Tail(q), h)
  BY <1>1, <1>2, <1>3 DEF Owned
<1>5. QED BY <1>1, <1>2, <1>4 DEF Owned

\* A handler with no write under way may add one.
LEMMA OwnedAppend ==
    ASSUME NEW q, NEW h, Owned(q, h), NEW c \in Contributors, NEW doc \in FineDocs,
           \A i \in DOMAIN q : q[i][1] # c, h[c].job \in {"rewarding", "closing"},
           h[c].job = "closing" /\ h[c].answer = "recorded" => doc \in Holding(c)
    PROVE  Owned(Append(q, <<c, doc>>), h)
<1> DEFINE r == Append(q, <<c, doc>>)
           n == Len(q)
<1>1. /\ q \in Seq(Contributors \X FineDocs) /\ n \in Nat /\ DOMAIN q = 1..n
      /\ r \in Seq(Contributors \X FineDocs) /\ DOMAIN r = 1..(n + 1)
      /\ \A i \in 1..n : r[i] = q[i]
      /\ r[n + 1] = <<c, doc>>
  BY DEF Owned
<1> HIDE DEF r, n
<1>2. ASSUME NEW i \in DOMAIN r
      PROVE  /\ h[r[i][1]].job \in {"rewarding", "closing"}
             /\ h[r[i][1]].job = "closing" /\ h[r[i][1]].answer = "recorded"
                  => r[i][2] \in Holding(r[i][1])
  <2>1. CASE i \in 1..n
    <3>1. r[i] = q[i] /\ i \in DOMAIN q
      BY <1>1, <2>1
    <3>2. QED BY <3>1 DEF Owned
  <2>2. CASE i = n + 1
    <3>1. r[i][1] = c /\ r[i][2] = doc
      BY <1>1, <2>2
    <3>2. QED BY <3>1
  <2>3. QED BY <1>1, <2>1, <2>2
<1>3. ASSUME NEW i \in DOMAIN r, NEW j \in DOMAIN r, r[i][1] = r[j][1]
      PROVE  i = j
  <2>1. CASE i \in 1..n /\ j \in 1..n
    <3>1. r[i] = q[i] /\ r[j] = q[j] /\ i \in DOMAIN q /\ j \in DOMAIN q
      BY <1>1, <2>1
    <3>2. QED BY <1>3, <3>1 DEF Owned
  <2>2. CASE i = n + 1 /\ j \in 1..n
    <3>1. r[i][1] = c /\ r[j] = q[j] /\ j \in DOMAIN q
      BY <1>1, <2>2
    <3>2. QED BY <1>3, <3>1
  <2>3. CASE j = n + 1 /\ i \in 1..n
    <3>1. r[j][1] = c /\ r[i] = q[i] /\ i \in DOMAIN q
      BY <1>1, <2>3
    <3>2. QED BY <1>3, <3>1
  <2>4. QED BY <1>1, <2>1, <2>2, <2>3
<1>4. QED BY <1>1, <1>2, <1>3 DEF Owned, r

\* When a handler with no write under way goes on, the writes are as before.
LEMMA OwnedMove ==
    ASSUME NEW c \in Contributors, NEW job, NEW reads, NEW todo, NEW answer,
           Becomes(c, job, reads, todo, answer), NEW q, Owned(q, handler),
           \A i \in DOMAIN q : q[i][1] # c
    PROVE  Owned(q, handler')
<1>1. ASSUME NEW i \in DOMAIN q PROVE handler'[q[i][1]] = handler[q[i][1]]
  <2>1. q[i] \in Contributors \X FineDocs
    BY DEF Owned
  <2>2. QED BY <2>1 DEF Becomes
<1>2. QED BY <1>1, OwnedSame

\* A handler that goes on from a read has none, and may write.
LEMMA OwnedTurn ==
    ASSUME Owned(writes, handler), NEW c \in Contributors, handler[c].job \notin {"rewarding", "closing"},
           NEW job, NEW reads, NEW todo, NEW answer, Becomes(c, job, reads, todo, answer)
    PROVE  /\ writes' = writes => Owned(writes, handler)'
           /\ /\ writes' = Append(writes, <<c, mem'>>) /\ mem' \in FineDocs
              /\ job \in {"rewarding", "closing"}
              /\ job = "closing" /\ answer = "recorded" => mem' \in Holding(c)
              => Owned(writes, handler)'
<1>1. \A i \in DOMAIN writes : writes[i][1] # c
  BY DEF Owned
<1>2. Owned(writes, handler')
  BY <1>1, OwnedMove
<1>3. ASSUME writes' = writes PROVE Owned(writes', handler')
  BY <1>2, <1>3
<1>4. ASSUME writes' = Append(writes, <<c, mem'>>), mem' \in FineDocs, job \in {"rewarding", "closing"},
             job = "closing" /\ answer = "recorded" => mem' \in Holding(c)
      PROVE  Owned(writes', handler')
  <2>1. handler'[c].job = job /\ handler'[c].answer = answer
    BY DEF Becomes
  <2>2. Owned(Append(writes, <<c, mem'>>), handler')
    BY <1>1, <1>2, <1>4, <2>1, OwnedAppend
  <2>3. QED BY <1>4, <2>2
<1>5. QED BY <1>3, <1>4

\* c's handler runs from the delivery of a read up to its next await.
Turn(c) ==
    /\ handler[c].job \in {"submit", "vote", "reward", "penalty"}
    /\ mode' = mode /\ disk' = disk /\ mem' \in FineDocs
    /\ \E job, reads, todo, answer :
         /\ Becomes(c, job, reads, todo, answer)
         /\ job \in {"none", "closing"} /\ answer = "recorded" => job = "closing" /\ mem' \in Holding(c)
         /\ job \in {"reward", "penalty", "rewarding"} => answer # "recorded"
         /\ \/ writes' = writes
            \/ writes' = Append(writes, <<c, mem'>>) /\ job \in {"rewarding", "closing"}

\* c's write, the oldest one, lands.
Landing(c) ==
    /\ writes # <<>> /\ writes[1][1] = c /\ disk' = writes[1][2]
    /\ mode' = mode /\ mem' = mem
    /\ \/ /\ handler[c].job = "rewarding"
          /\ Becomes(c, "reward", 2, handler[c].todo, handler[c].answer)
          /\ writes' = Tail(writes)
       \/ /\ handler[c].job = "rewarding"
          /\ Becomes(c, "closing", 0, {}, handler[c].answer)
          /\ writes' = Append(Tail(writes), <<c, mem>>)
       \/ /\ handler[c].job = "closing"
          /\ Becomes(c, "none", 0, {}, handler[c].answer)
          /\ writes' = Tail(writes)

Beginning(c) ==
    /\ \E job \in {"submit", "vote"} : Begins(c, job)
    /\ mode' = mode /\ disk' = disk /\ mem' = mem /\ writes' = writes

\* The kinds of steps there are.
LEMMA StepKinds ==
    ASSUME CommunityAssumption, Sound, Deciding, Next
    PROVE  \E c \in Contributors : Beginning(c) \/ Fetch(c) \/ Turn(c) \/ Landing(c)
<1>1. Handlers /\ Submitter \in Contributors /\ mem' \in FineDocs
  <2>1. Sound'
    BY SoundInductive
  <2>2. QED BY <2>1 DEF Sound, AllIn, Contributors
<1>2. CASE Submit
  <2>1. Begins(Submitter, "submit")
    BY <1>1, <1>2, Begun DEF Submit
  <2>2. QED BY <1>1, <1>2, <2>1 DEF Submit, Beginning
<1>3. ASSUME NEW v \in Contributors, Vote(v) PROVE Beginning(v)
  <2>1. Begins(v, "vote")
    BY <1>1, <1>3, Begun DEF Vote
  <2>2. QED BY <1>3, <2>1 DEF Vote, Beginning
<1>4. ASSUME NEW c \in Contributors, Deliver(c) PROVE Turn(c)
  <2>1. /\ Becomes(c, handler[c].job, handler[c].reads - 1, handler[c].todo, handler[c].answer)
        /\ mode' = mode /\ disk' = disk /\ writes' = writes /\ handler[c].reads > 1
    BY <1>4, DeliverFacts
  <2>2. handler[c] \in HandlerState /\ GoodHandler(c, handler[c])
    BY <1>1 DEF Handlers
  <2>3. handler[c].job \in {"submit", "vote", "reward", "penalty"}
    BY <2>1, <2>2 DEF GoodHandler, HandlerState, Jobs
  <2>4. handler[c].job \in {"reward", "penalty", "rewarding"} => handler[c].answer # "recorded"
    BY DEF Deciding
  <2>5. QED BY <1>1, <2>1, <2>3, <2>4 DEF Turn
<1>5. CASE Push
  <2>1. /\ handler[Submitter].job = "submit"
        /\ Becomes(Submitter, "closing", 0, {}, "submitted")
        /\ mode' = mode /\ disk' = disk /\ writes' = Append(writes, <<Submitter, mem'>>)
    BY <1>5, PushFacts
  <2>2. Turn(Submitter)
    BY <1>1, <2>1 DEF Turn
  <2>3. QED BY <1>1, <2>2
<1>6. ASSUME NEW v \in Contributors, Refuse(v) PROVE Turn(v)
  <2>1. /\ handler[v].job = "vote" /\ Becomes(v, "none", 0, {}, "refused")
        /\ mode' = mode /\ disk' = disk /\ writes' = writes
    BY <1>6, RefuseFacts
  <2>2. QED BY <1>1, <2>1 DEF Turn
<1>7. ASSUME NEW v \in Contributors, Cast(v) PROVE Turn(v)
  <2>1. /\ handler[v].job = "vote" /\ Ready(v) /\ MayVote(Delivered(v), v)
        /\ \E ballot : mem' = Voted(Delivered(v), v, ballot)
        /\ mode' = mode /\ disk' = disk
        /\ \/ Becomes(v, "closing", 0, {}, "recorded") /\ writes' = Append(writes, <<v, mem'>>)
           \/ /\ \E todo \in SUBSET Contributors : Becomes(v, "reward", 2, todo, "verified")
              /\ writes' = writes
           \/ /\ \E todo \in SUBSET Contributors : Becomes(v, "penalty", 1, todo, "rejected")
              /\ writes' = writes
    BY <1>7, CastFacts
  <2>2. Delivered(v) \in FineDocs
    BY <2>1, DeliveredIn DEF Sound
  <2>3. mem' \in Holding(v)
    BY <2>1, <2>2, VotedFacts
  <2>4. CASE Becomes(v, "closing", 0, {}, "recorded") /\ writes' = Append(writes, <<v, mem'>>)
    BY <1>1, <2>1, <2>3, <2>4 DEF Turn
  <2>5. CASE /\ \E todo \in SUBSET Contributors : Becomes(v, "reward", 2, todo, "verified")
             /\ writes' = writes
    BY <1>1, <2>1, <2>5 DEF Turn
  <2>6. CASE /\ \E todo \in SUBSET Contributors : Becomes(v, "penalty", 1, todo, "rejected")
             /\ writes' = writes
    BY <1>1, <2>1, <2>6 DEF Turn
  <2>7. QED BY <2>1, <2>4, <2>5, <2>6
<1>8. ASSUME NEW v \in Contributors, Reward(v) PROVE Turn(v)
  <2>1. /\ handler[v].job = "reward" /\ mode' = mode /\ disk' = disk
        /\ \E rest : \/ /\ Becomes(v, "rewarding", 0, rest, handler[v].answer)
                        /\ writes' = Append(writes, <<v, mem'>>)
                     \/ /\ Becomes(v, "reward", 2, rest, handler[v].answer)
                        /\ writes' = writes
                     \/ /\ Becomes(v, "closing", 0, {}, handler[v].answer)
                        /\ writes' = Append(writes, <<v, mem'>>)
    BY <1>8, RewardFacts
  <2>2. handler[v].answer # "recorded"
    BY <2>1 DEF Deciding
  <2>3. QED BY <1>1, <2>1, <2>2 DEF Turn
<1>9. ASSUME NEW v \in Contributors, Penalise(v) PROVE Turn(v)
  <2>1. /\ handler[v].job = "penalty" /\ mode' = mode /\ disk' = disk
        /\ Becomes(v, "closing", 0, {}, handler[v].answer)
        /\ writes' = Append(writes, <<v, mem'>>)
    BY <1>9, PenaliseFacts
  <2>2. handler[v].answer # "recorded"
    BY <2>1 DEF Deciding
  <2>3. QED BY <1>1, <2>1, <2>2 DEF Turn
<1>10. CASE Land
  BY <1>10, LandFacts DEF Landing
<1>11. QED BY <1>2, <1>3, <1>4, <1>5, <1>6, <1>7, <1>8, <1>9, <1>10 DEF Next, Work

\* Each handler still awaits at most one write.
LEMMA OwnedInductive ==
    ASSUME CommunityAssumption, Kept, Next
    PROVE  Owned(writes, handler)'
<1>1. Sound /\ Deciding /\ Owned(writes, handler)
  BY DEF Kept
<1>2. PICK c \in Contributors : Beginning(c) \/ Fetch(c) \/ Turn(c) \/ Landing(c)
  BY <1>1, StepKinds
<1>3. ASSUME NEW i \in DOMAIN writes PROVE writes[i][1] \in Contributors
  <2>1. writes[i] \in Contributors \X FineDocs
    BY <1>1 DEF Owned
  <2>2. QED BY <2>1
<1>4. CASE Beginning(c)
  <2>1. \A i \in DOMAIN writes : writes[i][1] # c
    BY <1>1, <1>4 DEF Beginning, Begins, Owned
  <2>2. Owned(writes, handler')
    BY <1>1, <1>3, <1>4, <2>1, OwnedSame DEF Beginning, Begins
  <2>3. QED BY <1>4, <2>2 DEF Beginning
<1>5. CASE Fetch(c)
  <2>1. /\ \A d \in Contributors : d # c => handler'[d] = handler[d]
        /\ handler'[c].job = handler[c].job /\ handler'[c].answer = handler[c].answer
        /\ writes' = writes
    BY <1>1, <1>5, FetchFacts
  <2>2. Owned(writes, handler')
    BY <1>1, <1>3, <2>1, OwnedSame
  <2>3. QED BY <2>1, <2>2
<1>6. CASE Turn(c)
  <2>1. PICK job, reads, todo, answer :
          /\ Becomes(c, job, reads, todo, answer)
          /\ job \in {"none", "closing"} /\ answer = "recorded" => job = "closing" /\ mem' \in Holding(c)
          /\ \/ writes' = writes
             \/ writes' = Append(writes, <<c, mem'>>) /\ job \in {"rewarding", "closing"}
    BY <1>6 DEF Turn
  <2>2. handler[c].job \notin {"rewarding", "closing"} /\ mem' \in FineDocs
    BY <1>6 DEF Turn
  <2>3. QED BY <1>1, <2>1, <2>2, OwnedTurn
<1>7. CASE Landing(c)
  <2>1. writes # <<>> /\ writes[1][1] = c
    BY <1>7 DEF Landing
  <2>2. Owned(Tail(writes), handler) /\ \A i \in DOMAIN Tail(writes) : Tail(writes)[i][1] # c
    BY <1>1, <2>1, OwnedTail
  <2>3. \E job, reads, todo : Becomes(c, job, reads, todo, handler[c].answer)
    BY <1>7 DEF Landing
  <2>4. Owned(Tail(writes), handler')
    BY <2>2, <2>3, OwnedMove
  <2>5. CASE writes' = Tail(writes)
    BY <2>4, <2>5
  <2>6. CASE /\ handler[c].job = "rewarding" /\ Becomes(c, "closing", 0, {}, handler[c].answer)
             /\ writes' = Append(Tail(writes), <<c, mem>>)
    <3>1. handler'[c].job = "closing" /\ handler'[c].answer = handler[c].answer
      BY <2>6 DEF Becomes
    <3>2. handler'[c].answer # "recorded" /\ mem \in FineDocs
      BY <1>1, <2>6, <3>1 DEF Deciding, Sound, AllIn
    <3>3. PICK q : q = Tail(writes)
      OBVIOUS
    <3>4. PICK doc \in FineDocs : doc = mem
      BY <3>2
    <3>5. \A i \in DOMAIN q : q[i][1] # c
      BY <2>2, <3>3
    <3>6. Owned(q, handler')
      BY <2>4, <3>3
    <3>7. Owned(Append(q, <<c, doc>>), handler')
      BY <3>1, <3>2, <3>5, <3>6, OwnedAppend
    <3>8. writes' = Append(q, <<c, doc>>)
      BY <2>6, <3>3, <3>4
    <3>9. QED BY <3>7, <3>8
  <2>7. QED BY <1>7, <2>5, <2>6 DEF Landing
<1>8. QED BY <1>2, <1>4, <1>5, <1>6, <1>7

\* A handler that goes on was under way.
LEMMA Moves ==
    ASSUME NEW c \in Contributors, Turn(c) \/ Landing(c)
    PROVE  /\ handler[c].job # "none" /\ mode' = mode
           /\ \E job, reads, todo, answer : Becomes(c, job, reads, todo, answer)
BY DEF Turn, Landing

\* A handler that is alone is so until another one begins.
LEMMA AloneInductive ==
    ASSUME CommunityAssumption, Kept, Next
    PROVE  AloneIsAlone'
<1>1. Sound /\ Deciding /\ AloneIsAlone
  BY DEF Kept
<1>2. PICK c \in Contributors : Beginning(c) \/ Fetch(c) \/ Turn(c) \/ Landing(c)
  BY <1>1, StepKinds
<1>3. CASE Beginning(c)
  BY <1>1, <1>3 DEF AloneIsAlone, Beginning, Begins
<1>4. CASE Fetch(c)
  <2>1. /\ \A d \in Contributors : d # c => handler'[d] = handler[d]
        /\ handler'[c].job = handler[c].job /\ handler'[c].alone = handler[c].alone
    BY <1>1, <1>4, FetchFacts
  <2>2. \A d \in Contributors : /\ handler'[d].job = handler[d].job
                                /\ handler'[d].alone = handler[d].alone
    BY <2>1
  <2>3. QED BY <1>1, <2>2 DEF AloneIsAlone
<1>5. CASE Turn(c) \/ Landing(c)
  <2>1. /\ handler[c].job # "none"
        /\ \A d \in Contributors : d # c => handler'[d] = handler[d]
        /\ handler'[c].alone = handler[c].alone
    BY <1>5, Moves DEF Becomes
  <2>2. QED BY <1>1, <2>1 DEF AloneIsAlone
<1>6. QED BY <1>2, <1>3, <1>4, <1>5

\* A vote that decides keeps its answer.
LEMMA DecidingInductive ==
    ASSUME CommunityAssumption, Kept, Next
    PROVE  Deciding'
<1>1. Sound /\ Deciding
  BY DEF Kept
<1>2. PICK c \in Contributors : Beginning(c) \/ Fetch(c) \/ Turn(c) \/ Landing(c)
  BY <1>1, StepKinds
<1>3. CASE Beginning(c)
  BY <1>1, <1>3 DEF Deciding, Beginning, Begins
<1>4. CASE Fetch(c)
  <2>1. \A d \in Contributors : /\ handler'[d].job = handler[d].job
                                /\ handler'[d].answer = handler[d].answer
    BY <1>1, <1>4, FetchFacts
  <2>2. QED BY <1>1, <2>1 DEF Deciding
<1>5. CASE Turn(c)
  BY <1>1, <1>5 DEF Turn, Becomes, Deciding
<1>6. CASE Landing(c)
  BY <1>1, <1>6 DEF Landing, Becomes, Deciding
<1>7. QED BY <1>2, <1>3, <1>4, <1>5, <1>6

\* A vote of v that is written was written before, or is written by this step.
LEMMA WrittenBefore ==
    ASSUME CommunityAssumption, Kept, Next, NEW v \in Contributors, Wrote(v)'
    PROVE  \/ Wrote(v) /\ (handler'[v].alone => handler[v].alone)
           \/ mem' \in Holding(v) /\ handler'[v].job = "closing"
<1>1. Sound /\ Deciding
  BY DEF Kept
<1>2. None # "recorded"
  BY DEF CommunityAssumption
<1>3. handler'[v].job \in {"none", "closing"} /\ handler'[v].answer = "recorded"
  BY DEF Wrote
<1>4. PICK c \in Contributors : Beginning(c) \/ Fetch(c) \/ Turn(c) \/ Landing(c)
  BY <1>1, StepKinds
<1>5. CASE Beginning(c)
  BY <1>2, <1>3, <1>5 DEF Beginning, Begins, Wrote
<1>6. CASE Fetch(c)
  <2>1. \A d \in Contributors : /\ handler'[d].job = handler[d].job
                                /\ handler'[d].answer = handler[d].answer
                                /\ handler'[d].alone = handler[d].alone
    BY <1>1, <1>6, FetchFacts
  <2>2. QED BY <1>3, <2>1 DEF Wrote
<1>7. CASE Turn(c)
  BY <1>3, <1>7 DEF Turn, Becomes, Wrote
<1>8. CASE Landing(c)
  BY <1>1, <1>3, <1>8 DEF Landing, Becomes, Wrote, Deciding
<1>9. QED BY <1>4, <1>5, <1>6, <1>7, <1>8

\* In the cloud every handler works on the one document there is.
LEMMA CloudKept ==
    ASSUME CommunityAssumption, Sound, Next, NEW D, Closed(D), mem \in D, mode = "cloud"
    PROVE  mem' \in D
<1>1. \A c \in Contributors : Delivered(c) = mem
  BY DEF Delivered
<1>2. CASE Submit \/ Land \/ \E c \in Contributors : Vote(c) \/ Fetch(c)
  BY <1>2 DEF Submit, Land, Vote, Fetch
<1>3. ASSUME NEW c \in Contributors, Deliver(c) \/ Refuse(c) PROVE mem' \in D
  BY <1>1, <1>3 DEF Deliver, Refuse
<1>4. CASE Push
  <2>1. NothingYet /\ \E auto \in BOOLEAN : mem' = Pushed(NewDocument, auto)
    BY <1>4, PushFacts
  <2>2. QED BY <2>1 DEF NothingYet, Closed
<1>5. ASSUME NEW v \in Contributors, Cast(v) PROVE mem' \in D
  <2>1. MayVote(mem, v) /\ \E ballot : mem' = Voted(mem, v, ballot)
    BY <1>1, <1>5, CastFacts
  <2>2. PICK b \in {"up", "down"} : mem' = Voted(mem, v, b)
    BY <2>1, BallotKinds
  <2>3. QED BY <2>1, <2>2 DEF Closed
<1>6. ASSUME NEW v \in Contributors, Reward(v) PROVE mem' \in D
  <2>1. \E c \in Contributors : mem' \in {Rewarded(mem, c), mem}
    BY <1>1, <1>6, RewardFacts
  <2>2. QED BY <2>1 DEF Closed
<1>7. ASSUME NEW v \in Contributors, Penalise(v) PROVE mem' \in D
  <2>1. mem' = Penalised(mem)
    BY <1>1, <1>7, PenaliseFacts
  <2>2. QED BY <2>1 DEF Closed
<1>8. QED BY <1>2, <1>3, <1>4, <1>5, <1>6, <1>7 DEF Next, Work

\* While a handler that is alone awaits its write, no other one works.
LEMMA AloneWaits ==
    ASSUME CommunityAssumption, Kept, Next, NEW v \in Contributors,
           handler[v].job = "closing", handler[v].alone, handler'[v].alone
    PROVE  /\ mem' = mem
           /\ handler'[v].job = "closing" \/ Landing(v)
           /\ \A d \in Contributors : d # v => handler'[d].job = "none"
<1>1. Sound /\ Deciding /\ \A d \in Contributors : d # v => handler[d].job = "none"
  BY DEF Kept, AloneIsAlone
<1>2. PICK c \in Contributors : Beginning(c) \/ Fetch(c) \/ Turn(c) \/ Landing(c)
  BY <1>1, StepKinds
<1>3. CASE Beginning(c)
  BY <1>3 DEF Beginning, Begins
<1>4. CASE Fetch(c)
  <2>1. /\ \A d \in Contributors : handler'[d].job = handler[d].job
        /\ mem' = mem
    BY <1>1, <1>4, FetchFacts
  <2>2. QED BY <1>1, <2>1
<1>5. CASE Turn(c)
  BY <1>1, <1>5 DEF Turn
<1>6. CASE Landing(c)
  <2>1. c = v
    BY <1>1, <1>6, Moves
  <2>2. \A d \in Contributors : d # v => handler'[d] = handler[d]
    BY <1>6, <2>1, Moves DEF Becomes
  <2>3. mem' = mem
    BY <1>6 DEF Landing
  <2>4. QED BY <1>1, <1>6, <2>1, <2>2, <2>3
<1>7. QED BY <1>2, <1>3, <1>4, <1>5, <1>6

\* Versions of two kinds are of both, and those of both are of each.
LEMMA BothKinds ==
    ASSUME NEW D, NEW E
    PROVE  /\ AllIn(D) /\ AllIn(E) => AllIn(D \cap E)
           /\ AllIn(D \cap E)' => AllIn(D)'
<1>1. ASSUME AllIn(D), AllIn(E) PROVE AllIn(D \cap E)
  <2>1. writes \in Seq(Contributors \X D) /\ writes \in Seq(Contributors \X E)
    BY <1>1 DEF AllIn
  <2>2. ASSUME NEW i \in 1..Len(writes) PROVE writes[i] \in Contributors \X (D \cap E)
    <3>1. writes[i] \in Contributors \X D /\ writes[i] \in Contributors \X E
      BY <2>1
    <3>2. QED BY <3>1
  <2>3. writes \in Seq(Contributors \X (D \cap E))
    BY <2>1, <2>2
  <2>4. QED BY <1>1, <2>3 DEF AllIn
<1>2. ASSUME AllIn(D \cap E)' PROVE AllIn(D)'
  <2>1. Contributors \X (D \cap E) \subseteq Contributors \X D
    OBVIOUS
  <2>2. writes' \in Seq(Contributors \X D)
    BY <1>2, <2>1 DEF AllIn
  <2>3. QED BY <1>2, <2>2 DEF AllIn
<1>3. QED BY <1>1, <1>2

\* When the write of a handler that was alone lands, every version holds its vote.
LEMMA LandedAlone ==
    ASSUME CommunityAssumption, Kept, Sound', Next, NEW v \in Contributors,
           handler[v].job = "closing", handler[v].answer = "recorded",
           handler[v].alone, handler'[v].alone, handler'[v].job = "none", mem \in Holding(v)
    PROVE  AllIn(Holding(v))'
<1>1. /\ mem' = mem /\ Landing(v) /\ \A d \in Contributors : d # v => handler'[d].job = "none"
  BY AloneWaits
<1>2. writes # <<>> /\ writes[1][1] = v /\ disk' = writes[1][2] /\ writes' = Tail(writes)
  BY <1>1 DEF Landing
<1>3. Owned(writes, handler) /\ \A d \in Contributors : d # v => handler[d].job = "none"
  BY DEF Kept, AloneIsAlone
<1>4. /\ Owned(Tail(writes), handler)
      /\ \A i \in DOMAIN Tail(writes) : Tail(writes)[i][1] # v
      /\ disk' \in Holding(v)
  BY <1>2, <1>3, OwnedTail
<1>5. PICK q : q = Tail(writes)
  OBVIOUS
<1>6. q = <<>>
  <2>1. q \in Seq(Contributors \X FineDocs) /\ Owned(q, handler)
    BY <1>4, <1>5 DEF Owned
  <2>2. ASSUME NEW i \in DOMAIN q PROVE FALSE
    <3>1. q[i] \in Contributors \X FineDocs
      BY <2>1
    <3>2. q[i][1] \in Contributors /\ q[i][1] # v
      BY <1>4, <1>5, <3>1
    <3>3. handler[q[i][1]].job \in {"rewarding", "closing"}
      BY <2>1 DEF Owned
    <3>4. QED BY <1>3, <3>2, <3>3
  <2>3. q \in Seq(Contributors \X FineDocs) /\ Len(q) \in Nat /\ DOMAIN q = 1..Len(q)
    BY <2>1
  <2>4. Len(q) = 0
    <3>1. ~(1 \in DOMAIN q)
      BY <2>2
    <3>2. QED BY <2>3, <3>1
  <2>5. QED BY <2>3, <2>4
<1>7. \A d \in Contributors : handler'[d].copy = None
  <2>1. Handlers'
    BY DEF Sound
  <2>2. \A d \in Contributors : handler'[d].job = "none"
    BY <1>1
  <2>3. QED BY <2>1, <2>2 DEF Handlers, GoodHandler
<1>8. writes' \in Seq(Contributors \X Holding(v))
  <2>1. <<>> \in Seq(Contributors \X Holding(v))
    OBVIOUS
  <2>2. QED BY <1>2, <1>5, <1>6, <2>1
<1>9. mem' \in Holding(v) /\ disk' \in Holding(v)
  BY <1>1, <1>4
<1>10. QED BY <1>7, <1>8, <1>9 DEF AllIn

\* A vote that was written stays.
LEMMA RecordedInductive ==
    ASSUME CommunityAssumption, Kept, Next
    PROVE  Recorded'
<1>1. Sound /\ Recorded /\ Sound' /\ mem \in FineDocs /\ AllIn(FineDocs)
  BY SoundInductive DEF Kept, Sound, AllIn
<1>2. mode' = mode
  BY DEF Next, Submit, Push, Vote, Work, Fetch, Deliver, Refuse, Cast, Reward, Penalise, Land
<1>3. SUFFICES ASSUME NEW v \in Contributors, Wrote(v)'
      PROVE  /\ mode' = "cloud" \/ (handler'[v].alone /\ handler'[v].job = "closing")
                  => mem' \in Holding(v)
             /\ handler'[v].alone /\ handler'[v].job = "none" => AllIn(Holding(v))'
  BY DEF Recorded
<1>4. CASE mem' \in Holding(v) /\ handler'[v].job = "closing"
  BY <1>4
<1>5. CASE Wrote(v) /\ (handler'[v].alone => handler[v].alone)
  <2> DEFINE D == Holding(v) \cap FineDocs
  <2>1. Closed(D)
    BY FineClosed
  <2>2. ASSUME mode' = "cloud" PROVE mem' \in Holding(v)
    <3>1. mem \in D
      BY <1>1, <1>2, <1>5, <2>2 DEF Recorded
    <3>2. mem' \in D
      BY <1>1, <1>2, <2>1, <2>2, <3>1, CloudKept
    <3>3. QED BY <3>2
  <2>3. ASSUME handler'[v].alone, handler'[v].job = "closing" PROVE mem' \in Holding(v)
    <3>1. handler[v].job # "none"
      <4>1. PICK c \in Contributors : Beginning(c) \/ Fetch(c) \/ Turn(c) \/ Landing(c)
        BY <1>1, StepKinds DEF Kept
      <4>2. CASE Beginning(c)
        BY <2>3, <4>2 DEF Beginning, Begins
      <4>3. CASE Fetch(c)
        BY <1>1, <2>3, <4>3, FetchFacts
      <4>4. CASE Turn(c) \/ Landing(c)
        BY <2>3, <4>4, Moves DEF Becomes
      <4>5. QED BY <4>1, <4>2, <4>3, <4>4
    <3>2. handler[v].job = "closing" /\ handler[v].alone
      BY <1>5, <2>3, <3>1 DEF Wrote
    <3>3. mem \in Holding(v)
      BY <1>1, <1>5, <3>2 DEF Recorded
    <3>4. mem' = mem
      BY <2>3, <3>2, AloneWaits
    <3>5. QED BY <3>3, <3>4
  <2>4. ASSUME handler'[v].alone, handler'[v].job = "none" PROVE AllIn(Holding(v))'
    <3>1. handler[v].alone
      BY <1>5, <2>4
    <3>2. CASE handler[v].job = "none"
      <4>1. AllIn(Holding(v))
        BY <1>1, <1>5, <3>1, <3>2 DEF Recorded
      <4>2. AllIn(D)
        BY <1>1, <4>1, BothKinds
      <4>3. AllIn(D)'
        BY <1>1, <2>1, <4>2, VersionsKept
      <4>4. QED BY <4>3, BothKinds
    <3>3. CASE handler[v].job = "closing"
      <4>1. mem \in Holding(v) /\ handler[v].answer = "recorded"
        BY <1>1, <1>5, <3>1, <3>3 DEF Recorded, Wrote
      <4>2. QED BY <1>1, <2>4, <3>1, <3>3, <4>1, LandedAlone
    <3>4. QED BY <1>5, <3>2, <3>3 DEF Wrote
  <2>5. QED BY <2>2, <2>3, <2>4
<1>6. QED BY <1>3, <1>4, <1>5, WrittenBefore

\* Every step keeps the votes.
LEMMA KeptInductive ==
    ASSUME CommunityAssumption
    PROVE  /\ Init => Kept
           /\ Kept /\ [Next]_vars => Kept'
<1>1. ASSUME Init PROVE Kept
  <2>1. Sound /\ NothingYet
    BY <1>1, SoundInit
  <2>2. writes = <<>> /\ handler = [c \in Contributors |-> Idle]
    BY <1>1 DEF Init
  <2>3. Idle.job = "none" /\ Idle.answer = None /\ None # "recorded"
    BY DEF Idle, CommunityAssumption
  <2>4. Owned(<<>>, handler)
    BY DEF Owned
  <2>5. AloneIsAlone /\ Deciding /\ Recorded
    BY <2>2, <2>3 DEF AloneIsAlone, Deciding, Recorded, Wrote
  <2>6. QED BY <2>1, <2>2, <2>4, <2>5 DEF Kept
<1>2. ASSUME Kept, Next PROVE Kept'
  <2>1. Sound' /\ Owned(writes, handler)' /\ AloneIsAlone' /\ Deciding' /\ Recorded'
    BY <1>2, SoundInductive, OwnedInductive, AloneInductive, DecidingInductive, RecordedInductive
       DEF Kept
  <2>2. QED BY <2>1 DEF Kept
<1>3. ASSUME Kept, UNCHANGED vars PROVE Kept'
  <2>1. /\ mode' = mode /\ disk' = disk /\ mem' = mem /\ writes' = writes /\ handler' = handler
    BY <1>3 DEF vars
  <2>2. Sound'
    BY <1>3, SoundInductive DEF Kept
  <2>3. Owned(writes, handler)' /\ AloneIsAlone' /\ Deciding'
    BY <1>3, <2>1 DEF Kept, AloneIsAlone, Deciding
  <2>4. Recorded'
    BY <1>3, <2>1 DEF Kept, Recorded, Wrote, AllIn
  <2>5. QED BY <2>2, <2>3, <2>4 DEF Kept
<1>4. QED BY <1>1, <1>2, <1>3

\* A vote that was answered as recorded is in the store for good, unless another
\* call overlapped it and both worked on copies of the file (voteOnSubmission).
THEOREM VotesKept ==
    ASSUME CommunityAssumption
    PROVE  Spec => []RecordedVoteKept
<1>1. Kept => RecordedVoteKept
  <2> SUFFICES ASSUME Kept, NEW v \in Voters,
                      handler[v].job = "none", handler[v].answer = "recorded",
                      mode = "cloud" \/ handler[v].alone
               PROVE  v \in Store.up \cup Store.down
    BY DEF RecordedVoteKept
  <2>1. v \in Contributors /\ Wrote(v) /\ Recorded
    BY DEF Contributors, Wrote, Kept
  <2>2. CASE mode = "cloud"
    BY <2>1, <2>2 DEF Recorded, Store, Holding
  <2>3. CASE mode # "cloud"
    <3>1. AllIn(Holding(v))
      BY <2>1, <2>3 DEF Recorded
    <3>2. QED BY <2>3, <3>1 DEF AllIn, Store, Holding
  <2>4. QED BY <2>2, <2>3
<1>2. QED BY <1>1, KeptInductive, PTL DEF Spec

-----------------------------------------------------------------------------
(* One document.                                                           *)

Rewarding(c) == handler[c].job \in {"reward", "rewarding"}
Penalising(c) == handler[c].job = "penalty"

\* What is given for a verdict: at most one handler gives it, and what it still
\* has to give was not given.
RewardedOnce ==
    /\ mem.status # "verified" =>
         \A c \in Contributors : mem.rewards[c] = 0 /\ ~Rewarding(c)
    /\ \A c \in Contributors : mem.rewards[c] <= 1
    /\ \A c, d \in Contributors : Rewarding(c) /\ Rewarding(d) => c = d
    /\ \A c, d \in Contributors : Rewarding(c) /\ d \in handler[c].todo => mem.rewards[d] = 0

PenalisedOnce ==
    /\ mem.status # "rejected" =>
         mem.rejections = 0 /\ \A c \in Contributors : ~Penalising(c)
    /\ mem.rejections <= 1
    /\ \A c, d \in Contributors : Penalising(c) /\ Penalising(d) => c = d
    /\ \A c \in Contributors : Penalising(c) => mem.rejections = 0

Once == Sound /\ (mode = "cloud" => RewardedOnce /\ PenalisedOnce)

\* A handler that goes on with other things leaves what the others have to give.
LEMMA GivenElsewhere ==
    ASSUME Once, NEW c \in Contributors, NEW job, NEW reads, NEW todo, NEW answer,
           Becomes(c, job, reads, todo, answer), mode = "cloud", mem' = mem,
           job \in {"reward", "rewarding"} => Rewarding(c) /\ todo \subseteq handler[c].todo,
           job = "penalty" => Penalising(c)
    PROVE  RewardedOnce' /\ PenalisedOnce'
<1>1. RewardedOnce /\ PenalisedOnce
  BY DEF Once
<1>2. \A d \in Contributors : /\ Rewarding(d)' => Rewarding(d)
                              /\ Rewarding(d)' => handler'[d].todo \subseteq handler[d].todo
                              /\ Penalising(d)' => Penalising(d)
  BY DEF Becomes, Rewarding, Penalising
<1>3. RewardedOnce'
  BY <1>1, <1>2 DEF RewardedOnce
<1>4. PenalisedOnce'
  BY <1>1, <1>2 DEF PenalisedOnce
<1>5. QED BY <1>3, <1>4

\* The vote that decides finds nothing given, and nobody giving.
LEMMA CastOnce ==
    ASSUME CommunityAssumption, Once, NEW v \in Contributors, Cast(v), mode = "cloud"
    PROVE  RewardedOnce' /\ PenalisedOnce'
<1>1. /\ RewardedOnce /\ PenalisedOnce /\ Sound /\ mem \in FineDocs /\ Delivered(v) = mem
  BY DEF Once, Sound, AllIn, Delivered
<1>2. /\ MayVote(mem, v) /\ \E ballot : mem' = Voted(mem, v, ballot)
      /\ mem' \in FineDocs
      /\ \/ mem'.status = "pending" /\ Becomes(v, "closing", 0, {}, "recorded")
         \/ /\ mem'.status = "verified"
            /\ \E todo \in SUBSET Contributors : Becomes(v, "reward", 2, todo, "verified")
         \/ /\ mem'.status = "rejected"
            /\ \E todo \in SUBSET Contributors : Becomes(v, "penalty", 1, todo, "rejected")
  BY <1>1, CastFacts
<1>3. mem'.rewards = mem.rewards /\ mem'.rejections = mem.rejections
  BY <1>1, <1>2, VotedFacts
<1>4. mem.status = "pending"
  BY <1>2 DEF MayVote
<1>5. /\ \A c \in Contributors : mem'.rewards[c] = 0 /\ ~Rewarding(c) /\ ~Penalising(c)
      /\ mem'.rejections = 0
  BY <1>1, <1>3, <1>4 DEF RewardedOnce, PenalisedOnce
<1>6. \A c \in Contributors : c # v => ~Rewarding(c)' /\ ~Penalising(c)'
  BY <1>2, <1>5 DEF Becomes, Rewarding, Penalising
<1>7. /\ Rewarding(v)' => mem'.status = "verified"
      /\ Penalising(v)' => mem'.status = "rejected"
  BY <1>2 DEF Becomes, Rewarding, Penalising
<1>8. RewardedOnce'
  <2>1. \A c, d \in Contributors : Rewarding(c)' /\ d \in handler'[c].todo => mem'.rewards[d] = 0
    BY <1>5
  <2>2. \A c, d \in Contributors : Rewarding(c)' /\ Rewarding(d)' => c = d
    BY <1>6
  <2>3. \A c \in Contributors : mem'.rewards[c] <= 1
    BY <1>5
  <2>4. mem'.status # "verified" => \A c \in Contributors : mem'.rewards[c] = 0 /\ ~Rewarding(c)'
    BY <1>5, <1>6, <1>7
  <2>5. QED BY <2>1, <2>2, <2>3, <2>4 DEF RewardedOnce
<1>9. PenalisedOnce'
  <2>1. \A c, d \in Contributors : Penalising(c)' /\ Penalising(d)' => c = d
    BY <1>6
  <2>2. mem'.status # "rejected" =>
          mem'.rejections = 0 /\ \A c \in Contributors : ~Penalising(c)'
    BY <1>5, <1>6, <1>7
  <2>3. QED BY <1>5, <2>1, <2>2 DEF PenalisedOnce
<1>10. QED BY <1>8, <1>9

\* Who is rewarded was not, and is not in what is left to do.
LEMMA RewardOnce ==
    ASSUME CommunityAssumption, Once, NEW v \in Contributors, Reward(v), mode = "cloud"
    PROVE  RewardedOnce' /\ PenalisedOnce'
<1>1. /\ RewardedOnce /\ PenalisedOnce /\ Sound /\ mem \in FineDocs /\ Delivered(v) = mem
  BY DEF Once, Sound, AllIn, Delivered
<1>2. /\ handler[v].job = "reward"
      /\ \E c \in handler[v].todo, rest \in SUBSET handler[v].todo :
           /\ c \in Contributors /\ c \notin rest
           /\ \/ /\ mem' = Rewarded(mem, c)
                 /\ Becomes(v, "rewarding", 0, rest, handler[v].answer)
              \/ /\ mem' = mem
                 /\ Becomes(v, "reward", 2, rest, handler[v].answer)
              \/ /\ mem' = mem
                 /\ Becomes(v, "closing", 0, {}, handler[v].answer)
  BY <1>1, RewardFacts
<1>3. PICK c \in handler[v].todo, rest \in SUBSET handler[v].todo :
        /\ c \in Contributors /\ c \notin rest
        /\ \/ /\ mem' = Rewarded(mem, c)
              /\ Becomes(v, "rewarding", 0, rest, handler[v].answer)
           \/ /\ mem' = mem
              /\ Becomes(v, "reward", 2, rest, handler[v].answer)
           \/ /\ mem' = mem
              /\ Becomes(v, "closing", 0, {}, handler[v].answer)
  BY <1>2
<1>4. Rewarding(v)
  BY <1>2 DEF Rewarding
<1>5. CASE mem' = mem
  <2>1. CASE Becomes(v, "reward", 2, rest, handler[v].answer)
    BY <1>3, <1>4, <1>5, <2>1, GivenElsewhere
  <2>2. CASE Becomes(v, "closing", 0, {}, handler[v].answer)
    BY <1>5, <2>2, GivenElsewhere
  <2>3. CASE Becomes(v, "rewarding", 0, rest, handler[v].answer)
    BY <1>3, <1>4, <1>5, <2>3, GivenElsewhere
  <2>4. QED BY <1>3, <2>1, <2>2, <2>3
<1>6. CASE /\ mem' = Rewarded(mem, c)
           /\ Becomes(v, "rewarding", 0, rest, handler[v].answer)
  <2>1. /\ mem'.status = mem.status /\ mem'.rejections = mem.rejections
        /\ mem'.rewards[c] = mem.rewards[c] + 1
        /\ \A x \in Contributors \ {c} : mem'.rewards[x] = mem.rewards[x]
    BY <1>1, <1>3, <1>6, RewardedFacts
  <2>2. mem.status = "verified" /\ mem.rewards[c] = 0
    BY <1>1, <1>3, <1>4 DEF RewardedOnce
  <2>3. \A d \in Contributors : d # v => ~Rewarding(d)' /\ Penalising(d)' = Penalising(d)
    BY <1>1, <1>4, <1>6 DEF RewardedOnce, Becomes, Rewarding, Penalising
  <2>4. ~Penalising(v)' /\ handler'[v].todo = rest
    BY <1>6 DEF Becomes, Penalising
  <2>5. \A x \in Contributors : mem'.rewards[x] <= 1
    BY <1>1, <2>1, <2>2 DEF RewardedOnce
  <2>6. \A d, x \in Contributors : Rewarding(d)' /\ x \in handler'[d].todo => mem'.rewards[x] = 0
    <3>1. ASSUME NEW x \in Contributors, x \in rest PROVE mem'.rewards[x] = 0
      BY <1>1, <1>3, <1>4, <2>1, <3>1 DEF RewardedOnce
    <3>2. QED BY <2>3, <2>4, <3>1
  <2>7. RewardedOnce'
    <3>1. \A d, x \in Contributors : Rewarding(d)' /\ Rewarding(x)' => d = x
      BY <2>3
    <3>2. mem'.status = "verified"
      BY <2>1, <2>2
    <3>3. QED BY <2>5, <2>6, <3>1, <3>2 DEF RewardedOnce
  <2>8. PenalisedOnce'
    <3>1. \A d \in Contributors : ~Penalising(d)'
      BY <1>1, <2>2, <2>3, <2>4 DEF PenalisedOnce
    <3>2. mem'.rejections = 0
      BY <1>1, <2>1, <2>2 DEF PenalisedOnce
    <3>3. QED BY <3>1, <3>2 DEF PenalisedOnce
  <2>9. QED BY <2>7, <2>8
<1>7. QED BY <1>3, <1>5, <1>6

\* Who penalises is the only one, and nothing was counted yet.
LEMMA PenaliseOnce ==
    ASSUME CommunityAssumption, Once, NEW v \in Contributors, Penalise(v), mode = "cloud"
    PROVE  RewardedOnce' /\ PenalisedOnce'
<1>1. /\ RewardedOnce /\ PenalisedOnce /\ Sound /\ mem \in FineDocs /\ Delivered(v) = mem
  BY DEF Once, Sound, AllIn, Delivered
<1>2. /\ handler[v].job = "penalty" /\ mem' = Penalised(mem)
      /\ Becomes(v, "closing", 0, {}, handler[v].answer)
  BY <1>1, PenaliseFacts
<1>3. /\ mem'.status = mem.status /\ mem'.rejections = mem.rejections + 1
      /\ mem'.rewards = mem.rewards
  BY <1>1, <1>2, PenalisedFacts
<1>4. mem.status = "rejected" /\ mem.rejections = 0
  BY <1>1, <1>2 DEF PenalisedOnce, Penalising
<1>5. \A d \in Contributors : ~Penalising(d)' /\ ~Rewarding(d)'
  BY <1>1, <1>2, <1>4 DEF PenalisedOnce, RewardedOnce, Penalising, Rewarding, Becomes
<1>6. mem'.rejections = 1 /\ mem'.status = "rejected"
  BY <1>3, <1>4
<1>7. \A c \in Contributors : mem'.rewards[c] = 0
  BY <1>1, <1>3, <1>4 DEF RewardedOnce
<1>8. RewardedOnce'
  BY <1>5, <1>7 DEF RewardedOnce
<1>9. PenalisedOnce'
  BY <1>5, <1>6 DEF PenalisedOnce
<1>10. QED BY <1>8, <1>9

\* Every step gives at most what was not given.
LEMMA OnceInductive ==
    ASSUME CommunityAssumption, Once, [Next]_vars
    PROVE  Once'
<1>1. Sound /\ Sound'
  BY SoundInductive DEF Once
<1>2. mode' = mode
  BY DEF Next, Submit, Push, Vote, Work, Fetch, Deliver, Refuse, Cast, Reward, Penalise, Land, vars
<1>3. SUFFICES ASSUME mode = "cloud" PROVE RewardedOnce' /\ PenalisedOnce'
  BY <1>1, <1>2 DEF Once
<1>4. RewardedOnce /\ PenalisedOnce /\ \A c \in Contributors : Delivered(c) = mem
  BY <1>3 DEF Once, Delivered
<1>5. ASSUME NEW c \in Contributors, NEW job \in {"submit", "vote"}, Begins(c, job), mem' = mem
      PROVE  RewardedOnce' /\ PenalisedOnce'
  <2>1. \A d \in Contributors : /\ Rewarding(d)' => Rewarding(d)
                                /\ Rewarding(d)' => handler'[d].todo = handler[d].todo
                                /\ Penalising(d)' => Penalising(d)
    BY <1>5 DEF Begins, Rewarding, Penalising
  <2>2. RewardedOnce'
    BY <1>4, <1>5, <2>1 DEF RewardedOnce
  <2>3. PenalisedOnce'
    BY <1>4, <1>5, <2>1 DEF PenalisedOnce
  <2>4. QED BY <2>2, <2>3
<1>6. CASE Submit
  <2>1. Begins(Submitter, "submit") /\ Submitter \in Contributors
    BY <1>1, <1>6, Begun DEF Submit, Sound, Contributors
  <2>2. QED BY <1>5, <1>6, <2>1 DEF Submit
<1>7. ASSUME NEW v \in Contributors, Vote(v) PROVE RewardedOnce' /\ PenalisedOnce'
  <2>1. Begins(v, "vote")
    BY <1>1, <1>7, Begun DEF Vote, Sound
  <2>2. QED BY <1>5, <1>7, <2>1 DEF Vote
<1>8. ASSUME NEW c \in Contributors, Fetch(c) PROVE FALSE
  BY <1>3, <1>8 DEF Fetch
<1>9. ASSUME NEW c \in Contributors, Deliver(c) PROVE RewardedOnce' /\ PenalisedOnce'
  <2>1. /\ Becomes(c, handler[c].job, handler[c].reads - 1, handler[c].todo, handler[c].answer)
        /\ mem' = mem
    BY <1>1, <1>4, <1>9, DeliverFacts
  <2>2. QED BY <1>3, <2>1, GivenElsewhere DEF Rewarding, Penalising
<1>10. CASE Push
  <2>1. /\ NothingYet /\ Submitter \in Contributors
        /\ Becomes(Submitter, "closing", 0, {}, "submitted")
        /\ \E auto \in BOOLEAN : mem' = Pushed(NewDocument, auto)
    BY <1>1, <1>10, PushFacts
  <2>2. mem'.rejections = 0 /\ \A c \in Contributors : mem'.rewards[c] = 0
    BY <2>1, PushedFine
  <2>3. \A c \in Contributors : ~Rewarding(c)' /\ ~Penalising(c)'
    BY <2>1 DEF NothingYet, Becomes, Rewarding, Penalising
  <2>4. RewardedOnce'
    BY <2>2, <2>3 DEF RewardedOnce
  <2>5. PenalisedOnce'
    BY <2>2, <2>3 DEF PenalisedOnce
  <2>6. QED BY <2>4, <2>5
<1>11. ASSUME NEW v \in Contributors, Refuse(v) PROVE RewardedOnce' /\ PenalisedOnce'
  <2>1. Becomes(v, "none", 0, {}, "refused") /\ mem' = mem
    BY <1>1, <1>4, <1>11, RefuseFacts
  <2>2. QED BY <1>3, <2>1, GivenElsewhere
<1>12. CASE Land
  <2>1. PICK c \in Contributors :
          /\ mem' = mem
          /\ \/ /\ handler[c].job = "rewarding"
                /\ Becomes(c, "reward", 2, handler[c].todo, handler[c].answer)
             \/ Becomes(c, "closing", 0, {}, handler[c].answer)
             \/ Becomes(c, "none", 0, {}, handler[c].answer)
    BY <1>1, <1>12, LandFacts
  <2>2. CASE /\ handler[c].job = "rewarding"
             /\ Becomes(c, "reward", 2, handler[c].todo, handler[c].answer)
    BY <1>3, <2>1, <2>2, GivenElsewhere DEF Rewarding
  <2>3. CASE Becomes(c, "closing", 0, {}, handler[c].answer)
    BY <1>3, <2>1, <2>3, GivenElsewhere
  <2>4. CASE Becomes(c, "none", 0, {}, handler[c].answer)
    BY <1>3, <2>1, <2>4, GivenElsewhere
  <2>5. QED BY <2>1, <2>2, <2>3, <2>4
<1>13. CASE UNCHANGED vars
  BY <1>4, <1>13 DEF vars, RewardedOnce, PenalisedOnce, Rewarding, Penalising
<1>14. QED BY <1>3, <1>6, <1>7, <1>8, <1>9, <1>10, <1>11, <1>12, <1>13,
              CastOnce, RewardOnce, PenaliseOnce DEF Next, Work

\* Where there is one document, votes that overlap decide once: nobody is rewarded
\* or penalised twice for a submission, or for a verdict it did not get
\* (voteOnSubmission and recordContribution in the cloud).
THEOREM DecidedOnce ==
    ASSUME CommunityAssumption
    PROVE  Spec => []CloudDecidesOnce
<1>1. Init => Once
  <2> SUFFICES ASSUME Init PROVE Once
    OBVIOUS
  <2>1. Sound /\ NothingYet
    BY SoundInit
  <2>2. /\ \A c \in Contributors : ~Rewarding(c) /\ ~Penalising(c)
        /\ mem = NewDocument
    BY <2>1 DEF NothingYet, Rewarding, Penalising
  <2>3. mem.rejections = 0 /\ \A c \in Contributors : mem.rewards[c] = 0
    BY <2>2, NewDocumentFine
  <2>4. QED BY <2>1, <2>2, <2>3 DEF Once, RewardedOnce, PenalisedOnce
<1>2. Once /\ [Next]_vars => Once'
  BY OnceInductive
<1>3. Once => CloudDecidesOnce
  BY DEF Once, RewardedOnce, PenalisedOnce, CloudDecidesOnce
<1>4. QED BY <1>1, <1>2, <1>3, PTL DEF Spec

-----------------------------------------------------------------------------
(* The budget of a virtual key: an instance beside the votes, with state   *)
(* of its own.                                                             *)

CONSTANTS Requests, Budget, MaxTokens, MaxMonth
VARIABLES key, used, resetMonth, month, cached, call, owed

Keys == INSTANCE VirtualKeys

\* Requests that were admitted and have not ended.
Open == {r \in Requests : call[r].pc # "idle"}

Bound == (Budget - 1) + Cardinality(Requests) * MaxTokens

\* The requests under way can still be charged without passing the bound.
Room == used + Cardinality(Open) * MaxTokens <= Bound

KeyInv == Keys!TypeOK /\ Room /\ Keys!CountsThisMonth

-----------------------------------------------------------------------------
(* Numbers.                                                                *)

\* Products grow with their factor, and lose one MaxTokens with one request.
LEMMA Products ==
    ASSUME NEW m \in Nat, NEW k \in Nat, NEW n \in Nat, k <= n
    PROVE  /\ k * m \in Nat /\ n * m \in Nat /\ k * m <= n * m
           /\ k > 0 => (k - 1) * m = k * m - m
<1>1. k * m \in Nat /\ n * m \in Nat /\ (n - k) * m \in Nat
  BY SMT
<1>2. n * m = k * m + (n - k) * m
  BY SMT
<1>3. (k - 1) * m = k * m - m
  BY SMT
<1>4. QED BY <1>1, <1>2, <1>3

\* How many requests there are, and are open.
LEMMA OpenFacts ==
    ASSUME Keys!KeyAssumption
    PROVE  /\ Cardinality(Requests) \in Nat
           /\ IsFiniteSet(Open)
           /\ Cardinality(Open) \in Nat
           /\ Cardinality(Open) <= Cardinality(Requests)
<1>1. IsFiniteSet(Requests)
  BY DEF Keys!KeyAssumption, Keys!IsFiniteSet, IsFiniteSet
<1>2. Open \subseteq Requests
  BY DEF Open
<1>3. QED BY <1>1, <1>2, FS_Subset, FS_CardinalityType

\* The same after a step.
LEMMA OpenFactsNext ==
    ASSUME Keys!KeyAssumption
    PROVE  /\ Cardinality(Requests) \in Nat
           /\ IsFiniteSet(Open')
           /\ Cardinality(Open') \in Nat
           /\ Cardinality(Open') <= Cardinality(Requests)
<1>1. IsFiniteSet(Requests)
  BY DEF Keys!KeyAssumption, Keys!IsFiniteSet, IsFiniteSet
<1>2. Open' \subseteq Requests
  BY DEF Open
<1>3. QED BY <1>1, <1>2, FS_Subset, FS_CardinalityType

-----------------------------------------------------------------------------
(* Type correctness.                                                       *)

\* Charging keeps the types.
LEMMA ChargeType ==
    ASSUME Keys!KeyAssumption, Keys!TypeOK, NEW tokens \in Keys!Tokens, Keys!Charge(tokens)
    PROVE  used' \in Nat /\ resetMonth' \in 0..month
BY DEF Keys!TypeOK, Keys!Charge, Keys!Tokens, Keys!KeyAssumption

\* Every step keeps the types.
LEMMA KeyTypeInductive ==
    ASSUME Keys!KeyAssumption
    PROVE  Keys!TypeOK /\ [Keys!Next]_(Keys!vars) => Keys!TypeOK'
<1> SUFFICES ASSUME Keys!TypeOK, [Keys!Next]_(Keys!vars) PROVE Keys!TypeOK'
  OBVIOUS
<1>. 0 \in Keys!Tokens /\ Keys!Tokens \subseteq Nat
  BY DEF Keys!Tokens, Keys!KeyAssumption
<1>0. Keys!Idle \in [pc : {"idle", "admitted", "calling", "answered", "streaming"},
                auto : BOOLEAN, tokens : Keys!Tokens]
  BY DEF Keys!Idle, Keys!Tokens, Keys!KeyAssumption
<1>1. ASSUME NEW r \in Requests, Keys!Admit(r) PROVE Keys!TypeOK'
  <2>1. PICK auto \in BOOLEAN :
          call' = [call EXCEPT ![r].pc = "admitted", ![r].auto = auto]
    BY <1>1 DEF Keys!Admit, Keys!AdmitUnchecked
  <2>2. UNCHANGED <<key, used, resetMonth, month, cached, owed>>
    BY <1>1 DEF Keys!Admit, Keys!AdmitUnchecked
  <2>3. QED BY <2>1, <2>2 DEF Keys!TypeOK
<1>2. ASSUME NEW r \in Requests, Keys!Hit(r) PROVE Keys!TypeOK'
  <2>1. cached \in Keys!Tokens
    BY <1>2 DEF Keys!Hit, Keys!TypeOK
  <2>2. used' \in Nat /\ resetMonth' \in 0..month
    BY <1>2, <2>1, ChargeType DEF Keys!Hit
  <2>3. QED BY <1>0, <1>2, <2>1, <2>2 DEF Keys!Hit, Keys!TypeOK
<1>3. ASSUME NEW r \in Requests, Keys!CallProvider(r) PROVE Keys!TypeOK'
  BY <1>3 DEF Keys!CallProvider, Keys!TypeOK
<1>4. ASSUME NEW r \in Requests, Keys!Answer(r) PROVE Keys!TypeOK'
  <2>1. PICK tokens \in Keys!Tokens :
          /\ call' = [call EXCEPT ![r].pc = "answered", ![r].tokens = tokens]
          /\ cached' \in {cached, tokens}
    BY <1>4 DEF Keys!Answer
  <2>2. UNCHANGED <<key, used, resetMonth, month, owed>>
    BY <1>4 DEF Keys!Answer
  <2>3. QED BY <2>1, <2>2 DEF Keys!TypeOK
<1>5. ASSUME NEW r \in Requests, Keys!AnswerStream(r) PROVE Keys!TypeOK'
  BY <1>5 DEF Keys!AnswerStream, Keys!TypeOK
<1>6. ASSUME NEW r \in Requests, NEW tokens \in Keys!Tokens, Keys!FinalizeTelemetry(r, tokens)
      PROVE  Keys!TypeOK'
  <2>1. used' \in Nat /\ resetMonth' \in 0..month /\ owed' \in Nat
    BY <1>6, ChargeType DEF Keys!FinalizeTelemetry, Keys!TypeOK
  <2>2. QED BY <1>0, <1>6, <2>1 DEF Keys!FinalizeTelemetry, Keys!TypeOK
<1>7. ASSUME NEW r \in Requests, Keys!Finish(r) PROVE Keys!TypeOK'
  <2>1. call[r].tokens \in Keys!Tokens
    BY DEF Keys!TypeOK
  <2>2. QED BY <1>6, <1>7, <2>1 DEF Keys!Finish
<1>8. ASSUME NEW r \in Requests, Keys!FinishStream(r) PROVE Keys!TypeOK'
  BY <1>6, <1>8 DEF Keys!FinishStream
<1>9. ASSUME NEW r \in Requests, Keys!AnswerError(r) PROVE Keys!TypeOK'
  BY <1>6, <1>9 DEF Keys!AnswerError
<1>10. ASSUME NEW r \in Requests, Keys!Leave(r) PROVE Keys!TypeOK'
  BY <1>0, <1>10 DEF Keys!Leave, Keys!TypeOK
<1>11. CASE Keys!Revoke
  BY <1>11 DEF Keys!Revoke, Keys!TypeOK
<1>12. CASE Keys!Purge
  BY <1>12 DEF Keys!Purge, Keys!TypeOK
<1>13. CASE Keys!Expire
  BY <1>13 DEF Keys!Expire, Keys!TypeOK
<1>14. CASE Keys!NextMonth
  <2>1. month' \in 0..MaxMonth /\ resetMonth' \in 0..month' /\ owed' \in Nat
    BY <1>14 DEF Keys!NextMonth, Keys!TypeOK, Keys!KeyAssumption
  <2>2. QED BY <1>14, <2>1 DEF Keys!NextMonth, Keys!TypeOK
<1>15. CASE Keys!Crash
  BY <1>0, <1>15 DEF Keys!Crash, Keys!TypeOK
<1>16. CASE UNCHANGED Keys!vars
  BY <1>16 DEF Keys!vars, Keys!TypeOK
<1>17. QED
  BY <1>1, <1>2, <1>3, <1>4, <1>5, <1>7, <1>8, <1>9, <1>10, <1>11, <1>12,
     <1>13, <1>14, <1>15, <1>16 DEF Keys!Next, Keys!RequestStep

-----------------------------------------------------------------------------
(* How far the budget is exceeded.                                         *)

\* A step that charges nothing and opens nothing keeps Room.
LEMMA RoomKept ==
    ASSUME Keys!KeyAssumption, Keys!TypeOK, Room, used' = used, Open' \subseteq Open PROVE Room'
<1>1. Cardinality(Open') <= Cardinality(Open)
  BY OpenFacts, FS_Subset
<1>2. Cardinality(Open') * MaxTokens <= Cardinality(Open) * MaxTokens
  BY <1>1, OpenFacts, OpenFactsNext, Products DEF Keys!KeyAssumption
<1>3. /\ Cardinality(Open') * MaxTokens \in Nat /\ Cardinality(Open) * MaxTokens \in Nat
      /\ Cardinality(Requests) * MaxTokens \in Nat
  BY OpenFacts, OpenFactsNext, Products DEF Keys!KeyAssumption
<1>4. QED BY <1>2, <1>3 DEF Keys!TypeOK, Room, Bound, Keys!KeyAssumption

\* The end of an open request, which may charge.
LEMMA RoomAfterEnd ==
    ASSUME Keys!KeyAssumption, Keys!TypeOK, Room, NEW r \in Requests, call[r].pc # "idle",
           call' = [call EXCEPT ![r] = Keys!Idle],
           NEW tokens \in Keys!Tokens, Keys!Charge(tokens) \/ used' = used
    PROVE  Room'
<1>1. Open' = Open \ {r} /\ r \in Open
  BY DEF Open, Keys!Idle, Keys!TypeOK
<1>2. Cardinality(Open') = Cardinality(Open) - 1 /\ Cardinality(Open) > 0
  BY <1>1, OpenFacts, OpenFactsNext, FS_RemoveElement
<1> DEFINE a == Cardinality(Open) * MaxTokens
           b == Cardinality(Open') * MaxTokens
           c == Cardinality(Requests) * MaxTokens
<1>3. a \in Nat /\ c \in Nat /\ a <= c /\ b = a - MaxTokens
  BY <1>2, OpenFacts, Products DEF Keys!KeyAssumption
<1>4. b \in Nat
  BY OpenFactsNext, Products DEF Keys!KeyAssumption
<1>5. used + a <= (Budget - 1) + c
  BY DEF Room, Bound
<1>6. tokens \in Nat /\ tokens <= MaxTokens /\ used \in Nat
  BY DEF Keys!Tokens, Keys!TypeOK, Keys!KeyAssumption
<1>7. used' = used \/ used' = tokens \/ used' = used + tokens
  BY DEF Keys!Charge
<1> HIDE DEF a, b, c
<1>8. used' + b <= (Budget - 1) + c
  BY <1>3, <1>4, <1>5, <1>6, <1>7 DEF Keys!KeyAssumption
<1>9. QED BY <1>8 DEF Room, Bound, b, c

\* Every step keeps Room.
LEMMA RoomInductive ==
    ASSUME Keys!KeyAssumption
    PROVE  Keys!TypeOK /\ Room /\ [Keys!Next]_(Keys!vars) => Room'
<1> SUFFICES ASSUME Keys!TypeOK, Room, [Keys!Next]_(Keys!vars) PROVE Room'
  OBVIOUS
<1>0. 0 \in Keys!Tokens
  BY DEF Keys!Tokens, Keys!KeyAssumption
<1>1. ASSUME NEW r \in Requests, Keys!Admit(r) PROVE Room'
  <2>1. used' = used /\ used \in Nat /\ used <= Budget - 1
    BY <1>1 DEF Keys!Admit, Keys!AdmitUnchecked, Keys!Exhausted, Keys!TypeOK, Keys!KeyAssumption
  <2>2. /\ Cardinality(Open') * MaxTokens \in Nat
        /\ Cardinality(Requests) * MaxTokens \in Nat
        /\ Cardinality(Open') * MaxTokens <= Cardinality(Requests) * MaxTokens
    BY OpenFactsNext, Products DEF Keys!KeyAssumption
  <2>3. QED BY <2>1, <2>2 DEF Room, Bound, Keys!KeyAssumption
<1>2. ASSUME NEW r \in Requests, Keys!Hit(r) PROVE Room'
  <2>1. cached \in Keys!Tokens
    BY <1>2 DEF Keys!Hit, Keys!TypeOK
  <2>2. QED BY <1>2, <2>1, RoomAfterEnd DEF Keys!Hit
<1>3. ASSUME NEW r \in Requests, Keys!CallProvider(r) PROVE Room'
  <2>1. Open' \subseteq Open
    BY <1>3 DEF Keys!CallProvider, Open, Keys!TypeOK
  <2>2. QED BY <1>3, <2>1, RoomKept DEF Keys!CallProvider
<1>4. ASSUME NEW r \in Requests, Keys!Answer(r) PROVE Room'
  <2>1. Open' \subseteq Open
    BY <1>4 DEF Keys!Answer, Open, Keys!TypeOK
  <2>2. QED BY <1>4, <2>1, RoomKept DEF Keys!Answer
<1>5. ASSUME NEW r \in Requests, Keys!AnswerStream(r) PROVE Room'
  <2>1. Open' \subseteq Open
    BY <1>5 DEF Keys!AnswerStream, Open, Keys!TypeOK
  <2>2. QED BY <1>5, <2>1, RoomKept DEF Keys!AnswerStream
<1>6. ASSUME NEW r \in Requests, NEW tokens \in Keys!Tokens, call[r].pc # "idle",
             Keys!FinalizeTelemetry(r, tokens)
      PROVE  Room'
  BY <1>6, RoomAfterEnd DEF Keys!FinalizeTelemetry
<1>7. ASSUME NEW r \in Requests, Keys!Finish(r) PROVE Room'
  <2>1. call[r].tokens \in Keys!Tokens
    BY DEF Keys!TypeOK
  <2>2. QED BY <1>6, <1>7, <2>1 DEF Keys!Finish
<1>8. ASSUME NEW r \in Requests, Keys!FinishStream(r) PROVE Room'
  BY <1>6, <1>8 DEF Keys!FinishStream
<1>9. ASSUME NEW r \in Requests, Keys!AnswerError(r) PROVE Room'
  BY <1>0, <1>6, <1>9 DEF Keys!AnswerError
<1>10. ASSUME NEW r \in Requests, Keys!Leave(r) PROVE Room'
  BY <1>0, <1>10, RoomAfterEnd DEF Keys!Leave
<1>11. CASE Keys!Revoke \/ Keys!Purge \/ Keys!Expire \/ Keys!NextMonth \/ UNCHANGED Keys!vars
  BY <1>11, RoomKept DEF Keys!Revoke, Keys!Purge, Keys!Expire, Keys!NextMonth, Keys!vars, Open
<1>12. CASE Keys!Crash
  <2>1. Open' \subseteq Open
    BY <1>12 DEF Keys!Crash, Keys!Idle, Open
  <2>2. QED BY <1>12, <2>1, RoomKept DEF Keys!Crash
<1>13. QED
  BY <1>1, <1>2, <1>3, <1>4, <1>5, <1>7, <1>8, <1>9, <1>10, <1>11, <1>12
  DEF Keys!Next, Keys!RequestStep

-----------------------------------------------------------------------------
(* What the counter counts.                                                *)

\* Whoever charges also owes.
LEMMA CountAfterCharge ==
    ASSUME Keys!KeyAssumption, Keys!TypeOK, Keys!CountsThisMonth, NEW tokens \in Keys!Tokens, Keys!Charge(tokens),
           owed' = owed + tokens, UNCHANGED <<key, month>>
    PROVE  Keys!CountsThisMonth'
BY DEF Keys!TypeOK, Keys!Tokens, Keys!Charge, Keys!CountsThisMonth, Keys!KeyAssumption

\* Every step keeps the counter that of the month.
LEMMA CountInductive ==
    ASSUME Keys!KeyAssumption
    PROVE  Keys!TypeOK /\ Keys!CountsThisMonth /\ [Keys!Next]_(Keys!vars) => Keys!CountsThisMonth'
<1> SUFFICES ASSUME Keys!TypeOK, Keys!CountsThisMonth, [Keys!Next]_(Keys!vars) PROVE Keys!CountsThisMonth'
  OBVIOUS
<1>0. 0 \in Keys!Tokens
  BY DEF Keys!Tokens, Keys!KeyAssumption
<1>1. ASSUME NEW r \in Requests,
             \/ Keys!Admit(r) \/ Keys!CallProvider(r) \/ Keys!Answer(r) \/ Keys!AnswerStream(r) \/ Keys!Leave(r)
      PROVE  Keys!CountsThisMonth'
  BY <1>1 DEF Keys!Admit, Keys!AdmitUnchecked, Keys!CallProvider, Keys!Answer, Keys!AnswerStream, Keys!Leave, Keys!CountsThisMonth
<1>2. ASSUME NEW r \in Requests, Keys!Hit(r) PROVE Keys!CountsThisMonth'
  <2>1. cached \in Keys!Tokens
    BY <1>2 DEF Keys!Hit, Keys!TypeOK
  <2>2. QED BY <1>2, <2>1, CountAfterCharge DEF Keys!Hit
<1>3. ASSUME NEW r \in Requests, NEW tokens \in Keys!Tokens, Keys!FinalizeTelemetry(r, tokens)
      PROVE  Keys!CountsThisMonth'
  <2>1. CASE call[r].auto
    BY <1>3, <2>1, CountAfterCharge DEF Keys!FinalizeTelemetry
  <2>2. CASE ~call[r].auto
    BY <1>3, <2>2 DEF Keys!FinalizeTelemetry, Keys!CountsThisMonth
  <2>3. QED BY <2>1, <2>2
<1>4. ASSUME NEW r \in Requests, Keys!Finish(r) PROVE Keys!CountsThisMonth'
  <2>1. call[r].tokens \in Keys!Tokens
    BY DEF Keys!TypeOK
  <2>2. QED BY <1>3, <1>4, <2>1 DEF Keys!Finish
<1>5. ASSUME NEW r \in Requests, Keys!FinishStream(r) PROVE Keys!CountsThisMonth'
  BY <1>3, <1>5 DEF Keys!FinishStream
<1>6. ASSUME NEW r \in Requests, Keys!AnswerError(r) PROVE Keys!CountsThisMonth'
  BY <1>0, <1>3, <1>6 DEF Keys!AnswerError
<1>7. CASE Keys!NextMonth
  BY <1>7 DEF Keys!NextMonth, Keys!CountsThisMonth, Keys!TypeOK
<1>8. CASE Keys!Revoke \/ Keys!Purge \/ Keys!Expire \/ Keys!Crash \/ UNCHANGED Keys!vars
  BY <1>8 DEF Keys!Revoke, Keys!Purge, Keys!Expire, Keys!Crash, Keys!vars, Keys!CountsThisMonth
<1>9. QED
  BY <1>1, <1>2, <1>4, <1>5, <1>6, <1>7, <1>8 DEF Keys!Next, Keys!RequestStep

-----------------------------------------------------------------------------
(* The theorems.                                                           *)

\* A key that was just created.
LEMMA KeyInvInit ==
    ASSUME Keys!KeyAssumption
    PROVE  Keys!Init => KeyInv
<1> SUFFICES ASSUME Keys!Init PROVE KeyInv
  OBVIOUS
<1>1. Keys!TypeOK
  BY DEF Keys!Init, Keys!TypeOK, Keys!Idle, Keys!Tokens, Keys!KeyAssumption
<1>2. Room
  <2>1. Open = {}
    BY DEF Keys!Init, Open, Keys!Idle
  <2>2. Cardinality(Open) = 0
    BY <2>1, FS_EmptySet
  <2>3. Cardinality(Requests) * MaxTokens \in Nat
    BY OpenFacts, Products DEF Keys!KeyAssumption
  <2>4. QED BY <2>2, <2>3 DEF Keys!Init, Room, Bound, Keys!KeyAssumption
<1>3. Keys!CountsThisMonth
  BY DEF Keys!Init, Keys!CountsThisMonth
<1>4. QED BY <1>1, <1>2, <1>3 DEF KeyInv

\* The inductive invariant.
THEOREM KeyInvariant ==
    ASSUME Keys!KeyAssumption
    PROVE  Keys!Spec => []KeyInv
<1>1. KeyInv /\ [Keys!Next]_(Keys!vars) => KeyInv'
  BY KeyTypeInductive, RoomInductive, CountInductive DEF KeyInv
<1>2. QED BY KeyInvInit, <1>1, PTL DEF Keys!Spec

\* The row of a key and its requests keep their types.
THEOREM KeyTypeCorrect ==
    ASSUME Keys!KeyAssumption
    PROVE  Keys!Spec => []Keys!TypeOK
<1>1. KeyInv => Keys!TypeOK
  BY DEF KeyInv
<1>2. QED BY KeyInvariant, <1>1, PTL

\* However many requests are admitted before the first is charged, and in
\* whatever month they end: the budget is exceeded by no more than what the
\* requests under way use.
THEOREM OverspendIsBounded ==
    ASSUME Keys!KeyAssumption
    PROVE  Keys!Spec => []Keys!OverspendBounded
<1>1. KeyInv => Keys!OverspendBounded
  <2> SUFFICES ASSUME Keys!TypeOK, Room PROVE Keys!OverspendBounded
    BY DEF KeyInv
  <2>1. /\ Cardinality(Open) * MaxTokens \in Nat
        /\ Cardinality(Requests) * MaxTokens \in Nat
    BY OpenFacts, Products DEF Keys!KeyAssumption
  <2>2. used \in Nat /\ Budget \in Nat
    BY DEF Keys!TypeOK, Keys!KeyAssumption
  <2>3. used <= (Budget - 1) + Cardinality(Requests) * MaxTokens
    BY <2>1, <2>2 DEF Room, Bound
  <2>4. Keys!Cardinality(Requests) = Cardinality(Requests)
    BY DEF Keys!Cardinality, Cardinality
  <2>5. QED BY <2>3, <2>4 DEF Keys!OverspendBounded
<1>2. QED BY KeyInvariant, <1>1, PTL

\* The counter holds exactly what hits and routed answers used this month.
THEOREM CounterIsOfTheMonth ==
    ASSUME Keys!KeyAssumption
    PROVE  Keys!Spec => []Keys!CountsThisMonth
<1>1. KeyInv => Keys!CountsThisMonth
  BY DEF KeyInv
<1>2. QED BY KeyInvariant, <1>1, PTL
=============================================================================
