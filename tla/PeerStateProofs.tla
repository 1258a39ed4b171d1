--------------------------- MODULE PeerStateProofs ---------------------------
(***************************************************************************)
(* Proofs about PeerState for every set of peers, expiry and clock skew:   *)
(* a silent peer disappears, and the table implements Presence.            *)
(***************************************************************************)
EXTENDS PeerState, TLAPS

\* A stamp s of n lies no later than time h, read on the clock of n.
Before(s, h, n) == h # None /\ s <= h + skew[n]

\* What is in the network, past the check, or in the table was sent, and
\* what is past the check or in the table was let through.
Heard ==
    \A n \in Nodes :
        /\ sent[n] # None => sent[n] <= now
        /\ passed[n] # None => passed[n] <= now
        /\ \A t \in packets[n] : Before(t, sent[n], n)
        /\ \A t \in admitted[n] : Before(t, sent[n], n) /\ Before(t, passed[n], n)
        /\ row[n] # None => Before(row[n], sent[n], n) /\ Before(row[n], passed[n], n)

\* The row never runs ahead of the newest stamp, and holds it while it is fresh.
RowIsNewest ==
    \A n \in Nodes :
        /\ row[n] # None => newest[n] # None /\ row[n] <= newest[n]
        /\ Fresh(newest[n]) => row[n] = newest[n]

IInv == TypeOK /\ Heard /\ RowIsNewest

-----------------------------------------------------------------------------
(* The inductive invariant.                                                *)

\* Stamps are integers and differ from None.
LEMMA StampsAreInts == Stamps \subseteq Int /\ None \notin Stamps /\ Times \subseteq Int \cup {None}
BY PeerAssumption DEF Stamps, Times

\* What a heartbeat is stamped with is a stamp.
LEMMA ClockIsStamp == ASSUME NEW t \in 0..MaxTime, NEW s \in Skews PROVE t + s \in Stamps
<1>1. t + s \in {u + s : u \in 0..MaxTime}
  OBVIOUS
<1>2. QED BY <1>1 DEF Stamps

\* The initial states satisfy the inductive invariant.
LEMMA InitIInv == Init => IInv
<1> SUFFICES ASSUME Init PROVE IInv
  OBVIOUS
<1>1. TypeOK
  BY PeerAssumption DEF Init, TypeOK, Times
<1>2. Heard
  BY DEF Init, Heard
<1>3. RowIsNewest
  BY DEF Init, RowIsNewest, Fresh
<1>4. QED BY <1>1, <1>2, <1>3 DEF IInv

\* Every step preserves type correctness.
LEMMA TypeInductive == TypeOK /\ [Next]_vars => TypeOK'
<1> SUFFICES ASSUME TypeOK, [Next]_vars PROVE TypeOK'
  OBVIOUS
<1> USE PeerAssumption DEF TypeOK
<1>1. ASSUME NEW n \in Nodes, Send(n) PROVE TypeOK'
  <2>1. now + skew[n] \in Stamps
    BY ClockIsStamp
  <2>2. now \in Times
    BY DEF Times
  <2>3. QED BY <1>1, <2>1, <2>2 DEF Send
<1>2. ASSUME NEW n \in Nodes, Admit(n) PROVE TypeOK'
  <2>1. now \in Times
    BY DEF Times
  <2>2. QED BY <1>2, <2>1 DEF Admit
<1>3. ASSUME NEW n \in Nodes, Upsert(n) PROVE TypeOK'
  BY <1>3 DEF Upsert, Later
<1>4. ASSUME NEW n \in Nodes, Configure(n) PROVE TypeOK'
  BY <1>4 DEF Configure
<1>5. CASE Expire
  BY <1>5 DEF Expire
<1>6. CASE Restart
  BY <1>6 DEF Restart
<1>7. CASE Tick
  BY <1>7 DEF Tick
<1>8. CASE UNCHANGED vars
  BY <1>8 DEF vars
<1>9. QED BY <1>1, <1>2, <1>3, <1>4, <1>5, <1>6, <1>7, <1>8 DEF Next

\* The values of one peer are integers or None.
LEMMA PeerValues ==
    ASSUME TypeOK, NEW n \in Nodes
    PROVE  /\ now \in Int /\ skew[n] \in Int /\ Expiry \in Int
           /\ packets[n] \subseteq Int /\ admitted[n] \subseteq Int
           /\ row[n] \in Int \cup {None} /\ newest[n] \in Int \cup {None}
           /\ sent[n] \in Int \cup {None} /\ passed[n] \in Int \cup {None}
           /\ None \notin Int
<1>1. now \in Int /\ skew[n] \in Int /\ Expiry \in Int /\ None \notin Int
  <2>1. now \in 0..MaxTime /\ skew[n] \in Skews
    BY DEF TypeOK
  <2>2. now \in Int
    BY <2>1, PeerAssumption
  <2>3. skew[n] \in Int
    BY <2>1, PeerAssumption
  <2>4. Expiry \in Int /\ None \notin Int
    BY PeerAssumption
  <2>5. QED BY <2>2, <2>3, <2>4
<1>2. packets[n] \subseteq Int /\ admitted[n] \subseteq Int
  BY StampsAreInts DEF TypeOK
<1>3. row[n] \in Int \cup {None} /\ newest[n] \in Int \cup {None}
  BY StampsAreInts DEF TypeOK
<1>4. sent[n] \in Int \cup {None} /\ passed[n] \in Int \cup {None}
  BY StampsAreInts DEF TypeOK
<1>5. QED BY <1>1, <1>2, <1>3, <1>4

\* Every step preserves what is known of the stamps on their way.
LEMMA HeardInductive == IInv /\ [Next]_vars => Heard'
<1> SUFFICES ASSUME IInv, [Next]_vars PROVE Heard'
  OBVIOUS
<1>0. TypeOK /\ Heard
  BY DEF IInv
<1>1. ASSUME NEW n \in Nodes, Send(n) PROVE Heard'
  <2>1. ASSUME NEW m \in Nodes, m # n PROVE sent'[m] = sent[m] /\ packets'[m] = packets[m]
    BY <1>1, <2>1, <1>0 DEF Send, TypeOK
  <2>2. sent'[n] = now /\ packets'[n] = packets[n] \cup {now + skew[n]}
    BY <1>1, <1>0 DEF Send, TypeOK
  <2>3. UNCHANGED <<now, skew, admitted, row, passed>>
    BY <1>1 DEF Send
  <2>4. SUFFICES ASSUME NEW m \in Nodes
        PROVE /\ sent'[m] # None => sent'[m] <= now
              /\ passed[m] # None => passed[m] <= now
              /\ \A t \in packets'[m] : sent'[m] # None /\ t <= sent'[m] + skew[m]
              /\ \A t \in admitted[m] : /\ sent'[m] # None /\ t <= sent'[m] + skew[m]
                                        /\ passed[m] # None /\ t <= passed[m] + skew[m]
              /\ row[m] # None => /\ sent'[m] # None /\ row[m] <= sent'[m] + skew[m]
                                  /\ passed[m] # None /\ row[m] <= passed[m] + skew[m]
    BY <2>3 DEF Heard, Before
  <2>5. CASE m = n
    BY <1>0, <2>2, <2>5, PeerValues DEF Heard, Before
  <2>6. CASE m # n
    BY <1>0, <2>1, <2>6 DEF Heard, Before
  <2>7. QED BY <2>5, <2>6
<1>2. ASSUME NEW n \in Nodes, Admit(n) PROVE Heard'
  <2>1. ASSUME NEW m \in Nodes, m # n PROVE passed'[m] = passed[m] /\ admitted'[m] = admitted[m]
    BY <1>2, <2>1, <1>0 DEF Admit, TypeOK
  <2>2. PICK p \in packets[n] : admitted' = [admitted EXCEPT ![n] = @ \cup {p}]
    BY <1>2 DEF Admit
  <2>3. passed'[n] = now /\ admitted'[n] = admitted[n] \cup {p}
    BY <1>2, <1>0, <2>2 DEF Admit, TypeOK
  <2>4. UNCHANGED <<now, skew, packets, row, sent>>
    BY <1>2 DEF Admit
  <2>5. SUFFICES ASSUME NEW m \in Nodes
        PROVE /\ sent[m] # None => sent[m] <= now
              /\ passed'[m] # None => passed'[m] <= now
              /\ \A t \in packets[m] : sent[m] # None /\ t <= sent[m] + skew[m]
              /\ \A t \in admitted'[m] : /\ sent[m] # None /\ t <= sent[m] + skew[m]
                                         /\ passed'[m] # None /\ t <= passed'[m] + skew[m]
              /\ row[m] # None => /\ sent[m] # None /\ row[m] <= sent[m] + skew[m]
                                  /\ passed'[m] # None /\ row[m] <= passed'[m] + skew[m]
    BY <2>4 DEF Heard, Before
  <2>6. CASE m = n
    BY <1>0, <2>3, <2>6, PeerValues DEF Heard, Before
  <2>7. CASE m # n
    BY <1>0, <2>1, <2>7 DEF Heard, Before
  <2>8. QED BY <2>6, <2>7
<1>3. ASSUME NEW n \in Nodes, Upsert(n) PROVE Heard'
  <2>1. PICK u \in admitted[n] :
          /\ row' = [row EXCEPT ![n] = Later(u, @)]
          /\ admitted' = [admitted EXCEPT ![n] = @ \ {u}]
    BY <1>3 DEF Upsert
  <2>2. UNCHANGED <<now, skew, packets, sent, passed>>
    BY <1>3 DEF Upsert
  <2>3. SUFFICES ASSUME NEW m \in Nodes
        PROVE /\ sent[m] # None => sent[m] <= now
              /\ passed[m] # None => passed[m] <= now
              /\ \A t \in packets[m] : Before(t, sent[m], m)
              /\ \A t \in admitted'[m] : Before(t, sent[m], m) /\ Before(t, passed[m], m)
              /\ row'[m] # None =>
                   Before(row'[m], sent[m], m) /\ Before(row'[m], passed[m], m)
    BY <2>2 DEF Heard, Before
  <2>4. row'[m] \in {row[m], u} /\ (m # n => row'[m] = row[m])
    BY <1>0, <2>1 DEF TypeOK, Later
  <2>5. admitted'[m] \subseteq admitted[m]
    BY <1>0, <2>1 DEF TypeOK
  <2>6. QED BY <1>0, <2>4, <2>5 DEF Heard
<1>4. CASE UNCHANGED <<now, skew, packets, admitted, row, sent, passed>>
  BY <1>0, <1>4 DEF Heard, Before
<1>5. CASE Expire
  <2>1. \A m \in Nodes : row'[m] \in {row[m], None}
    BY <1>5 DEF Expire
  <2>2. UNCHANGED <<now, skew, packets, admitted, sent, passed>>
    BY <1>5 DEF Expire
  <2>3. QED BY <1>0, <2>1, <2>2 DEF Heard, Before
<1>6. CASE Restart
  BY <1>0, <1>6 DEF Restart, Heard, Before
<1>7. CASE Tick
  <2>1. now' = now + 1 /\ UNCHANGED <<skew, packets, admitted, row, sent, passed>>
    BY <1>7 DEF Tick
  <2>2. ASSUME NEW m \in Nodes
        PROVE  /\ sent[m] # None => sent[m] <= now + 1
               /\ passed[m] # None => passed[m] <= now + 1
    BY <1>0, PeerValues DEF Heard
  <2>3. QED BY <1>0, <2>1, <2>2 DEF Heard, Before
<1>8. QED
  BY <1>1, <1>2, <1>3, <1>4, <1>5, <1>6, <1>7 DEF Next, Configure, vars

\* Every step preserves that the row follows the newest stamp.
LEMMA RowInductive == IInv /\ [Next]_vars => RowIsNewest'
<1> SUFFICES ASSUME IInv, [Next]_vars PROVE RowIsNewest'
  OBVIOUS
<1>0. TypeOK /\ RowIsNewest
  BY DEF IInv
<1>1. ASSUME NEW n \in Nodes, Upsert(n) PROVE RowIsNewest'
  <2>1. PICK u \in admitted[n] :
          /\ row' = [row EXCEPT ![n] = Later(u, @)]
          /\ newest' = [newest EXCEPT ![n] = Later(u, @)]
    BY <1>1 DEF Upsert
  <2>2. now' = now
    BY <1>1 DEF Upsert
  <2>3. SUFFICES ASSUME NEW m \in Nodes
        PROVE /\ row'[m] # None => newest'[m] # None /\ row'[m] <= newest'[m]
              /\ Fresh(newest'[m]) => row'[m] = newest'[m]
    BY <2>2 DEF RowIsNewest, Fresh
  <2>4. CASE m # n
    BY <1>0, <2>1, <2>4 DEF TypeOK, RowIsNewest
  <2>5. CASE m = n
    <3>1. row'[n] = Later(u, row[n]) /\ newest'[n] = Later(u, newest[n])
      BY <1>0, <2>1 DEF TypeOK
    <3>2. u \in Int
      BY <1>0, PeerValues
    <3>3. /\ row[n] # None => newest[n] # None /\ row[n] <= newest[n]
          /\ newest[n] # None /\ newest[n] >= now - Expiry => row[n] = newest[n]
      BY <1>0 DEF RowIsNewest, Fresh
    <3>4. row'[n] # None => newest'[n] # None /\ row'[n] <= newest'[n]
      BY <1>0, <3>1, <3>2, <3>3, PeerValues DEF Later, AtLeast
    <3>5. newest'[n] # None /\ newest'[n] >= now - Expiry => row'[n] = newest'[n]
      BY <1>0, <3>1, <3>2, <3>3, PeerValues DEF Later, AtLeast
    <3>6. QED BY <2>5, <3>4, <3>5 DEF Fresh
  <2>6. QED BY <2>4, <2>5
<1>2. CASE UNCHANGED <<now, row, newest>>
  BY <1>0, <1>2 DEF RowIsNewest, Fresh
<1>3. CASE Expire
  <2>1. now' = now /\ newest' = newest
    BY <1>3 DEF Expire
  <2>2. \A m \in Nodes : row'[m] = IF Fresh(row[m]) THEN row[m] ELSE None
    BY <1>3 DEF Expire
  <2>3. SUFFICES ASSUME NEW m \in Nodes
        PROVE /\ row'[m] # None => newest[m] # None /\ row'[m] <= newest[m]
              /\ Fresh(newest[m]) => row'[m] = newest[m]
    BY <2>1 DEF RowIsNewest, Fresh
  <2>4. /\ row[m] # None => newest[m] # None /\ row[m] <= newest[m]
        /\ Fresh(newest[m]) => row[m] = newest[m]
    BY <1>0 DEF RowIsNewest
  <2>5. row'[m] \in {row[m], None} /\ (Fresh(row[m]) => row'[m] = row[m])
    BY <2>2
  <2>6. QED BY <2>4, <2>5
<1>4. CASE Tick
  <2>1. now' = now + 1 /\ UNCHANGED <<row, newest>>
    BY <1>4 DEF Tick
  <2>2. ASSUME NEW m \in Nodes, newest[m] # None, newest[m] >= now + 1 - Expiry
        PROVE  Fresh(newest[m])
    BY <1>0, <2>2, PeerValues DEF Fresh
  <2>3. SUFFICES ASSUME NEW m \in Nodes
        PROVE /\ row[m] # None => newest[m] # None /\ row[m] <= newest[m]
              /\ newest[m] # None /\ newest[m] >= now + 1 - Expiry => row[m] = newest[m]
    BY <1>0, <2>1, PeerValues DEF RowIsNewest, Fresh
  <2>4. QED BY <1>0, <2>2 DEF RowIsNewest
<1>5. QED
  BY <1>1, <1>2, <1>3, <1>4 DEF Next, Send, Admit, Configure, Restart, vars

\* The invariant holds in every state.
LEMMA PeerInvariant == Spec => []IInv
<1>1. IInv /\ [Next]_vars => IInv'
  BY TypeInductive, HeardInductive, RowInductive DEF IInv
<1>2. QED BY <1>1, InitIInv, PTL DEF Spec

-----------------------------------------------------------------------------
(* The theorems.                                                           *)

\* Type correctness of the table (src/src/lib/mesh/peerState.js).
THEOREM PeerTypeCorrect == Spec => []TypeOK
<1>1. IInv => TypeOK
  BY DEF IInv
<1>2. QED BY <1>1, PeerInvariant, PTL

\* For every expiry and skew: however many copies of its heartbeats are still
\* on their way, a peer that fell silent, or was forbidden, stops being shown.
THEOREM SilenceIsNoticed == Spec => []SilentPeerDisappears
<1>1. IInv => SilentPeerDisappears
  <2> SUFFICES ASSUME IInv, NEW n \in Nodes, Shown[n] # None
               PROVE  /\ now - sent[n] <= Expiry + skew[n]
                      /\ now - passed[n] <= Expiry + skew[n]
    BY DEF SilentPeerDisappears
  <2>1. TypeOK /\ Heard
    BY DEF IInv
  <2>2. row[n] # None /\ row[n] >= now - Expiry
    BY DEF Shown, Fresh
  <2>3. Before(row[n], sent[n], n) /\ Before(row[n], passed[n], n)
    BY <2>1, <2>2 DEF Heard
  <2>4. QED BY <2>1, <2>2, <2>3, PeerValues DEF Before
<1>2. QED BY <1>1, PeerInvariant, PTL

\* Writing a heartbeat takes it in or changes nothing that is shown.
LEMMA UpsertIsTakeIn ==
    ASSUME IInv, NEW n \in Nodes, Upsert(n)
    PROVE  (\E t \in Stamps : Table!TakeIn(n, t)) \/ UNCHANGED <<Shown, newest>>
<1>0. TypeOK /\ RowIsNewest
  BY DEF IInv
<1>1. PICK u \in admitted[n] :
        /\ row' = [row EXCEPT ![n] = Later(u, @)]
        /\ newest' = [newest EXCEPT ![n] = Later(u, @)]
  BY DEF Upsert
<1>2. u \in Stamps /\ u \in Int
  BY <1>0, PeerValues DEF TypeOK
<1>3. row'[n] = Later(u, row[n]) /\ newest'[n] = Later(u, newest[n])
  BY <1>0, <1>1 DEF TypeOK
<1>4. now' = now
  BY DEF Upsert
<1>5. \A m \in Nodes : m # n => row'[m] = row[m]
  BY <1>0, <1>1 DEF TypeOK
<1>6. Shown' = [Shown EXCEPT ![n] = IF Fresh(row'[n]) THEN row'[n] ELSE None]
  BY <1>4, <1>5 DEF Shown, Fresh
<1>7. CASE Table!Newer(u, n)
  <2>1. row'[n] = u /\ newest'[n] = u
    BY <1>0, <1>2, <1>3, <1>7, PeerValues DEF RowIsNewest, Table!Newer, Later, AtLeast
  <2>2. newest' = [newest EXCEPT ![n] = u]
    BY <1>0, <1>1, <1>3, <2>1 DEF TypeOK
  <2>3. \E s \in {u, None} : Shown' = [Shown EXCEPT ![n] = s]
    BY <1>6, <2>1
  <2>4. QED BY <1>2, <1>7, <2>2, <2>3 DEF Table!TakeIn
<1>8. CASE ~Table!Newer(u, n)
  <2>1. newest[n] # None /\ u <= newest[n] /\ newest[n] \in Int
    BY <1>0, <1>2, <1>8, PeerValues DEF Table!Newer
  <2>2. newest'[n] = newest[n]
    BY <1>0, <1>2, <1>3, <2>1 DEF Later, AtLeast
  <2>3. newest' = newest
    BY <1>0, <1>1, <1>3, <2>2 DEF TypeOK
  <2>4. (IF Fresh(row'[n]) THEN row'[n] ELSE None) = Shown[n]
    <3>1. CASE Fresh(newest[n])
      <4>1. row[n] = newest[n]
        BY <1>0, <3>1 DEF RowIsNewest
      <4>2. row'[n] = row[n]
        BY <1>2, <1>3, <2>1, <4>1 DEF Later, AtLeast
      <4>3. QED BY <4>2 DEF Shown
    <3>2. CASE ~Fresh(newest[n])
      <4>1. \A s \in Int : s <= newest[n] => ~Fresh(s)
        BY <1>0, <2>1, <3>2, PeerValues DEF Fresh
      <4>2. ~Fresh(row[n])
        BY <1>0, <4>1, PeerValues DEF RowIsNewest, Fresh
      <4>3. row'[n] \in {u, row[n]}
        BY <1>3 DEF Later
      <4>4. ~Fresh(row'[n])
        BY <1>2, <2>1, <4>1, <4>2, <4>3
      <4>5. QED BY <4>2, <4>4 DEF Shown
    <3>3. QED BY <3>1, <3>2
  <2>5. Shown' = Shown
    BY <1>6, <2>4 DEF Shown
  <2>6. QED BY <2>3, <2>5
<1>9. QED BY <1>7, <1>8

\* The passing of time only hides peers.
LEMMA TickIsHide == ASSUME IInv, Tick PROVE \E gone \in SUBSET Nodes : Table!Hide(gone)
<1> DEFINE gone == {n \in Nodes : Shown'[n] = None}
<1>0. TypeOK
  BY DEF IInv
<1>1. now' = now + 1 /\ row' = row /\ newest' = newest
  BY DEF Tick
<1>2. ASSUME NEW n \in Nodes PROVE Shown'[n] \in {Shown[n], None}
  <2>1. Shown'[n] = IF row[n] # None /\ row[n] >= now + 1 - Expiry THEN row[n] ELSE None
    BY <1>0, <1>1, PeerValues DEF Shown, Fresh
  <2>2. QED BY <1>0, <2>1, PeerValues DEF Shown, Fresh
<1>3. Shown' = [n \in Nodes |-> IF n \in gone THEN None ELSE Shown[n]]
  BY <1>2 DEF Shown
<1>4. QED BY <1>1, <1>3 DEF Table!Hide

\* Every step of the table is a step of Presence or leaves it unchanged.
LEMMA StepImplementsPresence == IInv /\ [Next]_vars => [Table!Next]_(Table!vars)
<1> SUFFICES ASSUME IInv, [Next]_vars PROVE Table!Next \/ UNCHANGED <<Shown, newest>>
  BY DEF Table!vars
<1>1. ASSUME NEW n \in Nodes, Upsert(n) PROVE Table!Next \/ UNCHANGED <<Shown, newest>>
  BY <1>1, UpsertIsTakeIn DEF Table!Next
<1>2. CASE UNCHANGED <<now, row, newest>>
  BY <1>2 DEF Shown, Fresh
<1>3. CASE Expire
  <2>1. now' = now /\ newest' = newest
    BY <1>3 DEF Expire
  <2>2. \A m \in Nodes : row'[m] = IF Fresh(row[m]) THEN row[m] ELSE None
    BY <1>3 DEF Expire
  <2>3. \A m \in Nodes : Shown'[m] = Shown[m]
    BY <2>1, <2>2 DEF Shown, Fresh
  <2>4. Shown' = Shown
    BY <2>3 DEF Shown
  <2>5. QED BY <2>1, <2>4
<1>4. CASE Tick
  BY <1>4, TickIsHide DEF Table!Next
<1>5. QED
  BY <1>1, <1>2, <1>3, <1>4 DEF Next, Send, Admit, Configure, Restart, vars

\* The table implements Presence: whatever the network does, a peer is shown
\* with the newest heartbeat taken in, and comes back only with a newer one.
THEOREM PeersImplementPresence == Spec => ImplementsPresence
<1>1. Init => Table!Init
  BY DEF Init, Table!Init, Shown, Fresh
<1>2. QED
  BY <1>1, PeerInvariant, StepImplementsPresence, PTL DEF Spec, ImplementsPresence, Table!Spec
=============================================================================
