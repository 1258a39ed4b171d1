------------------------------ MODULE PeerState -----------------------------
(***************************************************************************)
(* The table of mesh peers kept from UDP heartbeats                        *)
(* (src/src/lib/mesh/peerState.js, heartbeat.js).                          *)
(*                                                                         *)
(* A heartbeat carries the clock of its sender, read in the same turn as   *)
(* the state it reports, so a packet is its sender and its stamp.  The     *)
(* network (external) may lose, delay, reorder and duplicate packets.      *)
(* Between the await of isPeerAllowed and the write of the row others run. *)
(* Time is counted in ticks; clocks differ by a constant.                  *)
(***************************************************************************)
EXTENDS Integers

CONSTANTS
    Nodes, None,
    Expiry,    \* PEER_EXPIRY_MS
    Skews,     \* how far the clock of a peer may be ahead of ours
    MaxTime    \* bound on the time

ASSUME PeerAssumption ==
    /\ Expiry \in Nat
    /\ Skews \subseteq Int
    /\ MaxTime \in Nat
    /\ None \notin Int

VARIABLES
    now, skew,
    packets,     \* packets[n]: stamps of the heartbeats n has sent
    admitted,    \* stamps let through by isPeerAllowed, not yet written
    allowed,     \* whether the settings allow the peer
    row,         \* last_seen of the row of n in mesh_peers, or None
    newest,      \* history: the largest stamp written for n, or None
    sent,        \* history: when n sent its last heartbeat, or None
    passed       \* history: when isPeerAllowed last let one through, or None

vars == <<now, skew, packets, admitted, allowed, row, newest, sent, passed>>

Init ==
    /\ now = 0
    /\ skew \in [Nodes -> Skews]
    /\ packets = [n \in Nodes |-> {}]
    /\ admitted = [n \in Nodes |-> {}]
    /\ allowed \in [Nodes -> BOOLEAN]
    /\ row = [n \in Nodes |-> None]
    /\ newest = [n \in Nodes |-> None]
    /\ sent = [n \in Nodes |-> None]
    /\ passed = [n \in Nodes |-> None]

\* buildHeartbeat and broadcastHeartbeat on n, for as long as it is up.
Send(n) ==
    /\ packets' = [packets EXCEPT ![n] = @ \cup {now + skew[n]}]
    /\ sent' = [sent EXCEPT ![n] = now]
    /\ UNCHANGED <<now, skew, admitted, allowed, row, newest, passed>>

\* handlePacket up to its await: a copy of a packet arrives, whatever became
\* of the others.  Settings that cannot be read allow everybody.
Admit(n) ==
    /\ \E readable \in BOOLEAN : readable => allowed[n]
    /\ \E t \in packets[n] : admitted' = [admitted EXCEPT ![n] = @ \cup {t}]
    /\ passed' = [passed EXCEPT ![n] = now]
    /\ UNCHANGED <<now, skew, packets, allowed, row, newest, sent>>

AtLeast(t, s) == s = None \/ t >= s
Later(t, s) == IF AtLeast(t, s) THEN t ELSE s

\* Faulty: the row is replaced without comparing the stamps.
UpsertAlways(n) ==
    /\ \E t \in admitted[n] :
         /\ row' = [row EXCEPT ![n] = t]
         /\ newest' = [newest EXCEPT ![n] = Later(t, @)]
         /\ admitted' = [admitted EXCEPT ![n] = @ \ {t}]
    /\ UNCHANGED <<now, skew, packets, allowed, sent, passed>>

\* Faulty: the row is stamped with the clock of the receiver.
UpsertNow(n) ==
    /\ \E t \in admitted[n] :
         /\ row' = [row EXCEPT ![n] = Later(now, @)]
         /\ newest' = [newest EXCEPT ![n] = Later(now, @)]
         /\ admitted' = [admitted EXCEPT ![n] = @ \ {t}]
    /\ UNCHANGED <<now, skew, packets, allowed, sent, passed>>

\* handlePacket after its await: upsertPeer.
Upsert(n) ==
    /\ \E t \in admitted[n] :
         /\ row' = [row EXCEPT ![n] = Later(t, @)]
         /\ newest' = [newest EXCEPT ![n] = Later(t, @)]
         /\ admitted' = [admitted EXCEPT ![n] = @ \ {t}]
    /\ UNCHANGED <<now, skew, packets, allowed, sent, passed>>

Fresh(t) == t # None /\ t >= now - Expiry

\* expirePeers, by its timer.
Expire ==
    /\ row' = [n \in Nodes |-> IF Fresh(row[n]) THEN row[n] ELSE None]
    /\ UNCHANGED <<now, skew, packets, admitted, allowed, newest, sent, passed>>

\* The mesh settings change.
Configure(n) ==
    /\ allowed' = [allowed EXCEPT ![n] = ~@]
    /\ UNCHANGED <<now, skew, packets, admitted, row, newest, sent, passed>>

\* The process restarts; the table is in SQLite.
Restart ==
    /\ admitted' = [n \in Nodes |-> {}]
    /\ UNCHANGED <<now, skew, packets, allowed, row, newest, sent, passed>>

Tick ==
    /\ now < MaxTime
    /\ now' = now + 1
    /\ UNCHANGED <<skew, packets, admitted, allowed, row, newest, sent, passed>>

Next ==
    \/ \E n \in Nodes : Send(n) \/ Admit(n) \/ Upsert(n) \/ Configure(n)
    \/ Expire \/ Restart \/ Tick

Spec == Init /\ [][Next]_vars

-----------------------------------------------------------------------------
(* Properties.                                                             *)

Stamps == (0..MaxTime) \cup UNION {{t + s : t \in 0..MaxTime} : s \in Skews}
Times == (0..MaxTime) \cup {None}

TypeOK ==
    /\ now \in 0..MaxTime
    /\ skew \in [Nodes -> Skews]
    /\ packets \in [Nodes -> SUBSET Stamps]
    /\ admitted \in [Nodes -> SUBSET Stamps]
    /\ allowed \in [Nodes -> BOOLEAN]
    /\ row \in [Nodes -> Stamps \cup {None}]
    /\ newest \in [Nodes -> Stamps \cup {None}]
    /\ sent \in [Nodes -> Times]
    /\ passed \in [Nodes -> Times]

\* getActivePeers: the peers shown, each with its stamp.
Shown == [n \in Nodes |-> IF Fresh(row[n]) THEN row[n] ELSE None]

\* A peer that sends nothing, or that the settings keep out, disappears once
\* the expiry has passed on its clock: late packets, duplicates and rows that
\* were admitted before the change do not hold it.
SilentPeerDisappears ==
    \A n \in Nodes : Shown[n] # None =>
        /\ now - sent[n] <= Expiry + skew[n]
        /\ now - passed[n] <= Expiry + skew[n]

\* Late, duplicated and reordered packets, expiry and restarts together keep
\* the promise of Presence.
Table == INSTANCE Presence WITH shown <- Shown
ImplementsPresence == Table!Spec
=============================================================================
