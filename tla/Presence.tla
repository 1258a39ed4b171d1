------------------------------ MODULE Presence ------------------------------
(***************************************************************************)
(* What a node promises to show of its peers, whatever happens to their    *)
(* heartbeats: a peer is shown with the newest one taken in from it, or    *)
(* not at all, and a peer that was hidden comes back only with a newer one.*)
(***************************************************************************)
EXTENDS Integers

CONSTANTS Nodes, Stamps, None

VARIABLES
    shown,    \* stamp of the heartbeat a peer is shown with, or None
    newest    \* the newest stamp taken in from it, or None

vars == <<shown, newest>>

Newer(t, n) == newest[n] = None \/ t > newest[n]

Init ==
    /\ shown = [n \in Nodes |-> None]
    /\ newest = [n \in Nodes |-> None]

TakeIn(n, t) ==
    /\ Newer(t, n)
    /\ newest' = [newest EXCEPT ![n] = t]
    /\ \E s \in {t, None} : shown' = [shown EXCEPT ![n] = s]

Hide(gone) ==
    /\ shown' = [n \in Nodes |-> IF n \in gone THEN None ELSE shown[n]]
    /\ UNCHANGED newest

Next ==
    \/ \E n \in Nodes, t \in Stamps : TakeIn(n, t)
    \/ \E gone \in SUBSET Nodes : Hide(gone)

Spec == Init /\ [][Next]_vars
=============================================================================
