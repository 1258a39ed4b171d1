---------------------------- MODULE MCChatModes -----------------------------
(* Instances of ChatModes for TLC.                                         *)
EXTENDS ChatModes

CONSTANTS p1, p2

\* A single candidate; two accounts of one provider and a third candidate,
\* which a race drops unless the circuit of p1 is open.
Lists == {<<p1>>, <<p1, p2, p2>>}
=============================================================================
