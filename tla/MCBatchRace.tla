---------------------------- MODULE MCBatchRace -----------------------------
(* Instances of BatchRace for TLC.                                         *)
EXTENDS BatchRace, TLC

CONSTANTS p1, p2

\* A single candidate; two accounts of one provider and a third candidate,
\* beyond Parallel unless the circuit of p1 is open.
Lists == {<<p1>>, <<p1, p2, p2>>}
=============================================================================
