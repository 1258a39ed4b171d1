--------------------------- MODULE MCOrchestrator ---------------------------
(* Instances of Orchestrator for TLC.                                      *)
EXTENDS Orchestrator, TLC

CONSTANTS p1, p2

\* No account; failover to another provider.
ShortLists == {<<>>, <<p1, p2>>}

\* And two accounts of one provider.
Lists == ShortLists \cup {<<p2, p2>>}

Interchangeable == Permutations(Requests)
=============================================================================
