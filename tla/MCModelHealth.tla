--------------------------- MODULE MCModelHealth ---------------------------
(* Backoff schedules and node names for the model-checking of ModelHealth. *)
EXTENDS ModelHealth, TLC

CONSTANTS box, alias

\* Tiers of growing length, the last one the ceiling.
Growing == 0 :> 1 @@ 1 :> 2 @@ 2 :> 3

Short == 0 :> 1 @@ 1 :> 2

\* A node whose name is the provider the requests use.
SameName == box :> box

\* A node found by its API type ("ollama"), named otherwise.
OtherName == alias :> box @@ box :> box
=============================================================================
