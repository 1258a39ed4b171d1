---------------------------- MODULE MCCommunity -----------------------------
(* Instances of Community for TLC.                                         *)
EXTENDS Community, TLC

Interchangeable == Permutations(Voters)
=============================================================================
