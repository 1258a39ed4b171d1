---------------------------- MODULE MCSseStream -----------------------------
(* Instances of SseStream for TLC.                                         *)
EXTENDS SseStream, TLC

\* A body that ends without a newline; one with a blank line between frames.
Answers == {
    <<"data", "a", "nl", "data", "head", "tail">>,
    <<"data", "head", "tail", "nl", "nl">>}

Interchangeable == Permutations(Streams)
=============================================================================
