--------------------------- MODULE MCRateLimiter ---------------------------
(* Instances of RateLimiter for TLC: a rolling bucket of requests and a    *)
(* fixed one of tokens.                                                    *)
EXTENDS RateLimiter, TLC

CONSTANTS rpm, tpd

Units == (rpm :> "requests") @@ (tpd :> "tokens")

\* What a response says of requests and of tokens: nothing; a remainder, and a
\* reset for tokens, of which too many were used; the reset alone; a reset that
\* cannot be read.
Answers ==
    LET Says(remaining, reset) == [remaining |-> remaining, reset |-> reset] IN
    {[requests |-> Silent, tokens |-> Silent],
     [requests |-> Says(0, None), tokens |-> Says(-1, 2)],
     [requests |-> Silent, tokens |-> Says(None, 1)],
     [requests |-> Silent, tokens |-> Says(None, Never)]}

OneEach == [b \in Buckets |-> 1]

TooMany == (rpm :> 0) @@ (tpd :> 1)
=============================================================================
