----------------------------- MODULE SseStream ------------------------------
(***************************************************************************)
(* Streams of server-sent events on their way from a provider to a client  *)
(* (the passthrough mode of createSSEStream, src/open-sse/utils/stream.js; *)
(* streamHandler.js for how one ends).                                     *)
(*                                                                         *)
(* A body is a sequence of bytes: "data" opens a frame and "nl" closes its *)
(* line; the text of a frame is made of one-byte characters and of two-    *)
(* byte ones, "head" and "tail".  A chunk is one byte: a longer one is the *)
(* same steps without those of others between them.  What JSON and the     *)
(* rewriting of ids do to a frame other than keep its text is left out, as *)
(* are lines that are no frames.                                           *)
(*                                                                         *)
(* The decoder is one for the whole module: it keeps the head of a         *)
(* character for the next call, whichever stream that call is of.          *)
(***************************************************************************)
EXTENDS Naturals, Sequences

CONSTANTS
    Streams, None,
    Bodies     \* what a provider may send

Characters == {"a", "head", "tail"}

\* Lines that are frames or blank, of whole characters; the last one may be cut.
Framed(bytes) ==
    \A i \in 1..Len(bytes) :
        /\ bytes[i] \in Characters <=> i > 1 /\ bytes[i - 1] # "nl" /\ bytes[i] # "nl"
        /\ bytes[i] = "tail" <=> i > 1 /\ bytes[i - 1] = "head"

ASSUME StreamAssumption ==
    /\ None \notin Streams
    /\ Bodies \subseteq Seq(Characters \cup {"data", "nl"})
    /\ \A bytes \in Bodies : Framed(bytes)

VARIABLES
    body,      \* what the provider sends
    sent,      \* how much of it has arrived
    held,      \* the stream whose head sharedDecoder holds, or None
    buffer,    \* decoded and not yet a line
    answer,    \* history: the text of the frames forwarded
    phase,     \* "open", "ended", "left"
    met        \* history: streams that shared a character with another one

vars == <<body, sent, held, buffer, answer, phase, met>>

Init ==
    /\ body \in [Streams -> Bodies]
    /\ sent = [s \in Streams |-> 0]
    /\ held = None
    /\ buffer = [s \in Streams |-> <<>>]
    /\ answer = [s \in Streams |-> <<>>]
    /\ phase = [s \in Streams |-> "open"]
    /\ met = {}

-----------------------------------------------------------------------------
\* What the head that is held becomes when no tail follows it.
Stray == IF held = None THEN <<>> ELSE <<"bad">>

\* Faulty: each chunk is decoded by itself.
DecodedAlone(s, byte) == IF byte \in {"head", "tail"} THEN <<"bad">> ELSE <<byte>>

\* sharedDecoder.decode(chunk, { stream: true })
Decoded(s, byte) ==
    CASE byte = "head" -> Stray
      [] byte = "tail" -> IF held = None THEN <<"bad">>
                          ELSE IF held = s THEN <<"head", "tail">>
                          ELSE <<"mixed">>
      [] OTHER -> Stray \o <<byte>>

\* The text of a line, for a client: it skips a line that does not begin as a
\* frame, and there is none in a frame that was dropped.
TextOf(line) == IF line # <<>> /\ Head(line) = "data" THEN Tail(line) ELSE <<>>

Met(s) == IF held \in {None, s} THEN {} ELSE {s, held}

\* transform: what is decoded is put in the buffer, whole lines are forwarded.
Transform(s) ==
    /\ phase[s] = "open"
    /\ sent[s] < Len(body[s])
    /\ LET byte == body[s][sent[s] + 1]
           text == buffer[s] \o Decoded(s, byte)
       IN  \/ /\ byte = "nl"
              /\ answer' = [answer EXCEPT ![s] = @ \o TextOf(SubSeq(text, 1, Len(text) - 1))]
              /\ buffer' = [buffer EXCEPT ![s] = <<>>]
              /\ held' = None
           \/ /\ byte # "nl"
              /\ buffer' = [buffer EXCEPT ![s] = text]
              /\ held' = IF byte = "head" THEN s ELSE None
              /\ UNCHANGED answer
    /\ sent' = [sent EXCEPT ![s] = @ + 1]
    /\ met' = met \cup Met(s)
    /\ UNCHANGED <<body, phase>>

\* flush: the provider is done, be it in the middle of a line, but not of a
\* character.  The decoder is emptied, and what is left is forwarded.
Flush(s) ==
    /\ phase[s] = "open"
    /\ held # s
    /\ phase' = [phase EXCEPT ![s] = "ended"]
    /\ answer' = [answer EXCEPT ![s] = @ \o TextOf(buffer[s] \o Stray)]
    /\ buffer' = [buffer EXCEPT ![s] = <<>>]
    /\ held' = None
    /\ met' = met \cup Met(s)
    /\ UNCHANGED <<body, sent>>

\* The client leaves, or the connection to the provider breaks: flush is not
\* called, and nothing empties the decoder.
Leave(s) ==
    /\ phase[s] = "open"
    /\ phase' = [phase EXCEPT ![s] = "left"]
    /\ UNCHANGED <<body, sent, held, buffer, answer, met>>

Next == \E s \in Streams : Transform(s) \/ Flush(s) \/ Leave(s)

Spec == Init /\ [][Next]_vars

-----------------------------------------------------------------------------
(* Properties.                                                             *)

TypeOK ==
    /\ body \in [Streams -> Bodies]
    /\ \A s \in Streams :
         /\ sent[s] \in 0..Len(body[s])
         /\ buffer[s] \in Seq(Characters \cup {"data", "bad", "mixed"})
         /\ answer[s] \in Seq(Characters \cup {"data", "bad", "mixed"})
         /\ phase[s] \in {"open", "ended", "left"}
    /\ held \in Streams \cup {None}
    /\ met \subseteq Streams

\* The text among the bytes.
TextIn(bytes) ==
    LET upTo[n \in 0..Len(bytes)] ==
          IF n = 0 THEN <<>>
          ELSE IF bytes[n] \notin {"data", "nl"} THEN Append(upTo[n - 1], bytes[n])
          ELSE upTo[n - 1]
    IN upTo[Len(bytes)]

\* The text forwarded for s, with what is still in the buffer and in the
\* decoder, is the text the provider sent.
Kept(s) ==
    answer[s] \o TextIn(buffer[s]) \o (IF held = s THEN <<"head">> ELSE <<>>)
        = TextIn(SubSeq(body[s], 1, sent[s]))

\* However chunks cut lines and characters, and however the chunks of several
\* streams alternate, no text of a stream is lost, added or changed, unless a
\* character of it was cut while a chunk of another stream came in.
ContentKept == \A s \in Streams \ met : Kept(s)

\* "concatenating `delta.content` across the stream still yields the
\* assistant's answer and nothing else", src/open-sse/utils/streamHelpers.js:39.
ContentExact == \A s \in Streams : Kept(s)
=============================================================================
