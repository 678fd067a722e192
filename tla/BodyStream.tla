----------------------------- MODULE BodyStream -----------------------------
(***************************************************************************)
(* What a request handler is promised of request.stream: it reads the      *)
(* chunks of its own request's body, each once and in the order the parser *)
(* found them, and sees the end exactly when the body ended and every      *)
(* chunk was read.  RequestStream is shown to implement this.              *)
(***************************************************************************)
EXTENDS Naturals, Sequences

VARIABLES
    msg,    \* how many requests the connection has seen; the current one
    open,   \* the current request has not been answered
    sent,   \* how many chunks of its body have been received
    ended,  \* its body has been received completely
    got,    \* the chunks its handler has read
    eof     \* its handler has seen the end of the stream

vars == <<msg, open, sent, ended, got, eof>>

Chunk(m, i) == [msg |-> m, n |-> i]

Init ==
    /\ msg = 0 /\ open = FALSE
    /\ sent = 0 /\ ended = TRUE
    /\ got = <<>> /\ eof = FALSE

\* The headers of the next request, perhaps with the beginning of its body.
Begin ==
    /\ ~open /\ ended
    /\ msg' = msg + 1
    /\ open' = TRUE
    /\ sent' \in Nat
    /\ ended' \in BOOLEAN
    /\ got' = <<>>
    /\ eof' = FALSE

Receive ==
    /\ ~ended
    /\ sent' \in Nat /\ sent' >= sent
    /\ ended' \in BOOLEAN
    /\ UNCHANGED <<msg, open, got, eof>>

Deliver ==
    /\ open /\ ~eof
    /\ Len(got) < sent
    /\ got' = Append(got, Chunk(msg, Len(got) + 1))
    /\ UNCHANGED <<msg, open, sent, ended, eof>>

SeeEnd ==
    /\ open /\ ~eof
    /\ ended /\ Len(got) = sent
    /\ eof' = TRUE
    /\ UNCHANGED <<msg, open, sent, ended, got>>

\* The answer; whatever the handler did not read is gone.
Close ==
    /\ open
    /\ open' = FALSE
    /\ eof' = FALSE
    /\ UNCHANGED <<msg, sent, ended, got>>

Next == Begin \/ Receive \/ Deliver \/ SeeEnd \/ Close

Spec == Init /\ [][Next]_vars
=============================================================================
