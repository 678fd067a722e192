--------------------------- MODULE RequestStream ---------------------------
(***************************************************************************)
(* The body of the requests of one connection, from the parser's callbacks *)
(* to the handler that reads request.stream:                               *)
(*                                                                         *)
(*   parser   on_headers_complete, on_body, on_message_complete            *)
(*            (protocol/cprotocol.pyx), called while one segment is fed    *)
(*   handler  the task that iterates Stream (request/request.pyx) and ends *)
(*            by answering, by raising, or because its timer fires         *)
(*   answer   the part of Connection.after_response that concerns the      *)
(*            stream: resume_reading and Stream.clear                      *)
(*                                                                         *)
(* The event loop runs one callback, or one task up to its next await, at  *)
(* a time: each is one action.  A body is a sequence of chunks of which    *)
(* only the identity matters.                                              *)
(*                                                                         *)
(* Behaviours names what the environment may do beyond the simple case, in *)
(* which every answer follows the end of the request's body:               *)
(*   "early"     a handler answers, raises or times out before the body    *)
(*               has arrived                                               *)
(*   "cached"    the route's cache answers within on_headers_complete      *)
(*   "coalesced" the rest of one body and the next request's headers share *)
(*               a segment                                                 *)
(***************************************************************************)
EXTENDS Naturals, FiniteSets, StreamQueue

CONSTANTS
    MaxMsgs,     \* bound: requests on the connection
    MaxChunks,   \* bound: chunks of one body
    MaxFeed,     \* bound: chunks in one segment
    Behaviours

ASSUME BoundsAssumption ==
    MaxMsgs \in Nat /\ MaxChunks \in Nat /\ MaxFeed \in Nat
ASSUME BehavioursAssumption ==
    Behaviours \subseteq {"early", "cached", "coalesced"}

VARIABLES
    q,         \* Stream.queue
    consumed,  \* Stream.consumed
    readable,  \* Connection.readable: the socket is being read
    msg,       \* the number of the current request
    sent,      \* chunks of it the parser has put
    ended,     \* the parser has completed it
    pc,        \* where its handler is
    got        \* history: the chunks its handler has read

vars == <<q, consumed, readable, msg, sent, ended, pc, got>>

Msgs == 1..MaxMsgs

\* The requests' bodies as the abstract specification sees them.
Body == INSTANCE BodyStream WITH open <- pc # "idle", eof <- consumed

\* Mutant of Chunks: it starts one too far.
ChunksShifted(m, first, n) == [i \in 1..n |-> [msg |-> m, n |-> first + i + 1]]

Chunk(m, i) == [msg |-> m, n |-> i]
Chunks(m, first, n) == [i \in 1..n |-> Chunk(m, first + i)]

\*  idle     no request is waiting for an answer
\*  code     the handler runs, outside the stream or in the body of its loop
\*  waiting  suspended in StreamQueue.get
\*  gone     cancelled or raised; handle_exception will answer
\*  broken   get() raised an IndexError into the handler
PCs == {"idle", "code", "waiting", "gone", "broken"}

Items == [msg : 0..MaxMsgs, n : 0..MaxChunks]

TypeOK ==
    /\ q \in StreamQueueType(Items, Msgs)
    /\ consumed \in BOOLEAN
    /\ readable \in BOOLEAN
    /\ msg \in 0..MaxMsgs
    /\ sent \in 0..MaxChunks
    /\ ended \in BOOLEAN
    /\ pc \in PCs
    /\ got \in Seq(Items)

Init ==
    /\ q = NewStreamQueue
    /\ consumed = FALSE
    /\ readable = TRUE
    /\ msg = 0 /\ sent = 0 /\ ended = TRUE
    /\ pc = "idle"
    /\ got = <<>>

-----------------------------------------------------------------------------
(* The parser, while one segment is fed.                                   *)

\* on_body for each of n chunks after the first `first` of request m, then,
\* if the segment completes the body, on_message_complete.
Feed(queue, m, first, n, last) ==
    LET fed == Put(queue, Chunks(m, first, n))
    IN  IF last THEN End(fed) ELSE fed

\* Mutant of NextRequest: on_body does not pause reading.
NextRequestUnpaused(n, last) ==
    /\ msg < MaxMsgs
    /\ n <= MaxChunks
    /\ msg' = msg + 1
    /\ sent' = n
    /\ ended' = last
    /\ got' = <<>>
    /\ UNCHANGED readable

NextRequest(n, last) ==
    /\ msg < MaxMsgs
    /\ n <= MaxChunks
    /\ msg' = msg + 1
    /\ sent' = n
    /\ ended' = last
    /\ got' = <<>>
    /\ readable' = (n = 0)     \* on_body pauses reading

\* on_headers_complete starts a handler, which runs after the whole segment.
Headers(n, last) ==
    /\ pc = "idle" /\ ended /\ readable
    /\ NextRequest(n, last)
    /\ q' = Feed(q, msg + 1, 0, n, last)
    /\ pc' = "code"
    /\ UNCHANGED consumed

\* on_headers_complete sends the cached response, after_response included,
\* before the parser goes on to the body and the end of the same message.
HeadersCached(n, last) ==
    /\ "cached" \in Behaviours
    /\ pc = "idle" /\ ended /\ readable
    /\ NextRequest(n, last)
    /\ q' = Feed(Clear(q), msg + 1, 0, n, last)
    /\ consumed' = FALSE
    /\ UNCHANGED pc

MoreBody(n, last) ==
    /\ ~ended /\ readable
    /\ n > 0 \/ last
    /\ sent + n <= MaxChunks
    /\ q' = Feed(q, msg, sent, n, last)
    /\ sent' = sent + n
    /\ ended' = last
    /\ readable' = (n = 0)
    /\ UNCHANGED <<consumed, msg, pc, got>>

\* The rest of an answered request's body and the next request, in a segment.
Coalesced(rest, n, last) ==
    /\ "coalesced" \in Behaviours
    /\ pc = "idle" /\ ~ended /\ readable
    /\ sent + rest <= MaxChunks
    /\ rest + n <= MaxFeed
    /\ msg < MaxMsgs /\ n <= MaxChunks
    /\ q' = Feed(Feed(q, msg, sent, rest, TRUE), msg + 1, 0, n, last)
    /\ msg' = msg + 1
    /\ sent' = n
    /\ ended' = last
    /\ readable' = (rest + n = 0)
    /\ pc' = "code"
    /\ got' = <<>>
    /\ UNCHANGED consumed

-----------------------------------------------------------------------------
(* The handler: Stream.__aiter__ on top of StreamQueue.get.                *)

\* What __aiter__ does with what get() returned: a falsy item ends the
\* iteration, a chunk pauses reading until the handler asks for the next.
Receive(item) ==
    /\ consumed' = (item = EndOfStream)
    /\ readable' = (item = EndOfStream)
    /\ got' = IF item = EndOfStream THEN got ELSE Append(got, item)

\* One turn of the loop whose get() returns at once.
NextChunk ==
    /\ pc = "code" /\ ~consumed
    /\ GetReturns(q)
    /\ Receive(GetValue(q))
    /\ q' = GetRest(q)
    /\ UNCHANGED <<msg, sent, ended, pc>>

\* One turn of the loop whose get() suspends.
WaitChunk ==
    /\ pc = "code" /\ ~consumed
    /\ ~GetReturns(q)
    /\ readable' = TRUE
    /\ q' = GetWait(q, msg)
    /\ pc' = "waiting"
    /\ UNCHANGED <<consumed, msg, sent, ended, got>>

Wake ==
    /\ pc = "waiting" /\ msg \in q.event.woken
    /\ q' = GetResume(q, msg)
    /\ IF GetFails(q)
       THEN pc' = "broken" /\ UNCHANGED <<consumed, readable, got>>
       ELSE pc' = "code" /\ Receive(Head(q.items))
    /\ UNCHANGED <<msg, sent, ended>>

-----------------------------------------------------------------------------
(* The end of a request.                                                   *)

MayEnd == ended \/ "early" \in Behaviours

\* The handler raises (StreamAlreadyConsumed among others) or its timer
\* cancels it: handle_exception answers in a task of its own.
GiveUp ==
    /\ pc \in {"code", "waiting"}
    /\ MayEnd
    /\ q' = GetCancelled(q, msg)
    /\ pc' = "gone"
    /\ UNCHANGED <<consumed, readable, msg, sent, ended, got>>

\* Mutant of Answer: the stream is cleared and reading is not resumed.
AnswerStaysPaused ==
    /\ pc \in {"code", "gone", "broken"}
    /\ MayEnd
    /\ q' = Clear(q)
    /\ consumed' = FALSE
    /\ pc' = "idle"
    /\ UNCHANGED <<readable, msg, sent, ended, got>>

\* after_response: resume_reading, then Stream.clear.
Answer ==
    /\ pc \in {"code", "gone", "broken"}
    /\ MayEnd
    /\ readable' = TRUE
    /\ q' = Clear(q)
    /\ consumed' = FALSE
    /\ pc' = "idle"
    /\ UNCHANGED <<msg, sent, ended, got>>

-----------------------------------------------------------------------------
Handler == NextChunk \/ WaitChunk \/ Wake \/ GiveUp \/ Answer

NewRequest ==
    \E n \in 0..MaxFeed, last \in BOOLEAN : Headers(n, last) \/ HeadersCached(n, last)

Upload == \E n \in 0..MaxFeed, last \in BOOLEAN : MoreBody(n, last)

UploadAndNew ==
    \E rest, n \in 0..MaxFeed, last \in BOOLEAN : Coalesced(rest, n, last)

Next == Handler \/ NewRequest \/ Upload \/ UploadAndNew

Spec == Init /\ [][Next]_vars

\* The event loop runs every ready task, a handler that runs goes on to its
\* end, and a client finishes what it uploads and has a next request.
Fairness == WF_vars(Handler) /\ WF_vars(Upload) /\ WF_vars(NewRequest)

FairSpec == Spec /\ Fairness

-----------------------------------------------------------------------------
(* Properties                                                              *)

\* A handler reads the chunks of its own request's body, each once and in
\* order: nothing of an earlier request, no gap, no repetition
\* (StreamQueue.get and put, request.pyx:28-46).
OwnChunksInOrder ==
    \A i \in 1..Len(got) : got[i] = Chunk(msg, i)

\* "This is a signal to show the Stream consumer that the stream ended"
\* (cprotocol.pyx:269): a handler that saw the end of its stream has read a
\* body that had really been received, and the whole of it.
EndIsReal ==
    consumed => ended /\ Len(got) = sent

\* No lost wake-up: a handler suspended on the event with nothing to wake it
\* is one that the client's next segment will wake (nothing is queued, the
\* end has not been signalled, and the socket is being read).  And the popleft
\* after the wait (request.pyx:40) always finds an item.
WaiterIsServed ==
    /\ pc # "broken"
    /\ pc = "waiting" /\ msg \in q.event.pending
           => q.items = <<>> /\ ~ended /\ readable

\* Once a request has been answered and received, the connection is ready
\* for the next one: it reads, and nothing of the old body is left over.
IdleIsClean ==
    pc = "idle" /\ ended
        => /\ readable
           /\ q.items = <<>> /\ ~q.finished /\ ~consumed

\* Back-pressure (the comment at cprotocol.pyx:258): whatever the client
\* sends, no more than one segment of chunks is ever buffered.
BackPressure ==
    Cardinality({i \in DOMAIN q.items : q.items[i] # EndOfStream}) <= MaxFeed

\* Neither within a request nor from one to the next does the stream pile up.
NothingPilesUp == IdleIsClean /\ BackPressure

\* Every request is answered, and the connection comes back for all others.
EveryRequestEnds ==
    /\ pc # "idle" ~> pc = "idle"
    /\ \A m \in Msgs : <>(msg = m)

\* The handler's view implements the abstract specification.
ImplementsBodyStream == Body!Spec
=============================================================================
