----------------------------- MODULE Connection -----------------------------
(***************************************************************************)
(* One keep-alive connection of the server: class Connection of            *)
(* vibora/protocol/cprotocol.pyx with the Response.send of                 *)
(* vibora/responses/responses.pyx, the tasks and timers they leave on the  *)
(* event loop, and the body queue of StreamQueue.                          *)
(*                                                                         *)
(* An action is one callback of the event loop, or one task up to its next *)
(* await.  Requests are numbered in the order the parser meets them, and a *)
(* response is the number of the request it was written for.  What a       *)
(* handler, a hook or an error handler computes is left open: handlers run *)
(* for any time, read the body or not, and like error handlers they        *)
(* answer, stream or raise.                                                *)
(*                                                                         *)
(* An environment says whether keep-alive is on, what the                  *)
(* AFTER_RESPONSE_SENT hooks do ("none", "plain", or "request" when one    *)
(* asks for the Request component), and what may happen besides plain      *)
(* requests:                                                               *)
(*   "timeout"   the watcher set by on_headers_complete fires              *)
(*   "raise"     a handler or a streaming generator raises                 *)
(*   "faulty"    an error handler raises, or returns None                  *)
(*   "stream"    a handler or an error handler answers with a              *)
(*               StreamingResponse                                         *)
(*   "early"     a handler answers before its request's body has arrived   *)
(*   "cached"    a route's cache answers within on_headers_complete        *)
(*   "pipelined" the client sends a request before the last was answered   *)
(*   "bad"       the parser rejects what the client sends                  *)
(*   "upgrade"   a request asks for another protocol, which it never gets  *)
(*   "pressure"  the client reads slowly and the transport pauses writing  *)
(*   "lost"      the client disconnects                                    *)
(*   "stop"      the worker or the reaper asks the connection to stop      *)
(***************************************************************************)
EXTENDS Naturals, FiniteSets, StreamQueue

CONSTANTS
    MaxMsgs,       \* bound: requests on the connection
    Environments

Possible == {"timeout", "raise", "faulty", "stream", "early", "cached", "pipelined",
             "bad", "upgrade", "pressure", "lost", "stop"}

ASSUME MaxMsgsAssumption == MaxMsgs \in Nat
ASSUME EnvironmentsAssumption ==
    Environments \subseteq [may : SUBSET Possible, keepAlive : BOOLEAN,
                            sentHooks : {"none", "plain", "request"}]

VARIABLES
    env,           \* chosen from Environments, once
    \* attributes of the Connection object
    status, readable, writable, closed, stopped,
    timeoutTask,   \* the handle after_response will cancel
    currentTask,   \* the handler task cancel_request will cancel
    request,       \* the request registered in self.components, 0 when reset
    q, consumed,   \* self.stream
    \* the application and the event loop
    registered,    \* self is in app.connections
    timers,        \* live call_later handles
    handler,       \* handle_request, per request
    streaming,     \* requests whose streaming task runs
    errors,        \* handle_exception tasks
    flushers,      \* wait_client_consume tasks
    closing,       \* a scheduled_close task exists
    \* the client and the parser
    msg,           \* requests seen so far
    parser,        \* where the parser is
    sent           \* the responses written, each by its request's number

attributes == <<status, readable, writable, closed, stopped, timeoutTask,
                currentTask, request, q, consumed>>
loop == <<registered, timers, handler, streaming, errors, flushers, closing>>
conn == <<attributes, loop, msg, parser, sent>>
vars == <<env, conn>>

May == env.may
KeepAlive == env.keepAlive      \* keep_alive_timeout > 0
SentHooks == env.sentHooks

Reqs == 1..MaxMsgs

Pending == 1
Receiving == 2
Processing == 3

Chunk(r) == [msg |-> r, n |-> 1]
Items == [msg : 0..MaxMsgs, n : 0..1]

NoTimer == [req |-> 0, kind |-> "none"]

\* Mutant of Watcher: the number of the next request.
WatcherAhead(r) == [req |-> r + 1, kind |-> "request"]

Watcher(r) == [req |-> r, kind |-> "request"]        \* cancel_request
StreamWatcher(r) == [req |-> r, kind |-> "stream"]   \* cancel_streaming_task
Timers == [req : Reqs, kind : {"request", "stream"}]

\*  running  before or in the endpoint, suspended in the application's code
\*  waiting  suspended in StreamQueue.get
\*  hooks    the response was sent, AFTER_RESPONSE_SENT hooks are to run
HandlerPCs == {"none", "running", "waiting", "hooks", "done"}

\*  idle between messages, head within the headers, body within a body,
\*  dead after an error
ParserPCs == {"idle", "head", "body", "dead"}

TypeOK ==
    /\ env \in Environments
    /\ status \in {Pending, Receiving, Processing}
    /\ readable \in BOOLEAN /\ writable \in BOOLEAN
    /\ closed \in BOOLEAN /\ stopped \in BOOLEAN
    /\ timeoutTask \in Timers \cup {NoTimer}
    /\ currentTask \in 0..MaxMsgs
    /\ request \in 0..MaxMsgs
    /\ q \in StreamQueueType(Items, Reqs)
    /\ consumed \in BOOLEAN
    /\ registered \in BOOLEAN
    /\ timers \subseteq Timers
    /\ handler \in [Reqs -> HandlerPCs]
    /\ streaming \subseteq Reqs
    /\ errors \subseteq [req : Reqs, why : {"handler", "timeout", "parser"}]
    /\ flushers \subseteq Reqs
    /\ closing \in BOOLEAN
    /\ msg \in 0..MaxMsgs
    /\ parser \in ParserPCs
    /\ sent \in Seq(Reqs)

\* __init__ and connection_made.
Init ==
    /\ env \in Environments
    /\ status = Pending
    /\ readable = TRUE /\ writable = TRUE
    /\ closed = FALSE /\ stopped = FALSE
    /\ timeoutTask = NoTimer
    /\ currentTask = 0 /\ request = 0
    /\ q = NewStreamQueue /\ consumed = FALSE
    /\ registered = TRUE
    /\ timers = {} /\ streaming = {} /\ errors = {} /\ flushers = {}
    /\ handler = [r \in Reqs |-> "none"]
    /\ closing = FALSE
    /\ msg = 0 /\ parser = "idle"
    /\ sent = <<>>

-----------------------------------------------------------------------------
(* What several callbacks do.                                              *)

\* Mutant of Close: the connection stays in app.connections.
CloseStaysRegistered == closed' = TRUE /\ UNCHANGED registered

Close == closed' = TRUE /\ registered' = FALSE

\* Mutants of the parts of after_response.
NeverClosesAtOnce == FALSE
ClosingForgotten == closing
ReadsAsBefore == readable
TimersKept == timers

\* after_response: without keep-alive the connection closes; a stopped one is
\* closed by a task of its own; any other one reads again.  The timer in
\* timeout_task is cancelled.
ClosesAtOnce == ~KeepAlive
ClosingAfterResponse == closing \/ (KeepAlive /\ stopped)
ReadsAfterResponse == readable \/ (KeepAlive /\ ~stopped)
TimersWithoutOurs == timers \ {timeoutTask}

\* The parser may go on after it within the same segment, which decides what
\* the status and reading are in the end, and puts into the cleared queue.
Released(statusAfter, readableAfter) ==
    /\ status' = statusAfter
    /\ IF ClosesAtOnce THEN Close ELSE UNCHANGED <<closed, registered>>
    /\ closing' = ClosingAfterResponse
    /\ readable' = readableAfter
    /\ consumed' = FALSE
    /\ timers' = TimersWithoutOurs
    /\ timeoutTask' = NoTimer
    /\ request' = 0

AfterResponse ==
    /\ Released(Pending, ReadsAfterResponse)
    /\ q' = Clear(q)

\* transport.write: a closed transport drops what it is given.
Written(r) == IF closed THEN sent ELSE Append(sent, r)

\* transport.write may call pause_writing before it returns.
WritableAfterWrite == {writable} \cup (IF "pressure" \in May THEN {FALSE} ELSE {})

\* Response.send and CachedResponse.send, outside of the parser's callbacks.
Send(r) ==
    /\ sent' = Written(r)
    /\ writable' \in WritableAfterWrite
    /\ IF writable'
       THEN AfterResponse /\ UNCHANGED flushers
       ELSE /\ flushers' = flushers \cup {r}
            /\ UNCHANGED <<status, closed, registered, closing, readable, consumed,
                           timers, timeoutTask, request, q>>

-----------------------------------------------------------------------------
(* data_received: one segment.                                             *)

CanReceive == ~closed /\ readable

Feed(queue, r, body, last) ==
    LET fed == IF body THEN Put(queue, <<Chunk(r)>>) ELSE queue
    IN  IF last THEN End(fed) ELSE fed

\* Mutant of StatusAfter: data_received leaves the status alone.
StatusOnlyAtEnd(statusBefore, last) == IF last THEN Processing ELSE Pending

StatusAfter(statusBefore, last) == IF last THEN Processing ELSE statusBefore

\* A streamed response is whole once its streaming task reached its end; when
\* the task died instead, its watcher is left.
Incomplete == streaming # {} \/ \E t \in timers : t.kind = "stream"

\* A client that does not pipeline waits for the whole of the last response.
ClientIsReady ==
    /\ msg < MaxMsgs
    /\ "pipelined" \in May \/ (Len(sent) >= msg /\ ~Incomplete)

MaySendRequest == CanReceive /\ parser \in {"idle", "head"} /\ ClientIsReady

PartialHeaders ==
    /\ MaySendRequest /\ parser = "idle"
    /\ parser' = "head"
    /\ status' = Receiving
    /\ UNCHANGED <<readable, writable, closed, stopped, timeoutTask, currentTask,
                   request, q, consumed, loop, msg, sent>>

\* on_headers_complete creating a handler task and its watcher, then on_body
\* and on_message_complete for what the segment still holds.
Headers(body, last) ==
    /\ MaySendRequest
    /\ msg' = msg + 1
    /\ parser' = IF last THEN "idle" ELSE "body"
    /\ request' = msg'
    /\ currentTask' = msg'
    /\ handler' = [handler EXCEPT ![msg'] = "running"]
    /\ timers' = timers \cup {Watcher(msg')}
    /\ timeoutTask' = Watcher(msg')
    /\ q' = Feed(q, msg', body, last)
    /\ readable' = ~body
    /\ status' = StatusAfter(Receiving, last)
    /\ UNCHANGED <<writable, closed, stopped, consumed, registered, streaming, errors,
                   flushers, closing, sent>>

\* on_headers_complete answering from the route's cache: the response is sent,
\* after_response included, before the parser goes on with the same segment.
HeadersCached(body, last) ==
    /\ "cached" \in May
    /\ MaySendRequest
    /\ msg' = msg + 1
    /\ parser' = IF last THEN "idle" ELSE "body"
    /\ sent' = Written(msg')
    /\ writable' \in WritableAfterWrite
    /\ IF writable'
       THEN /\ Released(StatusAfter(Pending, last), ~body)
            /\ q' = Feed(Clear(q), msg', body, last)
            /\ UNCHANGED flushers
       ELSE /\ flushers' = flushers \cup {msg'}
            /\ request' = msg'
            /\ q' = Feed(q, msg', body, last)
            /\ readable' = ~body
            /\ status' = StatusAfter(Receiving, last)
            /\ UNCHANGED <<closed, registered, closing, consumed, timers, timeoutTask>>
    /\ UNCHANGED <<stopped, currentTask, handler, streaming, errors>>

MoreBody(body, last) ==
    /\ CanReceive /\ parser = "body"
    /\ body \/ last
    /\ parser' = IF last THEN "idle" ELSE "body"
    /\ q' = Feed(q, msg, body, last)
    /\ readable' = ~body
    /\ status' = StatusAfter(Receiving, last)
    /\ UNCHANGED <<writable, closed, stopped, timeoutTask, currentTask, request,
                   consumed, loop, msg, sent>>

\* The parser raises, on a request's headers or within its body; the C parser
\* keeps its error, so that every later segment raises again.
BadSegment ==
    /\ "bad" \in May
    /\ CanReceive
    /\ IF parser = "body"
       THEN msg' = msg
       ELSE ClientIsReady /\ msg' = msg + 1
    /\ parser' = "dead"
    /\ status' = Receiving
    /\ readable' = FALSE
    /\ errors' = errors \cup {[req |-> msg', why |-> "parser"]}
    /\ UNCHANGED <<writable, closed, stopped, timeoutTask, currentTask, request, q,
                   consumed, registered, timers, handler, streaming, flushers,
                   closing, sent>>

\* handle_upgrade reads self.route, which no Connection has: AttributeError,
\* lost in a cdef void function.  The request ends with its headers, has no
\* task and no watcher, and the parser is ready for the next one; but what
\* else its segment holds makes feed_data raise.
Upgrade(more) ==
    /\ "upgrade" \in May
    /\ MaySendRequest
    /\ msg' = msg + 1
    /\ parser' = "idle"
    /\ request' = msg'
    /\ q' = End(q)
    /\ status' = Processing
    /\ readable' = ~more
    /\ errors' = IF more THEN errors \cup {[req |-> msg', why |-> "parser"]} ELSE errors
    /\ UNCHANGED <<writable, closed, stopped, timeoutTask, currentTask, consumed,
                   registered, timers, handler, streaming, flushers, closing, sent>>

-----------------------------------------------------------------------------
(* The handler task: handle_request, and the endpoint reading its stream.  *)

readerVars == <<status, writable, closed, stopped, timeoutTask, currentTask, request,
                registered, timers, streaming, flushers, closing, msg, parser, sent>>

\* __aiter__ with an item: a chunk pauses reading, a falsy item ends it.
Took(item) ==
    /\ consumed' = (item = EndOfStream)
    /\ readable' = (item = EndOfStream)

ReadChunk(r) ==
    /\ handler[r] = "running" /\ ~consumed
    /\ GetReturns(q)
    /\ Took(GetValue(q))
    /\ q' = GetRest(q)
    /\ UNCHANGED <<readerVars, handler, errors>>

WaitChunk(r) ==
    /\ handler[r] = "running" /\ ~consumed
    /\ ~GetReturns(q)
    /\ readable' = TRUE
    /\ q' = GetWait(q, r)
    /\ handler' = [handler EXCEPT ![r] = "waiting"]
    /\ UNCHANGED <<readerVars, consumed, errors>>

\* Mutant of Fails: the task goes on.
FailsAndGoesOn(r) ==
    /\ errors' = errors \cup {[req |-> r, why |-> "handler"]}
    /\ UNCHANGED handler

\* handle_request catches what the application raises and leaves the answer
\* to a handle_exception task.
Fails(r) ==
    /\ errors' = errors \cup {[req |-> r, why |-> "handler"]}
    /\ handler' = [handler EXCEPT ![r] = "done"]

Wake(r) ==
    /\ handler[r] = "waiting" /\ r \in q.event.woken
    /\ q' = GetResume(q, r)
    /\ IF GetFails(q)
       THEN Fails(r) /\ UNCHANGED <<consumed, readable>>
       ELSE /\ handler' = [handler EXCEPT ![r] = "running"]
            /\ Took(Head(q.items))
            /\ UNCHANGED errors
    /\ UNCHANGED readerVars

\* The endpoint, or a hook or a cache in its place, has come to its result.
HasResponse(r) ==
    /\ handler[r] = "running"
    /\ "early" \in May \/ parser # "body" \/ r < msg \/ consumed

\* Mutant of AfterSending: the handler goes on as if nothing was sent.
AfterSendingGoesOn(r) == UNCHANGED handler

AfterSending(r) ==
    handler' = [handler EXCEPT ![r] = IF SentHooks = "none" THEN "done" ELSE "hooks"]

Respond(r) ==
    /\ HasResponse(r)
    /\ Send(r)
    /\ AfterSending(r)
    /\ UNCHANGED <<stopped, currentTask, streaming, errors, msg, parser>>

\* StreamingResponse.send: the request's watcher gives way to the stream's.
\* Without a watcher to cancel, the AttributeError is lost in a cdef void
\* function and nothing is sent.  The streaming task is the next to run: the
\* response's head is written here.
SendStream(r) ==
    /\ "stream" \in May
    /\ IF timeoutTask = NoTimer
       THEN UNCHANGED <<streaming, timers, timeoutTask, sent>>
       ELSE /\ streaming' = streaming \cup {r}
            /\ timers' = TimersWithoutOurs \cup {StreamWatcher(r)}
            /\ timeoutTask' = StreamWatcher(r)
            /\ sent' = Written(r)
    /\ UNCHANGED <<status, readable, writable, closed, stopped, currentTask, request,
                   q, consumed, registered, flushers, closing, msg, parser>>

Stream(r) ==
    /\ HasResponse(r)
    /\ SendStream(r)
    /\ AfterSending(r)
    /\ UNCHANGED errors

Raise(r) ==
    /\ "raise" \in May
    /\ HasResponse(r)
    /\ Fails(r)
    /\ UNCHANGED <<readerVars, readable, q, consumed>>

\* AFTER_RESPONSE_SENT: a hook may raise, and one that asks for a component
\* after_response has removed does (MissingComponent).
RunSentHooks(r) ==
    /\ handler[r] = "hooks"
    /\ LET missing == SentHooks = "request" /\ request = 0
       IN  \/ /\ ~missing
              /\ handler' = [handler EXCEPT ![r] = "done"]
              /\ UNCHANGED errors
           \/ /\ missing \/ "raise" \in May
              /\ Fails(r)
    /\ UNCHANGED <<readerVars, readable, q, consumed>>

-----------------------------------------------------------------------------
(* The other tasks and timers.                                             *)

\* handle_exception answers with what an error handler returns ...
ErrorAnswers(e) ==
    /\ Send(e.req)
    /\ UNCHANGED <<stopped, currentTask, streaming, msg, parser>>

\* ... be it a stream.  Nobody hears of what an error handler raises.
ErrorRaises(e) ==
    /\ "faulty" \in May
    /\ UNCHANGED <<attributes, registered, timers, streaming, flushers, closing, msg,
                   parser, sent>>

HandleException(e) ==
    /\ e \in errors
    /\ errors' = errors \ {e}
    /\ ErrorAnswers(e) \/ SendStream(e.req) \/ ErrorRaises(e)
    /\ UNCHANGED handler

\* The streaming task reaches its end ...
StreamEnds(r) ==
    /\ r \in streaming
    /\ streaming' = streaming \ {r}
    /\ AfterResponse
    /\ UNCHANGED <<writable, stopped, currentTask, handler, errors, flushers, msg,
                   parser, sent>>

\* ... or a chunk takes longer than chunk_timeout ...
StreamStalls(r) ==
    /\ r \in streaming
    /\ "timeout" \in May
    /\ streaming' = streaming \ {r}
    /\ Close
    /\ UNCHANGED <<status, readable, writable, stopped, timeoutTask, currentTask,
                   request, q, consumed, timers, handler, errors, flushers, closing,
                   msg, parser, sent>>

\* ... or the generator raises, and nobody hears of it.
StreamRaises(r) ==
    /\ r \in streaming
    /\ "raise" \in May
    /\ streaming' = streaming \ {r}
    /\ UNCHANGED <<attributes, registered, timers, handler, errors, flushers,
                   closing, msg, parser, sent>>

\* Mutant of Cancelled: the task is not cancelled.
NotCancelled == handler

\* current_task.cancel(): a task that has not ended ends.
Cancelled ==
    [handler EXCEPT ![currentTask] =
        IF @ \in {"running", "waiting", "hooks"} THEN "done" ELSE @]

\* cancel_request: the watcher cancels whatever current_task is by now, and a
\* TimeoutError is answered.  The handle stays in timeout_task.
Timeout(r) ==
    /\ "timeout" \in May
    /\ Watcher(r) \in timers
    /\ "early" \in May \/ parser # "body"
    /\ timers' = timers \ {Watcher(r)}
    /\ handler' = Cancelled
    /\ q' = GetCancelled(q, currentTask)
    /\ errors' = errors \cup {[req |-> r, why |-> "timeout"]}
    /\ UNCHANGED <<status, readable, writable, closed, stopped, timeoutTask,
                   currentTask, request, consumed, registered, streaming, flushers,
                   closing, msg, parser, sent>>

\* cancel_streaming_task.
StreamTimeout(r) ==
    /\ "timeout" \in May
    /\ StreamWatcher(r) \in timers
    /\ timers' = timers \ {StreamWatcher(r)}
    /\ streaming' = streaming \ {r}
    /\ Close
    /\ UNCHANGED <<status, readable, writable, stopped, timeoutTask, currentTask,
                   request, q, consumed, handler, errors, flushers, closing, msg,
                   parser, sent>>

\* wait_client_consume reads protocol.writable, which Connection does not
\* expose to Python code (cprotocol.pxd): the task ends with AttributeError.
WaitClientConsume(r) ==
    /\ r \in flushers
    /\ flushers' = flushers \ {r}
    /\ UNCHANGED <<attributes, registered, timers, handler, streaming, errors,
                   closing, msg, parser, sent>>

\* scheduled_close, once the transport's buffer is empty.
ScheduledClose ==
    /\ closing /\ writable
    /\ closing' = FALSE
    /\ Close
    /\ UNCHANGED <<status, readable, writable, stopped, timeoutTask, currentTask,
                   request, q, consumed, timers, handler, streaming, errors, flushers,
                   msg, parser, sent>>

\* The transport's buffer drains.
ResumeWriting ==
    /\ ~writable
    /\ writable' = TRUE
    /\ UNCHANGED <<status, readable, closed, stopped, timeoutTask, currentTask, request,
                   q, consumed, loop, msg, parser, sent>>

ConnectionLost ==
    /\ "lost" \in May
    /\ ~closed
    /\ Close
    /\ UNCHANGED <<status, readable, writable, stopped, timeoutTask, currentTask,
                   request, q, consumed, timers, handler, streaming, errors, flushers,
                   closing, msg, parser, sent>>

\* stop, called for the connections in app.connections by the worker's
\* shutdown and, from its own thread, by the reaper.
Stop ==
    /\ "stop" \in May
    /\ registered /\ ~stopped
    /\ stopped' = TRUE
    /\ IF status = Pending THEN Close ELSE UNCHANGED <<closed, registered>>
    /\ UNCHANGED <<status, readable, writable, timeoutTask, currentTask, request, q,
                   consumed, timers, handler, streaming, errors, flushers, closing,
                   msg, parser, sent>>

-----------------------------------------------------------------------------
Client ==
    \/ PartialHeaders
    \/ \E body, last \in BOOLEAN :
          Headers(body, last) \/ HeadersCached(body, last) \/ MoreBody(body, last)
    \/ BadSegment
    \/ \E more \in BOOLEAN : Upgrade(more)
    \/ ConnectionLost

Handler(r) ==
    ReadChunk(r) \/ WaitChunk(r) \/ Wake(r) \/ Respond(r) \/ Stream(r) \/ Raise(r)
        \/ RunSentHooks(r)

StreamTask(r) == StreamEnds(r) \/ StreamStalls(r) \/ StreamRaises(r)

Loop ==
    \/ \E r \in Reqs : Timeout(r) \/ StreamTimeout(r) \/ WaitClientConsume(r)
    \/ \E e \in errors : HandleException(e)
    \/ ScheduledClose
    \/ ResumeWriting
    \/ Stop

Next ==
    /\ Client \/ Loop \/ \E r \in Reqs : Handler(r) \/ StreamTask(r)
    /\ UNCHANGED env

Spec == Init /\ [][Next]_vars

\* The event loop runs what is ready, handlers and streams come to an end, a
\* client finishes the request it began and reads what it is sent.
Fairness ==
    /\ \A r \in Reqs : WF_conn(Handler(r)) /\ WF_conn(StreamTask(r))
    /\ WF_conn(\E r \in Reqs : WaitClientConsume(r))
    /\ WF_conn(\E e \in errors : HandleException(e))
    /\ WF_conn(ScheduledClose)
    /\ WF_conn(ResumeWriting)
    /\ SF_conn(\E body \in BOOLEAN : MoreBody(body, TRUE))
    /\ WF_conn(parser = "head" /\ \E body, last \in BOOLEAN : Headers(body, last))

FairSpec == Spec /\ Fairness

-----------------------------------------------------------------------------
(* Properties                                                              *)

(* Where the code needs the environment's help: the README lists what goes  *)
(* wrong without it.                                                       *)

\* The client waits for its answers and takes them.
InTurn == {"pipelined", "pressure"} \cap May = {}

\* No AFTER_RESPONSE_SENT hook raises, of its own or for want of the request.
HooksPass == SentHooks # "request" /\ ("raise" \in May => SentHooks # "plain")

\* No request has, besides its handler, a watcher that answers it as well.
HandlersAnswer ==
    /\ HooksPass
    /\ "timeout" \in May => "raise" \notin May /\ InTurn

\* ... or a rejected segment.
OneAnswerer == HandlersAnswer /\ "bad" \notin May

\* Every handler answers after the end of its request's body.
WholeBodies == {"early", "cached"} \cap May = {}

\* The client gets one response per request, in the order of its requests:
\* no handler, error handler, watcher or hook answers twice or for another
\* (Response.send, handle_request, cancel_request, handle_exception).  One
\* that pipelines may get them in another order, but each once.
OneResponseInOrder ==
    OneAnswerer =>
        /\ \A i, j \in 1..Len(sent) : sent[i] = sent[j] => i = j
        /\ "pipelined" \notin May =>
              /\ Len(sent) <= msg
              /\ \A i \in 1..Len(sent) : sent[i] = i

\* app.connections holds exactly the connections that are open: a closed one
\* is never stopped or waited for again, an open one always is.  Without
\* keep-alive that is until the first whole response.
RegisteredWhileOpen ==
    /\ registered <=> ~closed
    /\ ~KeepAlive /\ "pressure" \notin May /\ sent # <<>> /\ ~Incomplete => closed

\* after_response "must be called after each response" (cprotocol.pyx:96):
\* once a request is answered, the client has taken the response and nobody
\* is left who could still call it, it has been called.
EveryAnswerReleases ==
    /\ sent # <<>> /\ writable /\ ~closed
    /\ streaming = {} /\ flushers = {} /\ errors = {}
    /\ \A r \in Reqs : handler[r] \in {"none", "done"}
    => timers = {}

\* A watcher lives no longer than what it watches: it belongs to the last
\* request, and a request watcher to one that is still unanswered.  "We wait
\* to see if the server correctly removed the timeout watcher"
\* (tests/timeouts.py:35).
WatchersAreRemoved ==
    HandlersAnswer /\ InTurn
        => \A t \in timers :
              /\ t.req = msg
              /\ t.kind = "request" => \A i \in DOMAIN sent : sent[i] # t.req

\* A connection whose status is PENDING has nothing in flight: the reaper and
\* the worker's shutdown, which close on that status alone, cut no request.
PendingIsIdle ==
    OneAnswerer /\ InTurn /\ status = Pending /\ ~closed
        => /\ \A r \in Reqs : handler[r] \in {"none", "hooks", "done"}
           /\ errors = {} /\ streaming = {} /\ flushers = {}

\* While a response streams, nothing else is written into it.
StreamsAreUninterrupted ==
    [][OneAnswerer /\ "pipelined" \notin May /\ sent' # sent => streaming = {}]_vars

\* Once every request is answered the connection reads again, and the next
\* request finds a clean stream.
AnsweredIsClean ==
    /\ OneAnswerer /\ InTurn /\ WholeBodies
    /\ Len(sent) = msg /\ ~Incomplete /\ parser = "idle" /\ ~closed /\ ~stopped
    => readable /\ q.items = <<>> /\ ~q.finished /\ ~consumed

\* after_response leaves nothing over, on any of the five paths to it: no
\* watcher, no status that hides work in flight, no paused or dirty stream.
NothingIsLeftOver == WatchersAreRemoved /\ PendingIsIdle /\ AnsweredIsClean

\* Every request is answered, unless the connection closes first or the error
\* handler that was to answer it raises.
EveryRequestAnswered ==
    \A r \in Reqs :
        (OneAnswerer /\ InTurn /\ {"upgrade", "faulty"} \cap May = {} /\ msg >= r)
            ~> (Len(sent) >= r \/ closed)

\* "Ask all connections to finish as soon as possible" (handler.py:64): a
\* connection that was asked to stop closes, when its handlers answer whole
\* requests and its streams succeed.
OrderlyStops ==
    (/\ OneAnswerer /\ InTurn /\ WholeBodies
     /\ {"raise", "faulty", "upgrade"} \cap May = {}
     /\ stopped) ~> closed
=============================================================================
