------------------------------- MODULE Client -------------------------------
(***************************************************************************)
(* The HTTP client: concurrent Session.request calls (client/session.py)   *)
(* over one ConnectionPool (client/pool.py), their responses               *)
(* (client/response.py) and retries (client/retries.py).                   *)
(*                                                                         *)
(* An action is one leg of a task, from an await to the next.  Tasks that  *)
(* are ready run in any order.  An awaited call that has nothing to wait   *)
(* for does not suspend.  Redirects stay with the same host; another host  *)
(* has a pool of its own.  follow_redirects is True, its default.          *)
(*                                                                         *)
(* What may happen besides requests that are answered in full:             *)
(*   "fail"     connections are refused, closed or reset at any time       *)
(*   "timeout"  the timeout of a call is over                              *)
(*   "stream"   a caller asks for stream=True                              *)
(*   "abandon"  a caller drops such a response                             *)
(*   "redirect" a response with a location                                 *)
(*   "unkept"   a response that ends its connection                        *)
(*   "again"    a status that RetryStrategy.responses lists                *)
(*   "odd"      responses without Content-Length and chunks                *)
(*   "close"    Session.close                                              *)
(***************************************************************************)
EXTENDS Naturals, SequencesExt, FiniteSets

CONSTANTS
    Callers,         \* tasks that use the session
    Posting,         \* those whose method is POST, not GET
    MaxCalls,        \* bound: calls in all
    MaxConns,        \* bound: connections the client still knows of
    MaxFaults,       \* bound: connections that break, timeouts and dropped responses
    MaxRedirects,
    StatusRetries,   \* RetryStrategy.responses of the status that is retried
    Environments

ASSUME CallersAssumption == Posting \subseteq Callers
ASSUME BoundsAssumption ==
    /\ MaxCalls \in Nat /\ MaxConns \in Nat /\ MaxFaults \in Nat
    /\ MaxRedirects \in Nat /\ StatusRetries \in Nat

VARIABLES
    env,        \* chosen from Environments, once
    conn,       \* the state of each connection
    known,      \* pool.connections
    available,  \* pool.available_connections: appendleft, pop
    releases,   \* the _release_connection tasks that have yet to run
    call,       \* the current call of each caller
    calls,
    faults

pool == <<known, available>>
work == <<conn, pool, releases, call, calls, faults>>
vars == <<env, work>>

Conns == 1..MaxConns
NoConn == 0

\* open, ended by the peer (eof, reset), closed by us
ConnStates == {"open", "eof", "reset", "closed"}

Methods == {"GET", "POST"}

\* Mutant of NetworkFailures: the method makes no difference.
NetworkFailuresOfAll(method) == 1

\* RetryStrategy().network_failures.
NetworkFailures(method) == IF method = "GET" THEN 1 ELSE 0

\* full: a body with Content-Length or in chunks; empty: Content-Length: 0;
\* bare: up to the end of the connection; nocontent: a status without a body.
Kinds == {"full", "empty", "bare", "nocontent"}

\*  start       in the loop of Session.request
\*  probing     in is_dropped
\*  connecting  in open_connection
\*  headers     the request is written, receive_headers waits
\*  body        read_content waits
\*  streaming   the caller has the response and reads its body
CallType ==
    [pc : {"start", "probing", "connecting", "headers", "body", "streaming", "done", "failed"},
     method : Methods, stream : BOOLEAN, conn : Conns \cup {NoConn},
     kind : Kinds, keep : BOOLEAN, redirect : BOOLEAN, again : BOOLEAN,
     hops : Nat, failures : Nat, statuses : Nat,
     sent : Nat]         \* history: how often the caller's own request was sent

TypeOK ==
    /\ env \in Environments
    /\ conn \in [Conns -> ConnStates]
    /\ known \subseteq Conns
    /\ available \in Seq(Conns)
    /\ releases \in Seq([conn : Conns, keep : BOOLEAN])
    /\ call \in [Callers -> CallType]
    /\ calls \in 0..MaxCalls
    /\ faults \in 0..MaxFaults

NewCall(method, stream) ==
    [pc |-> "start", method |-> method, stream |-> stream, conn |-> NoConn,
     kind |-> "full", keep |-> TRUE, redirect |-> FALSE, again |-> FALSE,
     hops |-> MaxRedirects, failures |-> NetworkFailures(method), statuses |-> StatusRetries,
     sent |-> 0]

\* Nobody looks at the rest of a call that has ended.
Over(pc) == [NewCall("GET", FALSE) EXCEPT !.pc = pc]

Init ==
    /\ env \in Environments
    /\ conn = [c \in Conns |-> "closed"]
    /\ known = {} /\ available = <<>> /\ releases = <<>>
    /\ call = [r \in Callers |-> Over("done")]
    /\ calls = 0
    /\ faults = 0

Ended(r) == call[r].pc \in {"done", "failed"}
Released(s) == {s[i].conn : i \in 1..Len(s)}
Releasing == Released(releases)

\* What the program still refers to.
Referenced == known \cup ToSet(available) \cup Releasing \cup {call[r].conn : r \in Callers}

-----------------------------------------------------------------------------
(* Parts of the calls: q is the call as it is by now.                      *)

Is(r, q) == call' = [call EXCEPT ![r] = q]

\* Mutant of Discarded: the connection is forgotten, not closed.
Forgotten(c) == conn

Discarded(c) == [conn EXCEPT ![c] = "closed"]

\* get_connection, up to its first await.
GetConnection(r, q) ==
    IF available = <<>>
    THEN /\ Is(r, [q EXCEPT !.pc = "connecting", !.conn = NoConn])
         /\ UNCHANGED available
    ELSE /\ Is(r, [q EXCEPT !.pc = "probing", !.conn = Last(available)])
         /\ available' = Front(available)

\* Request.encode on its connection.
Sends(q, c) ==
    [q EXCEPT !.pc = "headers", !.conn = c,
              !.sent = IF q.hops = MaxRedirects THEN @ + 1 ELSE @]

\* The loop of Session.request begins again.
Again(q) ==
    [NewCall(q.method, q.stream) EXCEPT !.failures = q.failures, !.statuses = q.statuses,
                                        !.sent = q.sent]

\* Mutants of MayRetry and Retried: off by one; the budget is not reduced.
MayRetryOnceMore(q) == q.failures >= 0
RetriedFreely(q) == Again(q)

MayRetry(q) == q.failures > 0
Retried(q) == [Again(q) EXCEPT !.failures = @ - 1]

\* The except clause of Session.request: ConnectionError is retried; what is
\* no OSError, as IncompleteReadError or the timeout of wait_for, is not.
AfterConnectionError(q) == IF MayRetry(q) THEN Retried(q) ELSE Over("failed")

\* The rest of Session.request, once there is a response.
Returned(q) ==
    CASE q.again /\ q.statuses > 0 -> [Again(q) EXCEPT !.statuses = @ - 1]
      [] ~(q.again /\ q.statuses > 0) /\ q.stream -> [q EXCEPT !.pc = "streaming"]
      [] OTHER -> Over("done")

\* The rest of HTTPEngine.request, once the content is read.
AfterContent(r, q) ==
    CASE ~q.redirect -> Is(r, Returned(q)) /\ UNCHANGED available
      [] q.redirect /\ q.hops = 0 -> Is(r, Over("failed")) /\ UNCHANGED available
      [] OTHER -> GetConnection(r, [Again(q) EXCEPT !.hops = q.hops - 1])

\* Mutant of OnMessageComplete: only a connection that is kept is released.
OnMessageCompleteIfKept(q) == IF q.keep THEN <<[conn |-> q.conn, keep |-> TRUE]>> ELSE <<>>

\* on_message_complete starts a _release_connection task.
OnMessageComplete(q) == <<[conn |-> q.conn, keep |-> q.keep]>>

\* The parser completes these already with the headers.
NoBody(kind) == kind \in {"empty", "nocontent"}

-----------------------------------------------------------------------------
(* The calls.                                                              *)

Call(r) ==
    /\ Ended(r) /\ calls < MaxCalls
    /\ calls' = calls + 1
    /\ \E stream \in BOOLEAN :
          /\ stream => "stream" \in env
          /\ Is(r, NewCall(IF r \in Posting THEN "POST" ELSE "GET", stream))
    /\ UNCHANGED <<conn, pool, releases, faults>>

Start(r) ==
    /\ call[r].pc = "start"
    /\ GetConnection(r, call[r])
    /\ UNCHANGED <<conn, known, releases, calls, faults>>

\* Mutant of IsDropped: the truth.
IsReallyDropped(c) == conn[c] # "open"

\* Connection.is_dropped: readexactly(0) returns at once, on an open
\* connection, too.
IsDropped(c) == TRUE

\* get_connection after is_dropped, which raises what the reader has met.
Probe(r) ==
    LET q == call[r]
        c == q.conn
    IN  /\ q.pc = "probing"
        /\ CASE conn[c] = "reset" ->
                    Is(r, AfterConnectionError(q)) /\ UNCHANGED <<conn, known>>
             [] conn[c] # "reset" /\ IsDropped(c) ->
                    /\ conn' = Discarded(c)
                    /\ known' = known \ {c}
                    /\ Is(r, [q EXCEPT !.pc = "connecting", !.conn = NoConn])
             [] OTHER -> Is(r, Sends(q, c)) /\ UNCHANGED <<conn, known>>
        /\ UNCHANGED <<available, releases, calls, faults>>

\* create_connection, and the request is written to it.  The new connection
\* gets the lowest number that is free.
Connect(r) ==
    /\ call[r].pc = "connecting"
    /\ \E c \in Conns \ Referenced :
          /\ \A d \in Conns \ Referenced : c <= d
          /\ conn' = [conn EXCEPT ![c] = "open"]
          /\ known' = known \cup {c}
          /\ Is(r, Sends(call[r], c))
    /\ UNCHANGED <<available, releases, calls, faults>>

ConnectFails(r) ==
    /\ "fail" \in env
    /\ call[r].pc = "connecting"
    /\ Is(r, AfterConnectionError(call[r]))
    /\ UNCHANGED <<conn, pool, releases, calls, faults>>

\* The server's headers: receive_headers, and what follows up to an await.
\* An empty body completes twice, when the parser meets the headers and when
\* read_content has read nothing.
Answer(r, kind, keep, redirect, again) ==
    LET q == [call[r] EXCEPT !.kind = kind, !.keep = keep, !.redirect = redirect, !.again = again]
        complete == IF NoBody(kind) THEN OnMessageComplete(q) ELSE <<>>
    IN  /\ call[r].pc = "headers" /\ conn[q.conn] = "open"
        /\ kind \in {"bare", "nocontent"} => "odd" \in env
        /\ again => "again" \in env
        /\ redirect => "redirect" \in env
        /\ ~keep => "unkept" \in env
        /\ CASE q.stream /\ ~redirect ->
                    Is(r, Returned(q)) /\ releases' = releases \o complete /\ UNCHANGED available
             [] (~q.stream \/ redirect) /\ kind = "full" ->
                    /\ Is(r, [q EXCEPT !.pc = "body"])
                    /\ releases' = releases \o complete
                    /\ UNCHANGED available
             [] (~q.stream \/ redirect) /\ kind = "empty" ->
                    /\ AfterContent(r, q)
                    /\ releases' = releases \o complete \o OnMessageComplete(q)
             [] OTHER ->   \* "Invalid response."
                    Is(r, Over("failed")) /\ releases' = releases \o complete /\ UNCHANGED available
        /\ UNCHANGED <<conn, known, calls, faults>>

\* The last byte of the body.
Content(r) ==
    LET q == call[r]
    IN  /\ q.pc = "body" /\ conn[q.conn] = "open"
        /\ releases' = releases \o OnMessageComplete(q)
        /\ AfterContent(r, q)
        /\ UNCHANGED <<conn, known, calls, faults>>

\* The caller reads a streamed response to its end, with stream() or with
\* read_content, which alone completes an empty one again.
ReadStream(r, whole) ==
    LET q == call[r]
    IN  /\ q.pc = "streaming"
        /\ CASE q.kind = "full" ->
                    /\ conn[q.conn] = "open"
                    /\ releases' = releases \o OnMessageComplete(q)
                    /\ Is(r, Over("done"))
             [] q.kind = "empty" /\ whole /\ conn[q.conn] # "reset" ->
                    releases' = releases \o OnMessageComplete(q) /\ Is(r, Over("done"))
             [] q.kind = "empty" /\ ~whole -> Is(r, Over("done")) /\ UNCHANGED releases
             [] OTHER -> Is(r, Over("failed")) /\ UNCHANGED releases
        /\ UNCHANGED <<conn, pool, calls, faults>>

\* The connection breaks while the call waits for it.  receive_headers
\* closes it after an OSError; nobody takes it out of the pool.
Broken(r) ==
    LET q == call[r]
    IN  /\ q.pc \in {"headers", "body", "streaming"}
        /\ q.pc = "streaming" => q.kind = "full"
        /\ conn[q.conn] # "open"
        /\ conn' = IF q.pc = "headers" /\ conn[q.conn] = "reset"
                   THEN [conn EXCEPT ![q.conn] = "closed"] ELSE conn
        /\ Is(r, IF q.pc # "streaming" /\ conn[q.conn] = "reset"
                 THEN AfterConnectionError(q) ELSE Over("failed"))
        /\ UNCHANGED <<pool, releases, calls, faults>>

\* wait_for cancels the call, wherever it is.
Timeout(r) ==
    /\ "timeout" \in env /\ faults < MaxFaults
    /\ faults' = faults + 1
    /\ call[r].pc \in {"start", "probing", "connecting", "headers", "body"}
    /\ Is(r, Over("failed"))
    /\ UNCHANGED <<conn, pool, releases, calls>>

Abandon(r) ==
    /\ "abandon" \in env /\ faults < MaxFaults
    /\ faults' = faults + 1
    /\ call[r].pc = "streaming"
    /\ Is(r, Over("failed"))
    /\ UNCHANGED <<conn, pool, releases, calls>>

-----------------------------------------------------------------------------
(* The pool.                                                               *)

\* A _release_connection task runs.
Release ==
    /\ releases # <<>>
    /\ releases' = Tail(releases)
    /\ LET c == Head(releases).conn
       IN  IF Head(releases).keep
           THEN available' = <<c>> \o available /\ UNCHANGED <<conn, known>>
           ELSE conn' = Discarded(c) /\ known' = known \ {c} /\ UNCHANGED available
    /\ UNCHANGED <<call, calls, faults>>

\* Session.close.
Close ==
    /\ "close" \in env
    /\ conn' = [c \in Conns |-> IF c \in known THEN "closed" ELSE conn[c]]
    /\ UNCHANGED <<pool, releases, call, calls, faults>>

\* The peer ends a connection, idle or in use.
PeerEnds(c, how) ==
    /\ "fail" \in env /\ faults < MaxFaults
    /\ conn[c] = "open"
    /\ faults' = faults + 1
    /\ conn' = [conn EXCEPT ![c] = how]
    /\ UNCHANGED <<pool, releases, call, calls>>

-----------------------------------------------------------------------------
Answers(r) ==
    \/ \E kind \in Kinds, keep, redirect, again \in BOOLEAN :
          Answer(r, kind, keep, redirect, again)
    \/ Content(r)
    \/ Broken(r)

Connects(r) == Connect(r) \/ ConnectFails(r)
Reads(r) == \E whole \in BOOLEAN : ReadStream(r, whole)

Next ==
    /\ \/ \E r \in Callers :
             \/ Call(r) \/ Start(r) \/ Probe(r) \/ Connects(r) \/ Answers(r) \/ Reads(r)
             \/ Timeout(r) \/ Abandon(r)
       \/ Release \/ Close
       \/ \E c \in Conns, how \in {"eof", "reset"} : PeerEnds(c, how)
    /\ UNCHANGED env

Spec == Init /\ [][Next]_vars

\* The loop runs what is ready, connecting ends one way or the other, the
\* server answers unless the connection breaks.
Fairness ==
    /\ WF_work(Release)
    /\ \A r \in Callers :
          WF_work(Start(r)) /\ WF_work(Probe(r)) /\ WF_work(Connects(r)) /\ WF_work(Answers(r))

FairSpec == Spec /\ Fairness

-----------------------------------------------------------------------------
(* Properties                                                              *)

\* Waiting for bytes of a connection.
Used(q) == q.pc \in {"headers", "body"} \/ (q.pc = "streaming" /\ q.kind = "full")
InUse(r) == Used(call[r])

\* A connection carries one exchange at a time, and is not offered to others
\* meanwhile: a response is read by the call that sent the request.
OneUser ==
    \A r \in Callers : InUse(r) =>
        /\ call[r].conn \notin ToSet(available)
        /\ \A s \in Callers \ {r} : InUse(s) => call[s].conn # call[r].conn

\* "this is dangerous with non idempotent requests because it could duplicate
\* charges" (retries.py:12): a POST is sent again only after an answer whose
\* status the caller has listed.
PostIsNotRepeated ==
    \A r \in Callers :
        call[r].method = "POST"
            => call[r].sent + call[r].statuses <= StatusRetries + 1

\* Whatever fails, Session.close reaches every connection that is open.
OpenIsKnown == \A c \in Conns : conn[c] = "open" => c \in known

\* Without failures, timeouts, dropped or odd responses, an open connection is
\* idle in the pool or somebody will bring it back.
NoConnectionIsLost ==
    /\ env \cap {"fail", "timeout", "abandon", "odd"} = {}
    /\ ~({"stream", "again"} \subseteq env)
    => \A c \in known : conn[c] = "open" =>
          \/ c \in ToSet(available) \cup Releasing
          \/ \E r \in Callers : call[r].conn = c

\* A call ends with a response or an exception: redirects and retries do not
\* go on for ever.
EveryRequestEnds ==
    \A r \in Callers : call[r].pc = "start" ~> call[r].pc \in {"streaming", "done", "failed"}
=============================================================================
