------------------------------ MODULE Sessions ------------------------------
(***************************************************************************)
(* Sessions kept in files: Request.session and session_pending_flush       *)
(* (request.pyx), FilesSessionEngine (sessions/files.py), Session          *)
(* (sessions/base.py) and the flush_session hook (server.py).  Browsers    *)
(* send requests with the cookie they have; each handler loads its         *)
(* session, changes it, and suspends wherever it likes.  A change is a     *)
(* number that is added to the values; a session's id is the first request *)
(* that was given it.                                                      *)
(*                                                                         *)
(* odd names what may happen beyond requests that a browser sends one by   *)
(* one, that end or are cancelled:                                         *)
(*   "concurrent" a browser sends a request before the last one has ended  *)
(*   "workers"    and another worker process handles it: save's open and   *)
(*                write are two steps to it                                *)
(*   "crash"      the worker is killed between the two                     *)
(*   "inner"      a change within a value, which no method of Session sees *)
(*                                                                         *)
(* Each answer is a response of its own, so that its cookie reaches one    *)
(* browser only.  save writes Set-Cookie among the response's headers; if  *)
(* the response is one that a cache keeps, whoever is answered from it     *)
(* gets the cookie as well, which is not modelled.                         *)
(***************************************************************************)
EXTENDS Oddities, Integers, Sequences

CONSTANTS
    Empty,          \* what a file has between open and write
    Browsers,
    Habits,         \* what odd may be
    MaxRequests     \* bound: requests, which are numbered

Ids == 1..MaxRequests

\* A Session, see below.
SessionRecord == [uuid : Ids, values : SUBSET Ids, pendingFlush : BOOLEAN]

ASSUME RequestsAssumption == MaxRequests \in Nat
ASSUME NoneAssumption ==
    /\ \A id \in Ids : id # None
    /\ \A values \in SUBSET Ids : values \notin {None, Empty}
    /\ \A session \in SessionRecord : session # None
    /\ None # Empty

VARIABLES
    files,          \* the values by session id, Empty for a file without text, or None
    cookies,        \* the browsers' SESSION_ID, or None
    requests,       \* the requests begun so far, in order: see Arrive
    acked           \* history: the changes each browser knows to be made

sessionVars == <<odd, files, cookies, requests, acked>>

Begun == DOMAIN requests
Running == {r \in Begun : requests[r].at # "done"}
Of(browser) == {r \in Begun : requests[r].browser = browser}

\* Session(values, unique_id).
Session(id, values) == [uuid |-> id, values |-> values, pendingFlush |-> FALSE]

-----------------------------------------------------------------------------
(* The request's way through its handler and hooks.                        *)

Arrive(browser) ==
    /\ Len(requests) < MaxRequests
    /\ {"concurrent", "workers"} \cap odd = {} => Of(browser) \cap Running = {}
    /\ requests' = Append(requests,
           [browser |-> browser, cookie |-> cookies[browser], at |-> "handler",
            session |-> None, knew |-> acked[browser], loaded |-> None])
    /\ UNCHANGED <<odd, files, cookies, acked>>

Step(r, at, session) ==
    requests' = [requests EXCEPT ![r].at = at, ![r].session = session]

\* FilesSessionEngine.load: the file of the cookie, or a new session.
Load(r) ==
    LET id == requests[r].cookie
        session == IF id # None /\ files[id] # None THEN Session(id, files[id]) ELSE Session(r, {})
    IN /\ requests[r].at = "handler" /\ requests[r].session = None
       /\ requests' =
              IF session.values = Empty
              THEN [requests EXCEPT ![r].at = "done", ![r].loaded = Empty]
              ELSE [requests EXCEPT ![r].session = session, ![r].loaded = session.values]
       /\ UNCHANGED <<odd, files, cookies, acked>>

\* Session.__setitem__, and the change it does not see.
Changed(session, r) == [session EXCEPT !.values = @ \cup {r}, !.pendingFlush = TRUE]
ChangedWithin(session, r) == [session EXCEPT !.values = @ \cup {r}]

Change(r) ==
    /\ requests[r].at = "handler" /\ requests[r].session # None
    /\ r \notin requests[r].session.values
    /\ \/ Step(r, "handler", Changed(requests[r].session, r))
       \/ "inner" \in odd /\ Step(r, "handler", ChangedWithin(requests[r].session, r))
    /\ UNCHANGED <<odd, files, cookies, acked>>

\* The answer reaches the browser, or is lost on its way.
Answer(r, cookie) ==
    LET browser == requests[r].browser
        session == requests[r].session
    IN \/ /\ cookies' = [cookies EXCEPT ![browser] = IF cookie = None THEN @ ELSE cookie]
          /\ acked' = [acked EXCEPT ![browser] = IF session = None THEN @ ELSE @ \cup (session.values \cap {r})]
       \/ UNCHANGED <<cookies, acked>>

\* Mutant of PendingFlush: flushes a new session only.
KnownFlush(r) ==
    requests[r].session # None /\ requests[r].session.pendingFlush /\ requests[r].cookie = None

\* session_pending_flush.
PendingFlush(r) == requests[r].session # None /\ requests[r].session.pendingFlush

\* flush_session with save, which suspends nowhere.
Flush(r) ==
    LET session == requests[r].session
    IN /\ requests[r].at = "handler"
       /\ IF PendingFlush(r)
          THEN IF {"workers", "crash"} \cap odd # {}
               THEN /\ files' = [files EXCEPT ![session.uuid] = Empty]
                    /\ Step(r, "writing", session)
                    /\ UNCHANGED <<cookies, acked>>
               ELSE /\ files' = [files EXCEPT ![session.uuid] = session.values]
                    /\ Step(r, "done", session)
                    /\ Answer(r, session.uuid)
          ELSE Step(r, "done", session) /\ Answer(r, None) /\ UNCHANGED files
       /\ UNCHANGED odd

Write(r) ==
    LET session == requests[r].session
    IN /\ requests[r].at = "writing"
       /\ files' = [files EXCEPT ![session.uuid] = session.values]
       /\ Step(r, "done", session)
       /\ Answer(r, session.uuid)
       /\ UNCHANGED odd

\* The handler raises, or its watcher cancels it: no AFTER_ENDPOINT hook runs.
Cancel(r) ==
    /\ requests[r].at = "handler"
    /\ Step(r, "done", requests[r].session)
    /\ UNCHANGED <<odd, files, cookies, acked>>

Crash(r) ==
    /\ "crash" \in odd /\ requests[r].at = "writing"
    /\ Step(r, "done", requests[r].session)
    /\ UNCHANGED <<odd, files, cookies, acked>>

-----------------------------------------------------------------------------
NoSessions ==
    /\ files = [id \in Ids |-> None]
    /\ cookies = [b \in Browsers |-> None]
    /\ acked = [b \in Browsers |-> {}]
    /\ requests = <<>>

SessionsInit == odd \in Habits /\ NoSessions

SessionsNext ==
    \/ \E b \in Browsers : Arrive(b)
    \/ \E r \in Begun : Load(r) \/ Change(r) \/ Flush(r) \/ Write(r) \/ Cancel(r) \/ Crash(r)

SessionsSpec == SessionsInit /\ [][SessionsNext]_sessionVars

-----------------------------------------------------------------------------
SessionType ==
    /\ \A id \in Ids : files[id] \in {None, Empty} \cup SUBSET Ids
    /\ cookies \in [Browsers -> Ids \cup {None}]
    /\ \A r \in Begun : requests[r].at \in {"handler", "writing", "done"}

\* The session a handler loads holds each change the browser was told of, and
\* none that another browser made.
SessionIsKept ==
    odd = {} =>
        \A r \in Begun : requests[r].loaded # None =>
            /\ requests[r].knew \subseteq requests[r].loaded
            /\ requests[r].loaded \subseteq Of(requests[r].browser)
=============================================================================
