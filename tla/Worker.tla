------------------------------- MODULE Worker -------------------------------
(***************************************************************************)
(* One worker process: the event loop with its connections, the Reaper     *)
(* thread (workers/reaper.py) and the shutdown begun by SIGTERM            *)
(* (workers/handler.py).                                                   *)
(*                                                                         *)
(* Connections are those of module Connection, reduced to what reaper and  *)
(* shutdown see of them: status, last_task_time, stop() and membership in  *)
(* app.connections, which is being open (RegisteredWhileOpen); and to what *)
(* those depend on: where the parser is, whether reading is paused, and    *)
(* how many tasks are left that will call after_response.                  *)
(*                                                                         *)
(* Time counts the reaper's turns, one per second.  A Tick is a second; it *)
(* waits for what is due within the last one, except for an event loop     *)
(* that is stuck.  Ages saturate at MaxAge.                                *)
(*                                                                         *)
(* An environment says how many clients there are, and what may happen     *)
(* besides plain requests and SIGTERM:                                     *)
(*   "slow"      a client takes its time over the headers or the body      *)
(*   "long"      a handler, an error handler or a stream runs for longer   *)
(*               than HandlerTimeout, or never calls after_response        *)
(*   "stuck"     a handler blocks the event loop                           *)
(*   "early"     an answer precedes the end of its request's body: that of *)
(*               a handler, or of the watcher of a slow upload             *)
(*   "cached"    a route's cache answers within on_headers_complete        *)
(*   "bad"       the parser rejects a segment                              *)
(*   "upgrade"   a request asks for another protocol                       *)
(*   "pipelined" a request is sent before the last was answered            *)
(***************************************************************************)
EXTENDS Naturals, FiniteSets

CONSTANTS
    Conns,
    KeepAlive,       \* ServerLimits.keep_alive_timeout
    WorkerTimeout,   \* ServerLimits.worker_timeout
    HandlerTimeout,  \* RouteLimits.timeout
    StopTimeout,     \* the timeout handle_kill_signal gives stop_server
    MaxAge,          \* bound: what is older is as old
    MaxAnswers,      \* bound: answers a connection has outstanding
    Environments

Possible == {"slow", "long", "stuck", "early", "cached", "bad", "upgrade", "pipelined"}

ASSUME TimesAssumption ==
    /\ KeepAlive \in Nat
    /\ WorkerTimeout \in Nat \ {0}
    /\ HandlerTimeout \in Nat /\ StopTimeout \in Nat
    /\ MaxAge \in Nat
    /\ 2 * KeepAlive < MaxAge /\ HandlerTimeout + KeepAlive < MaxAge
    /\ WorkerTimeout < MaxAge /\ StopTimeout < MaxAge
    /\ MaxAnswers \in Nat
ASSUME EnvironmentsAssumption ==
    Environments \subseteq [may : SUBSET Possible, clients : Nat]

VARIABLES
    env,         \* chosen from Environments, once
    life,        \* of the process
    conn,        \* the connections
    listening,   \* the worker's socket
    stuck,       \* the loop is blocked by a handler
    \* the reaper
    reaper,      \* where it is
    counter,
    todo,        \* what is left of its copy of app.connections
    target,      \* the connection it is about to stop
    has_to_work,
    lag,         \* the age of the current_time the protocol module caches
    \* stop_server
    shutdown,    \* where it is
    grace,       \* its variable `timeout`
    due,         \* its sleep is over
    elapsed      \* history: seconds since the connections were asked to stop

reaperVars == <<reaper, counter, todo, target, has_to_work, lag>>
shutdownVars == <<shutdown, grace, due, elapsed>>
work == <<life, conn, listening, stuck, reaperVars, shutdownVars>>
vars == <<env, work>>

May == env.may

Pending == 1
Receiving == 2
Processing == 3

\*  none      not there yet
\*  accepted  the kernel's connection, whose connection_made is scheduled
\*  open      in app.connections
\*  draining  open, with a scheduled_close task
\*  closed
States == {"none", "accepted", "open", "draining", "closed"}

\*  idle between messages, head within the headers, body within a body, dead
\*  after an error
ParserPCs == {"idle", "head", "body", "dead"}

ConnType ==
    [state : States, status : {Pending, Receiving, Processing}, stopped : BOOLEAN,
     parser : ParserPCs,
     paused : BOOLEAN,          \* on_body has paused reading
     answers : 0..MaxAnswers,   \* tasks that will call after_response
     age : 0..MaxAge]           \* time since last_task_time

\* ConnectionStatus.PROCESSING_REQUEST of protocol/definitions.py: the number
\* that cprotocol.pyx calls RECEIVING_STATUS.
PROCESSING_REQUEST == 2

\* The reaper's counter matters modulo both of its periods.
Period ==
    IF KeepAlive = 0 \/ WorkerTimeout % KeepAlive = 0
    THEN WorkerTimeout
    ELSE WorkerTimeout * KeepAlive

TypeOK ==
    /\ env \in Environments
    /\ life \in {"running", "killed", "stopped"}
    /\ conn \in [Conns -> ConnType]
    /\ listening \in BOOLEAN /\ stuck \in BOOLEAN
    /\ reaper \in {"sleeping", "awake", "idle", "stopping", "stuck", "off"}
    /\ counter \in 0..(Period - 1)
    /\ todo \subseteq Conns /\ target \subseteq Conns
    /\ has_to_work \in BOOLEAN
    /\ lag \in 0..MaxAge
    /\ shutdown \in {"no", "asked", "hooks", "waiting"}
    /\ grace \in 0..StopTimeout
    /\ due \in BOOLEAN
    /\ elapsed \in 0..MaxAge

\* A connection that is closed: nobody looks at the rest any more.
Closed == [state |-> "closed", status |-> Pending, stopped |-> TRUE, parser |-> "idle",
           paused |-> FALSE, answers |-> 0, age |-> 0]

\* RequestHandler.run up to run_forever, and the reaper it has started.
Init ==
    /\ env \in Environments
    /\ life = "running"
    /\ conn = [c \in Conns |-> [Closed EXCEPT !.state = "none", !.stopped = FALSE]]
    /\ listening = TRUE /\ stuck = FALSE
    /\ reaper = "awake" /\ counter = 0 /\ todo = {} /\ target = {}
    /\ has_to_work = TRUE /\ lag = 0
    /\ shutdown = "no" /\ grace = StopTimeout /\ due = FALSE /\ elapsed = 0

Registered == {c \in Conns : conn[c].state \in {"open", "draining"}}

\* Connection.stop.
Stopped(k) == IF k.status = Pending THEN Closed ELSE [k EXCEPT !.stopped = TRUE]

-----------------------------------------------------------------------------
(* The event loop and its connections.                                     *)

LoopRuns == life = "running" /\ ~stuck

Accept(c) ==
    /\ life = "running" /\ listening
    /\ conn[c].state = "none"
    /\ Cardinality({d \in Conns : conn[d].state # "none"}) < env.clients
    /\ conn' = [conn EXCEPT ![c].state = "accepted"]
    /\ UNCHANGED <<life, listening, stuck, reaperVars, shutdownVars>>

\* Connection.__init__ and connection_made.
ConnectionMade(c) ==
    /\ LoopRuns
    /\ conn[c].state = "accepted"
    /\ conn' = [conn EXCEPT ![c].state = "open"]
    /\ UNCHANGED <<life, listening, stuck, reaperVars, shutdownVars>>

\* A task that is to answer may read on, so that the socket is read again.
CanReceive(c) ==
    /\ LoopRuns
    /\ c \in Registered
    /\ ~conn[c].paused \/ conn[c].answers > 0

\* Clients wait for their answers, unless they pipeline.
MaySendRequest(c) ==
    /\ CanReceive(c)
    /\ conn[c].parser \in {"idle", "head"}
    /\ conn[c].answers = 0 \/ "pipelined" \in May

Becomes(c, k) ==
    /\ conn' = [conn EXCEPT ![c] = k]
    /\ UNCHANGED <<life, listening, stuck, reaperVars, shutdownVars>>

\* What data_received leaves of status, parser and reading.
Received(k, statusBefore, data, last) ==
    [k EXCEPT !.status = IF last THEN Processing ELSE statusBefore,
              !.parser = IF last THEN "idle" ELSE "body",
              !.paused = data]

PartialHeaders(c) ==
    /\ MaySendRequest(c) /\ conn[c].parser = "idle"
    /\ Becomes(c, [conn[c] EXCEPT !.status = Receiving, !.parser = "head"])

\* on_headers_complete stamps the request with the cached time, and leaves it
\* to a handler.
Headers(c, data, last) ==
    /\ MaySendRequest(c)
    /\ conn[c].answers < MaxAnswers
    /\ Becomes(c, Received([conn[c] EXCEPT !.age = lag, !.answers = @ + 1],
                           Receiving, data, last))

\* after_response.
Answered(k) ==
    IF KeepAlive = 0
    THEN Closed
    ELSE [k EXCEPT !.status = Pending,
                   !.paused = @ /\ k.stopped,
                   !.state = IF k.stopped THEN "draining" ELSE @]

\* The cache answers before the parser goes on with the same segment.
HeadersCached(c, data, last) ==
    /\ "cached" \in May
    /\ MaySendRequest(c)
    /\ LET answered == Answered([conn[c] EXCEPT !.age = lag])
       IN  Becomes(c, IF KeepAlive = 0
                      THEN answered
                      ELSE Received(answered, Pending, data, last))

MoreBody(c, data, last) ==
    /\ CanReceive(c) /\ conn[c].parser = "body"
    /\ data \/ last
    /\ Becomes(c, Received(conn[c], Receiving, data, last))

\* The parser raises; a handle_exception task will answer.
BadSegment(c) ==
    /\ "bad" \in May
    /\ CanReceive(c)
    /\ conn[c].parser \in {"body", "dead"} \/ MaySendRequest(c)
    /\ conn[c].answers < MaxAnswers
    /\ Becomes(c, [conn[c] EXCEPT !.status = Receiving, !.parser = "dead",
                                  !.paused = TRUE, !.answers = @ + 1])

\* The request is neither stamped nor answered: handle_upgrade fails.  When
\* its segment holds more, feed_data raises.
Upgrade(c, more) ==
    /\ "upgrade" \in May
    /\ MaySendRequest(c)
    /\ more => conn[c].answers < MaxAnswers
    /\ Becomes(c, IF more
                  THEN [conn[c] EXCEPT !.status = Processing, !.parser = "idle",
                                       !.paused = TRUE, !.answers = @ + 1]
                  ELSE [conn[c] EXCEPT !.status = Processing, !.parser = "idle"])

\* Whole requests are answered after their end.
MayAnswer(k) == k.parser # "body" \/ "early" \in May \/ k.answers > 1

Respond(c) ==
    /\ LoopRuns
    /\ c \in Registered
    /\ conn[c].answers > 0
    /\ MayAnswer(conn[c])
    /\ Becomes(c, Answered([conn[c] EXCEPT !.answers = @ - 1]))

\* scheduled_close, or the client has left (connection_lost).
Closes(c) ==
    /\ LoopRuns
    /\ c \in Registered
    /\ Becomes(c, Closed)

Blocks ==
    /\ "stuck" \in May
    /\ LoopRuns
    /\ \E c \in Registered : conn[c].answers > 0
    /\ stuck' = TRUE
    /\ UNCHANGED <<life, conn, listening, reaperVars, shutdownVars>>

-----------------------------------------------------------------------------
(* The reaper.                                                             *)

\* The top of the loop: the clocks are refreshed, then, every KeepAlive
\* seconds, kill_idle_connections takes its copy.
ReaperTurns ==
    /\ life = "running" /\ reaper = "awake"
    /\ IF has_to_work
       THEN /\ counter' = (counter + 1) % Period
            /\ lag' = 0
            /\ reaper' = "idle"
            /\ todo' = IF KeepAlive > 0 /\ counter' % KeepAlive = 0 THEN Registered ELSE {}
       ELSE reaper' = "off" /\ UNCHANGED <<counter, lag, todo>>
    /\ UNCHANGED <<life, conn, listening, stuck, target, has_to_work, shutdownVars>>

\* Mutant of IsIdle: twice the time.
IsIdleTooLong(k) == k.status = Pending /\ k.age > 2 * KeepAlive

IsIdle(k) == k.status = Pending /\ k.age > KeepAlive

\* The status is read here, and stop() is called later.
LookForIdle(c) ==
    /\ life = "running" /\ reaper = "idle"
    /\ c \in todo
    /\ todo' = todo \ {c}
    /\ IF IsIdle(conn[c])
       THEN reaper' = "stopping" /\ target' = {c}
       ELSE UNCHANGED <<reaper, target>>
    /\ UNCHANGED <<life, conn, listening, stuck, counter, has_to_work, lag, shutdownVars>>

StopIdle ==
    /\ life = "running" /\ reaper = "stopping"
    /\ conn' = [c \in Conns |-> IF c \in target \cap Registered THEN Stopped(conn[c]) ELSE conn[c]]
    /\ target' = {}
    /\ reaper' = "idle"
    /\ UNCHANGED <<life, listening, stuck, counter, todo, has_to_work, lag, shutdownVars>>

\* Every WorkerTimeout seconds, check_if_worker_is_stuck takes its own copy.
IdleDone ==
    /\ life = "running" /\ reaper = "idle" /\ todo = {}
    /\ IF counter % WorkerTimeout = 0
       THEN reaper' = "stuck" /\ todo' = Registered
       ELSE reaper' = "sleeping" /\ UNCHANGED todo
    /\ UNCHANGED <<life, conn, listening, stuck, counter, target, has_to_work, lag,
                   shutdownVars>>

\* Mutant of LooksStuck: the age of the last request is not looked at.
LooksBusy(k) == k.status = PROCESSING_REQUEST

LooksStuck(k) == k.status = PROCESSING_REQUEST /\ k.age >= WorkerTimeout

\* "Seppuku": SIGKILL to the own process.
LookForStuck(c) ==
    /\ life = "running" /\ reaper = "stuck"
    /\ c \in todo
    /\ todo' = todo \ {c}
    /\ life' = IF LooksStuck(conn[c]) THEN "killed" ELSE life
    /\ UNCHANGED <<conn, listening, stuck, reaper, counter, target, has_to_work, lag,
                   shutdownVars>>

StuckDone ==
    /\ life = "running" /\ reaper = "stuck" /\ todo = {}
    /\ reaper' = "sleeping"
    /\ UNCHANGED <<life, conn, listening, stuck, counter, todo, target, has_to_work, lag,
                   shutdownVars>>

-----------------------------------------------------------------------------
(* The shutdown.                                                           *)

\* handle_kill_signal.
Sigterm ==
    /\ LoopRuns /\ shutdown = "no"
    /\ listening' = FALSE
    /\ shutdown' = "asked"
    /\ UNCHANGED <<life, conn, stuck, reaperVars, grace, due, elapsed>>

\* stop_server up to the hooks, which may take any time.
BeginStop ==
    /\ LoopRuns /\ shutdown = "asked"
    /\ has_to_work' = FALSE
    /\ shutdown' = "hooks"
    /\ UNCHANGED <<life, conn, listening, stuck, reaper, counter, todo, target, lag,
                   grace, due, elapsed>>

\* Every connection there is by now is asked to stop.
AskConnections ==
    /\ LoopRuns /\ shutdown = "hooks"
    /\ conn' = [c \in Conns |-> IF c \in Registered THEN Stopped(conn[c]) ELSE conn[c]]
    /\ shutdown' = "waiting"
    /\ due' = TRUE
    /\ elapsed' = 0
    /\ UNCHANGED <<life, listening, stuck, reaperVars, grace>>

\* Mutants of MayStop: a stopped connection counts as closed, or the time is
\* never over.
MayStopEarly == grace = 0 \/ \A c \in Registered : conn[c].stopped
MayStopLate == Registered = {}

\* The loop of stop_server ends: all are closed, or the time is over.
MayStop == grace = 0 \/ Registered = {}

WaitForConnections ==
    /\ LoopRuns /\ shutdown = "waiting" /\ due
    /\ IF MayStop
       THEN life' = "stopped" /\ UNCHANGED <<grace, due>>
       ELSE /\ grace' = grace - 1
            /\ due' = FALSE
            /\ UNCHANGED life
    /\ UNCHANGED <<conn, listening, stuck, reaperVars, shutdown, elapsed>>

-----------------------------------------------------------------------------
Older(n) == IF n < MaxAge THEN n + 1 ELSE n

\* Ages are of interest to the reaper alone.
Aged(k) == IF reaper = "off" THEN k ELSE [k EXCEPT !.age = Older(@)]

\* The client has sent what it could: the rest of a body waits for a handler
\* that reads it, or for nobody.
HasSent(k) == k.parser # "head" /\ (k.parser = "body" => k.paused)

\* Nobody has anything left to do within this second: reaper and stop_server
\* sleep, clients have sent what they send at once, and no task has outrun the
\* watcher of its request, which an earlier request's answer may cancel.
SecondIsOver ==
    /\ reaper \in {"sleeping", "off"}
    /\ stuck \/ ~due
    /\ "slow" \in May \/ stuck \/ \A c \in Registered : HasSent(conn[c])
    /\ {"long", "pipelined"} \cap May # {} \/ stuck
        \/ \A c \in Registered : conn[c].answers > 0 => conn[c].age < HandlerTimeout

Tick ==
    /\ life = "running"
    /\ SecondIsOver
    /\ conn' = [c \in Conns |-> IF c \in Registered THEN Aged(conn[c]) ELSE conn[c]]
    /\ lag' = IF reaper = "off" THEN lag ELSE Older(lag)
    /\ reaper' = IF reaper = "sleeping" THEN "awake" ELSE reaper
    /\ due' = (shutdown = "waiting")
    /\ elapsed' = IF shutdown = "waiting" THEN Older(elapsed) ELSE elapsed
    /\ UNCHANGED <<life, listening, stuck, counter, todo, target, has_to_work, shutdown,
                   grace>>

Reaper ==
    \/ ReaperTurns \/ StopIdle \/ IdleDone \/ StuckDone
    \/ \E c \in Conns : LookForIdle(c) \/ LookForStuck(c)

Shutdown == BeginStop \/ AskConnections \/ WaitForConnections

Connections ==
    \E c \in Conns :
        \/ Accept(c) \/ ConnectionMade(c) \/ Respond(c) \/ Closes(c)
        \/ PartialHeaders(c) \/ BadSegment(c)
        \/ \E data, last \in BOOLEAN :
              Headers(c, data, last) \/ HeadersCached(c, data, last) \/ MoreBody(c, data, last)
        \/ \E more \in BOOLEAN : Upgrade(c, more)

Next == /\ Reaper \/ Shutdown \/ Connections \/ Blocks \/ Sigterm \/ Tick
        /\ UNCHANGED env

Spec == Init /\ [][Next]_vars

\* Time passes, threads are scheduled, and the loop runs what is ready.
Fairness ==
    /\ WF_work(Tick) /\ WF_work(Reaper) /\ WF_work(Shutdown)
    /\ \A c \in Conns : WF_work(Respond(c)) /\ WF_work(ConnectionMade(c))

FairSpec == Spec /\ Fairness

-----------------------------------------------------------------------------
(* Properties                                                              *)

\* What IdleIsBounded asks of clients and handlers: that each answer belongs
\* to a request whose headers were stamped, and comes within HandlerTimeout.
StampedAndTimely == {"long", "bad", "upgrade", "pipelined"} \cap May = {}

\* Nothing of a request is in flight.
Idle(k) == k.parser = "idle" /\ k.answers = 0

\* "How long we allow a connection being idle" (reaper.py:19): up to twice
\* keep_alive_timeout, because it is looked at every keep_alive_timeout
\* seconds and its age counts from the start of its last request.  The reaper
\* goes by the status, which shows an idle connection as PENDING only where
\* every answer follows its request's body.
IdleIsBounded ==
    \A c \in Registered :
        /\ KeepAlive > 0 /\ shutdown \in {"no", "asked"}
        /\ StampedAndTimely
        /\ conn[c].status = Pending \/ ({"early", "cached"} \cap May = {} /\ Idle(conn[c]))
        => \/ conn[c].age <= 2 * KeepAlive
           \/ conn[c].age <= HandlerTimeout + KeepAlive

\* Once the connections were asked, the worker stops within its timeout,
\* whatever they do (stop_server, handler.py:68-79).
StopsInTime ==
    "stuck" \notin May /\ shutdown = "waiting" /\ life = "running"
        => elapsed <= StopTimeout

\* A worker that stops before its deadline leaves no connection open: none of
\* the requests it had accepted is cut.
StopsGracefully ==
    life = "stopped" /\ elapsed < StopTimeout => Registered = {}

\* No worker is killed on account of prompt clients that wait for their
\* answers and handlers that read their bodies to the end, as long as an idle
\* connection is closed before it is old enough for it.
PromptClientsAreSafe ==
    /\ May \subseteq {"stuck"}
    /\ KeepAlive > 0
    /\ 2 * KeepAlive < WorkerTimeout /\ HandlerTimeout + KeepAlive < WorkerTimeout
    => life # "killed" \/ stuck

\* "In case the worker is stuck for some crazy reason (sync calls, expensive
\* CPU ops) we gonna kill it" (reaper.py:23).
StuckWorkersAreKilled == stuck /\ shutdown = "no" ~> life # "running"
=============================================================================
