# A verification of Vibora

Vibora is an asynchronous HTTP server and client: Cython protocol code on top of asyncio or
uvloop, one process per core, a reaper thread in each. This directory holds TLA+ modules of it,
the configurations TLC checks them with, and theorems TLAPS proves. `PROJECT.json` ties every
definition to the lines it models, every run to its properties, and every property to a mutant of
the code it would catch.

    tlc -config Connection.cfg MCConnection       # one of the runs below
    tlapm ConnectionProofs.tla                    # one of the eight modules of proofs, *Proofs.tla

## 1. The system

| part | state | operations | speaks with |
|---|---|---|---|
| request body stream (`request/request.pyx`) | deque, event, `waiting`, `dirty`, `finished`; `consumed` | put, end, clear, get, iteration | parser callbacks, handler task |
| HTTP connection (`protocol/cprotocol.pyx`) | `status`, `readable`, `writable`, `closed`, `_stopped`, `timeout_task`, `current_task`, request components | data_received, parser callbacks, handle_request, after_response, timers, stop, close | transport, handler, responses, reaper, worker |
| responses (`responses/responses.pyx`) | content or generator, cookies | send, streaming tasks, wait_client_consume | connection, transport |
| worker (`workers/handler.py`, `reaper.py`) | `app.connections`, the listening socket, the reaper's counter and flag | run, stop_server, kill_idle_connections, check_if_worker_is_stuck | connections, kernel, parent |
| parent (`server.py`, `workers/necromancer.py`) | list of workers | run, clean_up, necromancer | workers |
| HTTP client (`client/`) | pools by host, idle and known connections, cookies, rate limits | request, redirect, retry, read, stream, release | servers |
| router (`router/`) | routes by method and host, LRU cache | add_route, get_route | connection |
| components (`components/`) | permanent and request-bound indexes | get, add, reset, clone | handlers, hooks |
| hooks, error handlers, blueprints (`application.py`, `blueprints.py`) | tables by event and exception type, a tree of blueprints | call_hooks, process_exception, add_blueprint | connection |
| request parser (`parsers/parser.pyx`) | current header, sizes | callbacks of the C parser, limits | connection |
| multipart (`multipart/`) | buffer, current field | feed | request.form |
| websockets (`websockets/`, `protocol/cwebsocket.pyx`) | partial frame | feed | the connection's transport, once upgraded |
| caches and files (`static.py`, `cache/`, `sessions/`, `templates/`) | entries by path, key or template | get, store, reload | handlers |
| schemas (`schemas/`) | - | load | handlers |

One event loop per worker runs every callback to its end and every task up to its next `await`:
that is the unit of interleaving, and an action of a module is one such unit. The reaper is a
thread of its own, the workers are processes.

What is hard to get right, and hard to test:

* one connection object, one stream and one component table serve all requests of a connection in
  turn; whatever a request leaves behind is met by the next one;
* the parser goes on within a segment after a callback has answered, cleared or closed;
* five tasks may answer a request: handler, error handler, watcher, parser error, cache; each must
  call `after_response` exactly once;
* `status` is written by parser and responses, and read by the reaper's thread and the worker's
  shutdown to decide what may be closed;
* reading is paused by each chunk and resumed by whoever wants the next; a missing resume is a
  connection that stands still;
* declarations come in any order, and mounting, starting and the strategies copy tables while
  they grow;
* bytes come cut anywhere, and one parser serves many messages;
* caches are told of changes by a time, a hash or not at all.

`PROJECT.json` lists these as hazards, each at its line, with the properties that watch it.

## 2. The modules

| module | models |
|---|---|
| `AsyncEvent` | the `asyncio.Event` contract the code relies on (external) |
| `StreamQueue` | class `StreamQueue`, as operators on its state |
| `RequestStream` | the stream of one connection: parser, handler and `after_response`; `MCRequestStream` its instances |
| `BodyStream` | abstract: what a handler is promised of `request.stream` |
| `RequestStreamProofs` | theorems about `RequestStream` |
| `Connection` | the whole life of one connection; `MCConnection` its environments |
| `ConnectionProofs` | theorems about `Connection`, after lemmas about the operations of `StreamQueue` |
| `Worker` | one worker: its connections, its reaper thread, its shutdown; `MCWorker` its workloads |
| `WorkerProofs` | theorems about `Worker` |
| `Client` | concurrent requests of one session over one pool; `MCClient` its environments |
| `ClientProofs` | theorems about `Client` |
| `Router` | the tables of routes, the strategies for slashes, the search and its LRU cache |
| `Application` | an application from its declarations to its answers, over `Router`; `MCApplication` its programs |
| `ApplicationProofs` | theorems about `Application` and the cache of `Router` |
| `HttpParser` | the parsers of requests and responses over the callbacks of the C parser |
| `Multipart` | a form from the encoder to the handler that reads it |
| `Websocket` | frames from `create_single_frame` to the opcode handlers; `MCDecoders` the inputs of all three |
| `Oddities` | what the next three share: `None`, and `odd`, what is unusual about a behaviour |
| `Static` | static files against their changes on the disk |
| `StaticProofs` | theorems about `Static` |
| `Sessions` | sessions kept in files |
| `SessionsProofs` | theorems about `Sessions` |
| `Templates` | templates from their files to what is rendered |
| `RequestRate` | the rate limit of a session; `MCParts` the instances of these four |
| `RequestRateProofs` | the theorem about `RequestRate` |

They compose in several ways. `RequestStream` and `Connection` use the operators of `StreamQueue`,
which uses those of `AsyncEvent`. `Worker` takes over from `Connection` what reaper and shutdown
see of a connection, `status`, `last_task_time`, `stop()` and being in `app.connections`; that a
connection is registered while it is open, and that a stopped one closes, is what the `connection`
run checks (`RegisteredWhileOpen`, `OrderlyStops`); the former is also proved. `Application` extends `Router` and uses its
operators in the actions that mount, start and serve. `MCDecoders` and `MCParts` put together
modules that share nothing but their place in the program: a behaviour is one of one of them.
`MCParts` extends `RequestRate`, `Sessions` and `Static`, so that what the run checks is what the
proofs are about, and so that TLC evaluates their assumptions.
`Client` shares nothing with the server.

### StreamQueue and RequestStream

`StreamQueue` is a record: `items` (the deque), `event`, `waiting`, `dirty`, `finished`. `Put`,
`End` and `Clear` are the methods of that name. `get` is split at its `await`: `GetReturns`,
`GetValue`, `GetRest` for the path that does not suspend, `GetWait` for the path that does, and
`GetResume` for the second half; `GetFails` is the IndexError of a `popleft` on an empty deque.
`GetCancelled` is a task cancelled while suspended.

`RequestStream` adds the parser (`Headers`, `HeadersCached`, `MoreBody`, `Coalesced`: one segment
each, which may carry several chunks) and the handler (`NextChunk`, `WaitChunk`, `Wake`, `GiveUp`,
`Answer`). `got` is a history variable: the chunks the handler has read. `Behaviours` says what
may happen beyond whole requests: answers before the body has arrived, cached answers, segments
with the end of one body and the next request. `BodyStream` is its abstract specification: chunks
of the own body, once each and in order, and an end that is real.

### Connection

An action is one callback or one leg of a task:

| code | actions |
|---|---|
| `data_received` and the parser's callbacks | `PartialHeaders`, `Headers`, `HeadersCached`, `MoreBody`, `BadSegment`, `Upgrade` |
| `handle_request` and the endpoint | `ReadChunk`, `WaitChunk`, `Wake`, `Respond`, `Stream`, `Raise`, `RunSentHooks` |
| `handle_exception` | `HandleException`: `ErrorAnswers`, `SendStream` or `ErrorRaises` |
| streaming tasks of `responses.pyx` | `StreamEnds`, `StreamStalls`, `StreamRaises`, `StreamTimeout` |
| `cancel_request` | `Timeout` |
| `after_response` | `AfterResponse`, part of every action that sends |
| back-pressure | `Send` (pause_writing within a write), `ResumeWriting`, `WaitClientConsume` |
| `stop`, `scheduled_close`, `connection_lost` | `Stop`, `ScheduledClose`, `ConnectionLost` |

A response is the number of the request it was written for, so that `sent` shows answers that are
missing, doubled or out of turn. Times are left out: a watcher may fire whenever it is set. The
rigid variable `env` says what may happen (`may`), whether keep-alive is on and what the
AFTER_RESPONSE_SENT hooks do; one run checks all environments, and a property that needs the
environment's help says so in its first conjunct, and asks for no more than it needs:
`HandlersAnswer` (the hooks after a response do not raise, and where watchers fire requests come
in turn and handlers do not raise), `OneAnswerer` (besides, the parser rejects no segment),
`InTurn` (no pipelining, no pressure), `WholeBodies` (nothing is answered before its body's end). The endpoint,
the hooks before it and the error handlers compute anything, in any time: each answers, streams or
raises. An error handler that raises, or that returns no response, ends the task that awaits it, so
that nothing is sent (`"faulty"`); the liveness properties exclude it, the others do not. The C parser
and the client are the environment.

### Worker

| code | actions |
|---|---|
| kernel, `connection_made` | `Accept`, `ConnectionMade` |
| `data_received` and the parser's callbacks | `PartialHeaders`, `Headers`, `HeadersCached`, `MoreBody`, `BadSegment`, `Upgrade` |
| `after_response` | `Answered`, within `Respond` and `HeadersCached` |
| `scheduled_close`, `connection_lost` | `Closes` |
| `Reaper.run` | `ReaperTurns`, `IdleDone`, `StuckDone` |
| `kill_idle_connections` | `LookForIdle` (reads a status), `StopIdle` (calls `stop()`) |
| `check_if_worker_is_stuck` | `LookForStuck` |
| `handle_kill_signal`, `stop_server` | `Sigterm`, `BeginStop`, `AskConnections`, `WaitForConnections` |

The reaper is a thread: the loop's actions may come between any two of its own, also between the
status it read and the `stop()` it calls. Time is a `Tick` per second, the unit of both
`sleep(1)`; it waits for what is due within the second, and for clients and handlers that the
environment does not allow to be slow. `lag` is the age of the time the protocol module caches,
which is what `last_task_time` is set from. `Blocks` is a handler that never returns to the loop.

Of a connection `Worker` keeps what decides its status, its time and whether it reads: where the parser
is, whether `on_body` has paused reading, and how many tasks will still call `after_response`. So an
answer may come before the body's end, from the cache within the headers, or after a rejected segment,
and leave the pairs of status and time that the code leaves. `May` says which of these happen.

### Client

| code | actions |
|---|---|
| `Session.get` ... `Session.request` | `Call`, `Start`, `Timeout` (of `wait_for`) |
| `get_connection`, `is_dropped`, `create_connection`, `Request.encode` | `Probe`, `Connect`, `ConnectFails` |
| `receive_headers` and what follows it in `HTTPEngine.request` | `Answer`, `Broken` |
| `read_content`, `handle_redirect` | `Content` |
| a streamed response in the caller's hands | `ReadStream`, `Abandon` |
| `_release_connection` | `Release` |
| `Session.close` | `Close` |
| the server | `PeerEnds` |

A task that is cancelled or abandoned ends where it is. `on_message_complete` queues a task
(`releases`) instead of releasing: an empty body queues two. `sent` is a history variable: how
often a caller's own request, not a redirected one, went out. Connections are numbers, reused
when nothing refers to them.

### Router and Application

| code | actions |
|---|---|
| `Blueprint.route`, `add_hook`, `handle`; `ComponentsEngine.add` | `DeclareRoute`, `AddHook`, `Handle`, `AddComponent` |
| `Blueprint.add_blueprint`, `Application.add_blueprint` | `Nest`, `Mount` |
| `Vibora.initialize` | `Initialize` |
| `Connection.__init__` | `Connect` |
| `on_headers_complete`, `handle_request`, `handle_exception` | `Serve` |

Declarations come in any order. A request is one action: routing with both caches, hooks before,
the handler with the components it asks for, hooks after, or the exception's way up the blueprints.
`reply` is a history variable: the route, the hooks and handlers that were called, and what was
answered. A path is its segments and whether a slash ends it; a pattern has parameters and `.*` as
segments; a query string is a flag, because the router compares raw URLs.

### HttpParser, Multipart and Websocket

| code | actions |
|---|---|
| `feed_data` and the callbacks of `parser.pyx`, of `response.pyx` | `Receive`, `RequestCallback`, `ResponseCallback` |
| `Request._load_form`; the stages of `MultipartParser.feed` | `Receive`; `Feed` |
| `WebsocketConnection.data_received`; `FrameParser.feed` | `Receive`; `Feed` |

`Receive` takes any number of bytes off the wire, so that TLC tries every cut. The encoders of the
same code are functions: `Encoded` of `MultipartEncoder` with its buffered reads, `Frame` of
`create_single_frame`. The C parser is external: it calls back with each stretch of data in a
segment. `FrameParser`'s masks and lengths are computed on bytes.

### Static, Sessions, Templates and RequestRate

| code | actions |
|---|---|
| `StaticHandler.handle`; the body of a streamed answer | `Request`; `ReadBody` |
| `Request.session`, `load`, `Session.__setitem__`, `flush_session`, `save` | `Arrive`, `Load`, `Change`, `Flush`, `Write`, `Cancel`, `Crash` |
| `check_for_modified_templates`, `reload_templates`, `compile_templates` | `Scan`, `Reload`, `Compile` |
| the file system | `Edit` |
| `RequestRate.notify`, in two halves when it sleeps | `Notify`, `Wake` |

A text is a short sequence, and its own ETag or hash. The ASTs of templates are shared and changed
in place, as in the code: what is compiled is what an AST was then. `Texts`, `versions` and the
changes of a session are what an observer can tell apart, nothing more.

`Static`, `Sessions`, `Templates`, the decoders and `Application` have a variable, `odd`, or
`config.odd`, chosen once. It names what is unusual
about a behaviour. The properties hold where nothing is odd; where something is, the code does what
section 5 says. TLC explores these behaviours, too, for the type invariants and for the properties
that hold all the same, and each condition has been seen to be necessary.

## 3. What the runs show

| run | question | bounds |
|---|---|---|
| `stream_simple` | answers that follow their bodies: own chunks in order, a real end, a clean stream afterwards, one segment of buffering at most, every request ends, and `BodyStream` is implemented | 3 requests, 3 chunks, 2 chunks a segment |
| `stream_anything` | any interleaving of answers, segments and cached responses: no lost wake-up, no IndexError | same |
| `connection` | eight environments, see below: one response per request in order, nothing of an answered request left over, streams uninterrupted, every request answered, an orderly connection that is stopped closes | 3 requests |
| `worker` | five workloads, see below: idle connections close in bounded time, the shutdown keeps its deadline and cuts nothing before it, prompt clients never get the worker killed | 2 connections, times below |
| `client` | seven environments: one user per connection, POST not repeated, no open connection unknown to the pool, none lost, every request ends | 2 callers, 2 calls, 2 faults |
| `application` | fourteen programs, declared in every order: the right route or the right refusal, a cache of routes that changes nothing, each hook once, the closest error handler | 4 requests, cache for 1 |
| `decoders` | messages, forms and frames cut in every way: what was sent arrives, and a message is measured by its own limits only | see below |
| `parts` | static answers are fresh and the cache keeps its budget; a session holds each change its browser knows of; templates follow their files; a request rate is exceeded by one per task at most | see below |
| `conn_slow_client` | violation: `after_response` is not called when the transport pauses writing | 3 requests |
| `worker_stuck` | violation: the reaper never kills a worker whose loop is blocked | as `worker` |
| `application_query` | violation: a declared path with a query string is not found | as `application` |
| `form_sliced` | violation: a boundary that is cut one character before its end leaves a carriage return in the content | as `decoders` |

The environments of `connection` are `Orderly` (whole requests, slow handlers), `Hasty` (early and
cached answers, timeouts), `Failing` (handlers and generators that raise), `Unanswered` (error handlers that raise, over slow and
hasty handlers), `Pushy` (pipelining and
slow reading), `Rejected` (bad segments, upgrades), `OneShot` (no keep-alive) and `Asking` (a hook
that asks for the request after its response). All but the violation runs pass.

Some properties are conjunctions of named parts that a reader may check one by one:
`NothingPilesUp` of `IdleIsClean` and `BackPressure`, `NothingIsLeftOver` of `WatchersAreRemoved`,
`PendingIsIdle` and `AnsweredIsClean`, `StaticIsSound` of `StaticIsFresh` and `CacheIsBounded` (which
counts the characters that are in memory, not what `current_cache_size` says of them).
`Application`'s `TypeOK` has `LruIsSound` in it: queue and values of the LRU cache hold the same keys.

Three requests are enough: what a request leaves behind is met by the second, and the third sees
whether the second recovered. Two chunks per segment and three per body tell apart the first, a
middle and the last chunk. `Len(sent)` and the timers grow with the requests only.

`worker` has `KeepAlive = 2`, `WorkerTimeout = 6`, `HandlerTimeout = 3`, `StopTimeout = 2`: both of
the reaper's periods are longer than its turn, they meet, and an idle connection may miss one
sample. `2 * KeepAlive` and `HandlerTimeout + KeepAlive` are below `WorkerTimeout`, as
`PromptClientsAreSafe` requires, with `KeepAlive > 0`: without keep-alive the reaper looks at no idle
connection (section 5). Ages saturate at `MaxAge = 7`, above all of these. Two connections
are what a race between the one the reaper looks at and another needs; they are symmetric.
`has_to_work` and SIGTERM happen once. The workloads are: prompt clients, of which one may meet a handler
that blocks the loop, and slow ones, on two connections; and on one, slow clients with long
responses, with early and cached answers, and prompt ones with early answers, rejected segments,
upgrades and pipelining. The last three concern one connection's own status and time. `MaxAnswers = 2`
tasks that will answer are the least that lets an answer come while another is due.

`client` has one caller that sends GET and one that sends POST, two calls in all (two callers at
once, or one after the other over the same pool), one redirect, one status retry, two faults: a
failure, and another one while it is retried. `MaxConns = 6` is never the reason that a call waits;
`EveryRequestEnds` would fail if it were.

`application` has programs of a few declarations each, one per matter: prefixes, nesting and
methods; parameters beside fixed paths in each strategy; hooks with and without answers over
cached and uncached routes; handlers in three levels, for classes with two superclasses;
components; hosts; and the odd ones. `CacheSize = 1` holds two entries: the code compares with `>`.
Two requests fill the cache, a third evicts from it and is stored under the key that had to go, a
fourth is answered from it: wrongly, which is why `RightRoute` and `CacheIsTransparent` promise nothing
of a request that met a full cache (`BeforeFull`). With three requests the former would hold without
that premise, by the bound alone.

`decoders` has limits of eight bytes of headers and three of body, of which messages stay below, meet
and exceed each; a chunk size of two characters, so that values span reads; flushing from six
characters on and memory for twelve, so that fields are flushed, and moved to disk or not; a mask
whose bytes differ; and two or three messages a connection, so that one meets what another left.

`parts` has two roots and two names, a budget of three characters, which one file fits and two do
not, and `MaxClock = 3`: a file is cached, edited and asked for again, twice. Two browsers send
three requests, the least for an update to be lost by a third party. Folders have up to five files
of up to two contents, walked in both orders. The ranges are
empty, inside a file, up to its end, behind it, reversed and open. Two tasks, a count of two and a period of seven
reach the bound of `RateIsKept` exactly; `MaxTime = 17` holds two periods.

Fairness: the loop runs every ready task (weak fairness on each handler, stream, error and flusher
task, on `ScheduledClose` and on `ResumeWriting`), a client completes the request it began (weak
fairness on the headers, strong fairness on the last body segment, because reading is paused in
between) and, in `RequestStream`, sends a next one. Handlers and generators end; the code's
watchers guarantee that for handlers. No fairness is assumed of timeouts, failures, disconnection
or `stop`. In `Worker` time passes, the reaper's thread is scheduled, the loop runs what is ready
and handlers end (weak fairness on `Tick`, `Reaper`, `Shutdown`, `ConnectionMade`, `Respond`); a
blocked loop disables its actions, so that fairness does not unblock it. In `Client` the loop runs
what is ready, an attempt to connect ends one way or the other, and a server answers unless the
connection breaks; without the latter only a caller's own timeout ends a request.

## 4. What is proved

`RequestStreamProofs`, for all bounds:

* `TypeCorrect`: the type invariant. Inductive with `TypeInv`, which adds that a request in
  progress is one of `Msgs`.
* `Waiters`: `WaiterIsServed`, for every behaviour of the environment. By
  `WaiterInv`: nobody but the current handler is in the event; a suspended consumer has set
  `waiting` and cleared the event; when it is woken, an item is queued.
* `OwnChunks`: `OwnChunksInOrder` unless segments are coalesced. By `OwnInv`: the queue holds
  what is missing between `got` and what was put, as consecutive chunks of the current request.
* `EndsAreReal`: `EndIsReal /\ IdleIsClean` when every answer follows its body. By `EndInv`:
  `finished` and the sentinel are there only if the current body has ended.
* `Buffers`: `NothingPilesUp` under the same assumption. By `BufferInv`: while the
  socket is read within a body nothing is queued, so that what is queued came with one segment.
* `Implements`: under the same assumption, every step of `RequestStream` is a step of `BodyStream`
  or a stutter.

The assumptions on `Behaviours` are the ones without which TLC finds counterexamples (section 5).
The parameters' assumptions say that the bounds are natural numbers and that `Behaviours` is a set
of the three names.

`ConnectionProofs`, for any number of requests, chunks and writes and any set of environments:

* `TypeCorrect`: the type invariant, in every environment. `TypeInv` adds that a parser within a body
  has met a request, that no handler waits for hooks there are none of, and that a transport without
  pressure never pauses writing.
* `Registered`: `RegisteredWhileOpen`, in every environment. By `ClosedInv`: without keep-alive only a
  connection that streams is open after its first response.
* `Answers`, `Releases`, `Streams`: `OneResponseInOrder`, `NothingIsLeftOver` and the action property
  `StreamsAreUninterrupted`, each under the premises written in it. All from one invariant, `Inv`, with
  a part for each thing that has to stay true for the others to: `Order` (only the last request is
  unanswered, and one task at most has its answer), `Waiters` (a handler that waits is in the event,
  with nothing to read, or woken and with something), `Watchers` (the only timer is `timeout_task`,
  and the last request's), `Busy` (what is in flight shows in the status), `Body` (the queue holds the
  body of a request that is being handled, and is clean afterwards), `Unique` (with pipelining: every
  request is with one handler, one error handler or answered) and `AliveInv` (the parser is dead only
  where segments are rejected). No part is inductive alone. A watcher that fires does so for the last
  request, because of `Watchers`; it is the last request's, because a client that does not pipeline
  waits for its answer, which is part of `Order`; and after it fired there is no second answer,
  because the handler it cancels is the only one that had it, which is `Order` again.

`WorkerProofs`, for any set of connections, all timeouts and every environment:

* `TypeCorrect`: the type invariant.
* `InTime`, `Graceful`: `StopsInTime` and `StopsGracefully`. By `TimeInv`: the seconds that have passed
  since the shutdown asked and the grace that is left add up to the timeout, one second more or less
  within a turn; a stopped worker has no grace left or no connections.
* `IdleConnections`, `Prompt`: `IdleIsBounded` and `PromptClientsAreSafe`. The former is about
  connections that show themselves idle, PENDING, where each answer belongs to a request that was
  stamped and comes in time; that an idle connection is PENDING is part of it where nothing is
  answered early or from the cache. The latter is about prompt clients that wait for their answers and
  handlers that read their bodies to the end. Section 5 has what happens otherwise. By `AgeInv`: a bound on the age of each
  connection, which depends on its status, on the turns since the reaper last looked for idle ones
  (its counter modulo `keep_alive_timeout`, hence the lemmas on remainders), on where the reaper is
  in its turn and on whether the connection is still on the list it works off. `ConnInv` says what
  status, parser, answers and age go together where no answer comes before the end of its request,
  `ReaperInv` when the reaper's clock is fresh.

`ClientProofs`, for any number of callers and connections, all bounds and all environments:

* `TypeCorrect`, `Users`, `Posts`: `TypeOK`, `OneUser`, `PostIsNotRepeated`, from one invariant
  `Inv == TypeInv /\ UserInv`. `UserInv` says of a connection in use that nobody else refers to
  it: not the available queue, not a scheduled release, not another call. It needs `Referenced`, a
  new connection is one nothing refers to, and it survives an empty body's two releases because a
  call that takes a connection from the pool only ever probes it, never uses it: `OneUser` rests
  on `is_dropped`, which closes what it probes (section 5). `TypeInv` ties the counts of a POST together: what it
  has left of retries and what it has sent.
* `Known`: `OpenIsKnown`, inductive by itself: a connection is discarded only where it is closed.
* `Kept`: `NoConnectionIsLost`, where nothing fails and nobody gives up. By `KeptInv`: an open connection
  is in the pool, in a scheduled release, or held by a call that has yet to bring it back; of a
  streamed empty response the second release is already scheduled when the caller still holds it.

`RequestRateProofs`, for any number of tasks, any count and period:

* `Rate`: `RateIsKept`, from `RateInv`. A task that fell asleep in an earlier period (`Early`) may
  wake in this one and count from zero: `Spendable` is what that can still let through. After the
  end of a period a task passes at most once before the next call begins a new one. The bound is
  exact: `parts` reaches it. The assumptions: the tasks are finitely many, `time()` never gives a
  value twice, a sleep does not end early.

`ApplicationProofs`, for any blueprints, programs, orders of declarations, requests and cache sizes:

* `Types`: the type invariant, tables, hooks and handlers included. By `TypeInv`, whose `TreeInv` says
  that what is nested was mounted by a declaration of the program, whose blueprints have a depth
  (`ProgramsAssumption`): what `RoutesOf` and `ProcessException` compute along the tree is proved by
  induction over that depth. What folds (`AddRoute`, `AllAdded`, `WithDefaults`) preserve is proved once,
  by lemmas on recursion over numbers and sequences.
* `HooksCalled`: `HooksAreCalled`. By `HomeInv`, where nothing is declared late: each declared hook is in
  one place once, its blueprint's dict or, when it is global and the blueprint is mounted, the
  application's; no blueprint is mounted before its hooks are declared; and the flags a connection
  was made with tell which events have hooks.
* `ErrorsCaught`: `ErrorsFindTheirHandler`. By `KeptInv`, where nothing is declared late or twice: a
  blueprint's dict has exactly what was declared of its handlers; the application's, once it is
  initialized, those and the defaults, and no class after one of its superclasses (`Ordered`: what the
  turns of `sort_error_handlers` preserve). That a handler for the class itself is asked first, then
  one for any of its superclasses, then the parent, makes the first answer the nearest and most
  specific one: induction along the parents (`TreeInduction`).
* `RightRouteFound`: `RightRoute`, for routes with nothing odd and until the cache is full. It promises
  the route a request is given to, and that a page is that route's own; where a hook before or after
  the endpoint answers in its stead, or a handler of an exception does, the answer is theirs. `PrefixesOf`
  is `FullPrefixes` by induction along the tree of mounts. `RoutesInv` tells, at every moment, which
  routes each blueprint's own list has and that what is mounted was complete by then, so that
  `RoutesOf` gathers every declared route under its full prefixes and nothing else. `TablesInv` is
  about the tables: whatever is in them was made from a declared route at one of its prefixes or is
  its twin (`Sound`: the route, its redirect or its clone), and once the application is initialized
  every route is in them at every prefix, with its twin (`Complete`); what the folds of `add_route` and
  `AllAdded` add keeps the first and grows towards the second. By `Sound` what a search finds is
  promised, by `Complete` a 404 or 405 is told only when nothing is. A cached route is what the search
  would find (`Transparent`), as long as `cache.size`, which no request raises by more than one
  (`SizeInv`), has not passed `max_size`. `RoutesAssumption` says what the odds about routes mean, and that a
  request's path is never empty; TLC evaluates it.
* `Transparency`: `CacheIsTransparent`. By `StartInv`, nothing is asked before the application is
  initialized and nothing declared afterwards, so that the tables a cached route was found in are
  still the tables; and by `Transparent`, each key holds what a search for it finds.
* `LruKeepsItsSize`: `LruIsSound`. `set` appends a key to the queue only when it is new to the values,
  which it is because it is only called after a miss; so that the key it deletes is always there.
* `Frozen`: once there is a connection, no step changes what requests are routed by.

`StaticProofs`, for any roots, files, texts, edits, ranges and budget:

* `TypeCorrect`: the type invariant, whatever is odd.
* `Sound`: `StaticIsSound`. The budget by `BytesInv`: `current_cache_size` only grows, and by what is read
  into memory; an entry that is replaced costs at most its length more. The freshness by `FreshInv`,
  where nothing is odd: an entry and a client's copy may be stale, but what has the time of the file
  has its text, and nothing has a later time (`Dated`), so that comparing times is enough for a 304 and
  for a reload; what is remembered of `exists` is so, so that the entry is of the first root that has
  the file; and a body that is still to be streamed is that of the file that was asked for. Of a range
  inside its file, the answer is bytes of it from `start` on, as many as are declared, and no further
  than `end`: not all of them, since the code leaves out the last (section 5). Any range may be asked
  for; open, reversed and far ones are odd.
  `SitesAssumption` says of the trees of files that each root has the same names and that the clock is
  not behind them; the effect of `extract_path` on a usual name is an assumption, too, because
  the provers cannot expand `SelectSeq`. TLC evaluates both.

`SessionsProofs`, for any set of browsers and any number of requests:

* `TypeCorrect`: the type invariant, in every habit.
* `Kept`: `SessionIsKept`, where nothing is odd, requests may be cancelled and answers lost. A file does
  not say whose it is: `FileInv` ties it to the browser of the request it is named for, `CookieInv` a
  cookie to its file and to what the browser was told, `RunInv` carries both through a running
  request, whose cookie stays its browser's because that has no other request meanwhile (`TurnInv`).

Only model-checked are:

* liveness: `EveryRequestEnds` (twice), `EveryRequestAnswered`, `OrderlyStops`. TLAPS proves neither
  `ENABLED` nor, so, what follows from fairness;
* the decoders: what is on the wire is a recursive function of the messages, `HttpParser` flattens
  sequences of sequences, `Websocket` computes with bits;
* `Templates`, whose inheritance and includes are recursive operators.

## 5. Where the code and its documentation part

With a run: the four violations above; `PROJECT.json` quotes the lines. Without one, in the
connection and the worker:

* a cached answer clears the stream while its own message goes on: `finished` stays set, and the
  next request's stream ends before its body (`cprotocol.pyx:239`);
* the rest of a body that was answered early is read by the next handler when it comes in one
  segment with the next request (`cprotocol.pyx:256`);
* a connection that is stopped after a cached answer stays open, because its status does not go
  back to pending (`cprotocol.pyx:274`);
* a hook of AFTER_RESPONSE_SENT that asks for the `Request` finds no component, raises, and makes
  for a second response (`cprotocol.pyx:188`); `HooksPass` excludes it;
* a watcher that fires after its request has failed sends a second error answer, which may land in
  a later request's stream (`cprotocol.pyx:363`); `OneAnswerer` excludes it;
* a segment rejected within a body, or after a request whose handler still runs, is answered in
  addition to the request (`cprotocol.pyx:298`);
* an early answer whose body arrives afterwards leaves reading paused: `on_body` pauses and no
  handler is left to resume (`cprotocol.pyx:262`); `WholeBodies` excludes it;
* a pipelined request is answered by whichever handler ends first (`cprotocol.pyx:242`);
* a streaming generator that raises leaves `after_response` uncalled (`responses.pyx:26`);
* no connection is ever upgraded: `handle_upgrade` reads `self.route`, which no connection has, and the
  AttributeError is lost in a `cdef void` function. The request gets no answer, no watcher and the status
  PROCESSING, so that `stop()` does not close its connection (`cprotocol.pyx:83`);
* an error handler that raises leaves its request unanswered, also after a timeout, and the connection
  open with what it had (`cprotocol.pyx:435`); `EveryRequestAnswered` excludes `"faulty"`;
* a body of three or more segments that is answered after its first: the next segment makes the status
  RECEIVING and pauses reading, with nobody left to resume it (`cprotocol.pyx:262`), and its time
  grows until the reaper takes it for a stuck request and kills the worker (`reaper.py:41`), however
  prompt client and handler were; `PromptClientsAreSafe` excludes early answers;
* a connection whose last request was answered before its segment ended, from the cache
  (`cprotocol.pyx:239`) or within the body, is left PROCESSING, and so is one that asked for an
  upgrade: the reaper never closes them. `IdleIsBounded` says what the reaper goes by;
* a rejected segment after slow headers is answered without being stamped, so that the connection is PENDING
  with an old time (`cprotocol.pyx:298`); `StampedAndTimely` excludes it;
* a request that takes `worker_timeout` to arrive gets its worker killed, because the constant
  the reaper compares with is the status of a request being received (`reaper.py:42`);
  `PromptClientsAreSafe` excludes slow clients;
* with `keep_alive_timeout = 0` the reaper closes no idle connection; one that has been open for
  `worker_timeout` and then begins its first request gets its worker killed (`reaper.py:42`, `:78`);
* with the default limits `HandlerTimeout + KeepAlive < WorkerTimeout` does not hold
  (`limits.py`);
* a connection's idle time counts from the start of its last request, so that one that has just
  answered may be closed at once (`reaper.py:59`);
* a connection that is accepted before SIGTERM and made after `stop_server` has asked the others
  is never asked to stop, and may use up the whole deadline (`handler.py:65`);
* the necromancer gets a list where it reads `app.workers` and dies at its first turn
  (`server.py:289`, `necromancer.py:19`);
* a pooled connection is closed by the call that takes it: `is_dropped` reads zero bytes, which
  succeeds at once, and takes that for the end, so that no connection is used twice
  (`client/connection.py:61`);
* an empty response releases its connection twice (`response.py:118`, `response.py:241`);
* connections of failed, timed out and abandoned requests, and of streamed responses that are
  retried for their status, stay in `pool.connections` until the session is closed
  (`session.py:233`); `NoConnectionIsLost` excludes these;
* a request in flight may open a connection after `Session.close`, which then stays open
  (`pool.py:69`);
* neither the timeout of `wait_for` nor an `IncompleteReadError` is a `ConnectionError` or the
  built-in `TimeoutError`, so that a connection the server ended is not retried (`session.py:237`);
* `Session(retries=...)` is stored and never read (`session.py:203`), and a strategy without network
  retries, `RetryStrategy({})`, gets the default ones (`retries.py:20`);
* `RequestRate` exceeds its count by one for a task that slept, and counts from zero again for each
  task that has: a rate is multiplied by the tasks that share it (`limits.py:49`).

In the router and the application (`config.odd`):

* hosts: when a pattern matches the host and has no route for the request, hosts are looked up by
  the string among the patterns, a KeyError (`router.py:173`); without a Host header `fullmatch`
  gets None; and the methods a 405 allows are a list that receives itself (`router.py:132`);
* slashes: `redirect_handler` closes over a variable of a loop, so that every redirect of a blueprint
  with many prefixes goes to the last one; with the strategy redirect `/` redirects to itself; a
  route at `""` answers at its twin `/` only, and one at `/` is its own twin, because `clone` takes an
  empty pattern for none; a redirect takes over the cache of its route and is answered with the page, or the page with it
  (`router.py:101`);
* status: a cached response loses its status (`cache.py:26`);
* params: a static route under a prefix with parameters is registered as static and never found
  (`router.py:316`);
* full, without a flag: once the cache of routes is full, `set` stores the new route under the key it has
  just deleted (`router.py:35`), so that the next request for that key gets the wrong route;
* nested: global hooks of a nested blueprint do not become the application's
  (`blueprints.py:146`);
* late: what is declared after mounting or starting is not called, or only in part;
* unsorted: only the application sorts its handlers; a blueprint's general handler shadows its
  specific one (`blueprints.py:111`);
* again: a handler for a class a blueprint handles already replaces the other without a word;
* declines: when a program's own handler for `Exception` returns no response, none is sent.

In the decoders (`odd`):

* cut: the URL is the last stretch of it that the parser was given, a header whose name is cut is
  kept under the name's end, and the first part is stored without a value (`parser.pyx:87`);
* trailers become headers of the next request (`parser.pyx:110`);
* early: bytes that follow an upgrade in its segment make `feed_data` raise (`parser.pyx:147`);
* sliced: the flush keeps back `boundary_length` characters and needs two more
  (`multipart/parser.pyx:282`);
* long: a `SmartFile` that outgrows its memory fails with an AttributeError when it moves to the disk,
  at ten megabytes, where `docs/components/request.md:39` says that files bigger than one are flushed;
* iterable: `BufferedIterable` loses what is left when its source ends (`containers.py:13`);
* twice: the second field of a name replaces the first; nameless: a part without a name fails;
* cut, unmasked, long, control: `FrameParser` reads one whole, masked frame of less than 126 bytes per
  segment; a longer one makes a tuple of its length, an unmasked one, as `send` writes it, is never
  finished, a ping calls a `write` that the protocol does not have, and what a segment holds beyond
  one frame waits for the next segment (`websockets/obj.py:125`).

In the files (`odd`):

* created, deleted: `exists` remembers for ever, so that a new file is not found and a deleted one is
  opened in vain (`static.py:82`);
* sametime, backwards, during: a file that changes within its time's resolution is not seen to
  change, one that gets older is told not to have, and one that changes while it is streamed is
  answered with a length that is not its own;
* head: HEAD takes the headers of the cached entry, and leaves a length of zero in them for streamed
  answers to come (`static.py:126`);
* range: an open range, `bytes=5-` or `bytes=-5`, raises and is a 500 (`static.py:112`); a reversed one
  declares a negative length and sends the rest of the file (`utils.py:62`); one that ends behind the
  end of the file declares more than it has; HEAD with a range declares zero, the length of its own
  body (`static.py:118`);
* without a flag, every range: `Content-Range` announces `start-end`, both included, but the last of
  these bytes is neither sent nor counted in `Content-Length` (`static.py:114`). `StaticIsSound`
  promises what is left of a range, its first bytes;
* prefix: the URL prefix is removed wherever it stands in the URL (`static.py:77`);
* concurrent, workers: two requests of a session each save their own copy, and the later one wins;
  another worker may load a file between `open` and `write`, and fails (`sessions/files.py:41`);
* crash: a worker that is killed in between leaves a file that no later request can load;
* without a flag: `save` writes `Set-Cookie` among the response's headers; a response that a cache keeps
  (`cache.py:26`) then brings the session's cookie to other browsers, too (`sessions/files.py:44`).
  `Sessions` gives each answer headers of its own;
* inner: a change within a value does not set `pending_flush`;
* siblings, drops: templates that extend one parent change its AST for each other, and a block that
  an edit removes survives in it (`ast.py:65`);
* far, twins: what depends on a changed file through another stays as it was, and templates of the
  same content are removed together (`loader.py:32`);
* broken: an include of a missing file kills the loader's thread.

`EncryptedCookiesEngine` expects a request where it is given the cookies (`sessions/client.py:26`,
`request.pyx:163`), so that its sessions never load.

## 6. Not modelled, and what comes next

In the order of their weight for the system:

1. `Server`: the parent, its workers and the necromancer; start and crash of a worker.
2. `StreamWriter`: `Connection.write`, `write_permission` and `chunk_timeout` between two chunks.
3. Request-bound components: clone and reset along the life of a connection, in `Connection`.
4. `Schema.load` as a function, against a reference definition.
5. Cookies, URLs and hosts of the client; the handshakes of websockets; templates kept on disk.

Theorems to come: the types of the decoders.

Out of reach or out of interest: the vendored C parser and the text the template compilers
generate, formatting, logging, build scripts.
