---------------------------- MODULE Application ----------------------------
(***************************************************************************)
(* An application from its declarations to the answers it gives: nested    *)
(* blueprints with routes, hooks and exception handlers (blueprints.py,    *)
(* application.py), initialize (server.py), the components a handler asks  *)
(* for (components.pyx) and the requests (handle_request,                  *)
(* handle_exception of protocol/cprotocol.pyx), over the Router.           *)
(*                                                                         *)
(* Declarations come in any order.  Each is one action, and so is          *)
(* initialize.  A request is one action, too: what its tasks share with    *)
(* others they read and write without waiting; how the requests of one     *)
(* connection follow each other, and hooks that raise, are the matter of   *)
(* Connection.                                                             *)
(*                                                                         *)
(* config is what a program declares, chosen from Configurations, once.    *)
(* config.odd names what is unusual in it:                                 *)
(*   "params"   a static route and a prefix with parameters                *)
(*   "slashes"  a route at "", or the strategy redirect with a route at    *)
(*              "/", a blueprint with many prefixes, or a cached route     *)
(*   "status"   a cached route whose status is not 200                     *)
(*   "hosts"    routes with hosts                                          *)
(*   "nested"   a nested blueprint that has hooks                          *)
(*   "late"     hooks, handlers or components declared when their          *)
(*              blueprint is already mounted, or the application started   *)
(*   "unsorted" a blueprint other than the application handles a class and *)
(*              its subclass                                               *)
(*   "again"    a blueprint handles a class twice                          *)
(*   "declines" the application's own handler for Exception does not       *)
(*              return a response                                          *)
(***************************************************************************)
EXTENDS Router

CONSTANTS
    Blueprints,
    App,            \* the application, a blueprint itself
    Super,          \* Super[c]: the exception classes c is a subclass of, with c
    MaxRequests,    \* bound
    Configurations

None == "none"

\* The classes initialize adds a handler for, if there is none.
DefaultClasses == {"MissingComponent", "Exception", "NotFound", "MethodNotAllowed"}

ASSUME ApplicationAssumption ==
    /\ IsFiniteSet(Blueprints) /\ Blueprints \subseteq STRING \ {None} /\ App \in Blueprints
    /\ IsFiniteSet(DOMAIN Super) /\ DOMAIN Super \subseteq STRING
    /\ DefaultClasses \cup {"ValueError"} \subseteq DOMAIN Super
    /\ \A c \in DOMAIN Super :
          /\ c \in Super[c] /\ Super[c] \subseteq DOMAIN Super
          /\ \A d \in Super[c] : Super[d] \subseteq Super[c] /\ (c \in Super[d] => c = d)
          /\ c \in DefaultClasses \cup {"ValueError"} => "Exception" \in Super[c]
    /\ MaxRequests \in Nat

\* The strings of the model are strings, for which the provers have no rule.
ASSUME StringsAssumption == {None, "static", "**", "404", "405"} \subseteq STRING

VARIABLES
    config,
    todo,       \* the declarations of config still to come
    declared,   \* Blueprint.routes
    mounted,    \* Blueprint.blueprints: its nested blueprints with their prefixes
    parent,     \* Blueprint.parent
    hooks,      \* Blueprint.hooks and async_hooks, by event
    handlers,   \* Blueprint.exception_handlers, in the order of the dict
    index,      \* the types in ComponentsEngine.index of the application
    initialized,
    conn,       \* what the connection found when it was made
    stored,     \* Route.cache: the response it holds, by the route's id
    reply,      \* history: the last request and what became of it
    requests

router == <<strategy, table, cache>>
blueprints == <<declared, mounted, parent>>
serving == <<conn, stored, reply, requests>>
vars == <<router, config, todo, blueprints, hooks, handlers, index, initialized, serving>>

Events == {"before", "after", "sent"}
NoConn == [flags |-> {}, index |-> {}, made |-> FALSE]

Ids == {x.id : x \in config.routes \cup config.mounts \cup config.hooks \cup config.handlers
                        \cup config.components}

Hooks == [id : STRING, bp : Blueprints, event : Events, local : BOOLEAN, sync : BOOLEAN,
          answers : BOOLEAN]
Handlers == [id : STRING, bp : Blueprints, exc : DOMAIN Super, answers : BOOLEAN]
Mountings == [id : STRING, bp : Blueprints \ {App}, parent : Blueprints, prefixes : Seq(Paths)]
Components == [id : STRING, type : DOMAIN Super]
Asks == [url : Urls, method : Methods, host : STRING]

\* A program: each declaration has an id of its own, and the blueprints are
\* nested in each other like a tree.
ASSUME ProgramsAssumption ==
    \A c \in Configurations :
        /\ c.strategy \in Strategies
        /\ c.routes \subseteq Routes /\ \A r \in c.routes : r.parent \in Blueprints
        /\ c.mounts \subseteq Mountings /\ c.hooks \subseteq Hooks /\ c.handlers \subseteq Handlers
        /\ c.components \subseteq Components
        /\ c.asks \subseteq Asks /\ c.raises \subseteq DOMAIN Super
        /\ \A x, y \in c.routes \cup c.mounts \cup c.hooks \cup c.handlers \cup c.components :
              x.id = y.id => x = y
        /\ \E depth \in [Blueprints -> 0..Cardinality(Blueprints)] :
              \A m \in c.mounts : depth[m.parent] < depth[m.bp]
        /\ "nested" \notin c.odd => \A h \in c.hooks :
              h.bp = App \/ \E m \in c.mounts : m.bp = h.bp /\ m.parent = App
        /\ \A e \in c.raises : "Exception" \in Super[e]
        /\ "again" \notin c.odd => \A x, y \in c.handlers : x.bp = y.bp /\ x.exc = y.exc => x = y
        /\ "unsorted" \notin c.odd => \A x, y \in c.handlers :
              x.bp = y.bp /\ x.bp # App /\ x.exc \in Super[y.exc] => x.exc = y.exc
        /\ "declines" \notin c.odd => \A x \in c.handlers :
              x.bp = App /\ x.exc = "Exception" => x.answers

\* A route that may be registered at "/", or at "" if its pattern is empty.
AtRoot(c, r) ==
    /\ r.pattern.segs = <<>>
    /\ r.parent = App \/ \E m \in c.mounts : \E q \in ToSet(m.prefixes) : q.segs = <<>>

\* Routes as Blueprint.route makes them, and requests, whose path is never "";
\* and what the odds about routes mean.
ASSUME RoutesAssumption ==
    \A c \in Configurations :
        /\ \A r \in c.routes :
              r.id \notin {"404", "405"} /\ r.to = NoPath /\ r.dynamic = IsDynamic(r.pattern)
        /\ \A ask \in c.asks : ask.url.path # NoPath
        /\ "hosts" \notin c.odd => \A r \in c.routes : r.hosts = <<>>
        /\ "status" \notin c.odd => \A r \in c.routes : r.cache # None => r.ok
        /\ "params" \notin c.odd =>
              \/ \A r \in c.routes : r.dynamic
              \/ \A m \in c.mounts : \A q \in ToSet(m.prefixes) : ~IsDynamic(q)
        /\ "slashes" \notin c.odd =>
              /\ \A r \in c.routes : AtRoot(c, r) => r.pattern # NoPath /\ c.strategy # "redirect"
              /\ c.strategy = "redirect" =>
                    /\ \A m \in c.mounts : Len(m.prefixes) <= 1
                    /\ \A r \in c.routes : r.cache = None

TypeOK ==
    /\ RouterType
    /\ config \in Configurations /\ todo \subseteq Ids
    /\ declared \in [Blueprints -> Seq(Routes)]
    /\ \A b \in Blueprints :
          /\ mounted[b] \in Seq([bp : Blueprints, prefixes : Seq(Paths)])
          /\ DOMAIN hooks[b] \subseteq Events /\ \A e \in DOMAIN hooks[b] : hooks[b][e] \in Seq(Hooks)
    /\ parent \in [Blueprints -> Blueprints \cup {None}]
    /\ handlers \in [Blueprints -> Seq(Handlers)]
    /\ index \subseteq DOMAIN Super
    /\ initialized \in BOOLEAN
    /\ conn.flags \subseteq Events /\ conn.index \subseteq DOMAIN Super
    /\ requests \in 0..MaxRequests

NoReply == [is |-> None]

Init ==
    /\ config \in Configurations
    /\ strategy = config.strategy
    /\ table = EmptyTable /\ cache = EmptyCache
    /\ todo = Ids
    /\ declared = [b \in Blueprints |-> <<>>]
    /\ mounted = [b \in Blueprints |-> <<>>]
    /\ parent = [b \in Blueprints |-> None]
    /\ hooks = [b \in Blueprints |-> [e \in Events |-> <<>>]]
    /\ handlers = [b \in Blueprints |-> <<>>]
    /\ index = {} /\ initialized = FALSE
    /\ conn = NoConn /\ stored = <<>> /\ reply = NoReply /\ requests = 0

-----------------------------------------------------------------------------
(* Declarations.                                                           *)

Declares(x) ==
    /\ x.id \in todo /\ todo' = todo \ {x.id}
    /\ initialized => "late" \in config.odd
    /\ UNCHANGED <<strategy, cache, config, initialized, serving>>

\* Blueprint.route.
DeclareRoute(r) ==
    /\ Declares(r) /\ ~initialized
    /\ declared' = [declared EXCEPT ![r.parent] = Append(@, r)]
    /\ UNCHANGED <<table, mounted, parent, hooks, handlers, index>>

\* __register_blueprint_routes: the routes of a blueprint with the prefixes
\* under which they are added, nested blueprints first.
RoutesOf(bp, prefixes) ==
    LET Of[b \in Blueprints] == [ps \in Seq(Paths) |->
            LET nested(p) == FlattenSeq([i \in DOMAIN mounted[b] |->
                    FlattenSeq([j \in DOMAIN mounted[b][i].prefixes |->
                        Of[mounted[b][i].bp][<<Join(p, mounted[b][i].prefixes[j])>>]])])
            IN  FlattenSeq([k \in DOMAIN ps |-> nested(ps[k])])
                \o [j \in DOMAIN declared[b] |-> <<declared[b][j], ps>>]]
    IN  Of[bp][prefixes]

AllAdded(t, routes) == FoldLeft(LAMBDA s, x : AddRoute(s, x[1], x[2]), t, routes)

\* Mutant of Lifted: a hook that is lifted stays in the blueprint, too.
LiftedAndKept(bp) ==
    [hooks EXCEPT ![App] = [e \in Events |-> @[e] \o Those(hooks[bp][e], {h \in config.hooks : ~h.local})]]

\* The end of Application.add_blueprint: hooks that are not local become the
\* application's, and events without local hooks leave the blueprint's dict.
Lifted(bp) ==
    LET global(e) == Those(hooks[bp][e], {h \in config.hooks : ~h.local})
        local(e) == Those(hooks[bp][e], {h \in config.hooks : h.local})
    IN  [hooks EXCEPT ![App] = [e \in Events |-> @[e] \o global(e)],
                      ![bp] = [e \in {d \in Events : local(d) # <<>>} |-> local(e)]]

Mounts(m) ==
    /\ Declares(m) /\ ~initialized
    /\ parent[m.bp] = None
    /\ "late" \in config.odd \/ \A h \in config.hooks : h.bp = m.bp => h.id \notin todo
    /\ parent' = [parent EXCEPT ![m.bp] = m.parent]
    /\ mounted' = [mounted EXCEPT ![m.parent] = Append(@, [bp |-> m.bp, prefixes |-> m.prefixes])]
    /\ UNCHANGED <<declared, handlers, index>>

\* Blueprint.add_blueprint.
Nest(m) ==
    /\ m.parent # App
    /\ Mounts(m)
    /\ UNCHANGED <<table, hooks>>

\* Application.add_blueprint.
Mount(m) ==
    /\ m.parent = App
    /\ Mounts(m)
    /\ table' = AllAdded(table, RoutesOf(m.bp, m.prefixes))
    /\ hooks' = Lifted(m.bp)

\* add_hook.  An event that has left the dict is a KeyError, and the
\* declaration is lost.
AddHook(h) ==
    /\ Declares(h)
    /\ hooks' = IF h.event \in DOMAIN hooks[h.bp]
                THEN [hooks EXCEPT ![h.bp][h.event] = Append(@, h)] ELSE hooks
    /\ UNCHANGED <<table, blueprints, handlers, index>>

\* A dict keeps the place of a key that is there already.
Put(s, x) ==
    LET at == SelectInSeq(s, LAMBDA y : y.exc = x.exc)
    IN  IF at = 0 THEN Append(s, x) ELSE [s EXCEPT ![at] = x]

\* handle, of an exception class.
Handle(x) ==
    /\ Declares(x)
    /\ handlers' = [handlers EXCEPT ![x.bp] = Put(@, x)]
    /\ UNCHANGED <<table, blueprints, hooks, index>>

\* ComponentsEngine.add, of a type it does not have yet.
AddComponent(c) ==
    /\ Declares(c)
    /\ index' = index \cup {c.type}
    /\ UNCHANGED <<table, blueprints, hooks, handlers>>

-----------------------------------------------------------------------------
(* initialize, and the connections.                                        *)

Default(class) == [id |-> class, bp |-> App, exc |-> class, answers |-> TRUE]

\* The handlers _add_default_routes and _add_default_error_handlers add.
WithDefaults(s) ==
    FoldLeft(LAMBDA t, class :
                IF class # "MissingComponent" /\ \E i \in DOMAIN t : t[i].exc = class THEN t
                ELSE Put(t, Default(class)),
             s, <<"MissingComponent", "Exception", "NotFound", "MethodNotAllowed">>)

\* Mutant of SortErrorHandlers: they stay as they are.
Unsorted(s) == s

\* sort_error_handlers: from the last to the first, a class is taken out, to
\* stand before those that were, unless one of its superclasses is left; then it
\* goes to the front of the queue, to wait for another turn.
SortErrorHandlers(s) ==
    LET ready(q) == {i \in DOMAIN q : \A j \in DOMAIN q \ {i} : q[j].exc \notin Super[q[i].exc]}
        Turn[k \in 0..Len(s)] ==
            IF k = 0 THEN [left |-> s, sorted |-> <<>>]
            ELSE LET q == Turn[k - 1].left
                     i == Max(ready(q))
                 IN  IF ready(q) = {} THEN Turn[k - 1]
                     ELSE [left |-> SubSeq(q, i + 1, Len(q)) \o SubSeq(q, 1, i - 1),
                           sorted |-> <<q[i]>> \o Turn[k - 1].sorted]
    IN  Turn[Len(s)].sorted

StaticRoute ==
    [id |-> "static", parent |-> App, pattern |-> [segs |-> <<"static", "**">>, slash |-> FALSE],
     methods |-> {"GET", "HEAD"}, hosts |-> <<>>, dynamic |-> TRUE, cache |-> None, to |-> NoPath,
     wants |-> {}, ok |-> TRUE]

\* initialize: add_blueprint(self) registers the routes of all blueprints
\* again, those of the application last.
Initialize ==
    /\ ~initialized /\ ("late" \in config.odd \/ todo = {})
    /\ \A x \in config.routes \cup config.mounts : x.id \notin todo
    /\ initialized' = TRUE
    /\ table' = AddRoute(AllAdded(table, RoutesOf(App, <<NoPath>>)), StaticRoute, <<NoPath>>)
    /\ handlers' = [handlers EXCEPT ![App] = SortErrorHandlers(WithDefaults(@))]
    /\ UNCHANGED <<strategy, cache, config, todo, blueprints, hooks, index, serving>>

\* exists_hook: the application and the blueprints mounted on it.
ExistsHook(e) ==
    \E b \in {App} \cup {mounted[App][i].bp : i \in DOMAIN mounted[App]} :
        e \in DOMAIN hooks[b] /\ hooks[b][e] # <<>>

\* Connection.__init__.
Connect ==
    /\ initialized /\ ~conn.made
    /\ conn' = [made |-> TRUE, flags |-> {e \in Events : ExistsHook(e)}, index |-> index]
    /\ UNCHANGED <<router, config, todo, blueprints, hooks, handlers, index, initialized,
                   stored, reply, requests>>

-----------------------------------------------------------------------------
(* A request.                                                              *)

\* Everything up to the first that returns a response.
UpToAnswer(s) ==
    LET first == SelectInSeq(s, LAMBDA x : x.answers)
    IN  IF first = 0 THEN s ELSE SubSeq(s, 1, first)
Answered(s) == s # <<>> /\ Last(s).answers

\* call_hooks.
Listeners(bp, e) ==
    LET targets == IF bp # App THEN <<bp, App>> ELSE <<App>>
        of(t, sync) == IF e \in DOMAIN hooks[t] THEN Those(hooks[t][e], {h \in config.hooks : h.sync = sync})
                       ELSE <<>>
    IN  FlattenSeq([i \in DOMAIN targets |-> of(targets[i], TRUE) \o of(targets[i], FALSE)])
CallHooks(bp, e) == IF e \in conn.flags THEN UpToAnswer(Listeners(bp, e)) ELSE <<>>

\* process_exception and the parents it delegates to; handle_exception asks
\* the application again.
Applicable(bp, exc) ==
    LET here == handlers[bp]
    IN  Those(here, {x \in ToSet(here) : x.exc = exc})
        \o Those(here, {x \in ToSet(here) : x.exc # exc /\ x.exc \in Super[exc]})
ProcessException(bp, exc) ==
    LET Up[b \in Blueprints] ==
            Applicable(b, exc) \o IF parent[b] = None THEN <<>> ELSE Up[parent[b]]
    IN  UpToAnswer(Up[bp] \o Applicable(App, exc))

\* ComponentsEngine.get.
GetComponent(type) ==
    LET below == {t \in conn.index : type \in Super[t]}
    IN  CASE type \in conn.index \/ Cardinality(below) = 1 -> None
          [] type \notin conn.index /\ below = {} -> "MissingComponent"
          [] OTHER -> "ValueError"

\* The default routes for 404 and 405.
DefaultRoute(why) == [StaticRoute EXCEPT !.id = why]

\* What call_handler raises, None if it returns.
CallHandler(r, raises) ==
    LET lacking == {GetComponent(t) : t \in r.wants} \ {None}
    IN  CASE r.id = "404" -> "NotFound"
          [] r.id = "405" -> "MethodNotAllowed"
          [] r.to # NoPath -> None
          [] OTHER -> IF lacking # {} THEN CHOOSE x \in lacking : TRUE ELSE raises

\* The response a route's handler returns, and what Static.store makes of it:
\* the status is lost.
Page(r) == [by |-> r.id, to |-> r.to, ok |-> r.ok]
AsStored(page) == [page EXCEPT !.ok = TRUE]

\* on_headers_complete and handle_request with the route r.  A cache with
\* skip_hooks answers first, another one after the "before" hooks.  What an
\* "after" hook returns is sent in the page's place, but not what is stored.
Handled(ask, r, raises) ==
    LET held == r.id \in DOMAIN stored
        skips == held /\ r.cache = "skips"
        before == IF skips THEN <<>> ELSE CallHooks(r.parent, "before")
        halted == Answered(before)
        hit == skips \/ (held /\ r.cache = "hooked" /\ ~halted)
        exc == IF halted \/ hit THEN None ELSE CallHandler(r, raises)
        quiet == skips \/ halted \/ exc # None
        after == IF quiet THEN <<>> ELSE CallHooks(r.parent, "after")
        sent == IF quiet THEN <<>> ELSE CallHooks(r.parent, "sent")
        caught == IF exc = None THEN <<>> ELSE ProcessException(r.parent, exc)
    IN  [is |-> CASE halted -> "hook"
                  [] exc # None -> IF Answered(caught) THEN "error" ELSE "nothing"
                  [] ~halted /\ exc = None -> IF Answered(after) THEN "replaced" ELSE "page",
         page |-> IF hit THEN stored[r.id] ELSE Page(r),
         stores |-> r.cache # None /\ ~halted /\ ~hit /\ exc = None,
         ask |-> ask, route |-> r, exc |-> exc, before |-> before, after |-> after, sent |-> sent,
         caught |-> caught]

\* A search that raises leaves the request without an answer: the exception
\* ends in on_headers_complete, which cannot raise.
Serve(ask, raises) ==
    LET found == GetRoute(ask.url, ask.method, ask.host)
        lost == found.is \in {"KeyError", "TypeError"}
        r == IF found.is = "route" THEN found.route ELSE DefaultRoute(found.is)
        done == Handled(ask, r, raises)
    IN  /\ conn.made /\ requests < MaxRequests
        /\ requests' = requests + 1
        /\ cache' = CacheAfter(found)
        /\ reply' = IF lost THEN [is |-> "lost", ask |-> ask] ELSE done
        /\ stored' = IF ~lost /\ done.stores
                     THEN [id \in {r.id} \cup DOMAIN stored |->
                              IF id = r.id THEN AsStored(Page(r)) ELSE stored[id]]
                     ELSE stored
        /\ UNCHANGED <<strategy, table, config, todo, blueprints, hooks, handlers, index,
                       initialized, conn>>

Next ==
    \/ \E r \in config.routes : DeclareRoute(r)
    \/ \E m \in config.mounts : Nest(m) \/ Mount(m)
    \/ \E h \in config.hooks : AddHook(h)
    \/ \E x \in config.handlers : Handle(x)
    \/ \E c \in config.components : AddComponent(c)
    \/ Initialize
    \/ Connect
    \/ \E ask \in config.asks, raises \in config.raises \cup {None} : Serve(ask, raises)

Spec == Init /\ [][Next]_vars

-----------------------------------------------------------------------------
(* Properties                                                              *)

Usual(odds) == config.odd \cap odds = {}

\* Every prefix under which the routes of a blueprint are declared.
FullPrefixes(bp) ==
    LET Of[b \in Blueprints] ==
            IF b = App THEN {NoPath}
            ELSE UNION {UNION {{Join(p, q) : p \in Of[m.parent]} : q \in ToSet(m.prefixes)} :
                            m \in {n \in config.mounts : n.bp = b}}
    IN  Of[bp]

\* The paths a declared route promises to answer, with the slash as it is
\* written, and with the other one.
Answers(r, path) == \E p \in FullPrefixes(r.parent) : PathMatches(Join(p, r.pattern), path)
AnswersTwin(r, path) ==
    /\ strategy # "strict" /\ ~r.dynamic /\ "GET" \in r.methods
    /\ Answers(r, Twin(path))

\* The declared routes for a request.
Declared(path, method) ==
    {r \in config.routes \cup {StaticRoute} :
        /\ method \in r.methods
        /\ \/ Answers(r, path)
           \/ AnswersTwin(r, path) /\ (strategy = "redirect" => method = "GET")}

\* The last request did not meet a full cache.
BeforeFull == cache.size <= CacheSize + 1 \/ requests <= CacheSize + 2

\* In whatever order routes are declared and blueprints mounted, and whatever
\* was asked before, until the cache is full: the route a request is given to is
\* one declared for it, and a page it gets is that route's own, unless a hook, or
\* a handler of exceptions, answers instead; 404 and 405 are told only when there
\* is no such route.
RightRoute ==
    (reply.is # None /\ BeforeFull /\ Usual({"params", "slashes", "status", "hosts"})) =>
        LET path == reply.ask.url.path
            method == reply.ask.method
            here == {r \in Declared(path, method) : r.id = reply.route.id}
        IN  /\ reply.is # "lost"
            /\ ~reply.ask.url.query =>
                  CASE reply.route.id = "404" -> \A m \in Methods : Declared(path, m) = {}
                    [] reply.route.id = "405" ->
                          Declared(path, method) = {} /\ \E m \in Methods : Declared(path, m) # {}
                    [] OTHER -> \E r \in here :
                          reply.is = "page" =>
                              /\ reply.page.by = r.id /\ reply.page.ok = r.ok
                              /\ reply.page.to = IF Answers(r, path) \/ strategy = "clone" THEN NoPath
                                                 ELSE Twin(path)

\* A route found in the cache is the one a search would find: it was found for
\* the same URL, method and host.  True until the cache is full.
CacheIsTransparent ==
    cache.size <= CacheSize + 1 =>
        \A key \in DOMAIN cache.values :
            LET found == IF Len(key) = 3 THEN FindRouteByHost(key[1], key[2], key[3])
                         ELSE FindRoute(key[1], key[2])
            IN  found.is = "route" /\ found.key = key /\ found.route = cache.values[key]

\* The hooks of an event a page of bp has to pass.
Expected(bp, e) ==
    {h \in config.hooks : h.event = e /\ (h.bp \in {App, bp} \/ ~h.local)}

\* A page passes every hook declared for it, its own blueprint's and the
\* global ones of all blueprints, once each, up to one that returns a response.
\* One that replaces a page ends the "after" hooks only.
HooksAreCalled ==
    (reply.is \in {"page", "replaced", "hook", "error"} /\ Usual({"nested", "late"})) =>
        LET bp == reply.route.parent
            held(e, called) ==
                /\ IsInjective(called) /\ ToSet(called) \subseteq Expected(bp, e)
                /\ \A i \in 1..(Len(called) - 1) : ~called[i].answers
                /\ Answered(called) \/ ToSet(called) = Expected(bp, e)
            unhooked == reply.before = <<>> /\ reply.after = <<>> /\ reply.sent = <<>>
        IN  \/ reply.route.cache = "skips" /\ unhooked
            \/ /\ held("before", reply.before)
               /\ reply.is \in {"page", "replaced"} =>
                     held("after", reply.after) /\ held("sent", reply.sent)

\* The defaults a program leaves in place; it cannot replace the one for
\* MissingComponent.
Defaults ==
    {Default(c) : c \in {d \in DefaultClasses :
        d = "MissingComponent" \/ ~\E x \in config.handlers : x.bp = App /\ x.exc = d}}

\* The handlers that could answer an exception at a blueprint.
Able(bp, exc) ==
    {x \in config.handlers \cup Defaults : x.bp = bp /\ x.answers /\ x.exc \in Super[exc]}

\* "Trying specific hooks first" (blueprints.py:103): an exception is answered,
\* by the nearest blueprint that can, with a handler for a class of which it
\* handles no subclass, and no handler is called twice for it.
ErrorsFindTheirHandler ==
    (reply.is \in {"error", "nothing"} /\ Usual({"late", "unsorted", "again", "declines"})) =>
        LET x == Last(reply.caught)
            Below[b \in Blueprints] ==
                IF b = x.bp THEN {}
                ELSE Able(b, reply.exc) \cup IF parent[b] = None THEN {} ELSE Below[parent[b]]
        IN  /\ reply.is = "error" /\ IsInjective(reply.caught)
            /\ Below[reply.route.parent] = {}
            /\ \A y \in Able(x.bp, reply.exc) : x.exc \in Super[y.exc] => x.exc = y.exc

\* "mapping every HTTP request with a GET method and a path equals to /home"
\* (docs/routing.md:13): a query string is no part of the path.
RoutedByPath ==
    (reply.is # None /\ Usual({"params", "slashes", "status", "hosts"})) =>
        (reply.route.id = "404" => Declared(reply.ask.url.path, reply.ask.method) = {})
=============================================================================
