--------------------------- MODULE MCApplication ---------------------------
(* The programs for which TLC checks Application.  Each is about one thing *)
(* a program declares; the order of the declarations is TLC's.             *)
EXTENDS Application

Path(segs, slash) == [segs |-> segs, slash |-> slash]
Root == Path(<<>>, TRUE)
V1 == Path(<<"v1">>, FALSE)
V2 == Path(<<"v2">>, FALSE)

Route(id, bp, pattern, methods) ==
    [id |-> id, parent |-> bp, pattern |-> pattern, methods |-> methods, hosts |-> <<>>,
     dynamic |-> IsDynamic(pattern), cache |-> None, to |-> NoPath, wants |-> {}, ok |-> TRUE]
MountOf(bp, on, prefixes) == [id |-> "mount_" \o bp, bp |-> bp, parent |-> on, prefixes |-> prefixes]
Hook(id, bp, event, local, sync, answers) ==
    [id |-> id, bp |-> bp, event |-> event, local |-> local, sync |-> sync, answers |-> answers]
On(bp, exc, answers) == [id |-> bp \o "_" \o exc, bp |-> bp, exc |-> exc, answers |-> answers]
Ask(method, path) == [url |-> [path |-> path, query |-> FALSE], method |-> method, host |-> NoHost]
AskQuery(path) == [url |-> [path |-> path, query |-> TRUE], method |-> "GET", host |-> NoHost]
AskHost(path, host) == [Ask("GET", path) EXCEPT !.host = host]

Classes == {"Exception", "ViboraException", "NotFound", "MethodNotAllowed", "MissingComponent",
            "ValueError", "Error", "SubError", "LeafError", "Mock", "SubMock"}
SuperOf ==
    [c \in Classes |-> {c} \cup
        CASE c \in {"NotFound", "MethodNotAllowed"} -> {"ViboraException", "Exception"}
          [] c = "SubError" -> {"Error", "Exception"}
          [] c = "LeafError" -> {"SubError", "Error", "ValueError", "Exception"}
          [] c = "SubMock" -> {"Mock"}
          [] c \in {"Exception", "Mock"} -> {}
          [] OTHER -> {"Exception"}]

Empty ==
    [strategy |-> "clone", odd |-> {}, routes |-> {}, mounts |-> {}, hooks |-> {}, handlers |-> {},
     components |-> {}, asks |-> {}, raises |-> {}]

A == Path(<<"a">>, FALSE)
ASlash == Path(<<"a">>, TRUE)
Star == Path(<<"*">>, FALSE)
Files == Path(<<"static", "x">>, FALSE)
Under(prefix, path) == Join(prefix, path)

\* Two prefixes, a nested blueprint, methods and slashes.
Tree ==
    [Empty EXCEPT
        !.routes = {Route("home", "app", Root, {"GET"}), Route("a", "b1", A, {"GET"}),
                    Route("post", "b1", ASlash, {"POST"}), Route("deep", "b2", ASlash, {"GET", "POST"})},
        !.mounts = {MountOf("b1", "app", <<V1, V2>>), MountOf("b2", "b1", <<Path(<<"n">>, FALSE)>>)},
        !.asks = {Ask("GET", Root), Ask("GET", Under(V2, A)), Ask("GET", Under(V1, ASlash)),
                  Ask("POST", Under(V1, ASlash)), Ask("POST", Under(V1, A)), Ask("GET", Files),
                  Ask("GET", Path(<<"v2", "n", "a">>, FALSE)), Ask("GET", Path(<<"n", "a">>, TRUE)),
                  Ask("HEAD", Under(V1, A))}]

\* Parameters beside fixed paths, in the strategies redirect and strict.
Shadows(by) ==
    [Empty EXCEPT
        !.strategy = by,
        !.routes = {Route("star", "app", Star, {"GET", "POST"}), Route("a", "app", A, {"GET"}),
                    Route("slash", "b1", ASlash, {"GET"}), Route("both", "b1", Path(<<"*", "a">>, FALSE), {"GET"})},
        !.mounts = {MountOf("b1", "app", <<NoPath>>)},
        !.asks = {Ask("GET", A), Ask("GET", ASlash), Ask("POST", ASlash), Ask("POST", A),
                  Ask("HEAD", A), Ask("GET", Path(<<"x">>, FALSE)), Ask("GET", Path(<<"x", "a">>, FALSE)),
                  AskQuery(A)}]

\* Hooks of a blueprint and of the application, with cached routes.
Hooked(answers, replaces, cached) ==
    [Empty EXCEPT
        !.routes = {Route("home", "app", Root, {"GET"}),
                    [Route("a", "b1", A, {"GET"}) EXCEPT !.cache = cached]},
        !.mounts = {MountOf("b1", "app", <<V1>>)},
        !.hooks = {Hook("own", "b1", "before", TRUE, FALSE, FALSE),
                   Hook("global", "b1", "before", FALSE, TRUE, answers),
                   Hook("after", "b1", "after", FALSE, FALSE, replaces),
                   Hook("sent", "app", "sent", TRUE, TRUE, FALSE),
                   Hook("end", "app", "before", TRUE, FALSE, FALSE)},
        !.asks = {Ask("GET", Root), Ask("GET", Under(V1, A))}]

\* Exception handlers in three levels of blueprints.
Caught ==
    [Empty EXCEPT
        !.routes = {Route("a", "b1", A, {"GET"}), Route("deep", "b2", A, {"GET"})},
        !.mounts = {MountOf("b1", "app", <<V1>>), MountOf("b2", "b1", <<V2>>)},
        !.handlers = {On("b1", "Error", FALSE), On("b2", "ValueError", TRUE), On("b2", "SubError", TRUE),
                      On("app", "Error", TRUE), On("app", "SubError", TRUE),
                      On("app", "ViboraException", TRUE)},
        !.raises = {"Error", "LeafError", "ValueError"},
        !.asks = {Ask("GET", Under(V1, A)), Ask("GET", Path(<<"v1", "v2", "a">>, FALSE)), Ask("GET", Root),
                  Ask("POST", Under(V1, A))}]

Wanting ==
    [Empty EXCEPT
        !.odd = {"late"},
        !.routes = {[Route("a", "app", A, {"GET"}) EXCEPT !.wants = {"Mock"}],
                    [Route("b", "b1", A, {"GET"}) EXCEPT !.wants = {"SubMock"}]},
        !.mounts = {MountOf("b1", "app", <<V1>>)},
        !.hooks = {Hook("own", "b1", "before", FALSE, FALSE, FALSE)},
        !.handlers = {On("app", "Error", TRUE)},
        !.components = {[id |-> "mock", type |-> "SubMock"], [id |-> "other", type |-> "ValueError"]},
        !.raises = {"SubError"},
        !.asks = {Ask("GET", A), Ask("GET", Under(V1, A))}]

Hosted ==
    [Empty EXCEPT
        !.odd = {"hosts"},
        !.routes = {[Route("docs", "app", Root, {"GET"}) EXCEPT !.hosts = <<{"docs"}>>],
                    [Route("main", "app", Root, {"GET"}) EXCEPT !.hosts = <<{"docs", "main"}, {"main"}>>],
                    [Route("star", "app", Star, {"GET"}) EXCEPT !.hosts = <<{"main"}>>],
                    Route("any", "app", Root, {"GET"})},
        !.asks = {AskHost(Root, h) : h \in {"docs", "main", "other", NoHost}} \cup {AskHost(A, "main")}]

\* What the conditions of the properties leave out.
Params ==
    [Empty EXCEPT
        !.odd = {"params"},
        !.routes = {Route("a", "b1", A, {"GET"})},
        !.mounts = {MountOf("b1", "app", <<Star>>)},
        !.asks = {Ask("GET", Path(<<"x", "a">>, FALSE))}]
Redirects ==
    [Empty EXCEPT
        !.strategy = "redirect", !.odd = {"slashes", "status", "declines", "unsorted", "again"},
        !.routes = {Route("home", "app", Root, {"GET"}),
                    [Route("a", "b1", A, {"GET"}) EXCEPT !.cache = "skips", !.ok = FALSE]},
        !.mounts = {MountOf("b1", "app", <<V1, V2>>)},
        !.handlers = {On("b1", "Exception", FALSE), On("b1", "SubError", TRUE), On("app", "Exception", FALSE),
                      [On("b1", "SubError", FALSE) EXCEPT !.id = "again"]},
        !.raises = {"Error"},
        !.asks = {Ask("GET", Root), Ask("GET", Under(V1, ASlash)), Ask("GET", Under(V1, A))}]

Usually == {Tree, Shadows("strict"), Shadows("redirect"), Caught}
           \cup {Hooked(answers, replaces, cached) :
                       answers, replaces \in BOOLEAN, cached \in {None, "skips", "hooked"}}
Programs == Usually \cup {Wanting, Hosted, Params, Redirects}
\* A query string at the end of a URL.
Queried == {[Tree EXCEPT !.asks = @ \cup {AskQuery(Under(V2, A))}]}
=============================================================================
