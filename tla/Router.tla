------------------------------- MODULE Router -------------------------------
(***************************************************************************)
(* The router (router/router.py): the tables routes are registered in, the *)
(* slash strategies, the search for a request's route, and the LRUCache in *)
(* front of it.                                                            *)
(*                                                                         *)
(* A path is its segments and whether a slash ends it: "/" has none and    *)
(* the slash, "" neither.  In a pattern the segment "*" is a parameter     *)
(* (<name>) and "**" is ".*", in its last place.  What is compared is not  *)
(* the path but the raw URL, with the query string.                        *)
(***************************************************************************)
EXTENDS Naturals, SequencesExt, FiniteSets

CONSTANTS
    CacheSize   \* LRUCache.max_size

ASSUME CacheSizeAssumption == CacheSize \in Nat

VARIABLES
    strategy,   \* RouterStrategy
    table,      \* routes, dynamic_routes and hosts
    cache       \* LRUCache

Strategies == {"strict", "redirect", "clone"}
Paths == [segs : Seq(STRING), slash : BOOLEAN]
Urls == [path : Paths, query : BOOLEAN]
Methods == {"GET", "POST", "HEAD"}
NoHost == "none"
NoPath == [segs |-> <<>>, slash |-> FALSE]

\* A route; to is where it redirects, if it does; wants are the components its
\* handler asks for; ok says whether it answers with the status 200.
Routes ==
    [id : STRING, parent : STRING, pattern : Paths, methods : SUBSET Methods,
     hosts : Seq(SUBSET STRING), dynamic : BOOLEAN, cache : STRING, to : Paths,
     wants : SUBSET STRING, ok : BOOLEAN]

\* The elements of s that are in S.
Those(s, S) ==
    LET Upto[i \in 0..Len(s)] ==
            IF i = 0 THEN <<>> ELSE Upto[i - 1] \o IF s[i] \in S THEN <<s[i]>> ELSE <<>>
    IN  Upto[Len(s)]

Join(prefix, path) == [segs |-> prefix.segs \o path.segs, slash |-> path.slash]

\* With or without the slash at the end; "pattern or self.pattern" keeps the
\* root as it is.
Twin(path) == IF path = [segs |-> <<>>, slash |-> TRUE] THEN path ELSE [path EXCEPT !.slash = ~@]

\* PatternParser.is_dynamic_pattern.
IsDynamic(path) == \E i \in DOMAIN path.segs : path.segs[i] \in {"*", "**"}

PathMatches(p, path) ==
    IF p.segs # <<>> /\ Last(p.segs) = "**"
    THEN /\ IsPrefix(Front(p.segs), path.segs)
         /\ Len(path.segs) >= Len(p.segs) \/ path.slash
    ELSE /\ Len(p.segs) = Len(path.segs) /\ p.slash = path.slash
         /\ \A i \in DOMAIN p.segs : p.segs[i] \in {"*", path.segs[i]}

\* regex.fullmatch: a query string is taken for the end of the last parameter.
FullMatch(p, url) ==
    /\ PathMatches(p, url.path)
    /\ url.query => Last(p.segs) = "**" \/ (Last(p.segs) = "*" /\ ~p.slash)

Matches(r, url) ==
    IF r.dynamic THEN FullMatch(r.pattern, url) ELSE ~url.query /\ r.pattern = url.path

-----------------------------------------------------------------------------
(* Registering routes.                                                     *)

EmptyTable == [routes |-> <<>>, dynamic |-> [m \in Methods |-> <<>>], hosts |-> <<>>]

\* hosts is a dict by pattern, in the order the patterns came first.
WithHost(t, h, r) ==
    LET known == {i \in DOMAIN t.hosts : t.hosts[i].host = h}
    IN  IF known = {} THEN [t EXCEPT !.hosts = Append(@, [host |-> h, routes |-> <<r>>])]
        ELSE [t EXCEPT !.hosts = [i \in DOMAIN t.hosts |->
                  IF i \in known THEN [t.hosts[i] EXCEPT !.routes = Append(@, r)] ELSE t.hosts[i]]]

\* _add_route_to_cache.  The last static route of a URL replaces the others,
\* the first dynamic one that matches wins.
Registered(t, r) ==
    CASE r.hosts # <<>> -> FoldLeft(LAMBDA s, h : WithHost(s, h, r), t, r.hosts)
      [] r.hosts = <<>> /\ r.dynamic ->
            [t EXCEPT !.dynamic = [m \in Methods |-> IF m \in r.methods THEN Append(@[m], r) ELSE @[m]]]
      [] OTHER ->
            LET keys == {<<m, r.pattern>> : m \in r.methods}
            IN  [t EXCEPT !.routes = [k \in keys \cup DOMAIN @ |-> IF k \in keys THEN r ELSE @[k]]]

\* Mutant of Slashes: the twin is made for any method.
SlashesForAll(t, clone, target) ==
    IF strategy = "strict" \/ clone.dynamic THEN t
    ELSE Registered(t, [clone EXCEPT !.pattern = Twin(@), !.to = target])

\* What add_route does about the slash at the end.  The handler of a redirect
\* reads "clone" when it runs: the last clone of the loop over the prefixes.
Slashes(t, clone, target) ==
    CASE strategy = "strict" \/ clone.dynamic \/ "GET" \notin clone.methods -> t
      [] strategy = "clone" /\ ~clone.dynamic /\ "GET" \in clone.methods ->
            Registered(t, [clone EXCEPT !.pattern = Twin(@)])
      [] OTHER -> Registered(t, [clone EXCEPT !.pattern = Twin(@), !.to = target, !.methods = {"GET"}])

\* add_route.  clone() passes is_dynamic on: a static route stays static under
\* a prefix with parameters.
AddRoute(t, r, prefixes) ==
    FoldLeft(LAMBDA s, prefix :
                LET clone == [r EXCEPT !.pattern = Join(prefix, @)]
                IN  Slashes(Registered(s, clone), clone, Join(Last(prefixes), r.pattern)),
             t, prefixes)

-----------------------------------------------------------------------------
(* Finding a request's route: the route, or why there is none, and the     *)
(* key under which the cache keeps it.                                     *)

\* Mutant of Found: the host is no part of the key.
FoundForAnyHost(r, key) == [is |-> "route", route |-> r, key |-> <<key[1], key[2]>>]

Found(r, key) == [is |-> "route", route |-> r, key |-> key]
Nothing(why) == [is |-> why]

FirstMatch(routes, url) == SelectInSeq(routes, LAMBDA r : Matches(r, url))
OfMethod(routes, method) == Those(routes, {r \in ToSet(routes) : method \in r.methods})

\* check_not_allowed_method.
OtherMethods(url, method) ==
    {m \in Methods \ {method} :
        \/ ~url.query /\ <<m, url.path>> \in DOMAIN table.routes
        \/ FirstMatch(table.dynamic[m], url) # 0}

\* _find_route, without its cache.
FindRoute(url, method) ==
    LET key == <<url, method>>
        dynamic == table.dynamic[method]
    IN  CASE ~url.query /\ <<method, url.path>> \in DOMAIN table.routes ->
                Found(table.routes[<<method, url.path>>], key)
          [] ~(~url.query /\ <<method, url.path>> \in DOMAIN table.routes)
                /\ FirstMatch(dynamic, url) # 0 -> Found(dynamic[FirstMatch(dynamic, url)], key)
          [] OTHER -> Nothing(IF OtherMethods(url, method) # {} THEN "405" ELSE "404")

\* _find_route_by_host, without its cache.  A pattern that matches the host
\* and has no route for the request ends the search with an exception: hosts is
\* looked up by a string where its keys are patterns.
FindRouteByHost(url, method, host) ==
    LET matching == {i \in DOMAIN table.hosts : host \in table.hosts[i].host}
        first == CHOOSE i \in matching : \A j \in matching : i <= j
        routes == OfMethod(table.hosts[first].routes, method)
    IN  CASE host = NoHost -> Nothing("TypeError")
          [] host # NoHost /\ matching = {} -> FindRoute(url, method)
          [] OTHER -> IF FirstMatch(routes, url) = 0 THEN Nothing("KeyError")
                      ELSE Found(routes[FirstMatch(routes, url)], <<url, method, host>>)

Find(url, method, host) ==
    IF table.hosts = <<>> THEN FindRoute(url, method) ELSE FindRouteByHost(url, method, host)

-----------------------------------------------------------------------------
(* The cache.                                                              *)

EmptyCache == [values |-> <<>>, queue |-> <<>>, size |-> 0]

\* Mutant of Cached: it is not queued.
CachedUnqueued(c, key, r) ==
    [c EXCEPT !.values = [x \in {key} \cup DOMAIN @ |-> IF x = key THEN r ELSE @[x]], !.size = @ + 1]

\* LRUCache.set.  When the cache is full the new route is stored under the
\* key that should have gone.
Cached(c, key, r) ==
    LET full == c.size > CacheSize
        k == IF full THEN Last(c.queue) ELSE key
    IN  [values |-> [x \in {k} \cup DOMAIN c.values |-> IF x = k THEN r ELSE c.values[x]],
         queue |-> <<k>> \o (IF full THEN Front(c.queue) ELSE c.queue),
         size |-> c.size + 1]

\* get_route: each search looks into the cache first, under a key of its own.
GetRoute(url, method, host) ==
    LET found == Find(url, method, host)
        plain == <<url, method>>
        first == IF table.hosts = <<>> THEN plain ELSE <<url, method, host>>
        reachesPlain == found.is \in {"404", "405"} \/ (found.is = "route" /\ found.key = plain)
    IN  CASE first \in DOMAIN cache.values -> Found(cache.values[first], first)
          [] first \notin DOMAIN cache.values /\ reachesPlain /\ plain \in DOMAIN cache.values ->
                Found(cache.values[plain], plain)
          [] OTHER -> found

\* The cache after that search.
CacheAfter(found) ==
    IF found.is = "route" /\ found.key \notin DOMAIN cache.values
    THEN Cached(cache, found.key, found.route) ELSE cache

\* The key that has to go, and is deleted, is one of the values; and there
\* are never more than one beyond max_size.
LruIsSound ==
    /\ ToSet(cache.queue) = DOMAIN cache.values
    /\ Len(cache.queue) <= CacheSize + 1

RouterType ==
    /\ strategy \in Strategies
    /\ DOMAIN table.routes \subseteq Methods \X Paths
    /\ Range(table.routes) \subseteq Routes
    /\ table.dynamic \in [Methods -> Seq(Routes)]
    /\ table.hosts \in Seq([host : SUBSET STRING, routes : Seq(Routes)])
    /\ Range(cache.values) \subseteq Routes
    /\ cache.size \in Nat /\ LruIsSound
=============================================================================
