------------------------------- MODULE MCParts ------------------------------
(* Parts of a program that share nothing, for TLC: static files, sessions, *)
(* templates, and the request rate of a client.  A behaviour is one of one *)
(* of them, the part; the state of the others stays fresh.                 *)
EXTENDS RequestRate, Sessions, Static

CONSTANT Folders

VARIABLES
    part,
    walk, versions, edits, phase, seen, queue, pathIndex, hashIndex,
    asts, objects, templates, compiled, cached

static == <<disk, clock, known, cache, cacheSize, pending, copies, answer>>
sessions == <<files, cookies, requests, acked>>
pages == <<walk, versions, edits, phase, seen, queue, pathIndex, hashIndex,
           asts, objects, templates, compiled, cached>>
vars == <<part, odd, static, sessions, pages, rateVars>>

Templates == INSTANCE Templates

Fresh(others) ==
    /\ "static" \in others => disk = [r \in Root |-> <<>>] /\ NewHandler
    /\ "sessions" \in others => NoSessions
    /\ "templates" \in others => walk = <<>> /\ versions = <<>> /\ Templates!NewEngine
    /\ "rate" \in others => optimistic = FALSE /\ NewRate

Init ==
    \/ part = "static" /\ StaticInit /\ Fresh({"sessions", "templates", "rate"})
    \/ part = "sessions" /\ SessionsInit /\ Fresh({"static", "templates", "rate"})
    \/ part = "templates" /\ Templates!Init /\ Fresh({"static", "sessions", "rate"})
    \/ part = "rate" /\ RateInit /\ odd = {} /\ Fresh({"static", "sessions", "templates"})

Next ==
    /\ \/ part = "static" /\ StaticNext /\ UNCHANGED <<sessions, pages, rateVars>>
       \/ part = "sessions" /\ SessionsNext /\ UNCHANGED <<static, pages, rateVars>>
       \/ part = "templates" /\ Templates!Next /\ UNCHANGED <<static, sessions, rateVars>>
       \/ part = "rate" /\ RateNext /\ UNCHANGED <<odd, static, sessions, pages>>
    /\ UNCHANGED part

Spec == Init /\ [][Next]_vars

-----------------------------------------------------------------------------
TypeOK ==
    /\ part = "static" => StaticType
    /\ part = "sessions" => SessionType
    /\ part = "templates" => Templates!TemplateType
    /\ RateType

\* What TemplateEngine renders follows the files once TemplateLoader has seen
\* them, and its thread lives on.
TemplatesFollowFiles == part = "templates" => Templates!TemplatesFollowFiles

-----------------------------------------------------------------------------
(* The sites: two roots, and one file in both.                             *)

TwoRoots == <<"r1", "r2">>
NewFile(text) == [text |-> text, mtime |-> 1]
PlainSite ==
    LET none == [name \in {<<"a">>, <<"b">>} |-> None]
    IN [r1 |-> [none EXCEPT ![<<"a">>] = NewFile(<<1, 2>>)],
        r2 |-> [name \in {<<"a">>, <<"b">>} |-> NewFile(<<9>>)]]
PrefixedSite ==
    LET all == [name \in {<<"static", "x">>, <<"x">>} |-> NewFile(<<1>>)] IN [r1 |-> all, r2 |-> all]

Odd(what) == IF what = "" THEN {} ELSE {what}
SomeSites ==
    {[odd |-> Odd(what), disk |-> IF what = "prefix" THEN PrefixedSite ELSE PlainSite] :
        what \in {"", "created", "deleted", "sametime", "backwards", "during", "head", "range", "prefix"}}
SomeTexts == {<<3>>, <<1, 2>>}
SomeRanges ==
    {[start |-> 0, end |-> 1], [start |-> 1, end |-> 2], [start |-> 1, end |-> None],
     [start |-> None, end |-> 1], [start |-> 2, end |-> 1], [start |-> 0, end |-> 9]}

SomeHabits == {Odd(what) : what \in {"", "concurrent", "workers", "crash", "inner"}}

-----------------------------------------------------------------------------
(* The folders: each file with its contents in turn.                       *)

Text(t) == [kind |-> "text", name |-> "", text |-> t]
Block(n, t) == [kind |-> "block", name |-> n, text |-> t]
Includes(n) == [kind |-> "include", name |-> n, text |-> ""]
Extends(n) == [kind |-> "extends", name |-> n, text |-> ""]

PlainFolder ==
    [base |-> <<<<Text("a"), Includes("menu"), Block("b", "x"), Block("c", "z")>>,
                <<Text("a2"), Includes("menu"), Block("b", "x2"), Block("c", "z")>>>>,
     page |-> <<<<Extends("base"), Block("b", "y"), Text("no")>>,
                <<Extends("base"), Block("b", "y2"), Block("c", "v")>>>>,
     menu |-> <<<<Text("m")>>>>,
     list |-> <<<<Includes("foot"), Text("l")>>, <<Text("l2"), Includes("foot")>>>>,
     foot |-> <<<<Text("f")>>, <<Text("f2")>>>>]

Folder(what, order, contents) == [odd |-> Odd(what), walk |-> order, versions |-> contents]
SomeFolders ==
    {Folder("", order, PlainFolder) :
        order \in {<<"base", "page", "menu", "list", "foot">>, <<"page", "foot", "list", "menu", "base">>}}
    \cup {Folder("siblings", <<"base", "one", "two">>,
                 [base |-> <<<<Block("b", "x"), Block("c", "z")>>>>,
                  one |-> <<<<Extends("base"), Block("b", "1")>>>>,
                  two |-> <<<<Extends("base"), Block("c", "2")>>>>]),
          Folder("drops", <<"base", "page">>,
                 [base |-> <<<<Block("b", "x")>>>>,
                  page |-> <<<<Extends("base"), Block("b", "y")>>, <<Extends("base")>>>>]),
          Folder("far", <<"c", "b", "a">>,
                 [c |-> <<<<Text("1")>>, <<Text("2")>>>>,
                  b |-> <<<<Includes("c")>>>>, a |-> <<<<Includes("b")>>>>]),
          Folder("twins", <<"a", "b">>,
                 [a |-> <<<<Text("1")>>, <<Text("2")>>>>, b |-> <<<<Text("1")>>>>]),
          Folder("broken", <<"a", "b">>,
                 [a |-> <<<<Includes("c")>>, <<Text("2")>>>>, b |-> <<<<Text("1")>>>>])}
=============================================================================
