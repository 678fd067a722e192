----------------------------- MODULE Templates ------------------------------
(***************************************************************************)
(* Templates from their files to what is rendered, while the files change: *)
(* TemplateLoader (templates/loader.py), which in debug mode is a thread,  *)
(* TemplateEngine (engine.py) with InMemoryCache (cache.py), and merge and *)
(* resolve_include_nodes (ast.py).                                         *)
(*                                                                         *)
(* A content is a sequence of nodes [kind, name, text]: a "text", a        *)
(* "block" with its name and text, an "include" or an "extends" of another *)
(* template; it is its own hash.  A file is known by one name, and its     *)
(* mtime is the number of its edits; files do not go away.  ASTs are       *)
(* shared and changed: an include node becomes the AST of its target, a    *)
(* "tree", and a template that extends another takes over, and changes,    *)
(* the AST of its parent.  What is compiled is the text an AST had then.   *)
(*                                                                         *)
(* odd names what is unusual about the files and their edits:              *)
(*   "siblings" a parent is extended by two templates                      *)
(*   "drops"    an edit removes a block that the parent has, too           *)
(*   "far"      an edit of what a template depends on through another      *)
(*   "twins"    two files have the same content                            *)
(*   "broken"   a template includes one that is missing                    *)
(***************************************************************************)
EXTENDS Oddities, Integers, SequencesExt

CONSTANT
    Folders         \* [odd, walk, versions]: walk the files, as os.walk finds them,
                    \* versions[name] the contents of a file, in turn

VARIABLES
    walk, versions,
    edits,          \* how often each file was written: versions[n][edits[n]] is there
    phase,          \* of the loader: "asleep", "reloading", or "dead" by an exception
    seen,           \* TemplateLoader.cache: the mtime of each file
    queue,          \* the names reload_templates still has to do
    pathIndex,      \* path_index: the content of each name; hash_index: the name
    hashIndex,      \* of each content
    asts,           \* the ASTs, sequences of nodes, one per parsed template
    objects,        \* ParsedTemplates: [hash, ast, dependencies, prepared]
    templates,      \* TemplateEngine.templates, in the dict's order: [name, object]
    compiled,       \* TemplateEngine.compiled_templates: text by hash
    cached          \* InMemoryCache: [text, dependencies] by hash

loader == <<phase, seen, queue, pathIndex, hashIndex>>
engine == <<asts, objects, templates, compiled, cached>>
templateVars == <<odd, walk, versions, edits, loader, engine>>

Content(name) == versions[name][edits[name]]
Has(name) == \E i \in DOMAIN templates : templates[i].name = name
Get(name) == templates[CHOOSE i \in DOMAIN templates : templates[i].name = name].object
Without(f, keys) == [k \in DOMAIN f \ keys |-> f[k]]

-----------------------------------------------------------------------------
(* prepare_template and compile_templates, on a state s of the engine:     *)
(* [asts, objects, compiled, cached, failed].                              *)

AstOf(s, o) == s.asts[s.objects[o].ast]

\* The ASTs an AST reaches: children of its "tree" nodes, and theirs.
RECURSIVE Reached(_, _)
Reached(forest, a) ==
    {a} \cup UNION {Reached(forest, forest[a][i].ast) :
                        i \in {j \in DOMAIN forest[a] : forest[a][j].kind = "tree"}}

\* merge: the blocks replace those of their name, wherever the parent's AST
\* reaches.
BlocksOf(nodes) == SelectSeq(nodes, LAMBDA n : n.kind = "block")
Replaced(node, blocks) ==
    LET i == SelectLastInSeq(blocks, LAMBDA b : node.kind = "block" /\ b.name = node.name)
    IN IF i = 0 THEN node ELSE blocks[i]
Merge(forest, parent, blocks) ==
    [a \in DOMAIN forest |->
        IF a \in Reached(forest, parent)
        THEN [i \in DOMAIN forest[a] |-> Replaced(forest[a][i], blocks)] ELSE forest[a]]

\* The parts of prepare_template for one child: a target is prepared first.
RECURSIVE Prepare(_, _)

Include(s, o, i) ==
    LET target == Get(AstOf(s, o)[i].name)
        p == Prepare(s, target)
    IN [p EXCEPT !.objects[o].dependencies = @ \cup {p.objects[target].hash},
                 !.asts[p.objects[o].ast][i] = [kind |-> "tree", ast |-> p.objects[target].ast]]

Extend(s, o, i) ==
    LET parent == Get(AstOf(s, o)[i].name)
        p == Prepare(s, parent)
        blocks == BlocksOf(AstOf(s, o))
    IN [p EXCEPT !.objects[o].dependencies = @ \cup {p.objects[parent].hash},
                 !.asts = Merge(p.asts, p.objects[parent].ast, blocks),
                 !.objects[o].ast = p.objects[parent].ast]

Prepare(s, o) ==
    LET Resolve(kind, Part(_, _, _), from) ==
            LET nodes == AstOf(from, o)
            IN FoldLeftDomain(LAMBDA t, i :
                   IF t.failed \/ nodes[i].kind # kind THEN t
                   ELSE IF ~Has(nodes[i].name) THEN [t EXCEPT !.failed = TRUE]
                   ELSE Part(t, o, i), from, nodes)
        resolved == Resolve("extends", Extend, Resolve("include", Include, s))
    IN IF s.failed \/ s.objects[o].prepared THEN s
       ELSE IF resolved.failed THEN resolved
       ELSE [resolved EXCEPT !.objects[o].prepared = TRUE]

\* PythonTemplateCompiler.compile, as far as its result: the texts in order.
RECURSIVE TextOf(_, _)
TextOf(forest, a) ==
    FlattenSeq([i \in DOMAIN forest[a] |->
        IF forest[a][i].kind = "tree" THEN TextOf(forest, forest[a][i].ast) ELSE <<forest[a][i].text>>])

CompileOne(s, o) ==
    LET hash == s.objects[o].hash
        p == IF hash \in DOMAIN s.cached THEN s ELSE Prepare(s, o)
        entry == IF hash \in DOMAIN s.cached THEN s.cached[hash]
                 ELSE [text |-> TextOf(p.asts, p.objects[o].ast),
                       dependencies |-> p.objects[o].dependencies]
    IN IF p.failed THEN p
       ELSE [p EXCEPT !.cached = (hash :> entry) @@ @, !.compiled = (hash :> entry.text) @@ @]

-----------------------------------------------------------------------------
(* TemplateLoader.                                                         *)

\* check_for_modified_templates.
Scan ==
    LET modified == SelectSeq(walk, LAMBDA n : seen[n] # edits[n])
    IN /\ phase = "asleep" /\ modified # <<>>
       /\ seen' = edits /\ queue' = modified /\ phase' = "reloading"
       /\ UNCHANGED <<odd, walk, versions, edits, pathIndex, hashIndex, engine>>

\* remove_template: every name of that content.
RemoveTemplate(s, hash) ==
    LET kept == SelectSeq(s.templates, LAMBDA t : s.objects[t.object].hash # hash)
    IN [s EXCEPT !.templates = kept, !.cached = Without(@, {hash}),
                 !.compiled = IF kept = s.templates THEN @ ELSE Without(@, {hash})]

\* add_to_engine: a new object with an AST of its own, last in the dict.
\* add_template raises when the name is there.
Add(s, name) ==
    LET content == Content(name)
    IN IF \E i \in DOMAIN s.templates : s.templates[i].name = name THEN [s EXCEPT !.failed = TRUE]
       ELSE [s EXCEPT !.asts = Append(@, content),
                      !.objects = Append(@, [hash |-> content, ast |-> Len(s.asts) + 1,
                                             dependencies |-> {}, prepared |-> FALSE]),
                      !.templates = Append(@, [name |-> name, object |-> Len(s.objects) + 1]),
                      !.pathIndex = (name :> content) @@ @, !.hashIndex = (content :> name) @@ @]

\* Mutant of Dependents: what includes or extends a template stays as it is.
NoDependents(hash) == {}

\* The templates to reload with one of that content.
Dependents(hash) == {h \in DOMAIN cached : hash \in cached[h].dependencies} \cap DOMAIN hashIndex

Current == [asts |-> asts, objects |-> objects, templates |-> templates, compiled |-> compiled,
            cached |-> cached, pathIndex |-> pathIndex, hashIndex |-> hashIndex, failed |-> FALSE]

Becomes(s) ==
    /\ asts' = s.asts /\ objects' = s.objects /\ templates' = s.templates
    /\ compiled' = s.compiled /\ cached' = s.cached
    /\ pathIndex' = s.pathIndex /\ hashIndex' = s.hashIndex

\* reload_templates, for one path; the thread may be interrupted between two.
Reload ==
    /\ phase = "reloading" /\ queue # <<>>
    /\ LET name == Head(queue)
           known == name \in DOMAIN pathIndex
       IN \E order \in IF known THEN SetToSeqs(Dependents(pathIndex[name])) ELSE {<<>>} :
              LET ReloadOne(s, hash) == Add(RemoveTemplate(s, hash), s.hashIndex[hash])
                  reloaded == FoldLeft(ReloadOne, Current, order)
                  s == Add(IF known THEN RemoveTemplate(reloaded, pathIndex[name]) ELSE reloaded, name)
              IN Becomes(s) /\ phase' = IF s.failed THEN "dead" ELSE "reloading"
    /\ queue' = Tail(queue)
    /\ UNCHANGED <<odd, walk, versions, edits, seen>>

\* sync_cache, compile_templates and clean.  sync_cache and clean remove what
\* depends on what is gone from the dict they walk over, which raises.
Orphans(s, hashes) == {h \in DOMAIN s.cached : ~(s.cached[h].dependencies \subseteq hashes)}

Compile ==
    LET hashes == {objects[templates[i].object].hash : i \in DOMAIN templates}
        One(s, entry) == IF s.failed THEN s ELSE CompileOne(s, entry.object)
        s == IF Orphans(Current, hashes) # {} THEN Current ELSE FoldLeft(One, Current, templates)
        orphans == Orphans(s, hashes)
    IN /\ phase = "reloading" /\ queue = <<>>
       /\ phase' = IF s.failed \/ orphans # {} THEN "dead" ELSE "asleep"
       /\ Becomes(IF s.failed THEN s
                  ELSE [s EXCEPT !.cached = Without(@, orphans \cup (DOMAIN @ \ hashes))])
       /\ UNCHANGED <<odd, walk, versions, edits, seen, queue>>

-----------------------------------------------------------------------------
Edit(name) ==
    /\ edits[name] < Len(versions[name])
    /\ edits' = [edits EXCEPT ![name] = @ + 1]
    /\ UNCHANGED <<odd, walk, versions, loader, engine>>

NewEngine ==
    /\ edits = [n \in ToSet(walk) |-> 1] /\ seen = [n \in ToSet(walk) |-> 0]
    /\ phase = "asleep" /\ queue = <<>> /\ pathIndex = <<>> /\ hashIndex = <<>>
    /\ asts = <<>> /\ objects = <<>> /\ templates = <<>> /\ compiled = <<>> /\ cached = <<>>

Init ==
    /\ \E folder \in Folders : odd = folder.odd /\ walk = folder.walk /\ versions = folder.versions
    /\ NewEngine

Next == Scan \/ Reload \/ Compile \/ \E name \in ToSet(walk) : Edit(name)

-----------------------------------------------------------------------------
\* TemplateEngine.render: the text, or <<"missing">> for TemplateNotFound and
\* "You need to compile your templates first".
Render(name) ==
    IF Has(name) /\ objects[Get(name)].hash \in DOMAIN compiled
    THEN compiled[objects[Get(name)].hash] ELSE <<"missing">>

TemplateType ==
    /\ phase \in {"asleep", "reloading", "dead"}
    /\ \A i \in DOMAIN templates : templates[i].object \in DOMAIN objects
    /\ \A o \in DOMAIN objects : objects[o].ast \in DOMAIN asts

\* The nodes a template stands for, by its content and that of the others.
RECURSIVE Meaning(_)
Meaning(name) ==
    LET own == FlattenSeq([i \in DOMAIN Content(name) |->
                   IF Content(name)[i].kind = "include"
                   THEN Meaning(Content(name)[i].name) ELSE <<Content(name)[i]>>])
        extends == SelectInSeq(own, LAMBDA n : n.kind = "extends")
        parent == Meaning(own[extends].name)
    IN IF extends = 0 THEN own ELSE [i \in DOMAIN parent |-> Replaced(parent[i], BlocksOf(own))]

Used(name) ==
    \E other \in ToSet(walk) : \E i \in DOMAIN Content(other) :
        Content(other)[i].kind \in {"include", "extends"} /\ Content(other)[i].name = name

UpToDate ==
    \A name \in ToSet(walk) : ~Used(name) =>
        Render(name) = [i \in DOMAIN Meaning(name) |-> Meaning(name)[i].text]

\* Whenever the loader has seen the files as they are, every template that no
\* other includes or extends renders what the files say; and the loader's
\* thread lives on.
TemplatesFollowFiles ==
    odd = {} => phase # "dead" /\ (phase = "asleep" /\ seen = edits => UpToDate)
=============================================================================
