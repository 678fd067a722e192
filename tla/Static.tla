------------------------------- MODULE Static -------------------------------
(***************************************************************************)
(* The files StaticHandler serves (static.py) against their changes on the *)
(* disk: the memory of which files exist, the cache of entries and the     *)
(* budget of what it holds, conditional requests, ranges and HEAD.  One    *)
(* client asks, one request at a time.  handle runs to its end in one      *)
(* turn of the loop; a body that is streamed is read later.                *)
(*                                                                         *)
(* A name and a URL are sequences of segments; the ETag, an MD5 of the     *)
(* text, is the text.  A Range header is one range, [start, end]: anything *)
(* but two pieces is ignored, a number left out (None) raises.  No request *)
(* is both conditional and for a range.                                    *)
(*                                                                         *)
(* The answer to a range announces start-end in Content-Range, where both  *)
(* ends count, but sends, and declares in Content-Length, the bytes before *)
(* end only: the last byte asked for is missing.  No range that ends       *)
(* inside its file is answered in full.                                    *)
(*                                                                         *)
(* odd names what is unusual about the files, their edits or the requests: *)
(*   "created"   a file appears after the start                            *)
(*   "deleted"   a file goes away                                          *)
(*   "sametime"  an edit within the resolution of the clock                *)
(*   "backwards" an edit that sets an older time                           *)
(*   "during"    an edit while a body is being streamed                    *)
(*   "head"      a HEAD request                                            *)
(*   "range"     a range that is open at an end, reversed, or ends behind  *)
(*               the end of the file                                       *)
(*   "prefix"    a name that contains the prefix of the URLs               *)
(***************************************************************************)
EXTENDS Oddities, Integers, SequencesExt, FiniteSetsExt

CONSTANTS
    Prefix,         \* the segment static URLs begin with: StaticHandler.url_prefix
    Roots,          \* the directories, in the order they are searched: paths
    Sites,          \* [odd, disk]: disk[root][name] a file [text, mtime], or None
    MaxCacheSize,   \* max_cache_size
    Texts,          \* what an edit may write
    Ranges,         \* [start, end], the pieces of Range headers: numbers, or None
    MaxClock        \* bound: the time at which edits and requests end

VARIABLES
    disk,           \* disk[root][name]: a file, or None
    clock,
    known,          \* what lru_cache remembers of exists: TRUE, FALSE or None
    cache,          \* StaticHandler.cache: an entry, or None
    cacheSize,      \* current_cache_size
    pending,        \* a streamed answer whose body has not been read yet, or None
    copies,         \* the client's copy of each name, [text, mtime], or None
    answer          \* history: the last answer, and the disk when it was asked for

staticVars == <<odd, disk, clock, known, cache, cacheSize, pending, copies, answer>>

Root == Range(Roots)
NamesOf(d) == DOMAIN d[Roots[1]]
Names == DOMAIN copies
Files == Root \X Names
On(d, file) == d[file[1]][file[2]]

Content == Seq(Nat)
File == [text : Content, mtime : Nat]

-----------------------------------------------------------------------------
(* handle.                                                                 *)

\* url.replace(url_prefix, ''): each of them.
ExtractPath(url) == SelectSeq(url, LAMBDA segment : segment # Prefix)

\* What there is at the start is older than the clock, and is the same tree of
\* names below each root; usually url.replace takes away the prefix only.
ASSUME RootsAssumption == Roots \in Seq(Root) /\ Roots # <<>>
ASSUME SitesAssumption ==
    \A site \in Sites :
        /\ site.disk \in [Root -> [NamesOf(site.disk) -> {None} \cup [text : Content, mtime : 0..1]]]
        /\ "prefix" \notin site.odd =>
              \A name \in NamesOf(site.disk) : ExtractPath(<<Prefix>> \o name) = name
ASSUME TextsAssumption == Texts \subseteq Content /\ None # <<>>
ASSUME RangesAssumption ==
    \A range \in Ranges : range.start \in Nat \cup {None} /\ range.end \in Nat \cup {None}
ASSUME BoundsAssumption == MaxCacheSize \in Nat /\ MaxClock \in Nat \ {0}

\* isfile, remembered for ever.
Exists(file) == IF known[file] # None THEN known[file] ELSE On(disk, file) # None

NeedsUpdate(name) == On(disk, <<cache[name].root, name>>).mtime # cache[name].mtime

\* Mutant of CacheEntry: asks for room in an empty cache.
RoomyEntry(root, name) ==
    LET file == On(disk, <<root, name>>)
    IN [root |-> root, etag |-> file.text, mtime |-> file.mtime,
        size |-> Len(file.text), declared |-> Len(file.text),
        held |-> IF MaxCacheSize > Len(file.text) THEN file.text ELSE None]

\* CacheEntry: declared is the Content-Length among the headers, which the
\* entry, its response and its answers to HEAD share.
CacheEntry(root, name) ==
    LET file == On(disk, <<root, name>>)
    IN [root |-> root, etag |-> file.text, mtime |-> file.mtime,
        size |-> Len(file.text), declared |-> Len(file.text),
        held |-> IF MaxCacheSize - cacheSize > Len(file.text) THEN file.text ELSE None]

Plain(status) == [status |-> status, declared |-> 0, modified |-> None, body |-> <<>>]

\* Mutant of NotModified: any copy of the file will do.
NeverModified(request, entry) == request.kind \in {"since", "etag"}

NotModified(request, entry) ==
    \/ request.kind = "since" /\ request.copy.mtime # 0 /\ entry.mtime <= request.copy.mtime
    \/ request.kind = "etag" /\ entry.etag = request.copy.text

Open(range) == range.start = None \/ range.end = None

\* Range requests, GET or HEAD: the length may be negative, and a HEAD's is that
\* of its empty body.
RangeResponse(request) ==
    IF Open(request.range) THEN Plain(500)
    ELSE IF request.kind = "headrange" THEN Plain(206)
    ELSE [Plain(206) EXCEPT !.declared = request.range.end - request.range.start, !.body = None]

\* parse_response: a body that is streamed from the file is None.
ParseResponse(request, entry) ==
    IF NotModified(request, entry) THEN Plain(304)
    ELSE IF request.kind \in {"range", "headrange"} THEN RangeResponse(request)
    ELSE IF request.kind = "head" THEN Plain(200)
    ELSE [status |-> 200, modified |-> entry.mtime, body |-> entry.held,
          declared |-> IF entry.held = None THEN entry.declared ELSE Len(entry.held)]

Receive(request, result, was) ==
    /\ answer' = [request |-> request, result |-> result, disk |-> was]
    /\ copies' = IF result.modified = None THEN copies
                 ELSE [copies EXCEPT ![request.name] = [text |-> result.body, mtime |-> result.modified]]

\* The answer from an entry, and its sending: encoding an answer to HEAD
\* writes its own length, 0, among the headers of the entry.
Respond(request, entry, path) ==
    LET result == ParseResponse(request, entry)
    IN /\ cache' = [cache EXCEPT ![path] =
                        IF request.kind = "head" /\ result.status = 200
                        THEN [entry EXCEPT !.declared = 0] ELSE entry]
       /\ IF result.body = None
          THEN pending' = [request |-> request, result |-> result, disk |-> disk,
                           file |-> <<entry.root, path>>]
               /\ UNCHANGED <<answer, copies>>
          ELSE UNCHANGED pending /\ Receive(request, result, disk)

\* StaticNotFound, or an exception of the operating system.
Refuse(request, status) ==
    Receive(request, Plain(status), disk) /\ UNCHANGED <<cache, cacheSize, pending>>

\* The loop of handle: a new entry from the first root that has, or is remembered to have, it.
LoadEntry(request, path) ==
    LET first == SelectInSeq(Roots, LAMBDA root : Exists(<<root, path>>))
        asked == {<<Roots[i], path>> : i \in IF first = 0 THEN DOMAIN Roots ELSE 1..first}
        file == <<Roots[first], path>>
        entry == CacheEntry(Roots[first], path)
    IN /\ known' = [f \in Files |-> IF f \in asked THEN Exists(f) ELSE known[f]]
       /\ IF first = 0 THEN Refuse(request, 404)
          ELSE IF On(disk, file) = None THEN Refuse(request, 500)
          ELSE /\ cacheSize' = cacheSize + IF entry.held = None THEN 0 ELSE entry.size
               /\ Respond(request, entry, path)

Handle(request) ==
    LET path == ExtractPath(<<Prefix>> \o request.name)
    IN IF path \notin Names THEN Refuse(request, 404) /\ UNCHANGED known
       ELSE IF cache[path] = None THEN LoadEntry(request, path)
       ELSE IF On(disk, <<cache[path].root, path>>) = None
       THEN Refuse(request, 500) /\ UNCHANGED known
       ELSE IF NeedsUpdate(path) THEN LoadEntry(request, path)
       ELSE Respond(request, cache[path], path) /\ UNCHANGED <<known, cacheSize>>

-----------------------------------------------------------------------------
(* The client and the disk.                                                *)

Requests ==
    [kind : {"get"} \cup (odd \cap {"head"}), name : Names]
    \cup {[kind |-> kind, name |-> name, copy |-> copies[name]] :
              kind \in {"since", "etag"}, name \in {n \in Names : copies[n] # None}}
    \cup [kind : {"range"} \cup {"headrange" : x \in odd \cap {"head"}}, name : Names, range : Ranges]

\* A range of each of the files a name may mean.
RangeFits(request) ==
    request.kind \in {"range", "headrange"} =>
        \/ "range" \in odd
        \/ /\ ~Open(request.range) /\ request.range.start <= request.range.end
           /\ \A root \in Root :
                 LET file == On(disk, <<root, request.name>>)
                 IN  file # None => request.range.end <= Len(file.text)

Request ==
    /\ pending = None /\ clock < MaxClock
    /\ \E request \in Requests : RangeFits(request) /\ Handle(request)
    /\ UNCHANGED <<odd, disk, clock>>

\* Mutant of RangeFile: reads end as well.
RangeFileWithEnd(text, range) == SubSeq(text, range.start + 1, Min({range.end + 1, Len(text)}))

\* RangeFile.__iter__: a read of a negative number of bytes reads the rest.
RangeFile(text, range) ==
    SubSeq(text, range.start + 1,
           IF range.end < range.start THEN Len(text) ELSE Min({range.end, Len(text)}))

\* streaming_file opens the file only now.  RangeFile has had it open since the
\* request: it is the one of then if another has taken its place meanwhile.
ReadBody ==
    /\ pending # None
    /\ LET now == On(disk, pending.file)
           then == On(pending.disk, pending.file)
           read(body) == Receive(pending.request, [pending.result EXCEPT !.body = body], pending.disk)
       IN IF pending.result.status = 206
          THEN \E file \in {then, now} \ {None} : read(RangeFile(file.text, pending.request.range))
          ELSE read(IF now = None THEN <<>> ELSE now.text)
    /\ pending' = None
    /\ UNCHANGED <<odd, disk, clock, known, cache, cacheSize>>

MTimes == {clock + 1} \cup {clock : x \in odd \cap {"sametime"}} \cup {0 : x \in odd \cap {"backwards"}}

Edit(root, name, file) ==
    /\ clock < MaxClock /\ ("during" \notin odd => pending = None)
    /\ disk[root][name] = None => "created" \in odd
    /\ file = None => "deleted" \in odd
    /\ disk' = [disk EXCEPT ![root][name] = file]
    /\ clock' = clock + 1
    /\ UNCHANGED <<odd, known, cache, cacheSize, pending, copies, answer>>

Edits == {None} \cup [text : Texts, mtime : MTimes]

-----------------------------------------------------------------------------
NewHandler ==
    /\ known = [f \in Root \X NamesOf(disk) |-> None]
    /\ cache = [n \in NamesOf(disk) |-> None]
    /\ copies = cache
    /\ clock = 1 /\ cacheSize = 0 /\ pending = None /\ answer = None

StaticInit == \E site \in Sites : odd = site.odd /\ disk = site.disk /\ NewHandler

StaticNext ==
    \/ Request
    \/ ReadBody
    \/ \E root \in Root, name \in Names, file \in Edits : Edit(root, name, file)

StaticSpec == StaticInit /\ [][StaticNext]_staticVars

-----------------------------------------------------------------------------
StaticType ==
    /\ clock \in 1..MaxClock /\ cacheSize \in 0..MaxCacheSize
    /\ \A f \in Files : known[f] \in BOOLEAN \cup {None}
    /\ \A n \in Names : cache[n] # None => cache[n].root \in Root

\* The file a name means: that of the first root that has it.
FirstRoot(d, name) == SelectInSeq(Roots, LAMBDA root : On(d, <<root, name>>) # None)
FileOf(d, name) ==
    IF FirstRoot(d, name) = 0 THEN None ELSE On(d, <<Roots[FirstRoot(d, name)], name>>)

\* What may be answered, given the file.
Whole(file) == [status |-> 200, modified |-> file.mtime, body |-> file.text, declared |-> Len(file.text)]
Part(file, start, end) ==
    [Plain(206) EXCEPT !.body = SubSeq(file.text, start + 1, end), !.declared = end - start]

\* A range's first bytes, all that Content-Range announces being the longest.
PartsOf(file, range) ==
    {Part(file, range.start, end) : end \in range.start..Min({range.end + 1, Len(file.text)})}

Expected(request, file) ==
    IF file = None THEN {Plain(404)}
    ELSE CASE request.kind = "get" -> {Whole(file)}
           [] request.kind = "head" -> {[Plain(200) EXCEPT !.declared = Len(file.text)]}
           [] request.kind = "range" -> PartsOf(file, request.range)
           [] request.kind \in {"since", "etag"} ->
                 {Whole(file)} \cup IF request.copy.text = file.text THEN {Plain(304)} ELSE {}

\* StaticHandler answers with the file as it was when it was asked for, or that
\* the copy the client has is still that file.  Of a range it sends bytes of that
\* file, from the first asked for on and none behind the last, and declares as
\* many as it sends; not that they are all of them.
StaticIsFresh ==
    odd = {} /\ answer # None =>
        answer.result \in Expected(answer.request, FileOf(answer.disk, answer.request.name))

\* The bytes of files in memory.
Held(name) == IF cache[name] = None \/ cache[name].held = None THEN <<>> ELSE cache[name].held
HeldBytes == UNION {{name} \X DOMAIN Held(name) : name \in Names}

\* The contents StaticHandler holds in memory never exceed max_cache_size.
CacheIsBounded == Cardinality(HeldBytes) <= MaxCacheSize

\* What StaticHandler answers is the file as it was when it was asked for, bytes
\* of it from the start of a range on, or that the copy the client has is still
\* that file; and what it holds in memory never exceeds max_cache_size.
StaticIsSound == StaticIsFresh /\ CacheIsBounded
=============================================================================
