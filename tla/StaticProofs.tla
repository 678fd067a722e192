---------------------------- MODULE StaticProofs ----------------------------
(***************************************************************************)
(* Theorems about Static, for any roots, sites, texts, ranges and budget:  *)
(*                                                                         *)
(*   TypeCorrect   the type invariant, whatever is unusual                 *)
(*   Sound         what is answered is the file, or bytes of it from the   *)
(*                 start of a range on, and the cache keeps its budget     *)
(*                                                                         *)
(* The budget: cacheSize counts what was ever read into memory, and so at  *)
(* least what is there (BytesInv).                                         *)
(*                                                                         *)
(* The freshness, where nothing is odd: an entry may be stale, but then    *)
(* its file has a later time; what has the file's time has its text        *)
(* (Dated).  That goes for the client's copies as well, which is why       *)
(* comparing times is enough for a 304.  An answer that is streamed is     *)
(* still the file that was asked for when its body is read (PendingOK).    *)
(***************************************************************************)
EXTENDS Static, FiniteSetTheorems, WellFoundedInduction, SequenceTheorems, TLAPS

DiskInv ==
    /\ disk \in [Root -> [Names -> {None} \cup File]]
    /\ \A f \in Files : On(disk, f) # None => On(disk, f).mtime <= clock

Entries ==
    [root : Root, etag : Content, mtime : Nat, size : Nat, declared : Nat, held : {None} \cup Content]

KnownType == known = [f \in Files |-> known[f]] /\ \A f \in Files : known[f] \in BOOLEAN \cup {None}

TypeInv ==
    /\ StaticType
    /\ KnownType
    /\ cache = [n \in Names |-> cache[n]]
    /\ \A n \in Names : cache[n] # None => cache[n] \in Entries

BytesInv == IsFiniteSet(HeldBytes) /\ Cardinality(HeldBytes) <= cacheSize

KnownOK(f) == known[f] # None => known[f] = (On(disk, f) # None)

Present(n) == FirstRoot(disk, n) # 0

\* What is as old as the file has its text, and nothing is younger.
Dated(mtime, text, file) == mtime \in Nat /\ mtime <= file.mtime /\ (mtime = file.mtime => text = file.text)

EntryOK(n) ==
    LET entry == cache[n]
        file == FileOf(disk, n)
    IN  entry # None =>
            /\ Present(n) /\ entry.root = Roots[FirstRoot(disk, n)]
            /\ Dated(entry.mtime, entry.etag, file)
            /\ entry.mtime = file.mtime =>
                  entry.declared = Len(file.text) /\ entry.held \in {None, file.text}

CopyOK(n) ==
    copies[n] # None => Present(n) /\ Dated(copies[n].mtime, copies[n].text, FileOf(disk, n))

\* A range of a file.
Within(range, file) ==
    /\ range.start \in Nat /\ range.end \in Nat
    /\ range.start <= range.end /\ range.end <= Len(file.text)

PendingOK ==
    LET request == pending.request
        file == FileOf(disk, request.name)
    IN  pending # None =>
            /\ pending.disk = disk /\ request.name \in Names /\ Present(request.name)
            /\ pending.file = <<Roots[FirstRoot(disk, request.name)], request.name>>
            /\ \/ /\ request.kind \in {"get", "since", "etag"}
                  /\ pending.result = [Whole(file) EXCEPT !.body = None]
               \/ /\ request.kind = "range"
                  /\ Within(request.range, file)
                  /\ pending.result = [Plain(206) EXCEPT !.body = None,
                                          !.declared = request.range.end - request.range.start]

PathsOK == \A n \in Names : ExtractPath(<<Prefix>> \o n) = n

FreshInv ==
    odd = {} =>
        /\ PathsOK
        /\ copies = [n \in Names |-> copies[n]]
        /\ \A f \in Files : KnownOK(f)
        /\ \A n \in Names : EntryOK(n) /\ CopyOK(n)
        /\ PendingOK
        /\ StaticIsFresh

-----------------------------------------------------------------------------
(* The first root that has a file.                                         *)

\* The least of a set of numbers.  The proof takes it from the well-founded
\* order of the intervals below them.
LEMMA Least ==
  ASSUME NEW I \in SUBSET (Nat \ {0}), I # {}
  PROVE  \E m \in I : \A i \in I : m <= i
<1> DEFINE Below == {1..i : i \in I}
<1>1. \A i \in I : 1..i \subseteq Nat /\ IsFiniteSet(1..i)
  BY FS_Interval
<1>2. Below \subseteq FiniteSubsetsOf(Nat) /\ Below # {}
  BY <1>1 DEF FiniteSubsetsOf
<1>3. PICK x \in Below : \A y \in Below : ~(<<y, x>> \in StrictSubsetOrdering(Nat))
  <2> HIDE DEF Below
  <2> QED
    BY <1>2, FS_StrictSubsetOrderingWellFounded, WFMin
<1>4. PICK m \in I : x = 1..m
  OBVIOUS
<1>5. ASSUME NEW i \in I, i < m
      PROVE  FALSE
  <2>1. 1..i \subseteq 1..m /\ 1..i # 1..m
    BY <1>5
  <2>2. <<1..i, 1..m>> \in StrictSubsetOrdering(Nat)
    BY <2>1 DEF StrictSubsetOrdering
  <2> QED
    BY <1>3, <1>4, <2>2
<1> QED
  BY <1>5

LEMMA RootsFacts ==
  /\ Len(Roots) \in Nat /\ DOMAIN Roots = 1..Len(Roots)
  /\ \A i \in 1..Len(Roots) : Roots[i] \in Root
  /\ Roots[1] \in Root
BY RootsAssumption, LenProperties, ElementOfSeq, EmptySeq

LEMMA FirstRootProps ==
  ASSUME NEW d, NEW name
  PROVE  \/ /\ FirstRoot(d, name) = 0
            /\ \A i \in 1..Len(Roots) : d[Roots[i]][name] = None
         \/ /\ FirstRoot(d, name) \in 1..Len(Roots)
            /\ d[Roots[FirstRoot(d, name)]][name] # None
            /\ \A i \in 1..Len(Roots) :
                  d[Roots[i]][name] # None => FirstRoot(d, name) <= i
<1> DEFINE I == {i \in 1..Len(Roots) : d[Roots[i]][name] # None}
<1>1. FirstRoot(d, name) = IF I # {} THEN Min(I) ELSE 0
  BY DEF FirstRoot, SelectInSeq, On
<1>2. I \subseteq Nat \ {0}
  BY RootsFacts
<1> HIDE DEF I
<1>3. I # {} => Min(I) \in I /\ \A j \in I : Min(I) <= j
  BY <1>2, Least DEF Min
<1> QED
  BY <1>1, <1>3 DEF I

\* FirstRoot looks only at which files there are.
LEMMA FirstRootSame ==
  ASSUME NEW d, NEW e, NEW name,
         \A i \in 1..Len(Roots) : (d[Roots[i]][name] # None) = (e[Roots[i]][name] # None)
  PROVE  FirstRoot(d, name) = FirstRoot(e, name)
<1>1. {i \in 1..Len(Roots) : d[Roots[i]][name] # None}
        = {i \in 1..Len(Roots) : e[Roots[i]][name] # None}
  OBVIOUS
<1> QED
  BY <1>1 DEF FirstRoot, SelectInSeq, On

-----------------------------------------------------------------------------
(* The bytes in memory.                                                    *)

LEMMA BytesKept ==
  ASSUME Names' = Names, \A n \in Names : Held(n)' = Held(n)
  PROVE  HeldBytes' = HeldBytes
BY DEF HeldBytes

LEMMA ColumnSize ==
  ASSUME NEW x, NEW n \in Nat
  PROVE  IsFiniteSet({x} \X (1..n)) /\ Cardinality({x} \X (1..n)) = n
<1>1. IsFiniteSet(1..n) /\ Cardinality(1..n) = IF 1 <= n THEN n - 1 + 1 ELSE 0
  BY FS_Interval
<1>2. Cardinality(1..n) = n
  BY <1>1
<1>3. IsFiniteSet({x}) /\ Cardinality({x}) = 1
  BY FS_Singleton
<1>4. IsFiniteSet({x} \X (1..n)) /\ Cardinality({x} \X (1..n)) = 1 * n
  BY <1>1, <1>2, <1>3, FS_Product
<1> QED
  BY <1>4

\* Another content for one name costs at most its length.
LEMMA BytesReplaced ==
  ASSUME BytesInv, Names' = Names, NEW path \in Names, NEW text, text \in Content,
         Held(path)' = text, \A n \in Names : n # path => Held(n)' = Held(n)
  PROVE  IsFiniteSet(HeldBytes') /\ Cardinality(HeldBytes') <= Cardinality(HeldBytes) + Len(text)
<1> DEFINE new == {path} \X DOMAIN text
<1>1. HeldBytes' \subseteq HeldBytes \cup new
  BY DEF HeldBytes
<1>2. DOMAIN text = 1..Len(text) /\ Len(text) \in Nat
  BY LenProperties DEF Content
<1>3. IsFiniteSet(new) /\ Cardinality(new) = Len(text)
  BY <1>2, ColumnSize
<1> HIDE DEF new
<1>4. /\ IsFiniteSet(HeldBytes \cup new)
      /\ Cardinality(HeldBytes \cup new) <= Cardinality(HeldBytes) + Len(text)
  <2>1. /\ IsFiniteSet(HeldBytes \cup new) /\ IsFiniteSet(HeldBytes \cap new)
        /\ Cardinality(HeldBytes \cup new)
              = Cardinality(HeldBytes) + Cardinality(new) - Cardinality(HeldBytes \cap new)
    BY <1>3, FS_Union, FS_Intersection DEF BytesInv
  <2>2. Cardinality(HeldBytes \cap new) \in Nat /\ Cardinality(HeldBytes) \in Nat
    BY <2>1, FS_CardinalityType DEF BytesInv
  <2> QED
    BY <1>2, <1>3, <2>1, <2>2
<1>5. IsFiniteSet(HeldBytes') /\ Cardinality(HeldBytes') <= Cardinality(HeldBytes \cup new)
  BY <1>1, <1>4, FS_Subset
<1>6. /\ Cardinality(HeldBytes') \in Nat /\ Cardinality(HeldBytes \cup new) \in Nat
      /\ Cardinality(HeldBytes) \in Nat
  BY <1>4, <1>5, FS_CardinalityType DEF BytesInv
<1> QED
  BY <1>2, <1>4, <1>5, <1>6
-----------------------------------------------------------------------------
(* The type invariant and the budget, whatever is odd.                     *)

LEMMA FileFacts ==
  ASSUME DiskInv, NEW root \in Root, NEW name \in Names, On(disk, <<root, name>>) # None
  PROVE  LET file == On(disk, <<root, name>>)
         IN  /\ file \in File /\ file.mtime <= clock
             /\ file.text \in Content /\ file.mtime \in Nat /\ Len(file.text) \in Nat
<1>1. On(disk, <<root, name>>) \in File
  BY DEF DiskInv, On
<1>2. <<root, name>> \in Files
  BY DEF Files
<1> QED
  BY <1>1, <1>2, LenProperties DEF DiskInv, File, Content

LEMMA EmptyContent == <<>> \in Content /\ Len(<<>>) = 0
BY DEF Content

LEMMA HeldType ==
  ASSUME TypeInv, NEW n \in Names
  PROVE  Held(n) \in Content
BY EmptyContent DEF TypeInv, Held, Entries

LEMMA SameNames ==
  ASSUME NEW request, NEW result, NEW was, Receive(request, result, was)
  PROVE  Names' = Names
BY DEF Receive, Names

HeldOf(entry) == IF entry.held = None THEN <<>> ELSE entry.held

LEMMA RespondType ==
  ASSUME TypeInv, BytesInv, NEW request, NEW path \in Names, NEW entry \in Entries,
         Respond(request, entry, path), clock' = clock, KnownType', cacheSize' \in 0..MaxCacheSize,
         \/ cache[path] # None /\ entry = cache[path] /\ cacheSize' = cacheSize
         \/ cacheSize' = cacheSize + Len(HeldOf(entry))
  PROVE  TypeInv' /\ BytesInv' /\ Names' = Names
<1>1. PICK e \in Entries : cache' = [cache EXCEPT ![path] = e] /\ HeldOf(e) = HeldOf(entry)
  <2> DEFINE low == [entry EXCEPT !.declared = 0]
  <2>1. low \in Entries /\ low.held = entry.held
    BY DEF Entries
  <2> HIDE DEF low
  <2>2. cache' = [cache EXCEPT ![path] = low] \/ cache' = [cache EXCEPT ![path] = entry]
    BY DEF Respond, low
  <2> QED
    BY <2>1, <2>2 DEF HeldOf
<1>2. Names' = Names
  BY SameNames DEF Respond, Names
<1>3. /\ cache' = [n \in Names |-> IF n = path THEN e ELSE cache[n]]
      /\ \A n \in Names : cache'[n] # None => cache'[n] \in Entries
  BY <1>1 DEF TypeInv
<1>4. TypeInv'
  BY <1>2, <1>3 DEF TypeInv, StaticType, Entries, KnownType
<1>5. /\ \A n \in Names : n # path => Held(n)' = Held(n)
      /\ Held(path)' = <<>> \/ Held(path)' = HeldOf(entry)
  BY <1>1, <1>3 DEF Held, HeldOf
<1>6. /\ Held(path)' \in Content /\ HeldOf(entry) \in Content
      /\ Len(Held(path)') \in Nat /\ Len(HeldOf(entry)) \in Nat
  BY <1>5, EmptyContent, LenProperties DEF HeldOf, Entries, Content
<1>7. Cardinality(HeldBytes) \in Nat /\ cacheSize \in Nat /\ cacheSize' \in Nat
  BY FS_CardinalityType DEF BytesInv, TypeInv, StaticType
<1>8. CASE Held(path)' = Held(path) /\ cacheSize' = cacheSize
  BY <1>2, <1>4, <1>5, <1>8, BytesKept DEF BytesInv
<1>9. CASE Len(Held(path)') <= cacheSize' - cacheSize
  <2>1. PICK text : text = Held(path)'
    OBVIOUS
  <2>2. /\ IsFiniteSet(HeldBytes') /\ Len(text) \in Nat
        /\ Cardinality(HeldBytes') <= Cardinality(HeldBytes) + Len(text)
    BY <1>2, <1>5, <1>6, <2>1, BytesReplaced
  <2>3. Cardinality(HeldBytes') \in Nat
    BY <2>2, FS_CardinalityType
  <2>4. Cardinality(HeldBytes') <= cacheSize'
    BY <1>7, <1>9, <2>1, <2>2, <2>3 DEF BytesInv
  <2>5. BytesInv'
    BY <2>2, <2>4 DEF BytesInv
  <2> QED
    BY <1>2, <1>4, <2>5
<1>10. \/ Held(path)' = Held(path) /\ cacheSize' = cacheSize
       \/ Len(Held(path)') <= cacheSize' - cacheSize
  BY <1>5, <1>6, <1>7, EmptyContent DEF Held, HeldOf
<1> QED
  BY <1>2, <1>4, <1>8, <1>9, <1>10

LEMMA RefuseType ==
  ASSUME TypeInv, BytesInv, NEW request, NEW status, Refuse(request, status), clock' = clock, KnownType'
  PROVE  TypeInv' /\ BytesInv' /\ Names' = Names
<1>1. Names' = Names /\ UNCHANGED <<cache, cacheSize>>
  BY SameNames DEF Refuse
<1>2. TypeInv'
  BY <1>1 DEF TypeInv, StaticType, KnownType, Entries
<1>3. HeldBytes' = HeldBytes
  BY <1>1, BytesKept DEF Held
<1> QED
  BY <1>1, <1>2, <1>3 DEF BytesInv

\* A new entry: what it holds fits into what is left of the budget.
LEMMA NewEntry ==
  ASSUME DiskInv, TypeInv, NEW root \in Root, NEW name \in Names, On(disk, <<root, name>>) # None,
         NEW entry, entry = CacheEntry(root, name)
  PROVE  LET file == On(disk, <<root, name>>)
         IN  /\ entry \in Entries /\ entry.root = root /\ entry.etag = file.text
             /\ entry.mtime = file.mtime /\ entry.declared = Len(file.text)
             /\ entry.held \in {None, file.text}
             /\ cacheSize + (IF entry.held = None THEN 0 ELSE entry.size) = cacheSize + Len(HeldOf(entry))
             /\ cacheSize + Len(HeldOf(entry)) \in 0..MaxCacheSize
<1> DEFINE file == On(disk, <<root, name>>)
<1>1. file.text \in Content /\ file.mtime \in Nat /\ Len(file.text) \in Nat
  BY FileFacts
<1>2. cacheSize \in Nat /\ cacheSize <= MaxCacheSize /\ MaxCacheSize \in Nat
  BY BoundsAssumption DEF TypeInv, StaticType
<1> HIDE DEF file
<1>3. entry = [root |-> root, etag |-> file.text, mtime |-> file.mtime,
               size |-> Len(file.text), declared |-> Len(file.text),
               held |-> IF MaxCacheSize - cacheSize > Len(file.text) THEN file.text ELSE None]
  BY DEF CacheEntry, file
<1>4. entry \in Entries
  BY <1>1, <1>3 DEF Entries
<1>5. /\ entry.root = root /\ entry.etag = file.text /\ entry.mtime = file.mtime
      /\ entry.declared = Len(file.text) /\ entry.size = Len(file.text)
      /\ entry.held = IF MaxCacheSize - cacheSize > Len(file.text) THEN file.text ELSE None
  BY <1>3
<1>6. /\ (IF entry.held = None THEN 0 ELSE entry.size) = Len(HeldOf(entry))
      /\ cacheSize + Len(HeldOf(entry)) \in 0..MaxCacheSize
  BY <1>1, <1>2, <1>5, EmptyContent DEF HeldOf
<1> QED
  BY <1>4, <1>5, <1>6 DEF file

LEMMA ExistsType ==
  ASSUME TypeInv, NEW file \in Files
  PROVE  Exists(file) \in BOOLEAN
BY DEF Exists, TypeInv, KnownType

\* The loop of handle, for what a file is or is remembered to be.
LEMMA LoadEntryCases ==
  ASSUME DiskInv, TypeInv, NEW request, NEW path \in Names, LoadEntry(request, path)
  PROVE  /\ \E asked \in SUBSET Files : known' = [f \in Files |-> IF f \in asked THEN Exists(f) ELSE known[f]]
         /\ \/ /\ Refuse(request, 404)
               /\ \A i \in 1..Len(Roots) : ~Exists(<<Roots[i], path>>)
            \/ \E i \in 1..Len(Roots) :
                  /\ Exists(<<Roots[i], path>>)
                  /\ \A j \in 1..Len(Roots) : Exists(<<Roots[j], path>>) => i <= j
                  /\ \/ On(disk, <<Roots[i], path>>) = None /\ Refuse(request, 500)
                     \/ LET entry == CacheEntry(Roots[i], path)
                        IN  /\ On(disk, <<Roots[i], path>>) # None
                            /\ cacheSize' = cacheSize + IF entry.held = None THEN 0 ELSE entry.size
                            /\ Respond(request, entry, path)
<1> DEFINE I == {i \in 1..Len(Roots) : Exists(<<Roots[i], path>>)}
           first == IF I # {} THEN Min(I) ELSE 0
           asked == {<<Roots[i], path>> : i \in IF first = 0 THEN DOMAIN Roots ELSE 1..first}
<1>1. SelectInSeq(Roots, LAMBDA root : Exists(<<root, path>>)) = first
  BY DEF SelectInSeq
<1>2. I \subseteq Nat \ {0}
  BY RootsFacts
<1>3. /\ first = 0 /\ \A i \in 1..Len(Roots) : ~Exists(<<Roots[i], path>>)
      \/ /\ first \in 1..Len(Roots) /\ Exists(<<Roots[first], path>>)
         /\ \A j \in 1..Len(Roots) : Exists(<<Roots[j], path>>) => first <= j
  <2>1. CASE I = {}
    BY <2>1
  <2>2. CASE I # {}
    <3> HIDE DEF I
    <3>1. Min(I) \in I /\ \A j \in I : Min(I) <= j
      BY <1>2, <2>2, Least DEF Min
    <3> QED
      BY <2>2, <3>1, RootsFacts DEF I
  <2> QED
    BY <2>1, <2>2
<1>4. asked \subseteq Files
  BY <1>3, RootsFacts DEF Files
<1> HIDE DEF I, first
<1>5. /\ known' = [f \in Files |-> IF f \in asked THEN Exists(f) ELSE known[f]]
      /\ first = 0 => Refuse(request, 404)
      /\ first # 0 /\ On(disk, <<Roots[first], path>>) = None => Refuse(request, 500)
      /\ first # 0 /\ On(disk, <<Roots[first], path>>) # None =>
            LET entry == CacheEntry(Roots[first], path)
            IN  /\ cacheSize' = cacheSize + IF entry.held = None THEN 0 ELSE entry.size
                /\ Respond(request, entry, path)
  <2>1. known' = [f \in Files |-> IF f \in asked THEN Exists(f) ELSE known[f]]
    <3> HIDE DEF first
    <3> QED
      BY <1>1 DEF LoadEntry
  <2> HIDE DEF first, asked
  <2>2. IF first = 0 THEN Refuse(request, 404)
        ELSE IF On(disk, <<Roots[first], path>>) = None THEN Refuse(request, 500)
        ELSE LET entry == CacheEntry(Roots[first], path)
             IN  /\ cacheSize' = cacheSize + IF entry.held = None THEN 0 ELSE entry.size
                 /\ Respond(request, entry, path)
    BY <1>1, Zenon DEF LoadEntry
  <2> QED
    BY <2>1, <2>2
<1> HIDE DEF asked
<1>6. \E seen \in SUBSET Files : known' = [f \in Files |-> IF f \in seen THEN Exists(f) ELSE known[f]]
  BY <1>4, <1>5
<1>7. CASE first = 0
  <2>1. \A i \in 1..Len(Roots) : ~Exists(<<Roots[i], path>>)
    BY <1>3, <1>7
  <2>2. Refuse(request, 404)
    BY <1>5, <1>7
  <2> QED
    BY <1>6, <2>1, <2>2
<1>8. CASE first # 0
  <2>1. PICK i \in 1..Len(Roots) : i = first
    BY <1>3, <1>8
  <2>2. /\ Exists(<<Roots[i], path>>)
        /\ \A j \in 1..Len(Roots) : Exists(<<Roots[j], path>>) => i <= j
    BY <1>3, <1>8, <2>1
  <2>3. \/ On(disk, <<Roots[i], path>>) = None /\ Refuse(request, 500)
        \/ LET entry == CacheEntry(Roots[i], path)
           IN  /\ On(disk, <<Roots[i], path>>) # None
               /\ cacheSize' = cacheSize + IF entry.held = None THEN 0 ELSE entry.size
               /\ Respond(request, entry, path)
    BY <1>5, <1>8, <2>1
  <2> QED
    BY <1>6, <2>2, <2>3
<1> QED
  BY <1>7, <1>8

LEMMA KnownTypeKept ==
  ASSUME TypeInv, Names' = Names, NEW seen \in SUBSET Files,
         known' = [f \in Files |-> IF f \in seen THEN Exists(f) ELSE known[f]]
  PROVE  KnownType'
<1>1. Files' = Files
  BY DEF Files
<1>2. \A f \in Files : Exists(f) \in BOOLEAN /\ known[f] \in BOOLEAN \cup {None}
  BY ExistsType DEF TypeInv, KnownType
<1> QED
  BY <1>1, <1>2 DEF KnownType

LEMMA LoadEntryType ==
  ASSUME DiskInv, TypeInv, BytesInv, NEW request, NEW path \in Names, LoadEntry(request, path),
         clock' = clock
  PROVE  TypeInv' /\ BytesInv' /\ Names' = Names
<1>1. PICK asked \in SUBSET Files : known' = [f \in Files |-> IF f \in asked THEN Exists(f) ELSE known[f]]
  BY LoadEntryCases
<1>2. CASE \E status : Refuse(request, status)
  <2>1. Names' = Names
    BY <1>2, SameNames DEF Refuse
  <2> QED
    BY <1>1, <1>2, <2>1, KnownTypeKept, RefuseType
<1>3. CASE \E i \in 1..Len(Roots) :
              LET entry == CacheEntry(Roots[i], path)
              IN  /\ On(disk, <<Roots[i], path>>) # None
                  /\ cacheSize' = cacheSize + IF entry.held = None THEN 0 ELSE entry.size
                  /\ Respond(request, entry, path)
  <2>1. PICK i \in 1..Len(Roots) : On(disk, <<Roots[i], path>>) # None
            /\ cacheSize' = cacheSize + (IF CacheEntry(Roots[i], path).held = None THEN 0
                                         ELSE CacheEntry(Roots[i], path).size)
            /\ Respond(request, CacheEntry(Roots[i], path), path)
    BY <1>3
  <2>2. PICK entry : entry = CacheEntry(Roots[i], path)
    OBVIOUS
  <2>3. Roots[i] \in Root
    BY RootsFacts
  <2>4. /\ entry \in Entries /\ cacheSize' = cacheSize + Len(HeldOf(entry))
        /\ cacheSize' \in 0..MaxCacheSize
    BY <2>1, <2>2, <2>3, NewEntry
  <2>5. Names' = Names
    BY <2>1, SameNames DEF Respond, Names
  <2> QED
    BY <1>1, <2>1, <2>2, <2>4, <2>5, KnownTypeKept, RespondType
<1> QED
  BY <1>2, <1>3, LoadEntryCases

LEMMA HandleType ==
  ASSUME DiskInv, TypeInv, BytesInv, NEW request, Handle(request), clock' = clock
  PROVE  TypeInv' /\ BytesInv' /\ Names' = Names
<1>1. PICK path : path = ExtractPath(<<Prefix>> \o request.name)
  OBVIOUS
<1>2. CASE path \in Names /\ LoadEntry(request, path)
  BY <1>2, LoadEntryType
<1>3. CASE UNCHANGED known /\ \E status : Refuse(request, status)
  <2>1. Names' = Names
    BY <1>3, SameNames DEF Refuse
  <2>2. KnownType'
    BY <1>3, <2>1 DEF TypeInv, KnownType, Files
  <2> QED
    BY <1>3, <2>1, <2>2, RefuseType
<1>4. CASE /\ path \in Names /\ cache[path] # None /\ Respond(request, cache[path], path)
           /\ UNCHANGED <<known, cacheSize>>
  <2>1. Names' = Names
    BY <1>4, SameNames DEF Respond, Names
  <2>2. KnownType' /\ cacheSize' \in 0..MaxCacheSize
    BY <1>4, <2>1 DEF TypeInv, KnownType, Files, StaticType
  <2>3. cache[path] \in Entries
    BY <1>4 DEF TypeInv
  <2> QED
    BY <1>4, <2>2, <2>3, RespondType
<1> QED
  BY <1>1, <1>2, <1>3, <1>4 DEF Handle

LEMMA ReadBodyType ==
  ASSUME TypeInv, BytesInv, ReadBody
  PROVE  TypeInv' /\ BytesInv' /\ Names' = Names
<1>0. \E body : Receive(pending.request, [pending.result EXCEPT !.body = body], pending.disk)
  BY DEF ReadBody
<1>1. Names' = Names
  BY <1>0, SameNames
<1>2. TypeInv'
  BY <1>1 DEF ReadBody, TypeInv, StaticType, KnownType, Files, Entries
<1>3. HeldBytes' = HeldBytes
  BY <1>1, BytesKept DEF ReadBody, Held
<1> QED
  BY <1>1, <1>2, <1>3 DEF ReadBody, BytesInv

\* An edit sets a time that is not later than the clock.
LEMMA EditDisk ==
  ASSUME DiskInv, TypeInv, NEW root \in Root, NEW name \in Names, NEW file \in Edits,
         Edit(root, name, file)
  PROVE  /\ disk' \in [Root -> [Names -> {None} \cup File]]
         /\ file # None => file \in File /\ file.mtime <= clock + 1
         /\ \A r \in Root, n \in Names :
               disk'[r][n] = IF r = root /\ n = name THEN file ELSE disk[r][n]
<1>1. clock \in Nat
  BY DEF TypeInv, StaticType
<1>2. file # None => file \in File /\ file.mtime <= clock + 1
  <2>1. \A time \in MTimes : time \in Nat /\ time <= clock + 1
    BY <1>1 DEF MTimes
  <2> QED
    BY <2>1, TextsAssumption DEF Edits, File
<1>3. disk' = [disk EXCEPT ![root][name] = file]
  BY DEF Edit
<1> QED
  BY <1>2, <1>3 DEF DiskInv

LEMMA EditType ==
  ASSUME DiskInv, TypeInv, BytesInv, NEW root \in Root, NEW name \in Names, NEW file \in Edits,
         Edit(root, name, file)
  PROVE  DiskInv' /\ TypeInv' /\ BytesInv' /\ Names' = Names
<1>1. Names' = Names /\ clock' = clock + 1 /\ clock \in 1..MaxClock /\ clock' \in 1..MaxClock
  BY BoundsAssumption DEF Edit, Names, TypeInv, StaticType
<1>2. TypeInv'
  BY <1>1 DEF Edit, TypeInv, StaticType, KnownType, Files, Entries
<1>3. HeldBytes' = HeldBytes
  BY <1>1, BytesKept DEF Edit, Held
<1>4. \A r \in Root, n \in Names : disk'[r][n] # None => disk'[r][n].mtime <= clock'
  <2> SUFFICES ASSUME NEW r \in Root, NEW n \in Names, disk'[r][n] # None
               PROVE  disk'[r][n].mtime <= clock'
    OBVIOUS
  <2>1. CASE r = root /\ n = name
    BY <1>1, <2>1, EditDisk
  <2>2. CASE ~(r = root /\ n = name)
    <3>1. disk'[r][n] = disk[r][n]
      BY <2>2, EditDisk
    <3>2. disk[r][n].mtime \in Nat /\ disk[r][n].mtime <= clock
      BY <3>1, FileFacts DEF On
    <3> QED
      BY <1>1, <3>1, <3>2
  <2> QED
    BY <2>1, <2>2
<1>5. DiskInv'
  BY <1>1, <1>4, EditDisk DEF DiskInv, Files, On
<1> QED
  BY <1>1, <1>2, <1>3, <1>5 DEF Edit, BytesInv

DiskStep == DiskInv' /\ TypeInv' /\ BytesInv' /\ Names' = Names

LEMMA StepType ==
  ASSUME DiskInv, TypeInv, BytesInv, [StaticNext]_staticVars
  PROVE  DiskStep
<1>1. CASE Request
  <2>1. TypeInv' /\ BytesInv' /\ Names' = Names
    BY <1>1, HandleType DEF Request
  <2> QED
    BY <1>1, <2>1 DEF Request, DiskStep, DiskInv, Files, On
<1>2. CASE ReadBody
  <2>1. TypeInv' /\ BytesInv' /\ Names' = Names
    BY <1>2, ReadBodyType
  <2> QED
    BY <1>2, <2>1 DEF ReadBody, DiskStep, DiskInv, Files, On
<1>3. CASE \E root \in Root, name \in Names, file \in Edits : Edit(root, name, file)
  BY <1>3, EditType DEF DiskStep
<1>4. CASE UNCHANGED staticVars
  <2>1. Names' = Names
    BY <1>4 DEF staticVars, Names
  <2>2. HeldBytes' = HeldBytes
    BY <1>4, <2>1, BytesKept DEF staticVars, Held
  <2> QED
    BY <1>4, <2>1, <2>2
    DEF staticVars, DiskStep, DiskInv, TypeInv, BytesInv, StaticType, KnownType, Files, On, Entries
<1> QED
  BY <1>1, <1>2, <1>3, <1>4 DEF StaticNext

LEMMA InitType ==
  ASSUME StaticInit
  PROVE  DiskInv /\ TypeInv /\ BytesInv
<1>1. PICK site \in Sites : odd = site.odd /\ disk = site.disk /\ NewHandler
  BY DEF StaticInit
<1>2. /\ Names = NamesOf(disk) /\ cache = [n \in Names |-> None]
      /\ known = [f \in Files |-> None] /\ clock = 1 /\ cacheSize = 0
  BY <1>1 DEF NewHandler, Names, Files
<1>3. disk \in [Root -> [Names -> {None} \cup [text : Content, mtime : 0..1]]]
  BY <1>1, <1>2, SitesAssumption
<1>4. DiskInv
  <2>1. [text : Content, mtime : 0..1] \subseteq File /\ \A f \in [text : Content, mtime : 0..1] : f.mtime <= 1
    BY DEF File
  <2>2. \A f \in Files : On(disk, f) \in {None} \cup [text : Content, mtime : 0..1]
    BY <1>3 DEF Files, On
  <2>3. disk \in [Root -> [Names -> {None} \cup File]]
    BY <1>3, <2>1
  <2> QED
    BY <1>2, <2>1, <2>2, <2>3 DEF DiskInv
<1>5. TypeInv
  BY <1>2, BoundsAssumption DEF TypeInv, StaticType, KnownType
<1>6. HeldBytes = {}
  BY <1>2 DEF HeldBytes, Held
<1>7. BytesInv
  BY <1>2, <1>6, FS_EmptySet DEF BytesInv
<1> QED
  BY <1>4, <1>5, <1>7

(***************************************************************************)
(* In every reachable state the memory of StaticHandler is well formed,    *)
(* and what current_cache_size counts stays below max_cache_size.          *)
(***************************************************************************)
THEOREM TypeCorrect == StaticSpec => []StaticType
<1>1. StaticInit => DiskInv /\ TypeInv /\ BytesInv
  BY InitType
<1>2. DiskInv /\ TypeInv /\ BytesInv /\ [StaticNext]_staticVars => DiskInv' /\ TypeInv' /\ BytesInv'
  BY StepType DEF DiskStep
<1>3. TypeInv => StaticType
  BY DEF TypeInv
<1> QED
  BY <1>1, <1>2, <1>3, PTL DEF StaticSpec

-----------------------------------------------------------------------------
(* The freshness, where nothing is odd.                                    *)

LEMMA FileOfFacts ==
  ASSUME DiskInv, NEW n \in Names, Present(n)
  PROVE  LET first == FirstRoot(disk, n)
             file == FileOf(disk, n)
         IN  /\ first \in 1..Len(Roots) /\ Roots[first] \in Root
             /\ file = On(disk, <<Roots[first], n>>) /\ file # None
             /\ file \in File /\ file.mtime <= clock
             /\ file.text \in Content /\ file.mtime \in Nat /\ Len(file.text) \in Nat
<1>1. PICK i : i = FirstRoot(disk, n)
  OBVIOUS
<1>2. i \in 1..Len(Roots) /\ On(disk, <<Roots[i], n>>) # None
  BY <1>1, FirstRootProps DEF Present, On
<1>3. Roots[i] \in Root /\ i # 0
  BY <1>2, RootsFacts
<1>4. FileOf(disk, n) = On(disk, <<Roots[i], n>>)
  BY <1>1, <1>3 DEF FileOf
<1> QED
  BY <1>1, <1>2, <1>3, <1>4, FileFacts

LEMMA ExpectedAnswers ==
  ASSUME NEW request, NEW file, file # None
  PROVE  /\ request.kind \in {"get", "since", "etag"} => Whole(file) \in Expected(request, file)
         /\ request.kind \in {"since", "etag"} /\ request.copy.text = file.text =>
               Plain(304) \in Expected(request, file)
         /\ request.kind = "range" /\ Within(request.range, file) /\ Len(file.text) \in Nat =>
               Part(file, request.range.start, request.range.end) \in Expected(request, file)
<1>1. CASE request.kind = "get"
  BY <1>1 DEF Expected
<1>2. CASE request.kind = "range"
  <2> SUFFICES ASSUME Within(request.range, file), Len(file.text) \in Nat
               PROVE  Part(file, request.range.start, request.range.end) \in Expected(request, file)
    BY <1>2
  <2>1. PICK start, end, n : start = request.range.start /\ end = request.range.end /\ n = Len(file.text)
    OBVIOUS
  <2>2. start \in Nat /\ end \in Nat /\ n \in Nat /\ start <= end /\ end <= n
    BY <2>1 DEF Within
  <2>3. end <= Min({end + 1, n}) /\ Min({end + 1, n}) \in Nat
    <3>1. CASE end = n
      <4>1. \A y \in {end + 1, n} : n <= y
        BY <2>2, <3>1
      <4>2. \A x \in {end + 1, n} : x <= n => x = n
        BY <2>2, <3>1
      <4>3. Min({end + 1, n}) = n
        BY <4>1, <4>2 DEF Min
      <4> QED
        BY <2>2, <4>3
    <3>2. CASE end # n
      <4>1. \A y \in {end + 1, n} : end + 1 <= y
        BY <2>2, <3>2
      <4>2. \A x \in {end + 1, n} : x <= end + 1 => x = end + 1
        BY <2>2, <3>2
      <4>3. Min({end + 1, n}) = end + 1
        BY <4>1, <4>2 DEF Min
      <4> QED
        BY <2>2, <4>3
    <3> QED
      BY <3>1, <3>2
  <2>4. end \in start..Min({end + 1, n})
    BY <2>2, <2>3
  <2>5. Part(file, start, end) \in PartsOf(file, request.range)
    BY <2>1, <2>4 DEF PartsOf
  <2> QED
    BY <1>2, <2>1, <2>5 DEF Expected
<1>3. CASE request.kind \in {"since", "etag"}
  BY <1>3 DEF Expected
<1> QED
  BY <1>1, <1>2, <1>3

LEMMA Answered ==
  ASSUME NEW request, NEW result, NEW was, Receive(request, result, was),
         result \in Expected(request, FileOf(was, request.name))
  PROVE  StaticIsFresh'
<1>1. answer' = [request |-> request, result |-> result, disk |-> was]
  BY DEF Receive
<1> QED
  BY <1>1 DEF StaticIsFresh

\* A copy of the file as it is is as good as those there are.
LEMMA CopyKept ==
  ASSUME DiskInv, NEW request, request.name \in Names, NEW result, NEW was,
         Receive(request, result, was), disk' = disk, copies = [n \in Names |-> copies[n]],
         \A n \in Names : CopyOK(n),
         \/ result.modified = None
         \/ /\ Present(request.name)
            /\ result.modified = FileOf(disk, request.name).mtime
            /\ result.body = FileOf(disk, request.name).text
  PROVE  \A n \in Names : CopyOK(n)'
<1>1. CASE result.modified = None
  BY <1>1 DEF Receive, CopyOK, Present
<1>2. CASE result.modified # None
  <2> DEFINE copy == [text |-> result.body, mtime |-> result.modified]
  <2>1. \A n \in Names : copies'[n] = IF n = request.name THEN copy ELSE copies[n]
    BY <1>2 DEF Receive
  <2>2. Dated(copy.mtime, copy.text, FileOf(disk, request.name)) /\ Present(request.name)
    <3>1. Present(request.name)
      BY <1>2
    <3>2. FileOf(disk, request.name).mtime \in Nat
      BY <3>1, FileOfFacts
    <3>3. copy.mtime = FileOf(disk, request.name).mtime /\ copy.text = FileOf(disk, request.name).text
      BY <1>2
    <3> HIDE DEF copy
    <3> QED
      BY <3>1, <3>2, <3>3 DEF Dated
  <2> HIDE DEF copy
  <2> QED
    BY <2>1, <2>2 DEF CopyOK, Present
<1> QED
  BY <1>1, <1>2

\* An entry that is up to date.
Current(n, entry) ==
    LET file == FileOf(disk, n)
    IN  /\ Present(n) /\ entry.root = Roots[FirstRoot(disk, n)]
        /\ entry.mtime = file.mtime /\ entry.etag = file.text
        /\ entry.declared = Len(file.text) /\ entry.held \in {None, file.text}

Pieces == {"get", "since", "etag", "range"}

\* What a request of a client looks like where nothing is odd.
LEMMA RequestShape ==
  ASSUME odd = {}, NEW request \in Requests, RangeFits(request)
  PROVE  /\ request.kind \in Pieces /\ request.name \in Names
         /\ request.kind \in {"since", "etag"} =>
               copies[request.name] # None /\ request.copy = copies[request.name]
         /\ request.kind = "range" =>
               /\ request.range.start \in Nat /\ request.range.end \in Nat
               /\ request.range.start <= request.range.end
               /\ \A root \in Root : LET file == On(disk, <<root, request.name>>)
                                     IN file # None => request.range.end <= Len(file.text)
<1>1. request.kind \in Pieces /\ request.name \in Names
  BY DEF Requests, Pieces
<1>2. ASSUME request.kind \in {"since", "etag"}
      PROVE  copies[request.name] # None /\ request.copy = copies[request.name]
  BY <1>2 DEF Requests
<1>3. ASSUME request.kind = "range"
      PROVE  /\ request.range.start \in Nat /\ request.range.end \in Nat
             /\ request.range.start <= request.range.end
             /\ \A root \in Root : LET file == On(disk, <<root, request.name>>)
                                   IN file # None => request.range.end <= Len(file.text)
  <2>1. request.range \in Ranges
    BY <1>3 DEF Requests
  <2>2. /\ ~Open(request.range) /\ request.range.start <= request.range.end
        /\ \A root \in Root : LET file == On(disk, <<root, request.name>>)
                              IN file # None => request.range.end <= Len(file.text)
    BY <1>3 DEF RangeFits
  <2> QED
    BY <2>1, <2>2, RangesAssumption DEF Open
<1> QED
  BY <1>1, <1>2, <1>3

LEMMA CurrentOK ==
  ASSUME DiskInv, NEW n \in Names, NEW entry, Current(n, entry), NEW path \in Names,
         disk' = disk, Names' = Names, cache' = [cache EXCEPT ![n] = entry],
         cache = [m \in Names |-> cache[m]], \A m \in Names : EntryOK(m)
  PROVE  \A m \in Names : EntryOK(m)'
<1>1. \A m \in Names : cache'[m] = IF m = n THEN entry ELSE cache[m]
  OBVIOUS
<1>2. Dated(entry.mtime, entry.etag, FileOf(disk, n))
  <2>1. FileOf(disk, n).mtime \in Nat
    BY FileOfFacts DEF Current
  <2> QED
    BY <2>1 DEF Current, Dated
<1>3. \A m \in Names : m # n => EntryOK(m)'
  BY <1>1 DEF EntryOK, Present
<1>4. EntryOK(n)'
  BY <1>1, <1>2 DEF EntryOK, Present, Current
<1> QED
  BY <1>3, <1>4

\* What an up to date entry answers.
Answers(request, entry, file, result) ==
    \/ /\ request.kind \in {"since", "etag"} /\ request.copy.text = file.text
       /\ result = Plain(304)
    \/ /\ request.kind = "range"
       /\ result = [Plain(206) EXCEPT !.body = None,
                       !.declared = request.range.end - request.range.start]
    \/ /\ request.kind \in {"get", "since", "etag"} /\ entry.held = None
       /\ result = [Whole(file) EXCEPT !.body = None]
    \/ /\ request.kind \in {"get", "since", "etag"} /\ entry.held = file.text
       /\ result = Whole(file)

LEMMA Results ==
  ASSUME DiskInv, odd = {}, NEW request \in Requests, RangeFits(request),
         CopyOK(request.name), NEW entry, Current(request.name, entry),
         NEW result, result = ParseResponse(request, entry)
  PROVE  Answers(request, entry, FileOf(disk, request.name), result)
<1> DEFINE file == FileOf(disk, request.name)
<1>1. /\ entry.mtime = file.mtime /\ entry.etag = file.text
      /\ entry.declared = Len(file.text) /\ entry.held \in {None, file.text}
  BY DEF Current
<1>2. Present(request.name)
  BY DEF Current
<1>3. request.kind \in Pieces /\ request.name \in Names
  BY RequestShape
<1>4. file.mtime \in Nat
  BY <1>2, <1>3, FileOfFacts
<1>5. CASE NotModified(request, entry)
  <2>1. request.kind \in {"since", "etag"}
    BY <1>5 DEF NotModified
  <2>2. request.copy = copies[request.name] /\ copies[request.name] # None
    BY <2>1, RequestShape
  <2>3. Dated(request.copy.mtime, request.copy.text, file)
    BY <2>2 DEF CopyOK
  <2> HIDE DEF file
  <2>4. request.copy.text = file.text
    <3>1. PICK t, u : t = request.copy.mtime /\ u = file.mtime
      OBVIOUS
    <3>2. t \in Nat /\ u \in Nat /\ t <= u /\ (t = u => request.copy.text = file.text)
      BY <1>4, <2>3, <3>1 DEF Dated
    <3>3. request.kind = "since" => u <= t
      BY <1>1, <1>5, <3>1 DEF NotModified
    <3>4. request.kind = "etag" => request.copy.text = file.text
      BY <1>1, <1>5 DEF NotModified
    <3> QED
      BY <2>1, <3>2, <3>3, <3>4
  <2>5. result = Plain(304)
    BY <1>5 DEF ParseResponse
  <2> QED
    BY <2>1, <2>4, <2>5 DEF file, Answers
<1>6. CASE ~NotModified(request, entry) /\ request.kind = "range"
  <2>0. ~Open(request.range)
    BY <1>6 DEF RangeFits
  <2>1. result = [Plain(206) EXCEPT !.declared = request.range.end - request.range.start, !.body = None]
    BY <1>6, <2>0 DEF ParseResponse, RangeResponse
  <2> QED
    BY <1>6, <2>1 DEF Plain, Answers
<1>7. CASE ~NotModified(request, entry) /\ request.kind # "range"
  <2>1. request.kind \in {"get", "since", "etag"}
    BY <1>3, <1>7 DEF Pieces
  <2>2. result = [status |-> 200, modified |-> entry.mtime, body |-> entry.held,
                  declared |-> IF entry.held = None THEN entry.declared ELSE Len(entry.held)]
    BY <1>7, <2>1 DEF ParseResponse
  <2> HIDE DEF file
  <2>3. CASE entry.held = None
    BY <1>1, <2>1, <2>2, <2>3 DEF Whole, file, Answers
  <2>4. CASE entry.held # None
    BY <1>1, <2>1, <2>2, <2>4 DEF Whole, file, Answers
  <2> QED
    BY <2>3, <2>4
<1> QED
  BY <1>5, <1>6, <1>7

FreshStep ==
    /\ copies' = [n \in Names |-> copies'[n]]
    /\ \A n \in Names : EntryOK(n)' /\ CopyOK(n)'
    /\ PendingOK'
    /\ StaticIsFresh'

LEMMA RespondFresh ==
  ASSUME DiskInv, FreshInv, odd = {}, odd' = odd, disk' = disk, cache = [n \in Names |-> cache[n]],
         pending = None, NEW request \in Requests, RangeFits(request),
         NEW entry, Current(request.name, entry), Respond(request, entry, request.name)
  PROVE  FreshStep
<1> DEFINE file == FileOf(disk, request.name)
<1>1. PICK result : result = ParseResponse(request, entry)
  OBVIOUS
<1>2. request.kind \in Pieces /\ request.name \in Names /\ Present(request.name)
  BY RequestShape DEF Current
<1>3. CopyOK(request.name)
  BY <1>2 DEF FreshInv
<1>4. cache' = [cache EXCEPT ![request.name] = entry]
  BY <1>2 DEF Respond, Pieces
<1>0. Answers(request, entry, file, result)
  BY <1>1, <1>3, Results
<1>5. /\ result.body = None =>
            /\ pending' = [request |-> request, result |-> result, disk |-> disk,
                           file |-> <<entry.root, request.name>>]
            /\ UNCHANGED <<answer, copies>>
      /\ result.body # None => UNCHANGED pending /\ Receive(request, result, disk)
  BY <1>1 DEF Respond
<1>6. Names' = Names
  BY <1>5, SameNames DEF Names
<1>7. \A n \in Names : EntryOK(n)'
  BY <1>2, <1>4, <1>6, CurrentOK DEF FreshInv
<1>8. file # None
  BY <1>2, FileOfFacts
<1>9. CASE result.body # None
  <2>1. \/ /\ request.kind \in {"since", "etag"} /\ request.copy.text = file.text
           /\ result = Plain(304)
        \/ request.kind \in {"get", "since", "etag"} /\ result = Whole(file)
    <3>1. [Whole(file) EXCEPT !.body = None].body = None
      BY DEF Whole
    <3>2. [Plain(206) EXCEPT !.body = None,
                  !.declared = request.range.end - request.range.start].body = None
      BY DEF Plain
    <3> HIDE DEF file
    <3> QED
      BY <1>0, <1>9, <3>1, <3>2 DEF Answers
  <2>2. result \in Expected(request, file)
    <3> HIDE DEF file
    <3> QED
      BY <1>8, <2>1, ExpectedAnswers
  <2>3. StaticIsFresh'
    BY <1>5, <1>9, <2>2, Answered
  <2>4. \/ result.modified = None
        \/ result.modified = file.mtime /\ result.body = file.text
    <3> HIDE DEF file
    <3>1. Plain(304).modified = None /\ Whole(file).modified = file.mtime /\ Whole(file).body = file.text
      BY DEF Plain, Whole
    <3> QED
      BY <2>1, <3>1
  <2>5. \A n \in Names : CopyOK(n)'
    BY <1>2, <1>5, <1>9, <2>4, CopyKept DEF FreshInv
  <2>6. copies' = [n \in Names |-> copies'[n]]
    BY <1>5, <1>9 DEF Receive, FreshInv
  <2>7. PendingOK'
    BY <1>5, <1>9 DEF PendingOK, FreshInv
  <2> QED
    BY <1>7, <2>3, <2>5, <2>6, <2>7 DEF FreshStep
<1>10. CASE result.body = None
  <2>1. \/ /\ request.kind = "range"
           /\ result = [Plain(206) EXCEPT !.body = None,
                                !.declared = request.range.end - request.range.start]
        \/ request.kind \in {"get", "since", "etag"} /\ result = [Whole(file) EXCEPT !.body = None]
    <3>1. Plain(304).body # None
      BY TextsAssumption DEF Plain
    <3>2. Whole(file).body = None => Whole(file) = [Whole(file) EXCEPT !.body = None]
      BY DEF Whole
    <3> HIDE DEF file
    <3> QED
      BY <1>0, <1>10, <3>1, <3>2 DEF Answers
  <2>2. request.kind = "range" => Within(request.range, file)
    BY <1>2, <1>8, RequestShape, FileOfFacts DEF Within
  <2>3. <<entry.root, request.name>> = <<Roots[FirstRoot(disk, request.name)], request.name>>
    BY DEF Current
  <2>4. PendingOK'
    <3>1. /\ pending'.request = request /\ pending'.result = result /\ pending'.disk = disk
          /\ pending'.file = <<Roots[FirstRoot(disk, request.name)], request.name>>
      BY <1>5, <1>10, <2>3
    <3>2. FileOf(disk', request.name) = file /\ FirstRoot(disk', request.name) # 0
      BY <1>2 DEF Present
    <3> HIDE DEF file
    <3> QED
      BY <1>2, <1>6, <2>1, <2>2, <3>1, <3>2 DEF PendingOK, Present
  <2>5. StaticIsFresh'
    BY <1>5, <1>10 DEF StaticIsFresh, FreshInv
  <2>6. copies' = [n \in Names |-> copies'[n]] /\ \A n \in Names : CopyOK(n)'
    BY <1>5, <1>10 DEF CopyOK, Present, FreshInv
  <2> QED
    BY <1>7, <2>4, <2>5, <2>6 DEF FreshStep
<1> QED
  BY <1>9, <1>10

\* What is remembered to exist does, and the entry that is made for it is up to date.
LEMMA LoadEntryFresh ==
  ASSUME DiskInv, TypeInv, FreshInv, odd = {}, odd' = odd, disk' = disk, pending = None,
         NEW request \in Requests, RangeFits(request), LoadEntry(request, request.name)
  PROVE  FreshStep /\ Names' = Names /\ \A f \in Files : KnownOK(f)'
<1> DEFINE name == request.name
<1>1. name \in Names
  BY RequestShape
<1>2. \A f \in Files : Exists(f) = (On(disk, f) # None)
  BY DEF FreshInv, KnownOK, Exists
<1>3. \A i \in 1..Len(Roots) : Exists(<<Roots[i], name>>) = (disk[Roots[i]][name] # None)
  BY <1>1, <1>2, RootsFacts DEF Files, On
<1>4. Names' = Names => \A f \in Files : KnownOK(f)'
  <2>1. PICK asked \in SUBSET Files :
            known' = [f \in Files |-> IF f \in asked THEN Exists(f) ELSE known[f]]
    BY <1>1, LoadEntryCases
  <2> QED
    BY <1>2, <2>1 DEF FreshInv, KnownOK
<1>5. CASE Refuse(request, 404) /\ \A i \in 1..Len(Roots) : ~Exists(<<Roots[i], name>>)
  <2>1. FirstRoot(disk, name) = 0
    BY <1>3, <1>5, FirstRootProps
  <2>2. Plain(404) \in Expected(request, FileOf(disk, name)) /\ Plain(404).modified = None
    BY <2>1 DEF FileOf, Expected, Plain
  <2>3. Receive(request, Plain(404), disk) /\ UNCHANGED <<cache, pending>>
    BY <1>5 DEF Refuse
  <2>4. Names' = Names /\ StaticIsFresh' /\ UNCHANGED copies
    <3>1. Names' = Names
      BY <2>3, SameNames
    <3>2. StaticIsFresh'
      BY <2>2, <2>3, Answered
    <3>3. UNCHANGED copies
      BY <2>2, <2>3 DEF Receive
    <3> QED
      BY <3>1, <3>2, <3>3
  <2>5. /\ copies' = [n \in Names |-> copies'[n]]
        /\ \A n \in Names : EntryOK(n)' /\ CopyOK(n)'
    BY <2>3, <2>4 DEF FreshInv, EntryOK, CopyOK, Present
  <2>6. PendingOK'
    BY <2>3 DEF PendingOK
  <2> QED
    BY <1>4, <2>4, <2>5, <2>6 DEF FreshStep
<1>6. ASSUME NEW i \in 1..Len(Roots), Exists(<<Roots[i], name>>),
             \A j \in 1..Len(Roots) : Exists(<<Roots[j], name>>) => i <= j
      PROVE  i = FirstRoot(disk, name) /\ Present(name) /\ On(disk, <<Roots[i], name>>) # None
  <2>1. disk[Roots[i]][name] # None /\ \A j \in 1..Len(Roots) : disk[Roots[j]][name] # None => i <= j
    BY <1>3, <1>6
  <2>2. PICK first : first = FirstRoot(disk, name)
    OBVIOUS
  <2>3. first \in 1..Len(Roots) /\ first <= i /\ i <= first
    BY <2>1, <2>2, FirstRootProps
  <2>4. first = i /\ first # 0
    BY <2>3, RootsFacts
  <2> QED
    BY <2>1, <2>2, <2>4 DEF Present, On
<1>7. CASE \E i \in 1..Len(Roots) :
              /\ Exists(<<Roots[i], name>>)
              /\ \A j \in 1..Len(Roots) : Exists(<<Roots[j], name>>) => i <= j
              /\ Respond(request, CacheEntry(Roots[i], name), name)
  <2>1. PICK i \in 1..Len(Roots) :
            /\ Exists(<<Roots[i], name>>)
            /\ \A j \in 1..Len(Roots) : Exists(<<Roots[j], name>>) => i <= j
            /\ Respond(request, CacheEntry(Roots[i], name), name)
    BY <1>7
  <2>2. i = FirstRoot(disk, name) /\ Present(name) /\ On(disk, <<Roots[i], name>>) # None
    BY <1>6, <2>1
  <2>3. PICK entry : entry = CacheEntry(Roots[i], name)
    OBVIOUS
  <2>4. FileOf(disk, name) = On(disk, <<Roots[i], name>>) /\ Roots[i] \in Root
    BY <1>1, <2>2, FileOfFacts
  <2>5. Current(name, entry)
    BY <1>1, <2>2, <2>3, <2>4, NewEntry DEF Current
  <2>6. cache = [n \in Names |-> cache[n]]
    BY DEF TypeInv
  <2>7. FreshStep
    BY <2>1, <2>3, <2>5, <2>6, RespondFresh
  <2>8. Names' = Names
    BY <2>1, SameNames DEF Respond, Names
  <2> QED
    BY <1>4, <2>7, <2>8
<1> HIDE DEF name
<1>8. \/ Refuse(request, 404) /\ \A i \in 1..Len(Roots) : ~Exists(<<Roots[i], name>>)
      \/ \E i \in 1..Len(Roots) :
            /\ Exists(<<Roots[i], name>>)
            /\ \A j \in 1..Len(Roots) : Exists(<<Roots[j], name>>) => i <= j
            /\ On(disk, <<Roots[i], name>>) # None => Respond(request, CacheEntry(Roots[i], name), name)
  BY <1>1, LoadEntryCases DEF name
<1> QED
  BY <1>5, <1>6, <1>7, <1>8

LEMMA HandleFresh ==
  ASSUME DiskInv, TypeInv, FreshInv, odd = {}, odd' = odd, disk' = disk, pending = None,
         NEW request \in Requests, RangeFits(request), Handle(request)
  PROVE  FreshStep /\ Names' = Names /\ \A f \in Files : KnownOK(f)'
<1> DEFINE name == request.name
<1>1. name \in Names /\ ExtractPath(<<Prefix>> \o name) = name
  BY RequestShape DEF FreshInv, PathsOK
<1>2. cache[name] # None => On(disk, <<cache[name].root, name>>) = FileOf(disk, name)
                            /\ FileOf(disk, name) # None /\ EntryOK(name)
  <2> SUFFICES ASSUME cache[name] # None
               PROVE  On(disk, <<cache[name].root, name>>) = FileOf(disk, name)
                      /\ FileOf(disk, name) # None /\ EntryOK(name)
    OBVIOUS
  <2>1. EntryOK(name)
    BY <1>1 DEF FreshInv
  <2>2. Present(name) /\ cache[name].root = Roots[FirstRoot(disk, name)]
    BY <2>1 DEF EntryOK
  <2> QED
    BY <1>1, <2>1, <2>2, FileOfFacts
<1>3. CASE LoadEntry(request, name)
  BY <1>3, LoadEntryFresh
<1>4. CASE /\ cache[name] # None /\ ~NeedsUpdate(name)
           /\ Respond(request, cache[name], name) /\ UNCHANGED <<known, cacheSize>>
  <2>1. cache[name].mtime = FileOf(disk, name).mtime
    BY <1>2, <1>4 DEF NeedsUpdate
  <2>2. Current(name, cache[name])
    BY <1>2, <1>4, <2>1 DEF EntryOK, Current, Dated
  <2>3. Names' = Names
    BY <1>4, SameNames DEF Respond, Names
  <2>4. \A f \in Files : KnownOK(f)'
    BY <1>4, <2>3 DEF FreshInv, KnownOK
  <2>5. cache = [n \in Names |-> cache[n]]
    BY DEF TypeInv
  <2>6. FreshStep
    BY <1>4, <2>2, <2>5, RespondFresh
  <2> QED
    BY <2>3, <2>4, <2>6
<1> QED
  BY <1>1, <1>2, <1>3, <1>4 DEF Handle

\* A streamed body is read from the file that was asked for.
LEMMA ReadBodyFresh ==
  ASSUME DiskInv, FreshInv, odd = {}, ReadBody
  PROVE  FreshStep /\ Names' = Names /\ \A f \in Files : KnownOK(f)'
<1> DEFINE request == pending.request
           file == FileOf(disk, request.name)
<1>1. PendingOK /\ pending # None
  BY DEF FreshInv, ReadBody
<1>2. /\ pending.disk = disk /\ request.name \in Names /\ Present(request.name)
      /\ pending.file = <<Roots[FirstRoot(disk, request.name)], request.name>>
  BY <1>1 DEF PendingOK
<1>3. file = On(disk, pending.file) /\ file # None /\ file.text \in Content /\ Len(file.text) \in Nat
  BY <1>2, FileOfFacts
<1>4. /\ UNCHANGED <<odd, disk, clock, known, cache, cacheSize>> /\ pending' = None
      /\ LET body == IF pending.result.status = 206 THEN RangeFile(file.text, request.range)
                     ELSE file.text
         IN  Receive(request, [pending.result EXCEPT !.body = body], disk)
  <2>1. PICK f : f = file /\ f = On(disk, pending.file) /\ f = On(pending.disk, pending.file) /\ f # None
    BY <1>2, <1>3
  <2>2. /\ UNCHANGED <<odd, disk, clock, known, cache, cacheSize>> /\ pending' = None
        /\ IF pending.result.status = 206
           THEN \E g \in {f, f} \ {None} :
                   Receive(request, [pending.result EXCEPT !.body = RangeFile(g.text, request.range)], pending.disk)
           ELSE Receive(request, [pending.result EXCEPT !.body = IF f = None THEN <<>> ELSE f.text], pending.disk)
    BY <2>1 DEF ReadBody
  <2> HIDE DEF request, file
  <2> QED
    BY <1>2, <2>1, <2>2
<1>5. PICK result :
          /\ Receive(request, result, disk) /\ result \in Expected(request, file)
          /\ \/ result.modified = None
             \/ result.modified = file.mtime /\ result.body = file.text
  <2>1. CASE request.kind \in {"get", "since", "etag"} /\ pending.result = [Whole(file) EXCEPT !.body = None]
    <3> HIDE DEF request, file
    <3>1. pending.result.status # 206 /\ [pending.result EXCEPT !.body = file.text] = Whole(file)
      <4>1. PICK text, mtime : text = file.text /\ mtime = file.mtime
        OBVIOUS
      <4>2. pending.result = [status |-> 200, modified |-> mtime, body |-> None, declared |-> Len(text)]
        BY <2>1, <4>1 DEF Whole
      <4>3. [pending.result EXCEPT !.body = text]
              = [status |-> 200, modified |-> mtime, body |-> text, declared |-> Len(text)]
        BY <4>2
      <4> QED
        BY <4>1, <4>2, <4>3 DEF Whole
    <3>2. Receive(request, Whole(file), disk)
      BY <1>4, <3>1
    <3>3. Whole(file).modified = file.mtime /\ Whole(file).body = file.text
      BY DEF Whole
    <3> QED
      BY <1>3, <2>1, <3>2, <3>3, ExpectedAnswers
  <2>2. CASE /\ request.kind = "range"
             /\ Within(request.range, file)
             /\ pending.result = [Plain(206) EXCEPT !.body = None,
                                      !.declared = request.range.end - request.range.start]
    <3> HIDE DEF request, file
    <3>1. PICK start, end : start = request.range.start /\ end = request.range.end
      OBVIOUS
    <3>2. start \in Nat /\ end \in Nat /\ start <= end /\ end <= Len(file.text)
      BY <2>2, <3>1 DEF Within
    <3>3. Min({end, Len(file.text)}) = end
      BY <1>3, <3>2 DEF Min
    <3>4. PICK body : body = SubSeq(file.text, start + 1, end)
      OBVIOUS
    <3>5. Len(body) = end - start
      <4>1. PICK text : text = file.text
        OBVIOUS
      <4>2. body = SubSeq(text, start + 1, end) /\ text \in Seq(Nat)
        BY <1>3, <3>4, <4>1 DEF Content
      <4>3. Len(body) = IF start + 1 <= end THEN end - (start + 1) + 1 ELSE 0
        BY <1>3, <3>2, <4>1, <4>2, SubSeqProperties
      <4> QED
        BY <3>2, <4>3
    <3>6. pending.result.status = 206
      BY <2>2 DEF Plain
    <3>7. Receive(request, [pending.result EXCEPT !.body = body], disk)
      <4>1. RangeFile(file.text, request.range)
              = SubSeq(file.text, start + 1,
                       IF end < start THEN Len(file.text) ELSE Min({end, Len(file.text)}))
        BY <3>1 DEF RangeFile
      <4>2. (IF end < start THEN Len(file.text) ELSE Min({end, Len(file.text)})) = end
        BY <3>2, <3>3
      <4>3. RangeFile(file.text, request.range) = body
        BY <3>4, <4>1, <4>2
      <4> QED
        BY <1>4, <3>6, <4>3
    <3>8. [pending.result EXCEPT !.body = body] = Part(file, start, end)
      <4>1. pending.result = [Plain(206) EXCEPT !.body = None, !.declared = end - start]
        BY <2>2, <3>1
      <4>2. Part(file, start, end) = [Plain(206) EXCEPT !.body = body, !.declared = end - start]
        BY <3>4 DEF Part
      <4>3. PICK n : n = end - start
        OBVIOUS
      <4>4. ASSUME NEW x
            PROVE  [Plain(206) EXCEPT !.body = x, !.declared = n]
                      = [status |-> 206, declared |-> n, modified |-> None, body |-> x]
        <5>1. PICK p : p = Plain(206)
          OBVIOUS
        <5>2. p = [status |-> 206, declared |-> 0, modified |-> None, body |-> <<>>]
          BY <5>1 DEF Plain
        <5>3. PICK r : r = [p EXCEPT !.body = x]
          OBVIOUS
        <5>4. r = [status |-> 206, declared |-> 0, modified |-> None, body |-> x]
          BY <5>2, <5>3
        <5>5. [r EXCEPT !.declared = n] = [status |-> 206, declared |-> n, modified |-> None, body |-> x]
          BY <5>4
        <5> QED
          BY <5>1, <5>3, <5>5
      <4>5. PICK result : result = pending.result
        OBVIOUS
      <4>6. result = [status |-> 206, declared |-> n, modified |-> None, body |-> None]
        BY <4>1, <4>3, <4>4, <4>5
      <4>7. [result EXCEPT !.body = body] = [status |-> 206, declared |-> n, modified |-> None, body |-> body]
        BY <4>6
      <4>8. Part(file, start, end) = [status |-> 206, declared |-> n, modified |-> None, body |-> body]
        BY <4>2, <4>3, <4>4
      <4> QED
        BY <4>5, <4>7, <4>8
    <3>9. Part(file, start, end).modified = None
      BY DEF Part, Plain
    <3> QED
      BY <1>3, <2>2, <3>1, <3>7, <3>8, <3>9, ExpectedAnswers
  <2> QED
    BY <1>1, <2>1, <2>2 DEF PendingOK
<1>6. Names' = Names /\ StaticIsFresh'
  BY <1>5, SameNames, Answered
<1>7. \A n \in Names : CopyOK(n)'
  BY <1>2, <1>4, <1>5, CopyKept DEF FreshInv
<1>8. copies' = [n \in Names |-> copies'[n]]
  BY <1>5 DEF Receive, FreshInv
<1>9. /\ \A n \in Names : EntryOK(n)'
      /\ \A f \in Files : KnownOK(f)'
      /\ PendingOK'
  BY <1>4 DEF FreshInv, EntryOK, KnownOK, PendingOK, Present
<1> QED
  BY <1>6, <1>7, <1>8, <1>9 DEF FreshStep

\* An edit is later than whatever there is.
LEMMA EditFresh ==
  ASSUME DiskInv, TypeInv, FreshInv, odd = {}, NEW root \in Root, NEW name \in Names, NEW file \in Edits,
         Edit(root, name, file)
  PROVE  FreshStep /\ Names' = Names /\ \A f \in Files : KnownOK(f)'
<1>1. /\ pending = None /\ disk[root][name] # None /\ file # None
      /\ UNCHANGED <<odd, known, cache, cacheSize, pending, copies, answer>>
  BY DEF Edit
<1>2. file.mtime = clock + 1 /\ clock \in Nat
  <2>1. MTimes = {clock + 1}
    BY DEF MTimes
  <2> QED
    BY <1>1, <2>1 DEF Edits, TypeInv, StaticType
<1>3. \A r \in Root, n \in Names : disk'[r][n] = IF r = root /\ n = name THEN file ELSE disk[r][n]
  BY EditDisk
<1>4. \A r \in Root, n \in Names : (disk'[r][n] # None) = (disk[r][n] # None)
  BY <1>1, <1>3
<1>5. Names' = Names /\ \A f \in Files : KnownOK(f)'
  BY <1>1, <1>4 DEF Names, Files, On, KnownOK, FreshInv
<1>6. \A n \in Names : FirstRoot(disk', n) = FirstRoot(disk, n)
  BY <1>4, RootsFacts, FirstRootSame
<1>7. ASSUME NEW n \in Names, Present(n)
      PROVE  \/ FileOf(disk', n) = FileOf(disk, n)
             \/ FileOf(disk', n) = file /\ FileOf(disk, n).mtime < file.mtime
  <2>1. PICK first : first = FirstRoot(disk, n)
    OBVIOUS
  <2>2. /\ first # 0 /\ Roots[first] \in Root /\ FileOf(disk, n) = disk[Roots[first]][n]
        /\ FileOf(disk, n).mtime \in Nat /\ FileOf(disk, n).mtime <= clock
    BY <1>7, <2>1, FileOfFacts DEF On, Present
  <2>3. FileOf(disk', n) = disk'[Roots[first]][n]
    BY <1>6, <2>1, <2>2 DEF FileOf, On
  <2>4. CASE Roots[first] = root /\ n = name
    BY <1>2, <1>3, <2>2, <2>3, <2>4
  <2>5. CASE ~(Roots[first] = root /\ n = name)
    BY <1>3, <2>2, <2>3, <2>5
  <2> QED
    BY <2>4, <2>5
<1>8. ASSUME NEW n \in Names, Present(n), NEW mtime, NEW text, Dated(mtime, text, FileOf(disk, n))
      PROVE  /\ Dated(mtime, text, FileOf(disk', n))
             /\ mtime = FileOf(disk', n).mtime =>
                   FileOf(disk', n) = FileOf(disk, n) /\ mtime = FileOf(disk, n).mtime
  <2>1. CASE FileOf(disk', n) = FileOf(disk, n)
    BY <1>8, <2>1
  <2>2. CASE FileOf(disk', n) = file /\ FileOf(disk, n).mtime < file.mtime
    <3>1. PICK t : t = FileOf(disk, n).mtime
      OBVIOUS
    <3>2. t \in Nat /\ mtime \in Nat /\ mtime <= t /\ t < clock + 1 /\ file.mtime = clock + 1
      BY <1>2, <1>8, <2>2, <3>1, FileOfFacts DEF Dated
    <3>3. mtime <= file.mtime /\ mtime # file.mtime
      BY <1>2, <3>2
    <3> QED
      BY <2>2, <3>2, <3>3 DEF Dated
  <2> QED
    BY <1>7, <1>8, <2>1, <2>2
<1>9. \A n \in Names : CopyOK(n)'
  <2> SUFFICES ASSUME NEW n \in Names, copies[n] # None
               PROVE  FirstRoot(disk', n) # 0
                      /\ Dated(copies[n].mtime, copies[n].text, FileOf(disk', n))
    BY <1>1 DEF CopyOK, Present
  <2>1. Present(n) /\ Dated(copies[n].mtime, copies[n].text, FileOf(disk, n))
    BY DEF FreshInv, CopyOK
  <2> QED
    BY <1>6, <1>8, <2>1 DEF Present
<1>10. \A n \in Names : EntryOK(n)'
  <2> SUFFICES ASSUME NEW n \in Names, cache[n] # None
               PROVE  EntryOK(n)'
    BY <1>1 DEF EntryOK
  <2>1. PICK entry : entry = cache[n]
    OBVIOUS
  <2>2. /\ Present(n) /\ entry.root = Roots[FirstRoot(disk, n)]
        /\ Dated(entry.mtime, entry.etag, FileOf(disk, n))
        /\ entry.mtime = FileOf(disk, n).mtime =>
              /\ entry.declared = Len(FileOf(disk, n).text)
              /\ entry.held \in {None, FileOf(disk, n).text}
    BY <2>1 DEF FreshInv, EntryOK
  <2>3. /\ Dated(entry.mtime, entry.etag, FileOf(disk', n))
        /\ entry.mtime = FileOf(disk', n).mtime =>
              FileOf(disk', n) = FileOf(disk, n) /\ entry.mtime = FileOf(disk, n).mtime
    BY <1>8, <2>2
  <2>4. FirstRoot(disk', n) = FirstRoot(disk, n) /\ cache'[n] = entry
    BY <1>1, <1>6, <2>1
  <2> QED
    BY <2>2, <2>3, <2>4 DEF EntryOK, Present
<1>11. PendingOK' /\ StaticIsFresh' /\ copies' = [n \in Names |-> copies'[n]]
  BY <1>1 DEF PendingOK, StaticIsFresh, FreshInv
<1> QED
  BY <1>5, <1>9, <1>10, <1>11 DEF FreshStep

LEMMA StepFresh ==
  ASSUME DiskInv, TypeInv, BytesInv, FreshInv, [StaticNext]_staticVars
  PROVE  FreshInv'
<1> SUFFICES ASSUME odd' = {}
             PROVE  FreshInv'
  BY DEF FreshInv
<1>1. odd = {} /\ odd' = odd
  BY DEF StaticNext, Request, ReadBody, Edit, staticVars
<1>2. CASE FreshStep /\ Names' = Names /\ \A f \in Files : KnownOK(f)'
  <2>1. PathsOK' /\ Files' = Files
    BY <1>1, <1>2 DEF FreshInv, PathsOK, Files
  <2> QED
    BY <1>2, <2>1 DEF FreshInv, FreshStep
<1>3. CASE Request
  BY <1>1, <1>2, <1>3, HandleFresh DEF Request
<1>4. CASE ReadBody
  BY <1>1, <1>2, <1>4, ReadBodyFresh
<1>5. CASE \E root \in Root, name \in Names, file \in Edits : Edit(root, name, file)
  BY <1>1, <1>2, <1>5, EditFresh
<1>6. CASE UNCHANGED staticVars
  BY <1>1, <1>6
  DEF staticVars, FreshInv, PathsOK, Names, Files, KnownOK, EntryOK, CopyOK, PendingOK, Present, StaticIsFresh
<1> QED
  BY <1>3, <1>4, <1>5, <1>6 DEF StaticNext

LEMMA InitFresh == StaticInit => FreshInv
<1> SUFFICES ASSUME StaticInit, odd = {}
             PROVE  FreshInv
  BY DEF FreshInv
<1>1. PICK site \in Sites : odd = site.odd /\ disk = site.disk /\ NewHandler
  BY DEF StaticInit
<1>2. /\ Names = NamesOf(disk) /\ cache = [n \in Names |-> None] /\ copies = cache
      /\ known = [f \in Files |-> None] /\ pending = None /\ answer = None
  BY <1>1 DEF NewHandler, Names, Files
<1>3. PathsOK
  BY <1>1, <1>2, SitesAssumption DEF PathsOK
<1> QED
  BY <1>2, <1>3 DEF FreshInv, KnownOK, EntryOK, CopyOK, PendingOK, StaticIsFresh

(***************************************************************************)
(* Whatever is edited, cached, remembered or streamed: where nothing is    *)
(* odd, an answer of StaticHandler is the file as it was when it was asked *)
(* for, or that the client's copy still is; of a range inside the file, as *)
(* many of its bytes from start on as are declared, which need not be all. *)
(* And always the contents held in memory fit into max_cache_size.         *)
(***************************************************************************)
THEOREM Sound == StaticSpec => []StaticIsSound
<1> DEFINE All == DiskInv /\ TypeInv /\ BytesInv /\ FreshInv
<1>1. StaticInit => All
  BY InitType, InitFresh
<1>2. All /\ [StaticNext]_staticVars => All'
  BY StepType, StepFresh DEF DiskStep
<1>3. All => StaticIsSound
  <2> SUFFICES ASSUME DiskInv, TypeInv, BytesInv, FreshInv
               PROVE  StaticIsSound
    OBVIOUS
  <2>1. Cardinality(HeldBytes) \in Nat /\ Cardinality(HeldBytes) <= cacheSize /\ cacheSize <= MaxCacheSize
    BY FS_CardinalityType DEF BytesInv, TypeInv, StaticType
  <2>2. CacheIsBounded
    BY <2>1, BoundsAssumption DEF CacheIsBounded, TypeInv, StaticType
  <2> QED
    BY <2>2 DEF StaticIsSound, FreshInv, StaticIsFresh
<1> QED
  BY <1>1, <1>2, <1>3, PTL DEF StaticSpec
=============================================================================
