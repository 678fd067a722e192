------------------------- MODULE ApplicationProofs -------------------------
(*************************************************************************)
(* Theorems about Application, for any blueprints, any programs, any order  *)
(* of their declarations, any number of requests and any size of the cache  *)
(* of routes:                                                             *)
(*                                                                        *)
(*   Types             the type invariant                                 *)
(*   HooksCalled       a page passes each hook declared for it once       *)
(*   ErrorsCaught      an exception finds the nearest and most specific   *)
(*                     handler                                            *)
(*   RightRouteFound   a request is given to a route declared for it       *)
(*   Frozen            what requests are routed by does not change any    *)
(*                     more once there is a connection                    *)
(*   LruKeepsItsSize   the queue and the values of the LRUCache agree, so  *)
(*                     that set finds the key that has to go              *)
(*   Transparency      until the cache is full, it answers as a search    *)
(*                     would                                              *)
(*                                                                        *)
(* What a cached route was found by is the table of that time.  It still  *)
(* is the table, because whoever declares, mounts or initializes does so  *)
(* before the application is initialized, and whoever asks does so after:  *)
(* StartInv.  TypeInv has the types, and with TreeInv that blueprints are  *)
(* nested like a tree, so that what recurses along it ends; HomeInv says  *)
(* where each declared hook is, until and after its blueprint is mounted;  *)
(* KeptInv where each declared handler is, and that those of the          *)
(* application are sorted once it is initialized; RoutesInv what each     *)
(* blueprint has of its routes and mounts, TablesInv that the tables hold  *)
(* routes made from these only, and all of them once it is initialized.   *)
(*************************************************************************)
EXTENDS Application, FiniteSetTheorems, WellFoundedInduction, SequenceTheorems, TLAPS

\* Nothing is asked before the application is initialized, and nothing is
\* cached before anything is asked.
StartInv ==
    /\ conn.made \in BOOLEAN /\ initialized \in BOOLEAN
    /\ conn.made => initialized
    /\ ~conn.made => cache = EmptyCache

-----------------------------------------------------------------------------
(* Recursion over numbers and sequences.                                   *)

LEMMA Least ==
  ASSUME NEW I \in SUBSET (Nat \ {0}), I # {}
  PROVE  \E m \in I : \A i \in I : m <= i
<1> DEFINE Below == {1..i : i \in I}
<1>1. \A i \in I : 1..i \subseteq Nat /\ IsFiniteSet(1..i)
  BY FS_Interval
<1>2. Below \subseteq FiniteSubsetsOf(Nat) /\ Below # {}
  BY <1>1 DEF FiniteSubsetsOf
<1>3. PICK x \in Below : \A y \in Below : ~(<<y, x>> \in StrictSubsetOrdering(Nat))
  <2> HIDE DEF Below
  <2> QED
    BY <1>2, FS_StrictSubsetOrderingWellFounded, WFMin
<1>4. PICK m \in I : x = 1..m
  OBVIOUS
<1>5. ASSUME NEW i \in I, i < m
      PROVE  FALSE
  <2>1. 1..i \subseteq 1..m /\ 1..i # 1..m
    BY <1>5
  <2>2. <<1..i, 1..m>> \in StrictSubsetOrdering(Nat)
    BY <2>1 DEF StrictSubsetOrdering
  <2> QED
    BY <1>3, <1>4, <2>2
<1> QED
  BY <1>5

\* Induction over the numbers, for a set of them.
LEMMA Induction ==
  ASSUME NEW S, 0 \in S, \A n \in Nat : n \in S => n + 1 \in S
  PROVE  Nat \subseteq S
<1> DEFINE Out == {n \in Nat \ {0} : n \notin S}
<1> SUFFICES ASSUME Out # {} PROVE FALSE
  OBVIOUS
<1>1. PICK m \in Out : \A i \in Out : m <= i
  <2> HIDE DEF Out
  <2>1. Out \in SUBSET (Nat \ {0})
    BY DEF Out
  <2> QED
    BY <2>1, Least
<1>2. m - 1 \in Nat /\ m - 1 \notin Out
  BY <1>1
<1>3. m - 1 \in S
  BY <1>2
<1> QED
  BY <1>2, <1>3

\* Induction up to a number.
LEMMA InductionUpTo ==
  ASSUME NEW n \in Nat, NEW S, 0 \in S, \A i \in 1..n : i - 1 \in S => i \in S
  PROVE  0..n \subseteq S
<1> DEFINE T == S \cup {i \in Nat : i > n}
<1>1. 0 \in T
  OBVIOUS
<1>2. ASSUME NEW i \in Nat, i \in T PROVE i + 1 \in T
  <2>1. CASE i >= n
    BY <2>1
  <2>2. CASE i < n
    <3>1. i + 1 \in 1..n /\ (i + 1) - 1 = i /\ i \in S
      BY <1>2, <2>2
    <3> QED
      BY <3>1
  <2> QED
    BY <2>1, <2>2
<1>3. Nat \subseteq T
  <2> HIDE DEF T
  <2> QED
    BY <1>1, <1>2, Induction
<1> QED
  BY <1>3

\* f starts with base and takes a step for each number up to n.
Recurs(f, n, base, step) == f[0] = base /\ \A i \in 1..n : f[i] = step[i][f[i - 1]]

\* The same for the recursion of the folds, over the sets of numbers up to n.
Folds(f, n, base, step) ==
    /\ f[{}] = base
    /\ \A s \in SUBSET (1..n) : s # {} =>
          \A m \in s : (\A i \in s : i <= m) => f[s] = step[m][f[s \ {m}]]

\* A function defined by recursion over 0..n exists, and has the type its
\* steps keep.
LEMMA Recursion ==
  ASSUME NEW n \in Nat, NEW D, NEW base \in D, NEW step \in [1..n -> [D -> D]]
  PROVE  \E f \in [0..n -> D] : Recurs(f, n, base, step)
<1> DEFINE Good(m, f) == f[0] = base /\ \A i \in 1..m : f[i] = step[i][f[i - 1]]
           S == {m \in 0..n : \E f \in [0..m -> D] : Good(m, f)}
<1>1. 0 \in S
  <2>1. [i \in 0..0 |-> base] \in [0..0 -> D] /\ Good(0, [i \in 0..0 |-> base])
    OBVIOUS
  <2> HIDE DEF Good
  <2>2. \E f \in [0..0 -> D] : Good(0, f)
    BY <2>1
  <2> QED
    BY <2>2
<1>2. ASSUME NEW m \in 1..n, m - 1 \in S PROVE m \in S
  <2>1. PICK f \in [0..m - 1 -> D] : Good(m - 1, f)
    BY <1>2
  <2> DEFINE g == [i \in 0..m |-> IF i = m THEN step[m][f[m - 1]] ELSE f[i]]
  <2>2. f[m - 1] \in D /\ step[m] \in [D -> D]
    BY <1>2, <2>1
  <2>3. step[m][f[m - 1]] \in D
    BY <2>2
  <2>4. g \in [0..m -> D]
    <3>1. \A i \in 0..m : i # m => i \in 0..m - 1
      OBVIOUS
    <3> QED
      BY <2>1, <2>3, <3>1
  <2>5. Good(m, g)
    <3>1. g[0] = base
      BY <2>1
    <3>2. ASSUME NEW i \in 1..m PROVE g[i] = step[i][g[i - 1]]
      <4>1. i - 1 \in 0..m /\ i - 1 # m /\ i \in 0..m
        OBVIOUS
      <4>2. g[i - 1] = f[i - 1]
        BY <4>1
      <4>3. CASE i = m
        BY <4>1, <4>2, <4>3
      <4>4. CASE i # m
        <5>1. i \in 1..m - 1
          BY <4>4
        <5>2. f[i] = step[i][f[i - 1]]
          BY <2>1, <5>1
        <5> QED
          BY <4>1, <4>2, <4>4, <5>2
      <4> QED
        BY <4>3, <4>4
    <3> QED
      BY <3>1, <3>2
  <2> HIDE DEF Good, g
  <2>6. \E h \in [0..m -> D] : Good(m, h)
    BY <2>4, <2>5
  <2> QED
    BY <2>6
<1>3. 0..n \subseteq S
  <2> HIDE DEF S
  <2> QED
    BY <1>1, <1>2, InductionUpTo
<1>4. \E f \in [0..n -> D] : Good(n, f)
  <2> HIDE DEF Good
  <2>1. n \in 0..n
    OBVIOUS
  <2>2. n \in S
    <3> HIDE DEF S
    <3> QED
      BY <1>3, <2>1
  <2> QED
    BY <2>2, Zenon
<1> QED
  BY <1>4, Zenon DEF Recurs

\* So does a fold.
LEMMA FoldRecursion ==
  ASSUME NEW n \in Nat, NEW D, NEW base \in D, NEW step \in [1..n -> [D -> D]]
  PROVE  \E f \in [SUBSET (1..n) -> D] : Folds(f, n, base, step)
<1> DEFINE Good(k, f) == /\ f[{}] = base
                         /\ \A s \in SUBSET (1..k) : s # {} =>
                               \A m \in s : (\A i \in s : i <= m) => f[s] = step[m][f[s \ {m}]]
           S == {k \in 0..n : \E f \in [SUBSET (1..k) -> D] : Good(k, f)}
<1>1. 0 \in S
  <2> DEFINE f == [s \in SUBSET (1..0) |-> base]
  <2>1. 1..0 = {}
    OBVIOUS
  <2>2. f \in [SUBSET (1..0) -> D] /\ f[{}] = base
    BY <2>1
  <2>3. Good(0, f)
    BY <2>1, <2>2
  <2> HIDE DEF Good, f
  <2>4. \E h \in [SUBSET (1..0) -> D] : Good(0, h)
    BY <2>2, <2>3
  <2>5. 0 \in 0..n
    OBVIOUS
  <2> QED
    BY <2>4, <2>5, Zenon
<1>2. ASSUME NEW k \in 1..n, k - 1 \in S PROVE k \in S
  <2>1. PICK f \in [SUBSET (1..k - 1) -> D] : Good(k - 1, f)
    BY <1>2
  <2> DEFINE g == [s \in SUBSET (1..k) |-> IF k \in s THEN step[k][f[s \ {k}]] ELSE f[s]]
  <2>2. ASSUME NEW s \in SUBSET (1..k)
        PROVE  s \ {k} \in SUBSET (1..k - 1) /\ (k \notin s => s \in SUBSET (1..k - 1))
    OBVIOUS
  <2>3. ASSUME NEW s \in SUBSET (1..k)
        PROVE  g[s] \in D
    <3>1. CASE k \in s
      <4>1. f[s \ {k}] \in D
        BY <2>1, <2>2
      <4>2. step[k] \in [D -> D]
        BY <4>1
      <4>3. step[k][f[s \ {k}]] \in D
        BY <4>2
      <4> QED
        BY <3>1, <4>3
    <3>2. CASE k \notin s
      BY <2>1, <2>2, <3>2
    <3> QED
      BY <3>1, <3>2
  <2>4. g \in [SUBSET (1..k) -> D]
    <3>1. g = [s \in SUBSET (1..k) |-> g[s]]
      OBVIOUS
    <3> HIDE DEF g
    <3> QED
      BY <2>3, <3>1
  <2>5. g[{}] = base
    <3>1. {} \in SUBSET (1..k)
      OBVIOUS
    <3> QED
      BY <2>1, <3>1
  <2>6. ASSUME NEW s \in SUBSET (1..k), NEW m \in s, \A i \in s : i <= m
        PROVE  g[s] = step[m][g[s \ {m}]]
    <3>1. CASE k \in s
      <4>1. m = k
        BY <2>6, <3>1
      <4>2. s \ {m} \in SUBSET (1..k) /\ k \notin s \ {m}
        BY <4>1
      <4>3. g[s \ {m}] = f[s \ {k}]
        BY <4>1, <4>2
      <4> QED
        BY <3>1, <4>1, <4>3
    <3>2. CASE k \notin s
      <4>1. s \in SUBSET (1..k - 1) /\ s # {} /\ s \ {m} \in SUBSET (1..k) /\ k \notin s \ {m}
        BY <2>2, <3>2
      <4>2. f[s] = step[m][f[s \ {m}]]
        BY <2>1, <2>6, <4>1
      <4> QED
        BY <3>2, <4>1, <4>2
    <3> QED
      BY <3>1, <3>2
  <2>7. Good(k, g)
    <3> HIDE DEF g
    <3> QED
      BY <2>5, <2>6
  <2> HIDE DEF Good, g
  <2>8. \E h \in [SUBSET (1..k) -> D] : Good(k, h)
    BY <2>4, <2>7
  <2> QED
    BY <2>8
<1>3. 0..n \subseteq S
  <2> HIDE DEF S
  <2> QED
    BY <1>1, <1>2, InductionUpTo
<1>4. \E f \in [SUBSET (1..n) -> D] : Good(n, f)
  <2> HIDE DEF Good
  <2>1. n \in 0..n
    OBVIOUS
  <2>2. n \in S
    <3> HIDE DEF S
    <3> QED
      BY <1>3, <2>1
  <2> QED
    BY <2>2, Zenon
<1> QED
  BY <1>4, Zenon DEF Folds

\* The greatest of some numbers.
LEMMA Greatest ==
  ASSUME NEW n \in Nat, NEW s \in SUBSET (1..n), s # {}
  PROVE  Max(s) \in s /\ \A i \in s : i <= Max(s)
<1> DEFINE I == {n + 1 - i : i \in s}
<1>1. PICK m \in I : \A i \in I : m <= i
  <2>1. PICK j \in s : TRUE
    OBVIOUS
  <2>2. I \in SUBSET (Nat \ {0}) /\ n + 1 - j \in I
    OBVIOUS
  <2> HIDE DEF I
  <2> QED
    BY <2>2, Least
<1>2. PICK k \in s : m = n + 1 - k
  OBVIOUS
<1>3. \A i \in s : k >= i
  <2> SUFFICES ASSUME NEW i \in s PROVE k >= i
    OBVIOUS
  <2>1. m <= n + 1 - i
    BY <1>1
  <2> QED
    BY <1>2, <2>1
<1>4. Max(s) \in s /\ \A i \in s : Max(s) >= i
  <2> HIDE DEF I
  <2> QED
    BY <1>3, Zenon DEF Max
<1>5. \A i \in s : i \in Int
  OBVIOUS
<1> QED
  BY <1>4, <1>5

LEMMA GreatestUpTo ==
  ASSUME NEW k \in Nat \ {0}
  PROVE  1..k # {} /\ Max(1..k) = k /\ (1..k) \ {Max(1..k)} = 1..k - 1
<1>1. 1..k # {} /\ k \in 1..k /\ \A i \in 1..k : i <= k
  OBVIOUS
<1>2. Max(1..k) \in 1..k /\ \A i \in 1..k : i <= Max(1..k)
  BY <1>1, Greatest
<1>3. Max(1..k) = k
  BY <1>1, <1>2
<1>4. (1..k) \ {k} = 1..k - 1
  OBVIOUS
<1> QED
  BY <1>1, <1>3, <1>4

\* f, over sets of numbers, takes one more number at a time.
Climbs(f, n, D, base, step) ==
    /\ n \in Nat /\ base \in D /\ step \in [1..n -> [D -> D]]
    /\ f[{}] = base /\ \A k \in 1..n : f[1..k - 1] \in D => f[1..k] = step[k][f[1..k - 1]]

\* What a fold reaches step by step.
LEMMA FoldSteps ==
  ASSUME NEW n, NEW D, NEW base, NEW step, NEW f, Climbs(f, n, D, base, step)
  PROVE  \E h \in [0..n -> D] : Recurs(h, n, base, step) /\ h[n] = f[1..n]
<1> DEFINE h == [k \in 0..n |-> f[1..k]]
           S == {k \in 0..n : f[1..k] \in D}
<1>0. /\ n \in Nat /\ base \in D /\ step \in [1..n -> [D -> D]]
      /\ f[{}] = base
      /\ \A k \in 1..n : f[1..k - 1] \in D => f[1..k] = step[k][f[1..k - 1]]
  BY DEF Climbs
<1>1. f[1..0] = base
  <2>1. 1..0 = {}
    OBVIOUS
  <2> QED
    BY <1>0, <2>1
<1>2. 0 \in S
  BY <1>0, <1>1
<1>3. ASSUME NEW k \in 1..n, k - 1 \in S PROVE k \in S
  <2>1. f[1..k - 1] \in D /\ step[k] \in [D -> D] /\ k \in 0..n
    BY <1>0, <1>3
  <2>2. f[1..k] \in D
    BY <1>0, <2>1
  <2> QED
    BY <2>1, <2>2
<1>4. 0..n \subseteq S
  <2> HIDE DEF S
  <2> QED
    BY <1>0, <1>2, <1>3, InductionUpTo
<1>5. h \in [0..n -> D]
  BY <1>4
<1>6. h[0] = base
  BY <1>0, <1>1
<1>7. ASSUME NEW k \in 1..n PROVE h[k] = step[k][h[k - 1]]
  <2>1. k - 1 \in 0..n /\ k \in 0..n
    BY <1>0
  <2>2. f[1..k - 1] \in D
    BY <1>4, <2>1
  <2> QED
    BY <1>0, <2>1, <2>2
<1>8. h[n] = f[1..n]
  BY <1>0
<1> HIDE DEF h
<1>9. Recurs(h, n, base, step)
  BY <1>6, <1>7, Zenon DEF Recurs
<1> QED
  BY <1>5, <1>8, <1>9

\* Concatenation is associative.
Regroups(A) == \A p, q, r \in Seq(A) : (p \o q) \o r = p \o (q \o r) /\ q \o r \in Seq(A)

LEMMA Regrouped ==
  ASSUME NEW A
  PROVE  Regroups(A)
<1> SUFFICES ASSUME NEW p \in Seq(A), NEW q \in Seq(A), NEW r \in Seq(A)
             PROVE  (p \o q) \o r = p \o (q \o r) /\ q \o r \in Seq(A)
  BY DEF Regroups
<1>1. (p \o q) \o r = p \o (q \o r)
  BY ConcatAssociative
<1>2. q \o r \in Seq(A)
  BY ConcatProperties
<1> QED
  BY <1>1, <1>2

\* The elements of a concatenation.
LEMMA ConcatElements ==
  ASSUME NEW A, NEW s \in Seq(A), NEW t \in Seq(A)
  PROVE  /\ s \o t \in Seq(A) /\ ToSet(s \o t) = ToSet(s) \cup ToSet(t)
         /\ IsInjective(s) /\ IsInjective(t) /\ ToSet(s) \cap ToSet(t) = {} => IsInjective(s \o t)
<1> DEFINE u == s \o t
           k == Len(s)
           l == Len(t)
<1>1. k \in Nat /\ l \in Nat /\ DOMAIN s = 1..k /\ DOMAIN t = 1..l
  BY LenProperties
<1>2. /\ u \in Seq(A) /\ Len(u) = k + l /\ DOMAIN u = 1..k + l
      /\ \A i \in 1..k : u[i] = s[i]
      /\ \A i \in 1..l : u[k + i] = t[i]
  <2>1. u \in Seq(A) /\ Len(u) = k + l /\ DOMAIN u = 1..k + l
    BY ConcatProperties, LenProperties
  <2>2. \A i \in 1..k : u[i] = s[i]
    BY <1>1, <2>1
  <2>3. \A i \in 1..l : u[k + i] = t[i]
    BY <1>1, <2>1
  <2> QED
    BY <2>1, <2>2, <2>3
<1> HIDE DEF u, k, l
<1>3. \A i \in 1..k + l : i \in 1..k \/ \E j \in 1..l : i = k + j
  <2>1. \A i \in 1..k + l : i \in 1..k \/ (i - k \in 1..l /\ i = k + (i - k))
    BY <1>1
  <2> QED
    BY <2>1
<1>4. \A i \in 1..k : i \in 1..k + l
  BY <1>1
<1>5. \A i \in 1..l : k + i \in 1..k + l
  BY <1>1
<1>6. ToSet(u) = ToSet(s) \cup ToSet(t)
  <2>1. ASSUME NEW i \in 1..k + l PROVE u[i] \in ToSet(s) \cup ToSet(t)
    <3>1. CASE i \in 1..k
      BY <1>1, <1>2, <3>1 DEF ToSet
    <3>2. ASSUME NEW j \in 1..l, i = k + j PROVE u[i] \in ToSet(t)
      BY <1>1, <1>2, <3>2 DEF ToSet
    <3> QED
      BY <1>3, <3>1, <3>2
  <2>2. ASSUME NEW i \in 1..k PROVE s[i] \in ToSet(u)
    BY <1>2, <1>4 DEF ToSet
  <2>3. ASSUME NEW i \in 1..l PROVE t[i] \in ToSet(u)
    BY <1>2, <1>5 DEF ToSet
  <2> QED
    BY <1>1, <1>2, <2>1, <2>2, <2>3 DEF ToSet
<1>7. ASSUME IsInjective(s), IsInjective(t), ToSet(s) \cap ToSet(t) = {} PROVE IsInjective(u)
  <2> SUFFICES ASSUME NEW i \in 1..k + l, NEW j \in 1..k + l, u[i] = u[j] PROVE i = j
    BY <1>2 DEF IsInjective
  <2>1. CASE i \in 1..k /\ j \in 1..k
    BY <1>1, <1>2, <1>7, <2>1 DEF IsInjective
  <2>2. ASSUME NEW p \in 1..k, NEW q \in 1..l, u[p] = u[k + q] PROVE FALSE
    BY <1>1, <1>2, <1>7, <2>2 DEF ToSet
  <2>3. ASSUME NEW p \in 1..l, NEW q \in 1..l, u[k + p] = u[k + q] PROVE p = q
    <3>1. t[p] = t[q]
      BY <1>2, <2>3
    <3> QED
      BY <1>1, <1>7, <3>1 DEF IsInjective
  <2> QED
    BY <1>3, <2>1, <2>2, <2>3
<1> QED
  BY <1>2, <1>6, <1>7 DEF u

\* Those goes through a sequence from its first element to its last.
OneOf(s, S, i) == IF s[i] \in S THEN <<s[i]>> ELSE <<>>
Picks(f, s, S) ==
    /\ f[0] = <<>> /\ f[Len(s)] = Those(s, S)
    /\ \A i \in 1..Len(s) : f[i] = f[i - 1] \o OneOf(s, S, i)

LEMMA ThoseSteps ==
  ASSUME NEW A, NEW s \in Seq(A), NEW S
  PROVE  \E f \in [0..Len(s) -> Seq(A)] : Picks(f, s, S)
<1> DEFINE n == Len(s)
           T == Seq(A)
           base == <<>>
           one(i) == IF s[i] \in S THEN <<s[i]>> ELSE <<>>
           step == [i \in 1..n |-> [t \in T |-> t \o one(i)]]
           Is(f) == f = [i \in 0..n |-> IF i = 0 THEN <<>> ELSE f[i - 1] \o one(i)]
<1>0. n \in Nat /\ \A i \in 1..n : s[i] \in A
  OBVIOUS
<1>5. ASSUME NEW i \in 1..n PROVE one(i) \in T
  BY <1>0
<1>1. PICK g \in [0..n -> T] : Recurs(g, n, base, step)
  <2>1. step \in [1..n -> [T -> T]]
    <3> HIDE DEF one
    <3>1. ASSUME NEW i \in 1..n, NEW t \in T
          PROVE  t \o one(i) \in T
      BY <1>5
    <3> HIDE DEF T, n
    <3> QED
      BY <3>1
  <2>2. base \in T
    OBVIOUS
  <2> HIDE DEF step, n, T, base
  <2> QED
    BY <1>0, <2>1, <2>2, Recursion
<1> HIDE DEF one
<1>2. Is(g)
  <2>1. ASSUME NEW i \in 1..n PROVE g[i] = g[i - 1] \o one(i)
    <3>1. i - 1 \in 0..n
      BY <1>0
    <3>2. g[i - 1] \in T
      BY <1>1, <3>1
    <3> QED
      BY <1>1, <3>2 DEF Recurs
  <2>2. g = [i \in 0..n |-> g[i]] /\ \A i \in 0..n : i # 0 => i \in 1..n
    BY <1>0, <1>1
  <2> HIDE DEF n
  <2> QED
    BY <1>1, <2>1, <2>2, Zenon DEF Recurs
<1> DEFINE f == CHOOSE f : Is(f)
<1>3. Is(f)
  <2> HIDE DEF Is
  <2> QED
    BY <1>2
<1>4. Those(s, S) = f[n]
  BY Zenon DEF Those, one
<1> HIDE DEF f
<1>6. ASSUME NEW i \in 1..n PROVE f[i] = f[i - 1] \o one(i)
  <2>1. i \in 0..n /\ i # 0
    BY <1>0
  <2> HIDE DEF n
  <2> QED
    BY <1>3, <2>1
<1>7. f[0] = <<>>
  BY <1>0, <1>3
<1>8. \A i \in 0..n : f[i] \in T
  <2> DEFINE All == {i \in 0..n : f[i] \in T}
  <2>1. 0 \in All /\ \A i \in 1..n : i - 1 \in All => i \in All
    <3>1. <<>> \in T /\ \A t, u \in T : t \o u \in T
      OBVIOUS
    <3> HIDE DEF T, n
    <3>2. 0 \in All
      BY <1>0, <1>7, <3>1
    <3>3. ASSUME NEW i \in 1..n, f[i - 1] \in T PROVE f[i] \in T
      BY <1>5, <1>6, <3>1, <3>3
    <3> QED
      BY <1>0, <3>2, <3>3
  <2> HIDE DEF All
  <2>2. 0..n \subseteq All
    BY <1>0, <2>1, InductionUpTo
  <2> QED
    BY <2>2 DEF All
<1>9. f \in [0..n -> T]
  <2>1. f = [i \in 0..n |-> f[i]]
    <3> HIDE DEF n
    <3> QED
      BY <1>3
  <2> HIDE DEF n, T
  <2> QED
    BY <1>8, <2>1
<1>10. \A i \in 1..n : f[i] = f[i - 1] \o OneOf(s, S, i)
  BY <1>6 DEF one, OneOf
<1>11. Picks(f, s, S)
  BY <1>4, <1>7, <1>10 DEF Picks
<1> QED
  BY <1>9, <1>11

\* What Those keeps.
LEMMA ThoseProperties ==
  ASSUME NEW A, NEW s \in Seq(A), NEW S
  PROVE  /\ Those(s, S) \in Seq(A) /\ ToSet(Those(s, S)) = ToSet(s) \cap S
         /\ IsInjective(s) => IsInjective(Those(s, S))
<1> DEFINE n == Len(s)
           T == Seq(A)
           one(i) == OneOf(s, S, i)
<1>0. n \in Nat /\ \A i \in 1..n : s[i] \in A
  OBVIOUS
<1>1. PICK f \in [0..n -> T] : Picks(f, s, S)
  BY ThoseSteps
<1> DEFINE Upto(i) == {s[j] : j \in 1..i}
           Good(i) == /\ f[i] \in T /\ ToSet(f[i]) = Upto(i) \cap S
                      /\ IsInjective(s) => IsInjective(f[i])
<1> HIDE DEF one
<1>6. ASSUME NEW i \in 1..n PROVE f[i] = f[i - 1] \o one(i)
  BY <1>1 DEF Picks, one
<1>7. f[0] = <<>> /\ f[n] = Those(s, S)
  BY <1>1 DEF Picks
<1>8. Good(0)
  <2>1. Upto(0) = {} /\ <<>> \in T /\ ToSet(<<>>) = {} /\ DOMAIN <<>> = {}
    BY DEF ToSet
  <2> QED
    BY <1>7, <2>1 DEF IsInjective
<1>9. ASSUME NEW i \in 1..n, Good(i - 1) PROVE Good(i)
  <2> DEFINE t == f[i - 1]
  <2> HIDE DEF T
  <2>1. t \in T /\ ToSet(t) = Upto(i - 1) \cap S
    BY <1>9
  <2>2. Upto(i) = Upto(i - 1) \cup {s[i]}
    OBVIOUS
  <2>3. CASE s[i] \notin S
    <3>1. f[i] = t
      <4>1. f[i] = t \o <<>>
        BY <1>6, <2>3 DEF one, OneOf
      <4> HIDE DEF t
      <4> QED
        BY <2>1, <4>1 DEF T
    <3> QED
      BY <1>9, <2>1, <2>2, <2>3, <3>1
  <2>4. CASE s[i] \in S
    <3>1. f[i] = t \o <<s[i]>>
      BY <1>6, <2>4 DEF one, OneOf
    <3>2. t \in Seq(A) /\ <<s[i]>> \in Seq(A)
      BY <1>0, <2>1 DEF T
    <3>3. ToSet(<<s[i]>>) = {s[i]} /\ IsInjective(<<s[i]>>)
      BY DEF ToSet, IsInjective
    <3>4. ASSUME IsInjective(s) PROVE IsInjective(t) /\ s[i] \notin ToSet(t)
      <4>1. \A j \in 1..i - 1 : s[j] # s[i]
        BY <3>4 DEF IsInjective
      <4> QED
        BY <1>9, <2>1, <3>4, <4>1
    <3> HIDE DEF t
    <3>5. /\ f[i] \in Seq(A) /\ ToSet(f[i]) = ToSet(t) \cup {s[i]}
          /\ IsInjective(s) => IsInjective(f[i])
      <4> DEFINE u == <<s[i]>>
      <4>1. u \in Seq(A) /\ ToSet(u) = {s[i]} /\ IsInjective(u) /\ f[i] = t \o u
        BY <3>1, <3>2, <3>3
      <4> HIDE DEF u
      <4>2. /\ t \o u \in Seq(A) /\ ToSet(t \o u) = ToSet(t) \cup ToSet(u)
            /\ IsInjective(t) /\ IsInjective(u) /\ ToSet(t) \cap ToSet(u) = {} => IsInjective(t \o u)
        BY <3>2, <4>1, ConcatElements
      <4> QED
        BY <3>4, <4>1, <4>2
    <3> QED
      BY <2>1, <2>2, <2>4, <3>5 DEF T
  <2> QED
    BY <2>3, <2>4
<1>10. Good(n)
  <2> DEFINE All == {i \in 0..n : Good(i)}
  <2>1. 0 \in All /\ \A i \in 1..n : i - 1 \in All => i \in All
    <3> HIDE DEF Good, n
    <3> QED
      BY <1>0, <1>8, <1>9
  <2>2. 0..n \subseteq All
    <3> HIDE DEF All, n
    <3> QED
      BY <1>0, <2>1, InductionUpTo
  <2> HIDE DEF Good
  <2> QED
    BY <1>0, <2>2
<1>11. ToSet(s) = Upto(n)
  BY DEF ToSet
<1> QED
  BY <1>7, <1>10, <1>11


\* The same for many sequences.
LEMMA FlattenElements ==
  ASSUME NEW A, NEW ss \in Seq(Seq(A))
  PROVE  /\ FlattenSeq(ss) \in Seq(A)
         /\ ToSet(FlattenSeq(ss)) = UNION {ToSet(ss[i]) : i \in 1..Len(ss)}
         /\ (/\ \A i \in 1..Len(ss) : IsInjective(ss[i])
             /\ \A i, j \in 1..Len(ss) : i # j => ToSet(ss[i]) \cap ToSet(ss[j]) = {})
                => IsInjective(FlattenSeq(ss))
<1> DEFINE n == Len(ss)
           T == Seq(A)
           base == <<>>
           step == [i \in 1..n |-> [t \in T |-> t \o ss[i]]]
           Is(f) == f = [i \in 1..n |-> IF i = 1 THEN ss[i] ELSE f[i - 1] \o ss[i]]
           Apart == /\ \A i \in 1..n : IsInjective(ss[i])
                    /\ \A i, j \in 1..n : i # j => ToSet(ss[i]) \cap ToSet(ss[j]) = {}
<1>0. n \in Nat /\ \A i \in 1..n : ss[i] \in T
  OBVIOUS
<1>1. CASE n = 0
  <2>1. FlattenSeq(ss) = ss /\ ss = <<>>
    BY <1>1 DEF FlattenSeq
  <2>2. <<>> \in Seq(A) /\ ToSet(<<>>) = {} /\ IsInjective(<<>>)
    BY DEF ToSet, IsInjective
  <2>3. {ToSet(ss[i]) : i \in 1..n} = {}
    BY <1>1
  <2> QED
    BY <2>1, <2>2, <2>3
<1>2. CASE n # 0
  <2>1. PICK g \in [0..n -> T] : Recurs(g, n, base, step)
    <3>1. step \in [1..n -> [T -> T]]
      <4>1. ASSUME NEW i \in 1..n, NEW t \in T
            PROVE  t \o ss[i] \in T
        BY <1>0, ConcatProperties
      <4> HIDE DEF T, n
      <4> QED
        BY <4>1
    <3>2. base \in T
      OBVIOUS
    <3> HIDE DEF step, n, T, base
    <3> QED
      BY <1>0, <3>1, <3>2, Recursion
  <2>2. Is([i \in 1..n |-> g[i]])
    <3>1. ASSUME NEW i \in 1..n PROVE g[i] = g[i - 1] \o ss[i]
      <4>1. g[i - 1] \in T
        <5>1. i - 1 \in 0..n
          BY <1>0
        <5> QED
          BY <2>1, <5>1
      <4> HIDE DEF n, T
      <4> QED
        BY <2>1, <4>1 DEF Recurs
    <3>2. 1 \in 1..n /\ g[0] = <<>>
      BY <1>0, <1>2, <2>1 DEF Recurs
    <3>3. g[1] = ss[1]
      <4>1. g[1] = g[0] \o ss[1] /\ ss[1] \in T
        <5> HIDE DEF n, T
        <5>1. g[1] = g[1 - 1] \o ss[1]
          BY <3>1, <3>2
        <5>2. g[1 - 1] = g[0]
          OBVIOUS
        <5>3. ss[1] \in T
          BY <1>0, <3>2
        <5> QED
          BY <5>1, <5>2, <5>3, Zenon
      <4> QED
        BY <3>2, <4>1
    <3>4. \A i \in 1..n : i # 1 => i - 1 \in 1..n
      BY <1>0
    <3> HIDE DEF n
    <3> QED
      BY <3>1, <3>3, <3>4
  <2> DEFINE f == CHOOSE f : Is(f)
  <2>3. Is(f)
    <3> HIDE DEF Is
    <3> QED
      BY <2>2
  <2>4. FlattenSeq(ss) = f[n]
    BY <1>2, Zenon DEF FlattenSeq
  <2> DEFINE Upto(i) == UNION {ToSet(ss[j]) : j \in 1..i}
             Good(i) == f[i] \in T /\ ToSet(f[i]) = Upto(i) /\ (Apart => IsInjective(f[i]))
             All == {i \in 0..n : i # 0 => Good(i)}
  <2> HIDE DEF f
  <2>5. ASSUME NEW i \in 1..n, i - 1 \in All PROVE i \in All
    <3>1. f[i] = IF i = 1 THEN ss[i] ELSE f[i - 1] \o ss[i]
      <4> HIDE DEF n
      <4> QED
        BY <2>3
    <3>2. Upto(i) = Upto(i - 1) \cup ToSet(ss[i])
      <4>1. 1..i = 1..i - 1 \cup {i}
        OBVIOUS
      <4> QED
        BY <4>1
    <3>3. CASE i = 1
      <4>1. Upto(0) = {}
        OBVIOUS
      <4> HIDE DEF Upto, T
      <4>2. f[i] = ss[1]
        BY <3>1, <3>3
      <4>3. Upto(i) = ToSet(ss[1])
        BY <3>2, <3>3, <4>1
      <4>4. ss[1] \in T /\ (Apart => IsInjective(ss[1]))
        BY <1>0, <3>3
      <4>5. Good(i)
        BY <4>2, <4>3, <4>4
      <4> HIDE DEF Good
      <4> QED
        BY <1>0, <4>5
    <3>4. CASE i # 1
      <4>1. f[i - 1] \in T /\ ToSet(f[i - 1]) = Upto(i - 1) /\ (Apart => IsInjective(f[i - 1]))
        <5>1. i - 1 # 0
          BY <3>4
        <5> HIDE DEF Good
        <5>2. Good(i - 1)
          BY <2>5, <5>1
        <5> QED
          BY <5>2 DEF Good
      <4>2. Apart => Upto(i - 1) \cap ToSet(ss[i]) = {}
        <5> SUFFICES ASSUME Apart PROVE \A j \in 1..i - 1 : ToSet(ss[j]) \cap ToSet(ss[i]) = {}
          OBVIOUS
        <5>1. \A j \in 1..i - 1 : j \in 1..n /\ j # i
          BY <1>0
        <5> QED
          BY <5>1
      <4>3. Apart => IsInjective(ss[i])
        OBVIOUS
      <4> HIDE DEF Upto, Apart
      <4>4. Good(i)
        <5> DEFINE t == f[i - 1]
        <5>1. f[i] = t \o ss[i] /\ t \in Seq(A) /\ ss[i] \in Seq(A)
          BY <1>0, <3>1, <3>4, <4>1
        <5>2. ToSet(t) = Upto(i - 1) /\ (Apart => IsInjective(t))
          BY <4>1
        <5> HIDE DEF t
        <5>3. /\ f[i] \in Seq(A) /\ ToSet(f[i]) = ToSet(t) \cup ToSet(ss[i])
              /\ IsInjective(t) /\ IsInjective(ss[i]) /\ ToSet(t) \cap ToSet(ss[i]) = {}
                    => IsInjective(f[i])
          BY <5>1, ConcatElements
        <5> QED
          BY <3>2, <4>2, <4>3, <5>2, <5>3
      <4> HIDE DEF Good
      <4> QED
        BY <1>0, <4>4
    <3> QED
      BY <3>3, <3>4
  <2>6. 0..n \subseteq All
    <3>1. 0 \in All
      BY <1>0
    <3> HIDE DEF All, n
    <3> QED
      BY <1>0, <2>5, <3>1, InductionUpTo
  <2>7. Good(n)
    <3> HIDE DEF Good
    <3> QED
      BY <1>0, <1>2, <2>6
  <2> QED
    BY <2>4, <2>7
<1> QED
  BY <1>1, <1>2

\* Everything up to the first that answers, or everything.
LEMMA UpToAnswerProperties ==
  ASSUME NEW A, \A x \in A : x.answers \in BOOLEAN, NEW s \in Seq(A)
  PROVE  \/ UpToAnswer(s) = s /\ \A i \in 1..Len(s) : ~s[i].answers
         \/ \E k \in 1..Len(s) :
               /\ s[k].answers /\ \A i \in 1..k - 1 : ~s[i].answers
               /\ UpToAnswer(s) \in Seq(A) /\ Len(UpToAnswer(s)) = k
               /\ \A i \in 1..k : UpToAnswer(s)[i] = s[i]
<1> DEFINE I == {i \in 1..Len(s) : s[i].answers}
<1>0. Len(s) \in Nat
  OBVIOUS
<1>1. UpToAnswer(s) = IF (IF I # {} THEN Min(I) ELSE 0) = 0 THEN s ELSE SubSeq(s, 1, IF I # {} THEN Min(I) ELSE 0)
  BY Zenon DEF UpToAnswer, SelectInSeq
<1>2. CASE I = {}
  BY <1>1, <1>2
<1>3. CASE I # {}
  <2>1. PICK k \in I : \A i \in I : k <= i
    <3>1. I \in SUBSET (Nat \ {0})
      OBVIOUS
    <3> HIDE DEF I
    <3> QED
      BY <1>3, <3>1, Least
  <2>2. Min(I) \in I /\ \A i \in I : Min(I) <= i
    <3> HIDE DEF I
    <3> QED
      BY <2>1, Zenon DEF Min
  <2>3. Min(I) = k
    <3>1. \A i \in I : i \in Nat
      OBVIOUS
    <3> HIDE DEF I
    <3> QED
      BY <2>1, <2>2, <3>1
  <2>4. k \in 1..Len(s) /\ s[k].answers /\ \A i \in 1..k - 1 : ~s[i].answers
    <3>1. k \in 1..Len(s) /\ s[k].answers
      BY <2>1
    <3>2. ASSUME NEW i \in 1..k - 1, s[i].answers PROVE FALSE
      <4>1. i \in I
        BY <1>0, <3>1, <3>2
      <4> HIDE DEF I
      <4> QED
        BY <2>1, <3>1, <4>1
    <3> QED
      BY <3>1, <3>2
  <2>5. UpToAnswer(s) = SubSeq(s, 1, k)
    <3> HIDE DEF I
    <3> QED
      BY <1>1, <1>3, <2>3, <2>4
  <2>6. /\ SubSeq(s, 1, k) \in Seq(A) /\ Len(SubSeq(s, 1, k)) = k
        /\ \A i \in 1..k : SubSeq(s, 1, k)[i] = s[i]
    BY <2>4, SubSeqProperties
  <2> QED
    BY <2>4, <2>5, <2>6
<1> QED
  BY <1>2, <1>3

\* What the property of the hooks asks of those called.
LEMMA UpToAnswerPasses ==
  ASSUME NEW A, \A x \in A : x.answers \in BOOLEAN, NEW s \in Seq(A), IsInjective(s)
  PROVE  LET called == UpToAnswer(s)
         IN  /\ IsInjective(called) /\ ToSet(called) \subseteq ToSet(s)
             /\ \A i \in 1..(Len(called) - 1) : ~called[i].answers
             /\ Answered(called) \/ ToSet(called) = ToSet(s)
<1> DEFINE called == UpToAnswer(s)
<1>0. Len(s) \in Nat /\ DOMAIN s = 1..Len(s)
  OBVIOUS
<1>1. CASE called = s /\ \A i \in 1..Len(s) : ~s[i].answers
  <2>1. \A i \in 1..(Len(s) - 1) : i \in 1..Len(s)
    BY <1>0
  <2> HIDE DEF called
  <2>2. /\ IsInjective(called) /\ ToSet(called) \subseteq ToSet(s)
        /\ \A i \in 1..(Len(called) - 1) : ~called[i].answers
        /\ Answered(called) \/ ToSet(called) = ToSet(s)
    BY <1>1, <2>1
  <2> QED
    BY <2>2 DEF called
<1>2. CASE \E k \in 1..Len(s) :
               /\ s[k].answers /\ \A i \in 1..k - 1 : ~s[i].answers
               /\ called \in Seq(A) /\ Len(called) = k
               /\ \A i \in 1..k : called[i] = s[i]
  <2> HIDE DEF called
  <2>1. PICK k \in 1..Len(s) :
               /\ s[k].answers /\ \A i \in 1..k - 1 : ~s[i].answers
               /\ called \in Seq(A) /\ Len(called) = k
               /\ \A i \in 1..k : called[i] = s[i]
    BY <1>2
  <2>2. k \in Nat /\ k >= 1 /\ DOMAIN called = 1..k /\ \A i \in 1..k : i \in 1..Len(s)
    BY <1>0, <2>1
  <2>3. IsInjective(called)
    BY <1>0, <2>1, <2>2 DEF IsInjective
  <2>4. ToSet(called) \subseteq ToSet(s)
    BY <1>0, <2>1, <2>2 DEF ToSet
  <2>5. \A i \in 1..(Len(called) - 1) : ~called[i].answers
    <3>1. \A i \in 1..k - 1 : i \in 1..k
      BY <2>2
    <3> QED
      BY <2>1, <3>1
  <2>6. Answered(called)
    <3>1. Last(called) = called[k] /\ called[k] = s[k] /\ called # <<>>
      BY <2>1, <2>2 DEF Last
    <3> QED
      BY <2>1, <3>1 DEF Answered
  <2> QED
    BY <2>3, <2>4, <2>5, <2>6 DEF called
<1> QED
  BY <1>1, <1>2, UpToAnswerProperties

-----------------------------------------------------------------------------
(* The table of routes.                                                    *)

OwnRoutes == {r \in Routes : r.parent \in Blueprints}
HostRoutes == [host : SUBSET STRING, routes : Seq(OwnRoutes)]
Tables ==
    [routes : UNION {[S -> OwnRoutes] : S \in SUBSET (Methods \X Paths)},
     dynamic : [Methods -> Seq(OwnRoutes)],
     hosts : Seq(HostRoutes)]

LEMMA WithHostType ==
  ASSUME NEW t \in Tables, NEW h \in SUBSET STRING, NEW r \in OwnRoutes
  PROVE  WithHost(t, h, r) \in Tables
<1> DEFINE known == {i \in DOMAIN t.hosts : t.hosts[i].host = h}
           more == [i \in DOMAIN t.hosts |->
                      IF i \in known THEN [t.hosts[i] EXCEPT !.routes = Append(@, r)] ELSE t.hosts[i]]
           new == [host |-> h, routes |-> <<r>>]
<1>1. t.hosts \in Seq(HostRoutes)
  BY DEF Tables
<1>2. new \in HostRoutes
  BY DEF HostRoutes
<1>3. more \in Seq(HostRoutes)
  <2>1. ASSUME NEW i \in DOMAIN t.hosts PROVE more[i] \in HostRoutes
    <3>1. t.hosts[i] \in HostRoutes
      BY <1>1
    <3>2. Append(t.hosts[i].routes, r) \in Seq(OwnRoutes)
      BY <3>1 DEF HostRoutes
    <3> QED
      BY <3>1, <3>2 DEF HostRoutes
  <2>2. DOMAIN t.hosts = 1..Len(t.hosts) /\ Len(t.hosts) \in Nat
    BY <1>1
  <2>3. more = [i \in 1..Len(t.hosts) |-> more[i]]
    BY <2>2
  <2> HIDE DEF more
  <2> QED
    BY <2>1, <2>2, <2>3
<1>4. WithHost(t, h, r) = IF known = {} THEN [t EXCEPT !.hosts = Append(t.hosts, new)]
                          ELSE [t EXCEPT !.hosts = more]
  BY DEF WithHost
<1>5. Append(t.hosts, new) \in Seq(HostRoutes)
  <2> HIDE DEF new
  <2> QED
    BY <1>1, <1>2
<1> HIDE DEF new, more, known
<1> QED
  BY <1>3, <1>4, <1>5 DEF Tables

\* A route goes to the hosts it names, one after the other.
RegisteredForHosts(t, r) == FoldLeft(LAMBDA s, h : WithHost(s, h, r), t, r.hosts)

LEMMA HostsSteps ==
  ASSUME NEW t \in Tables, NEW r \in OwnRoutes
  PROVE  \E h \in [0..Len(r.hosts) -> Tables] :
            /\ h[0] = t /\ h[Len(r.hosts)] = RegisteredForHosts(t, r)
            /\ \A k \in 1..Len(r.hosts) : h[k] = WithHost(h[k - 1], r.hosts[k], r)
<1> DEFINE q == r.hosts
           n == Len(q)
           op(d, k) == WithHost(d, q[k], r)
           step == [k \in 1..n |-> [d \in Tables |-> op(d, k)]]
           Is(f) == f = [s \in SUBSET DOMAIN q |-> IF s = {} THEN t ELSE op(f[s \ {Max(s)}], Max(s))]
<1>0. q \in Seq(SUBSET STRING) /\ n \in Nat /\ DOMAIN q = 1..n
  BY DEF OwnRoutes, Routes
<1>1. ASSUME NEW k \in 1..n, NEW d \in Tables PROVE op(d, k) \in Tables
  <2>1. q[k] \in SUBSET STRING
    BY <1>0
  <2> QED
    BY <2>1, WithHostType
<1> DEFINE f == CHOOSE f : Is(f)
<1>2. RegisteredForHosts(t, r) = f[1..n]
  <2>1. RegisteredForHosts(t, r) = f[DOMAIN q]
    BY Zenon DEF RegisteredForHosts, FoldLeft, MapThenFoldSet
  <2> HIDE DEF f, n
  <2> QED
    BY <1>0, <2>1
<1> HIDE DEF op, n
<1>3. step \in [1..n -> [Tables -> Tables]]
  BY <1>1
<1>4. PICK g \in [SUBSET (1..n) -> Tables] : Folds(g, n, t, step)
  <2> HIDE DEF step
  <2> QED
    BY <1>0, <1>3, FoldRecursion
<1>5. Is(g)
  <2>1. ASSUME NEW s \in SUBSET (1..n), s # {} PROVE g[s] = op(g[s \ {Max(s)}], Max(s))
    <3>1. Max(s) \in s /\ \A i \in s : i <= Max(s)
      BY <1>0, <2>1, Greatest
    <3>2. g[s \ {Max(s)}] \in Tables /\ Max(s) \in 1..n
      BY <3>1
    <3> HIDE DEF step
    <3>3. g[s] = step[Max(s)][g[s \ {Max(s)}]]
      BY <1>4, <2>1, <3>1 DEF Folds
    <3> QED
      BY <3>2, <3>3 DEF step
  <2>2. g[{}] = t
    BY <1>4 DEF Folds
  <2> QED
    BY <1>0, <1>4, <2>1, <2>2
<1>6. Is(f)
  <2> HIDE DEF Is
  <2> QED
    BY <1>5
<1> HIDE DEF f
<1>7. f[{}] = t
  BY <1>6
<1>8. ASSUME NEW k \in 1..n PROVE f[1..k] = op(f[1..k - 1], k)
  <2>1. k \in Nat \ {0} /\ 1..k \in SUBSET (1..n)
    BY <1>0
  <2>2. 1..k # {} /\ Max(1..k) = k /\ (1..k) \ {Max(1..k)} = 1..k - 1
    BY <2>1, GreatestUpTo
  <2>3. f[1..k] = op(f[(1..k) \ {Max(1..k)}], Max(1..k))
    BY <1>0, <1>6, <2>1, <2>2
  <2> QED
    BY <2>2, <2>3
<1>9. PICK h \in [0..n -> Tables] : Recurs(h, n, t, step) /\ h[n] = f[1..n]
  <2>1. Climbs(f, n, Tables, t, step)
    BY <1>0, <1>3, <1>7, <1>8 DEF Climbs
  <2> HIDE DEF step
  <2> QED
    BY <2>1, FoldSteps
<1>10. ASSUME NEW k \in 1..n PROVE h[k] = op(h[k - 1], k)
  <2>1. h[k - 1] \in Tables
    <3>1. k - 1 \in 0..n
      BY <1>0
    <3> QED
      BY <3>1
  <2>2. h[k] = step[k][h[k - 1]]
    <3> HIDE DEF step
    <3> QED
      BY <1>9 DEF Recurs
  <2> QED
    BY <2>1, <2>2
<1>11. h[0] = t
  BY <1>9 DEF Recurs
<1> QED
  BY <1>2, <1>9, <1>10, <1>11, Zenon DEF n, op

LEMMA RegisteredType ==
  ASSUME NEW t \in Tables, NEW r \in OwnRoutes
  PROVE  Registered(t, r) \in Tables
<1>1. CASE r.hosts # <<>>
  <2>1. Registered(t, r) = RegisteredForHosts(t, r)
    BY <1>1, Zenon DEF Registered, RegisteredForHosts
  <2>2. Len(r.hosts) \in Nat
    BY DEF OwnRoutes, Routes
  <2> QED
    BY <2>1, <2>2, HostsSteps
<1>2. CASE r.hosts = <<>> /\ r.dynamic
  <2> DEFINE dynamic == [m \in Methods |-> IF m \in r.methods THEN Append(t.dynamic[m], r) ELSE t.dynamic[m]]
  <2>1. Registered(t, r) = [t EXCEPT !.dynamic = dynamic]
    BY <1>2, Zenon DEF Registered
  <2>2. dynamic \in [Methods -> Seq(OwnRoutes)]
    BY DEF Tables
  <2> HIDE DEF dynamic
  <2> QED
    BY <2>1, <2>2 DEF Tables
<1>3. CASE r.hosts = <<>> /\ ~r.dynamic
  <2> DEFINE keys == {<<m, r.pattern>> : m \in r.methods}
             routes == [k \in keys \cup DOMAIN t.routes |-> IF k \in keys THEN r ELSE t.routes[k]]
  <2>1. Registered(t, r) = [t EXCEPT !.routes = routes]
    BY <1>3, Zenon DEF Registered
  <2>2. PICK S \in SUBSET (Methods \X Paths) : t.routes \in [S -> OwnRoutes]
    BY DEF Tables
  <2>3. keys \cup S \in SUBSET (Methods \X Paths)
    BY DEF OwnRoutes, Routes
  <2>4. routes \in [keys \cup S -> OwnRoutes]
    <3> HIDE DEF keys
    <3> QED
      BY <2>2
  <2> HIDE DEF routes, keys
  <2>5. routes \in UNION {[T -> OwnRoutes] : T \in SUBSET (Methods \X Paths)}
    BY <2>3, <2>4
  <2> QED
    BY <2>1, <2>5 DEF Tables
<1> QED
  BY <1>1, <1>2, <1>3 DEF OwnRoutes, Routes

LEMMA JoinType ==
  ASSUME NEW p \in Paths, NEW q \in Paths
  PROVE  Join(p, q) \in Paths
BY DEF Join, Paths

LEMMA SlashesType ==
  ASSUME NEW t \in Tables, NEW r \in OwnRoutes, NEW target \in Paths
  PROVE  Slashes(t, r, target) \in Tables
<1> DEFINE twin == [r EXCEPT !.pattern = Twin(@)]
           there == [r EXCEPT !.pattern = Twin(@), !.to = target, !.methods = {"GET"}]
<1>1. Twin(r.pattern) \in Paths
  BY DEF OwnRoutes, Routes, Twin, Paths
<1>2. twin \in OwnRoutes /\ there \in OwnRoutes
  BY <1>1 DEF OwnRoutes, Routes, Methods
<1>3. Slashes(t, r, target) \in {t, Registered(t, twin), Registered(t, there)}
  BY Zenon DEF Slashes
<1> HIDE DEF twin, there
<1> QED
  BY <1>2, <1>3, RegisteredType

\* A route under one of the prefixes it is added for.
OneAdded(t, r, prefix, target) ==
    LET clone == [r EXCEPT !.pattern = Join(prefix, @)]
    IN  Slashes(Registered(t, clone), clone, target)

LEMMA OneAddedType ==
  ASSUME NEW t \in Tables, NEW r \in OwnRoutes, NEW prefix \in Paths, NEW target \in Paths
  PROVE  OneAdded(t, r, prefix, target) \in Tables
<1> DEFINE clone == [r EXCEPT !.pattern = Join(prefix, @)]
<1>1. Join(prefix, r.pattern) \in Paths
  BY JoinType DEF OwnRoutes, Routes
<1>2. clone \in OwnRoutes
  BY <1>1 DEF OwnRoutes, Routes
<1> HIDE DEF clone
<1>3. Registered(t, clone) \in Tables
  BY <1>2, RegisteredType
<1> QED
  BY <1>2, <1>3, SlashesType DEF OneAdded, clone

\* add_route goes through the prefixes.
LEMMA AddRouteSteps ==
  ASSUME NEW t \in Tables, NEW r \in OwnRoutes, NEW prefixes \in Seq(Paths)
  PROVE  \E h \in [0..Len(prefixes) -> Tables] :
            /\ h[0] = t /\ h[Len(prefixes)] = AddRoute(t, r, prefixes)
            /\ \A k \in 1..Len(prefixes) : h[k] = OneAdded(h[k - 1], r, prefixes[k], Join(Last(prefixes), r.pattern))
<1> DEFINE q == prefixes
           n == Len(q)
           op(d, k) == OneAdded(d, r, q[k], Join(Last(prefixes), r.pattern))
           step == [k \in 1..n |-> [d \in Tables |-> op(d, k)]]
           Is(f) == f = [s \in SUBSET DOMAIN q |-> IF s = {} THEN t ELSE op(f[s \ {Max(s)}], Max(s))]
<1>0. q \in Seq(Paths) /\ n \in Nat /\ DOMAIN q = 1..n
  OBVIOUS
<1>1. ASSUME NEW k \in 1..n, NEW d \in Tables PROVE op(d, k) \in Tables
  <2>1. q[k] \in Paths /\ Last(prefixes) \in Paths
    BY <1>0 DEF Last
  <2>2. Join(Last(prefixes), r.pattern) \in Paths
    BY <2>1, JoinType DEF OwnRoutes, Routes
  <2> HIDE DEF n, q
  <2> QED
    BY <2>1, <2>2, OneAddedType
<1> DEFINE f == CHOOSE f : Is(f)
<1>2. AddRoute(t, r, prefixes) = f[1..n]
  <2>1. AddRoute(t, r, prefixes) = f[DOMAIN q]
    BY Zenon DEF AddRoute, FoldLeft, MapThenFoldSet, OneAdded
  <2> HIDE DEF f, n
  <2> QED
    BY <1>0, <2>1
<1> HIDE DEF op, n
<1>3. step \in [1..n -> [Tables -> Tables]]
  BY <1>1
<1>4. PICK g \in [SUBSET (1..n) -> Tables] : Folds(g, n, t, step)
  <2> HIDE DEF step
  <2> QED
    BY <1>0, <1>3, FoldRecursion
<1>5. Is(g)
  <2>1. ASSUME NEW s \in SUBSET (1..n), s # {} PROVE g[s] = op(g[s \ {Max(s)}], Max(s))
    <3>1. Max(s) \in s /\ \A i \in s : i <= Max(s)
      BY <1>0, <2>1, Greatest
    <3>2. g[s \ {Max(s)}] \in Tables /\ Max(s) \in 1..n
      BY <3>1
    <3> HIDE DEF step
    <3>3. g[s] = step[Max(s)][g[s \ {Max(s)}]]
      BY <1>4, <2>1, <3>1 DEF Folds
    <3> QED
      BY <3>2, <3>3 DEF step
  <2>2. g[{}] = t
    BY <1>4 DEF Folds
  <2> QED
    BY <1>0, <1>4, <2>1, <2>2
<1>6. Is(f)
  <2> HIDE DEF Is
  <2> QED
    BY <1>5
<1> HIDE DEF f
<1>7. f[{}] = t
  BY <1>6
<1>8. ASSUME NEW k \in 1..n PROVE f[1..k] = op(f[1..k - 1], k)
  <2>1. k \in Nat \ {0} /\ 1..k \in SUBSET (1..n)
    BY <1>0
  <2>2. 1..k # {} /\ Max(1..k) = k /\ (1..k) \ {Max(1..k)} = 1..k - 1
    BY <2>1, GreatestUpTo
  <2>3. f[1..k] = op(f[(1..k) \ {Max(1..k)}], Max(1..k))
    BY <1>0, <1>6, <2>1, <2>2
  <2> QED
    BY <2>2, <2>3
<1>9. PICK h \in [0..n -> Tables] : Recurs(h, n, t, step) /\ h[n] = f[1..n]
  <2>1. Climbs(f, n, Tables, t, step)
    BY <1>0, <1>3, <1>7, <1>8 DEF Climbs
  <2> HIDE DEF step
  <2> QED
    BY <2>1, FoldSteps
<1>10. ASSUME NEW k \in 1..n PROVE h[k] = op(h[k - 1], k)
  <2>1. h[k - 1] \in Tables
    <3>1. k - 1 \in 0..n
      BY <1>0
    <3> QED
      BY <3>1
  <2>2. h[k] = step[k][h[k - 1]]
    <3> HIDE DEF step
    <3> QED
      BY <1>9 DEF Recurs
  <2> QED
    BY <2>1, <2>2
<1>11. h[0] = t
  BY <1>9 DEF Recurs
<1> QED
  BY <1>2, <1>9, <1>10, <1>11, Zenon DEF n, op

LEMMA AddRouteType ==
  ASSUME NEW t \in Tables, NEW r \in OwnRoutes, NEW prefixes \in Seq(Paths)
  PROVE  AddRoute(t, r, prefixes) \in Tables
<1>1. Len(prefixes) \in Nat
  OBVIOUS
<1> QED
  BY <1>1, AddRouteSteps

\* What is added: a route and its prefixes.
Additions == OwnRoutes \X Seq(Paths)

\* The routes of a blueprint are added one after the other.
LEMMA AllAddedSteps ==
  ASSUME NEW t \in Tables, NEW routes \in Seq(Additions)
  PROVE  \E h \in [0..Len(routes) -> Tables] :
            /\ h[0] = t /\ h[Len(routes)] = AllAdded(t, routes)
            /\ \A k \in 1..Len(routes) : h[k] = AddRoute(h[k - 1], routes[k][1], routes[k][2])
<1> DEFINE q == routes
           n == Len(q)
           op(d, k) == AddRoute(d, q[k][1], q[k][2])
           step == [k \in 1..n |-> [d \in Tables |-> op(d, k)]]
           Is(f) == f = [s \in SUBSET DOMAIN q |-> IF s = {} THEN t ELSE op(f[s \ {Max(s)}], Max(s))]
<1>0. q \in Seq(Additions) /\ n \in Nat /\ DOMAIN q = 1..n
  OBVIOUS
<1>1. ASSUME NEW k \in 1..n, NEW d \in Tables PROVE op(d, k) \in Tables
  <2>1. q[k][1] \in OwnRoutes /\ q[k][2] \in Seq(Paths)
    <3>1. q[k] \in Additions
      BY <1>0
    <3> QED
      BY <3>1 DEF Additions
  <2> HIDE DEF n, q
  <2> QED
    BY <2>1, AddRouteType
<1> DEFINE f == CHOOSE f : Is(f)
<1>2. AllAdded(t, routes) = f[1..n]
  <2>1. AllAdded(t, routes) = f[DOMAIN q]
    BY Zenon DEF AllAdded, FoldLeft, MapThenFoldSet
  <2> HIDE DEF f, n
  <2> QED
    BY <1>0, <2>1
<1> HIDE DEF op, n
<1>3. step \in [1..n -> [Tables -> Tables]]
  BY <1>1
<1>4. PICK g \in [SUBSET (1..n) -> Tables] : Folds(g, n, t, step)
  <2> HIDE DEF step
  <2> QED
    BY <1>0, <1>3, FoldRecursion
<1>5. Is(g)
  <2>1. ASSUME NEW s \in SUBSET (1..n), s # {} PROVE g[s] = op(g[s \ {Max(s)}], Max(s))
    <3>1. Max(s) \in s /\ \A i \in s : i <= Max(s)
      BY <1>0, <2>1, Greatest
    <3>2. g[s \ {Max(s)}] \in Tables /\ Max(s) \in 1..n
      BY <3>1
    <3> HIDE DEF step
    <3>3. g[s] = step[Max(s)][g[s \ {Max(s)}]]
      BY <1>4, <2>1, <3>1 DEF Folds
    <3> QED
      BY <3>2, <3>3 DEF step
  <2>2. g[{}] = t
    BY <1>4 DEF Folds
  <2> QED
    BY <1>0, <1>4, <2>1, <2>2
<1>6. Is(f)
  <2> HIDE DEF Is
  <2> QED
    BY <1>5
<1> HIDE DEF f
<1>7. f[{}] = t
  BY <1>6
<1>8. ASSUME NEW k \in 1..n PROVE f[1..k] = op(f[1..k - 1], k)
  <2>1. k \in Nat \ {0} /\ 1..k \in SUBSET (1..n)
    BY <1>0
  <2>2. 1..k # {} /\ Max(1..k) = k /\ (1..k) \ {Max(1..k)} = 1..k - 1
    BY <2>1, GreatestUpTo
  <2>3. f[1..k] = op(f[(1..k) \ {Max(1..k)}], Max(1..k))
    BY <1>0, <1>6, <2>1, <2>2
  <2> QED
    BY <2>2, <2>3
<1>9. PICK h \in [0..n -> Tables] : Recurs(h, n, t, step) /\ h[n] = f[1..n]
  <2>1. Climbs(f, n, Tables, t, step)
    BY <1>0, <1>3, <1>7, <1>8 DEF Climbs
  <2> HIDE DEF step
  <2> QED
    BY <2>1, FoldSteps
<1>10. ASSUME NEW k \in 1..n PROVE h[k] = op(h[k - 1], k)
  <2>1. h[k - 1] \in Tables
    <3>1. k - 1 \in 0..n
      BY <1>0
    <3> QED
      BY <3>1
  <2>2. h[k] = step[k][h[k - 1]]
    <3> HIDE DEF step
    <3> QED
      BY <1>9 DEF Recurs
  <2> QED
    BY <2>1, <2>2
<1>11. h[0] = t
  BY <1>9 DEF Recurs
<1> QED
  BY <1>2, <1>9, <1>10, <1>11, Zenon DEF n, op

LEMMA AllAddedType ==
  ASSUME NEW t \in Tables, NEW routes \in Seq(Additions)
  PROVE  AllAdded(t, routes) \in Tables
<1>1. Len(routes) \in Nat
  OBVIOUS
<1> QED
  BY <1>1, AllAddedSteps

-----------------------------------------------------------------------------
(* The routes of a blueprint and of those nested in it.                    *)

Nestings == [bp : Blueprints, prefixes : Seq(Paths)]

DeclaredType == declared \in [Blueprints -> Seq(OwnRoutes)] /\ mounted \in [Blueprints -> Seq(Nestings)]

\* Nested blueprints lie deeper than the one they are mounted on.
Deeper(depth) == \A b \in Blueprints : \A i \in DOMAIN mounted[b] : depth[b] < depth[mounted[b][i].bp]
IsTree == \E depth \in [Blueprints -> 0..Cardinality(Blueprints)] : Deeper(depth)

\* One turn of the recursion of RoutesOf.
NestedBy(f, b, p) ==
    FlattenSeq([i \in DOMAIN mounted[b] |->
        FlattenSeq([j \in DOMAIN mounted[b][i].prefixes |->
            f[mounted[b][i].bp][<<Join(p, mounted[b][i].prefixes[j])>>]])])
OneTurn(f, b, ps) ==
    FlattenSeq([k \in DOMAIN ps |-> NestedBy(f, b, ps[k])])
    \o [j \in DOMAIN declared[b] |-> <<declared[b][j], ps>>]
Turns(f) == f = [b \in Blueprints |-> [ps \in Seq(Paths) |-> OneTurn(f, b, ps)]]
Gathered == [Seq(Paths) -> Seq(Additions)]

LEMMA RoutesOfTurns ==
  ASSUME NEW bp, NEW prefixes
  PROVE  RoutesOf(bp, prefixes) = (CHOOSE f : Turns(f))[bp][prefixes]
BY Zenon DEF RoutesOf, Turns, OneTurn, NestedBy

LEMMA NestedByType ==
  ASSUME DeclaredType, NEW f, NEW b \in Blueprints, NEW p \in Paths,
         \A i \in DOMAIN mounted[b] : f[mounted[b][i].bp] \in Gathered
  PROVE  NestedBy(f, b, p) \in Seq(Additions)
<1> DEFINE inner(i) == [j \in DOMAIN mounted[b][i].prefixes |->
                          f[mounted[b][i].bp][<<Join(p, mounted[b][i].prefixes[j])>>]]
           outer == [i \in DOMAIN mounted[b] |-> FlattenSeq(inner(i))]
<1>1. ASSUME NEW i \in DOMAIN mounted[b] PROVE FlattenSeq(inner(i)) \in Seq(Additions)
  <2> DEFINE q == mounted[b][i].prefixes
             g == f[mounted[b][i].bp]
  <2>1. q \in Seq(Paths)
    <3>1. mounted[b] \in Seq(Nestings)
      BY DEF DeclaredType
    <3>2. mounted[b][i] \in Nestings
      BY <3>1
    <3> QED
      BY <3>2 DEF Nestings
  <2>2. ASSUME NEW j \in DOMAIN q PROVE g[<<Join(p, q[j])>>] \in Seq(Additions)
    <3>1. q[j] \in Paths
      BY <2>1
    <3>2. Join(p, q[j]) \in Paths
      BY <3>1, JoinType
    <3>3. <<Join(p, q[j])>> \in Seq(Paths)
      BY <3>2
    <3>4. g \in Gathered
      OBVIOUS
    <3> HIDE DEF g, q
    <3> QED
      BY <3>3, <3>4 DEF Gathered
  <2>3. inner(i) = [j \in 1..Len(q) |-> g[<<Join(p, q[j])>>]] /\ DOMAIN q = 1..Len(q) /\ Len(q) \in Nat
    BY <2>1
  <2>4. inner(i) \in Seq(Seq(Additions))
    <3> HIDE DEF inner, q, g
    <3> QED
      BY <2>2, <2>3
  <2> HIDE DEF inner
  <2> QED
    BY <2>4, FlattenElements
<1>2. DOMAIN mounted[b] = 1..Len(mounted[b]) /\ Len(mounted[b]) \in Nat
  BY DEF DeclaredType
<1>3. outer \in Seq(Seq(Additions))
  <2>1. outer = [i \in 1..Len(mounted[b]) |-> FlattenSeq(inner(i))]
    BY <1>2
  <2> HIDE DEF inner
  <2> QED
    BY <1>1, <1>2, <2>1
<1>4. FlattenSeq(outer) \in Seq(Additions)
  <2> HIDE DEF outer
  <2> QED
    BY <1>3, FlattenElements
<1>5. NestedBy(f, b, p) = FlattenSeq(outer)
  BY Zenon DEF NestedBy
<1> QED
  BY <1>4, <1>5

LEMMA OneTurnType ==
  ASSUME DeclaredType, NEW f, NEW b \in Blueprints, NEW ps \in Seq(Paths),
         \A i \in DOMAIN mounted[b] : f[mounted[b][i].bp] \in Gathered
  PROVE  OneTurn(f, b, ps) \in Seq(Additions)
<1> DEFINE nested == [k \in DOMAIN ps |-> NestedBy(f, b, ps[k])]
           own == [j \in DOMAIN declared[b] |-> <<declared[b][j], ps>>]
<1>1. nested \in Seq(Seq(Additions))
  <2>1. ASSUME NEW k \in 1..Len(ps) PROVE NestedBy(f, b, ps[k]) \in Seq(Additions)
    <3>1. ps[k] \in Paths
      OBVIOUS
    <3> QED
      BY <3>1, NestedByType
  <2>2. nested = [k \in 1..Len(ps) |-> NestedBy(f, b, ps[k])] /\ Len(ps) \in Nat
    OBVIOUS
  <2> HIDE DEF nested
  <2> QED
    BY <2>1, <2>2
<1>2. FlattenSeq(nested) \in Seq(Additions)
  <2> HIDE DEF nested
  <2> QED
    BY <1>1, FlattenElements
<1>3. own \in Seq(Additions)
  <2>1. declared[b] \in Seq(OwnRoutes)
    BY DEF DeclaredType
  <2>2. ASSUME NEW j \in 1..Len(declared[b]) PROVE <<declared[b][j], ps>> \in Additions
    BY <2>1 DEF Additions
  <2>3. own = [j \in 1..Len(declared[b]) |-> <<declared[b][j], ps>>] /\ Len(declared[b]) \in Nat
    BY <2>1
  <2> HIDE DEF own
  <2> QED
    BY <2>2, <2>3
<1>4. OneTurn(f, b, ps) = FlattenSeq(nested) \o own
  BY Zenon DEF OneTurn
<1> HIDE DEF nested, own
<1> QED
  BY <1>2, <1>3, <1>4

\* A turn looks at the blueprints mounted here only.
LEMMA OneTurnLocal ==
  ASSUME NEW f, NEW g, NEW b, NEW ps,
         \A i \in DOMAIN mounted[b] : f[mounted[b][i].bp] = g[mounted[b][i].bp]
  PROVE  OneTurn(f, b, ps) = OneTurn(g, b, ps)
<1>1. ASSUME NEW p PROVE NestedBy(f, b, p) = NestedBy(g, b, p)
  <2> DEFINE inner(h, i) == FlattenSeq([j \in DOMAIN mounted[b][i].prefixes |->
                               h[mounted[b][i].bp][<<Join(p, mounted[b][i].prefixes[j])>>]])
  <2>1. ASSUME NEW i \in DOMAIN mounted[b] PROVE inner(f, i) = inner(g, i)
    OBVIOUS
  <2>2. /\ NestedBy(f, b, p) = FlattenSeq([i \in DOMAIN mounted[b] |-> inner(f, i)])
        /\ NestedBy(g, b, p) = FlattenSeq([i \in DOMAIN mounted[b] |-> inner(g, i)])
    BY Zenon DEF NestedBy
  <2> HIDE DEF inner
  <2>3. [i \in DOMAIN mounted[b] |-> inner(f, i)] = [i \in DOMAIN mounted[b] |-> inner(g, i)]
    BY <2>1
  <2> QED
    BY <2>2, <2>3
<1>2. [k \in DOMAIN ps |-> NestedBy(f, b, ps[k])] = [k \in DOMAIN ps |-> NestedBy(g, b, ps[k])]
  BY <1>1
<1> QED
  BY <1>2, Zenon DEF OneTurn

\* The recursion ends, because the blueprints are a tree.
LEMMA TurnsExist ==
  ASSUME DeclaredType, IsTree
  PROVE  \E f \in [Blueprints -> Gathered] : Turns(f)
<1> DEFINE N == Cardinality(Blueprints)
           M == N + 2
           D == [Blueprints -> Gathered]
           turn(f) == [b \in Blueprints |-> [ps \in Seq(Paths) |-> OneTurn(f, b, ps)]]
           base == [b \in Blueprints |-> [ps \in Seq(Paths) |-> <<>>]]
           step == [k \in 1..M |-> [f \in D |-> turn(f)]]
<1>0. N \in Nat
  BY ApplicationAssumption, FS_CardinalityType
<1>1. PICK depth \in [Blueprints -> 0..N] : Deeper(depth)
  BY DEF IsTree
<1>2. \A b \in Blueprints : \A i \in DOMAIN mounted[b] : mounted[b][i].bp \in Blueprints
  <2> SUFFICES ASSUME NEW b \in Blueprints, NEW i \in DOMAIN mounted[b] PROVE mounted[b][i].bp \in Blueprints
    OBVIOUS
  <2>1. mounted[b] \in Seq(Nestings)
    BY DEF DeclaredType
  <2>2. mounted[b][i] \in Nestings
    BY <2>1
  <2> QED
    BY <2>2 DEF Nestings
<1>3. ASSUME NEW f \in D PROVE turn(f) \in D
  <2>1. ASSUME NEW b \in Blueprints, NEW ps \in Seq(Paths) PROVE OneTurn(f, b, ps) \in Seq(Additions)
    <3>1. \A i \in DOMAIN mounted[b] : f[mounted[b][i].bp] \in Gathered
      BY <1>2
    <3> QED
      BY <3>1, OneTurnType
  <2> QED
    BY <2>1 DEF Gathered
<1>4. base \in D
  <2>1. <<>> \in Seq(Additions)
    OBVIOUS
  <2> QED
    BY <2>1 DEF Gathered
<1> HIDE DEF turn, base, D
<1>5. PICK g \in [0..M -> D] : Recurs(g, M, base, step)
  <2>1. step \in [1..M -> [D -> D]]
    BY <1>3
  <2>2. M \in Nat
    BY <1>0
  <2> HIDE DEF step, M
  <2> QED
    BY <1>4, <2>1, <2>2, Recursion
<1>6. ASSUME NEW k \in 1..M PROVE g[k] = turn(g[k - 1])
  <2>1. k - 1 \in 0..M
    BY <1>0
  <2>2. g[k - 1] \in D
    BY <2>1
  <2>3. g[k] = step[k][g[k - 1]]
    <3> HIDE DEF step, M
    <3> QED
      BY <1>5 DEF Recurs
  <2> QED
    BY <2>2, <2>3
<1> DEFINE Settled(k) == \A b \in Blueprints : depth[b] > N - k => g[k][b] = g[k + 1][b]
           S == {k \in 0..N + 1 : Settled(k)}
<1>7. 0 \in S
  BY <1>0, <1>1
<1>8. ASSUME NEW k \in 1..N + 1, k - 1 \in S PROVE k \in S
  <2> SUFFICES ASSUME NEW b \in Blueprints, depth[b] > N - k PROVE g[k][b] = g[k + 1][b]
    BY <1>0
  <2>1. k \in 1..M /\ k + 1 \in 1..M /\ (k + 1) - 1 = k /\ (k - 1) + 1 = k
    BY <1>0
  <2>2. ASSUME NEW i \in DOMAIN mounted[b]
        PROVE  g[k - 1][mounted[b][i].bp] = g[k][mounted[b][i].bp]
    <3> DEFINE c == mounted[b][i].bp
    <3>1. c \in Blueprints /\ depth[c] > depth[b]
      BY <1>1, <1>2 DEF Deeper
    <3>2. Settled(k - 1)
      BY <1>8
    <3> HIDE DEF c
    <3>3. depth[c] > N - (k - 1)
      <4>1. depth[c] \in Nat /\ depth[b] \in Nat
        BY <1>1, <3>1
      <4> QED
        BY <1>0, <3>1, <4>1
    <3>4. g[k - 1][c] = g[(k - 1) + 1][c]
      BY <3>1, <3>2, <3>3
    <3> QED
      BY <2>1, <3>4 DEF c
  <2>3. \A ps : OneTurn(g[k - 1], b, ps) = OneTurn(g[k], b, ps)
    BY <2>2, OneTurnLocal
  <2>4. turn(g[k - 1])[b] = turn(g[k])[b]
    BY <2>3 DEF turn
  <2>5. g[k] = turn(g[k - 1]) /\ g[k + 1] = turn(g[k])
    <3>1. g[k + 1] = turn(g[(k + 1) - 1])
      BY <1>6, <2>1
    <3> QED
      BY <1>6, <2>1, <3>1
  <2> QED
    BY <2>4, <2>5
<1>9. Settled(N + 1)
  <2>1. 0..N + 1 \subseteq S
    <3>1. N + 1 \in Nat
      BY <1>0
    <3> HIDE DEF S
    <3> QED
      BY <1>7, <1>8, <3>1, InductionUpTo
  <2> QED
    BY <1>0, <2>1
<1>10. g[N + 1] = g[N + 2]
  <2>1. g[N + 1] \in D /\ g[N + 2] \in D
    <3>1. N + 1 \in 0..M /\ N + 2 \in 0..M
      BY <1>0
    <3> QED
      BY <3>1
  <2>2. \A b \in Blueprints : depth[b] > N - (N + 1)
    BY <1>0, <1>1
  <2>3. \A b \in Blueprints : g[N + 1][b] = g[(N + 1) + 1][b]
    BY <1>9, <2>2
  <2>4. (N + 1) + 1 = N + 2
    BY <1>0
  <2> QED
    BY <2>1, <2>3, <2>4 DEF D
<1>11. g[N + 2] = turn(g[N + 1])
  <2>1. N + 2 \in 1..M /\ (N + 2) - 1 = N + 1
    BY <1>0
  <2>2. g[N + 2] = turn(g[(N + 2) - 1])
    BY <1>6, <2>1
  <2> QED
    BY <2>1, <2>2
<1>12. g[N + 1] \in D
  <2>1. N + 1 \in 0..M
    BY <1>0
  <2> QED
    BY <2>1
<1>13. Turns(g[N + 1])
  BY <1>10, <1>11, Zenon DEF Turns, turn
<1> QED
  BY <1>12, <1>13 DEF D

\* So what RoutesOf returns is what it says, and has its type.
LEMMA RoutesOfProperties ==
  ASSUME DeclaredType, IsTree
  PROVE  \E f \in [Blueprints -> Gathered] :
            /\ \A b \in Blueprints, ps \in Seq(Paths) : f[b][ps] = OneTurn(f, b, ps)
            /\ \A b, ps : RoutesOf(b, ps) = f[b][ps]
<1> DEFINE f == CHOOSE f : Turns(f)
           N == Cardinality(Blueprints)
<1>1. Turns(f)
  BY TurnsExist, Zenon
<1>2. \A b, ps : RoutesOf(b, ps) = f[b][ps]
  BY RoutesOfTurns
<1> HIDE DEF f
<1>3. \A b \in Blueprints, ps \in Seq(Paths) : f[b][ps] = OneTurn(f, b, ps)
  BY <1>1 DEF Turns
<1>4. N \in Nat
  BY ApplicationAssumption, FS_CardinalityType
<1>5. PICK depth \in [Blueprints -> 0..N] : Deeper(depth)
  BY DEF IsTree
<1> DEFINE S == {k \in 0..N + 1 : \A b \in Blueprints : depth[b] > N - k => f[b] \in Gathered}
<1>6. 0 \in S
  BY <1>4, <1>5
<1>7. ASSUME NEW k \in 1..N + 1, k - 1 \in S PROVE k \in S
  <2> SUFFICES ASSUME NEW b \in Blueprints, depth[b] > N - k PROVE f[b] \in Gathered
    BY <1>4
  <2>1. ASSUME NEW i \in DOMAIN mounted[b]
        PROVE  f[mounted[b][i].bp] \in Gathered
    <3> DEFINE c == mounted[b][i].bp
    <3>1. c \in Blueprints
      <4>1. mounted[b] \in Seq(Nestings)
        BY DEF DeclaredType
      <4>2. mounted[b][i] \in Nestings
        BY <4>1
      <4> QED
        BY <4>2 DEF Nestings
    <3>2. depth[c] > depth[b]
      BY <1>5 DEF Deeper
    <3>3. \A a \in Blueprints : depth[a] > N - (k - 1) => f[a] \in Gathered
      BY <1>7
    <3> HIDE DEF c
    <3>4. depth[c] > N - (k - 1)
      <4>1. depth[c] \in Nat /\ depth[b] \in Nat
        BY <1>5, <3>1
      <4> QED
        BY <1>4, <3>2, <4>1
    <3> QED
      BY <3>1, <3>3, <3>4 DEF c
  <2>2. \A ps \in Seq(Paths) : OneTurn(f, b, ps) \in Seq(Additions)
    BY <2>1, OneTurnType
  <2>3. f[b] = [ps \in Seq(Paths) |-> OneTurn(f, b, ps)]
    BY <1>1 DEF Turns
  <2> QED
    BY <2>2, <2>3 DEF Gathered
<1>8. 0..N + 1 \subseteq S
  <2>1. N + 1 \in Nat
    BY <1>4
  <2> HIDE DEF S
  <2> QED
    BY <1>6, <1>7, <2>1, InductionUpTo
<1>9. \A b \in Blueprints : f[b] \in Gathered
  <2>1. N + 1 \in S
    BY <1>4, <1>8
  <2>2. \A b \in Blueprints : depth[b] > N - (N + 1)
    BY <1>4, <1>5
  <2> QED
    BY <2>1, <2>2
<1>10. f \in [Blueprints -> Gathered]
  <2>1. f = [b \in Blueprints |-> f[b]]
    BY <1>1, Zenon DEF Turns
  <2> QED
    BY <1>9, <2>1
<1> QED
  BY <1>2, <1>3, <1>10

-----------------------------------------------------------------------------
(* The exception handlers.                                                 *)

\* What a dict of exception handlers can be: one handler for a class.
HandlerDicts == {s \in Seq(Handlers) : \A i, j \in 1..Len(s) : s[i].exc = s[j].exc => i = j}

LEMMA PutProperties ==
  ASSUME NEW s \in HandlerDicts, NEW x \in Handlers
  PROVE  /\ Put(s, x) \in HandlerDicts
         /\ ToSet(Put(s, x)) = {y \in ToSet(s) : y.exc # x.exc} \cup {x}
<1> DEFINE I == {i \in 1..Len(s) : s[i].exc = x.exc}
           at == IF I # {} THEN Min(I) ELSE 0
           p == Put(s, x)
<1>0. /\ s \in Seq(Handlers) /\ Len(s) \in Nat /\ DOMAIN s = 1..Len(s)
      /\ \A i, j \in 1..Len(s) : s[i].exc = s[j].exc => i = j
      /\ \A i \in 1..Len(s) : s[i] \in Handlers
  BY DEF HandlerDicts
<1>1. p = IF at = 0 THEN Append(s, x) ELSE [s EXCEPT ![at] = x]
  BY Zenon DEF Put, SelectInSeq
<1> HIDE DEF p
<1>2. CASE I = {}
  <2>1. p = Append(s, x)
    BY <1>1, <1>2
  <2>2. /\ p \in Seq(Handlers) /\ Len(p) = Len(s) + 1 /\ p[Len(s) + 1] = x
        /\ \A i \in 1..Len(s) : p[i] = s[i]
    BY <1>0, <2>1
  <2>3. \A i \in 1..Len(s) : s[i].exc # x.exc
    BY <1>2
  <2>4. \A i, j \in 1..Len(p) : p[i].exc = p[j].exc => i = j
    BY <1>0, <2>2, <2>3
  <2>5. ToSet(p) = ToSet(s) \cup {x}
    <3>1. ToSet(p) = {p[i] : i \in 1..Len(s) + 1}
      BY <2>2 DEF ToSet
    <3>2. 1..Len(s) + 1 = 1..Len(s) \cup {Len(s) + 1}
      BY <1>0
    <3>3. ToSet(s) = {s[i] : i \in 1..Len(s)}
      BY <1>0 DEF ToSet
    <3> DEFINE n == Len(s)
    <3> HIDE DEF n
    <3> QED
      BY <2>2, <3>1, <3>2, <3>3 DEF n
  <2>6. \A y \in ToSet(s) : y.exc # x.exc
    BY <1>0, <2>3 DEF ToSet
  <2> QED
    BY <2>2, <2>4, <2>5, <2>6 DEF HandlerDicts, p
<1>3. CASE I # {}
  <2>1. PICK k \in I : \A i \in I : k <= i
    <3>1. I \in SUBSET (Nat \ {0})
      OBVIOUS
    <3> HIDE DEF I
    <3> QED
      BY <1>3, <3>1, Least
  <2>2. Min(I) \in I
    <3> HIDE DEF I
    <3> QED
      BY <2>1, Zenon DEF Min
  <2>3. PICK m \in 1..Len(s) : m = Min(I) /\ s[m].exc = x.exc
    BY <2>2
  <2>4. p = [s EXCEPT ![m] = x]
    <3> HIDE DEF I
    <3> QED
      BY <1>1, <1>3, <2>3
  <2>5. /\ p \in Seq(Handlers) /\ Len(p) = Len(s) /\ DOMAIN p = 1..Len(s)
        /\ \A i \in 1..Len(s) : p[i] = IF i = m THEN x ELSE s[i]
    BY <1>0, <2>4
  <2>6. \A i, j \in 1..Len(p) : p[i].exc = p[j].exc => i = j
    BY <1>0, <2>3, <2>5
  <2>7. \A i \in 1..Len(s) : i # m => s[i].exc # x.exc
    BY <1>0, <2>3
  <2>8. ASSUME NEW y PROVE y \in ToSet(p) <=> y \in {z \in ToSet(s) : z.exc # x.exc} \cup {x}
    <3>1. y \in ToSet(p) <=> \E i \in 1..Len(s) : p[i] = y
      BY <2>5 DEF ToSet
    <3>2. y \in ToSet(s) <=> \E i \in 1..Len(s) : s[i] = y
      BY <1>0 DEF ToSet
    <3> QED
      BY <2>3, <2>5, <2>7, <3>1, <3>2
  <2> QED
    BY <2>5, <2>6, <2>8 DEF HandlerDicts, p
<1> QED
  BY <1>2, <1>3

LEMMA DefaultType ==
  ASSUME NEW class \in DefaultClasses
  PROVE  Default(class) \in Handlers /\ Default(class).exc = class /\ Default(class).answers
BY ApplicationAssumption DEF Default, Handlers

\* The handler of a class initialize adds.
WithDefault(t, class) ==
    IF class # "MissingComponent" /\ \E i \in DOMAIN t : t[i].exc = class THEN t
    ELSE Put(t, Default(class))

LEMMA WithDefaultProperties ==
  ASSUME NEW t \in HandlerDicts, NEW class \in DefaultClasses
  PROVE  /\ WithDefault(t, class) \in HandlerDicts
         /\ \/ WithDefault(t, class) = t /\ class # "MissingComponent" /\ \E y \in ToSet(t) : y.exc = class
            \/ ToSet(WithDefault(t, class)) = {y \in ToSet(t) : y.exc # class} \cup {Default(class)}
<1>1. Default(class) \in Handlers /\ Default(class).exc = class
  BY DefaultType
<1>2. /\ Put(t, Default(class)) \in HandlerDicts
      /\ ToSet(Put(t, Default(class))) = {y \in ToSet(t) : y.exc # class} \cup {Default(class)}
  BY <1>1, PutProperties
<1>3. CASE class # "MissingComponent" /\ \E i \in DOMAIN t : t[i].exc = class
  BY <1>3 DEF WithDefault, ToSet
<1> QED
  BY <1>2, <1>3 DEF WithDefault
LEMMA WithDefaultKeeps ==
  ASSUME NEW t \in HandlerDicts, NEW class \in DefaultClasses, class # "MissingComponent"
  PROVE  /\ \A y \in ToSet(WithDefault(t, class)) : y \in ToSet(t) \/ y = Default(class)
         /\ \A y \in ToSet(t) : y \in ToSet(WithDefault(t, class))
         /\ Default(class) \in ToSet(WithDefault(t, class)) \/ \E y \in ToSet(t) : y.exc = class
<1>1. CASE \E y \in ToSet(t) : y.exc = class
  <2>1. WithDefault(t, class) = t
    BY <1>1 DEF WithDefault, ToSet
  <2> QED
    BY <1>1, <2>1
<1>2. CASE ~\E y \in ToSet(t) : y.exc = class
  <2>1. ToSet(WithDefault(t, class)) = {y \in ToSet(t) : y.exc # class} \cup {Default(class)}
    BY <1>2, WithDefaultProperties
  <2> QED
    BY <1>2, <2>1
<1> QED
  BY <1>1, <1>2

DefaultOrder == <<"MissingComponent", "Exception", "NotFound", "MethodNotAllowed">>

\* The defaults are added one after the other.
LEMMA WithDefaultsSteps ==
  ASSUME NEW s \in HandlerDicts
  PROVE  \E h \in [0..Len(DefaultOrder) -> HandlerDicts] :
            /\ h[0] = s /\ h[Len(DefaultOrder)] = WithDefaults(s)
            /\ \A k \in 1..Len(DefaultOrder) : h[k] = WithDefault(h[k - 1], DefaultOrder[k])
<1> DEFINE q == DefaultOrder
           n == Len(q)
           op(d, k) == WithDefault(d, q[k])
           step == [k \in 1..n |-> [d \in HandlerDicts |-> op(d, k)]]
           Is(f) == f = [u \in SUBSET DOMAIN q |-> IF u = {} THEN s ELSE op(f[u \ {Max(u)}], Max(u))]
<1>0. q \in Seq(DefaultClasses) /\ n \in Nat /\ DOMAIN q = 1..n
  BY DEF DefaultOrder, DefaultClasses
<1>1. ASSUME NEW k \in 1..n, NEW d \in HandlerDicts PROVE op(d, k) \in HandlerDicts
  <2>1. q[k] \in DefaultClasses
    BY <1>0
  <2> HIDE DEF n, q
  <2> QED
    BY <2>1, WithDefaultProperties
<1> DEFINE f == CHOOSE f : Is(f)
<1>2. WithDefaults(s) = f[1..n]
  <2>1. WithDefaults(s) = f[DOMAIN q]
    BY Zenon DEF WithDefaults, FoldLeft, MapThenFoldSet, WithDefault, DefaultOrder
  <2> HIDE DEF f, n
  <2> QED
    BY <1>0, <2>1
<1> HIDE DEF op, n
<1>3. step \in [1..n -> [HandlerDicts -> HandlerDicts]]
  BY <1>1
<1>4. PICK g \in [SUBSET (1..n) -> HandlerDicts] : Folds(g, n, s, step)
  <2> HIDE DEF step
  <2> QED
    BY <1>0, <1>3, FoldRecursion
<1>5. Is(g)
  <2>1. ASSUME NEW u \in SUBSET (1..n), u # {} PROVE g[u] = op(g[u \ {Max(u)}], Max(u))
    <3>1. Max(u) \in u /\ \A i \in u : i <= Max(u)
      BY <1>0, <2>1, Greatest
    <3>2. g[u \ {Max(u)}] \in HandlerDicts /\ Max(u) \in 1..n
      BY <3>1
    <3> HIDE DEF step
    <3>3. g[u] = step[Max(u)][g[u \ {Max(u)}]]
      BY <1>4, <2>1, <3>1 DEF Folds
    <3> QED
      BY <3>2, <3>3 DEF step
  <2>2. g[{}] = s
    BY <1>4 DEF Folds
  <2> QED
    BY <1>0, <1>4, <2>1, <2>2
<1>6. Is(f)
  <2> HIDE DEF Is
  <2> QED
    BY <1>5
<1> HIDE DEF f
<1>7. f[{}] = s
  BY <1>6
<1>8. ASSUME NEW k \in 1..n PROVE f[1..k] = op(f[1..k - 1], k)
  <2>1. k \in Nat \ {0} /\ 1..k \in SUBSET (1..n)
    BY <1>0
  <2>2. 1..k # {} /\ Max(1..k) = k /\ (1..k) \ {Max(1..k)} = 1..k - 1
    BY <2>1, GreatestUpTo
  <2>3. f[1..k] = op(f[(1..k) \ {Max(1..k)}], Max(1..k))
    BY <1>0, <1>6, <2>1, <2>2
  <2> QED
    BY <2>2, <2>3
<1>9. PICK h \in [0..n -> HandlerDicts] : Recurs(h, n, s, step) /\ h[n] = f[1..n]
  <2>1. Climbs(f, n, HandlerDicts, s, step)
    BY <1>0, <1>3, <1>7, <1>8 DEF Climbs
  <2> HIDE DEF step
  <2> QED
    BY <2>1, FoldSteps
<1>10. ASSUME NEW k \in 1..n PROVE h[k] = op(h[k - 1], k)
  <2>1. h[k - 1] \in HandlerDicts
    <3>1. k - 1 \in 0..n
      BY <1>0
    <3> QED
      BY <3>1
  <2>2. h[k] = step[k][h[k - 1]]
    <3> HIDE DEF step
    <3> QED
      BY <1>9 DEF Recurs
  <2> QED
    BY <2>1, <2>2
<1>11. h[0] = s
  BY <1>9 DEF Recurs
<1> QED
  BY <1>2, <1>9, <1>10, <1>11, Zenon DEF n, op

\* Afterwards there is a handler for each class of the defaults, and it is the
\* default unless the program has one of its own.
LEMMA WithDefaultsProperties ==
  ASSUME NEW s \in HandlerDicts
  PROVE  /\ WithDefaults(s) \in HandlerDicts
         /\ \A y \in ToSet(WithDefaults(s)) : y \in ToSet(s) \/ \E c \in DefaultClasses : y = Default(c)
         /\ \A y \in ToSet(s) : y \in ToSet(WithDefaults(s)) \/ y.exc = "MissingComponent"
         /\ \A c \in DefaultClasses : \/ Default(c) \in ToSet(WithDefaults(s))
                                     \/ \E y \in ToSet(s) : y.exc = c /\ c # "MissingComponent"
<1>1. PICK h \in [0..Len(DefaultOrder) -> HandlerDicts] :
         /\ h[0] = s /\ h[Len(DefaultOrder)] = WithDefaults(s)
         /\ \A k \in 1..Len(DefaultOrder) : h[k] = WithDefault(h[k - 1], DefaultOrder[k])
  BY WithDefaultsSteps
<1>2. Len(DefaultOrder) = 4
  BY DEF DefaultOrder
<1>3. PICK a \in HandlerDicts, b \in HandlerDicts, c \in HandlerDicts, d \in HandlerDicts :
         /\ a = WithDefault(s, "MissingComponent") /\ b = WithDefault(a, "Exception")
         /\ c = WithDefault(b, "NotFound") /\ d = WithDefault(c, "MethodNotAllowed")
         /\ WithDefaults(s) = d
  <2>1. \A k \in 0..4 : h[k] \in HandlerDicts
    BY <1>1, <1>2
  <2>2. h[0] = s /\ h[4] = WithDefaults(s)
    BY <1>1, <1>2
  <2>3. /\ h[1] = WithDefault(h[1 - 1], DefaultOrder[1]) /\ h[2] = WithDefault(h[2 - 1], DefaultOrder[2])
        /\ h[3] = WithDefault(h[3 - 1], DefaultOrder[3]) /\ h[4] = WithDefault(h[4 - 1], DefaultOrder[4])
    <3>1. 1 \in 1..4 /\ 2 \in 1..4 /\ 3 \in 1..4 /\ 4 \in 1..4
      OBVIOUS
    <3> QED
      BY <1>1, <1>2, <3>1
  <2>4. /\ DefaultOrder[1] = "MissingComponent" /\ DefaultOrder[2] = "Exception"
        /\ DefaultOrder[3] = "NotFound" /\ DefaultOrder[4] = "MethodNotAllowed"
    BY DEF DefaultOrder
  <2>5. 1 - 1 = 0 /\ 2 - 1 = 1 /\ 3 - 1 = 2 /\ 4 - 1 = 3
    OBVIOUS
  <2>6. h[1] \in HandlerDicts /\ h[2] \in HandlerDicts /\ h[3] \in HandlerDicts /\ h[4] \in HandlerDicts
    BY <2>1
  <2>7. /\ h[1] = WithDefault(s, "MissingComponent") /\ h[2] = WithDefault(h[1], "Exception")
        /\ h[3] = WithDefault(h[2], "NotFound") /\ h[4] = WithDefault(h[3], "MethodNotAllowed")
    BY <2>2, <2>3, <2>4, <2>5
  <2> QED
    BY <2>2, <2>6, <2>7
<1>4. /\ "MissingComponent" \in DefaultClasses /\ "Exception" \in DefaultClasses
      /\ "NotFound" \in DefaultClasses /\ "MethodNotAllowed" \in DefaultClasses
      /\ \A x \in DefaultClasses : x \in {"MissingComponent", "Exception", "NotFound", "MethodNotAllowed"}
  BY DEF DefaultClasses
<1>5. \A x \in DefaultClasses : Default(x).exc = x
  BY DefaultType
<1>6. /\ \A y \in ToSet(a) : y \in ToSet(s) \/ y = Default("MissingComponent")
      /\ \A y \in ToSet(s) : y \in ToSet(a) \/ y.exc = "MissingComponent"
      /\ Default("MissingComponent") \in ToSet(a)
  BY <1>3, <1>4, WithDefaultProperties
<1>7. /\ \A y \in ToSet(b) : y \in ToSet(a) \/ y = Default("Exception")
      /\ \A y \in ToSet(a) : y \in ToSet(b)
      /\ Default("Exception") \in ToSet(b) \/ \E y \in ToSet(a) : y.exc = "Exception"
  BY <1>3, <1>4, WithDefaultKeeps
<1>8. /\ \A y \in ToSet(c) : y \in ToSet(b) \/ y = Default("NotFound")
      /\ \A y \in ToSet(b) : y \in ToSet(c)
      /\ Default("NotFound") \in ToSet(c) \/ \E y \in ToSet(b) : y.exc = "NotFound"
  BY <1>3, <1>4, WithDefaultKeeps
<1>9. /\ \A y \in ToSet(d) : y \in ToSet(c) \/ y = Default("MethodNotAllowed")
      /\ \A y \in ToSet(c) : y \in ToSet(d)
      /\ Default("MethodNotAllowed") \in ToSet(d) \/ \E y \in ToSet(c) : y.exc = "MethodNotAllowed"
  BY <1>3, <1>4, WithDefaultKeeps
<1>10. \A y \in ToSet(d) : y \in ToSet(s) \/ \E x \in DefaultClasses : y = Default(x)
  BY <1>4, <1>6, <1>7, <1>8, <1>9
<1>11. \A y \in ToSet(s) : y \in ToSet(d) \/ y.exc = "MissingComponent"
  BY <1>6, <1>7, <1>8, <1>9
<1>12. \A x \in DefaultClasses : \/ Default(x) \in ToSet(d)
                                \/ \E y \in ToSet(s) : y.exc = x /\ x # "MissingComponent"
  BY <1>4, <1>5, <1>6, <1>7, <1>8, <1>9
<1> QED
  BY <1>3, <1>10, <1>11, <1>12

\* In a list of handlers, none is for a superclass of a later one's.
Ordered(s) == \A i, j \in 1..Len(s) : i < j => s[i].exc \notin Super[s[j].exc]

\* The handlers of which no superclass is left.
Ready(q) == {i \in DOMAIN q : \A j \in DOMAIN q \ {i} : q[j].exc \notin Super[q[i].exc]}

\* The sort on its way from s: nothing is lost, and no class that is left is a
\* superclass of one that is sorted.
Sortings(s) ==
    {t \in [left : HandlerDicts, sorted : HandlerDicts] :
        /\ ToSet(t.left) \cup ToSet(t.sorted) = ToSet(s)
        /\ \A x \in ToSet(t.left), y \in ToSet(t.sorted) : x.exc \notin Super[y.exc]
        /\ Ordered(t.sorted)}

Without(q, i) == SubSeq(q, i + 1, Len(q)) \o SubSeq(q, 1, i - 1)

OneSort(t) ==
    IF Ready(t.left) = {} THEN t
    ELSE [left |-> Without(t.left, Max(Ready(t.left))),
          sorted |-> <<t.left[Max(Ready(t.left))]>> \o t.sorted]

LEMMA HandlerDictProperties ==
  ASSUME NEW s \in HandlerDicts
  PROVE  /\ s \in Seq(Handlers) /\ Len(s) \in Nat /\ DOMAIN s = 1..Len(s)
         /\ \A i \in 1..Len(s) : s[i] \in Handlers /\ s[i].exc \in DOMAIN Super
         /\ \A i, j \in 1..Len(s) : s[i].exc = s[j].exc => i = j
         /\ \A y : y \in ToSet(s) <=> \E i \in 1..Len(s) : s[i] = y
         /\ ToSet(s) \subseteq Handlers
<1>1. /\ s \in Seq(Handlers) /\ Len(s) \in Nat /\ DOMAIN s = 1..Len(s)
      /\ \A i, j \in 1..Len(s) : s[i].exc = s[j].exc => i = j
  BY DEF HandlerDicts
<1>2. \A i \in 1..Len(s) : s[i] \in Handlers
  BY <1>1
<1>3. \A x \in Handlers : x.exc \in DOMAIN Super
  BY DEF Handlers
<1>4. \A y : y \in ToSet(s) <=> \E i \in 1..Len(s) : s[i] = y
  BY <1>1 DEF ToSet
<1> QED
  BY <1>1, <1>2, <1>3, <1>4

\* There is always one that can be sorted next.
LEMMA OneIsReady ==
  ASSUME NEW q \in HandlerDicts, q # <<>>
  PROVE  Ready(q) # {}
<1> DEFINE n == Len(q)
           Classes == {Super[q[i].exc] : i \in 1..n}
<1>1. /\ n \in Nat \ {0} /\ DOMAIN q = 1..n
      /\ \A i \in 1..n : q[i].exc \in DOMAIN Super
      /\ \A i, j \in 1..n : q[i].exc = q[j].exc => i = j
  BY HandlerDictProperties, EmptySeq
<1>2. \A c \in DOMAIN Super : Super[c] \in FiniteSubsetsOf(DOMAIN Super)
  BY ApplicationAssumption, FS_Subset DEF FiniteSubsetsOf
<1>3. Classes \subseteq FiniteSubsetsOf(DOMAIN Super) /\ Classes # {}
  <2>1. 1 \in 1..n
    BY <1>1
  <2> QED
    BY <1>1, <1>2, <2>1
<1>4. PICK x \in Classes : \A y \in Classes : ~(<<y, x>> \in StrictSubsetOrdering(DOMAIN Super))
  <2> HIDE DEF Classes
  <2> QED
    BY <1>3, ApplicationAssumption, FS_StrictSubsetOrderingWellFounded, WFMin
<1>5. PICK i \in 1..n : x = Super[q[i].exc]
  OBVIOUS
<1>6. ASSUME NEW j \in 1..n, j # i, q[j].exc \in Super[q[i].exc] PROVE FALSE
  <2>1. /\ Super[q[j].exc] \subseteq Super[q[i].exc]
        /\ q[i].exc \in Super[q[j].exc] => q[i].exc = q[j].exc
    BY <1>1, <1>6, ApplicationAssumption
  <2>2. q[i].exc \notin Super[q[j].exc] /\ q[i].exc \in Super[q[i].exc]
    BY <1>1, <1>6, <2>1, ApplicationAssumption
  <2>3. Super[q[j].exc] \in SUBSET (DOMAIN Super) /\ Super[q[i].exc] \in SUBSET (DOMAIN Super)
    BY <1>1, ApplicationAssumption
  <2>4. <<Super[q[j].exc], Super[q[i].exc]>> \in StrictSubsetOrdering(DOMAIN Super)
    BY <2>1, <2>2, <2>3 DEF StrictSubsetOrdering
  <2> QED
    BY <1>4, <1>5, <2>4
<1> QED
  BY <1>1, <1>6 DEF Ready

LEMMA TailProperties ==
  ASSUME NEW A, NEW s \in Seq(A), NEW i \in 1..Len(s)
  PROVE  /\ SubSeq(s, i + 1, Len(s)) \in Seq(A) /\ Len(SubSeq(s, i + 1, Len(s))) = Len(s) - i
         /\ \A k \in 1..Len(s) - i : SubSeq(s, i + 1, Len(s))[k] = s[i + k]
<1> DEFINE m == i + 1
           n == Len(s)
<1>1. m \in Int /\ n \in Int /\ \A k \in m..n : s[k] \in A
  OBVIOUS
<1> HIDE DEF m, n
<1>2. /\ SubSeq(s, m, n) \in Seq(A)
      /\ Len(SubSeq(s, m, n)) = IF m <= n THEN n - m + 1 ELSE 0
      /\ \A k \in 1..n - m + 1 : SubSeq(s, m, n)[k] = s[m + k - 1]
  BY <1>1, SubSeqProperties
<1>3. \A k \in 1..n - i : k \in 1..n - m + 1 /\ m + k - 1 = i + k
  BY <1>1 DEF m
<1>4. (IF m <= n THEN n - m + 1 ELSE 0) = n - i
  BY <1>1 DEF m, n
<1>5. Len(SubSeq(s, m, n)) = n - i /\ \A k \in 1..n - i : SubSeq(s, m, n)[k] = s[i + k]
  BY <1>2, <1>3, <1>4
<1> QED
  BY <1>2, <1>5 DEF m, n

\* A handler is taken out of the queue, and those before it go to its end.
LEMMA WithoutProperties ==
  ASSUME NEW q \in HandlerDicts, NEW i \in 1..Len(q)
  PROVE  /\ Without(q, i) \in HandlerDicts /\ Len(Without(q, i)) = Len(q) - 1
         /\ \A y : y \in ToSet(Without(q, i)) <=> y \in ToSet(q) /\ y # q[i]
<1> DEFINE n == Len(q)
           r == Without(q, i)
           at(k) == IF k <= n - i THEN i + k ELSE k - (n - i)
<1>1. /\ q \in Seq(Handlers) /\ n \in Nat /\ DOMAIN q = 1..n
      /\ \A k \in 1..n : q[k] \in Handlers
      /\ \A k, j \in 1..n : q[k].exc = q[j].exc => k = j
      /\ \A y : y \in ToSet(q) <=> \E k \in 1..n : q[k] = y
  BY HandlerDictProperties
<1>2. r \in Seq(Handlers) /\ Len(r) = n - 1 /\ \A k \in 1..n - 1 : r[k] = q[at(k)]
  <2> DEFINE a == SubSeq(q, i + 1, n)
             b == SubSeq(q, 1, i - 1)
  <2>1. a \in Seq(Handlers) /\ Len(a) = n - i /\ \A k \in 1..n - i : a[k] = q[i + k]
    <3>1. q \in Seq(Handlers) /\ i \in 1..Len(q)
      BY <1>1
    <3>2. /\ SubSeq(q, i + 1, Len(q)) \in Seq(Handlers) /\ Len(SubSeq(q, i + 1, Len(q))) = Len(q) - i
          /\ \A k \in 1..Len(q) - i : SubSeq(q, i + 1, Len(q))[k] = q[i + k]
      BY <3>1, TailProperties, Zenon
    <3> QED
      BY <3>2, Zenon
  <2>2. b \in Seq(Handlers) /\ Len(b) = i - 1 /\ \A k \in 1..i - 1 : b[k] = q[k]
    BY <1>1
  <2>3. r = a \o b
    BY DEF Without
  <2> HIDE DEF a, b, r
  <2>4. r \in Seq(Handlers) /\ Len(r) = n - 1
    <3>1. r \in Seq(Handlers) /\ Len(r) = Len(a) + Len(b)
      BY <2>1, <2>2, <2>3
    <3> QED
      BY <1>1, <2>1, <2>2, <3>1
  <2>5. ASSUME NEW k \in 1..n - 1 PROVE r[k] = q[at(k)]
    <3>1. CASE k <= n - i
      BY <1>1, <2>1, <2>2, <2>3, <3>1
    <3>2. CASE k > n - i
      <4>1. r[k] = b[k - (n - i)] /\ k - (n - i) \in 1..i - 1
        BY <1>1, <2>1, <2>2, <2>3, <3>2
      <4> QED
        BY <1>1, <2>2, <3>2, <4>1
    <3> QED
      BY <1>1, <3>1, <3>2
  <2> QED
    BY <2>4, <2>5
<1> HIDE DEF r
<1>3. /\ \A k \in 1..n - 1 : at(k) \in 1..n /\ at(k) # i
      /\ \A k, j \in 1..n - 1 : at(k) = at(j) => k = j
  BY <1>1
<1>4. ASSUME NEW k \in 1..n, k # i PROVE \E j \in 1..n - 1 : at(j) = k
  <2>1. CASE k > i
    <3>1. k - i \in 1..n - 1 /\ at(k - i) = k
      BY <1>1, <2>1
    <3> QED
      BY <3>1
  <2>2. CASE k < i
    <3>1. k + (n - i) \in 1..n - 1 /\ at(k + (n - i)) = k
      BY <1>1, <2>2
    <3> QED
      BY <3>1
  <2> QED
    BY <1>1, <1>4, <2>1, <2>2
<1> HIDE DEF at
<1>5. r \in HandlerDicts
  <2>1. ASSUME NEW k \in 1..n - 1, NEW j \in 1..n - 1, r[k].exc = r[j].exc PROVE k = j
    BY <1>1, <1>2, <1>3, <2>1
  <2> QED
    BY <1>2, <2>1 DEF HandlerDicts
<1>6. ASSUME NEW y PROVE y \in ToSet(r) <=> y \in ToSet(q) /\ y # q[i]
  <2>1. y \in ToSet(r) <=> \E k \in 1..n - 1 : r[k] = y
    BY <1>2, <1>5, HandlerDictProperties
  <2>2. ASSUME NEW k \in 1..n - 1, r[k] = y PROVE y \in ToSet(q) /\ y # q[i]
    BY <1>1, <1>2, <1>3, <2>2
  <2>3. ASSUME NEW k \in 1..n, q[k] = y, y # q[i] PROVE \E j \in 1..n - 1 : r[j] = y
    <3>1. k # i
      BY <2>3
    <3> QED
      BY <1>2, <1>4, <2>3, <3>1
  <2> QED
    BY <1>1, <2>1, <2>2, <2>3
<1> QED
  BY <1>2, <1>5, <1>6 DEF r

LEMMA OneSortProperties ==
  ASSUME NEW s, NEW t \in Sortings(s)
  PROVE  /\ OneSort(t) \in Sortings(s)
         /\ t.left # <<>> => Len(OneSort(t).left) = Len(t.left) - 1
<1> DEFINE q == t.left
           u == t.sorted
           i == Max(Ready(q))
           left == Without(q, i)
           sorted == <<q[i]>> \o u
<1>1. /\ q \in HandlerDicts /\ u \in HandlerDicts /\ ToSet(q) \cup ToSet(u) = ToSet(s)
      /\ \A x \in ToSet(q), y \in ToSet(u) : x.exc \notin Super[y.exc]
      /\ Ordered(u)
  BY DEF Sortings
<1>2. CASE Ready(q) = {}
  <2>1. q = <<>>
    BY <1>1, <1>2, OneIsReady
  <2> QED
    BY <1>2, <2>1 DEF OneSort
<1>3. CASE Ready(q) # {}
  <2> HIDE DEF q, u
  <2>1. /\ q \in Seq(Handlers) /\ Len(q) \in Nat /\ DOMAIN q = 1..Len(q)
        /\ \A k \in 1..Len(q) : q[k] \in Handlers /\ q[k].exc \in DOMAIN Super
        /\ \A k, j \in 1..Len(q) : q[k].exc = q[j].exc => k = j
        /\ \A y : y \in ToSet(q) <=> \E k \in 1..Len(q) : q[k] = y
    BY <1>1, HandlerDictProperties
  <2>2. /\ u \in Seq(Handlers) /\ Len(u) \in Nat /\ DOMAIN u = 1..Len(u)
        /\ \A k \in 1..Len(u) : u[k] \in Handlers /\ u[k].exc \in DOMAIN Super
        /\ \A k, j \in 1..Len(u) : u[k].exc = u[j].exc => k = j
        /\ \A y : y \in ToSet(u) <=> \E k \in 1..Len(u) : u[k] = y
    BY <1>1, HandlerDictProperties
  <2>3. i \in Ready(q)
    <3>1. Ready(q) \in SUBSET (1..Len(q))
      BY <2>1 DEF Ready
    <3> QED
      BY <1>3, <2>1, <3>1, Greatest
  <2>4. i \in 1..Len(q) /\ \A j \in 1..Len(q) \ {i} : q[j].exc \notin Super[q[i].exc]
    BY <2>1, <2>3 DEF Ready
  <2> HIDE DEF i
  <2>5. /\ left \in HandlerDicts /\ Len(left) = Len(q) - 1
        /\ \A y : y \in ToSet(left) <=> y \in ToSet(q) /\ y # q[i]
    BY <1>1, <2>4, WithoutProperties
  <2> HIDE DEF left
  <2>6. q[i] \in Handlers /\ q[i] \in ToSet(q) /\ q[i].exc \in DOMAIN Super
    BY <2>1, <2>4
  <2>7. \A k \in 1..Len(u) : q[i].exc \notin Super[u[k].exc] /\ q[i].exc # u[k].exc
    BY <1>1, <2>2, <2>6, ApplicationAssumption
  <2>8. /\ sorted \in Seq(Handlers) /\ Len(sorted) = Len(u) + 1 /\ sorted[1] = q[i]
        /\ \A k \in 2..Len(u) + 1 : sorted[k] = u[k - 1]
    BY <2>2, <2>6
  <2> HIDE DEF sorted
  <2>9. sorted \in HandlerDicts
    <3>1. ASSUME NEW k \in 1..Len(sorted), NEW j \in 1..Len(sorted), sorted[k].exc = sorted[j].exc
          PROVE  k = j
      BY <2>2, <2>7, <2>8, <3>1
    <3> QED
      BY <2>8, <3>1 DEF HandlerDicts
  <2>10. Ordered(sorted)
    <3>1. ASSUME NEW k \in 1..Len(sorted), NEW j \in 1..Len(sorted), k < j
          PROVE  sorted[k].exc \notin Super[sorted[j].exc]
      <4>1. j \in 2..Len(u) + 1 /\ j - 1 \in 1..Len(u) /\ sorted[j] = u[j - 1]
        BY <2>2, <2>8, <3>1
      <4>2. CASE k = 1
        BY <2>7, <2>8, <4>1, <4>2
      <4>3. CASE k # 1
        <5>1. k - 1 \in 1..Len(u) /\ k - 1 < j - 1 /\ sorted[k] = u[k - 1]
          BY <2>2, <2>8, <3>1, <4>3
        <5> QED
          BY <1>1, <4>1, <5>1 DEF Ordered
      <4> QED
        BY <4>2, <4>3
    <3> QED
      BY <3>1 DEF Ordered
  <2>11. \A y : y \in ToSet(sorted) <=> y = q[i] \/ y \in ToSet(u)
    <3>1. \A y : y \in ToSet(sorted) <=> \E k \in 1..Len(sorted) : sorted[k] = y
      BY <2>9, HandlerDictProperties
    <3>2. ASSUME NEW y, NEW k \in 1..Len(sorted), sorted[k] = y PROVE y = q[i] \/ y \in ToSet(u)
      BY <2>2, <2>8, <3>2
    <3>3. ASSUME NEW y \in ToSet(u) PROVE \E k \in 1..Len(sorted) : sorted[k] = y
      <4>1. PICK k \in 1..Len(u) : u[k] = y
        BY <2>2
      <4>2. k + 1 \in 2..Len(u) + 1 /\ k + 1 \in 1..Len(sorted) /\ u[(k + 1) - 1] = u[k]
        BY <2>2, <2>8
      <4> QED
        BY <2>8, <4>1, <4>2
    <3>4. 1 \in 1..Len(sorted)
      BY <2>2, <2>8
    <3> QED
      BY <2>8, <3>1, <3>2, <3>3, <3>4
  <2>12. ASSUME NEW x \in ToSet(left), NEW y \in ToSet(sorted) PROVE x.exc \notin Super[y.exc]
    <3>1. PICK j \in 1..Len(q) : q[j] = x /\ j # i
      BY <2>1, <2>5
    <3> QED
      BY <1>1, <2>4, <2>5, <2>11, <3>1
  <2>13. ToSet(left) \cup ToSet(sorted) = ToSet(s)
    BY <1>1, <2>5, <2>6, <2>11
  <2>14. OneSort(t) = [left |-> left, sorted |-> sorted]
    BY <1>3 DEF OneSort, left, sorted, i, q, u
  <2> QED
    BY <2>5, <2>9, <2>10, <2>12, <2>13, <2>14 DEF Sortings, q
<1> QED
  BY <1>2, <1>3

\* sort_error_handlers keeps every handler, and puts none before one for a
\* subclass of its own.
LEMMA SortProperties ==
  ASSUME NEW s \in HandlerDicts
  PROVE  /\ SortErrorHandlers(s) \in HandlerDicts /\ Ordered(SortErrorHandlers(s))
         /\ ToSet(SortErrorHandlers(s)) = ToSet(s)
<1> DEFINE n == Len(s)
           D == Sortings(s)
           base == [left |-> s, sorted |-> <<>>]
           step == [k \in 1..n |-> [t \in D |-> OneSort(t)]]
           Is(f) == f = [k \in 0..n |-> IF k = 0 THEN base ELSE OneSort(f[k - 1])]
<1>0. n \in Nat
  BY HandlerDictProperties
<1>1. base \in D
  <2>1. <<>> \in HandlerDicts /\ ToSet(<<>>) = {} /\ Ordered(<<>>)
    BY DEF HandlerDicts, ToSet, Ordered
  <2> QED
    BY <2>1 DEF Sortings
<1>2. step \in [1..n -> [D -> D]]
  <2>1. \A t \in D : OneSort(t) \in D
    BY OneSortProperties
  <2> HIDE DEF D, n
  <2> QED
    BY <2>1
<1>3. PICK g \in [0..n -> D] : Recurs(g, n, base, step)
  <2> HIDE DEF D, n, base, step
  <2> QED
    BY <1>0, <1>1, <1>2, Recursion
<1> HIDE DEF D, base
<1>4. Is(g)
  <2>1. ASSUME NEW k \in 1..n PROVE g[k] = OneSort(g[k - 1])
    <3>1. g[k - 1] \in D
      BY <1>0, <1>3
    <3> QED
      BY <1>3, <3>1 DEF Recurs
  <2>2. g = [k \in 0..n |-> g[k]] /\ \A k \in 0..n : k # 0 => k \in 1..n
    BY <1>0, <1>3
  <2> HIDE DEF n
  <2> QED
    BY <1>3, <2>1, <2>2, Zenon DEF Recurs
<1> DEFINE f == CHOOSE f : Is(f)
<1>5. Is(f)
  <2> HIDE DEF Is
  <2> QED
    BY <1>4
<1>6. SortErrorHandlers(s) = f[n].sorted
  BY Zenon DEF SortErrorHandlers, OneSort, Ready, Without, base
<1> HIDE DEF f
<1>7. f[0] = base /\ \A k \in 1..n : f[k] = OneSort(f[k - 1])
  <2>1. 0 \in 0..n /\ \A k \in 1..n : k \in 0..n /\ k # 0
    BY <1>0
  <2> HIDE DEF n
  <2> QED
    BY <1>5, <2>1
<1> DEFINE S == {k \in 0..n : f[k] \in D /\ Len(f[k].left) = n - k}
<1>8. 0 \in S
  BY <1>0, <1>1, <1>7 DEF base
<1>9. ASSUME NEW k \in 1..n, k - 1 \in S PROVE k \in S
  <2>1. f[k - 1] \in D /\ Len(f[k - 1].left) = n - (k - 1)
    BY <1>9
  <2>2. f[k - 1].left # <<>>
    BY <1>0, <2>1
  <2>3. OneSort(f[k - 1]) \in D /\ Len(OneSort(f[k - 1]).left) = n - (k - 1) - 1
    BY <2>1, <2>2, OneSortProperties DEF D
  <2> QED
    BY <1>0, <1>7, <2>3
<1>10. f[n] \in D /\ Len(f[n].left) = 0
  <2>1. 0..n \subseteq S
    <3> HIDE DEF S
    <3> QED
      BY <1>0, <1>8, <1>9, InductionUpTo
  <2> QED
    BY <1>0, <2>1
<1>11. f[n].left \in HandlerDicts /\ ToSet(f[n].left) = {}
  <2>1. f[n].left \in HandlerDicts
    BY <1>10 DEF D, Sortings
  <2>2. ~\E y : y \in ToSet(f[n].left)
    <3>1. \A y : y \in ToSet(f[n].left) <=> \E i \in 1..Len(f[n].left) : f[n].left[i] = y
      BY <2>1, HandlerDictProperties
    <3> QED
      BY <1>10, <3>1
  <2> QED
    BY <2>1, <2>2
<1> QED
  BY <1>6, <1>10, <1>11 DEF D, Sortings

-----------------------------------------------------------------------------
(* The search.                                                             *)

LEMMA FindRouteKey ==
  ASSUME NEW url, NEW method, FindRoute(url, method).is = "route"
  PROVE  FindRoute(url, method).key = <<url, method>>
BY DEF FindRoute, Found, Nothing

\* What is found is kept under the key of the search that finds it.
LEMMA FindKey ==
  ASSUME NEW url, NEW method, NEW host, NEW f, f = Find(url, method, host), f.is = "route"
  PROVE  \/ f = FindRoute(url, method) /\ f.key = <<url, method>>
         \/ f = FindRouteByHost(url, method, host) /\ f.key = <<url, method, host>>
<1>1. CASE f = FindRoute(url, method)
  BY <1>1, FindRouteKey
<1>2. CASE f # FindRoute(url, method)
  <2>1. f = FindRouteByHost(url, method, host)
    BY <1>2 DEF Find
  <2>2. PICK r : f = Found(r, <<url, method, host>>)
    <3> DEFINE matching == {i \in DOMAIN table.hosts : host \in table.hosts[i].host}
               first == CHOOSE i \in matching : \A j \in matching : i <= j
               routes == OfMethod(table.hosts[first].routes, method)
               here == FirstMatch(routes, url)
               last == Found(routes[here], <<url, method, host>>)
    <3>1. /\ host = NoHost => FindRouteByHost(url, method, host) = Nothing("TypeError")
          /\ host # NoHost /\ matching = {}
                => FindRouteByHost(url, method, host) = FindRoute(url, method)
          /\ host # NoHost /\ matching # {}
                => FindRouteByHost(url, method, host) = IF here = 0 THEN Nothing("KeyError") ELSE last
      BY ZenonT(30) DEF FindRouteByHost
    <3> HIDE DEF matching, here
    <3>2. f = last
      <4> HIDE DEF last
      <4> QED
        BY <1>2, <2>1, <3>1 DEF Nothing
    <3> QED
      BY <3>2, Zenon
  <2> QED
    BY <2>1, <2>2 DEF Found
<1> QED
  BY <1>1, <1>2

\* A hit leaves the cache as it is; anything else is what the search found.
LEMMA GetRouteFinds ==
  ASSUME NEW url, NEW method, NEW host
  PROVE  LET found == GetRoute(url, method, host)
         IN  \/ CacheAfter(found) = cache
             \/ /\ found = Find(url, method, host) /\ found.is = "route"
                /\ found.key \notin DOMAIN cache.values
                /\ CacheAfter(found) = Cached(cache, found.key, found.route)
<1> DEFINE found == GetRoute(url, method, host)
           first == IF table.hosts = <<>> THEN <<url, method>> ELSE <<url, method, host>>
<1>1. CASE first \in DOMAIN cache.values
  <2>1. found = Found(cache.values[first], first)
    BY <1>1 DEF GetRoute
  <2> QED
    BY <1>1, <2>1 DEF CacheAfter, Found
<1>2. CASE <<url, method>> \in DOMAIN cache.values /\ found = Found(cache.values[<<url, method>>], <<url, method>>)
  BY <1>2 DEF CacheAfter, Found
<1>3. CASE found = Find(url, method, host)
  BY <1>3 DEF CacheAfter
<1> QED
  BY <1>1, <1>2, <1>3 DEF GetRoute

-----------------------------------------------------------------------------
(* The types, and the tree of blueprints.                                  *)

BaseInv ==
    /\ config \in Configurations /\ strategy \in Strategies /\ todo \subseteq Ids
    /\ handlers \in [Blueprints -> HandlerDicts]
    /\ index \subseteq DOMAIN Super
    /\ conn.flags \subseteq Events /\ conn.index \subseteq DOMAIN Super
    /\ requests \in 0..MaxRequests

\* Every nested blueprint was mounted by a declaration of its own.
TreeInv ==
    /\ DeclaredType
    /\ \A b \in Blueprints : \A i \in DOMAIN mounted[b] :
          \E m \in config.mounts : m.parent = b /\ m.bp = mounted[b][i].bp
    /\ parent \in [Blueprints -> Blueprints \cup {None}] /\ parent[App] = None

\* Only what add_blueprint of the application has mounted lacks an event.
HookDicts == UNION {[E -> Seq(config.hooks)] : E \in SUBSET Events}
DictsInv ==
    /\ hooks \in [Blueprints -> HookDicts]
    /\ \A b \in Blueprints : parent[b] # App => DOMAIN hooks[b] = Events

TableInv ==
    /\ table \in Tables
    /\ \A key \in DOMAIN cache.values : cache.values[key] \in OwnRoutes

TypeInv == BaseInv /\ TreeInv /\ DictsInv /\ TableInv

\* What a program declares.
LEMMA ProgramTypes ==
  ASSUME NEW c \in Configurations
  PROVE  /\ c.strategy \in Strategies
         /\ c.routes \subseteq OwnRoutes
         /\ c.mounts \subseteq Mountings /\ c.hooks \subseteq Hooks /\ c.handlers \subseteq Handlers
         /\ c.components \subseteq Components
         /\ c.asks \subseteq Asks /\ c.raises \subseteq DOMAIN Super
BY ProgramsAssumption DEF OwnRoutes

LEMMA AppIsNotNone == App \in Blueprints /\ None \notin Blueprints /\ App # None
BY ApplicationAssumption

LEMMA TreeInvIsTree ==
  ASSUME config \in Configurations, TreeInv
  PROVE  IsTree
<1>1. PICK depth \in [Blueprints -> 0..Cardinality(Blueprints)] :
         \A m \in config.mounts : depth[m.parent] < depth[m.bp]
  BY ProgramsAssumption
<1>2. Deeper(depth)
  BY <1>1 DEF TreeInv, Deeper
<1> QED
  BY <1>2 DEF IsTree

LEMMA RoutesOfType ==
  ASSUME config \in Configurations, TreeInv, NEW b \in Blueprints, NEW ps \in Seq(Paths)
  PROVE  RoutesOf(b, ps) \in Seq(Additions)
<1>1. PICK f \in [Blueprints -> Gathered] : RoutesOf(b, ps) = f[b][ps]
  BY TreeInvIsTree, RoutesOfProperties DEF TreeInv
<1>2. f[b] \in Gathered
  OBVIOUS
<1> QED
  BY <1>1, <1>2 DEF Gathered

LEMMA BaseInit == Init => BaseInv
<1> SUFFICES ASSUME Init PROVE BaseInv
  OBVIOUS
<1>1. config \in Configurations /\ strategy = config.strategy /\ todo = Ids
  BY DEF Init
<1>2. <<>> \in HandlerDicts
  BY DEF HandlerDicts
<1>3. handlers \in [Blueprints -> HandlerDicts]
  BY <1>2 DEF Init
<1>4. index = {} /\ conn.flags = {} /\ conn.index = {} /\ requests = 0
  BY DEF Init, NoConn
<1>5. requests \in 0..MaxRequests
  BY <1>4, ApplicationAssumption
<1> QED
  BY <1>1, <1>3, <1>4, <1>5, ProgramTypes DEF BaseInv

LEMMA DeclaresBase ==
  ASSUME BaseInv, NEW x, Declares(x)
  PROVE  /\ config' \in Configurations /\ strategy' \in Strategies /\ (todo \subseteq Ids)'
         /\ conn' = conn /\ (requests \in 0..MaxRequests)'
BY DEF BaseInv, Declares, serving, Ids

LEMMA BaseStep ==
  ASSUME BaseInv, [Next]_vars
  PROVE  BaseInv'
<1> USE DEF BaseInv
<1>1. ASSUME NEW r \in config.routes, DeclareRoute(r) PROVE BaseInv'
  <2>1. Declares(r) /\ handlers' = handlers /\ index' = index
    BY <1>1 DEF DeclareRoute
  <2> QED
    BY <2>1, DeclaresBase
<1>2. ASSUME NEW m \in config.mounts, Nest(m) \/ Mount(m) PROVE BaseInv'
  <2>1. Declares(m) /\ handlers' = handlers /\ index' = index
    BY <1>2 DEF Nest, Mount, Mounts
  <2> QED
    BY <2>1, DeclaresBase
<1>3. ASSUME NEW h \in config.hooks, AddHook(h) PROVE BaseInv'
  <2>1. Declares(h) /\ handlers' = handlers /\ index' = index
    BY <1>3 DEF AddHook
  <2> QED
    BY <2>1, DeclaresBase
<1>4. ASSUME NEW x \in config.handlers, Handle(x) PROVE BaseInv'
  <2>1. Declares(x) /\ handlers' = [handlers EXCEPT ![x.bp] = Put(handlers[x.bp], x)] /\ index' = index
    BY <1>4 DEF Handle
  <2>2. x \in Handlers /\ x.bp \in Blueprints
    BY ProgramTypes DEF Handlers
  <2>3. Put(handlers[x.bp], x) \in HandlerDicts
    BY <2>2, PutProperties
  <2>4. handlers' \in [Blueprints -> HandlerDicts]
    BY <2>1, <2>2, <2>3
  <2> QED
    BY <2>1, <2>4, DeclaresBase
<1>5. ASSUME NEW c \in config.components, AddComponent(c) PROVE BaseInv'
  <2>1. Declares(c) /\ handlers' = handlers /\ index' = index \cup {c.type}
    BY <1>5 DEF AddComponent
  <2>2. c \in Components /\ c.type \in DOMAIN Super
    BY ProgramTypes DEF Components
  <2> QED
    BY <2>1, <2>2, DeclaresBase
<1>6. CASE Initialize
  <2>1. /\ UNCHANGED <<strategy, config, todo, index, conn, requests>>
        /\ handlers' = [handlers EXCEPT ![App] = SortErrorHandlers(WithDefaults(handlers[App]))]
    BY <1>6 DEF Initialize, serving
  <2>2. App \in Blueprints /\ handlers[App] \in HandlerDicts
    BY AppIsNotNone
  <2>3. SortErrorHandlers(WithDefaults(handlers[App])) \in HandlerDicts
    BY <2>2, WithDefaultsProperties, SortProperties
  <2>4. handlers' \in [Blueprints -> HandlerDicts]
    BY <2>1, <2>2, <2>3
  <2> QED
    BY <2>1, <2>4 DEF Ids
<1>7. CASE Connect
  <2>1. /\ UNCHANGED <<strategy, config, todo, index, handlers, requests>>
        /\ conn'.flags \subseteq Events /\ conn'.index = index
    BY <1>7 DEF Connect, router
  <2> QED
    BY <2>1 DEF Ids
<1>8. ASSUME NEW ask \in config.asks, NEW raises \in config.raises \cup {None}, Serve(ask, raises)
      PROVE  BaseInv'
  <2>1. /\ UNCHANGED <<strategy, config, todo, index, handlers, conn>>
        /\ requests < MaxRequests /\ requests' = requests + 1
    BY <1>8 DEF Serve
  <2>2. requests + 1 \in 0..MaxRequests
    BY <2>1, ApplicationAssumption
  <2> QED
    BY <2>1, <2>2 DEF Ids
<1>9. CASE UNCHANGED vars
  <2>1. UNCHANGED <<strategy, config, todo, index, handlers, conn, requests>>
    BY <1>9 DEF vars, router, serving
  <2> QED
    BY <2>1 DEF Ids
<1> QED
  BY <1>1, <1>2, <1>3, <1>4, <1>5, <1>6, <1>7, <1>8, <1>9 DEF Next

LEMMA TreeInit == Init => TreeInv
<1> SUFFICES ASSUME Init PROVE TreeInv
  OBVIOUS
<1>1. /\ declared = [b \in Blueprints |-> <<>>] /\ mounted = [b \in Blueprints |-> <<>>]
      /\ parent = [b \in Blueprints |-> None]
  BY DEF Init
<1>2. DeclaredType
  BY <1>1 DEF DeclaredType
<1> QED
  BY <1>1, <1>2, AppIsNotNone DEF TreeInv

\* A mount adds a branch.
LEMMA MountsTree ==
  ASSUME BaseInv, TreeInv, NEW m \in config.mounts, Mounts(m)
  PROVE  TreeInv' /\ m.bp \in Blueprints \ {App} /\ m.parent \in Blueprints /\ m.prefixes \in Seq(Paths)
<1> DEFINE new == [bp |-> m.bp, prefixes |-> m.prefixes]
<1>1. /\ config' = config /\ declared' = declared
      /\ parent' = [parent EXCEPT ![m.bp] = m.parent]
      /\ mounted' = [mounted EXCEPT ![m.parent] = Append(mounted[m.parent], new)]
  BY DEF Mounts, Declares
<1>2. m.bp \in Blueprints \ {App} /\ m.parent \in Blueprints /\ m.prefixes \in Seq(Paths)
  BY ProgramTypes DEF BaseInv, Mountings
<1>3. mounted \in [Blueprints -> Seq(Nestings)] /\ declared \in [Blueprints -> Seq(OwnRoutes)]
  BY DEF TreeInv, DeclaredType
<1>4. new \in Nestings /\ new.bp = m.bp
  BY <1>2 DEF Nestings
<1> HIDE DEF new
<1>5. mounted[m.parent] \in Seq(Nestings) /\ Append(mounted[m.parent], new) \in Seq(Nestings)
  BY <1>2, <1>3, <1>4
<1>6. mounted' \in [Blueprints -> Seq(Nestings)]
  BY <1>1, <1>2, <1>3, <1>5
<1>7. ASSUME NEW b \in Blueprints, NEW i \in DOMAIN mounted'[b]
      PROVE  \E n \in config.mounts : n.parent = b /\ n.bp = mounted'[b][i].bp
  <2>1. CASE b = m.parent
    <3>1. mounted'[b] = Append(mounted[b], new)
      BY <1>1, <1>2, <1>3, <2>1
    <3>2. CASE i \in DOMAIN mounted[b]
      <4>1. mounted'[b][i] = mounted[b][i]
        BY <1>3, <3>1, <3>2
      <4> QED
        BY <3>2, <4>1 DEF TreeInv
    <3>3. CASE i \notin DOMAIN mounted[b]
      <4>1. mounted'[b][i] = new
        BY <1>5, <2>1, <3>1, <3>3
      <4> QED
        BY <1>4, <2>1, <4>1
    <3> QED
      BY <3>2, <3>3
  <2>2. CASE b # m.parent
    <3>1. mounted'[b] = mounted[b]
      BY <1>1, <1>2, <1>3, <2>2
    <3> QED
      BY <3>1 DEF TreeInv
  <2> QED
    BY <2>1, <2>2
<1>8. parent' \in [Blueprints -> Blueprints \cup {None}] /\ parent'[App] = None
  BY <1>1, <1>2, AppIsNotNone DEF TreeInv
<1>9. DeclaredType'
  BY <1>1, <1>3, <1>6 DEF DeclaredType
<1> QED
  BY <1>1, <1>2, <1>7, <1>8, <1>9 DEF TreeInv

LEMMA TreeStep ==
  ASSUME BaseInv, TreeInv, [Next]_vars
  PROVE  TreeInv'
<1>1. ASSUME NEW r \in config.routes, DeclareRoute(r) PROVE TreeInv'
  <2>1. /\ UNCHANGED <<config, mounted, parent>>
        /\ declared' = [declared EXCEPT ![r.parent] = Append(declared[r.parent], r)]
    BY <1>1 DEF DeclareRoute, Declares
  <2>2. r \in OwnRoutes /\ r.parent \in Blueprints
    BY ProgramTypes DEF BaseInv, OwnRoutes
  <2>3. declared' \in [Blueprints -> Seq(OwnRoutes)]
    <3>1. declared \in [Blueprints -> Seq(OwnRoutes)]
      BY DEF TreeInv, DeclaredType
    <3>2. Append(declared[r.parent], r) \in Seq(OwnRoutes)
      BY <2>2, <3>1
    <3> QED
      BY <2>1, <3>1, <3>2
  <2> QED
    BY <2>1, <2>3 DEF TreeInv, DeclaredType
<1>2. ASSUME NEW m \in config.mounts, Nest(m) \/ Mount(m) PROVE TreeInv'
  BY <1>2, MountsTree DEF Nest, Mount
<1>3. CASE UNCHANGED <<config, blueprints>>
  BY <1>3 DEF blueprints, TreeInv, DeclaredType
<1>4. (\E h \in config.hooks : AddHook(h)) \/ (\E x \in config.handlers : Handle(x))
        \/ (\E c \in config.components : AddComponent(c)) \/ Initialize \/ Connect
        \/ (\E ask \in config.asks, raises \in config.raises \cup {None} : Serve(ask, raises))
        \/ UNCHANGED vars
      => UNCHANGED <<config, blueprints>>
  BY DEF AddHook, Handle, AddComponent, Declares, Initialize, Connect, Serve, vars
<1> QED
  BY <1>1, <1>2, <1>3, <1>4 DEF Next

LEMMA HookDict ==
  ASSUME NEW d
  PROVE  d \in HookDicts <=> /\ DOMAIN d \subseteq Events /\ d = [e \in DOMAIN d |-> d[e]]
                             /\ \A e \in DOMAIN d : d[e] \in Seq(config.hooks)
BY DEF HookDicts

LEMMA DictsInit == Init => DictsInv
<1> SUFFICES ASSUME Init PROVE DictsInv
  OBVIOUS
<1>1. hooks = [b \in Blueprints |-> [e \in Events |-> <<>>]]
  BY DEF Init
<1>2. [e \in Events |-> <<>>] \in HookDicts
  <2>1. [e \in Events |-> <<>>] \in [Events -> Seq(config.hooks)]
    OBVIOUS
  <2> QED
    BY <2>1 DEF HookDicts
<1> QED
  BY <1>1, <1>2 DEF DictsInv

\* The end of Application.add_blueprint.
LEMMA MountDicts ==
  ASSUME BaseInv, TreeInv, DictsInv, NEW m \in config.mounts, Mount(m)
  PROVE  DictsInv'
<1> DEFINE b == m.bp
           G == {h \in config.hooks : ~h.local}
           L == {h \in config.hooks : h.local}
           all == [e \in Events |-> hooks[App][e] \o Those(hooks[b][e], G)]
           rest == [e \in {d \in Events : Those(hooks[b][d], L) # <<>>} |-> Those(hooks[b][e], L)]
<1>1. /\ config' = config /\ parent' = [parent EXCEPT ![b] = App] /\ parent[b] = None
      /\ hooks' = [hooks EXCEPT ![App] = all, ![b] = rest]
  BY DEF Mount, Mounts, Declares, Lifted
<1>2. b \in Blueprints /\ b # App /\ App \in Blueprints
  BY ProgramTypes, AppIsNotNone DEF BaseInv, Mountings
<1>3. /\ hooks \in [Blueprints -> HookDicts]
      /\ DOMAIN hooks[App] = Events /\ DOMAIN hooks[b] = Events
  BY <1>1, <1>2, AppIsNotNone DEF DictsInv, TreeInv
<1>4. \A e \in Events : hooks[App][e] \in Seq(config.hooks) /\ hooks[b][e] \in Seq(config.hooks)
  BY <1>2, <1>3, HookDict
<1>5. \A e \in Events : /\ Those(hooks[b][e], G) \in Seq(config.hooks)
                        /\ Those(hooks[b][e], L) \in Seq(config.hooks)
  <2> HIDE DEF G, L, b
  <2> QED
    BY <1>4, ThoseProperties
<1>6. \A e \in Events : hooks[App][e] \o Those(hooks[b][e], G) \in Seq(config.hooks)
  BY <1>4, <1>5, ConcatElements
<1> HIDE DEF b, G, L
<1>7. all \in HookDicts /\ DOMAIN all = Events
  BY <1>6, HookDict
<1>8. rest \in HookDicts
  BY <1>5, HookDict
<1> HIDE DEF all, rest
<1>9. hooks' \in [Blueprints -> HookDicts]
  BY <1>1, <1>2, <1>3, <1>7, <1>8
<1>10. ASSUME NEW c \in Blueprints, parent'[c] # App PROVE DOMAIN hooks'[c] = Events
  <2>1. c # b /\ parent'[c] = parent[c]
    BY <1>1, <1>2, <1>10 DEF TreeInv
  <2>2. CASE c = App
    BY <1>1, <1>2, <1>3, <1>7, <2>2
  <2>3. CASE c # App
    BY <1>1, <1>2, <1>3, <1>10, <2>1, <2>3 DEF DictsInv
  <2> QED
    BY <2>2, <2>3
<1>11. HookDicts' = HookDicts
  BY <1>1 DEF HookDicts
<1> QED
  BY <1>9, <1>10, <1>11 DEF DictsInv

LEMMA DictsStep ==
  ASSUME BaseInv, TreeInv, DictsInv, [Next]_vars
  PROVE  DictsInv'
<1>1. ASSUME NEW m \in config.mounts, Nest(m) PROVE DictsInv'
  <2>1. /\ config' = config /\ hooks' = hooks /\ parent[m.bp] = None /\ m.bp \in Blueprints
        /\ parent' = [parent EXCEPT ![m.bp] = m.parent]
    BY <1>1, ProgramTypes DEF Nest, Mounts, Declares, BaseInv, Mountings
  <2>2. ASSUME NEW b \in Blueprints, parent'[b] # App PROVE DOMAIN hooks[b] = Events
    BY <2>1, <2>2, AppIsNotNone DEF DictsInv, TreeInv
  <2> QED
    BY <2>1, <2>2 DEF DictsInv, HookDicts
<1>2. ASSUME NEW m \in config.mounts, Mount(m) PROVE DictsInv'
  BY <1>2, MountDicts
<1>3. ASSUME NEW h \in config.hooks, AddHook(h) PROVE DictsInv'
  <2> DEFINE b == h.bp
             e == h.event
  <2>1. /\ config' = config /\ parent' = parent
        /\ hooks' = IF e \in DOMAIN hooks[b]
                    THEN [hooks EXCEPT ![b] = [hooks[b] EXCEPT ![e] = Append(hooks[b][e], h)]] ELSE hooks
    BY <1>3 DEF AddHook, Declares, blueprints
  <2>2. b \in Blueprints /\ e \in Events
    BY ProgramTypes DEF BaseInv, Hooks
  <2>3. hooks \in [Blueprints -> HookDicts] /\ hooks[b] \in HookDicts
    BY <2>2 DEF DictsInv
  <2> HIDE DEF b, e
  <2>4. ASSUME e \in DOMAIN hooks[b] PROVE DictsInv'
    <3> DEFINE d == [hooks[b] EXCEPT ![e] = Append(hooks[b][e], h)]
    <3>1. hooks[b][e] \in Seq(config.hooks)
      BY <2>3, <2>4, HookDict
    <3>2. Append(hooks[b][e], h) \in Seq(config.hooks)
      BY <3>1, AppendProperties
    <3>3. d \in HookDicts /\ DOMAIN d = DOMAIN hooks[b]
      <4>1. /\ DOMAIN hooks[b] \subseteq Events /\ hooks[b] = [x \in DOMAIN hooks[b] |-> hooks[b][x]]
            /\ \A x \in DOMAIN hooks[b] : hooks[b][x] \in Seq(config.hooks)
        BY <2>3, HookDict
      <4>2. DOMAIN d = DOMAIN hooks[b] /\ d = [x \in DOMAIN d |-> d[x]]
        BY <4>1
      <4>3. \A x \in DOMAIN d : d[x] \in Seq(config.hooks)
        BY <3>2, <4>1
      <4> HIDE DEF d
      <4> QED
        BY <4>1, <4>2, <4>3, HookDict
    <3> HIDE DEF d
    <3>4. hooks' = [hooks EXCEPT ![b] = d]
      BY <2>1, <2>4 DEF d
    <3>5. hooks' \in [Blueprints -> HookDicts]
      BY <2>2, <2>3, <3>3, <3>4
    <3>6. \A c \in Blueprints : DOMAIN hooks'[c] = DOMAIN hooks[c]
      BY <2>2, <2>3, <3>3, <3>4
    <3> QED
      BY <2>1, <3>5, <3>6 DEF DictsInv, HookDicts
  <2>5. ASSUME e \notin DOMAIN hooks[b] PROVE DictsInv'
    BY <2>1, <2>5 DEF DictsInv, HookDicts
  <2> QED
    BY <2>4, <2>5
<1>4. CASE UNCHANGED <<config, parent, hooks>>
  BY <1>4 DEF DictsInv, HookDicts
<1>5. (\E r \in config.routes : DeclareRoute(r)) \/ (\E x \in config.handlers : Handle(x))
        \/ (\E c \in config.components : AddComponent(c)) \/ Initialize \/ Connect
        \/ (\E ask \in config.asks, raises \in config.raises \cup {None} : Serve(ask, raises))
        \/ UNCHANGED vars
      => UNCHANGED <<config, parent, hooks>>
  BY DEF DeclareRoute, Handle, AddComponent, Declares, Initialize, Connect, Serve, vars, blueprints
<1> QED
  BY <1>1, <1>2, <1>3, <1>4, <1>5 DEF Next

-----------------------------------------------------------------------------
(* What a search finds is a route of a blueprint.                          *)

LEMMA FirstMatchIs ==
  ASSUME NEW routes \in Seq(OwnRoutes), NEW url, FirstMatch(routes, url) # 0
  PROVE  FirstMatch(routes, url) \in 1..Len(routes) /\ routes[FirstMatch(routes, url)] \in OwnRoutes
<1> DEFINE I == {i \in 1..Len(routes) : Matches(routes[i], url)}
           first == FirstMatch(routes, url)
<1>1. first = IF I # {} THEN Min(I) ELSE 0
  BY Zenon DEF FirstMatch, SelectInSeq
<1> HIDE DEF first
<1>2. I # {}
  BY <1>1 DEF first
<1>3. PICK k \in I : \A i \in I : k <= i
  <2>1. I \in SUBSET (Nat \ {0})
    OBVIOUS
  <2> HIDE DEF I
  <2> QED
    BY <1>2, <2>1, Least
<1>4. Min(I) \in I
  <2> HIDE DEF I
  <2> QED
    BY <1>3, Zenon DEF Min
<1>5. first \in 1..Len(routes)
  BY <1>1, <1>2, <1>4
<1>6. routes[first] \in OwnRoutes
  BY <1>5
<1> QED
  BY <1>5, <1>6 DEF first

LEMMA FindRouteType ==
  ASSUME table \in Tables, NEW url \in Urls, NEW method \in Methods,
         FindRoute(url, method).is = "route"
  PROVE  FindRoute(url, method).route \in OwnRoutes
<1> DEFINE fixed == ~url.query /\ <<method, url.path>> \in DOMAIN table.routes
           dynamic == table.dynamic[method]
           key == <<url, method>>
           here == FirstMatch(dynamic, url)
           f == FindRoute(url, method)
           why == Nothing(IF OtherMethods(url, method) # {} THEN "405" ELSE "404")
<1>1. dynamic \in Seq(OwnRoutes) /\ \A k \in DOMAIN table.routes : table.routes[k] \in OwnRoutes
  BY DEF Tables
<1>2. f = CASE fixed -> Found(table.routes[<<method, url.path>>], key)
            [] ~fixed /\ here # 0 -> Found(dynamic[here], key)
            [] OTHER -> why
  BY Zenon DEF FindRoute
<1>3. why.is # "route"
  BY DEF Nothing
<1> HIDE DEF fixed, here, dynamic, key, why
<1>4. CASE fixed
  BY <1>1, <1>2, <1>4 DEF Found, fixed
<1>5. CASE ~fixed /\ here # 0
  <2>1. f = Found(dynamic[here], key)
    BY <1>2, <1>5
  <2>2. dynamic[here] \in OwnRoutes
    BY <1>1, <1>5, FirstMatchIs DEF here
  <2> QED
    BY <2>1, <2>2 DEF Found
<1>6. CASE ~fixed /\ here = 0
  BY <1>2, <1>3, <1>6
<1> QED
  BY <1>4, <1>5, <1>6

LEMMA FindType ==
  ASSUME table \in Tables, NEW url \in Urls, NEW method \in Methods, NEW host \in STRING,
         Find(url, method, host).is = "route"
  PROVE  Find(url, method, host).route \in OwnRoutes
<1>1. CASE Find(url, method, host) = FindRoute(url, method)
  BY <1>1, FindRouteType
<1>2. CASE Find(url, method, host) # FindRoute(url, method)
  <2> DEFINE matching == {i \in DOMAIN table.hosts : host \in table.hosts[i].host}
             first == CHOOSE i \in matching : \A j \in matching : i <= j
             here == OfMethod(table.hosts[first].routes, method)
             at == FirstMatch(here, url)
             f == FindRouteByHost(url, method, host)
  <2>1. Find(url, method, host) = f
    BY <1>2 DEF Find
  <2>2. /\ host = NoHost => f = Nothing("TypeError")
        /\ host # NoHost /\ matching = {} => f = FindRoute(url, method)
        /\ host # NoHost /\ matching # {}
              => f = IF at = 0 THEN Nothing("KeyError") ELSE Found(here[at], <<url, method, host>>)
    BY ZenonT(30) DEF FindRouteByHost
  <2>3. matching # {} /\ at # 0 /\ f = Found(here[at], <<url, method, host>>)
    <3> HIDE DEF matching, at, here
    <3> QED
      BY <1>2, <2>1, <2>2 DEF Nothing
  <2>4. first \in DOMAIN table.hosts
    <3>1. table.hosts \in Seq(HostRoutes)
      BY DEF Tables
    <3>2. matching \in SUBSET (Nat \ {0})
      BY <3>1
    <3>3. PICK k \in matching : \A j \in matching : k <= j
      <4> HIDE DEF matching
      <4> QED
        BY <2>3, <3>2, Least
    <3>4. first \in matching
      <4> HIDE DEF matching
      <4> QED
        BY <3>3, Zenon
    <3> QED
      BY <3>4
  <2>5. table.hosts[first].routes \in Seq(OwnRoutes)
    <3> HIDE DEF first
    <3>1. table.hosts \in Seq(HostRoutes)
      BY DEF Tables
    <3>2. table.hosts[first] \in HostRoutes
      BY <2>4, <3>1
    <3> QED
      BY <3>2 DEF HostRoutes
  <2> HIDE DEF first
  <2>6. here \in Seq(OwnRoutes)
    BY <2>5, ThoseProperties DEF OfMethod
  <2> HIDE DEF here
  <2>7. here[at] \in OwnRoutes
    BY <2>3, <2>6, FirstMatchIs
  <2> QED
    BY <2>1, <2>3, <2>7 DEF Found
<1> QED
  BY <1>1, <1>2

\* The route of a request, from the cache or from a search.
LEMMA GetRouteType ==
  ASSUME TableInv, NEW url \in Urls, NEW method \in Methods, NEW host \in STRING,
         GetRoute(url, method, host).is = "route"
  PROVE  GetRoute(url, method, host).route \in OwnRoutes
<1> DEFINE found == GetRoute(url, method, host)
           plain == <<url, method>>
           first == IF table.hosts = <<>> THEN plain ELSE <<url, method, host>>
<1>1. \/ first \in DOMAIN cache.values /\ found = Found(cache.values[first], first)
      \/ plain \in DOMAIN cache.values /\ found = Found(cache.values[plain], plain)
      \/ found = Find(url, method, host)
  BY Zenon DEF GetRoute
<1> HIDE DEF first, plain
<1>2. ASSUME NEW k \in DOMAIN cache.values, found = Found(cache.values[k], k)
      PROVE  found.route \in OwnRoutes
  BY <1>2 DEF Found, TableInv
<1>3. CASE found = Find(url, method, host)
  BY <1>3, FindType DEF TableInv
<1> QED
  BY <1>1, <1>2, <1>3

LEMMA AskTypes ==
  ASSUME config \in Configurations, NEW ask \in config.asks
  PROVE  ask.url \in Urls /\ ask.method \in Methods /\ ask.host \in STRING
BY ProgramTypes DEF Asks

LEMMA StaticRouteType == StaticRoute \in OwnRoutes
<1> DEFINE pattern == [segs |-> <<"static", "**">>, slash |-> FALSE]
<1>1. pattern \in Paths /\ NoPath \in Paths
  <2>1. <<"static", "**">> \in Seq(STRING) /\ <<>> \in Seq(STRING)
    <3>1. ASSUME NEW S, NEW x \in S, NEW y \in S PROVE <<x, y>> \in Seq(S)
      OBVIOUS
    <3>2. "static" \in STRING /\ "**" \in STRING
      BY StringsAssumption
    <3> QED
      BY <3>1, <3>2
  <2> QED
    BY <2>1 DEF Paths, NoPath
<1>2. {"GET", "HEAD"} \in SUBSET Methods /\ <<>> \in Seq(SUBSET STRING) /\ {} \in SUBSET STRING
      /\ "static" \in STRING /\ None \in STRING
  BY StringsAssumption DEF Methods
<1>3. App \in Blueprints /\ App \in STRING
  BY ApplicationAssumption
<1>4. /\ StaticRoute = [id |-> "static", parent |-> App, pattern |-> pattern, methods |-> {"GET", "HEAD"},
                         hosts |-> <<>>, dynamic |-> TRUE, cache |-> None, to |-> NoPath,
                         wants |-> {}, ok |-> TRUE]
      /\ StaticRoute.parent = App
  BY DEF StaticRoute
<1> HIDE DEF pattern
<1>5. StaticRoute \in Routes
  BY <1>1, <1>2, <1>3, <1>4 DEF Routes
<1> QED
  BY <1>3, <1>4, <1>5 DEF OwnRoutes

LEMMA TableInit == Init => TableInv
<1> SUFFICES ASSUME Init PROVE TableInv
  OBVIOUS
<1>1. table = EmptyTable /\ cache = EmptyCache
  BY DEF Init
<1>2. EmptyTable \in Tables
  <2>1. <<>> \in [{} -> OwnRoutes] /\ {} \in SUBSET (Methods \X Paths)
    OBVIOUS
  <2>2. [m \in Methods |-> <<>>] \in [Methods -> Seq(OwnRoutes)] /\ <<>> \in Seq(HostRoutes)
    OBVIOUS
  <2> QED
    BY <2>1, <2>2 DEF EmptyTable, Tables
<1>3. DOMAIN EmptyCache.values = {}
  BY DEF EmptyCache
<1> QED
  BY <1>1, <1>2, <1>3 DEF TableInv

LEMMA TableStep ==
  ASSUME BaseInv, TreeInv, TableInv, [Next]_vars
  PROVE  TableInv'
<1>1. ASSUME NEW m \in config.mounts, Mount(m) PROVE TableInv'
  <2>1. cache' = cache /\ table' = AllAdded(table, RoutesOf(m.bp, m.prefixes))
    BY <1>1 DEF Mount, Mounts, Declares
  <2>2. m.bp \in Blueprints /\ m.prefixes \in Seq(Paths)
    BY <1>1, ProgramTypes DEF BaseInv, Mountings
  <2>3. RoutesOf(m.bp, m.prefixes) \in Seq(Additions)
    BY <2>2, RoutesOfType DEF BaseInv
  <2> QED
    BY <2>1, <2>3, AllAddedType DEF TableInv
<1>2. CASE Initialize
  <2>1. /\ cache' = cache
        /\ table' = AddRoute(AllAdded(table, RoutesOf(App, <<NoPath>>)), StaticRoute, <<NoPath>>)
    BY <1>2 DEF Initialize
  <2>2. <<NoPath>> \in Seq(Paths) /\ App \in Blueprints
    BY AppIsNotNone DEF NoPath, Paths
  <2>3. RoutesOf(App, <<NoPath>>) \in Seq(Additions)
    BY <2>2, RoutesOfType DEF BaseInv
  <2>4. AllAdded(table, RoutesOf(App, <<NoPath>>)) \in Tables
    BY <2>3, AllAddedType DEF TableInv
  <2> QED
    BY <2>1, <2>2, <2>4, StaticRouteType, AddRouteType DEF TableInv
<1>3. ASSUME NEW ask \in config.asks, NEW raises \in config.raises \cup {None}, Serve(ask, raises)
      PROVE  TableInv'
  <2>1. table' = table /\ cache' = CacheAfter(GetRoute(ask.url, ask.method, ask.host))
    BY <1>3 DEF Serve
  <2>2. CASE cache' = cache
    BY <2>1, <2>2 DEF TableInv
  <2>3. CASE cache' # cache
    <3>1. PICK found : /\ found = Find(ask.url, ask.method, ask.host) /\ found.is = "route"
                       /\ cache' = Cached(cache, found.key, found.route)
      BY <2>1, <2>3, GetRouteFinds
    <3>2. found.route \in OwnRoutes
      BY <1>3, <3>1, AskTypes, FindType DEF TableInv, BaseInv
    <3>3. \A key \in DOMAIN cache'.values :
             cache'.values[key] = found.route
             \/ (key \in DOMAIN cache.values /\ cache'.values[key] = cache.values[key])
      BY <3>1 DEF Cached
    <3> QED
      BY <2>1, <3>2, <3>3 DEF TableInv
  <2> QED
    BY <2>2, <2>3
<1>4. CASE UNCHANGED <<table, cache>>
  BY <1>4 DEF TableInv
<1>5. (\E r \in config.routes : DeclareRoute(r)) \/ (\E m \in config.mounts : Nest(m))
        \/ (\E h \in config.hooks : AddHook(h)) \/ (\E x \in config.handlers : Handle(x))
        \/ (\E c \in config.components : AddComponent(c)) \/ Connect \/ UNCHANGED vars
      => UNCHANGED <<table, cache>>
  BY DEF DeclareRoute, Nest, Mounts, AddHook, Handle, AddComponent, Declares, Connect, vars, router
<1> QED
  BY <1>1, <1>2, <1>3, <1>4, <1>5 DEF Next

-----------------------------------------------------------------------------
(* The start.                                                              *)

LEMMA StartInit == Init => StartInv
<1> SUFFICES ASSUME Init PROVE StartInv
  OBVIOUS
<1>1. conn = NoConn /\ cache = EmptyCache /\ initialized = FALSE
  BY DEF Init
<1>2. conn.made = FALSE
  BY <1>1 DEF NoConn
<1> QED
  BY <1>1, <1>2 DEF StartInv

LEMMA StartStep == StartInv /\ [Next]_vars => StartInv'
<1> SUFFICES ASSUME StartInv, [Next]_vars PROVE StartInv'
  OBVIOUS
<1> USE DEF StartInv
<1>1. ASSUME NEW r \in config.routes, DeclareRoute(r) PROVE StartInv'
  BY <1>1 DEF DeclareRoute, Declares, serving
<1>2. ASSUME NEW m \in config.mounts, Nest(m) PROVE StartInv'
  BY <1>2 DEF Nest, Mounts, Declares, serving
<1>3. ASSUME NEW m \in config.mounts, Mount(m) PROVE StartInv'
  BY <1>3 DEF Mount, Mounts, Declares, serving
<1>4. ASSUME NEW h \in config.hooks, AddHook(h) PROVE StartInv'
  BY <1>4 DEF AddHook, Declares, serving
<1>5. ASSUME NEW x \in config.handlers, Handle(x) PROVE StartInv'
  BY <1>5 DEF Handle, Declares, serving
<1>6. ASSUME NEW c \in config.components, AddComponent(c) PROVE StartInv'
  BY <1>6 DEF AddComponent, Declares, serving
<1>7. CASE Initialize
  BY <1>7 DEF Initialize, serving
<1>8. CASE Connect
  BY <1>8 DEF Connect, router
<1>9. ASSUME NEW ask \in config.asks, NEW raises \in config.raises \cup {None}, Serve(ask, raises)
      PROVE  StartInv'
  BY <1>9 DEF Serve
<1>10. CASE UNCHANGED vars
  BY <1>10 DEF vars, serving, router
<1> QED
  BY <1>1, <1>2, <1>3, <1>4, <1>5, <1>6, <1>7, <1>8, <1>9, <1>10 DEF Next
-----------------------------------------------------------------------------
(* The LRUCache.                                                           *)

\* The size counts what was ever stored; the queue has as many keys until it
\* is full, and keeps its length from then on.
Lru(c) ==
    /\ c.size \in Nat
    /\ c.queue \in Seq(DOMAIN c.values)
    /\ ToSet(c.queue) = DOMAIN c.values
    /\ Len(c.queue) = IF c.size > CacheSize THEN CacheSize + 1 ELSE c.size

LEMMA FrontProperties ==
  ASSUME NEW S, NEW s \in Seq(S), NEW n \in Nat, Len(s) = n + 1
  PROVE  Front(s) \in Seq(S) /\ Len(Front(s)) = n /\ \A i \in 1..n : Front(s)[i] = s[i]
BY DEF Front

LEMMA CachedIsLru ==
  ASSUME NEW c, Lru(c), NEW key, NEW r
  PROVE  Lru(Cached(c, key, r))
<1> DEFINE full == c.size > CacheSize
           k == IF full THEN Last(c.queue) ELSE key
           rest == IF full THEN Front(c.queue) ELSE c.queue
           keys == {k} \cup DOMAIN c.values
           d == Cached(c, key, r)
<1>1. /\ d.size = c.size + 1 /\ d.queue = <<k>> \o rest
      /\ DOMAIN d.values = keys
  BY DEF Cached
<1>2. c.size \in Nat /\ CacheSize \in Nat
  BY CacheSizeAssumption DEF Lru
<1>3. /\ rest \in Seq(DOMAIN c.values)
      /\ Len(rest) = IF full THEN CacheSize ELSE c.size
      /\ \A x \in DOMAIN c.values : x = k \/ \E i \in 1..Len(rest) : rest[i] = x
  <2>1. /\ c.queue \in Seq(DOMAIN c.values) /\ Len(c.queue) \in Nat
        /\ \A x \in DOMAIN c.values : \E i \in 1..Len(c.queue) : c.queue[i] = x
    BY LenProperties DEF Lru, ToSet
  <2>2. CASE ~full
    BY <2>1, <2>2 DEF Lru
  <2>3. CASE full
    <3>1. Len(c.queue) = CacheSize + 1
      BY <2>3 DEF Lru
    <3>2. /\ Front(c.queue) \in Seq(DOMAIN c.values) /\ Len(Front(c.queue)) = CacheSize
          /\ \A i \in 1..CacheSize : Front(c.queue)[i] = c.queue[i]
      BY <1>2, <2>1, <3>1, FrontProperties
    <3>3. k = c.queue[CacheSize + 1]
      BY <2>3, <3>1 DEF Last
    <3>4. \A x \in DOMAIN c.values : x = k \/ \E i \in 1..CacheSize : Front(c.queue)[i] = x
      <4> HIDE DEF k
      <4> SUFFICES ASSUME NEW x \in DOMAIN c.values, x # k
                   PROVE  \E i \in 1..CacheSize : Front(c.queue)[i] = x
        OBVIOUS
      <4>1. PICK i \in 1..Len(c.queue) : c.queue[i] = x
        BY <2>1
      <4>2. i \in 1..CacheSize
        BY <1>2, <3>1, <3>3, <4>1
      <4> QED
        BY <3>2, <4>1, <4>2
    <3> QED
      BY <2>3, <3>2, <3>4
  <2> QED
    BY <2>2, <2>3
<1> HIDE DEF k, rest
<1>4. <<k>> \in Seq(keys) /\ rest \in Seq(keys)
  BY <1>3, SeqMonotonic
<1>5. /\ d.queue \in Seq(keys) /\ Len(d.queue) = 1 + Len(rest)
      /\ d.queue[1] = k
      /\ \A i \in 1..Len(rest) : d.queue[i + 1] = rest[i]
  BY <1>1, <1>3, <1>4, ConcatProperties, LenProperties
<1>6. ToSet(d.queue) = keys
  <2>1. DOMAIN d.queue = 1..Len(d.queue) /\ Len(rest) \in Nat
    BY <1>3, <1>5, LenProperties
  <2>2. \A x \in keys : \E i \in 1..Len(d.queue) : d.queue[i] = x
    <3>1. \E i \in 1..Len(d.queue) : d.queue[i] = k
      BY <1>5, <2>1
    <3>2. ASSUME NEW x \in DOMAIN c.values, x # k
          PROVE  \E i \in 1..Len(d.queue) : d.queue[i] = x
      <4>1. PICK i \in 1..Len(rest) : rest[i] = x
        BY <1>3, <3>2
      <4>2. i + 1 \in 1..Len(d.queue) /\ d.queue[i + 1] = x
        BY <1>5, <2>1, <4>1
      <4> QED
        BY <4>2
    <3> QED
      BY <3>1, <3>2
  <2>3. \A i \in 1..Len(d.queue) : d.queue[i] \in keys
    BY <1>5, <2>1, ElementOfSeq
  <2> QED
    BY <2>1, <2>2, <2>3 DEF ToSet
<1>7. Len(d.queue) = IF d.size > CacheSize THEN CacheSize + 1 ELSE d.size
  BY <1>1, <1>2, <1>3, <1>5
<1>8. d.size \in Nat
  BY <1>1, <1>2
<1>9. Lru(d)
  <2> HIDE DEF d
  <2> QED
    BY <1>1, <1>5, <1>6, <1>7, <1>8 DEF Lru
<1> QED
  BY <1>9

-----------------------------------------------------------------------------
(* The cache and the table.                                                *)

\* What a cache holds before it is full is what a search finds.
Transparent(c) ==
    c.size <= CacheSize + 1 =>
        \A key \in DOMAIN c.values :
            LET found == IF Len(key) = 3 THEN FindRouteByHost(key[1], key[2], key[3])
                         ELSE FindRoute(key[1], key[2])
            IN  found.is = "route" /\ found.key = key /\ found.route = c.values[key]

LEMMA CachedIsTransparent ==
  ASSUME Lru(cache), Transparent(cache), NEW url, NEW method, NEW host,
         NEW found, found = Find(url, method, host), found.is = "route"
  PROVE  Transparent(Cached(cache, found.key, found.route))
<1> DEFINE d == Cached(cache, found.key, found.route)
<1> SUFFICES ASSUME d.size <= CacheSize + 1, NEW key \in DOMAIN d.values
             PROVE  LET f == IF Len(key) = 3 THEN FindRouteByHost(key[1], key[2], key[3])
                             ELSE FindRoute(key[1], key[2])
                    IN  f.is = "route" /\ f.key = key /\ f.route = d.values[key]
  BY DEF Transparent
<1>1. cache.size <= CacheSize
  BY CacheSizeAssumption DEF Lru, Cached
<1>2. /\ DOMAIN d.values = {found.key} \cup DOMAIN cache.values
      /\ d.values[key] = IF key = found.key THEN found.route ELSE cache.values[key]
  BY <1>1, CacheSizeAssumption DEF Lru, Cached
<1>3. CASE key = found.key
  <2>1. CASE found = FindRoute(url, method) /\ found.key = <<url, method>>
    <3>1. Len(key) = 2 /\ key[1] = url /\ key[2] = method
      BY <1>3, <2>1
    <3> QED
      BY <1>2, <1>3, <2>1, <3>1
  <2>2. CASE found = FindRouteByHost(url, method, host) /\ found.key = <<url, method, host>>
    <3>1. Len(key) = 3 /\ key[1] = url /\ key[2] = method /\ key[3] = host
      BY <1>3, <2>2
    <3> QED
      BY <1>2, <1>3, <2>2, <3>1
  <2> QED
    BY <2>1, <2>2, FindKey
<1>4. CASE key # found.key
  BY <1>1, <1>2, <1>4, CacheSizeAssumption DEF Transparent, Lru
<1> QED
  BY <1>3, <1>4

\* A search reads the tables only.
LEMMA SameSearch ==
  ASSUME UNCHANGED <<strategy, table>>, NEW url, NEW method, NEW host
  PROVE  /\ FindRoute(url, method)' = FindRoute(url, method)
         /\ FindRouteByHost(url, method, host)' = FindRouteByHost(url, method, host)
<1>1. FindRoute(url, method)' = FindRoute(url, method)
  BY DEF FindRoute, OtherMethods
<1>2. FindRouteByHost(url, method, host)' = FindRouteByHost(url, method, host)
  BY <1>1 DEF FindRouteByHost
<1> QED
  BY <1>1, <1>2

-----------------------------------------------------------------------------
(* The invariant: what Start, the cache and the table have to do with each *)
(* other.                                                                  *)

CacheInv == Lru(cache) /\ Transparent(cache)

LEMMA EmptyCacheInv == cache = EmptyCache => CacheInv
<1> SUFFICES ASSUME cache = EmptyCache PROVE CacheInv
  OBVIOUS
<1>1. /\ cache.size = 0 /\ cache.queue = <<>> /\ cache.values = <<>>
      /\ DOMAIN cache.values = {} /\ Len(cache.queue) = 0 /\ DOMAIN cache.queue = {}
  BY DEF EmptyCache
<1>2. cache.queue \in Seq(DOMAIN cache.values)
  BY <1>1
<1>3. ToSet(cache.queue) = {}
  BY <1>1 DEF ToSet
<1> QED
  BY <1>1, <1>2, <1>3, CacheSizeAssumption DEF CacheInv, Lru, Transparent

\* Whatever leaves the cache and the tables alone keeps the invariant.
LEMMA NoSearch ==
  ASSUME CacheInv, UNCHANGED <<strategy, table, cache>>
  PROVE  CacheInv'
<1>1. Lru(cache)'
  BY DEF CacheInv, Lru
<1>2. Transparent(cache)'
  <2>1. ASSUME NEW url, NEW method, NEW host
        PROVE  /\ FindRoute(url, method)' = FindRoute(url, method)
               /\ FindRouteByHost(url, method, host)' = FindRouteByHost(url, method, host)
    BY SameSearch
  <2> QED
    BY <2>1 DEF CacheInv, Transparent
<1> QED
  BY <1>1, <1>2 DEF CacheInv

LEMMA Served ==
  ASSUME CacheInv, NEW ask, NEW raises, Serve(ask, raises)
  PROVE  CacheInv'
<1>1. /\ UNCHANGED <<strategy, table>>
      /\ cache' = CacheAfter(GetRoute(ask.url, ask.method, ask.host))
  BY DEF Serve
<1>2. CASE cache' = cache
  BY <1>1, <1>2, NoSearch
<1>3. CASE cache' # cache
  <2>1. PICK found : /\ found = Find(ask.url, ask.method, ask.host) /\ found.is = "route"
                     /\ cache' = Cached(cache, found.key, found.route)
    BY <1>1, <1>3, GetRouteFinds
  <2>2. Lru(cache') /\ Transparent(cache')
    BY <2>1, CachedIsLru, CachedIsTransparent DEF CacheInv
  <2>3. ASSUME NEW url, NEW method, NEW host
        PROVE  /\ FindRoute(url, method)' = FindRoute(url, method)
               /\ FindRouteByHost(url, method, host)' = FindRouteByHost(url, method, host)
    BY <1>1, SameSearch
  <2>4. Lru(cache)'
    BY <2>2 DEF Lru
  <2>5. Transparent(cache)'
    <3> SUFFICES ASSUME cache'.size <= CacheSize + 1, NEW key \in DOMAIN cache'.values
                 PROVE  LET f == IF Len(key) = 3 THEN FindRouteByHost(key[1], key[2], key[3])'
                                 ELSE FindRoute(key[1], key[2])'
                        IN  f.is = "route" /\ f.key = key /\ f.route = cache'.values[key]
      BY DEF Transparent
    <3>1. LET f == IF Len(key) = 3 THEN FindRouteByHost(key[1], key[2], key[3])
                   ELSE FindRoute(key[1], key[2])
          IN  f.is = "route" /\ f.key = key /\ f.route = cache'.values[key]
      BY <2>2 DEF Transparent
    <3>2. /\ FindRoute(key[1], key[2])' = FindRoute(key[1], key[2])
          /\ FindRouteByHost(key[1], key[2], key[3])' = FindRouteByHost(key[1], key[2], key[3])
      BY <2>3
    <3> QED
      BY <3>1, <3>2
  <2> QED
    BY <2>4, <2>5 DEF CacheInv
<1> QED
  BY <1>2, <1>3

LEMMA CacheStep == StartInv /\ CacheInv /\ [Next]_vars => CacheInv'
<1> SUFFICES ASSUME StartInv, CacheInv, [Next]_vars PROVE CacheInv'
  OBVIOUS
<1>1. ASSUME cache' = cache, UNCHANGED <<strategy, table>> PROVE CacheInv'
  BY <1>1, NoSearch
<1>2. ASSUME cache' = cache, ~initialized PROVE CacheInv'
  <2>1. cache' = EmptyCache
    BY <1>2 DEF StartInv
  <2>2. (cache = EmptyCache => CacheInv)'
    BY EmptyCacheInv, PTL
  <2> QED
    BY <2>1, <2>2
<1>3. ASSUME NEW m \in config.mounts, Mount(m) PROVE CacheInv'
  BY <1>2, <1>3 DEF Mount, Mounts, Declares
<1>4. CASE Initialize
  BY <1>2, <1>4 DEF Initialize
<1>5. ASSUME NEW ask \in config.asks, NEW raises \in config.raises \cup {None}, Serve(ask, raises)
      PROVE  CacheInv'
  BY <1>5, Served
<1>6. ASSUME NEW r \in config.routes, DeclareRoute(r) PROVE CacheInv'
  BY <1>1, <1>6 DEF DeclareRoute, Declares
<1>7. ASSUME NEW m \in config.mounts, Nest(m) PROVE CacheInv'
  BY <1>1, <1>7 DEF Nest, Mounts, Declares
<1>8. ASSUME NEW h \in config.hooks, AddHook(h) PROVE CacheInv'
  BY <1>1, <1>8 DEF AddHook, Declares
<1>9. ASSUME NEW x \in config.handlers, Handle(x) PROVE CacheInv'
  BY <1>1, <1>9 DEF Handle, Declares
<1>10. ASSUME NEW c \in config.components, AddComponent(c) PROVE CacheInv'
  BY <1>1, <1>10 DEF AddComponent, Declares
<1>11. CASE Connect
  BY <1>1, <1>11 DEF Connect, router
<1>12. CASE UNCHANGED vars
  BY <1>1, <1>12 DEF vars, router
<1> QED
  BY <1>3, <1>4, <1>5, <1>6, <1>7, <1>8, <1>9, <1>10, <1>11, <1>12 DEF Next

LEMMA TypeStep ==
  ASSUME TypeInv, [Next]_vars
  PROVE  TypeInv'
BY BaseStep, TreeStep, DictsStep, TableStep DEF TypeInv

LEMMA OwnSequences == Seq(OwnRoutes) \subseteq Seq(Routes)
<1>1. OwnRoutes \subseteq Routes
  BY DEF OwnRoutes
<1> QED
  BY <1>1, SeqMonotonic

LEMMA TypesAreRight ==
  ASSUME StartInv, TypeInv, Lru(cache)
  PROVE  TypeOK
<1>1. RouterType
  <2>1. strategy \in Strategies /\ cache.size \in Nat
    BY DEF TypeInv, BaseInv, Lru
  <2>2. DOMAIN table.routes \subseteq Methods \X Paths /\ Range(table.routes) \subseteq Routes
    <3>1. PICK S \in SUBSET (Methods \X Paths) : table.routes \in [S -> OwnRoutes]
      BY DEF TypeInv, TableInv, Tables
    <3> QED
      BY <3>1 DEF Range, OwnRoutes
  <2>3. table.dynamic \in [Methods -> Seq(Routes)]
    <3>1. table.dynamic \in [Methods -> Seq(OwnRoutes)]
      BY DEF TypeInv, TableInv, Tables
    <3> QED
      BY <3>1, OwnSequences
  <2>4. table.hosts \in Seq([host : SUBSET STRING, routes : Seq(Routes)])
    <3>1. table.hosts \in Seq(HostRoutes)
      BY DEF TypeInv, TableInv, Tables
    <3>2. HostRoutes \subseteq [host : SUBSET STRING, routes : Seq(Routes)]
      BY OwnSequences DEF HostRoutes
    <3> QED
      BY <3>1, <3>2, SeqMonotonic
  <2>5. Range(cache.values) \subseteq Routes
    BY DEF TypeInv, TableInv, OwnRoutes, Range
  <2>6. LruIsSound
    BY CacheSizeAssumption DEF Lru, LruIsSound
  <2> QED
    BY <2>1, <2>2, <2>3, <2>4, <2>5, <2>6 DEF RouterType
<1>2. /\ config \in Configurations /\ todo \subseteq Ids /\ index \subseteq DOMAIN Super
      /\ conn.flags \subseteq Events /\ conn.index \subseteq DOMAIN Super
      /\ requests \in 0..MaxRequests /\ initialized \in BOOLEAN
  BY DEF TypeInv, BaseInv, StartInv
<1>3. declared \in [Blueprints -> Seq(Routes)]
  <2>1. declared \in [Blueprints -> Seq(OwnRoutes)]
    BY DEF TypeInv, TreeInv, DeclaredType
  <2> QED
    BY <2>1, OwnSequences
<1>4. parent \in [Blueprints -> Blueprints \cup {None}]
  BY DEF TypeInv, TreeInv
<1>5. handlers \in [Blueprints -> Seq(Handlers)]
  BY DEF TypeInv, BaseInv, HandlerDicts
<1>6. ASSUME NEW b \in Blueprints
      PROVE  /\ mounted[b] \in Seq([bp : Blueprints, prefixes : Seq(Paths)])
             /\ DOMAIN hooks[b] \subseteq Events /\ \A e \in DOMAIN hooks[b] : hooks[b][e] \in Seq(Hooks)
  <2>1. mounted[b] \in Seq([bp : Blueprints, prefixes : Seq(Paths)])
    BY DEF TypeInv, TreeInv, DeclaredType, Nestings
  <2>2. hooks[b] \in HookDicts
    BY DEF TypeInv, DictsInv
  <2>3. Seq(config.hooks) \subseteq Seq(Hooks)
    BY <1>2, ProgramTypes, SeqMonotonic
  <2> QED
    BY <2>1, <2>2, <2>3, HookDict
<1> QED
  BY <1>1, <1>2, <1>3, <1>4, <1>5, <1>6 DEF TypeOK

-----------------------------------------------------------------------------
(* Where a hook is, and the hooks a request passes.                        *)

\* A hook that is not local moves to the application when its blueprint is
\* mounted there.
Home(h) == IF h.bp # App /\ parent[h.bp] = App /\ ~h.local THEN App ELSE h.bp
Here(b, e) == IF e \in DOMAIN hooks[b] THEN hooks[b][e] ELSE <<>>
HooksAt(b, e) == {h \in config.hooks : h.id \notin todo /\ h.event = e /\ Home(h) = b}

\* Unless a program declares late, each hook is in the one place where it
\* belongs, no blueprint is mounted before its hooks are declared, what is
\* initialized is complete, and a connection knows the events that have hooks.
HooksAtHome ==
    \A b \in Blueprints, e \in Events : IsInjective(Here(b, e)) /\ ToSet(Here(b, e)) = HooksAt(b, e)
HooksComeFirst == \A h \in config.hooks : parent[h.bp] # None => h.id \notin todo
MountsAreDone ==
    \A m \in config.mounts : m.id \notin todo =>
        /\ parent[m.bp] = m.parent
        /\ \E i \in DOMAIN mounted[m.parent] : mounted[m.parent][i].bp = m.bp
FlagsAreRight == conn.made => conn.flags = {e \in Events : ExistsHook(e)}
AtHome ==
    /\ HooksAtHome /\ HooksComeFirst /\ MountsAreDone
    /\ initialized => todo = {}
    /\ FlagsAreRight
HomeInv == "late" \notin config.odd => AtHome

LEMMA Apart ==
  ASSUME config \in Configurations
  PROVE  /\ config.hooks \cap (config.routes \cup config.mounts \cup config.handlers \cup config.components) = {}
         /\ config.mounts \cap (config.routes \cup config.hooks \cup config.handlers \cup config.components) = {}
<1>1. ASSUME NEW x \in Hooks PROVE x \notin Routes \cup Mountings \cup Handlers \cup Components
  <2>1. x \notin Routes
    BY DEF Hooks, Routes
  <2>2. x \notin Mountings
    BY DEF Hooks, Mountings
  <2>3. x \notin Handlers
    BY DEF Hooks, Handlers
  <2>4. x \notin Components
    BY DEF Hooks, Components
  <2> QED
    BY <2>1, <2>2, <2>3, <2>4
<1>2. ASSUME NEW x \in Mountings PROVE x \notin Routes \cup Hooks \cup Handlers \cup Components
  <2>1. x \notin Routes
    BY DEF Mountings, Routes
  <2>2. x \notin Hooks
    BY <1>1
  <2>3. x \notin Handlers
    BY DEF Mountings, Handlers
  <2>4. x \notin Components
    BY DEF Mountings, Components
  <2> QED
    BY <2>1, <2>2, <2>3, <2>4
<1>3. /\ config.routes \subseteq Routes /\ config.mounts \subseteq Mountings /\ config.hooks \subseteq Hooks
      /\ config.handlers \subseteq Handlers /\ config.components \subseteq Components
  BY ProgramTypes DEF OwnRoutes
<1>4. ASSUME NEW x \in config.hooks, x \in config.routes \cup config.mounts \cup config.handlers \cup config.components
      PROVE  FALSE
  BY <1>1, <1>3, <1>4
<1>5. ASSUME NEW x \in config.mounts, x \in config.routes \cup config.hooks \cup config.handlers \cup config.components
      PROVE  FALSE
  BY <1>2, <1>3, <1>5
<1> QED
  BY <1>4, <1>5

\* A declaration does away with its own id only.
LEMMA DeclaresItself ==
  ASSUME config \in Configurations, NEW x, Declares(x),
         x \in config.routes \cup config.mounts \cup config.hooks \cup config.handlers \cup config.components
  PROVE  /\ config' = config /\ initialized' = initialized /\ conn' = conn
         /\ "late" \notin config.odd => ~initialized
         /\ \A h \in config.hooks : h.id \in todo' <=> h.id \in todo /\ h # x
         /\ \A m \in config.mounts : m.id \in todo' <=> m.id \in todo /\ m # x
<1>1. \A y \in config.routes \cup config.mounts \cup config.hooks \cup config.handlers \cup config.components :
         x.id = y.id => x = y
  BY ProgramsAssumption
<1> QED
  BY <1>1 DEF Declares, serving

LEMMA SameHooks ==
  ASSUME HooksAtHome, HooksComeFirst, UNCHANGED <<config, hooks, parent>>,
         \A h \in config.hooks : h.id \in todo' <=> h.id \in todo
  PROVE  HooksAtHome' /\ HooksComeFirst'
<1>1. \A b \in Blueprints, e \in Events : HooksAt(b, e)' = HooksAt(b, e) /\ Here(b, e)' = Here(b, e)
  BY DEF HooksAt, Home, Here
<1>2. HooksAtHome'
  BY <1>1 DEF HooksAtHome
<1> QED
  BY <1>2 DEF HooksComeFirst

\* Nothing else of a program is about the places of its hooks.
LEMMA OthersAtHome ==
  ASSUME BaseInv, StartInv, AtHome, "late" \notin config.odd,
         NEW x \in config.routes \cup config.handlers \cup config.components,
         Declares(x), UNCHANGED <<hooks, mounted, parent>>
  PROVE  AtHome'
<1>1. x \notin config.hooks /\ x \notin config.mounts /\ config \in Configurations
  BY Apart DEF BaseInv
<1>2. /\ config' = config /\ ~initialized' /\ conn' = conn
      /\ \A h \in config.hooks : h.id \in todo' <=> h.id \in todo
      /\ \A m \in config.mounts : m.id \in todo' <=> m.id \in todo
  BY <1>1, DeclaresItself
<1>3. HooksAtHome' /\ HooksComeFirst'
  BY <1>2, SameHooks DEF AtHome
<1>4. MountsAreDone'
  BY <1>2 DEF AtHome, MountsAreDone
<1>5. ~conn'.made
  BY <1>2, DeclaresItself DEF StartInv, Declares
<1> QED
  BY <1>2, <1>3, <1>4, <1>5 DEF AtHome, FlagsAreRight

LEMMA SingleElement ==
  ASSUME NEW S, NEW x \in S
  PROVE  <<x>> \in Seq(S) /\ ToSet(<<x>>) = {x} /\ IsInjective(<<x>>)
<1>1. <<x>> \in Seq(S) /\ Len(<<x>>) = 1 /\ DOMAIN <<x>> = 1..1 /\ <<x>>[1] = x
  OBVIOUS
<1> QED
  BY <1>1 DEF ToSet, IsInjective

LEMMA AddHookAtHome ==
  ASSUME BaseInv, TreeInv, DictsInv, StartInv, AtHome, "late" \notin config.odd,
         NEW h \in config.hooks, AddHook(h)
  PROVE  AtHome'
<1>1. /\ config \in Configurations /\ h \notin config.mounts /\ h \in Hooks
      /\ h.bp \in Blueprints /\ h.event \in Events
  BY Apart, ProgramTypes DEF BaseInv, Hooks
<1>2. Declares(h) /\ h.id \in todo /\ UNCHANGED <<mounted, parent>>
  BY DEF AddHook, Declares, blueprints
<1>3. /\ config' = config /\ ~initialized' /\ conn' = conn
      /\ \A g \in config.hooks : g.id \in todo' <=> g.id \in todo /\ g # h
      /\ \A m \in config.mounts : m.id \in todo' <=> m.id \in todo
  BY <1>1, <1>2, DeclaresItself
<1>4. parent[h.bp] = None /\ DOMAIN hooks[h.bp] = Events
  BY <1>1, <1>2, AppIsNotNone DEF AtHome, HooksComeFirst, DictsInv
<1>5. \A b \in Blueprints : hooks[b] \in HookDicts
  BY DEF DictsInv
<1>6. /\ hooks' = [hooks EXCEPT ![h.bp] = [hooks[h.bp] EXCEPT ![h.event] = Append(hooks[h.bp][h.event], h)]]
      /\ hooks \in [Blueprints -> HookDicts]
  BY <1>1, <1>4 DEF AddHook, DictsInv
<1>7. ASSUME NEW b \in Blueprints, NEW e \in Events
      PROVE  /\ b = h.bp /\ e = h.event => Here(b, e)' = Append(Here(b, e), h)
             /\ ~(b = h.bp /\ e = h.event) => Here(b, e)' = Here(b, e)
  <2>1. CASE b = h.bp
    <3>1. hooks'[b] = [hooks[b] EXCEPT ![h.event] = Append(hooks[b][h.event], h)]
      BY <1>1, <1>6, <2>1
    <3>2. DOMAIN hooks'[b] = Events
      BY <1>4, <2>1, <3>1
    <3> QED
      BY <1>1, <1>4, <2>1, <3>1, <3>2 DEF Here
  <2>2. CASE b # h.bp
    <3>1. hooks'[b] = hooks[b]
      BY <1>1, <1>6, <2>2
    <3> QED
      BY <2>2, <3>1 DEF Here
  <2> QED
    BY <2>1, <2>2
<1>8. \A g \in config.hooks : Home(g)' = Home(g)
  BY <1>2 DEF Home
<1>9. Home(h) = h.bp
  BY <1>4, AppIsNotNone DEF Home
<1>10. ASSUME NEW b \in Blueprints, NEW e \in Events
       PROVE  IsInjective(Here(b, e)') /\ ToSet(Here(b, e)') = HooksAt(b, e)'
  <2>1. /\ IsInjective(Here(b, e)) /\ ToSet(Here(b, e)) = HooksAt(b, e)
        /\ h \notin HooksAt(b, e)
    BY <1>2 DEF AtHome, HooksAtHome, HooksAt
  <2>2. CASE b = h.bp /\ e = h.event
    <3>1. HooksAt(b, e)' = HooksAt(b, e) \cup {h}
      BY <1>2, <1>3, <1>8, <1>9, <2>2 DEF HooksAt
    <3>2. Here(b, e) \in Seq(config.hooks)
      <4>1. hooks[b] \in HookDicts /\ <<>> \in Seq(config.hooks)
        BY <1>5
      <4> QED
        BY <4>1, HookDict DEF Here
    <3>3. Append(Here(b, e), h) = Here(b, e) \o <<h>>
      <4>1. \A A : \A s \in Seq(A) : \A x \in A : Append(s, x) = s \o <<x>>
        BY AppendProperties, ConcatProperties
      <4> QED
        BY <3>2, <4>1
    <3>4. <<h>> \in Seq(config.hooks) /\ ToSet(<<h>>) = {h} /\ IsInjective(<<h>>)
      BY SingleElement
    <3>5. /\ ToSet(Here(b, e) \o <<h>>) = ToSet(Here(b, e)) \cup {h}
          /\ IsInjective(Here(b, e) \o <<h>>)
      BY <2>1, <3>2, <3>4, ConcatElements
    <3> QED
      BY <1>7, <2>1, <2>2, <3>1, <3>3, <3>5
  <2>3. CASE ~(b = h.bp /\ e = h.event)
    <3>1. HooksAt(b, e)' = HooksAt(b, e)
      BY <1>3, <1>8, <1>9, <2>3 DEF HooksAt
    <3> QED
      BY <1>7, <2>1, <2>3, <3>1
  <2> QED
    BY <2>2, <2>3
<1>11. HooksAtHome'
  BY <1>10 DEF HooksAtHome
<1>12. HooksComeFirst' /\ MountsAreDone'
  BY <1>2, <1>3 DEF AtHome, HooksComeFirst, MountsAreDone
<1>13. ~conn'.made
  BY <1>2, <1>3, DeclaresItself DEF StartInv, Declares
<1> QED
  BY <1>3, <1>11, <1>12, <1>13 DEF AtHome, FlagsAreRight

\* A blueprint is mounted after its hooks are declared, and its parent is
\* known from then on.
LEMMA MountsAtHome ==
  ASSUME BaseInv, TreeInv, StartInv, AtHome, "late" \notin config.odd,
         NEW m \in config.mounts, Mounts(m)
  PROVE  /\ HooksComeFirst' /\ MountsAreDone' /\ ~initialized' /\ ~conn'.made
         /\ config' = config
         /\ \A h \in config.hooks : (h.id \in todo' <=> h.id \in todo) /\ (h.bp = m.bp => h.id \notin todo)
<1>1. config \in Configurations /\ m \notin config.hooks
  BY Apart DEF BaseInv
<1>2. /\ Declares(m) /\ parent[m.bp] = None /\ m.id \in todo
      /\ \A h \in config.hooks : h.bp = m.bp => h.id \notin todo
      /\ parent' = [parent EXCEPT ![m.bp] = m.parent]
      /\ mounted' = [mounted EXCEPT ![m.parent] = Append(mounted[m.parent], [bp |-> m.bp, prefixes |-> m.prefixes])]
  BY DEF Mounts, Declares
<1>3. /\ config' = config /\ ~initialized' /\ conn' = conn
      /\ \A h \in config.hooks : h.id \in todo' <=> h.id \in todo
      /\ \A n \in config.mounts : n.id \in todo' <=> n.id \in todo /\ n # m
  BY <1>1, <1>2, DeclaresItself
<1>4. m.bp \in Blueprints \ {App} /\ m.parent \in Blueprints
  BY <1>1, ProgramTypes DEF Mountings
<1>5. parent \in [Blueprints -> Blueprints \cup {None}] /\ mounted \in [Blueprints -> Seq(Nestings)]
  BY DEF TreeInv, DeclaredType
<1>6. HooksComeFirst'
  <2>1. ASSUME NEW h \in config.hooks, parent'[h.bp] # None PROVE h.id \notin todo'
    <3>1. CASE h.bp = m.bp
      BY <1>2, <1>3, <3>1
    <3>2. CASE h.bp # m.bp
      <4>1. h.bp \in Blueprints
        BY <1>1, ProgramTypes DEF Hooks
      <4>2. parent'[h.bp] = parent[h.bp]
        BY <1>2, <1>5, <3>2, <4>1
      <4> QED
        BY <1>3, <2>1, <4>2 DEF AtHome, HooksComeFirst
    <3> QED
      BY <3>1, <3>2
  <2> QED
    BY <1>3, <2>1 DEF HooksComeFirst
<1>7. MountsAreDone'
  <2>1. ASSUME NEW n \in config.mounts, n.id \notin todo'
        PROVE  /\ parent'[n.bp] = n.parent
               /\ \E i \in DOMAIN mounted'[n.parent] : mounted'[n.parent][i].bp = n.bp
    <3>0. n.bp \in Blueprints \ {App} /\ n.parent \in Blueprints
      BY <1>1, ProgramTypes DEF Mountings
    <3>1. CASE n = m
      <4> DEFINE s == mounted[m.parent]
                 new == [bp |-> m.bp, prefixes |-> m.prefixes]
      <4>1. mounted'[m.parent] = Append(s, new) /\ parent'[m.bp] = m.parent
        BY <1>2, <1>4, <1>5
      <4>2. s \in Seq(Nestings) /\ Len(s) \in Nat
        BY <1>4, <1>5
      <4> HIDE DEF s
      <4>3. Len(s) + 1 \in DOMAIN Append(s, new) /\ Append(s, new)[Len(s) + 1] = new
        BY <4>2
      <4>4. new.bp = m.bp
        OBVIOUS
      <4> HIDE DEF new
      <4> QED
        BY <3>1, <4>1, <4>3, <4>4
    <3>2. CASE n # m
      <4>1. n.id \notin todo
        BY <1>3, <2>1, <3>2
      <4>2. parent[n.bp] = n.parent
        BY <4>1 DEF AtHome, MountsAreDone
      <4>3. PICK i \in DOMAIN mounted[n.parent] : mounted[n.parent][i].bp = n.bp
        BY <4>1 DEF AtHome, MountsAreDone
      <4>4. n.bp # m.bp
        BY <1>2, <3>0, <4>2, AppIsNotNone
      <4>5. parent'[n.bp] = n.parent
        BY <1>2, <1>5, <3>0, <4>2, <4>4
      <4>6. i \in DOMAIN mounted'[n.parent] /\ mounted'[n.parent][i] = mounted[n.parent][i]
        <5>1. CASE n.parent = m.parent
          <6> DEFINE s == mounted[m.parent]
                     new == [bp |-> m.bp, prefixes |-> m.prefixes]
          <6>1. mounted'[n.parent] = Append(s, new) /\ s \in Seq(Nestings) /\ i \in DOMAIN s
            BY <1>2, <1>4, <1>5, <4>3, <5>1
          <6> HIDE DEF s, new
          <6>2. i \in DOMAIN Append(s, new) /\ Append(s, new)[i] = s[i]
            BY <6>1
          <6> QED
            BY <5>1, <6>1, <6>2 DEF s
        <5>2. CASE n.parent # m.parent
          BY <1>2, <1>5, <3>0, <4>3, <5>2
        <5> QED
          BY <5>1, <5>2
      <4> QED
        BY <4>3, <4>5, <4>6
    <3> QED
      BY <3>1, <3>2
  <2> QED
    BY <1>3, <2>1 DEF MountsAreDone
<1>8. ~conn'.made
  BY <1>2, <1>3, DeclaresItself DEF StartInv, Declares
<1> QED
  BY <1>2, <1>3, <1>6, <1>7, <1>8

LEMMA NestAtHome ==
  ASSUME BaseInv, TreeInv, StartInv, AtHome, "late" \notin config.odd,
         NEW m \in config.mounts, Nest(m)
  PROVE  AtHome'
<1>1. /\ Mounts(m) /\ hooks' = hooks /\ m.parent # App
      /\ parent[m.bp] = None /\ parent' = [parent EXCEPT ![m.bp] = m.parent]
  BY DEF Nest, Mounts
<1>2. /\ HooksComeFirst' /\ MountsAreDone' /\ ~initialized' /\ ~conn'.made
      /\ config' = config
      /\ \A h \in config.hooks : h.id \in todo' <=> h.id \in todo
  BY <1>1, MountsAtHome
<1>3. \A h \in config.hooks : h.bp \in Blueprints
  BY ProgramTypes DEF BaseInv, Hooks
<1>4. \A h \in config.hooks : Home(h)' = Home(h)
  BY <1>1, <1>3, AppIsNotNone DEF Home, TreeInv
<1>5. \A b \in Blueprints, e \in Events : HooksAt(b, e)' = HooksAt(b, e) /\ Here(b, e)' = Here(b, e)
  BY <1>1, <1>2, <1>4 DEF HooksAt, Here
<1>6. HooksAtHome'
  BY <1>5 DEF HooksAtHome, AtHome
<1> QED
  BY <1>2, <1>6 DEF AtHome, FlagsAreRight

LEMMA MountAtHome ==
  ASSUME BaseInv, TreeInv, DictsInv, StartInv, AtHome, "late" \notin config.odd,
         NEW m \in config.mounts, Mount(m)
  PROVE  AtHome'
<1> DEFINE c == m.bp
           G == {h \in config.hooks : ~h.local}
           L == {h \in config.hooks : h.local}
           all == [e \in Events |-> hooks[App][e] \o Those(hooks[c][e], G)]
           rest == [e \in {d \in Events : Those(hooks[c][d], L) # <<>>} |-> Those(hooks[c][e], L)]
<1>1. /\ Mounts(m) /\ parent[c] = None /\ parent' = [parent EXCEPT ![c] = App]
      /\ hooks' = [hooks EXCEPT ![App] = all, ![c] = rest]
  BY DEF Mount, Mounts, Lifted
<1>2. /\ HooksComeFirst' /\ MountsAreDone' /\ ~initialized' /\ ~conn'.made
      /\ config' = config
      /\ \A h \in config.hooks : (h.id \in todo' <=> h.id \in todo) /\ (h.bp = c => h.id \notin todo)
  BY <1>1, MountsAtHome
<1>3. c \in Blueprints /\ c # App /\ App \in Blueprints
  BY ProgramTypes, AppIsNotNone DEF BaseInv, Mountings
<1>4. /\ hooks \in [Blueprints -> HookDicts]
      /\ DOMAIN hooks[App] = Events /\ DOMAIN hooks[c] = Events
  BY <1>1, <1>3, AppIsNotNone DEF DictsInv, TreeInv
<1>5. \A e \in Events : /\ hooks[App][e] \in Seq(config.hooks) /\ hooks[c][e] \in Seq(config.hooks)
                        /\ Here(App, e) = hooks[App][e] /\ Here(c, e) = hooks[c][e]
  BY <1>3, <1>4, HookDict DEF Here
<1>6. \A h \in config.hooks : h.bp \in Blueprints /\ h.local \in BOOLEAN
  BY ProgramTypes DEF BaseInv, Hooks
<1>7. \A h \in config.hooks : /\ h.bp # c => Home(h)' = Home(h) /\ Home(h) # c
                              /\ h.bp = c => Home(h) = c /\ Home(h)' = IF h.local THEN c ELSE App
  BY <1>1, <1>3, <1>6, AppIsNotNone DEF Home, TreeInv
<1> HIDE DEF c, G, L
<1>8. /\ \A e \in Events : Here(App, e)' = hooks[App][e] \o Those(hooks[c][e], G)
      /\ \A e \in Events : Here(c, e)' = Those(hooks[c][e], L)
      /\ \A b \in Blueprints \ {App, c}, e \in Events : Here(b, e)' = Here(b, e)
  <2> HIDE DEF all, rest
  <2>1. hooks'[App] = all /\ hooks'[c] = rest /\ \A b \in Blueprints \ {App, c} : hooks'[b] = hooks[b]
    BY <1>1, <1>3, <1>4
  <2>2. DOMAIN all = Events /\ \A e \in Events : all[e] = hooks[App][e] \o Those(hooks[c][e], G)
    BY DEF all
  <2>3. \A e \in Events : IF e \in DOMAIN rest THEN rest[e] = Those(hooks[c][e], L) ELSE Those(hooks[c][e], L) = <<>>
    BY DEF rest
  <2> QED
    BY <2>1, <2>2, <2>3 DEF Here
<1> HIDE DEF all, rest
<1>9. \A b \in Blueprints, e \in Events :
         HooksAt(b, e)' = {h \in config.hooks : h.id \notin todo /\ h.event = e /\ Home(h)' = b}
  BY <1>2 DEF HooksAt
<1>10. ASSUME NEW e \in Events
       PROVE  /\ HooksAt(App, e)' = HooksAt(App, e) \cup (HooksAt(c, e) \cap G)
              /\ HooksAt(c, e)' = HooksAt(c, e) \cap L
              /\ HooksAt(App, e) \cap HooksAt(c, e) = {}
              /\ \A b \in Blueprints \ {App, c} : HooksAt(b, e)' = HooksAt(b, e)
  <2>1. HooksAt(App, e) \cap HooksAt(c, e) = {}
    BY <1>3 DEF HooksAt
  <2>2. HooksAt(c, e)' = HooksAt(c, e) \cap L
    BY <1>3, <1>6, <1>7, <1>9 DEF HooksAt, L
  <2>3. HooksAt(App, e)' = HooksAt(App, e) \cup (HooksAt(c, e) \cap G)
    BY <1>3, <1>6, <1>7, <1>9 DEF HooksAt, G
  <2>4. \A b \in Blueprints \ {App, c} : HooksAt(b, e)' = HooksAt(b, e)
    BY <1>3, <1>6, <1>7, <1>9 DEF HooksAt
  <2> QED
    BY <2>1, <2>2, <2>3, <2>4
<1>11. ASSUME NEW b \in Blueprints, NEW e \in Events
       PROVE  IsInjective(Here(b, e)') /\ ToSet(Here(b, e)') = HooksAt(b, e)'
  <2>0. /\ IsInjective(hooks[App][e]) /\ ToSet(hooks[App][e]) = HooksAt(App, e)
        /\ IsInjective(hooks[c][e]) /\ ToSet(hooks[c][e]) = HooksAt(c, e)
    BY <1>3, <1>5 DEF AtHome, HooksAtHome
  <2>1. CASE b = App
    <3>1. /\ Those(hooks[c][e], G) \in Seq(config.hooks)
          /\ ToSet(Those(hooks[c][e], G)) = HooksAt(c, e) \cap G
          /\ IsInjective(Those(hooks[c][e], G))
      BY <1>5, <2>0, ThoseProperties
    <3>2. ToSet(hooks[App][e]) \cap ToSet(Those(hooks[c][e], G)) = {}
      BY <1>10, <2>0, <3>1
    <3>3. /\ IsInjective(hooks[App][e] \o Those(hooks[c][e], G))
          /\ ToSet(hooks[App][e] \o Those(hooks[c][e], G))
                = ToSet(hooks[App][e]) \cup ToSet(Those(hooks[c][e], G))
      BY <1>5, <2>0, <3>1, <3>2, ConcatElements
    <3> QED
      BY <1>8, <1>10, <2>0, <2>1, <3>1, <3>3
  <2>2. CASE b = c
    <3>1. /\ ToSet(Those(hooks[c][e], L)) = HooksAt(c, e) \cap L
          /\ IsInjective(Those(hooks[c][e], L))
      BY <1>5, <2>0, ThoseProperties
    <3> QED
      BY <1>8, <1>10, <2>2, <3>1
  <2>3. CASE b \notin {App, c}
    BY <1>8, <1>10, <2>3 DEF AtHome, HooksAtHome
  <2> QED
    BY <2>1, <2>2, <2>3
<1>12. HooksAtHome'
  BY <1>11 DEF HooksAtHome
<1> QED
  BY <1>2, <1>12 DEF AtHome, FlagsAreRight

LEMMA ExistsHookSame ==
  ASSUME UNCHANGED <<mounted, hooks>>, NEW e
  PROVE  ExistsHook(e)' = ExistsHook(e)
BY DEF ExistsHook

LEMMA HomeInit == Init => HomeInv
<1> SUFFICES ASSUME Init PROVE AtHome
  BY DEF HomeInv
<1>1. /\ hooks = [b \in Blueprints |-> [e \in Events |-> <<>>]]
      /\ parent = [b \in Blueprints |-> None] /\ todo = Ids /\ initialized = FALSE /\ conn = NoConn
      /\ config \in Configurations
  BY DEF Init
<1>2. /\ \A h \in config.hooks : h.id \in todo /\ h.bp \in Blueprints
      /\ \A m \in config.mounts : m.id \in todo
  BY <1>1, ProgramTypes DEF Ids, Hooks
<1>3. ASSUME NEW b \in Blueprints, NEW e \in Events
      PROVE  IsInjective(Here(b, e)) /\ ToSet(Here(b, e)) = HooksAt(b, e)
  <2>1. Here(b, e) = <<>> /\ HooksAt(b, e) = {}
    BY <1>1, <1>2 DEF Here, HooksAt
  <2>2. IsInjective(<<>>) /\ ToSet(<<>>) = {}
    BY DEF IsInjective, ToSet
  <2> QED
    BY <2>1, <2>2
<1>4. HooksAtHome
  BY <1>3 DEF HooksAtHome
<1>5. ~conn.made
  BY <1>1 DEF NoConn
<1> QED
  BY <1>1, <1>2, <1>4, <1>5 DEF AtHome, HooksComeFirst, MountsAreDone, FlagsAreRight

LEMMA HomeStep ==
  ASSUME StartInv, TypeInv, HomeInv, [Next]_vars
  PROVE  HomeInv'
<1>1. config' = config
  BY DEF Next, DeclareRoute, Nest, Mount, Mounts, AddHook, Handle, AddComponent, Declares, Initialize,
         Connect, Serve, vars
<1> SUFFICES ASSUME "late" \notin config.odd PROVE AtHome'
  BY <1>1 DEF HomeInv
<1>2. AtHome /\ BaseInv /\ TreeInv /\ DictsInv
  BY DEF HomeInv, TypeInv
<1>3. ASSUME NEW r \in config.routes, DeclareRoute(r) PROVE AtHome'
  <2>1. Declares(r) /\ UNCHANGED <<hooks, mounted, parent>>
    BY <1>3 DEF DeclareRoute
  <2> QED
    BY <1>2, <2>1, OthersAtHome
<1>4. ASSUME NEW m \in config.mounts, Nest(m) PROVE AtHome'
  BY <1>2, <1>4, NestAtHome
<1>5. ASSUME NEW m \in config.mounts, Mount(m) PROVE AtHome'
  BY <1>2, <1>5, MountAtHome
<1>6. ASSUME NEW h \in config.hooks, AddHook(h) PROVE AtHome'
  BY <1>2, <1>6, AddHookAtHome
<1>7. ASSUME NEW x \in config.handlers, Handle(x) PROVE AtHome'
  <2>1. Declares(x) /\ UNCHANGED <<hooks, mounted, parent>>
    BY <1>7 DEF Handle, blueprints
  <2> QED
    BY <1>2, <2>1, OthersAtHome
<1>8. ASSUME NEW c \in config.components, AddComponent(c) PROVE AtHome'
  <2>1. Declares(c) /\ UNCHANGED <<hooks, mounted, parent>>
    BY <1>8 DEF AddComponent, blueprints
  <2> QED
    BY <1>2, <2>1, OthersAtHome
<1>9. ASSUME UNCHANGED <<config, todo, blueprints, hooks>> PROVE HooksAtHome' /\ HooksComeFirst' /\ MountsAreDone'
  <2>1. HooksAtHome' /\ HooksComeFirst'
    BY <1>2, <1>9, SameHooks DEF AtHome, blueprints
  <2> QED
    BY <1>2, <1>9, <2>1 DEF AtHome, MountsAreDone, blueprints
<1>10. CASE Initialize
  <2>1. /\ UNCHANGED <<config, todo, blueprints, hooks, conn>> /\ todo = {} /\ ~initialized
    BY <1>10 DEF Initialize, serving
  <2>2. ~conn'.made
    BY <2>1 DEF StartInv
  <2> QED
    BY <1>9, <2>1, <2>2 DEF AtHome, FlagsAreRight
<1>11. CASE Connect
  <2>1. /\ UNCHANGED <<config, todo, blueprints, hooks, initialized>>
        /\ conn'.flags = {e \in Events : ExistsHook(e)}
    BY <1>11 DEF Connect
  <2>2. \A e \in Events : ExistsHook(e)' = ExistsHook(e)
    BY <2>1, ExistsHookSame DEF blueprints
  <2> QED
    BY <1>2, <1>9, <2>1, <2>2 DEF AtHome, FlagsAreRight
<1>12. CASE (\E ask \in config.asks, raises \in config.raises \cup {None} : Serve(ask, raises)) \/ UNCHANGED vars
  <2>1. UNCHANGED <<config, todo, blueprints, hooks, initialized, conn>>
    BY <1>12 DEF Serve, vars, serving
  <2>2. \A e \in Events : ExistsHook(e)' = ExistsHook(e)
    BY <2>1, ExistsHookSame DEF blueprints
  <2> QED
    BY <1>2, <1>9, <2>1, <2>2 DEF AtHome, FlagsAreRight
<1> QED
  BY <1>3, <1>4, <1>5, <1>6, <1>7, <1>8, <1>10, <1>11, <1>12 DEF Next

\* What the hooks of an event do to a page of bp.
Held(bp, e, called) ==
    /\ IsInjective(called) /\ ToSet(called) \subseteq Expected(bp, e)
    /\ \A i \in 1..(Len(called) - 1) : ~called[i].answers
    /\ Answered(called) \/ ToSet(called) = Expected(bp, e)

\* Where the hooks are that a page of bp has to pass.
LEMMA ExpectedAtHome ==
  ASSUME TypeInv, AtHome, "nested" \notin config.odd, todo = {}, NEW bp \in Blueprints, NEW e \in Events
  PROVE  /\ Expected(bp, e) = HooksAt(bp, e) \cup HooksAt(App, e)
         /\ \A h \in Expected(bp, e) : \E b \in {App} \cup {mounted[App][i].bp : i \in DOMAIN mounted[App]} :
               h \in HooksAt(b, e)
<1>1. \A h \in config.hooks : h.bp \in Blueprints /\ h.local \in BOOLEAN
  BY ProgramTypes DEF TypeInv, BaseInv, Hooks
<1>2. ASSUME NEW h \in config.hooks, h.bp # App
      PROVE  parent[h.bp] = App /\ \E i \in DOMAIN mounted[App] : mounted[App][i].bp = h.bp
  <2>1. PICK m \in config.mounts : m.bp = h.bp /\ m.parent = App
    BY <1>2, ProgramsAssumption DEF TypeInv, BaseInv
  <2> QED
    BY <2>1 DEF AtHome, MountsAreDone
<1>3. \A h \in config.hooks : Home(h) = IF h.bp # App /\ ~h.local THEN App ELSE h.bp
  BY <1>2 DEF Home
<1>4. \A h \in config.hooks : h \in Expected(bp, e) <=> h.event = e /\ Home(h) \in {bp, App}
  BY <1>1, <1>3 DEF Expected
<1>5. Expected(bp, e) = HooksAt(bp, e) \cup HooksAt(App, e)
  BY <1>4 DEF Expected, HooksAt
<1>6. ASSUME NEW h \in Expected(bp, e)
      PROVE  \E b \in {App} \cup {mounted[App][i].bp : i \in DOMAIN mounted[App]} : h \in HooksAt(b, e)
  <2>1. h \in config.hooks /\ h.event = e
    BY DEF Expected
  <2>2. h \in HooksAt(Home(h), e)
    BY <2>1 DEF HooksAt
  <2>3. Home(h) \in {App} \cup {mounted[App][i].bp : i \in DOMAIN mounted[App]}
    BY <1>2, <1>3, <2>1
  <2> QED
    BY <2>2, <2>3
<1> QED
  BY <1>5, <1>6

\* The hooks of one target: first those that are functions, then those that are
\* coroutines.
LEMMA TargetHooks ==
  ASSUME TypeInv, AtHome, NEW b \in Blueprints, NEW e \in Events
  PROVE  LET of(sync) == IF e \in DOMAIN hooks[b] THEN Those(hooks[b][e], {h \in config.hooks : h.sync = sync})
                         ELSE <<>>
             both == of(TRUE) \o of(FALSE)
         IN  both \in Seq(config.hooks) /\ ToSet(both) = HooksAt(b, e) /\ IsInjective(both)
<1> DEFINE set(sync) == {h \in config.hooks : h.sync = sync}
           s == Here(b, e)
           t == Those(s, set(TRUE))
           u == Those(s, set(FALSE))
<1>1. hooks[b] \in HookDicts /\ <<>> \in Seq(config.hooks)
  BY DEF TypeInv, DictsInv
<1>2. s \in Seq(config.hooks) /\ IsInjective(s) /\ ToSet(s) = HooksAt(b, e)
  BY <1>1, HookDict DEF Here, AtHome, HooksAtHome
<1>3. \A h \in config.hooks : h.sync \in BOOLEAN
  BY ProgramTypes DEF TypeInv, BaseInv, Hooks
<1>4. HooksAt(b, e) \subseteq config.hooks
  BY DEF HooksAt
<1> HIDE DEF s
<1>5. /\ t \in Seq(config.hooks) /\ ToSet(t) = HooksAt(b, e) \cap set(TRUE) /\ IsInjective(t)
      /\ u \in Seq(config.hooks) /\ ToSet(u) = HooksAt(b, e) \cap set(FALSE) /\ IsInjective(u)
  <2> HIDE DEF set
  <2>1. /\ t \in Seq(config.hooks) /\ ToSet(t) = ToSet(s) \cap set(TRUE)
        /\ IsInjective(s) => IsInjective(t)
    BY <1>2, ThoseProperties
  <2>2. /\ u \in Seq(config.hooks) /\ ToSet(u) = ToSet(s) \cap set(FALSE)
        /\ IsInjective(s) => IsInjective(u)
    BY <1>2, ThoseProperties
  <2> HIDE DEF t, u
  <2> QED
    BY <1>2, <2>1, <2>2
<1> HIDE DEF t, u
<1>6. ToSet(t) \cap ToSet(u) = {} /\ ToSet(t) \cup ToSet(u) = HooksAt(b, e)
  BY <1>3, <1>4, <1>5
<1> HIDE DEF set
<1>7. t \o u \in Seq(config.hooks) /\ ToSet(t \o u) = HooksAt(b, e) /\ IsInjective(t \o u)
  <2>1. t \in Seq(config.hooks) /\ u \in Seq(config.hooks)
    BY <1>5
  <2>2. /\ t \o u \in Seq(config.hooks) /\ ToSet(t \o u) = ToSet(t) \cup ToSet(u)
        /\ IsInjective(t) /\ IsInjective(u) /\ ToSet(t) \cap ToSet(u) = {} => IsInjective(t \o u)
    BY <2>1, ConcatElements
  <2> QED
    BY <1>5, <1>6, <2>2
<1> USE DEF set
<1>8. CASE e \in DOMAIN hooks[b]
  <2>1. s = hooks[b][e]
    BY <1>8 DEF s, Here
  <2> QED
    BY <1>7, <1>8, <2>1 DEF t, u
<1>9. CASE e \notin DOMAIN hooks[b]
  <2>1. s = <<>>
    BY <1>9 DEF s, Here
  <2>2. ToSet(<<>>) = {} /\ IsInjective(<<>>) /\ <<>> \o <<>> = <<>>
    BY DEF ToSet, IsInjective
  <2> QED
    BY <1>1, <1>2, <1>9, <2>1, <2>2
<1> QED
  BY <1>8, <1>9

LEMMA ListenersAre ==
  ASSUME TypeInv, AtHome, NEW bp \in Blueprints, NEW e \in Events
  PROVE  /\ Listeners(bp, e) \in Seq(config.hooks) /\ IsInjective(Listeners(bp, e))
         /\ ToSet(Listeners(bp, e)) = HooksAt(bp, e) \cup HooksAt(App, e)
<1> DEFINE of(t, sync) == IF e \in DOMAIN hooks[t] THEN Those(hooks[t][e], {h \in config.hooks : h.sync = sync})
                          ELSE <<>>
           both(t) == of(t, TRUE) \o of(t, FALSE)
           targets == IF bp # App THEN <<bp, App>> ELSE <<App>>
           ss == [i \in DOMAIN targets |-> both(targets[i])]
<1>0. App \in Blueprints
  BY AppIsNotNone
<1>1. \A b \in Blueprints : both(b) \in Seq(config.hooks) /\ ToSet(both(b)) = HooksAt(b, e) /\ IsInjective(both(b))
  <2>1. ASSUME NEW b \in Blueprints
        PROVE  both(b) \in Seq(config.hooks) /\ ToSet(both(b)) = HooksAt(b, e) /\ IsInjective(both(b))
    BY TargetHooks, Zenon
  <2> QED
    BY <2>1
<1>2. Listeners(bp, e) = FlattenSeq(ss)
  BY Zenon DEF Listeners
<1> HIDE DEF both
<1>3. \A b, c \in Blueprints : b # c => HooksAt(b, e) \cap HooksAt(c, e) = {}
  BY DEF HooksAt
<1>4. CASE bp # App
  <2>1. /\ DOMAIN targets = 1..2 /\ targets[1] = bp /\ targets[2] = App
    BY <1>4
  <2> HIDE DEF targets
  <2>2. ss \in Seq(Seq(config.hooks)) /\ Len(ss) = 2 /\ ss[1] = both(bp) /\ ss[2] = both(App)
    <3>1. ss = [i \in 1..2 |-> both(targets[i])]
      BY <2>1
    <3>2. \A i \in 1..2 : both(targets[i]) \in Seq(config.hooks)
      BY <1>0, <1>1, <2>1
    <3> DEFINE T == Seq(config.hooks)
    <3>3. ss \in [1..2 -> T]
      BY <3>1, <3>2
    <3> HIDE DEF T
    <3>4. ss[1] = both(targets[1]) /\ ss[2] = both(targets[2])
      BY <3>1
    <3> HIDE DEF ss
    <3>5. ss \in Seq(T) /\ Len(ss) = 2
      <4>1. \A n \in Nat : \A f \in [1..n -> T] : f \in Seq(T) /\ Len(f) = n
        OBVIOUS
      <4> QED
        BY <3>3, <4>1
    <3> QED
      BY <2>1, <3>4, <3>5 DEF T
  <2> HIDE DEF ss
  <2>3. ToSet(FlattenSeq(ss)) = ToSet(ss[1]) \cup ToSet(ss[2])
    <3>1. ToSet(FlattenSeq(ss)) = UNION {ToSet(ss[i]) : i \in 1..Len(ss)}
      BY <2>2, FlattenElements
    <3>2. 1..Len(ss) = {1, 2}
      BY <2>2
    <3> QED
      BY <3>1, <3>2
  <2>4. /\ \A i \in 1..Len(ss) : IsInjective(ss[i])
        /\ \A i, j \in 1..Len(ss) : i # j => ToSet(ss[i]) \cap ToSet(ss[j]) = {}
    <3>1. 1..Len(ss) = {1, 2}
      BY <2>2
    <3>2. IsInjective(ss[1]) /\ IsInjective(ss[2]) /\ ToSet(ss[1]) \cap ToSet(ss[2]) = {}
      BY <1>0, <1>1, <1>3, <1>4, <2>2
    <3> QED
      BY <3>1, <3>2
  <2>5. FlattenSeq(ss) \in Seq(config.hooks) /\ IsInjective(FlattenSeq(ss))
    BY <2>2, <2>4, FlattenElements
  <2> QED
    BY <1>0, <1>1, <1>2, <2>2, <2>3, <2>5
<1>5. CASE bp = App
  <2>1. DOMAIN targets = 1..1 /\ targets[1] = App
    BY <1>5
  <2> HIDE DEF targets
  <2>2. ss \in Seq(Seq(config.hooks)) /\ Len(ss) = 1 /\ ss[1] = both(App)
    <3>1. ss = [i \in 1..1 |-> both(targets[i])]
      BY <2>1
    <3>2. \A i \in 1..1 : both(targets[i]) \in Seq(config.hooks)
      BY <1>0, <1>1, <2>1
    <3> DEFINE T == Seq(config.hooks)
    <3>3. ss \in [1..1 -> T]
      BY <3>1, <3>2
    <3> HIDE DEF T
    <3>4. ss[1] = both(targets[1])
      BY <3>1
    <3> HIDE DEF ss
    <3>5. ss \in Seq(T) /\ Len(ss) = 1
      <4>1. \A n \in Nat : \A f \in [1..n -> T] : f \in Seq(T) /\ Len(f) = n
        OBVIOUS
      <4> QED
        BY <3>3, <4>1
    <3> QED
      BY <2>1, <3>4, <3>5 DEF T
  <2> HIDE DEF ss
  <2>3. 1..Len(ss) = {1}
    BY <2>2
  <2>4. ToSet(FlattenSeq(ss)) = ToSet(ss[1])
    <3>1. ToSet(FlattenSeq(ss)) = UNION {ToSet(ss[i]) : i \in 1..Len(ss)}
      BY <2>2, FlattenElements
    <3> QED
      BY <2>3, <3>1
  <2>5. /\ \A i \in 1..Len(ss) : IsInjective(ss[i])
        /\ \A i, j \in 1..Len(ss) : i # j => ToSet(ss[i]) \cap ToSet(ss[j]) = {}
    BY <1>0, <1>1, <2>2, <2>3
  <2>6. FlattenSeq(ss) \in Seq(config.hooks) /\ IsInjective(FlattenSeq(ss))
    BY <2>2, <2>5, FlattenElements
  <2> QED
    BY <1>0, <1>1, <1>2, <1>5, <2>2, <2>4, <2>6
<1> QED
  BY <1>4, <1>5

\* call_hooks, for a connection that knows which events have hooks.
LEMMA CallHooksHeld ==
  ASSUME TypeInv, AtHome, conn.made, initialized, "nested" \notin config.odd,
         NEW bp \in Blueprints, NEW e \in Events
  PROVE  Held(bp, e, CallHooks(bp, e))
<1>1. todo = {} /\ conn.flags = {d \in Events : ExistsHook(d)}
  BY DEF AtHome, FlagsAreRight
<1>2. /\ Expected(bp, e) = HooksAt(bp, e) \cup HooksAt(App, e)
      /\ \A h \in Expected(bp, e) : \E b \in {App} \cup {mounted[App][i].bp : i \in DOMAIN mounted[App]} :
            h \in HooksAt(b, e)
  BY <1>1, ExpectedAtHome
<1>3. CASE e \in conn.flags
  <2> DEFINE s == Listeners(bp, e)
  <2>1. s \in Seq(config.hooks) /\ IsInjective(s) /\ ToSet(s) = Expected(bp, e)
    BY <1>2, ListenersAre
  <2>2. \A h \in config.hooks : h.answers \in BOOLEAN
    BY ProgramTypes DEF TypeInv, BaseInv, Hooks
  <2>3. CallHooks(bp, e) = UpToAnswer(s)
    BY <1>3 DEF CallHooks
  <2> HIDE DEF s
  <2>4. /\ IsInjective(UpToAnswer(s)) /\ ToSet(UpToAnswer(s)) \subseteq ToSet(s)
        /\ \A i \in 1..(Len(UpToAnswer(s)) - 1) : ~UpToAnswer(s)[i].answers
        /\ Answered(UpToAnswer(s)) \/ ToSet(UpToAnswer(s)) = ToSet(s)
    BY <2>1, <2>2, UpToAnswerPasses
  <2> QED
    BY <2>1, <2>3, <2>4, Zenon DEF Held
<1>4. CASE e \notin conn.flags
  <2>1. Expected(bp, e) = {}
    <3>1. ASSUME NEW h \in Expected(bp, e) PROVE FALSE
      <4>1. PICK b \in {App} \cup {mounted[App][i].bp : i \in DOMAIN mounted[App]} : h \in HooksAt(b, e)
        BY <1>2
      <4>2. b \in Blueprints
        <5>1. App \in Blueprints /\ mounted[App] \in Seq(Nestings)
          BY AppIsNotNone DEF TypeInv, TreeInv, DeclaredType
        <5>2. \A i \in DOMAIN mounted[App] : mounted[App][i].bp \in Blueprints
          <6>1. \A i \in DOMAIN mounted[App] : mounted[App][i] \in Nestings
            BY <5>1
          <6> QED
            BY <6>1 DEF Nestings
        <5> QED
          BY <5>1, <5>2
      <4>3. h \in ToSet(Here(b, e))
        BY <4>1, <4>2 DEF AtHome, HooksAtHome
      <4>4. Here(b, e) # <<>>
        BY <4>3 DEF ToSet
      <4>5. ExistsHook(e)
        BY <4>1, <4>4 DEF ExistsHook, Here
      <4> QED
        BY <1>1, <1>4, <4>5
    <3> QED
      BY <3>1
  <2>2. CallHooks(bp, e) = <<>>
    BY <1>4 DEF CallHooks
  <2>3. IsInjective(<<>>) /\ ToSet(<<>>) = {} /\ Len(<<>>) = 0 /\ 1..(0 - 1) = {}
    BY DEF IsInjective, ToSet
  <2> QED
    BY <2>1, <2>2, <2>3 DEF Held
<1> QED
  BY <1>3, <1>4

\* A request with the route r, in the terms of Handled.
LEMMA HandledIs ==
  ASSUME NEW ask, NEW r, NEW raises, NEW d, d = Handled(ask, r, raises)
  PROVE  \E skips \in BOOLEAN, quiet \in BOOLEAN :
            /\ skips => r.cache = "skips"
            /\ d.ask = ask /\ d.route = r
            /\ d.before = IF skips THEN <<>> ELSE CallHooks(r.parent, "before")
            /\ d.after = IF quiet THEN <<>> ELSE CallHooks(r.parent, "after")
            /\ d.sent = IF quiet THEN <<>> ELSE CallHooks(r.parent, "sent")
            /\ d.is \in {"page", "replaced"} => (quiet <=> skips)
            /\ skips => quiet
            /\ d.caught = IF d.exc = None THEN <<>> ELSE ProcessException(r.parent, d.exc)
            /\ d.is = IF Answered(d.before) THEN "hook"
                      ELSE IF d.exc = None THEN IF Answered(d.after) THEN "replaced" ELSE "page"
                      ELSE IF Answered(d.caught) THEN "error" ELSE "nothing"
            /\ d.exc # None => d.exc = CallHandler(r, raises) /\ ~Answered(d.before)
<1> DEFINE held == r.id \in DOMAIN stored
           skips == held /\ r.cache = "skips"
           before == IF skips THEN <<>> ELSE CallHooks(r.parent, "before")
           halted == Answered(before)
           hit == skips \/ (held /\ r.cache = "hooked" /\ ~halted)
           exc == IF halted \/ hit THEN None ELSE CallHandler(r, raises)
           quiet == skips \/ halted \/ exc # None
           after == IF quiet THEN <<>> ELSE CallHooks(r.parent, "after")
           sent == IF quiet THEN <<>> ELSE CallHooks(r.parent, "sent")
           caught == IF exc = None THEN <<>> ELSE ProcessException(r.parent, exc)
           is == CASE halted -> "hook"
                   [] exc # None -> IF Answered(caught) THEN "error" ELSE "nothing"
                   [] ~halted /\ exc = None -> IF Answered(after) THEN "replaced" ELSE "page"
           page == IF hit THEN stored[r.id] ELSE Page(r)
           stores == r.cache # None /\ ~halted /\ ~hit /\ exc = None
<1>1. d = [is |-> is, page |-> page, stores |-> stores, ask |-> ask, route |-> r, exc |-> exc,
           before |-> before, after |-> after, sent |-> sent, caught |-> caught]
  BY Zenon DEF Handled
<1> HIDE DEF page, stores, is
<1>2. /\ d.is = is /\ d.ask = ask /\ d.route = r /\ d.exc = exc /\ d.before = before
      /\ d.after = after /\ d.sent = sent /\ d.caught = caught
  <2> HIDE DEF before, after, sent, caught, exc
  <2> QED
    BY <1>1
<1>3. halted => exc = None
  BY DEF exc
<1>4. (held /\ r.cache = "skips") \in BOOLEAN /\ halted \in BOOLEAN
  BY DEF Answered
<1> HIDE DEF halted, exc
<1>5. is = IF halted THEN "hook"
           ELSE IF exc = None THEN IF Answered(after) THEN "replaced" ELSE "page"
           ELSE IF Answered(caught) THEN "error" ELSE "nothing"
  <2> HIDE DEF caught, after
  <2>1. CASE halted
    BY <1>3, <2>1 DEF is
  <2>2. CASE ~halted
    BY <2>2 DEF is
  <2> QED
    BY <2>1, <2>2
<1>6. quiet \in BOOLEAN /\ (skips => quiet) /\ (skips => r.cache = "skips")
  BY <1>4
<1>7. d.is \in {"page", "replaced"} => ~halted /\ exc = None
  <2> HIDE DEF caught, after
  <2> QED
    BY <1>2, <1>5
<1>8. d.is \in {"page", "replaced"} => (quiet <=> skips)
  BY <1>7
<1>9. exc # None => exc = CallHandler(r, raises) /\ ~halted
  BY DEF exc
<1>10. d.is = IF Answered(d.before) THEN "hook"
              ELSE IF d.exc = None THEN IF Answered(d.after) THEN "replaced" ELSE "page"
              ELSE IF Answered(d.caught) THEN "error" ELSE "nothing"
  <2> HIDE DEF caught, before, after
  <2> QED
    BY <1>2, <1>5 DEF halted
<1>11. d.exc # None => d.exc = CallHandler(r, raises) /\ ~Answered(d.before)
  <2> HIDE DEF before
  <2> QED
    BY <1>2, <1>9 DEF halted
<1> HIDE DEF quiet, skips
<1>12. d.caught = IF d.exc = None THEN <<>> ELSE ProcessException(r.parent, d.exc)
  BY <1>2
<1>13. /\ d.before = IF skips THEN <<>> ELSE CallHooks(r.parent, "before")
       /\ d.after = IF quiet THEN <<>> ELSE CallHooks(r.parent, "after")
       /\ d.sent = IF quiet THEN <<>> ELSE CallHooks(r.parent, "sent")
  BY <1>2
<1>14. skips \in BOOLEAN /\ quiet \in BOOLEAN
  BY <1>4, <1>6 DEF skips
<1> QED
  BY <1>14, <1>2, <1>6, <1>8, <1>10, <1>11, <1>12, <1>13, Zenon

LEMMA HandledHooks ==
  ASSUME TypeInv, AtHome, conn.made, initialized, "nested" \notin config.odd,
         NEW ask, NEW r, r.parent \in Blueprints, NEW raises, NEW d, d = Handled(ask, r, raises)
  PROVE  /\ d.route = r
         /\ \/ r.cache = "skips" /\ d.before = <<>> /\ d.after = <<>> /\ d.sent = <<>>
            \/ /\ Held(r.parent, "before", d.before)
               /\ d.is \in {"page", "replaced"} =>
                     Held(r.parent, "after", d.after) /\ Held(r.parent, "sent", d.sent)
<1>1. \A e \in Events : Held(r.parent, e, CallHooks(r.parent, e))
  BY CallHooksHeld
<1>2. "before" \in Events /\ "after" \in Events /\ "sent" \in Events
  BY DEF Events
<1>3. PICK skips \in BOOLEAN, quiet \in BOOLEAN :
         /\ skips => r.cache = "skips"
         /\ d.route = r
         /\ d.before = IF skips THEN <<>> ELSE CallHooks(r.parent, "before")
         /\ d.after = IF quiet THEN <<>> ELSE CallHooks(r.parent, "after")
         /\ d.sent = IF quiet THEN <<>> ELSE CallHooks(r.parent, "sent")
         /\ d.is \in {"page", "replaced"} => (quiet <=> skips)
         /\ skips => quiet
  BY HandledIs
<1>4. CASE skips
  BY <1>3, <1>4
<1>5. CASE ~skips
  <2>1. Held(r.parent, "before", d.before)
    BY <1>1, <1>2, <1>3, <1>5
  <2>2. d.is \in {"page", "replaced"} => Held(r.parent, "after", d.after) /\ Held(r.parent, "sent", d.sent)
    BY <1>1, <1>2, <1>3, <1>5
  <2> QED
    BY <1>3, <2>1, <2>2
<1> QED
  BY <1>4, <1>5

\* The route a request is handled with, and what becomes of it.
LEMMA ServeIs ==
  ASSUME TypeInv, NEW ask \in config.asks, NEW raises, Serve(ask, raises)
  PROVE  /\ UNCHANGED <<config, parent, handlers>> /\ conn.made
         /\ \/ reply' = [is |-> "lost", ask |-> ask]
            \/ \E r : r.parent \in Blueprints /\ reply' = Handled(ask, r, raises)
<1> DEFINE found == GetRoute(ask.url, ask.method, ask.host)
           r == IF found.is = "route" THEN found.route ELSE DefaultRoute(found.is)
<1>1. /\ UNCHANGED <<config, parent, handlers>> /\ conn.made
      /\ reply' = IF found.is \in {"KeyError", "TypeError"} THEN [is |-> "lost", ask |-> ask]
                  ELSE Handled(ask, r, raises)
  BY Zenon DEF Serve, blueprints
<1>2. found.is = "route" => found.route \in OwnRoutes
  BY AskTypes, GetRouteType DEF TypeInv, BaseInv
<1>3. DefaultRoute(found.is).parent = App
  BY DEF DefaultRoute, StaticRoute
<1>4. r.parent \in Blueprints
  <2> HIDE DEF found
  <2> QED
    BY <1>2, <1>3, AppIsNotNone DEF OwnRoutes
<1> HIDE DEF r, found
<1> QED
  BY <1>1, <1>4

LEMMA HooksInit == Init => HooksAreCalled
<1> SUFFICES ASSUME Init PROVE HooksAreCalled
  OBVIOUS
<1>1. reply.is = None
  BY DEF Init, NoReply
<1> QED
  BY <1>1 DEF HooksAreCalled, None

LEMMA HooksStep ==
  ASSUME StartInv, TypeInv, HomeInv, HooksAreCalled, [Next]_vars
  PROVE  HooksAreCalled'
<1>1. ASSUME NEW ask \in config.asks, NEW raises \in config.raises \cup {None}, Serve(ask, raises)
      PROVE  HooksAreCalled'
  <2>1. /\ config' = config /\ conn.made
        /\ \/ reply' = [is |-> "lost", ask |-> ask]
           \/ \E r : r.parent \in Blueprints /\ reply' = Handled(ask, r, raises)
    BY <1>1, ServeIs
  <2>2. CASE reply' = [is |-> "lost", ask |-> ask]
    <3>1. reply'.is = "lost"
      BY <2>2
    <3> QED
      BY <3>1 DEF HooksAreCalled
  <2>3. ASSUME NEW r, r.parent \in Blueprints, reply' = Handled(ask, r, raises)
        PROVE  HooksAreCalled'
    <3> SUFFICES ASSUME reply'.is \in {"page", "replaced", "hook", "error"},
                        config.odd \cap {"nested", "late"} = {}
                 PROVE  \/ /\ reply'.route.cache = "skips"
                           /\ reply'.before = <<>> /\ reply'.after = <<>> /\ reply'.sent = <<>>
                        \/ /\ Held(reply'.route.parent, "before", reply'.before)
                           /\ reply'.is \in {"page", "replaced"} =>
                                 /\ Held(reply'.route.parent, "after", reply'.after)
                                 /\ Held(reply'.route.parent, "sent", reply'.sent)
      BY <2>1, Zenon DEF HooksAreCalled, Usual, Held, Expected
    <3>1. AtHome /\ initialized /\ "nested" \notin config.odd
      BY <2>1 DEF HomeInv, StartInv
    <3>2. PICK d : d = reply'
      OBVIOUS
    <3>3. /\ d.route = r
          /\ \/ r.cache = "skips" /\ d.before = <<>> /\ d.after = <<>> /\ d.sent = <<>>
             \/ /\ Held(r.parent, "before", d.before)
                /\ d.is \in {"page", "replaced"} =>
                      Held(r.parent, "after", d.after) /\ Held(r.parent, "sent", d.sent)
      BY <2>1, <2>3, <3>1, <3>2, HandledHooks
    <3> QED
      BY <3>2, <3>3
  <2> QED
    BY <2>1, <2>2, <2>3
<1>2. CASE UNCHANGED <<config, reply>>
  BY <1>2 DEF HooksAreCalled, Usual, Expected
<1>3. (\E r \in config.routes : DeclareRoute(r)) \/ (\E m \in config.mounts : Nest(m) \/ Mount(m))
        \/ (\E h \in config.hooks : AddHook(h)) \/ (\E x \in config.handlers : Handle(x))
        \/ (\E c \in config.components : AddComponent(c)) \/ Initialize \/ Connect \/ UNCHANGED vars
      => UNCHANGED <<config, reply>>
  BY DEF DeclareRoute, Nest, Mount, Mounts, AddHook, Handle, AddComponent, Declares, Initialize, Connect,
         vars, serving
<1> QED
  BY <1>1, <1>2, <1>3 DEF Next

-----------------------------------------------------------------------------
(* Where handlers are kept: each with its blueprint, until the application *)
(* adds the defaults and sorts its own.                                    *)

HandlersDeclared(b) == {x \in config.handlers : x.bp = b /\ x.id \notin todo}
HandlersOfApp == {x \in config.handlers : x.bp = App /\ x.exc # "MissingComponent"} \cup Defaults

ParentsAreMounts ==
    \A b \in Blueprints : parent[b] # None => \E m \in config.mounts : m.bp = b /\ m.parent = parent[b]
NoReplyYet == ~conn.made => reply = NoReply
AsDeclared ==
    /\ initialized => todo = {}
    /\ \A b \in Blueprints : b # App \/ ~initialized => ToSet(handlers[b]) = HandlersDeclared(b)
    /\ initialized => Ordered(handlers[App]) /\ ToSet(handlers[App]) = HandlersOfApp
KeptInv ==
    /\ ParentsAreMounts /\ NoReplyYet
    /\ config.odd \cap {"late", "again"} = {} => AsDeclared

\* No two handlers of a dict are for one class.
LEMMA DictIsUnique ==
  ASSUME NEW s \in HandlerDicts, NEW x \in ToSet(s), NEW y \in ToSet(s), x.exc = y.exc
  PROVE  x = y
BY HandlerDictProperties

\* What initialize makes of the application's handlers.
LEMMA AllDefaults ==
  ASSUME NEW s \in HandlerDicts,
         ToSet(s) = {x \in config.handlers : x.bp = App}
  PROVE  /\ Ordered(SortErrorHandlers(WithDefaults(s)))
         /\ ToSet(SortErrorHandlers(WithDefaults(s))) = HandlersOfApp
<1> DEFINE w == WithDefaults(s)
<1>1. /\ w \in HandlerDicts
      /\ \A y \in ToSet(w) : y \in ToSet(s) \/ \E c \in DefaultClasses : y = Default(c)
      /\ \A y \in ToSet(s) : y \in ToSet(w) \/ y.exc = "MissingComponent"
      /\ \A c \in DefaultClasses : \/ Default(c) \in ToSet(w)
                                  \/ \E y \in ToSet(s) : y.exc = c /\ c # "MissingComponent"
  BY WithDefaultsProperties
<1> HIDE DEF w
<1>2. Default("MissingComponent") \in ToSet(w) /\ Default("MissingComponent") \in Defaults
  BY <1>1 DEF DefaultClasses, Defaults
<1>3. \A c : Default(c).exc = c
  BY DEF Default
<1>4. \A c \in DefaultClasses : Default(c) \in ToSet(w) /\ (\E y \in ToSet(s) : y.exc = c) /\ c # "MissingComponent"
         => Default(c) \in ToSet(s)
  BY <1>1, <1>3, DictIsUnique
<1>5. \A c \in DefaultClasses : Default(c) \in Defaults \/ ((\E y \in ToSet(s) : y.exc = c) /\ c # "MissingComponent")
  BY DEF Defaults
<1>6. ASSUME NEW y \in ToSet(w) PROVE y \in HandlersOfApp
  <2>1. CASE y \in ToSet(s) /\ y.exc # "MissingComponent"
    BY <2>1 DEF HandlersOfApp
  <2>2. CASE y.exc = "MissingComponent"
    <3>1. y = Default("MissingComponent")
      BY <1>1, <1>2, <1>3, <2>2, DictIsUnique
    <3> QED
      BY <1>2, <3>1 DEF HandlersOfApp
  <2>3. CASE y \notin ToSet(s) /\ y.exc # "MissingComponent"
    <3>1. PICK c \in DefaultClasses : y = Default(c)
      BY <1>1, <2>3
    <3> QED
      BY <1>4, <1>5, <2>3, <3>1 DEF HandlersOfApp
  <2> QED
    BY <2>1, <2>2, <2>3
<1>7. ASSUME NEW y \in HandlersOfApp PROVE y \in ToSet(w)
  <2>1. CASE y \in config.handlers /\ y.bp = App /\ y.exc # "MissingComponent"
    BY <1>1, <2>1
  <2>2. CASE y \in Defaults
    <3>1. PICK c \in DefaultClasses :
             y = Default(c) /\ (c = "MissingComponent" \/ ~\E x \in config.handlers : x.bp = App /\ x.exc = c)
      BY <2>2 DEF Defaults
    <3> QED
      BY <1>1, <3>1
  <2> QED
    BY <2>1, <2>2 DEF HandlersOfApp
<1>8. /\ Ordered(SortErrorHandlers(w)) /\ ToSet(SortErrorHandlers(w)) = ToSet(w)
  BY <1>1, SortProperties
<1> QED
  BY <1>6, <1>7, <1>8 DEF w

LEMMA KeptInit == Init => KeptInv
<1> SUFFICES ASSUME Init PROVE KeptInv
  OBVIOUS
<1>1. /\ handlers = [b \in Blueprints |-> <<>>] /\ parent = [b \in Blueprints |-> None]
      /\ initialized = FALSE /\ reply = NoReply /\ todo = Ids /\ ToSet(<<>>) = {}
  BY DEF Init, ToSet
<1>2. \A x \in config.handlers : x.id \in todo
  BY <1>1 DEF Ids
<1>3. ParentsAreMounts /\ NoReplyYet
  BY <1>1 DEF ParentsAreMounts, NoReplyYet
<1>4. AsDeclared
  BY <1>1, <1>2 DEF AsDeclared, HandlersDeclared
<1> QED
  BY <1>3, <1>4 DEF KeptInv

\* A declaration does away with its own id only.
LEMMA DeclaresHandlers ==
  ASSUME config \in Configurations, NEW x, Declares(x),
         x \in config.routes \cup config.mounts \cup config.hooks \cup config.handlers \cup config.components
  PROVE  /\ config' = config /\ initialized' = initialized /\ x.id \in todo
         /\ \A y \in config.handlers : y.id \in todo' <=> y.id \in todo /\ y # x
<1>1. \A y \in config.routes \cup config.mounts \cup config.hooks \cup config.handlers \cup config.components :
         x.id = y.id => x = y
  BY ProgramsAssumption
<1> QED
  BY <1>1 DEF Declares

LEMMA NotHandlers ==
  ASSUME config \in Configurations
  PROVE  config.handlers \cap (config.routes \cup config.mounts \cup config.hooks \cup config.components) = {}
<1>1. ASSUME NEW x \in Handlers PROVE x \notin Routes \cup Components
  <2>1. x \notin Routes
    BY DEF Handlers, Routes
  <2>2. x \notin Components
    BY DEF Handlers, Components
  <2> QED
    BY <2>1, <2>2
<1>2. config.handlers \subseteq Handlers /\ config.routes \subseteq Routes /\ config.components \subseteq Components
  BY ProgramTypes DEF OwnRoutes
<1> QED
  BY <1>1, <1>2, Apart

\* Nothing else of a program is about its handlers.
LEMMA OthersKept ==
  ASSUME config \in Configurations, AsDeclared,
         NEW x \in config.routes \cup config.mounts \cup config.hooks \cup config.components,
         Declares(x), handlers' = handlers
  PROVE  AsDeclared'
<1>1. /\ x \notin config.handlers
      /\ x \in config.routes \cup config.mounts \cup config.hooks \cup config.handlers \cup config.components
  BY NotHandlers
<1>2. /\ config' = config /\ initialized' = initialized /\ x.id \in todo
      /\ \A y \in config.handlers : y.id \in todo' <=> y.id \in todo
  BY <1>1, DeclaresHandlers
<1>3. \A b \in Blueprints : HandlersDeclared(b)' = HandlersDeclared(b)
  BY <1>2 DEF HandlersDeclared
<1>4. initialized = FALSE \/ initialized # FALSE
  OBVIOUS
<1> QED
  BY <1>2, <1>3 DEF AsDeclared

LEMMA HandleKept ==
  ASSUME BaseInv, AsDeclared, "again" \notin config.odd, NEW x \in config.handlers, Handle(x)
  PROVE  AsDeclared'
<1>1. /\ Declares(x) /\ handlers' = [handlers EXCEPT ![x.bp] = Put(handlers[x.bp], x)]
      /\ config \in Configurations /\ handlers \in [Blueprints -> HandlerDicts]
  BY DEF Handle, BaseInv
<1>2. /\ config' = config /\ initialized' = initialized /\ x.id \in todo
      /\ \A y \in config.handlers : y.id \in todo' <=> y.id \in todo /\ y # x
  BY <1>1, DeclaresHandlers
<1>3. ~initialized
  BY <1>2 DEF AsDeclared
<1>4. x \in Handlers /\ x.bp \in Blueprints /\ handlers[x.bp] \in HandlerDicts
  <2>1. x \in Handlers
    BY <1>1, ProgramTypes
  <2> QED
    BY <1>1, <2>1 DEF Handlers
<1>5. \A y \in config.handlers : y.bp = x.bp /\ y.exc = x.exc => y = x
  BY <1>1, ProgramsAssumption
<1>6. ToSet(handlers[x.bp]) = HandlersDeclared(x.bp)
  BY <1>3, <1>4 DEF AsDeclared
<1>7. ToSet(Put(handlers[x.bp], x)) = {y \in ToSet(handlers[x.bp]) : y.exc # x.exc} \cup {x}
  BY <1>4, PutProperties
<1>8. ASSUME NEW b \in Blueprints PROVE ToSet(handlers'[b]) = HandlersDeclared(b)'
  <2>1. HandlersDeclared(b)' = {y \in config.handlers : y.bp = b /\ (y.id \notin todo \/ y = x)}
    BY <1>2 DEF HandlersDeclared
  <2>2. CASE b = x.bp
    <3>1. handlers'[b] = Put(handlers[x.bp], x)
      BY <1>1, <1>4, <2>2
    <3>2. HandlersDeclared(x.bp) = {y \in config.handlers : y.bp = b /\ y.id \notin todo}
      BY <2>2 DEF HandlersDeclared
    <3>3. \A y \in HandlersDeclared(x.bp) : y.exc # x.exc
      BY <1>2, <1>5, <2>2, <3>2
    <3>4. ToSet(handlers'[b]) = HandlersDeclared(x.bp) \cup {x}
      BY <1>6, <1>7, <3>1, <3>3
    <3> QED
      BY <2>1, <2>2, <3>2, <3>4
  <2>3. CASE b # x.bp
    <3>1. handlers'[b] = handlers[b]
      BY <1>1, <1>4, <2>3
    <3>2. ToSet(handlers[b]) = HandlersDeclared(b)
      BY <1>3 DEF AsDeclared
    <3>3. HandlersDeclared(b)' = HandlersDeclared(b)
      BY <2>1, <2>3 DEF HandlersDeclared
    <3> QED
      BY <3>1, <3>2, <3>3
  <2> QED
    BY <2>2, <2>3
<1> QED
  BY <1>2, <1>3, <1>8 DEF AsDeclared

LEMMA InitializeKept ==
  ASSUME BaseInv, AsDeclared, "late" \notin config.odd, Initialize
  PROVE  AsDeclared'
<1>1. /\ UNCHANGED <<config, todo>> /\ ~initialized /\ initialized' = TRUE /\ todo = {}
      /\ handlers' = [handlers EXCEPT ![App] = SortErrorHandlers(WithDefaults(handlers[App]))]
      /\ handlers \in [Blueprints -> HandlerDicts]
  BY DEF Initialize, BaseInv
<1>2. \A b \in Blueprints : /\ ToSet(handlers[b]) = HandlersDeclared(b)
                            /\ HandlersDeclared(b)' = HandlersDeclared(b)
  BY <1>1 DEF AsDeclared, HandlersDeclared
<1>3. ToSet(handlers[App]) = {x \in config.handlers : x.bp = App} /\ handlers[App] \in HandlerDicts
  BY <1>1, <1>2, AppIsNotNone DEF HandlersDeclared
<1>4. /\ Ordered(SortErrorHandlers(WithDefaults(handlers[App])))
      /\ ToSet(SortErrorHandlers(WithDefaults(handlers[App]))) = HandlersOfApp
  BY <1>3, AllDefaults
<1>5. handlers'[App] = SortErrorHandlers(WithDefaults(handlers[App]))
  BY <1>1, AppIsNotNone
<1>6. HandlersOfApp' = HandlersOfApp
  BY <1>1 DEF HandlersOfApp, Defaults
<1>7. \A b \in Blueprints : b # App => handlers'[b] = handlers[b]
  BY <1>1
<1>8. Ordered(handlers[App])'
  BY <1>4, <1>5 DEF Ordered
<1> QED
  BY <1>1, <1>2, <1>4, <1>5, <1>6, <1>7, <1>8 DEF AsDeclared

LEMMA KeptStep ==
  ASSUME StartInv, TypeInv, KeptInv, [Next]_vars
  PROVE  KeptInv'
<1>1. config' = config /\ config \in Configurations
  BY DEF Next, DeclareRoute, Nest, Mount, Mounts, AddHook, Handle, AddComponent, Declares, Initialize,
         Connect, Serve, vars, TypeInv, BaseInv
<1>2. ASSUME NEW m \in config.mounts, Mounts(m) PROVE ParentsAreMounts'
  <2>1. parent' = [parent EXCEPT ![m.bp] = m.parent] /\ parent \in [Blueprints -> Blueprints \cup {None}]
    BY <1>2 DEF Mounts, TypeInv, TreeInv
  <2> QED
    BY <1>1, <1>2, <2>1 DEF KeptInv, ParentsAreMounts
<1>3. ASSUME parent' = parent PROVE ParentsAreMounts'
  <2>1. ParentsAreMounts
    BY DEF KeptInv
  <2> QED
    BY <1>1, <1>3, <2>1 DEF ParentsAreMounts
<1>4. ParentsAreMounts'
  <2>1. (\E m \in config.mounts : Mounts(m)) \/ parent' = parent
    BY DEF Next, DeclareRoute, Nest, Mount, AddHook, Handle, AddComponent, Initialize, Connect, Serve, vars,
           blueprints
  <2> QED
    BY <1>2, <1>3, <2>1
<1>5. NoReplyYet'
  BY DEF KeptInv, NoReplyYet, Next, DeclareRoute, Nest, Mount, Mounts, AddHook, Handle, AddComponent,
         Declares, Initialize, Connect, Serve, vars, serving
<1> SUFFICES ASSUME config.odd \cap {"late", "again"} = {} PROVE AsDeclared'
  BY <1>1, <1>4, <1>5 DEF KeptInv
<1>6. AsDeclared /\ BaseInv /\ "late" \notin config.odd /\ "again" \notin config.odd
  BY DEF KeptInv, TypeInv
<1>7. ASSUME NEW x \in config.routes \cup config.mounts \cup config.hooks \cup config.components,
             Declares(x), handlers' = handlers
      PROVE  AsDeclared'
  BY <1>1, <1>6, <1>7, OthersKept
<1>8. ASSUME UNCHANGED <<config, todo, handlers, initialized>> PROVE AsDeclared'
  <2>1. \A b \in Blueprints : HandlersDeclared(b)' = HandlersDeclared(b)
    BY <1>8 DEF HandlersDeclared
  <2>2. HandlersOfApp' = HandlersOfApp
    BY <1>8 DEF HandlersOfApp, Defaults
  <2>3. Ordered(handlers[App])' <=> Ordered(handlers[App])
    BY <1>8 DEF Ordered
  <2> QED
    BY <1>6, <1>8, <2>1, <2>2, <2>3 DEF AsDeclared
<1>9. ASSUME NEW x \in config.handlers, Handle(x) PROVE AsDeclared'
  BY <1>6, <1>9, HandleKept
<1>10. CASE Initialize
  BY <1>6, <1>10, InitializeKept
<1>11. \/ \E x \in config.routes \cup config.mounts \cup config.hooks \cup config.components :
             Declares(x) /\ handlers' = handlers
       \/ \E x \in config.handlers : Handle(x)
       \/ Initialize
       \/ UNCHANGED <<config, todo, handlers, initialized>>
  BY DEF Next, DeclareRoute, Nest, Mount, Mounts, AddHook, AddComponent, Connect, Serve, vars
<1> QED
  BY <1>7, <1>8, <1>9, <1>10, <1>11

\* What Those keeps stays in the same order.
InOrder(t, s, n) ==
    \A a, b \in 1..Len(t) : a < b => \E k, l \in 1..n : k < l /\ s[k] = t[a] /\ s[l] = t[b]

LEMMA ThoseInOrder ==
  ASSUME NEW A, NEW s \in Seq(A), NEW S
  PROVE  InOrder(Those(s, S), s, Len(s))
<1> DEFINE n == Len(s)
           T == Seq(A)
           Upto(i) == {s[j] : j \in 1..i}
           Good(t, i) == /\ t \in T /\ \A a \in 1..Len(t) : t[a] \in Upto(i)
                         /\ InOrder(t, s, i)
<1>1. n \in Nat /\ \A i \in 1..n : s[i] \in A
  OBVIOUS
<1>2. PICK f \in [0..n -> T] : Picks(f, s, S)
  BY ThoseSteps
<1>3. f[0] = <<>> /\ f[n] = Those(s, S) /\ \A i \in 1..n : f[i] = f[i - 1] \o OneOf(s, S, i)
  BY <1>2 DEF Picks
<1>4. Good(f[0], 0)
  <2>1. <<>> \in T /\ Len(<<>>) = 0 /\ 1..0 = {}
    OBVIOUS
  <2>2. Good(<<>>, 0)
    BY <2>1 DEF InOrder
  <2> QED
    BY <1>3, <2>2
<1>5. ASSUME NEW i \in 1..n, NEW t \in T, Good(t, i - 1) PROVE Good(t \o OneOf(s, S, i), i)
  <2>1. i \in Nat /\ i - 1 \in Nat /\ 1..(i - 1) \subseteq 1..i /\ s[i] \in A /\ Upto(i - 1) \subseteq Upto(i)
        /\ s[i] \in Upto(i)
    BY <1>1
  <2>2. CASE s[i] \notin S
    <3>1. t \o OneOf(s, S, i) = t
      <4>1. \A u \in T : u \o <<>> = u
        OBVIOUS
      <4> QED
        BY <2>2, <4>1 DEF OneOf
    <3>2. InOrder(t, s, i)
      BY <1>5, <2>1 DEF InOrder
    <3> QED
      BY <1>5, <2>1, <3>1, <3>2
  <2>3. CASE s[i] \in S
    <3> DEFINE u == t \o <<s[i]>>
    <3>1. u \in T /\ Len(u) = Len(t) + 1 /\ u[Len(t) + 1] = s[i] /\ Len(t) \in Nat
          /\ \A a \in 1..Len(t) : u[a] = t[a]
      <4>1. ASSUME NEW x \in A
            PROVE  LET v == t \o <<x>>
                   IN  /\ v \in Seq(A) /\ Len(v) = Len(t) + 1 /\ v[Len(t) + 1] = x /\ Len(t) \in Nat
                       /\ \A a \in 1..Len(t) : v[a] = t[a]
        OBVIOUS
      <4> QED
        BY <2>1, <4>1
    <3> HIDE DEF u
    <3>2. \A a \in 1..Len(u) : a \in 1..Len(t) \/ a = Len(t) + 1
      BY <3>1
    <3>3. \A a \in 1..Len(u) : u[a] \in Upto(i)
      <4> HIDE DEF Upto
      <4> QED
        BY <1>5, <2>1, <3>1, <3>2
    <3>4. ASSUME NEW a \in 1..Len(u), NEW b \in 1..Len(u), a < b
          PROVE  \E k, l \in 1..i : k < l /\ s[k] = u[a] /\ s[l] = u[b]
      <4>1. a \in 1..Len(t) /\ u[a] = t[a]
        BY <3>1, <3>4
      <4>2. CASE b \in 1..Len(t)
        <5>1. PICK k \in 1..(i - 1), l \in 1..(i - 1) : k < l /\ s[k] = t[a] /\ s[l] = t[b]
          BY <1>5, <3>4, <4>1, <4>2 DEF InOrder
        <5>2. u[b] = t[b]
          BY <3>1, <4>2
        <5> QED
          BY <2>1, <4>1, <5>1, <5>2
      <4>3. CASE b = Len(t) + 1
        <5>1. PICK k \in 1..(i - 1) : s[k] = t[a]
          BY <1>5, <4>1
        <5>2. k \in 1..i /\ i \in 1..i /\ k < i
          BY <2>1
        <5> QED
          BY <3>1, <4>1, <4>3, <5>1, <5>2
      <4> QED
        BY <3>2, <4>2, <4>3
    <3>5. InOrder(u, s, i)
      BY <3>4 DEF InOrder
    <3>6. t \o OneOf(s, S, i) = u
      BY <2>3 DEF OneOf, u
    <3> HIDE DEF Upto
    <3> QED
      BY <3>1, <3>3, <3>5, <3>6
  <2> QED
    BY <2>2, <2>3
<1> DEFINE All == {i \in 0..n : Good(f[i], i)}
<1>6. 0 \in All /\ \A i \in 1..n : i - 1 \in All => i \in All
  <2> HIDE DEF Good, n, T
  <2>1. \A i \in 1..n : i - 1 \in 0..n /\ i \in 0..n
    BY <1>1
  <2>2. \A i \in 1..n : f[i - 1] \in T
    BY <2>1
  <2>3. \A i \in 1..n : Good(f[i - 1], i - 1) => Good(f[i], i)
    BY <1>3, <1>5, <2>2
  <2> QED
    BY <1>1, <1>4, <2>1, <2>3
<1>7. 0..n \subseteq All
  <2> HIDE DEF All, n
  <2> QED
    BY <1>1, <1>6, InductionUpTo
<1> HIDE DEF Good
<1>8. Good(f[n], n)
  BY <1>1, <1>7
<1> QED
  BY <1>3, <1>8 DEF Good

\* Recursion from a blueprint to its parent and on, as process_exception does.
Climbing(f, base, step) ==
    \A b \in Blueprints : f[b] = IF parent[b] = None THEN base[b] ELSE step[b][f[parent[b]]]

ParentsType == parent \in [Blueprints -> Blueprints \cup {None}]
Upwards(depth) == \A b \in Blueprints : parent[b] # None => depth[parent[b]] < depth[b]

LEMMA TreeRecursion ==
  ASSUME ParentsType, NEW N \in Nat, NEW depth \in [Blueprints -> 0..N], Upwards(depth),
         NEW D, NEW base \in [Blueprints -> D], NEW step \in [Blueprints -> [D -> D]]
  PROVE  \E f \in [Blueprints -> D] : Climbing(f, base, step)
<1> DEFINE F == [Blueprints -> D]
           turn(f) == [b \in Blueprints |-> IF parent[b] = None THEN base[b] ELSE step[b][f[parent[b]]]]
           M == N + 1
           fstep == [k \in 1..M |-> [f \in F |-> turn(f)]]
<1>1. ASSUME NEW f \in F PROVE turn(f) \in F
  <2>1. ASSUME NEW b \in Blueprints, parent[b] # None PROVE step[b][f[parent[b]]] \in D
    <3>1. parent[b] \in Blueprints
      BY <2>1 DEF ParentsType
    <3> QED
      BY <3>1
  <2> QED
    BY <2>1
<1>2. base \in F /\ M \in Nat
  OBVIOUS
<1>3. fstep \in [1..M -> [F -> F]]
  <2> HIDE DEF turn, F, M
  <2> QED
    BY <1>1
<1>4. PICK g \in [0..M -> F] : Recurs(g, M, base, fstep)
  <2> HIDE DEF fstep, F, M
  <2> QED
    BY <1>2, <1>3, Recursion
<1>5. ASSUME NEW k \in 1..M PROVE k - 1 \in 0..M /\ g[k - 1] \in F /\ g[k] = turn(g[k - 1])
  <2>1. k - 1 \in 0..M
    BY <1>2
  <2>2. g[k - 1] \in F
    <3> HIDE DEF F
    <3> QED
      BY <2>1
  <2>3. g[k] = fstep[k][g[k - 1]]
    BY <1>4 DEF Recurs
  <2> HIDE DEF F, turn, M
  <2> QED
    BY <2>1, <2>2, <2>3
<1>5a. ASSUME NEW k \in 1..M, NEW b \in Blueprints
      PROVE  g[k][b] = IF parent[b] = None THEN base[b] ELSE step[b][g[k - 1][parent[b]]]
  <2>1. g[k] = turn(g[k - 1])
    <3> HIDE DEF turn, F
    <3> QED
      BY <1>5
  <2> QED
    BY <2>1
<1> DEFINE Deep(k) == \A b \in Blueprints : depth[b] < k =>
                         g[k][b] = IF parent[b] = None THEN base[b] ELSE step[b][g[k][parent[b]]]
           All == {k \in 0..M : Deep(k)}
<1> HIDE DEF M
<1>6. 0 \in All
  BY <1>2
<1>7. ASSUME NEW k \in 1..M, k - 1 \in All PROVE k \in All
  <2>1. k \in 0..M /\ k \in Nat
    BY <1>2
  <2>2. ASSUME NEW b \in Blueprints, depth[b] < k
        PROVE  g[k][b] = IF parent[b] = None THEN base[b] ELSE step[b][g[k][parent[b]]]
    <3>1. g[k][b] = IF parent[b] = None THEN base[b] ELSE step[b][g[k - 1][parent[b]]]
      BY <1>5a
    <3>2. CASE parent[b] = None
      BY <3>1, <3>2
    <3>3. CASE parent[b] # None
      <4> DEFINE p == parent[b]
      <4>1. p \in Blueprints /\ depth[p] < depth[b] /\ depth[p] \in Nat /\ depth[b] \in Nat
        BY <3>3 DEF ParentsType, Upwards
      <4>2. depth[p] < k - 1
        BY <2>1, <2>2, <4>1
      <4>3. g[k - 1][p] = IF parent[p] = None THEN base[p] ELSE step[p][g[k - 1][parent[p]]]
        BY <1>7, <4>1, <4>2
      <4>4. g[k][p] = IF parent[p] = None THEN base[p] ELSE step[p][g[k - 1][parent[p]]]
        BY <1>5a, <4>1
      <4> QED
        BY <3>1, <3>3, <4>3, <4>4
    <3> QED
      BY <3>2, <3>3
  <2> QED
    BY <2>1, <2>2
<1>8. 0..M \subseteq All
  <2> HIDE DEF All
  <2> QED
    BY <1>2, <1>6, <1>7, InductionUpTo
<1>9. M \in 0..M /\ \A b \in Blueprints : depth[b] < M
  BY <1>2 DEF M
<1>10. Climbing(g[M], base, step)
  BY <1>8, <1>9 DEF Climbing
<1>11. g[M] \in F
  <2> HIDE DEF F
  <2> QED
    BY <1>9
<1> QED
  BY <1>10, <1>11

\* By induction along the parents.
LEMMA TreeInduction ==
  ASSUME ParentsType, NEW N \in Nat, NEW depth \in [Blueprints -> 0..N], Upwards(depth),
         NEW S, \A b \in Blueprints : (parent[b] # None => parent[b] \in S) => b \in S
  PROVE  Blueprints \subseteq S
<1> DEFINE All == {k \in 0..(N + 1) : \A b \in Blueprints : depth[b] < k => b \in S}
           M == N + 1
<1>1. M \in Nat /\ 0 \in All
  OBVIOUS
<1>2. ASSUME NEW k \in 1..M, k - 1 \in All PROVE k \in All
  <2>1. ASSUME NEW b \in Blueprints, depth[b] < k PROVE b \in S
    <3>1. ASSUME parent[b] # None PROVE parent[b] \in S
      <4>1. parent[b] \in Blueprints /\ depth[parent[b]] < depth[b]
        BY <3>1 DEF ParentsType, Upwards
      <4>2. depth[parent[b]] \in Nat /\ depth[b] \in Nat
        BY <4>1
      <4>3. depth[parent[b]] < k - 1
        BY <2>1, <4>1, <4>2
      <4> QED
        BY <1>2, <4>1, <4>3
    <3> QED
      BY <3>1
  <2> QED
    BY <2>1
<1>3. 0..M \subseteq All
  <2> HIDE DEF All, M
  <2> QED
    BY <1>1, <1>2, InductionUpTo
<1>4. M \in All
  BY <1>1, <1>3
<1> QED
  BY <1>4

-----------------------------------------------------------------------------
(* The handlers an exception passes, from a blueprint to the application.  *)

\* No handler comes before one for a subclass.
Sorted(s) == \A i, k \in 1..Len(s) : i < k /\ s[i].exc \in Super[s[k].exc] => s[i].exc = s[k].exc

LEMMA ApplicableIs ==
  ASSUME NEW b \in Blueprints, NEW exc \in DOMAIN Super, handlers[b] \in HandlerDicts, Sorted(handlers[b])
  PROVE  /\ Applicable(b, exc) \in Seq(Handlers) /\ IsInjective(Applicable(b, exc))
         /\ ToSet(Applicable(b, exc)) = {x \in ToSet(handlers[b]) : x.exc \in Super[exc]}
         /\ Sorted(Applicable(b, exc))
<1> DEFINE here == handlers[b]
           S == {x \in ToSet(here) : x.exc = exc}
           T == {x \in ToSet(here) : x.exc # exc /\ x.exc \in Super[exc]}
           s == Those(here, S)
           t == Those(here, T)
<1>1. Applicable(b, exc) = s \o t
  BY DEF Applicable
<1>2. here \in Seq(Handlers) /\ IsInjective(here)
  <2>1. /\ here \in Seq(Handlers) /\ DOMAIN here = 1..Len(here)
        /\ \A i, j \in 1..Len(here) : here[i].exc = here[j].exc => i = j
    BY HandlerDictProperties
  <2> HIDE DEF here
  <2> QED
    BY <2>1 DEF IsInjective
<1>3. exc \in Super[exc] /\ \A c \in DOMAIN Super : \A d \in Super[c] : c \in Super[d] => c = d
  BY ApplicationAssumption
<1> HIDE DEF here, S, T
<1>4. /\ s \in Seq(Handlers) /\ ToSet(s) = ToSet(here) \cap S /\ IsInjective(s)
      /\ t \in Seq(Handlers) /\ ToSet(t) = ToSet(here) \cap T /\ IsInjective(t)
  BY <1>2, ThoseProperties
<1>5. InOrder(t, here, Len(here))
  BY <1>2, ThoseInOrder
<1> HIDE DEF s, t
<1>6. S \cap T = {} /\ S \subseteq ToSet(here) /\ T \subseteq ToSet(here)
      /\ S \cup T = {x \in ToSet(here) : x.exc \in Super[exc]}
  BY <1>3 DEF S, T
<1>7. s \o t \in Seq(Handlers) /\ IsInjective(s \o t) /\ ToSet(s \o t) = S \cup T
  BY <1>4, <1>6, ConcatElements
<1>8. Sorted(s \o t)
  <2> DEFINE u == s \o t
  <2>1. /\ Len(s) \in Nat /\ Len(t) \in Nat /\ Len(u) = Len(s) + Len(t)
        /\ \A i \in 1..Len(s) : u[i] = s[i] /\ s[i] \in ToSet(s)
        /\ \A i \in 1..Len(u) : i > Len(s) => i - Len(s) \in 1..Len(t) /\ u[i] = t[i - Len(s)]
        /\ \A i \in 1..Len(t) : t[i] \in ToSet(t)
    <3>1. ASSUME NEW A, NEW v \in Seq(A), NEW w \in Seq(A)
          PROVE  /\ Len(v) \in Nat /\ Len(w) \in Nat /\ Len(v \o w) = Len(v) + Len(w)
                 /\ \A i \in 1..Len(v) : (v \o w)[i] = v[i]
                 /\ \A i \in 1..Len(v \o w) : i > Len(v) => i - Len(v) \in 1..Len(w) /\ (v \o w)[i] = w[i - Len(v)]
                 /\ \A i \in 1..Len(v) : v[i] \in ToSet(v)
                 /\ \A i \in 1..Len(w) : w[i] \in ToSet(w)
      <4>1. /\ Len(v) \in Nat /\ Len(w) \in Nat /\ Len(v \o w) = Len(v) + Len(w)
            /\ \A i \in 1..Len(v) : (v \o w)[i] = v[i]
            /\ \A i \in 1..Len(v \o w) : i > Len(v) => i - Len(v) \in 1..Len(w) /\ (v \o w)[i] = w[i - Len(v)]
        OBVIOUS
      <4>2. DOMAIN v = 1..Len(v) /\ DOMAIN w = 1..Len(w)
        OBVIOUS
      <4> QED
        BY <4>1, <4>2 DEF ToSet
    <3> QED
      BY <1>4, <3>1
  <2> HIDE DEF u
  <2>2. ASSUME NEW i \in 1..Len(u), NEW k \in 1..Len(u), i < k, u[i].exc \in Super[u[k].exc]
        PROVE  u[i].exc = u[k].exc
    <3>1. u[k] \in ToSet(here) /\ u[k].exc \in Super[exc]
      <4>1. u[k] \in S \cup T
        BY <1>4, <1>6, <2>1
      <4> QED
        BY <1>6, <4>1
    <3>2. u[k].exc \in DOMAIN Super
      BY <1>3, <3>1, ApplicationAssumption
    <3>3. CASE i <= Len(s)
      <4>1. u[i] \in S
        BY <1>4, <2>1, <3>3
      <4>2. u[i].exc = exc
        BY <4>1 DEF S
      <4> QED
        BY <1>3, <2>2, <3>1, <4>2
    <3>4. CASE i > Len(s)
      <4> DEFINE x == i - Len(s)
                 y == k - Len(s)
      <4>1. x \in 1..Len(t) /\ y \in 1..Len(t) /\ x < y /\ u[i] = t[x] /\ u[k] = t[y]
        BY <2>1, <2>2, <3>4
      <4> HIDE DEF x, y
      <4>2. PICK m, n \in 1..Len(here) : m < n /\ here[m] = t[x] /\ here[n] = t[y]
        BY <1>5, <4>1 DEF InOrder
      <4> QED
        BY <2>2, <4>1, <4>2 DEF Sorted, here
    <3> QED
      BY <2>1, <3>3, <3>4
  <2>3. Sorted(u)
    BY <2>2 DEF Sorted
  <2> QED
    BY <2>3 DEF u
<1> QED
  BY <1>1, <1>6, <1>7, <1>8 DEF here

\* What is found in one blueprint, in terms of what a program declares.
Level(b, exc) ==
    LET s == Applicable(b, exc)
    IN  /\ s \in Seq(Handlers) /\ IsInjective(s) /\ Sorted(s)
        /\ \A x \in ToSet(s) : x.bp = b
        /\ \A y \in Able(b, exc) : \E z \in ToSet(s) : z.answers /\ z.exc = y.exc
Levels(exc) ==
    /\ \A b \in Blueprints : Level(b, exc)
    /\ \E z \in ToSet(Applicable(App, exc)) : z.answers

LEMMA LevelsAreRight ==
  ASSUME BaseInv, AsDeclared, initialized, config.odd \cap {"unsorted", "declines"} = {},
         NEW exc \in DOMAIN Super, "Exception" \in Super[exc]
  PROVE  Levels(exc)
<1>1. /\ \A b \in Blueprints : handlers[b] \in HandlerDicts
      /\ config \in Configurations /\ todo = {}
      /\ \A b \in Blueprints : b # App => ToSet(handlers[b]) = {x \in config.handlers : x.bp = b}
      /\ Ordered(handlers[App]) /\ ToSet(handlers[App]) = HandlersOfApp
  <2>1. \A b \in Blueprints : b # App => ToSet(handlers[b]) = HandlersDeclared(b)
    BY DEF AsDeclared
  <2>2. todo = {}
    BY DEF AsDeclared
  <2>3. \A b \in Blueprints : HandlersDeclared(b) = {x \in config.handlers : x.bp = b}
    BY <2>2 DEF HandlersDeclared
  <2> QED
    BY <2>1, <2>2, <2>3 DEF BaseInv, AsDeclared
<1>2. \A c : Default(c).exc = c /\ Default(c).bp = App /\ Default(c).answers
  BY DEF Default
<1>3. \A x \in Defaults : x.bp = App
  BY <1>2 DEF Defaults
<1>4. ASSUME NEW b \in Blueprints PROVE Sorted(handlers[b]) /\ \A x \in ToSet(handlers[b]) : x.bp = b
  <2>1. CASE b = App
    <3>1. Sorted(handlers[App])
      BY <1>1 DEF Ordered, Sorted
    <3> QED
      BY <1>1, <1>3, <2>1, <3>1 DEF HandlersOfApp
  <2>2. CASE b # App
    <3>1. \A x, y \in config.handlers : x.bp = y.bp /\ x.bp # App /\ x.exc \in Super[y.exc] => x.exc = y.exc
      BY <1>1, ProgramsAssumption
    <3>2. \A x, y \in ToSet(handlers[b]) : x.exc \in Super[y.exc] => x.exc = y.exc
      BY <1>1, <2>2, <3>1
    <3>3. \A i \in 1..Len(handlers[b]) : handlers[b][i] \in ToSet(handlers[b])
      BY <1>1, HandlerDictProperties
    <3>4. Sorted(handlers[b])
      BY <3>2, <3>3 DEF Sorted
    <3> QED
      BY <1>1, <2>2, <3>4
  <2> QED
    BY <2>1, <2>2
<1>5. \A b \in Blueprints :
         /\ Applicable(b, exc) \in Seq(Handlers) /\ IsInjective(Applicable(b, exc))
         /\ ToSet(Applicable(b, exc)) = {x \in ToSet(handlers[b]) : x.exc \in Super[exc]}
         /\ Sorted(Applicable(b, exc))
  BY <1>1, <1>4, ApplicableIs
<1>6. Default("MissingComponent") \in HandlersOfApp
  BY DEF HandlersOfApp, Defaults, DefaultClasses
<1>7. ASSUME NEW b \in Blueprints, NEW y \in Able(b, exc)
      PROVE  \E z \in ToSet(Applicable(b, exc)) : z.answers /\ z.exc = y.exc
  <2>1. y \in config.handlers \cup Defaults /\ y.bp = b /\ y.answers /\ y.exc \in Super[exc]
    BY DEF Able
  <2>2. CASE y \in ToSet(handlers[b])
    BY <1>5, <2>1, <2>2
  <2>3. CASE y \notin ToSet(handlers[b])
    <3>1. b = App /\ y.exc = "MissingComponent"
      BY <1>1, <1>3, <2>1, <2>3 DEF HandlersOfApp
    <3>2. Default("MissingComponent") \in ToSet(Applicable(App, exc))
      BY <1>1, <1>2, <1>5, <1>6, <2>1, <3>1
    <3> QED
      BY <1>2, <3>1, <3>2
  <2> QED
    BY <2>2, <2>3
<1>8. \E z \in ToSet(Applicable(App, exc)) : z.answers
  <2>1. PICK z \in HandlersOfApp : z.exc = "Exception" /\ z.answers
    <3>1. CASE \E x \in config.handlers : x.bp = App /\ x.exc = "Exception"
      <4>1. PICK x \in config.handlers : x.bp = App /\ x.exc = "Exception"
        BY <3>1
      <4>2. x.answers
        BY <1>1, <4>1, ProgramsAssumption
      <4>3. x \in HandlersOfApp
        BY <4>1 DEF HandlersOfApp
      <4> QED
        BY <4>1, <4>2, <4>3
    <3>2. CASE ~\E x \in config.handlers : x.bp = App /\ x.exc = "Exception"
      <4>1. Default("Exception") \in HandlersOfApp
        BY <3>2 DEF HandlersOfApp, Defaults, DefaultClasses
      <4> QED
        BY <1>2, <4>1
    <3> QED
      BY <3>1, <3>2
  <2>2. z \in ToSet(Applicable(App, exc))
    BY <1>1, <1>5, <2>1, AppIsNotNone
  <2> QED
    BY <2>1, <2>2
<1>9. \A b \in Blueprints : Level(b, exc)
  BY <1>4, <1>5, <1>7 DEF Level
<1> QED
  BY <1>8, <1>9 DEF Levels

LEMMA SameSequence ==
  ASSUME NEW A, NEW s \in Seq(A), NEW t \in Seq(A), Len(s) = Len(t), \A i \in 1..Len(s) : s[i] = t[i]
  PROVE  s = t
OBVIOUS

LEMMA ConcatIs ==
  ASSUME NEW A, NEW s \in Seq(A), NEW t \in Seq(A)
  PROVE  /\ s \o t \in Seq(A) /\ Len(s) \in Nat /\ Len(t) \in Nat /\ Len(s \o t) = Len(s) + Len(t)
         /\ \A i \in 1..Len(s) : (s \o t)[i] = s[i]
         /\ \A i \in 1..Len(t) : (s \o t)[Len(s) + i] = t[i]
         /\ \A i \in 1..Len(s \o t) : i \in 1..Len(s) \/ \E j \in 1..Len(t) : i = Len(s) + j
<1>1. /\ s \o t \in Seq(A) /\ Len(s) \in Nat /\ Len(t) \in Nat /\ Len(s \o t) = Len(s) + Len(t)
      /\ \A i \in 1..Len(s) : (s \o t)[i] = s[i]
      /\ \A i \in 1..Len(t) : (s \o t)[Len(s) + i] = t[i]
  OBVIOUS
<1>2. ASSUME NEW i \in 1..Len(s \o t), i \notin 1..Len(s)
      PROVE  \E j \in 1..Len(t) : i = Len(s) + j
  <2>1. i - Len(s) \in 1..Len(t) /\ i = Len(s) + (i - Len(s))
    BY <1>1, <1>2
  <2> QED
    BY <2>1
<1> QED
  BY <1>1, <1>2

\* The first that answers, in the first of two sequences or in the second.
LEMMA AnswerInFirst ==
  ASSUME NEW A, \A x \in A : x.answers \in BOOLEAN, NEW s \in Seq(A), NEW t \in Seq(A),
         \E i \in 1..Len(s) : s[i].answers
  PROVE  UpToAnswer(s \o t) = UpToAnswer(s)
<1> DEFINE u == s \o t
<1>1. /\ u \in Seq(A) /\ Len(s) \in Nat /\ Len(t) \in Nat /\ Len(u) = Len(s) + Len(t)
      /\ \A i \in 1..Len(s) : u[i] = s[i]
  BY ConcatIs
<1> HIDE DEF u
<1>2. PICK k \in 1..Len(s) :
         /\ s[k].answers /\ \A i \in 1..k - 1 : ~s[i].answers
         /\ UpToAnswer(s) \in Seq(A) /\ Len(UpToAnswer(s)) = k
         /\ \A i \in 1..k : UpToAnswer(s)[i] = s[i]
  BY UpToAnswerProperties
<1>3. k \in 1..Len(u) /\ u[k].answers
  BY <1>1, <1>2
<1>4. PICK m \in 1..Len(u) :
         /\ u[m].answers /\ \A i \in 1..m - 1 : ~u[i].answers
         /\ UpToAnswer(u) \in Seq(A) /\ Len(UpToAnswer(u)) = m
         /\ \A i \in 1..m : UpToAnswer(u)[i] = u[i]
  BY <1>1, <1>3, UpToAnswerProperties
<1>5. m = k
  <2>1. ~(k < m)
    BY <1>3, <1>4
  <2>2. ASSUME m < k PROVE FALSE
    <3>1. m \in 1..k - 1 /\ m \in 1..Len(s)
      BY <1>1, <1>2, <1>4, <2>2
    <3> QED
      BY <1>1, <1>2, <1>4, <3>1
  <2>3. m \in Int /\ k \in Int
    OBVIOUS
  <2> QED
    BY <2>1, <2>2, <2>3
<1>6. ASSUME NEW i \in 1..k PROVE UpToAnswer(u)[i] = UpToAnswer(s)[i]
  <2>1. i \in 1..Len(s)
    BY <1>1, <1>2
  <2>2. UpToAnswer(s)[i] = s[i] /\ UpToAnswer(u)[i] = u[i]
    BY <1>2, <1>4, <1>5
  <2> QED
    BY <1>1, <2>1, <2>2
<1>7. UpToAnswer(u) = UpToAnswer(s)
  BY <1>2, <1>4, <1>5, <1>6, SameSequence
<1> QED
  BY <1>7 DEF u

LEMMA AnswerInSecond ==
  ASSUME NEW A, \A x \in A : x.answers \in BOOLEAN, NEW s \in Seq(A), NEW t \in Seq(A),
         \A i \in 1..Len(s) : ~s[i].answers
  PROVE  UpToAnswer(s \o t) = s \o UpToAnswer(t)
<1> DEFINE u == s \o t
           n == Len(s)
<1>1. /\ u \in Seq(A) /\ n \in Nat /\ Len(t) \in Nat /\ Len(u) = n + Len(t)
      /\ \A i \in 1..n : u[i] = s[i]
      /\ \A i \in 1..Len(t) : u[n + i] = t[i]
      /\ \A i \in 1..Len(u) : i \in 1..n \/ \E j \in 1..Len(t) : i = n + j
  BY ConcatIs
<1> HIDE DEF u
<1>2. CASE \A i \in 1..Len(t) : ~t[i].answers
  <2>1. \A i \in 1..Len(u) : ~u[i].answers
    BY <1>1, <1>2
  <2>2. UpToAnswer(t) = t
    BY <1>2, UpToAnswerProperties
  <2>3. UpToAnswer(u) = u
    BY <1>1, <2>1, UpToAnswerProperties
  <2> QED
    BY <2>2, <2>3 DEF u
<1>3. CASE \E i \in 1..Len(t) : t[i].answers
  <2>1. PICK k \in 1..Len(t) :
           /\ t[k].answers /\ \A i \in 1..k - 1 : ~t[i].answers
           /\ UpToAnswer(t) \in Seq(A) /\ Len(UpToAnswer(t)) = k
           /\ \A i \in 1..k : UpToAnswer(t)[i] = t[i]
    BY <1>3, UpToAnswerProperties
  <2>2. n + k \in 1..Len(u) /\ u[n + k].answers
    BY <1>1, <2>1
  <2>3. PICK m \in 1..Len(u) :
           /\ u[m].answers /\ \A i \in 1..m - 1 : ~u[i].answers
           /\ UpToAnswer(u) \in Seq(A) /\ Len(UpToAnswer(u)) = m
           /\ \A i \in 1..m : UpToAnswer(u)[i] = u[i]
    BY <1>1, <2>2, UpToAnswerProperties
  <2>4. m = n + k
    <3>1. ~(n + k < m)
      BY <1>1, <2>2, <2>3
    <3>2. ASSUME m < n + k PROVE FALSE
      <4>1. m \notin 1..n
        BY <1>1, <2>3
      <4>2. PICK j \in 1..Len(t) : m = n + j
        BY <1>1, <4>1
      <4>3. j \in 1..k - 1 /\ u[m] = t[j]
        BY <1>1, <2>1, <3>2, <4>2
      <4> QED
        BY <2>1, <2>3, <4>3
    <3>3. m \in Int /\ n + k \in Int
      BY <1>1
    <3> HIDE DEF n
    <3> QED
      BY <3>1, <3>2, <3>3
  <2> DEFINE r == UpToAnswer(t)
             v == s \o r
  <2>5. /\ v \in Seq(A) /\ Len(v) = n + k /\ \A i \in 1..n : v[i] = s[i]
        /\ \A i \in 1..k : v[n + i] = r[i]
        /\ \A i \in 1..Len(v) : i \in 1..n \/ \E j \in 1..k : i = n + j
    <3>1. r \in Seq(A) /\ Len(r) = k
      BY <2>1
    <3> HIDE DEF r, v, n
    <3>2. /\ s \o r \in Seq(A) /\ Len(s \o r) = Len(s) + Len(r)
          /\ \A i \in 1..Len(s) : (s \o r)[i] = s[i]
          /\ \A i \in 1..Len(r) : (s \o r)[Len(s) + i] = r[i]
          /\ \A i \in 1..Len(s \o r) : i \in 1..Len(s) \/ \E j \in 1..Len(r) : i = Len(s) + j
      <4>1. ASSUME NEW q \in Seq(A)
            PROVE  /\ s \o q \in Seq(A) /\ Len(s \o q) = Len(s) + Len(q)
                   /\ \A i \in 1..Len(s) : (s \o q)[i] = s[i]
                   /\ \A i \in 1..Len(q) : (s \o q)[Len(s) + i] = q[i]
                   /\ \A i \in 1..Len(s \o q) : i \in 1..Len(s) \/ \E j \in 1..Len(q) : i = Len(s) + j
        BY ConcatIs
      <4> QED
        BY <3>1, <4>1
    <3> QED
      BY <3>1, <3>2 DEF v, n
  <2>6. \A i \in 1..k : r[i] = t[i] /\ i \in 1..Len(t) /\ i + n \in 1..m
    BY <1>1, <2>1, <2>4
  <2>7. \A i \in 1..n : i \in 1..m
    BY <1>1, <2>4
  <2> HIDE DEF r, v
  <2>8. ASSUME NEW i \in 1..Len(v) PROVE UpToAnswer(u)[i] = v[i]
    <3>1. CASE i \in 1..n
      BY <1>1, <2>3, <2>5, <2>7, <3>1
    <3>2. ASSUME NEW j \in 1..k, i = n + j PROVE UpToAnswer(u)[i] = v[i]
      <4>1. v[i] = t[j] /\ u[i] = t[j] /\ i \in 1..m
        BY <1>1, <2>4, <2>5, <2>6, <3>2
      <4> QED
        BY <2>3, <4>1
    <3> QED
      BY <2>5, <3>1, <3>2
  <2>9. UpToAnswer(u) = v
    <3>1. /\ UpToAnswer(u) \in Seq(A) /\ v \in Seq(A) /\ Len(UpToAnswer(u)) = Len(v)
          /\ \A i \in 1..Len(UpToAnswer(u)) : UpToAnswer(u)[i] = v[i]
      BY <2>3, <2>4, <2>5, <2>8
    <3> QED
      BY <3>1, SameSequence
  <2> QED
    BY <2>9 DEF u, v, r
<1> QED
  BY <1>2, <1>3

\* The handlers from a blueprint up to its topmost parent.
Ups(f, exc) ==
    f = [b \in Blueprints |-> Applicable(b, exc) \o IF parent[b] = None THEN <<>> ELSE f[parent[b]]]

LEMMA UpsExist ==
  ASSUME ParentsType, NEW N \in Nat, NEW depth \in [Blueprints -> 0..N], Upwards(depth), NEW exc,
         \A b \in Blueprints : Applicable(b, exc) \in Seq(Handlers)
  PROVE  \E f \in [Blueprints -> Seq(Handlers)] :
            Ups(f, exc) /\ \A b \in Blueprints :
                              ProcessException(b, exc) = UpToAnswer(f[b] \o Applicable(App, exc))
<1> DEFINE D == Seq(Handlers)
           base == [b \in Blueprints |-> Applicable(b, exc) \o <<>>]
           step == [b \in Blueprints |-> [s \in D |-> Applicable(b, exc) \o s]]
<1>1. base \in [Blueprints -> D] /\ step \in [Blueprints -> [D -> D]]
  <2>1. \A s, t \in D : s \o t \in D
    OBVIOUS
  <2>2. <<>> \in D
    OBVIOUS
  <2> HIDE DEF D
  <2> QED
    BY <2>1, <2>2 DEF D
<1>2. PICK g \in [Blueprints -> D] : Climbing(g, base, step)
  <2> HIDE DEF base, step, D
  <2> QED
    BY <1>1, TreeRecursion
<1>3. ASSUME NEW b \in Blueprints
      PROVE  g[b] = Applicable(b, exc) \o IF parent[b] = None THEN <<>> ELSE g[parent[b]]
  <2>1. parent[b] # None => parent[b] \in Blueprints
    BY DEF ParentsType
  <2> HIDE DEF D
  <2>2. parent[b] # None => g[parent[b]] \in D
    BY <2>1
  <2> QED
    BY <1>2, <2>2 DEF Climbing
<1>4. Ups(g, exc)
  <2> HIDE DEF D
  <2>1. g = [b \in Blueprints |-> g[b]]
    OBVIOUS
  <2> QED
    BY <1>3, <2>1, Zenon DEF Ups
<1> DEFINE f == CHOOSE f : Ups(f, exc)
<1>5. Ups(f, exc)
  BY <1>4
<1>6. \A b \in Blueprints : ProcessException(b, exc) = UpToAnswer(f[b] \o Applicable(App, exc))
  BY Zenon DEF ProcessException, Ups
<1> HIDE DEF f
<1>7. f = [b \in Blueprints |-> f[b]]
      /\ \A b \in Blueprints : f[b] = Applicable(b, exc) \o IF parent[b] = None THEN <<>> ELSE f[parent[b]]
  BY <1>5 DEF Ups
<1> DEFINE S == {b \in Blueprints : f[b] \in D}
<1>8. \A b \in Blueprints : (parent[b] # None => parent[b] \in S) => b \in S
  <2>1. <<>> \in D /\ \A s, t \in D : s \o t \in D
    OBVIOUS
  <2>2. \A b \in Blueprints : Applicable(b, exc) \in D
    OBVIOUS
  <2> HIDE DEF D
  <2>3. ASSUME NEW b \in Blueprints, parent[b] # None => parent[b] \in S PROVE f[b] \in D
    <3>1. (IF parent[b] = None THEN <<>> ELSE f[parent[b]]) \in D
      BY <2>1, <2>3
    <3> QED
      BY <1>7, <2>1, <2>2, <3>1
  <2> QED
    BY <2>3
<1>9. Blueprints \subseteq S
  <2> HIDE DEF S
  <2> QED
    BY <1>8, TreeInduction
<1>10. f \in [Blueprints -> D]
  <2> HIDE DEF D
  <2> QED
    BY <1>7, <1>9
<1> QED
  BY <1>5, <1>6, <1>10

\* What could have answered below the blueprint that did.
Nearer(f, at, exc) ==
    f = [b \in Blueprints |-> IF b = at THEN {}
                              ELSE Able(b, exc) \cup IF parent[b] = None THEN {} ELSE f[parent[b]]]

LEMMA NearerExists ==
  ASSUME ParentsType, NEW N \in Nat, NEW depth \in [Blueprints -> 0..N], Upwards(depth), NEW exc, NEW at
  PROVE  Nearer(CHOOSE f : Nearer(f, at, exc), at, exc)
<1> DEFINE D == SUBSET (config.handlers \cup Defaults)
           base == [b \in Blueprints |-> IF b = at THEN {} ELSE Able(b, exc) \cup {}]
           step == [b \in Blueprints |-> [s \in D |-> IF b = at THEN {} ELSE Able(b, exc) \cup s]]
<1>1. base \in [Blueprints -> D] /\ step \in [Blueprints -> [D -> D]]
  BY DEF Able
<1>2. PICK g \in [Blueprints -> D] : Climbing(g, base, step)
  <2> HIDE DEF base, step, D
  <2> QED
    BY <1>1, TreeRecursion
<1>3. ASSUME NEW b \in Blueprints
      PROVE  g[b] = IF b = at THEN {} ELSE Able(b, exc) \cup IF parent[b] = None THEN {} ELSE g[parent[b]]
  <2>1. parent[b] # None => parent[b] \in Blueprints
    BY DEF ParentsType
  <2> HIDE DEF D
  <2>2. parent[b] # None => g[parent[b]] \in D
    BY <2>1
  <2> QED
    BY <1>2, <2>2 DEF Climbing
<1>4. Nearer(g, at, exc)
  <2> HIDE DEF D
  <2>1. g = [b \in Blueprints |-> g[b]]
    OBVIOUS
  <2> QED
    BY <1>3, <2>1, Zenon DEF Nearer
<1> QED
  BY <1>4

\* An exception that is answered: by a handler for a class of which its
\* blueprint handles no subclass, and by the nearest blueprint that can.
Best(x, exc) == \A y \in Able(x.bp, exc) : x.exc \in Super[y.exc] => x.exc = y.exc
Nearest(b, x, exc) == \A f : Nearer(f, x.bp, exc) => f[b] = {}
Caught(c, b, exc) ==
    /\ c \in Seq(Handlers) /\ Answered(c) /\ IsInjective(c)
    /\ Best(Last(c), exc) /\ Nearest(b, Last(c), exc)

LEMMA HandlersAnswer == \A x \in Handlers : x.answers \in BOOLEAN
BY DEF Handlers

LEMMA ElementsOf ==
  ASSUME NEW A, NEW s \in Seq(A)
  PROVE  /\ \A x : x \in ToSet(s) <=> \E i \in 1..Len(s) : s[i] = x
         /\ Len(s) \in Nat /\ \A i \in 1..Len(s) : s[i] \in A
<1>1. DOMAIN s = 1..Len(s) /\ Len(s) \in Nat /\ \A i \in 1..Len(s) : s[i] \in A
  OBVIOUS
<1> QED
  BY <1>1 DEF ToSet

\* A blueprint that has a handler that answers.
LEMMA LevelAnswers ==
  ASSUME NEW b \in Blueprints, NEW exc, Level(b, exc),
         \E z \in ToSet(Applicable(b, exc)) : z.answers
  PROVE  LET c == UpToAnswer(Applicable(b, exc))
         IN  /\ c \in Seq(Handlers) /\ Answered(c) /\ IsInjective(c)
             /\ ToSet(c) \subseteq ToSet(Applicable(b, exc))
             /\ Last(c).bp = b /\ Best(Last(c), exc)
<1> DEFINE s == Applicable(b, exc)
           c == UpToAnswer(s)
<1>1. /\ s \in Seq(Handlers) /\ IsInjective(s) /\ Sorted(s) /\ \A x \in ToSet(s) : x.bp = b
      /\ \A y \in Able(b, exc) : \E z \in ToSet(s) : z.answers /\ z.exc = y.exc
      /\ \E z \in ToSet(s) : z.answers
  BY DEF Level
<1> HIDE DEF s
<1>2. /\ \A x : x \in ToSet(s) <=> \E i \in 1..Len(s) : s[i] = x
      /\ Len(s) \in Nat
  BY <1>1, ElementsOf
<1>3. \E i \in 1..Len(s) : s[i].answers
  BY <1>1, <1>2
<1>4. PICK k \in 1..Len(s) :
         /\ s[k].answers /\ \A i \in 1..k - 1 : ~s[i].answers
         /\ c \in Seq(Handlers) /\ Len(c) = k
         /\ \A i \in 1..k : c[i] = s[i]
  BY <1>1, <1>3, HandlersAnswer, UpToAnswerProperties
<1>5. IsInjective(c) /\ ToSet(c) \subseteq ToSet(s)
  BY <1>1, HandlersAnswer, UpToAnswerPasses
<1> HIDE DEF c
<1>6. Last(c) = s[k] /\ c # <<>> /\ s[k] \in ToSet(s)
  <2>1. k \in 1..k /\ Len(c) # 0
    BY <1>4
  <2>2. c # <<>>
    BY <2>1
  <2> QED
    BY <1>2, <1>4, <2>1, <2>2 DEF Last
<1>7. Answered(c)
  BY <1>4, <1>6 DEF Answered
<1>8. ASSUME NEW y \in Able(b, exc), s[k].exc \in Super[y.exc] PROVE s[k].exc = y.exc
  <2>1. PICK j \in 1..Len(s) : s[j].answers /\ s[j].exc = y.exc
    BY <1>1, <1>2
  <2>2. ~(j < k)
    <3>1. j < k => j \in 1..k - 1
      BY <1>2
    <3> QED
      BY <1>4, <2>1, <3>1
  <2>3. j = k \/ k < j
    BY <1>2, <2>2
  <2> QED
    BY <1>1, <1>8, <2>1, <2>3 DEF Sorted
<1>9. Best(Last(c), exc)
  BY <1>1, <1>6, <1>8 DEF Best
<1> QED
  BY <1>1, <1>4, <1>5, <1>6, <1>7, <1>9 DEF s, c

\* An exception of a route of b is caught, whatever the blueprints above b are.
LEMMA IsCaught ==
  ASSUME ParentsType, NEW N \in Nat, NEW depth \in [Blueprints -> 0..N], Upwards(depth),
         NEW exc, Levels(exc), NEW bp \in Blueprints
  PROVE  Caught(ProcessException(bp, exc), bp, exc)
<1> DEFINE a(b) == Applicable(b, exc)
<1>1. /\ \A b \in Blueprints : Level(b, exc)
      /\ \A b \in Blueprints : a(b) \in Seq(Handlers)
      /\ \E z \in ToSet(a(App)) : z.answers
      /\ App \in Blueprints /\ None \notin Blueprints
  BY AppIsNotNone DEF Levels, Level
<1>2. PICK up \in [Blueprints -> Seq(Handlers)] :
         /\ Ups(up, exc)
         /\ \A b \in Blueprints : ProcessException(b, exc) = UpToAnswer(up[b] \o a(App))
  BY <1>1, UpsExist
<1>3. \A b \in Blueprints : up[b] = a(b) \o IF parent[b] = None THEN <<>> ELSE up[parent[b]]
  BY <1>2 DEF Ups
<1> DEFINE w(b) == up[b] \o a(App)
           rest(b) == IF parent[b] = None THEN a(App) ELSE w(parent[b])
           above(x, b) == x.bp = App \/ (x.bp \in Blueprints /\ depth[x.bp] <= depth[b])
           Good(b) == Caught(UpToAnswer(w(b)), b, exc) /\ \A x \in ToSet(UpToAnswer(w(b))) : above(x, b)
           S == {b \in Blueprints : Good(b)}
<1> HIDE DEF a
<1>4. ASSUME NEW b \in Blueprints PROVE w(b) = a(b) \o rest(b) /\ rest(b) \in Seq(Handlers)
  <2>1. parent[b] # None => parent[b] \in Blueprints
    BY DEF ParentsType
  <2>2. a(App) \in Seq(Handlers) /\ a(b) \in Seq(Handlers) /\ (parent[b] # None => up[parent[b]] \in Seq(Handlers))
    BY <1>1, <2>1
  <2>3. a(b) \o <<>> = a(b)
    BY <2>2, ConcatEmptySeq
  <2>4. CASE parent[b] = None
    <3>1. up[b] = a(b) \o <<>>
      BY <1>3, <2>4
    <3>2. up[b] = a(b)
      BY <2>3, <3>1
    <3> QED
      BY <2>2, <2>4, <3>2
  <2>5. CASE parent[b] # None
    <3>1. up[b] = a(b) \o up[parent[b]]
      BY <1>3, <2>5
    <3>2. (a(b) \o up[parent[b]]) \o a(App) = a(b) \o (up[parent[b]] \o a(App))
          /\ up[parent[b]] \o a(App) \in Seq(Handlers)
      <4>1. Regroups(Handlers)
        BY Regrouped
      <4>2. a(b) \in Seq(Handlers) /\ up[parent[b]] \in Seq(Handlers) /\ a(App) \in Seq(Handlers)
        BY <2>2, <2>5
      <4> QED
        BY <4>1, <4>2, Zenon DEF Regroups
    <3> QED
      BY <2>5, <3>1, <3>2
  <2> QED
    BY <2>4, <2>5
<1>5. ASSUME NEW b \in Blueprints, parent[b] # None => parent[b] \in S PROVE b \in S
  <2>1. w(b) = a(b) \o rest(b) /\ rest(b) \in Seq(Handlers) /\ a(b) \in Seq(Handlers) /\ Level(b, exc)
    BY <1>1, <1>4
  <2>2. /\ \A x : x \in ToSet(a(b)) <=> \E i \in 1..Len(a(b)) : a(b)[i] = x
    BY <2>1, ElementsOf
  <2>3. /\ depth[b] \in Nat
        /\ parent[b] # None => parent[b] \in Blueprints /\ depth[parent[b]] < depth[b] /\ depth[parent[b]] \in Nat
    <3>1. parent[b] # None => parent[b] \in Blueprints /\ depth[parent[b]] < depth[b]
      BY DEF ParentsType, Upwards
    <3> QED
      BY <3>1
  <2>4. ASSUME NEW x, NEW f, Nearer(f, x.bp, exc)
        PROVE  f[b] = IF b = x.bp THEN {}
                      ELSE Able(b, exc) \cup IF parent[b] = None THEN {} ELSE f[parent[b]]
    BY <2>4 DEF Nearer
  <2> HIDE DEF w, rest
  <2>5. CASE \E z \in ToSet(a(b)) : z.answers
    <3>1. \E i \in 1..Len(a(b)) : a(b)[i].answers
      BY <2>2, <2>5
    <3>2. UpToAnswer(w(b)) = UpToAnswer(a(b))
      BY <2>1, <3>1, HandlersAnswer, AnswerInFirst
    <3> DEFINE c == UpToAnswer(a(b))
    <3>3. /\ c \in Seq(Handlers) /\ Answered(c) /\ IsInjective(c)
          /\ ToSet(c) \subseteq ToSet(a(b))
          /\ Last(c).bp = b /\ Best(Last(c), exc)
      BY <2>1, <2>5, LevelAnswers DEF a
    <3>4. \A x \in ToSet(a(b)) : x.bp = b
      BY <2>1 DEF Level, a
    <3> HIDE DEF c
    <3>5. Nearest(b, Last(c), exc)
      BY <2>4, <3>3 DEF Nearest
    <3>6. Caught(c, b, exc)
      BY <3>3, <3>5 DEF Caught
    <3>7. \A x \in ToSet(c) : above(x, b)
      BY <2>3, <3>3, <3>4
    <3> QED
      BY <3>2, <3>6, <3>7 DEF c
  <2>6. CASE ~\E z \in ToSet(a(b)) : z.answers
    <3>1. \A i \in 1..Len(a(b)) : ~a(b)[i].answers
      BY <2>2, <2>6
    <3> DEFINE c == UpToAnswer(rest(b))
    <3>2. UpToAnswer(w(b)) = a(b) \o c
      BY <2>1, <3>1, HandlersAnswer, AnswerInSecond
    <3>3. b # App
      BY <1>1, <2>6
    <3>4. Able(b, exc) = {} /\ IsInjective(a(b)) /\ \A x \in ToSet(a(b)) : x.bp = b
      BY <2>1, <2>6 DEF Level, a
    <3>5. /\ c \in Seq(Handlers) /\ Answered(c) /\ IsInjective(c) /\ Best(Last(c), exc)
          /\ \A x \in ToSet(c) : x.bp = App \/ (parent[b] # None /\ above(x, parent[b]))
          /\ Nearest(b, Last(c), exc)
      <4>1. CASE parent[b] = None
        <5>1. c = UpToAnswer(a(App))
          BY <4>1 DEF rest
        <5>2. /\ c \in Seq(Handlers) /\ Answered(c) /\ IsInjective(c)
              /\ ToSet(c) \subseteq ToSet(a(App))
              /\ Last(c).bp = App /\ Best(Last(c), exc)
          BY <1>1, <5>1, LevelAnswers DEF a
        <5>3. \A x \in ToSet(a(App)) : x.bp = App
          BY <1>1 DEF Level, a
        <5>4. Nearest(b, Last(c), exc)
          BY <2>4, <3>4, <4>1 DEF Nearest
        <5> QED
          BY <5>2, <5>3, <5>4
      <4>2. CASE parent[b] # None
        <5>1. c = UpToAnswer(w(parent[b])) /\ parent[b] \in S
          BY <1>5, <4>2 DEF rest
        <5>2. Caught(c, parent[b], exc) /\ \A x \in ToSet(c) : above(x, parent[b])
          BY <5>1
        <5> HIDE DEF c
        <5>3. /\ c \in Seq(Handlers) /\ Answered(c) /\ IsInjective(c) /\ Best(Last(c), exc)
              /\ Nearest(parent[b], Last(c), exc)
          BY <5>2 DEF Caught
        <5>4. Nearest(b, Last(c), exc)
          BY <2>4, <3>4, <4>2, <5>3 DEF Nearest
        <5> QED
          BY <4>2, <5>2, <5>3, <5>4
      <4> QED
        BY <4>1, <4>2
    <3> HIDE DEF c
    <3>6. ToSet(a(b)) \cap ToSet(c) = {}
      <4>1. ASSUME NEW x \in ToSet(c) PROVE x.bp # b
        <5>1. CASE x.bp = App
          BY <3>3, <5>1
        <5>2. CASE parent[b] # None /\ above(x, parent[b])
          BY <2>3, <3>3, <5>2
        <5> QED
          BY <3>5, <5>1, <5>2
      <4> QED
        BY <3>4, <4>1
    <3> DEFINE d == a(b) \o c
    <3>7. d \in Seq(Handlers) /\ ToSet(d) = ToSet(a(b)) \cup ToSet(c) /\ IsInjective(d)
      BY <2>1, <3>4, <3>5, <3>6, ConcatElements
    <3>8. Last(d) = Last(c) /\ d # <<>>
      <4>1. ASSUME NEW A, NEW p \in Seq(A), NEW q \in Seq(A), q # <<>>
            PROVE  Last(p \o q) = Last(q) /\ p \o q # <<>>
        <5>1. /\ Len(q) \in Nat \ {0} /\ Len(p) \in Nat /\ Len(p \o q) = Len(p) + Len(q)
              /\ \A i \in 1..Len(q) : (p \o q)[Len(p) + i] = q[i]
          BY <4>1
        <5>2. Len(p \o q) # 0 /\ Len(q) \in 1..Len(q) /\ Len(<<>>) = 0
          BY <5>1
        <5> QED
          BY <5>1, <5>2 DEF Last
      <4>2. c # <<>>
        BY <3>5 DEF Answered
      <4> QED
        BY <2>1, <3>5, <4>1, <4>2
    <3>9. Answered(d)
      BY <3>5, <3>8 DEF Answered
    <3>10. Nearest(b, Last(d), exc) /\ Best(Last(d), exc)
      BY <3>5, <3>8
    <3> HIDE DEF d
    <3>11. Caught(d, b, exc)
      BY <3>7, <3>9, <3>10 DEF Caught
    <3>12. ASSUME NEW x \in ToSet(d) PROVE above(x, b)
      <4>1. CASE x \in ToSet(a(b))
        BY <2>3, <3>4, <4>1
      <4>2. CASE x \in ToSet(c) /\ x.bp = App
        BY <4>2
      <4>3. CASE x \in ToSet(c) /\ x.bp # App
        <5>1. parent[b] # None /\ x.bp \in Blueprints /\ depth[x.bp] <= depth[parent[b]]
          BY <3>5, <4>3
        <5>2. depth[x.bp] \in Nat
          BY <5>1
        <5> QED
          BY <2>3, <5>1, <5>2
      <4> QED
        BY <3>7, <4>1, <4>2, <4>3
    <3> QED
      BY <3>2, <3>11, <3>12 DEF d
  <2> QED
    BY <2>5, <2>6
<1>6. Blueprints \subseteq S
  <2> HIDE DEF S
  <2> QED
    BY <1>5, TreeInduction
<1> HIDE DEF w
<1>7. Caught(UpToAnswer(w(bp)), bp, exc)
  BY <1>6
<1> QED
  BY <1>2, <1>7 DEF w

\* Whatever a handler raises is an Exception.
LEMMA Raised ==
  ASSUME config \in Configurations, NEW r, NEW raises \in config.raises \cup {None},
         CallHandler(r, raises) # None
  PROVE  CallHandler(r, raises) \in DOMAIN Super /\ "Exception" \in Super[CallHandler(r, raises)]
<1> DEFINE lacking == {GetComponent(t) : t \in r.wants} \ {None}
           some == CHOOSE x \in lacking : TRUE
           Exceptions == {e \in DOMAIN Super : "Exception" \in Super[e]}
<1>1. DefaultClasses \cup {"ValueError"} \subseteq Exceptions
  BY ApplicationAssumption DEF DefaultClasses
<1>2. \A t : GetComponent(t) \in {None, "MissingComponent", "ValueError"}
  BY DEF GetComponent
<1>3. lacking \subseteq Exceptions
  <2>1. lacking \subseteq {"MissingComponent", "ValueError"}
    BY <1>2
  <2> QED
    BY <1>1, <2>1 DEF DefaultClasses
<1>4. lacking # {} => some \in Exceptions
  BY <1>3
<1>5. raises = None \/ raises \in Exceptions
  BY ProgramTypes, ProgramsAssumption
<1> HIDE DEF Exceptions, lacking, some
<1>6. CallHandler(r, raises) \in {"NotFound", "MethodNotAllowed", None} \cup {IF lacking # {} THEN some ELSE raises}
  BY DEF CallHandler, lacking, some
<1>7. CallHandler(r, raises) \in Exceptions
  BY <1>1, <1>4, <1>5, <1>6 DEF DefaultClasses
<1> QED
  BY <1>7 DEF Exceptions

LEMMA HandledIsCaught ==
  ASSUME BaseInv, TreeInv, KeptInv, initialized,
         config.odd \cap {"late", "unsorted", "again", "declines"} = {},
         NEW ask, NEW r, r.parent \in Blueprints, NEW raises \in config.raises \cup {None},
         NEW d, d = Handled(ask, r, raises), d.is \in {"error", "nothing"}
  PROVE  d.is = "error" /\ d.route = r /\ Caught(d.caught, r.parent, d.exc)
<1>1. /\ d.route = r
      /\ d.caught = IF d.exc = None THEN <<>> ELSE ProcessException(r.parent, d.exc)
      /\ d.is = IF Answered(d.before) THEN "hook"
                ELSE IF d.exc = None THEN IF Answered(d.after) THEN "replaced" ELSE "page"
                ELSE IF Answered(d.caught) THEN "error" ELSE "nothing"
      /\ d.exc # None => d.exc = CallHandler(r, raises)
  BY HandledIs
<1>2. d.exc # None
  BY <1>1
<1>3. d.exc \in DOMAIN Super /\ "Exception" \in Super[d.exc]
  BY <1>1, <1>2, Raised DEF BaseInv
<1>4. Levels(d.exc)
  BY <1>3, LevelsAreRight DEF KeptInv
<1>5. Cardinality(Blueprints) \in Nat
  BY ApplicationAssumption, FS_CardinalityType
<1>6. PICK depth \in [Blueprints -> 0..Cardinality(Blueprints)] :
         \A m \in config.mounts : depth[m.parent] < depth[m.bp]
  BY ProgramsAssumption DEF BaseInv
<1>7. ParentsType /\ Upwards(depth)
  BY <1>6 DEF TreeInv, ParentsType, Upwards, KeptInv, ParentsAreMounts
<1>8. Caught(ProcessException(r.parent, d.exc), r.parent, d.exc)
  BY <1>4, <1>5, <1>7, IsCaught
<1>9. Caught(d.caught, r.parent, d.exc) /\ Answered(d.caught)
  BY <1>1, <1>2, <1>8 DEF Caught
<1> QED
  BY <1>1, <1>9

\* The same as ErrorsFindTheirHandler.
NearersExist == \A at, exc : Nearer(CHOOSE f : Nearer(f, at, exc), at, exc)
ErrorsAreCaught ==
    (reply.is \in {"error", "nothing"} /\ config.odd \cap {"late", "unsorted", "again", "declines"} = {}) =>
        /\ reply.is = "error" /\ IsInjective(reply.caught)
        /\ Nearest(reply.route.parent, Last(reply.caught), reply.exc)
        /\ Best(Last(reply.caught), reply.exc)

LEMMA NearersDoExist == BaseInv /\ TreeInv /\ ParentsAreMounts => NearersExist
<1> SUFFICES ASSUME BaseInv, TreeInv, ParentsAreMounts PROVE NearersExist
  OBVIOUS
<1>1. Cardinality(Blueprints) \in Nat
  BY ApplicationAssumption, FS_CardinalityType
<1>2. PICK depth \in [Blueprints -> 0..Cardinality(Blueprints)] :
         \A m \in config.mounts : depth[m.parent] < depth[m.bp]
  BY ProgramsAssumption DEF BaseInv
<1>3. ParentsType /\ Upwards(depth)
  BY <1>2 DEF TreeInv, ParentsType, Upwards, ParentsAreMounts
<1> QED
  BY <1>1, <1>3, NearerExists DEF NearersExist

LEMMA CaughtIsFound == NearersExist /\ ErrorsAreCaught => ErrorsFindTheirHandler
<1> SUFFICES ASSUME NearersExist, ErrorsAreCaught PROVE ErrorsFindTheirHandler
  OBVIOUS
<1> DEFINE x == Last(reply.caught)
           below == CHOOSE f : Nearer(f, x.bp, reply.exc)
<1>1. Nearest(reply.route.parent, x, reply.exc) => below[reply.route.parent] = {}
  <2>1. Nearer(below, x.bp, reply.exc)
    BY DEF NearersExist
  <2> HIDE DEF below, x
  <2> QED
    BY <2>1 DEF Nearest
<1> QED
  BY <1>1, Zenon DEF ErrorsFindTheirHandler, Usual, ErrorsAreCaught, Nearer, Best

LEMMA ErrorsInit == Init => ErrorsFindTheirHandler
<1> SUFFICES ASSUME Init PROVE ErrorsFindTheirHandler
  OBVIOUS
<1>1. reply.is = None
  BY DEF Init, NoReply
<1> QED
  BY <1>1 DEF ErrorsFindTheirHandler, None

LEMMA ErrorsStep ==
  ASSUME StartInv, TypeInv, KeptInv, ErrorsFindTheirHandler, [Next]_vars
  PROVE  ErrorsFindTheirHandler'
<1>1. ASSUME NEW ask \in config.asks, NEW raises \in config.raises \cup {None}, Serve(ask, raises)
      PROVE  ErrorsFindTheirHandler'
  <2>1. /\ UNCHANGED <<config, parent, handlers>> /\ conn.made
        /\ \/ reply' = [is |-> "lost", ask |-> ask]
           \/ \E r : r.parent \in Blueprints /\ reply' = Handled(ask, r, raises)
    BY <1>1, ServeIs
  <2>2. CASE reply' = [is |-> "lost", ask |-> ask]
    <3>1. reply'.is = "lost"
      BY <2>2
    <3> QED
      BY <3>1 DEF ErrorsFindTheirHandler
  <2>3. ASSUME NEW r, r.parent \in Blueprints, reply' = Handled(ask, r, raises)
        PROVE  ErrorsFindTheirHandler'
    <3>1. PICK d : d = reply'
      OBVIOUS
    <3>2. initialized /\ config' = config /\ parent' = parent
      BY <2>1 DEF StartInv
    <3>3. \A b, e : Able(b, e)' = Able(b, e)
      BY <3>2 DEF Able, Defaults
    <3>4. \A f, at, e : Nearer(f, at, e)' <=> Nearer(f, at, e)
      BY <3>2, <3>3 DEF Nearer
    <3>5. \A b, x, e : Nearest(b, x, e) => Nearest(b, x, e)'
      BY <3>4 DEF Nearest
    <3>6. \A x, e : Best(x, e) => Best(x, e)'
      BY <3>3 DEF Best
    <3>7. ASSUME d.is \in {"error", "nothing"},
                 config.odd \cap {"late", "unsorted", "again", "declines"} = {}
          PROVE  d.is = "error" /\ d.route = r /\ Caught(d.caught, r.parent, d.exc)
      BY <2>3, <3>1, <3>2, <3>7, HandledIsCaught DEF TypeInv
    <3>8. ASSUME d.is \in {"error", "nothing"},
                 config.odd \cap {"late", "unsorted", "again", "declines"} = {}
          PROVE  /\ d.is = "error" /\ IsInjective(d.caught)
                 /\ Nearest(d.route.parent, Last(d.caught), d.exc)'
                 /\ Best(Last(d.caught), d.exc)'
      BY <3>5, <3>6, <3>7, <3>8 DEF Caught
    <3>9. ErrorsAreCaught'
      BY <3>1, <3>2, <3>8 DEF ErrorsAreCaught
    <3>10. (NearersExist)'
      <4>1. (BaseInv /\ TreeInv /\ ParentsAreMounts)'
        BY TypeStep, KeptStep DEF TypeInv, KeptInv
      <4> QED
        BY <4>1, NearersDoExist, PTL
    <3> QED
      BY <3>9, <3>10, CaughtIsFound, PTL
  <2> QED
    BY <2>1, <2>2, <2>3
<1>2. ASSUME UNCHANGED <<config, reply, parent>> PROVE ErrorsFindTheirHandler'
  BY <1>2 DEF ErrorsFindTheirHandler, Usual, Able, Defaults
<1>3. ASSUME ~initialized, reply' = reply PROVE ErrorsFindTheirHandler'
  <2>1. reply' = NoReply
    BY <1>3 DEF StartInv, KeptInv, NoReplyYet
  <2>2. reply'.is = None
    BY <2>1 DEF NoReply
  <2> QED
    BY <2>2 DEF ErrorsFindTheirHandler, None
<1>4. (\E m \in config.mounts : Nest(m) \/ Mount(m)) => ~initialized /\ reply' = reply
  BY DEF Nest, Mount, Mounts, Declares, serving
<1>5. (\E r \in config.routes : DeclareRoute(r))
        \/ (\E h \in config.hooks : AddHook(h)) \/ (\E x \in config.handlers : Handle(x))
        \/ (\E c \in config.components : AddComponent(c)) \/ Initialize \/ Connect \/ UNCHANGED vars
      => UNCHANGED <<config, reply, parent>>
  BY DEF DeclareRoute, AddHook, Handle, AddComponent, Declares, Initialize, Connect, vars, serving, blueprints
<1> QED
  BY <1>1, <1>2, <1>3, <1>4, <1>5 DEF Next

-----------------------------------------------------------------------------
(* The prefixes of a blueprint, as a program declares them.                *)

\* One turn of the recursion of FullPrefixes.
PrefixTurn(c, f, b) ==
    IF b = App THEN {NoPath}
    ELSE UNION {UNION {{Join(p, q) : p \in f[m.parent]} : q \in ToSet(m.prefixes)} :
                    m \in {n \in c.mounts : n.bp = b}}
PrefixTurns(c, f) == f = [b \in Blueprints |-> PrefixTurn(c, f, b)]
PrefixesOf(c) == CHOOSE f : PrefixTurns(c, f)

LEMMA FullPrefixesAre ==
  ASSUME NEW b
  PROVE  FullPrefixes(b) = PrefixesOf(config)[b]
BY Zenon DEF FullPrefixes, PrefixesOf, PrefixTurns, PrefixTurn

\* It reads the prefixes of the blueprints it is mounted on.
LEMMA PrefixTurnLocal ==
  ASSUME NEW c, NEW f, NEW g, NEW b, \A m \in c.mounts : m.bp = b => f[m.parent] = g[m.parent]
  PROVE  PrefixTurn(c, f, b) = PrefixTurn(c, g, b)
<1> DEFINE of(h, m) == UNION {{Join(p, q) : p \in h[m.parent]} : q \in ToSet(m.prefixes)}
           here == {n \in c.mounts : n.bp = b}
<1>1. \A m \in here : of(f, m) = of(g, m)
  OBVIOUS
<1> HIDE DEF of
<1>2. UNION {of(f, m) : m \in here} = UNION {of(g, m) : m \in here}
  BY <1>1
<1> QED
  BY <1>2, Zenon DEF PrefixTurn, of

LEMMA MountTypes ==
  ASSUME NEW c \in Configurations, NEW m \in c.mounts
  PROVE  /\ m.bp \in Blueprints /\ m.bp # App /\ m.parent \in Blueprints /\ m.prefixes \in Seq(Paths)
         /\ ToSet(m.prefixes) \subseteq Paths
<1>1. m \in Mountings
  BY ProgramTypes
<1>2. ASSUME NEW s \in Seq(Paths) PROVE ToSet(s) \subseteq Paths
  BY DEF ToSet
<1> QED
  BY <1>1, <1>2 DEF Mountings

\* By induction from the application to what is mounted.
LEMMA ProgramInduction ==
  ASSUME NEW c \in Configurations, NEW S,
         \A b \in Blueprints : (\A m \in c.mounts : m.bp = b => m.parent \in S) => b \in S
  PROVE  Blueprints \subseteq S
<1> DEFINE N == Cardinality(Blueprints)
           M == N + 1
<1>0. N \in Nat
  BY ApplicationAssumption, FS_CardinalityType
<1>1. PICK depth \in [Blueprints -> 0..N] : \A m \in c.mounts : depth[m.parent] < depth[m.bp]
  BY ProgramsAssumption
<1> DEFINE All == {k \in 0..M : \A b \in Blueprints : depth[b] < k => b \in S}
<1> HIDE DEF N
<1>2. M \in Nat /\ 0 \in All
  BY <1>0
<1>3. ASSUME NEW k \in 1..M, k - 1 \in All PROVE k \in All
  <2>1. ASSUME NEW b \in Blueprints, depth[b] < k PROVE b \in S
    <3>1. ASSUME NEW m \in c.mounts, m.bp = b PROVE m.parent \in S
      <4>1. m.parent \in Blueprints /\ depth[m.parent] < depth[b]
        BY <1>1, <3>1, MountTypes
      <4>2. depth[m.parent] \in Nat /\ depth[b] \in Nat
        BY <4>1
      <4>3. depth[m.parent] < k - 1
        BY <2>1, <4>1, <4>2
      <4> QED
        BY <1>3, <4>1, <4>3
    <3> QED
      BY <3>1
  <2> QED
    BY <1>0, <2>1
<1>4. 0..M \subseteq All
  <2> HIDE DEF All, M
  <2> QED
    BY <1>2, <1>3, InductionUpTo
<1>5. M \in All
  BY <1>2, <1>4
<1> QED
  BY <1>0, <1>5

LEMMA PrefixesExist ==
  ASSUME NEW c \in Configurations
  PROVE  \E f \in [Blueprints -> SUBSET Paths] : PrefixTurns(c, f)
<1> DEFINE N == Cardinality(Blueprints)
           M == N + 2
           F == [Blueprints -> SUBSET Paths]
           turn(f) == [b \in Blueprints |-> PrefixTurn(c, f, b)]
           base == [b \in Blueprints |-> {}]
           step == [k \in 1..M |-> [f \in F |-> turn(f)]]
<1>0. N \in Nat
  BY ApplicationAssumption, FS_CardinalityType
<1>1. PICK depth \in [Blueprints -> 0..N] : \A m \in c.mounts : depth[m.parent] < depth[m.bp]
  BY ProgramsAssumption
<1> HIDE DEF N
<1>2. ASSUME NEW f \in F PROVE turn(f) \in F
  <2>1. ASSUME NEW b \in Blueprints PROVE PrefixTurn(c, f, b) \subseteq Paths
    <3>1. NoPath \in Paths
      BY DEF NoPath, Paths
    <3>2. ASSUME NEW m \in c.mounts, NEW p \in f[m.parent], NEW q \in ToSet(m.prefixes)
          PROVE  Join(p, q) \in Paths
      <4>1. p \in Paths /\ q \in Paths
        BY <3>2, MountTypes
      <4> QED
        BY <4>1, JoinType
    <3> QED
      BY <3>1, <3>2 DEF PrefixTurn
  <2> QED
    BY <2>1
<1>3. base \in F /\ M \in Nat
  BY <1>0
<1>4. step \in [1..M -> [F -> F]]
  <2> HIDE DEF turn, F, M
  <2> QED
    BY <1>2
<1>5. PICK g \in [0..M -> F] : Recurs(g, M, base, step)
  <2> HIDE DEF step, F, M, base
  <2> QED
    BY <1>3, <1>4, Recursion
<1>6. ASSUME NEW k \in 1..M PROVE k - 1 \in 0..M /\ g[k - 1] \in F /\ g[k] = turn(g[k - 1])
  <2>1. k - 1 \in 0..M
    BY <1>3
  <2>2. g[k - 1] \in F
    <3> HIDE DEF F
    <3> QED
      BY <2>1
  <2>3. g[k] = step[k][g[k - 1]]
    BY <1>5 DEF Recurs
  <2> HIDE DEF F, turn, M
  <2> QED
    BY <2>1, <2>2, <2>3
<1>7. ASSUME NEW k \in 1..M, NEW b \in Blueprints PROVE g[k][b] = PrefixTurn(c, g[k - 1], b)
  <2>1. g[k] = turn(g[k - 1])
    <3> HIDE DEF turn, F
    <3> QED
      BY <1>6
  <2> QED
    BY <2>1
<1> DEFINE All == {k \in 0..N + 1 : \A b \in Blueprints : depth[b] < k => g[k][b] = g[k + 1][b]}
<1>8. 0 \in All
  BY <1>0
<1>9. ASSUME NEW k \in 1..N + 1, k - 1 \in All PROVE k \in All
  <2>1. k \in 1..M /\ k + 1 \in 1..M /\ (k + 1) - 1 = k /\ (k - 1) + 1 = k /\ k \in 0..N + 1 /\ k \in Nat
    BY <1>0
  <2> HIDE DEF M
  <2>2. ASSUME NEW b \in Blueprints, depth[b] < k PROVE g[k][b] = g[k + 1][b]
    <3>1. ASSUME NEW m \in c.mounts, m.bp = b PROVE g[k - 1][m.parent] = g[k][m.parent]
      <4>1. m.parent \in Blueprints /\ depth[m.parent] < depth[b]
        BY <1>1, <3>1, MountTypes
      <4>2. depth[m.parent] \in Nat /\ depth[b] \in Nat
        BY <4>1
      <4>3. depth[m.parent] < k - 1
        BY <2>1, <2>2, <4>1, <4>2
      <4>4. g[k - 1][m.parent] = g[(k - 1) + 1][m.parent]
        BY <1>9, <4>1, <4>3
      <4> QED
        BY <2>1, <4>4
    <3>2. PrefixTurn(c, g[k - 1], b) = PrefixTurn(c, g[k], b)
      BY <3>1, PrefixTurnLocal
    <3>3. g[k + 1][b] = PrefixTurn(c, g[(k + 1) - 1], b)
      BY <1>7, <2>1
    <3> QED
      BY <1>7, <2>1, <3>2, <3>3
  <2> QED
    BY <2>1, <2>2
<1>10. 0..N + 1 \subseteq All
  <2>1. N + 1 \in Nat
    BY <1>0
  <2> HIDE DEF All
  <2> QED
    BY <1>8, <1>9, <2>1, InductionUpTo
<1>11. N + 1 \in All /\ N + 1 \in 0..M /\ N + 2 \in 0..M /\ N + 2 \in 1..M /\ (N + 2) - 1 = N + 1 /\ (N + 1) + 1 = N + 2
  BY <1>0, <1>10
<1>12. \A b \in Blueprints : depth[b] < N + 1
  BY <1>0, <1>1
<1>13. \A b \in Blueprints : g[N + 1][b] = g[N + 2][b]
  BY <1>11, <1>12
<1>14. \A b \in Blueprints : g[N + 1][b] = PrefixTurn(c, g[N + 1], b)
  <2> HIDE DEF M
  <2>1. \A b \in Blueprints : g[N + 2][b] = PrefixTurn(c, g[(N + 2) - 1], b)
    BY <1>7, <1>11
  <2> QED
    BY <1>11, <1>13, <2>1
<1>15. g[N + 1] \in F
  <2> HIDE DEF F, M
  <2> QED
    BY <1>11
<1>16. PrefixTurns(c, g[N + 1])
  BY <1>14, <1>15 DEF PrefixTurns
<1> QED
  BY <1>15, <1>16

LEMMA PrefixesAre ==
  ASSUME NEW c \in Configurations
  PROVE  \A b \in Blueprints : /\ PrefixesOf(c)[b] = PrefixTurn(c, PrefixesOf(c), b)
                               /\ PrefixesOf(c)[b] \subseteq Paths
<1> DEFINE f == PrefixesOf(c)
           S == {b \in Blueprints : f[b] \subseteq Paths}
<1>1. PrefixTurns(c, f)
  BY PrefixesExist, Zenon DEF PrefixesOf
<1> HIDE DEF f
<1>2. \A b \in Blueprints : f[b] = PrefixTurn(c, f, b)
  BY <1>1 DEF PrefixTurns
<1>3. ASSUME NEW b \in Blueprints, \A m \in c.mounts : m.bp = b => m.parent \in S PROVE b \in S
  <2>1. NoPath \in Paths
    BY DEF NoPath, Paths
  <2>2. ASSUME NEW m \in c.mounts, m.bp = b, NEW p \in f[m.parent], NEW q \in ToSet(m.prefixes)
        PROVE  Join(p, q) \in Paths
    <3>1. p \in Paths /\ q \in Paths
      BY <1>3, <2>2, MountTypes
    <3> QED
      BY <3>1, JoinType
  <2>3. PrefixTurn(c, f, b) \subseteq Paths
    BY <2>1, <2>2 DEF PrefixTurn
  <2> QED
    BY <1>2, <2>3
<1>4. Blueprints \subseteq S
  <2> HIDE DEF S
  <2> QED
    BY <1>3, ProgramInduction
<1> QED
  BY <1>2, <1>4 DEF f

-----------------------------------------------------------------------------
(* Paths.                                                                  *)

AtSlash == [segs |-> <<>>, slash |-> TRUE]

LEMMA TwinProperties ==
  ASSUME NEW p \in Paths
  PROVE  /\ Twin(p) \in Paths /\ Twin(p).segs = p.segs
         /\ p # NoPath => Twin(Twin(p)) = p
         /\ p # AtSlash => Twin(p).slash # p.slash
BY DEF Twin, Paths, NoPath, AtSlash

LEMMA JoinIs ==
  ASSUME NEW p \in Paths, NEW q \in Paths
  PROVE  /\ Join(p, q) \in Paths /\ Join(p, q).segs = p.segs \o q.segs /\ Join(p, q).slash = q.slash
         /\ Join(NoPath, q) = q
BY DEF Join, Paths, NoPath

\* Without parameters, a pattern matches itself.
LEMMA PlainMatches ==
  ASSUME NEW p \in Paths, NEW path \in Paths, ~IsDynamic(p)
  PROVE  PathMatches(p, path) <=> p = path
<1>1. /\ p.segs \in Seq(STRING) /\ path.segs \in Seq(STRING) /\ p.slash \in BOOLEAN /\ path.slash \in BOOLEAN
      /\ p = [segs |-> p.segs, slash |-> p.slash] /\ path = [segs |-> path.segs, slash |-> path.slash]
  BY DEF Paths
<1>2. /\ DOMAIN p.segs = 1..Len(p.segs) /\ Len(p.segs) \in Nat
      /\ DOMAIN path.segs = 1..Len(path.segs) /\ Len(path.segs) \in Nat
  BY <1>1
<1>3. \A i \in 1..Len(p.segs) : p.segs[i] # "*" /\ p.segs[i] # "**"
  BY <1>2 DEF IsDynamic
<1>4. ~(p.segs # <<>> /\ Last(p.segs) = "**")
  <2> SUFFICES ASSUME p.segs # <<>> PROVE Last(p.segs) # "**"
    OBVIOUS
  <2>1. Len(p.segs) \in 1..Len(p.segs)
    BY <1>1, <1>2, EmptySeq
  <2> QED
    BY <1>3, <2>1 DEF Last
<1>5. PathMatches(p, path) <=> /\ Len(p.segs) = Len(path.segs) /\ p.slash = path.slash
                               /\ \A i \in DOMAIN p.segs : p.segs[i] \in {"*", path.segs[i]}
  BY <1>4 DEF PathMatches
<1>6. ASSUME p = path PROVE PathMatches(p, path)
  BY <1>5, <1>6
<1>7. ASSUME PathMatches(p, path) PROVE p = path
  <2>1. \A i \in 1..Len(p.segs) : p.segs[i] = path.segs[i]
    BY <1>2, <1>3, <1>5, <1>7
  <2>2. p.segs = path.segs
    BY <1>1, <1>2, <1>5, <1>7, <2>1, SeqEqual
  <2> QED
    BY <1>1, <1>5, <1>7, <2>2
<1> QED
  BY <1>6, <1>7

LEMMA PlainJoin ==
  ASSUME NEW p \in Paths, NEW q \in Paths, ~IsDynamic(p), ~IsDynamic(q)
  PROVE  ~IsDynamic(Join(p, q))
<1>1. p.segs \in Seq(STRING) /\ q.segs \in Seq(STRING) /\ Join(p, q).segs = p.segs \o q.segs
  BY JoinIs DEF Paths
<1>2. ToSet(p.segs \o q.segs) = ToSet(p.segs) \cup ToSet(q.segs)
  BY <1>1, ConcatElements
<1> QED
  BY <1>1, <1>2 DEF IsDynamic, ToSet

\* A program that mounts under parameters has no static routes; where no
\* prefix is empty, no route is at the root.
LEMMA PrefixesArePlain ==
  ASSUME NEW c \in Configurations, "params" \notin c.odd, NEW r \in c.routes, ~r.dynamic,
         NEW p \in PrefixesOf(c)[r.parent]
  PROVE  ~IsDynamic(Join(p, r.pattern))
<1> DEFINE S == {b \in Blueprints : \A x \in PrefixesOf(c)[b] : ~IsDynamic(x)}
<1>1. /\ r \in OwnRoutes /\ r.pattern \in Paths /\ r.parent \in Blueprints /\ ~IsDynamic(r.pattern)
      /\ \A m \in c.mounts : \A q \in ToSet(m.prefixes) : ~IsDynamic(q)
  BY ProgramTypes, RoutesAssumption DEF OwnRoutes, Routes
<1>2. ASSUME NEW b \in Blueprints, \A m \in c.mounts : m.bp = b => m.parent \in S PROVE b \in S
  <2> SUFFICES ASSUME NEW x \in PrefixesOf(c)[b] PROVE ~IsDynamic(x)
    OBVIOUS
  <2>1. x \in PrefixTurn(c, PrefixesOf(c), b)
    BY PrefixesAre
  <2>2. CASE x = NoPath
    BY <2>2 DEF NoPath, IsDynamic
  <2>3. ASSUME NEW m \in c.mounts, m.bp = b, NEW y \in PrefixesOf(c)[m.parent], NEW q \in ToSet(m.prefixes),
               x = Join(y, q)
        PROVE  ~IsDynamic(x)
    <3>1. y \in Paths /\ q \in Paths /\ ~IsDynamic(y) /\ ~IsDynamic(q)
      BY <1>1, <1>2, <2>3, MountTypes, PrefixesAre
    <3> QED
      BY <2>3, <3>1, PlainJoin
  <2> QED
    BY <2>1, <2>2, <2>3 DEF PrefixTurn
<1>3. Blueprints \subseteq S
  <2> HIDE DEF S
  <2> QED
    BY <1>2, ProgramInduction
<1>4. ~IsDynamic(p) /\ p \in Paths
  BY <1>1, <1>3, PrefixesAre
<1> QED
  BY <1>1, <1>4, PlainJoin

LEMMA NotAtRoot ==
  ASSUME NEW c \in Configurations, "slashes" \notin c.odd, NEW r \in c.routes,
         NEW p \in PrefixesOf(c)[r.parent]
  PROVE  Join(p, r.pattern) # NoPath /\ (c.strategy = "redirect" => Join(p, r.pattern) # AtSlash)
<1>1. /\ r \in OwnRoutes /\ r.pattern \in Paths /\ r.parent \in Blueprints
      /\ AtRoot(c, r) => r.pattern # NoPath /\ c.strategy # "redirect"
  BY ProgramTypes, RoutesAssumption DEF OwnRoutes, Routes
<1>2. p \in Paths /\ p \in PrefixTurn(c, PrefixesOf(c), r.parent)
  BY <1>1, PrefixesAre
<1> SUFFICES ASSUME Join(p, r.pattern).segs = <<>>
             PROVE  r.pattern # NoPath /\ c.strategy # "redirect" /\ r.pattern.slash = Join(p, r.pattern).slash
                    /\ r.pattern.segs = <<>>
  <2>1. Join(p, r.pattern).slash = r.pattern.slash
    BY <1>1, <1>2, JoinIs
  <2> QED
    BY <1>1, <2>1 DEF NoPath, AtSlash, Paths
<1>3. ASSUME NEW x \in Paths, NEW y \in Paths, Join(x, y).segs = <<>>
      PROVE  x.segs = <<>> /\ y.segs = <<>>
  <2>1. x.segs \in Seq(STRING) /\ y.segs \in Seq(STRING) /\ x.segs \o y.segs = <<>>
    BY <1>3, JoinIs DEF Paths
  <2> QED
    BY <2>1, ConcatProperties, EmptySeq
<1>4. r.pattern.segs = <<>> /\ p.segs = <<>>
  BY <1>1, <1>2, <1>3
<1>5. ASSUME r.parent # App PROVE \E m \in c.mounts : \E q \in ToSet(m.prefixes) : q.segs = <<>>
  <2>1. PICK m \in c.mounts : m.bp = r.parent /\ \E q \in ToSet(m.prefixes) : \E x \in PrefixesOf(c)[m.parent] : p = Join(x, q)
    BY <1>2, <1>5 DEF PrefixTurn
  <2>2. PICK q \in ToSet(m.prefixes), x \in PrefixesOf(c)[m.parent] : p = Join(x, q)
    BY <2>1
  <2>3. q \in Paths /\ x \in Paths
    BY MountTypes, PrefixesAre
  <2> QED
    BY <1>3, <1>4, <2>2, <2>3
<1>6. AtRoot(c, r)
  BY <1>4, <1>5 DEF AtRoot
<1> QED
  BY <1>1, <1>2, <1>4, <1>6, JoinIs

-----------------------------------------------------------------------------
(* What the tables hold, and that it is what routes promise.               *)

\* Where a route gets a twin.
Twinned(r) == strategy # "strict" /\ ~r.dynamic /\ "GET" \in r.methods

\* s is what add_route makes of the route r for the path p.
IsMade(s, r, p) ==
    /\ s.id = r.id /\ s.cache = r.cache /\ s.ok = r.ok /\ s.dynamic = r.dynamic
    /\ s.methods \subseteq r.methods
    /\ \/ s.pattern = p /\ s.to = NoPath
       \/ /\ Twinned(r) /\ s.pattern = Twin(p)
          /\ strategy = "clone" => s.to = NoPath
          /\ strategy = "redirect" => s.to = p /\ s.methods \subseteq {"GET"}
AllRoutes(c) == c.routes \cup {StaticRoute}
IsOf(c, s) == \E r \in AllRoutes(c) : \E p \in PrefixesOf(c)[r.parent] : IsMade(s, r, Join(p, r.pattern))

Sound(c, t) ==
    /\ t.hosts = <<>>
    /\ \A k \in DOMAIN t.routes :
          /\ IsOf(c, t.routes[k]) /\ ~t.routes[k].dynamic
          /\ k[1] \in t.routes[k].methods /\ k[2] = t.routes[k].pattern
    /\ \A m \in Methods : \A s \in ToSet(t.dynamic[m]) : IsOf(c, s) /\ s.dynamic /\ m \in s.methods

\* The tables have what a route promises for the path p.
Has(t, r, p) ==
    \A m \in r.methods :
        /\ r.dynamic => \E s \in ToSet(t.dynamic[m]) : s.pattern = p
        /\ ~r.dynamic => <<m, p>> \in DOMAIN t.routes
        /\ Twinned(r) /\ (strategy = "redirect" => m = "GET") => <<m, Twin(p)>> \in DOMAIN t.routes

Grows(t, u) ==
    /\ DOMAIN t.routes \subseteq DOMAIN u.routes
    /\ \A m \in Methods : ToSet(t.dynamic[m]) \subseteq ToSet(u.dynamic[m])

LEMMA GrowsOn ==
  ASSUME NEW t, NEW u, NEW v, Grows(t, u), Grows(u, v)
  PROVE  Grows(t, v)
BY DEF Grows

LEMMA HasStill ==
  ASSUME NEW t, NEW u, NEW r \in OwnRoutes, NEW p, Grows(t, u), Has(t, r, p)
  PROVE  Has(u, r, p)
<1>1. r.methods \subseteq Methods
  BY DEF OwnRoutes, Routes
<1> QED
  BY <1>1 DEF Grows, Has

LEMMA AppendElements ==
  ASSUME NEW A, NEW s \in Seq(A), NEW x \in A
  PROVE  ToSet(Append(s, x)) = ToSet(s) \cup {x}
<1>1. /\ DOMAIN s = 1..Len(s) /\ Len(s) \in Nat /\ DOMAIN Append(s, x) = 1..Len(s) + 1
      /\ Append(s, x)[Len(s) + 1] = x /\ \A i \in 1..Len(s) : Append(s, x)[i] = s[i]
  BY AppendProperties
<1>2. 1..Len(s) + 1 = 1..Len(s) \cup {Len(s) + 1}
  BY <1>1
<1> QED
  BY <1>1, <1>2 DEF ToSet

\* Registering one route.
LEMMA RegisteredIs ==
  ASSUME NEW t \in Tables, NEW r \in OwnRoutes, r.hosts = <<>>
  PROVE  LET u == Registered(t, r)
         IN  /\ u.hosts = t.hosts
             /\ r.dynamic =>
                   /\ u.routes = t.routes
                   /\ \A m \in Methods : ToSet(u.dynamic[m]) = ToSet(t.dynamic[m]) \cup {s \in {r} : m \in r.methods}
             /\ ~r.dynamic =>
                   /\ u.dynamic = t.dynamic
                   /\ DOMAIN u.routes = {<<m, r.pattern>> : m \in r.methods} \cup DOMAIN t.routes
                   /\ \A k \in DOMAIN u.routes :
                         u.routes[k] = IF k \in {<<m, r.pattern>> : m \in r.methods} THEN r ELSE t.routes[k]
<1> DEFINE u == Registered(t, r)
<1>0. t = [routes |-> t.routes, dynamic |-> t.dynamic, hosts |-> t.hosts]
  BY DEF Tables
<1>1. CASE r.dynamic
  <2> DEFINE dynamic == [m \in Methods |-> IF m \in r.methods THEN Append(t.dynamic[m], r) ELSE t.dynamic[m]]
  <2>1. u = [t EXCEPT !.dynamic = dynamic]
    BY <1>1, Zenon DEF Registered
  <2>2. ASSUME NEW m \in Methods
        PROVE  ToSet(dynamic[m]) = ToSet(t.dynamic[m]) \cup {s \in {r} : m \in r.methods}
    <3>1. t.dynamic[m] \in Seq(OwnRoutes)
      BY DEF Tables
    <3>2. ToSet(Append(t.dynamic[m], r)) = ToSet(t.dynamic[m]) \cup {r}
      BY <3>1, AppendElements
    <3> QED
      BY <3>2
  <2> HIDE DEF dynamic
  <2>3. u.hosts = t.hosts /\ u.routes = t.routes /\ u.dynamic = dynamic
    BY <1>0, <2>1
  <2> QED
    BY <1>1, <2>2, <2>3
<1>2. CASE ~r.dynamic
  <2> DEFINE keys == {<<m, r.pattern>> : m \in r.methods}
             routes == [k \in keys \cup DOMAIN t.routes |-> IF k \in keys THEN r ELSE t.routes[k]]
  <2>1. u = [t EXCEPT !.routes = routes]
    BY <1>2, Zenon DEF Registered
  <2> HIDE DEF keys
  <2>2. /\ DOMAIN routes = keys \cup DOMAIN t.routes
        /\ \A k \in DOMAIN routes : routes[k] = IF k \in keys THEN r ELSE t.routes[k]
    OBVIOUS
  <2> HIDE DEF routes
  <2>3. u.hosts = t.hosts /\ u.routes = routes /\ u.dynamic = t.dynamic
    BY <1>0, <2>1
  <2> QED
    BY <1>2, <2>2, <2>3 DEF keys
<1> QED
  BY <1>1, <1>2 DEF OwnRoutes, Routes

LEMMA RegisteredSound ==
  ASSUME NEW c, NEW t \in Tables, Sound(c, t), NEW r \in OwnRoutes, r.hosts = <<>>, IsOf(c, r)
  PROVE  /\ Sound(c, Registered(t, r)) /\ Grows(t, Registered(t, r))
         /\ \A m \in r.methods : /\ r.dynamic => r \in ToSet(Registered(t, r).dynamic[m])
                                 /\ ~r.dynamic => <<m, r.pattern>> \in DOMAIN Registered(t, r).routes
<1> DEFINE u == Registered(t, r)
<1>1. /\ u.hosts = t.hosts
      /\ r.dynamic =>
            /\ u.routes = t.routes
            /\ \A m \in Methods : ToSet(u.dynamic[m]) = ToSet(t.dynamic[m]) \cup {s \in {r} : m \in r.methods}
      /\ ~r.dynamic =>
            /\ u.dynamic = t.dynamic
            /\ DOMAIN u.routes = {<<m, r.pattern>> : m \in r.methods} \cup DOMAIN t.routes
            /\ \A k \in DOMAIN u.routes :
                  u.routes[k] = IF k \in {<<m, r.pattern>> : m \in r.methods} THEN r ELSE t.routes[k]
  BY RegisteredIs
<1>2. r.dynamic \in BOOLEAN /\ r.methods \subseteq Methods
  BY DEF OwnRoutes, Routes
<1> HIDE DEF u
<1>3. CASE r.dynamic
  <2>1. \A m \in Methods : \A s \in ToSet(u.dynamic[m]) : s \in ToSet(t.dynamic[m]) \/ (s = r /\ m \in r.methods)
    BY <1>1, <1>3
  <2>2. Sound(c, u)
    BY <1>1, <1>3, <2>1 DEF Sound
  <2>3. Grows(t, u) /\ \A m \in r.methods : r \in ToSet(u.dynamic[m])
    BY <1>1, <1>2, <1>3 DEF Grows
  <2> QED
    BY <1>3, <2>2, <2>3 DEF u
<1>4. CASE ~r.dynamic
  <2>1. ASSUME NEW k \in DOMAIN u.routes
        PROVE  /\ IsOf(c, u.routes[k]) /\ ~u.routes[k].dynamic
               /\ k[1] \in u.routes[k].methods /\ k[2] = u.routes[k].pattern
    <3>1. CASE k \in {<<m, r.pattern>> : m \in r.methods}
      <4>1. PICK m \in r.methods : k = <<m, r.pattern>>
        BY <3>1
      <4>2. u.routes[k] = r /\ k[1] = m /\ k[2] = r.pattern
        BY <1>1, <1>4, <3>1, <4>1
      <4> QED
        BY <1>4, <4>2
    <3>2. CASE k \notin {<<m, r.pattern>> : m \in r.methods}
      BY <1>1, <1>4, <3>2 DEF Sound
    <3> QED
      BY <3>1, <3>2
  <2>2. Sound(c, u)
    BY <1>1, <1>4, <2>1 DEF Sound
  <2>3. Grows(t, u) /\ \A m \in r.methods : <<m, r.pattern>> \in DOMAIN u.routes
    BY <1>1, <1>4 DEF Grows
  <2> QED
    BY <1>4, <2>2, <2>3 DEF u
<1> QED
  BY <1>2, <1>3, <1>4

\* A program's route, where nothing is odd about routes.
LEMMA RouteIs ==
  ASSUME NEW c \in Configurations, "hosts" \notin c.odd, NEW r \in AllRoutes(c)
  PROVE  /\ r \in OwnRoutes /\ r \in Routes /\ r.hosts = <<>> /\ r.to = NoPath /\ r.parent \in Blueprints
         /\ r.pattern \in Paths /\ r.methods \subseteq Methods /\ r.dynamic \in BOOLEAN
         /\ r.id \notin {"404", "405"}
         /\ ~r.dynamic => r \in c.routes
         /\ PrefixesOf(c)[r.parent] \subseteq Paths
<1>1. StaticRoute \in OwnRoutes
  BY StaticRouteType
<1>2. StaticRoute.hosts = <<>> /\ StaticRoute.to = NoPath /\ StaticRoute.id \notin {"404", "405"} /\ StaticRoute.dynamic
  BY DEF StaticRoute
<1>3. r \in OwnRoutes
  BY <1>1, ProgramTypes DEF AllRoutes
<1>4. r \in c.routes => r.hosts = <<>> /\ r.to = NoPath /\ r.id \notin {"404", "405"}
  BY RoutesAssumption
<1>5. r \in Routes /\ r.parent \in Blueprints /\ r.pattern \in Paths /\ r.methods \subseteq Methods /\ r.dynamic \in BOOLEAN
  BY <1>3 DEF OwnRoutes, Routes
<1> QED
  BY <1>2, <1>3, <1>4, <1>5, PrefixesAre DEF AllRoutes

\* One route under one prefix.
LEMMA OneAddedSound ==
  ASSUME NEW c \in Configurations, "hosts" \notin c.odd, NEW t \in Tables, Sound(c, t),
         strategy \in Strategies,
         NEW r \in AllRoutes(c), NEW p \in PrefixesOf(c)[r.parent], NEW target \in Paths,
         strategy = "redirect" => target = Join(p, r.pattern)
  PROVE  LET u == OneAdded(t, r, p, target)
         IN  Sound(c, u) /\ Grows(t, u) /\ Has(u, r, Join(p, r.pattern))
<1> DEFINE P == Join(p, r.pattern)
           clone == [r EXCEPT !.pattern = P]
           first == Registered(t, clone)
           twin == [clone EXCEPT !.pattern = Twin(@)]
           there == [clone EXCEPT !.pattern = Twin(@), !.to = target, !.methods = {"GET"}]
           u == OneAdded(t, r, p, target)
<1>1. /\ r \in OwnRoutes /\ r \in Routes /\ r.hosts = <<>> /\ r.to = NoPath /\ r.parent \in Blueprints
      /\ r.pattern \in Paths /\ r.methods \subseteq Methods /\ r.dynamic \in BOOLEAN /\ p \in Paths
  BY RouteIs
<1>2. P \in Paths /\ Twin(P) \in Paths
  BY <1>1, JoinIs, TwinProperties
<1> HIDE DEF P
<1>3. /\ clone \in OwnRoutes /\ clone.pattern = P /\ clone.hosts = <<>> /\ clone.to = NoPath
      /\ clone.id = r.id /\ clone.cache = r.cache /\ clone.ok = r.ok /\ clone.dynamic = r.dynamic
      /\ clone.methods = r.methods
  BY <1>1, <1>2 DEF OwnRoutes, Routes
<1>4. IsMade(clone, r, P)
  BY <1>3 DEF IsMade
<1>5. IsOf(c, clone)
  BY <1>4 DEF IsOf, P
<1>6. /\ first \in Tables /\ Sound(c, first) /\ Grows(t, first)
      /\ \A m \in r.methods : /\ r.dynamic => clone \in ToSet(first.dynamic[m])
                              /\ ~r.dynamic => <<m, P>> \in DOMAIN first.routes
  <2> HIDE DEF clone
  <2> QED
    BY <1>3, <1>5, RegisteredSound, RegisteredType
<1>7. u = Slashes(first, clone, target)
  BY DEF OneAdded, P
<1>8. CASE ~Twinned(r)
  <2>1. ~(strategy # "strict" /\ ~clone.dynamic /\ "GET" \in clone.methods)
    BY <1>3, <1>8 DEF Twinned
  <2> HIDE DEF first, clone, u
  <2>2. u = first
    BY <1>7, <2>1, Zenon DEF Slashes
  <2>3. Has(u, r, P)
    BY <1>3, <1>6, <1>8, <2>2 DEF Has
  <2> QED
    BY <1>6, <2>2, <2>3 DEF u, P
<1>9. CASE Twinned(r) /\ strategy = "clone"
  <2>0. ~(strategy = "strict" \/ clone.dynamic \/ "GET" \notin clone.methods) /\ "clone" # "strict"
    BY <1>3, <1>9 DEF Twinned
  <2>1. u = Registered(first, twin)
    <3> HIDE DEF first, clone, u
    <3>1. Slashes(first, clone, target) = Registered(first, [clone EXCEPT !.pattern = Twin(@)])
      BY <1>9, <2>0 DEF Slashes
    <3> QED
      BY <1>7, <3>1
  <2>2. /\ twin \in OwnRoutes /\ twin.pattern = Twin(P) /\ twin.hosts = <<>> /\ twin.to = NoPath
        /\ twin.id = r.id /\ twin.cache = r.cache /\ twin.ok = r.ok /\ twin.dynamic = r.dynamic
        /\ twin.methods = r.methods
    <3> HIDE DEF clone
    <3> QED
      BY <1>1, <1>2, <1>3 DEF OwnRoutes, Routes
  <2> HIDE DEF first, clone, twin, u
  <2>3. IsMade(twin, r, P)
    BY <1>9, <2>2 DEF IsMade
  <2>4. IsOf(c, twin)
    BY <2>3 DEF IsOf, P
  <2>5. /\ Sound(c, u) /\ Grows(first, u)
        /\ \A m \in r.methods : ~r.dynamic => <<m, Twin(P)>> \in DOMAIN u.routes
    BY <1>6, <2>1, <2>2, <2>4, RegisteredSound
  <2>6. Has(u, r, P)
    <3>1. \A m \in r.methods : <<m, P>> \in DOMAIN u.routes
      BY <1>6, <1>9, <2>5 DEF Twinned, Grows
    <3> QED
      BY <1>9, <2>5, <3>1 DEF Has, Twinned
  <2>7. Grows(t, u)
    BY <1>6, <2>5, GrowsOn
  <2> QED
    BY <2>5, <2>6, <2>7 DEF u, P
<1>10. CASE Twinned(r) /\ strategy = "redirect"
  <2>0. ~(strategy = "strict" \/ clone.dynamic \/ "GET" \notin clone.methods) /\ ~(strategy = "clone")
    BY <1>3, <1>10 DEF Twinned
  <2>1. u = Registered(first, there)
    <3> HIDE DEF first, clone, u
    <3>1. Slashes(first, clone, target)
            = Registered(first, [clone EXCEPT !.pattern = Twin(@), !.to = target, !.methods = {"GET"}])
      BY <2>0 DEF Slashes
    <3> QED
      BY <1>7, <3>1
  <2>2. /\ there \in OwnRoutes /\ there.pattern = Twin(P) /\ there.hosts = <<>> /\ there.to = target
        /\ there.id = r.id /\ there.cache = r.cache /\ there.ok = r.ok /\ there.dynamic = r.dynamic
        /\ there.methods = {"GET"}
    <3> HIDE DEF clone
    <3> QED
      BY <1>1, <1>2, <1>3 DEF OwnRoutes, Routes, Methods
  <2>3. target = P
    BY <1>10 DEF P
  <2> HIDE DEF first, clone, there, u
  <2>4. IsMade(there, r, P)
    BY <1>10, <2>2, <2>3 DEF IsMade, Twinned
  <2>5. IsOf(c, there)
    BY <2>4 DEF IsOf, P
  <2>6. /\ Sound(c, u) /\ Grows(first, u)
        /\ ~r.dynamic => <<"GET", Twin(P)>> \in DOMAIN u.routes
    BY <1>6, <2>1, <2>2, <2>5, RegisteredSound
  <2>7. Has(u, r, P)
    <3>1. \A m \in r.methods : <<m, P>> \in DOMAIN u.routes
      BY <1>6, <1>10, <2>6 DEF Twinned, Grows
    <3> QED
      BY <1>10, <2>6, <3>1 DEF Has, Twinned
  <2>8. Grows(t, u)
    BY <1>6, <2>6, GrowsOn
  <2> QED
    BY <2>6, <2>7, <2>8 DEF u, P
<1> QED
  BY <1>8, <1>9, <1>10 DEF Twinned, Strategies

\* What is added of a program: its routes, under their own prefixes.
Rights(c) ==
    {x \in Additions : /\ x[1] \in AllRoutes(c) /\ ToSet(x[2]) \subseteq PrefixesOf(c)[x[1].parent]
                       /\ strategy = "redirect" => Len(x[2]) <= 1}
HasAll(t, x) == \A p \in ToSet(x[2]) : Has(t, x[1], Join(p, x[1].pattern))

LEMMA AddRouteSound ==
  ASSUME NEW c \in Configurations, "hosts" \notin c.odd, NEW t \in Tables, Sound(c, t),
         strategy \in Strategies, NEW x \in Rights(c)
  PROVE  LET u == AddRoute(t, x[1], x[2]) IN Sound(c, u) /\ Grows(t, u) /\ HasAll(u, x)
<1> DEFINE r == x[1]
           ps == x[2]
           n == Len(ps)
           P(j) == Join(ps[j], r.pattern)
           target == Join(Last(ps), r.pattern)
<1>1. /\ r \in AllRoutes(c) /\ r \in OwnRoutes /\ ps \in Seq(Paths) /\ n \in Nat /\ DOMAIN ps = 1..n
      /\ \A j \in 1..n : ps[j] \in PrefixesOf(c)[r.parent] /\ ps[j] \in Paths
      /\ strategy = "redirect" => n <= 1
  BY RouteIs DEF Rights, Additions, ToSet
<1>2. ASSUME NEW k \in 1..n
      PROVE  target \in Paths /\ (strategy = "redirect" => target = P(k))
  <2>1. n \in 1..n /\ Last(ps) = ps[n]
    BY <1>1 DEF Last
  <2>2. Last(ps) \in Paths
    BY <1>1, <2>1
  <2>3. target \in Paths
    BY <1>1, <2>2, RouteIs, JoinIs
  <2>4. strategy = "redirect" => k = n
    BY <1>1
  <2> QED
    BY <2>1, <2>3, <2>4
<1> HIDE DEF r, ps, n, target
<1>3. PICK h \in [0..n -> Tables] :
            /\ h[0] = t /\ h[n] = AddRoute(t, r, ps)
            /\ \A k \in 1..n : h[k] = OneAdded(h[k - 1], r, ps[k], target)
  BY <1>1, AddRouteSteps DEF n, target
<1> DEFINE Good(k) == Sound(c, h[k]) /\ Grows(t, h[k]) /\ \A j \in 1..k : Has(h[k], r, P(j))
           S == {k \in 0..n : Good(k)}
<1>4. 0 \in S
  BY <1>1, <1>3 DEF Grows
<1>5. ASSUME NEW k \in 1..n, k - 1 \in S PROVE k \in S
  <2>1. Good(k - 1) /\ k - 1 \in 0..n /\ k \in 0..n
    BY <1>1, <1>5
  <2>2. h[k - 1] \in Tables
    BY <2>1
  <2>3. Sound(c, h[k]) /\ Grows(h[k - 1], h[k]) /\ Has(h[k], r, P(k))
    <3> HIDE DEF P
    <3>1. ps[k] \in PrefixesOf(c)[r.parent] /\ r \in AllRoutes(c)
      BY <1>1
    <3>2. strategy = "redirect" => target = Join(ps[k], r.pattern)
      BY <1>2 DEF P
    <3>3. h[k] = OneAdded(h[k - 1], r, ps[k], target)
      BY <1>3
    <3>4. Sound(c, h[k - 1]) /\ target \in Paths
      BY <1>2, <2>1
    <3> QED
      BY <2>2, <3>1, <3>2, <3>3, <3>4, OneAddedSound DEF P
  <2>4. Grows(t, h[k])
    BY <2>1, <2>3, GrowsOn
  <2>5. ASSUME NEW j \in 1..k PROVE Has(h[k], r, P(j))
    <3> HIDE DEF P
    <3>1. CASE j = k
      BY <2>3, <3>1
    <3>2. CASE j # k
      <4>1. j \in 1..k - 1
        BY <1>1, <3>2
      <4> QED
        BY <1>1, <2>1, <2>3, <4>1, HasStill
    <3> QED
      BY <3>1, <3>2
  <2> QED
    BY <2>1, <2>3, <2>4, <2>5
<1>6. 0..n \subseteq S
  <2> HIDE DEF S
  <2> QED
    BY <1>1, <1>4, <1>5, InductionUpTo
<1>7. Good(n)
  BY <1>1, <1>6
<1>8. \A p \in ToSet(ps) : Has(h[n], r, Join(p, r.pattern))
  <2> SUFFICES ASSUME NEW p \in ToSet(ps) PROVE Has(h[n], r, Join(p, r.pattern))
    OBVIOUS
  <2>1. PICK j \in 1..n : p = ps[j]
    BY <1>1 DEF ToSet
  <2> QED
    BY <1>7, <2>1
<1> QED
  BY <1>3, <1>7, <1>8 DEF HasAll, r, ps, n

LEMMA AllAddedSound ==
  ASSUME NEW c \in Configurations, "hosts" \notin c.odd, NEW t \in Tables, Sound(c, t),
         strategy \in Strategies, NEW s \in Seq(Rights(c))
  PROVE  LET u == AllAdded(t, s) IN Sound(c, u) /\ Grows(t, u) /\ \A x \in ToSet(s) : HasAll(u, x)
<1> DEFINE n == Len(s)
<1>1. /\ s \in Seq(Additions) /\ n \in Nat /\ DOMAIN s = 1..n
      /\ \A k \in 1..n : s[k] \in Rights(c) /\ s[k][1] \in OwnRoutes
  <2>1. Rights(c) \subseteq Additions /\ \A x \in Rights(c) : x[1] \in OwnRoutes
    BY RouteIs DEF Rights
  <2> QED
    BY <2>1, SeqMonotonic
<1> HIDE DEF n
<1>2. PICK h \in [0..n -> Tables] :
            /\ h[0] = t /\ h[n] = AllAdded(t, s)
            /\ \A k \in 1..n : h[k] = AddRoute(h[k - 1], s[k][1], s[k][2])
  BY <1>1, AllAddedSteps DEF n
<1> DEFINE Good(k) == Sound(c, h[k]) /\ Grows(t, h[k]) /\ \A j \in 1..k : HasAll(h[k], s[j])
           S == {k \in 0..n : Good(k)}
<1>3. 0 \in S
  BY <1>1, <1>2 DEF Grows
<1>4. ASSUME NEW k \in 1..n, k - 1 \in S PROVE k \in S
  <2>1. Good(k - 1) /\ k - 1 \in 0..n /\ k \in 0..n
    BY <1>1, <1>4
  <2>2. h[k - 1] \in Tables /\ Sound(c, h[k - 1]) /\ s[k] \in Rights(c)
    BY <1>1, <2>1
  <2>3. Sound(c, h[k]) /\ Grows(h[k - 1], h[k]) /\ HasAll(h[k], s[k])
    BY <1>2, <2>2, AddRouteSound
  <2>4. Grows(t, h[k])
    BY <2>1, <2>3, GrowsOn
  <2>5. ASSUME NEW j \in 1..k PROVE HasAll(h[k], s[j])
    <3>1. CASE j = k
      BY <2>3, <3>1
    <3>2. CASE j # k
      <4>1. j \in 1..k - 1 /\ j \in 1..n
        BY <1>1, <3>2
      <4> QED
        BY <1>1, <2>1, <2>3, <4>1, HasStill DEF HasAll
    <3> QED
      BY <3>1, <3>2
  <2> QED
    BY <2>1, <2>3, <2>4, <2>5
<1>5. 0..n \subseteq S
  <2> HIDE DEF S
  <2> QED
    BY <1>1, <1>3, <1>4, InductionUpTo
<1>6. Good(n)
  BY <1>1, <1>5
<1> QED
  BY <1>1, <1>2, <1>6 DEF ToSet

-----------------------------------------------------------------------------
(* What RoutesOf gathers: what is declared, under its own prefixes.        *)

\* By induction from what has nothing mounted on it.
LEMMA MountedInduction ==
  ASSUME DeclaredType, IsTree, NEW S,
         \A b \in Blueprints : (\A i \in DOMAIN mounted[b] : mounted[b][i].bp \in S) => b \in S
  PROVE  Blueprints \subseteq S
<1> DEFINE N == Cardinality(Blueprints)
<1>1. N \in Nat
  BY ApplicationAssumption, FS_CardinalityType
<1>2. PICK depth \in [Blueprints -> 0..N] : Deeper(depth)
  BY DEF IsTree
<1> DEFINE All == {k \in 0..N + 1 : \A b \in Blueprints : depth[b] > N - k => b \in S}
<1> HIDE DEF N
<1>3. 0 \in All
  BY <1>1, <1>2
<1>4. ASSUME NEW k \in 1..N + 1, k - 1 \in All PROVE k \in All
  <2> SUFFICES ASSUME NEW b \in Blueprints, depth[b] > N - k PROVE b \in S
    BY <1>1
  <2>1. ASSUME NEW i \in DOMAIN mounted[b] PROVE mounted[b][i].bp \in S
    <3>1. PICK c : c = mounted[b][i].bp
      OBVIOUS
    <3>2. c \in Blueprints
      <4>1. mounted[b] \in Seq(Nestings)
        BY DEF DeclaredType
      <4>2. mounted[b][i] \in Nestings
        BY <4>1
      <4> QED
        BY <3>1, <4>2 DEF Nestings
    <3>3. depth[c] > depth[b]
      BY <1>2, <3>1 DEF Deeper
    <3>4. depth[c] \in Nat /\ depth[b] \in Nat
      BY <1>2, <3>2
    <3>5. depth[c] > N - (k - 1)
      BY <1>1, <3>3, <3>4
    <3> QED
      BY <1>4, <3>1, <3>2, <3>5
  <2> QED
    BY <2>1
<1>5. 0..N + 1 \subseteq All
  <2>1. N + 1 \in Nat
    BY <1>1
  <2> HIDE DEF All
  <2> QED
    BY <1>3, <1>4, <2>1, InductionUpTo
<1>6. N + 1 \in All /\ \A b \in Blueprints : depth[b] > N - (N + 1)
  BY <1>1, <1>2, <1>5
<1> QED
  BY <1>6

\* What a blueprint mounted here adds for one prefix.
AddedUnder(f, b, i, j, p) == f[mounted[b][i].bp][<<Join(p, mounted[b][i].prefixes[j])>>]

LEMMA NestedByIn ==
  ASSUME DeclaredType, NEW A, NEW f, NEW b \in Blueprints, NEW p,
         \A i \in DOMAIN mounted[b] : \A j \in DOMAIN mounted[b][i].prefixes : AddedUnder(f, b, i, j, p) \in Seq(A)
  PROVE  /\ NestedBy(f, b, p) \in Seq(A)
         /\ \A i \in DOMAIN mounted[b] : \A j \in DOMAIN mounted[b][i].prefixes :
               ToSet(AddedUnder(f, b, i, j, p)) \subseteq ToSet(NestedBy(f, b, p))
<1> DEFINE inner(i) == [j \in DOMAIN mounted[b][i].prefixes |-> AddedUnder(f, b, i, j, p)]
           outer == [i \in DOMAIN mounted[b] |-> FlattenSeq(inner(i))]
<1>1. ASSUME NEW i \in DOMAIN mounted[b]
      PROVE  /\ FlattenSeq(inner(i)) \in Seq(A)
             /\ \A j \in DOMAIN mounted[b][i].prefixes :
                   ToSet(AddedUnder(f, b, i, j, p)) \subseteq ToSet(FlattenSeq(inner(i)))
  <2>1. PICK q : q = mounted[b][i].prefixes
    OBVIOUS
  <2>2. q \in Seq(Paths)
    <3>1. mounted[b] \in Seq(Nestings)
      BY DEF DeclaredType
    <3>2. mounted[b][i] \in Nestings
      BY <3>1
    <3> QED
      BY <2>1, <3>2 DEF Nestings
  <2>3. DOMAIN q = 1..Len(q) /\ Len(q) \in Nat
    BY <2>2
  <2>4. PICK s : s = inner(i)
    OBVIOUS
  <2>5. s = [j \in 1..Len(q) |-> AddedUnder(f, b, i, j, p)]
    BY <2>1, <2>3, <2>4
  <2>6. s \in Seq(Seq(A)) /\ Len(s) = Len(q)
    BY <2>1, <2>3, <2>5
  <2>7. FlattenSeq(s) \in Seq(A) /\ ToSet(FlattenSeq(s)) = UNION {ToSet(s[j]) : j \in 1..Len(s)}
    BY <2>6, FlattenElements
  <2>8. \A j \in 1..Len(q) : ToSet(s[j]) \subseteq ToSet(FlattenSeq(s)) /\ s[j] = AddedUnder(f, b, i, j, p)
    BY <2>5, <2>6, <2>7
  <2> HIDE DEF inner
  <2> QED
    BY <2>1, <2>3, <2>4, <2>7, <2>8
<1>2. DOMAIN mounted[b] = 1..Len(mounted[b]) /\ Len(mounted[b]) \in Nat
  BY DEF DeclaredType
<1>3. NestedBy(f, b, p) = FlattenSeq(outer)
  BY Zenon DEF NestedBy, AddedUnder
<1> HIDE DEF inner
<1>4. outer \in Seq(Seq(A)) /\ Len(outer) = Len(mounted[b])
  <2>1. outer = [i \in 1..Len(mounted[b]) |-> FlattenSeq(inner(i))]
    BY <1>2
  <2> QED
    BY <1>1, <1>2, <2>1
<1>5. \A i \in 1..Len(mounted[b]) : outer[i] = FlattenSeq(inner(i))
  BY <1>2
<1> HIDE DEF outer
<1>6. FlattenSeq(outer) \in Seq(A) /\ ToSet(FlattenSeq(outer)) = UNION {ToSet(outer[i]) : i \in 1..Len(outer)}
  BY <1>4, FlattenElements
<1>7. \A i \in DOMAIN mounted[b] : ToSet(FlattenSeq(inner(i))) \subseteq ToSet(FlattenSeq(outer))
  BY <1>2, <1>4, <1>5, <1>6
<1> QED
  BY <1>1, <1>3, <1>6, <1>7

LEMMA OneTurnIn ==
  ASSUME DeclaredType, NEW A, NEW f, NEW b \in Blueprints, NEW ps \in Seq(Paths),
         \A k \in DOMAIN ps : \A i \in DOMAIN mounted[b] : \A j \in DOMAIN mounted[b][i].prefixes :
            AddedUnder(f, b, i, j, ps[k]) \in Seq(A),
         \A j \in DOMAIN declared[b] : <<declared[b][j], ps>> \in A
  PROVE  /\ OneTurn(f, b, ps) \in Seq(A)
         /\ \A j \in DOMAIN declared[b] : <<declared[b][j], ps>> \in ToSet(OneTurn(f, b, ps))
         /\ \A k \in DOMAIN ps : \A i \in DOMAIN mounted[b] : \A j \in DOMAIN mounted[b][i].prefixes :
               ToSet(AddedUnder(f, b, i, j, ps[k])) \subseteq ToSet(OneTurn(f, b, ps))
<1> DEFINE nested == [k \in DOMAIN ps |-> NestedBy(f, b, ps[k])]
           own == [j \in DOMAIN declared[b] |-> <<declared[b][j], ps>>]
<1>1. DOMAIN ps = 1..Len(ps) /\ Len(ps) \in Nat /\ DOMAIN declared[b] = 1..Len(declared[b]) /\ Len(declared[b]) \in Nat
  BY DEF DeclaredType
<1>2. ASSUME NEW k \in DOMAIN ps
      PROVE  /\ NestedBy(f, b, ps[k]) \in Seq(A)
             /\ \A i \in DOMAIN mounted[b] : \A j \in DOMAIN mounted[b][i].prefixes :
                   ToSet(AddedUnder(f, b, i, j, ps[k])) \subseteq ToSet(NestedBy(f, b, ps[k]))
  BY NestedByIn
<1>3. OneTurn(f, b, ps) = FlattenSeq(nested) \o own
  BY Zenon DEF OneTurn
<1>4. nested \in Seq(Seq(A)) /\ Len(nested) = Len(ps) /\ \A k \in 1..Len(ps) : nested[k] = NestedBy(f, b, ps[k])
  <2>1. nested = [k \in 1..Len(ps) |-> NestedBy(f, b, ps[k])]
    BY <1>1
  <2> QED
    BY <1>1, <1>2, <2>1
<1>5. own \in Seq(A) /\ \A j \in DOMAIN declared[b] : <<declared[b][j], ps>> \in ToSet(own)
  <2>1. own = [j \in 1..Len(declared[b]) |-> <<declared[b][j], ps>>]
    BY <1>1
  <2>2. own \in Seq(A)
    BY <1>1, <2>1
  <2>3. DOMAIN own = DOMAIN declared[b] /\ \A j \in DOMAIN own : own[j] = <<declared[b][j], ps>>
    OBVIOUS
  <2> HIDE DEF own
  <2> QED
    BY <2>2, <2>3 DEF ToSet
<1> HIDE DEF nested, own
<1>6. FlattenSeq(nested) \in Seq(A) /\ ToSet(FlattenSeq(nested)) = UNION {ToSet(nested[k]) : k \in 1..Len(nested)}
  BY <1>4, FlattenElements
<1>7. /\ FlattenSeq(nested) \o own \in Seq(A)
      /\ ToSet(FlattenSeq(nested) \o own) = ToSet(FlattenSeq(nested)) \cup ToSet(own)
  BY <1>5, <1>6, ConcatElements, ConcatProperties
<1>8. ASSUME NEW k \in DOMAIN ps, NEW i \in DOMAIN mounted[b], NEW j \in DOMAIN mounted[b][i].prefixes
      PROVE  ToSet(AddedUnder(f, b, i, j, ps[k])) \subseteq ToSet(OneTurn(f, b, ps))
  <2>1. ToSet(AddedUnder(f, b, i, j, ps[k])) \subseteq ToSet(nested[k])
    BY <1>1, <1>2, <1>4
  <2> QED
    BY <1>1, <1>3, <1>4, <1>6, <1>7, <2>1
<1> QED
  BY <1>3, <1>5, <1>7, <1>8

-----------------------------------------------------------------------------
(* What is declared and mounted, and when.                                 *)

RoutesDeclared(b) == {r \in config.routes : r.parent = b /\ r.id \notin todo}
MountsDone(b) == {m \in config.mounts : m.parent = b /\ m.id \notin todo}
RoutesInv ==
    /\ strategy = config.strategy
    /\ \A b \in Blueprints : ToSet(declared[b]) = RoutesDeclared(b)
    /\ \A b \in Blueprints :
          ToSet(mounted[b]) = {[bp |-> m.bp, prefixes |-> m.prefixes] : m \in MountsDone(b)}
    /\ initialized => \A x \in config.routes \cup config.mounts : x.id \notin todo

LEMMA RoutesInit == Init => RoutesInv
<1> SUFFICES ASSUME Init PROVE RoutesInv
  OBVIOUS
<1>1. /\ strategy = config.strategy /\ todo = Ids /\ initialized = FALSE
      /\ \A b \in Blueprints : declared[b] = <<>> /\ mounted[b] = <<>>
  BY DEF Init
<1>2. ToSet(<<>>) = {}
  BY DEF ToSet
<1>3. \A b \in Blueprints : RoutesDeclared(b) = {} /\ MountsDone(b) = {}
  BY <1>1 DEF RoutesDeclared, MountsDone, Ids
<1> QED
  BY <1>1, <1>2, <1>3 DEF RoutesInv

\* A declaration does away with its own id only.
LEMMA DeclaresRoutes ==
  ASSUME config \in Configurations, NEW x, Declares(x),
         x \in config.routes \cup config.mounts \cup config.hooks \cup config.handlers \cup config.components
  PROVE  /\ config' = config /\ initialized' = initialized /\ strategy' = strategy
         /\ \A y \in config.routes : y.id \in todo' <=> y.id \in todo /\ y # x
         /\ \A y \in config.mounts : y.id \in todo' <=> y.id \in todo /\ y # x
<1>1. \A y \in config.routes \cup config.mounts \cup config.hooks \cup config.handlers \cup config.components :
         x.id = y.id => x = y
  BY ProgramsAssumption
<1> QED
  BY <1>1 DEF Declares

LEMMA RoutesApart ==
  ASSUME config \in Configurations
  PROVE  config.routes \cap (config.mounts \cup config.hooks \cup config.handlers \cup config.components) = {}
<1>1. ASSUME NEW x \in Routes PROVE x \notin Components
  BY <1>1 DEF Routes, Components
<1>2. config.routes \subseteq Routes /\ config.components \subseteq Components
  BY ProgramTypes DEF OwnRoutes
<1> QED
  BY <1>1, <1>2, Apart, NotHandlers

LEMMA RoutesStep ==
  ASSUME BaseInv, TreeInv, StartInv, RoutesInv, [Next]_vars
  PROVE  RoutesInv'
<1>0. /\ config \in Configurations /\ initialized \in BOOLEAN
      /\ declared \in [Blueprints -> Seq(OwnRoutes)] /\ mounted \in [Blueprints -> Seq(Nestings)]
  BY DEF BaseInv, StartInv, TreeInv, DeclaredType
<1>1. ASSUME NEW r \in config.routes, DeclareRoute(r) PROVE RoutesInv'
  <2>1. /\ Declares(r) /\ mounted' = mounted /\ ~initialized
        /\ declared' = [declared EXCEPT ![r.parent] = Append(declared[r.parent], r)]
    BY <1>1 DEF DeclareRoute
  <2>2. /\ config' = config /\ initialized' = initialized /\ strategy' = strategy
        /\ \A y \in config.routes : y.id \in todo' <=> y.id \in todo /\ y # r
        /\ \A y \in config.mounts : y.id \in todo' <=> y.id \in todo /\ y # r
        /\ r \notin config.mounts
    BY <1>0, <2>1, DeclaresRoutes, RoutesApart
  <2>3. r \in OwnRoutes /\ r.parent \in Blueprints
    BY <1>0, ProgramTypes DEF OwnRoutes
  <2>4. ASSUME NEW b \in Blueprints PROVE ToSet(declared'[b]) = RoutesDeclared(b)'
    <3>1. RoutesDeclared(b)' = RoutesDeclared(b) \cup {y \in {r} : r.parent = b}
      BY <2>2 DEF RoutesDeclared
    <3>2. CASE b = r.parent
      <4>1. declared'[b] = Append(declared[b], r) /\ declared[b] \in Seq(OwnRoutes)
        BY <1>0, <2>1, <3>2
      <4>2. ToSet(declared'[b]) = ToSet(declared[b]) \cup {r}
        BY <2>3, <4>1, AppendElements
      <4> QED
        BY <3>1, <3>2, <4>2 DEF RoutesInv
    <3>3. CASE b # r.parent
      <4>1. declared'[b] = declared[b]
        BY <1>0, <2>1, <3>3
      <4> QED
        BY <3>1, <3>3, <4>1 DEF RoutesInv
    <3> QED
      BY <3>2, <3>3
  <2>5. ASSUME NEW b \in Blueprints PROVE MountsDone(b)' = MountsDone(b)
    BY <2>2 DEF MountsDone
  <2> QED
    BY <2>1, <2>2, <2>4, <2>5 DEF RoutesInv
<1>2. ASSUME NEW m \in config.mounts, Nest(m) \/ Mount(m) PROVE RoutesInv'
  <2> DEFINE new == [bp |-> m.bp, prefixes |-> m.prefixes]
  <2>1. /\ Declares(m) /\ declared' = declared /\ ~initialized
        /\ mounted' = [mounted EXCEPT ![m.parent] = Append(mounted[m.parent], new)]
    BY <1>2 DEF Nest, Mount, Mounts
  <2>2. /\ config' = config /\ initialized' = initialized /\ strategy' = strategy
        /\ \A y \in config.routes : y.id \in todo' <=> y.id \in todo /\ y # m
        /\ \A y \in config.mounts : y.id \in todo' <=> y.id \in todo /\ y # m
        /\ m \notin config.routes
    BY <1>0, <2>1, DeclaresRoutes, RoutesApart
  <2>3. new \in Nestings /\ m.parent \in Blueprints
    BY <1>0, MountTypes DEF Nestings
  <2>4. ASSUME NEW b \in Blueprints
        PROVE  ToSet(mounted'[b]) = {[bp |-> n.bp, prefixes |-> n.prefixes] : n \in MountsDone(b)'}
    <3>1. MountsDone(b)' = MountsDone(b) \cup {y \in {m} : m.parent = b}
      BY <2>2 DEF MountsDone
    <3>2. CASE b = m.parent
      <4>1. mounted'[b] = Append(mounted[b], new) /\ mounted[b] \in Seq(Nestings)
        BY <1>0, <2>1, <3>2
      <4>2. ToSet(mounted'[b]) = ToSet(mounted[b]) \cup {new}
        <5> HIDE DEF new
        <5> QED
          BY <2>3, <4>1, AppendElements
      <4>3. MountsDone(b)' = MountsDone(b) \cup {m}
        BY <3>1, <3>2
      <4> QED
        BY <4>2, <4>3 DEF RoutesInv
    <3>3. CASE b # m.parent
      <4>1. mounted'[b] = mounted[b]
        BY <1>0, <2>1, <3>3
      <4>2. MountsDone(b)' = MountsDone(b)
        BY <3>1, <3>3
      <4> QED
        BY <4>1, <4>2 DEF RoutesInv
    <3> QED
      BY <3>2, <3>3
  <2>5. ASSUME NEW b \in Blueprints PROVE RoutesDeclared(b)' = RoutesDeclared(b)
    BY <2>2 DEF RoutesDeclared
  <2> QED
    BY <2>1, <2>2, <2>4, <2>5 DEF RoutesInv
<1>3. ASSUME NEW x \in config.hooks \cup config.handlers \cup config.components, Declares(x),
             UNCHANGED <<declared, mounted>>
      PROVE  RoutesInv'
  <2>1. x \notin config.routes /\ x \notin config.mounts
    BY <1>0, RoutesApart, Apart
  <2>2. /\ config' = config /\ initialized' = initialized /\ strategy' = strategy
        /\ \A y \in config.routes : y.id \in todo' <=> y.id \in todo
        /\ \A y \in config.mounts : y.id \in todo' <=> y.id \in todo
    BY <1>0, <1>3, <2>1, DeclaresRoutes
  <2>3. \A b \in Blueprints : MountsDone(b)' = MountsDone(b) /\ RoutesDeclared(b)' = RoutesDeclared(b)
    BY <2>2 DEF MountsDone, RoutesDeclared
  <2> QED
    BY <1>3, <2>2, <2>3 DEF RoutesInv
<1>4. ASSUME NEW h \in config.hooks, AddHook(h) PROVE RoutesInv'
  BY <1>3, <1>4 DEF AddHook, blueprints
<1>5. ASSUME NEW x \in config.handlers, Handle(x) PROVE RoutesInv'
  BY <1>3, <1>5 DEF Handle, blueprints
<1>6. ASSUME NEW c \in config.components, AddComponent(c) PROVE RoutesInv'
  BY <1>3, <1>6 DEF AddComponent, blueprints
<1>7. CASE Initialize
  BY <1>7 DEF Initialize, RoutesInv, RoutesDeclared, MountsDone, blueprints
<1>8. CASE UNCHANGED <<strategy, config, todo, declared, mounted, initialized>>
  BY <1>8 DEF RoutesInv, RoutesDeclared, MountsDone
<1>9. Connect \/ (\E ask \in config.asks, raises \in config.raises \cup {None} : Serve(ask, raises))
        \/ UNCHANGED vars
      => UNCHANGED <<strategy, config, todo, declared, mounted, initialized>>
  BY DEF Connect, Serve, vars, blueprints, router
<1> QED
  BY <1>1, <1>2, <1>4, <1>5, <1>6, <1>7, <1>8, <1>9 DEF Next

-----------------------------------------------------------------------------
(* So RoutesOf gathers what a program promises.                            *)

LEMMA MountedIs ==
  ASSUME config \in Configurations, TreeInv, RoutesInv, NEW b \in Blueprints,
         NEW i \in DOMAIN mounted[b], NEW j \in DOMAIN mounted[b][i].prefixes,
         NEW p \in PrefixesOf(config)[b]
  PROVE  /\ mounted[b][i].bp \in Blueprints
         /\ <<Join(p, mounted[b][i].prefixes[j])>> \in Seq(Paths)
         /\ ToSet(<<Join(p, mounted[b][i].prefixes[j])>>) \subseteq PrefixesOf(config)[mounted[b][i].bp]
<1>1. mounted[b][i] \in ToSet(mounted[b])
  BY DEF ToSet
<1>2. PICK m \in MountsDone(b) : mounted[b][i] = [bp |-> m.bp, prefixes |-> m.prefixes]
  BY <1>1 DEF RoutesInv
<1>3. m \in config.mounts /\ m.parent = b /\ mounted[b][i].bp = m.bp /\ mounted[b][i].prefixes = m.prefixes
  BY <1>2 DEF MountsDone
<1>4. m.bp \in Blueprints /\ m.bp # App /\ ToSet(m.prefixes) \subseteq Paths
  BY <1>3, MountTypes
<1>5. PICK q : q = mounted[b][i].prefixes[j]
  OBVIOUS
<1>6. q \in ToSet(m.prefixes) /\ q \in Paths
  BY <1>3, <1>4, <1>5 DEF ToSet
<1>7. p \in Paths /\ Join(p, q) \in Paths
  BY <1>6, PrefixesAre, JoinType
<1>8. Join(p, q) \in PrefixTurn(config, PrefixesOf(config), m.bp)
  BY <1>3, <1>4, <1>6 DEF PrefixTurn
<1>9. Join(p, q) \in PrefixesOf(config)[m.bp]
  BY <1>4, <1>8, PrefixesAre
<1> QED
  BY <1>3, <1>4, <1>5, <1>7, <1>9 DEF ToSet

\* The prefixes under which the routes of b may be added.
MayAdd(b, ps) ==
    /\ ps \in Seq(Paths) /\ ToSet(ps) \subseteq PrefixesOf(config)[b]
    /\ strategy = "redirect" => Len(ps) <= 1

LEMMA TurnIsRight ==
  ASSUME config \in Configurations, TreeInv, RoutesInv, NEW f, NEW b \in Blueprints, NEW ps, MayAdd(b, ps),
         \A i \in DOMAIN mounted[b] : \A qs : MayAdd(mounted[b][i].bp, qs) =>
            f[mounted[b][i].bp][qs] \in Seq(Rights(config))
  PROVE  /\ OneTurn(f, b, ps) \in Seq(Rights(config))
         /\ \A j \in DOMAIN declared[b] : <<declared[b][j], ps>> \in ToSet(OneTurn(f, b, ps))
         /\ \A k \in DOMAIN ps : \A i \in DOMAIN mounted[b] : \A j \in DOMAIN mounted[b][i].prefixes :
               ToSet(AddedUnder(f, b, i, j, ps[k])) \subseteq ToSet(OneTurn(f, b, ps))
<1>1. ASSUME NEW k \in DOMAIN ps, NEW i \in DOMAIN mounted[b], NEW j \in DOMAIN mounted[b][i].prefixes
      PROVE  AddedUnder(f, b, i, j, ps[k]) \in Seq(Rights(config))
  <2>1. ps[k] \in PrefixesOf(config)[b]
    BY DEF MayAdd, ToSet
  <2>2. PICK x : x = Join(ps[k], mounted[b][i].prefixes[j])
    OBVIOUS
  <2>3. <<x>> \in Seq(Paths) /\ ToSet(<<x>>) \subseteq PrefixesOf(config)[mounted[b][i].bp]
    BY <2>1, <2>2, MountedIs
  <2>4. MayAdd(mounted[b][i].bp, <<x>>)
    <3>1. Len(<<x>>) = 1
      OBVIOUS
    <3> QED
      BY <2>3, <3>1 DEF MayAdd
  <2> QED
    BY <2>2, <2>4 DEF AddedUnder
<1>2. ASSUME NEW j \in DOMAIN declared[b] PROVE <<declared[b][j], ps>> \in Rights(config)
  <2>1. PICK r : r = declared[b][j]
    OBVIOUS
  <2>2. r \in RoutesDeclared(b)
    BY <2>1 DEF RoutesInv, ToSet
  <2>3. r \in config.routes /\ r.parent = b /\ r \in OwnRoutes
    BY <2>2, ProgramTypes DEF RoutesDeclared
  <2>4. PICK x : x = <<r, ps>>
    OBVIOUS
  <2>5. x[1] = r /\ x[2] = ps /\ x \in Additions
    BY <2>3, <2>4 DEF Additions, MayAdd
  <2>6. x \in Rights(config)
    BY <2>3, <2>5 DEF Rights, MayAdd, AllRoutes
  <2> QED
    BY <2>1, <2>4, <2>6
<1>3. ps \in Seq(Paths) /\ DeclaredType
  BY DEF MayAdd, TreeInv
<1> HIDE DEF Rights, AddedUnder
<1>4. PICK A : A = Rights(config)
  OBVIOUS
<1>5. \A k \in DOMAIN ps : \A i \in DOMAIN mounted[b] : \A j \in DOMAIN mounted[b][i].prefixes :
         AddedUnder(f, b, i, j, ps[k]) \in Seq(A)
  BY <1>1, <1>4
<1>6. \A j \in DOMAIN declared[b] : <<declared[b][j], ps>> \in A
  BY <1>2, <1>4
<1>7. /\ OneTurn(f, b, ps) \in Seq(A)
      /\ \A j \in DOMAIN declared[b] : <<declared[b][j], ps>> \in ToSet(OneTurn(f, b, ps))
      /\ \A k \in DOMAIN ps : \A i \in DOMAIN mounted[b] : \A j \in DOMAIN mounted[b][i].prefixes :
            ToSet(AddedUnder(f, b, i, j, ps[k])) \subseteq ToSet(OneTurn(f, b, ps))
  BY <1>3, <1>5, <1>6, OneTurnIn
<1> QED
  BY <1>4, <1>7

\* Only routes as they are declared, under prefixes of their blueprint.
LEMMA RoutesOfRight ==
  ASSUME config \in Configurations, TreeInv, RoutesInv, NEW f,
         \A b \in Blueprints, ps \in Seq(Paths) : f[b][ps] = OneTurn(f, b, ps)
  PROVE  \A b \in Blueprints : \A ps : MayAdd(b, ps) => f[b][ps] \in Seq(Rights(config))
<1> DEFINE S == {b \in Blueprints : \A ps : MayAdd(b, ps) => f[b][ps] \in Seq(Rights(config))}
<1>1. ASSUME NEW b \in Blueprints, \A i \in DOMAIN mounted[b] : mounted[b][i].bp \in S PROVE b \in S
  <2> SUFFICES ASSUME NEW ps, MayAdd(b, ps) PROVE f[b][ps] \in Seq(Rights(config))
    OBVIOUS
  <2>1. OneTurn(f, b, ps) \in Seq(Rights(config))
    BY <1>1, TurnIsRight
  <2> QED
    BY <2>1 DEF MayAdd
<1>2. DeclaredType /\ IsTree
  BY TreeInvIsTree DEF TreeInv
<1>3. Blueprints \subseteq S
  <2> HIDE DEF S
  <2> QED
    BY <1>1, <1>2, MountedInduction
<1> QED
  BY <1>3

\* When everything is declared, every route under every prefix of its own.
LEMMA RoutesOfAll ==
  ASSUME config \in Configurations, TreeInv, RoutesInv, NEW f,
         \A b \in Blueprints, ps \in Seq(Paths) : f[b][ps] = OneTurn(f, b, ps),
         \A x \in config.routes \cup config.mounts : x.id \notin todo
  PROVE  \A r \in config.routes : \A p \in PrefixesOf(config)[r.parent] :
            <<r, <<p>>>> \in ToSet(f[App][<<NoPath>>])
<1> DEFINE all == ToSet(f[App][<<NoPath>>])
           S == {b \in Blueprints : \A p \in PrefixesOf(config)[b] : ToSet(f[b][<<p>>]) \subseteq all}
<1>1. \A b \in Blueprints : \A ps : MayAdd(b, ps) => f[b][ps] \in Seq(Rights(config))
  BY RoutesOfRight
<1>2. ASSUME NEW b \in Blueprints, NEW p \in PrefixesOf(config)[b]
      PROVE  /\ MayAdd(b, <<p>>) /\ f[b][<<p>>] = OneTurn(f, b, <<p>>)
             /\ \A j \in DOMAIN declared[b] : <<declared[b][j], <<p>>>> \in ToSet(f[b][<<p>>])
             /\ \A i \in DOMAIN mounted[b] : \A j \in DOMAIN mounted[b][i].prefixes :
                   ToSet(AddedUnder(f, b, i, j, p)) \subseteq ToSet(f[b][<<p>>])
  <2>1. p \in Paths
    BY PrefixesAre
  <2>2. PICK ps : ps = <<p>>
    OBVIOUS
  <2>3. ps \in Seq(Paths) /\ Len(ps) = 1 /\ DOMAIN ps = {1} /\ ps[1] = p /\ ToSet(ps) = {p}
    BY <2>1, <2>2 DEF ToSet
  <2>4. MayAdd(b, ps)
    BY <2>3 DEF MayAdd
  <2>5. \A i \in DOMAIN mounted[b] : mounted[b][i].bp \in Blueprints
    <3>1. mounted[b] \in Seq(Nestings)
      BY DEF TreeInv, DeclaredType
    <3>2. \A i \in DOMAIN mounted[b] : mounted[b][i] \in Nestings
      BY <3>1
    <3> QED
      BY <3>2 DEF Nestings
  <2>6. \A i \in DOMAIN mounted[b] : \A qs : MayAdd(mounted[b][i].bp, qs) =>
           f[mounted[b][i].bp][qs] \in Seq(Rights(config))
    BY <1>1, <2>5
  <2>7. /\ \A j \in DOMAIN declared[b] : <<declared[b][j], ps>> \in ToSet(OneTurn(f, b, ps))
        /\ \A k \in DOMAIN ps : \A i \in DOMAIN mounted[b] : \A j \in DOMAIN mounted[b][i].prefixes :
              ToSet(AddedUnder(f, b, i, j, ps[k])) \subseteq ToSet(OneTurn(f, b, ps))
    BY <2>4, <2>6, TurnIsRight
  <2>8. f[b][ps] = OneTurn(f, b, ps)
    BY <2>3
  <2>9. \A i \in DOMAIN mounted[b] : \A j \in DOMAIN mounted[b][i].prefixes :
           ToSet(AddedUnder(f, b, i, j, p)) \subseteq ToSet(OneTurn(f, b, ps))
    BY <2>3, <2>7
  <2> QED
    BY <2>2, <2>4, <2>7, <2>8, <2>9
<1> HIDE DEF all
<1>3. ASSUME NEW b \in Blueprints, \A m \in config.mounts : m.bp = b => m.parent \in S PROVE b \in S
  <2> SUFFICES ASSUME NEW p \in PrefixesOf(config)[b] PROVE ToSet(f[b][<<p>>]) \subseteq all
    OBVIOUS
  <2>1. p \in PrefixTurn(config, PrefixesOf(config), b)
    BY PrefixesAre
  <2>2. CASE b = App
    <3>1. p = NoPath
      BY <2>1, <2>2 DEF PrefixTurn
    <3> QED
      BY <2>2, <3>1 DEF all
  <2>3. CASE b # App
    <3>1. PICK m \in config.mounts : m.bp = b /\ \E q \in ToSet(m.prefixes) :
             \E x \in PrefixesOf(config)[m.parent] : p = Join(x, q)
      BY <2>1, <2>3 DEF PrefixTurn
    <3>2. PICK q \in ToSet(m.prefixes), x \in PrefixesOf(config)[m.parent] : p = Join(x, q)
      BY <3>1
    <3>3. m.parent \in S /\ m.parent \in Blueprints
      BY <1>3, <3>1, MountTypes
    <3>4. PICK n : n = [bp |-> b, prefixes |-> m.prefixes]
      OBVIOUS
    <3>5. n \in ToSet(mounted[m.parent])
      <4>1. m \in MountsDone(m.parent)
        BY DEF MountsDone
      <4> QED
        BY <3>1, <3>3, <3>4, <4>1 DEF RoutesInv
    <3>6. PICK i \in DOMAIN mounted[m.parent] : mounted[m.parent][i] = n
      BY <3>5 DEF ToSet
    <3>7. mounted[m.parent][i].bp = b /\ mounted[m.parent][i].prefixes = m.prefixes
      BY <3>4, <3>6
    <3>8. PICK j \in DOMAIN m.prefixes : m.prefixes[j] = q
      BY <3>2 DEF ToSet
    <3>9. ToSet(AddedUnder(f, m.parent, i, j, x)) \subseteq ToSet(f[m.parent][<<x>>])
      BY <1>2, <3>2, <3>3, <3>7, <3>8
    <3>10. AddedUnder(f, m.parent, i, j, x) = f[b][<<p>>]
      BY <3>2, <3>7, <3>8 DEF AddedUnder
    <3>11. ToSet(f[m.parent][<<x>>]) \subseteq all
      BY <3>2, <3>3
    <3> QED
      BY <3>9, <3>10, <3>11
  <2> QED
    BY <2>2, <2>3
<1>4. Blueprints \subseteq S
  <2> HIDE DEF S
  <2> QED
    BY <1>3, ProgramInduction
<1> SUFFICES ASSUME NEW r \in config.routes, NEW p \in PrefixesOf(config)[r.parent]
             PROVE  <<r, <<p>>>> \in all
  BY DEF all
<1>5. r.parent \in Blueprints
  BY ProgramTypes DEF OwnRoutes
<1>6. r \in ToSet(declared[r.parent])
  BY <1>5 DEF RoutesInv, RoutesDeclared
<1>7. PICK j \in DOMAIN declared[r.parent] : declared[r.parent][j] = r
  BY <1>6 DEF ToSet
<1>8. <<r, <<p>>>> \in ToSet(f[r.parent][<<p>>])
  BY <1>2, <1>5, <1>7
<1> QED
  BY <1>4, <1>5, <1>8

-----------------------------------------------------------------------------
(* The tables hold what a program promises, and all of it.                 *)

OddRoutes == {"params", "slashes", "status", "hosts"}

Complete(c, t) == \A r \in AllRoutes(c) : \A p \in PrefixesOf(c)[r.parent] : Has(t, r, Join(p, r.pattern))
TablesInv ==
    Usual(OddRoutes) =>
        /\ Sound(config, table)
        /\ initialized => Complete(config, table)
        /\ \A key \in DOMAIN cache.values : IsOf(config, cache.values[key])
        /\ \A id \in DOMAIN stored : stored[id] = [by |-> id, to |-> NoPath, ok |-> TRUE]
SizeInv == cache.size <= requests

LEMMA NotOdd ==
  Usual(OddRoutes) => /\ "params" \notin config.odd /\ "slashes" \notin config.odd
                      /\ "status" \notin config.odd /\ "hosts" \notin config.odd
BY DEF Usual, OddRoutes

LEMMA TablesInit == Init => TablesInv /\ SizeInv
<1> SUFFICES ASSUME Init PROVE TablesInv /\ SizeInv
  OBVIOUS
<1>1. table = EmptyTable /\ cache = EmptyCache /\ stored = <<>> /\ initialized = FALSE /\ requests = 0
  BY DEF Init
<1>2. DOMAIN <<>> = {} /\ ToSet(<<>>) = {}
  BY DEF ToSet
<1>3. /\ EmptyTable.hosts = <<>> /\ DOMAIN EmptyTable.routes = {}
      /\ \A m \in Methods : EmptyTable.dynamic[m] = <<>>
  BY DEF EmptyTable
<1>4. Sound(config, table)
  BY <1>1, <1>2, <1>3 DEF Sound
<1>5. DOMAIN cache.values = {} /\ cache.size = 0
  BY <1>1 DEF EmptyCache
<1> QED
  BY <1>1, <1>2, <1>4, <1>5 DEF TablesInv, SizeInv

\* Where the program and the strategy stay, so does what this says.
LEMMA SoundStill ==
  ASSUME UNCHANGED <<strategy, config>>, NEW t, t = table', Sound(config, t)
  PROVE  Sound(config, table)'
<1>1. t.hosts = <<>>
  BY DEF Sound
<1>2. \A k \in DOMAIN t.routes :
         /\ IsOf(config, t.routes[k]) /\ ~t.routes[k].dynamic
         /\ k[1] \in t.routes[k].methods /\ k[2] = t.routes[k].pattern
  BY DEF Sound
<1>3. \A m \in Methods : \A s \in ToSet(t.dynamic[m]) : IsOf(config, s) /\ s.dynamic /\ m \in s.methods
  BY DEF Sound
<1>4. (table.hosts = <<>>)'
  BY <1>1
<1>5. (\A k \in DOMAIN table.routes :
          /\ IsOf(config, table.routes[k]) /\ ~table.routes[k].dynamic
          /\ k[1] \in table.routes[k].methods /\ k[2] = table.routes[k].pattern)'
  <2> SUFFICES ASSUME NEW k \in DOMAIN t.routes
               PROVE  (/\ IsOf(config, table.routes[k]) /\ ~table.routes[k].dynamic
                       /\ k[1] \in table.routes[k].methods /\ k[2] = table.routes[k].pattern)'
    OBVIOUS
  <2>1. PICK s : s = t.routes[k]
    OBVIOUS
  <2>2. IsOf(config, s)
    BY <1>2, <2>1
  <2>3. IsOf(config, table.routes[k])'
    BY <2>1, <2>2 DEF IsOf, IsMade, Twinned, AllRoutes
  <2> QED
    BY <1>2, <2>3
<1>6. (\A m \in Methods : \A s \in ToSet(table.dynamic[m]) : IsOf(config, s) /\ s.dynamic /\ m \in s.methods)'
  BY <1>3 DEF IsOf, IsMade, Twinned, AllRoutes
<1> QED
  BY <1>4, <1>5, <1>6 DEF Sound

LEMMA CompleteStill ==
  ASSUME UNCHANGED <<strategy, config>>, NEW t, t = table', Complete(config, t)
  PROVE  Complete(config, table)'
BY DEF Complete, Has, Twinned, AllRoutes

LEMMA IsOfStill ==
  ASSUME UNCHANGED <<strategy, config>>, NEW s, IsOf(config, s)
  PROVE  IsOf(config, s)'
BY DEF IsOf, IsMade, Twinned, AllRoutes

LEMMA MountIsRight ==
  ASSUME BaseInv, TreeInv, RoutesInv, Usual(OddRoutes), NEW m \in config.mounts, m.parent = App
  PROVE  RoutesOf(m.bp, m.prefixes) \in Seq(Rights(config))
<1>1. PICK f \in [Blueprints -> Gathered] :
         /\ \A b \in Blueprints, ps \in Seq(Paths) : f[b][ps] = OneTurn(f, b, ps)
         /\ \A b, ps : RoutesOf(b, ps) = f[b][ps]
  BY TreeInvIsTree, RoutesOfProperties DEF TreeInv, BaseInv
<1>2. \A b \in Blueprints : \A ps : MayAdd(b, ps) => f[b][ps] \in Seq(Rights(config))
  BY <1>1, RoutesOfRight DEF BaseInv
<1>3. m.bp \in Blueprints /\ m.bp # App /\ m.prefixes \in Seq(Paths) /\ ToSet(m.prefixes) \subseteq Paths
      /\ App \in Blueprints
  BY MountTypes, AppIsNotNone DEF BaseInv
<1>4. NoPath \in PrefixesOf(config)[App]
  <2>1. NoPath \in PrefixTurn(config, PrefixesOf(config), App)
    BY DEF PrefixTurn
  <2> QED
    BY <1>3, <2>1, PrefixesAre DEF BaseInv
<1>5. ASSUME NEW q \in ToSet(m.prefixes) PROVE q \in PrefixesOf(config)[m.bp]
  <2>1. q = Join(NoPath, q)
    <3>1. q \in Paths /\ NoPath \in Paths
      BY <1>3, <1>5 DEF NoPath, Paths
    <3> QED
      BY <3>1, JoinIs
  <2>2. q \in PrefixTurn(config, PrefixesOf(config), m.bp)
    BY <1>3, <1>4, <1>5, <2>1 DEF PrefixTurn
  <2> QED
    BY <1>3, <2>2, PrefixesAre DEF BaseInv
<1>6. strategy = "redirect" => Len(m.prefixes) <= 1
  BY NotOdd, RoutesAssumption DEF RoutesInv, BaseInv
<1>7. MayAdd(m.bp, m.prefixes)
  BY <1>3, <1>5, <1>6 DEF MayAdd
<1> QED
  BY <1>1, <1>2, <1>3, <1>7

LEMMA InitializeIsRight ==
  ASSUME BaseInv, TreeInv, TableInv, RoutesInv, TablesInv, Usual(OddRoutes),
         \A x \in config.routes \cup config.mounts : x.id \notin todo
  PROVE  LET t == AddRoute(AllAdded(table, RoutesOf(App, <<NoPath>>)), StaticRoute, <<NoPath>>)
         IN  Sound(config, t) /\ Complete(config, t)
<1> DEFINE all == RoutesOf(App, <<NoPath>>)
           u == AllAdded(table, all)
           t == AddRoute(u, StaticRoute, <<NoPath>>)
<1>1. PICK f \in [Blueprints -> Gathered] :
         /\ \A b \in Blueprints, ps \in Seq(Paths) : f[b][ps] = OneTurn(f, b, ps)
         /\ \A b, ps : RoutesOf(b, ps) = f[b][ps]
  BY TreeInvIsTree, RoutesOfProperties DEF TreeInv, BaseInv
<1>2. \A b \in Blueprints : \A ps : MayAdd(b, ps) => f[b][ps] \in Seq(Rights(config))
  BY <1>1, RoutesOfRight DEF BaseInv
<1>3. \A r \in config.routes : \A p \in PrefixesOf(config)[r.parent] : <<r, <<p>>>> \in ToSet(all)
  <2>1. all = f[App][<<NoPath>>]
    BY <1>1
  <2> HIDE DEF all
  <2> QED
    BY <1>1, <2>1, RoutesOfAll DEF BaseInv
<1>4. PrefixesOf(config)[App] = {NoPath} /\ App \in Blueprints
  <2>1. PrefixTurn(config, PrefixesOf(config), App) = {NoPath}
    BY DEF PrefixTurn
  <2> QED
    BY <2>1, PrefixesAre, AppIsNotNone DEF BaseInv
<1>5. PICK one : one = <<NoPath>>
  OBVIOUS
<1>6. one \in Seq(Paths) /\ ToSet(one) = {NoPath} /\ Len(one) = 1
  <2>1. NoPath \in Paths
    BY DEF NoPath, Paths
  <2> QED
    BY <1>5, <2>1 DEF ToSet
<1>7. MayAdd(App, one)
  BY <1>4, <1>6 DEF MayAdd
<1>8. all \in Seq(Rights(config))
  BY <1>1, <1>2, <1>4, <1>5, <1>7
<1>9. /\ "hosts" \notin config.odd /\ config \in Configurations /\ strategy \in Strategies
      /\ table \in Tables /\ Sound(config, table)
  BY NotOdd DEF BaseInv, TableInv, TablesInv
<1>10. u \in Tables
  <2>1. all \in Seq(Additions)
    <3>1. Rights(config) \subseteq Additions
      BY DEF Rights
    <3> QED
      BY <1>8, <3>1, SeqMonotonic
  <2> HIDE DEF all
  <2> QED
    BY <1>9, <2>1, AllAddedType
<1>11. Sound(config, u) /\ \A x \in ToSet(all) : HasAll(u, x)
  <2> HIDE DEF all
  <2> QED
    BY <1>8, <1>9, AllAddedSound
<1> HIDE DEF all, u
<1>12. PICK x : x = <<StaticRoute, one>>
  OBVIOUS
<1>13. x[1] = StaticRoute /\ x[2] = one /\ StaticRoute.parent = App
  BY <1>12 DEF StaticRoute
<1>14. x \in Rights(config)
  BY <1>4, <1>6, <1>12, <1>13, StaticRouteType DEF Rights, Additions, AllRoutes
<1>15. Sound(config, t) /\ Grows(u, t) /\ HasAll(t, x)
  <2>1. t = AddRoute(u, x[1], x[2])
    BY <1>5, <1>13
  <2> HIDE DEF t
  <2> QED
    BY <1>9, <1>10, <1>11, <1>14, <2>1, AddRouteSound
<1> HIDE DEF t
<1>16. ASSUME NEW r \in AllRoutes(config), NEW p \in PrefixesOf(config)[r.parent]
       PROVE  Has(t, r, Join(p, r.pattern))
  <2>1. CASE r \in config.routes
    <3>1. PICK y : y = <<r, <<p>>>>
      OBVIOUS
    <3>2. y[1] = r /\ y[2] = <<p>> /\ p \in ToSet(<<p>>)
      BY <3>1 DEF ToSet
    <3>3. HasAll(u, y)
      BY <1>3, <1>11, <2>1, <3>1
    <3>4. Has(u, r, Join(p, r.pattern))
      BY <3>2, <3>3 DEF HasAll
    <3>5. r \in OwnRoutes
      BY <2>1, <1>9, ProgramTypes
    <3> QED
      BY <1>15, <3>4, <3>5, HasStill
  <2>2. CASE r = StaticRoute
    <3>1. p \in ToSet(one)
      BY <1>4, <1>6, <1>13, <2>2
    <3> QED
      BY <1>13, <1>15, <2>2, <3>1 DEF HasAll
  <2> QED
    BY <2>1, <2>2 DEF AllRoutes
<1> QED
  BY <1>15, <1>16 DEF Complete, t, u, all

-----------------------------------------------------------------------------
(* What a search finds in the tables.                                      *)

LEMMA FirstMatchFinds ==
  ASSUME NEW s \in Seq(OwnRoutes), NEW url
  PROVE  /\ FirstMatch(s, url) # 0 => /\ FirstMatch(s, url) \in DOMAIN s
                                      /\ s[FirstMatch(s, url)] \in ToSet(s) /\ Matches(s[FirstMatch(s, url)], url)
         /\ FirstMatch(s, url) # 0 <=> \E r \in ToSet(s) : Matches(r, url)
<1> DEFINE I == {i \in 1..Len(s) : Matches(s[i], url)}
           first == FirstMatch(s, url)
<1>1. first = IF I # {} THEN Min(I) ELSE 0
  BY Zenon DEF FirstMatch, SelectInSeq
<1> HIDE DEF first
<1>2. ASSUME I # {} PROVE Min(I) \in I /\ Min(I) # 0
  <2>1. PICK k \in I : \A i \in I : k <= i
    <3>1. I \in SUBSET (Nat \ {0})
      OBVIOUS
    <3> HIDE DEF I
    <3> QED
      BY <1>2, <3>1, Least
  <2>2. Min(I) \in I
    <3> HIDE DEF I
    <3> QED
      BY <2>1, Zenon DEF Min
  <2> QED
    BY <2>2
<1>3. DOMAIN s = 1..Len(s) /\ ToSet(s) = {s[i] : i \in 1..Len(s)}
  BY DEF ToSet
<1>4. I # {} <=> \E r \in ToSet(s) : Matches(r, url)
  BY <1>3
<1>5. ASSUME NEW i \in I PROVE i \in DOMAIN s /\ s[i] \in ToSet(s) /\ Matches(s[i], url)
  BY <1>3
<1> HIDE DEF I
<1> QED
  BY <1>1, <1>2, <1>4, <1>5 DEF first

\* The tables have a route for the request; s is one of them.
Fixed(m, url) == ~url.query /\ <<m, url.path>> \in DOMAIN table.routes
Fits(s, m, url) ==
    \/ Fixed(m, url) /\ s = table.routes[<<m, url.path>>]
    \/ s \in ToSet(table.dynamic[m]) /\ Matches(s, url)
Fitted(m, url) == \E s : Fits(s, m, url)

LEMMA FindRouteIs ==
  ASSUME table \in Tables, NEW url, NEW method \in Methods, NEW f, f = FindRoute(url, method)
  PROVE  /\ f.is \in {"route", "404", "405"}
         /\ f.is = "route" => Fits(f.route, method, url)
         /\ f.is = "404" => \A m \in Methods : ~Fitted(m, url)
         /\ f.is = "405" => ~Fitted(method, url) /\ \E m \in Methods : Fitted(m, url)
<1> DEFINE fixed == Fixed(method, url)
           dynamic == table.dynamic[method]
           key == <<url, method>>
           here == FirstMatch(dynamic, url)
           others == OtherMethods(url, method)
           why == Nothing(IF others # {} THEN "405" ELSE "404")
<1>1. \A m \in Methods : table.dynamic[m] \in Seq(OwnRoutes)
  BY DEF Tables
<1>2. f = CASE fixed -> Found(table.routes[<<method, url.path>>], key)
            [] ~fixed /\ here # 0 -> Found(dynamic[here], key)
            [] OTHER -> why
  BY Zenon DEF FindRoute, Fixed
<1>3. /\ here # 0 => dynamic[here] \in ToSet(dynamic) /\ Matches(dynamic[here], url)
      /\ \A m \in Methods : FirstMatch(table.dynamic[m], url) # 0 <=>
            \E r \in ToSet(table.dynamic[m]) : Matches(r, url)
  BY <1>1, FirstMatchFinds
<1>4. others = {m \in Methods \ {method} : Fixed(m, url) \/ FirstMatch(table.dynamic[m], url) # 0}
  BY Zenon DEF OtherMethods, Fixed
<1>5. \A m \in Methods : Fitted(m, url) <=> (Fixed(m, url) \/ FirstMatch(table.dynamic[m], url) # 0)
  BY <1>3 DEF Fitted, Fits
<1> HIDE DEF others, fixed, here
<1>6. CASE fixed
  <2>1. f = Found(table.routes[<<method, url.path>>], key)
    BY <1>2, <1>6
  <2>2. f.is = "route" /\ f.route = table.routes[<<method, url.path>>]
    BY <2>1 DEF Found
  <2> QED
    BY <1>6, <2>2 DEF Fits, fixed
<1>7. CASE ~fixed /\ here # 0
  <2>1. f = Found(dynamic[here], key)
    BY <1>2, <1>7
  <2>2. f.is = "route" /\ f.route = dynamic[here]
    BY <2>1 DEF Found
  <2> QED
    BY <1>3, <1>7, <2>2 DEF Fits
<1>8. CASE ~fixed /\ here = 0
  <2>1. f = why
    BY <1>2, <1>8
  <2>2. f.is = IF others # {} THEN "405" ELSE "404"
    BY <2>1 DEF Nothing
  <2>3. ~Fitted(method, url)
    BY <1>5, <1>8 DEF fixed, here
  <2>4. others # {} <=> \E m \in Methods : Fitted(m, url)
    BY <1>4, <1>5, <2>3
  <2> QED
    BY <2>2, <2>3, <2>4
<1> QED
  BY <1>6, <1>7, <1>8

LEMMA FitsIsOf ==
  ASSUME NEW c, Sound(c, table), NEW method \in Methods, NEW url, NEW s, Fits(s, method, url)
  PROVE  /\ IsOf(c, s) /\ method \in s.methods /\ Matches(s, url)
<1>1. CASE Fixed(method, url) /\ s = table.routes[<<method, url.path>>]
  <2>1. PICK k : k = <<method, url.path>>
    OBVIOUS
  <2>2. k[1] = method /\ k[2] = url.path /\ k \in DOMAIN table.routes /\ s = table.routes[k] /\ ~url.query
    BY <1>1, <2>1 DEF Fixed
  <2> QED
    BY <2>2 DEF Sound, Matches
<1>2. CASE s \in ToSet(table.dynamic[method]) /\ Matches(s, url)
  BY <1>2 DEF Sound
<1> QED
  BY <1>1, <1>2 DEF Fits

\* Without hosts, a search ends with a route or with 404 or 405; and until the
\* cache is full, with what the tables say.
LEMMA GetRouteIs ==
  ASSUME table \in Tables, table.hosts = <<>>, NEW url, NEW method \in Methods, NEW host,
         NEW f, f = GetRoute(url, method, host)
  PROVE  /\ f.is \in {"route", "404", "405"}
         /\ f.is = "route" => \/ Fits(f.route, method, url)
                              \/ \E key \in DOMAIN cache.values : f.route = cache.values[key]
         /\ Transparent(cache) /\ cache.size <= CacheSize + 1 =>
               f.is = FindRoute(url, method).is /\ (f.is = "route" => f.route = FindRoute(url, method).route)
<1>1. PICK key : key = <<url, method>>
  OBVIOUS
<1>2. PICK g : g = FindRoute(url, method)
  OBVIOUS
<1>3. Find(url, method, host) = g
  BY <1>2 DEF Find
<1>4. \/ key \in DOMAIN cache.values /\ f = Found(cache.values[key], key)
      \/ f = g
  BY <1>1, <1>3, Zenon DEF GetRoute
<1>5. CASE f = g
  BY <1>2, <1>5, FindRouteIs
<1>6. CASE key \in DOMAIN cache.values /\ f = Found(cache.values[key], key)
  <2>1. f.is = "route" /\ f.route = cache.values[key]
    BY <1>6 DEF Found
  <2>2. ASSUME Transparent(cache), cache.size <= CacheSize + 1
        PROVE  g.is = "route" /\ g.route = cache.values[key]
    <3>1. Len(key) = 2 /\ key[1] = url /\ key[2] = method
      BY <1>1
    <3> QED
      BY <1>2, <1>6, <2>2, <3>1 DEF Transparent
  <2> QED
    BY <1>2, <1>6, <2>1, <2>2
<1> QED
  BY <1>4, <1>5, <1>6

-----------------------------------------------------------------------------
(* What is served.                                                         *)

\* A route that is cached is no redirect, and its status is 200.
LEMMA CachedRoutes ==
  ASSUME config \in Configurations, strategy = config.strategy, strategy \in Strategies, Usual(OddRoutes),
         NEW s, IsOf(config, s), s.cache # None
  PROVE  s.to = NoPath /\ s.ok = TRUE
<1>1. PICK r, p : r \in AllRoutes(config) /\ IsMade(s, r, p)
  BY DEF IsOf
<1>2. r.cache # None /\ s.ok = r.ok
  BY <1>1 DEF IsMade
<1>3. r \in config.routes
  BY <1>1, <1>2 DEF AllRoutes, StaticRoute
<1>4. r.ok /\ strategy # "redirect" /\ r.ok \in BOOLEAN
  BY <1>2, <1>3, NotOdd, RoutesAssumption, ProgramTypes DEF OwnRoutes, Routes
<1> QED
  BY <1>1, <1>2, <1>4 DEF IsMade, Twinned, Strategies

\* The page of a request comes from the route, or is the one that was stored.
LEMMA HandledPage ==
  ASSUME NEW ask, NEW r, NEW raises, NEW d, d = Handled(ask, r, raises)
  PROVE  /\ d.is \in {"hook", "error", "nothing", "replaced", "page"} /\ d.ask = ask /\ d.route = r
         /\ d.page = Page(r) \/ (r.id \in DOMAIN stored /\ r.cache # None /\ d.page = stored[r.id])
         /\ d.stores \in BOOLEAN /\ (d.stores => r.cache # None)
<1> DEFINE held == r.id \in DOMAIN stored
           skips == held /\ r.cache = "skips"
           before == IF skips THEN <<>> ELSE CallHooks(r.parent, "before")
           halted == Answered(before)
           hit == skips \/ (held /\ r.cache = "hooked" /\ ~halted)
           exc == IF halted \/ hit THEN None ELSE CallHandler(r, raises)
           quiet == skips \/ halted \/ exc # None
           after == IF quiet THEN <<>> ELSE CallHooks(r.parent, "after")
           sent == IF quiet THEN <<>> ELSE CallHooks(r.parent, "sent")
           caught == IF exc = None THEN <<>> ELSE ProcessException(r.parent, exc)
           is == CASE halted -> "hook"
                   [] exc # None -> IF Answered(caught) THEN "error" ELSE "nothing"
                   [] ~halted /\ exc = None -> IF Answered(after) THEN "replaced" ELSE "page"
           page == IF hit THEN stored[r.id] ELSE Page(r)
           stores == r.cache # None /\ ~halted /\ ~hit /\ exc = None
<1>1. d = [is |-> is, page |-> page, stores |-> stores, ask |-> ask, route |-> r, exc |-> exc,
           before |-> before, after |-> after, sent |-> sent, caught |-> caught]
  BY Zenon DEF Handled
<1>2. /\ d.is = is /\ d.ask = ask /\ d.route = r /\ d.page = page /\ d.stores = stores
  <2> HIDE DEF before, after, sent, caught, exc, is, page, stores
  <2> QED
    BY <1>1
<1>3. hit => held /\ r.cache # None
  BY DEF None
<1>4. is \in {"hook", "error", "nothing", "replaced", "page"}
  <2>1. PICK isHalted \in BOOLEAN : isHalted = halted
    BY DEF Answered
  <2> HIDE DEF exc, caught, halted, after
  <2> QED
    BY <2>1
<1>5. stores \in BOOLEAN /\ (stores => r.cache # None)
  OBVIOUS
<1> HIDE DEF hit, is, stores
<1> QED
  BY <1>2, <1>3, <1>4, <1>5

\* The route a request is handled with, and what becomes of it.
Serves(ask, r, raises) ==
    /\ reply' = Handled(ask, r, raises)
    /\ stored' = IF Handled(ask, r, raises).stores
                 THEN [id \in {r.id} \cup DOMAIN stored |-> IF id = r.id THEN AsStored(Page(r)) ELSE stored[id]]
                 ELSE stored

LEMMA ServesWith ==
  ASSUME table.hosts = <<>>, table \in Tables, NEW ask, ask.method \in Methods, NEW raises, Serve(ask, raises)
  PROVE  /\ conn.made /\ requests' = requests + 1
         /\ UNCHANGED <<strategy, table, config, todo, declared, mounted, initialized>>
         /\ \E found : /\ found = GetRoute(ask.url, ask.method, ask.host)
                       /\ cache' = CacheAfter(found) /\ found.is \in {"route", "404", "405"}
                       /\ Serves(ask, IF found.is = "route" THEN found.route ELSE DefaultRoute(found.is), raises)
<1>1. PICK found : found = GetRoute(ask.url, ask.method, ask.host)
  OBVIOUS
<1>2. found.is \in {"route", "404", "405"}
  BY <1>1, GetRouteIs
<1>3. PICK r : r = IF found.is = "route" THEN found.route ELSE DefaultRoute(found.is)
  OBVIOUS
<1>4. /\ reply' = IF found.is \in {"KeyError", "TypeError"} THEN [is |-> "lost", ask |-> ask]
                  ELSE Handled(ask, r, raises)
      /\ stored' = IF found.is \notin {"KeyError", "TypeError"} /\ Handled(ask, r, raises).stores
                   THEN [id \in {r.id} \cup DOMAIN stored |-> IF id = r.id THEN AsStored(Page(r)) ELSE stored[id]]
                   ELSE stored
      /\ cache' = CacheAfter(found) /\ conn.made /\ requests' = requests + 1
      /\ UNCHANGED <<strategy, table, config, todo, declared, mounted, initialized>>
  BY <1>1, <1>3, Zenon DEF Serve, blueprints
<1>5. found.is \notin {"KeyError", "TypeError"}
  BY <1>2
<1>6. Serves(ask, r, raises)
  BY <1>4, <1>5, Zenon DEF Serves
<1> QED
  BY <1>1, <1>2, <1>3, <1>4, <1>6, Zenon

LEMMA SizeStep ==
  ASSUME CacheInv, BaseInv, SizeInv, [Next]_vars
  PROVE  SizeInv'
<1>0. cache.size \in Nat /\ requests \in Nat
  BY DEF CacheInv, Lru, BaseInv
<1>1. ASSUME NEW ask \in config.asks, NEW raises \in config.raises \cup {None}, Serve(ask, raises)
      PROVE  SizeInv'
  <2>1. requests' = requests + 1 /\ cache' = CacheAfter(GetRoute(ask.url, ask.method, ask.host))
    BY <1>1 DEF Serve
  <2>2. cache'.size <= cache.size + 1
    <3>1. ASSUME NEW c, NEW key, NEW r PROVE Cached(c, key, r).size = c.size + 1
      BY DEF Cached
    <3> QED
      BY <1>0, <2>1, <3>1 DEF CacheAfter
  <2>3. cache'.size \in Nat
    <3>1. ASSUME NEW c, NEW key, NEW r PROVE Cached(c, key, r).size = c.size + 1
      BY DEF Cached
    <3> QED
      BY <1>0, <2>1, <3>1 DEF CacheAfter
  <2> QED
    BY <1>0, <2>1, <2>2, <2>3 DEF SizeInv
<1>2. CASE UNCHANGED <<cache, requests>>
  BY <1>2 DEF SizeInv
<1>3. (\E r \in config.routes : DeclareRoute(r)) \/ (\E m \in config.mounts : Nest(m) \/ Mount(m))
        \/ (\E h \in config.hooks : AddHook(h)) \/ (\E x \in config.handlers : Handle(x))
        \/ (\E c \in config.components : AddComponent(c)) \/ Initialize \/ Connect \/ UNCHANGED vars
      => UNCHANGED <<cache, requests>>
  BY DEF DeclareRoute, Nest, Mount, Mounts, AddHook, Handle, AddComponent, Declares, Initialize, Connect,
         vars, serving, router
<1> QED
  BY <1>1, <1>2, <1>3 DEF Next

\* What a request leaves in the caches is the program's, too.
LEMMA ServeTables ==
  ASSUME BaseInv, TableInv, RoutesInv, TablesInv, Usual(OddRoutes),
         NEW ask \in config.asks, NEW raises, Serve(ask, raises)
  PROVE  /\ \A key \in DOMAIN cache'.values : IsOf(config, cache'.values[key])
         /\ \A id \in DOMAIN stored' : stored'[id] = [by |-> id, to |-> NoPath, ok |-> TRUE]
<1>1. /\ table \in Tables /\ Sound(config, table) /\ ask.method \in Methods /\ config \in Configurations
      /\ strategy = config.strategy /\ strategy \in Strategies
      /\ \A key \in DOMAIN cache.values : IsOf(config, cache.values[key])
      /\ \A id \in DOMAIN stored : stored[id] = [by |-> id, to |-> NoPath, ok |-> TRUE]
  BY AskTypes DEF TablesInv, TableInv, BaseInv, RoutesInv
<1>2. table.hosts = <<>>
  BY <1>1 DEF Sound
<1>3. PICK found : /\ found = GetRoute(ask.url, ask.method, ask.host)
                   /\ cache' = CacheAfter(found) /\ found.is \in {"route", "404", "405"}
                   /\ Serves(ask, IF found.is = "route" THEN found.route ELSE DefaultRoute(found.is), raises)
  BY <1>1, <1>2, ServesWith
<1>4. found.is = "route" => IsOf(config, found.route)
  <2>1. found.is = "route" => \/ Fits(found.route, ask.method, ask.url)
                              \/ \E key \in DOMAIN cache.values : found.route = cache.values[key]
    BY <1>1, <1>2, <1>3, GetRouteIs
  <2> QED
    BY <1>1, <2>1, FitsIsOf
<1>5. PICK r : r = IF found.is = "route" THEN found.route ELSE DefaultRoute(found.is)
  OBVIOUS
<1>6. r.cache # None => r.to = NoPath /\ r.ok = TRUE
  <2>1. CASE found.is = "route"
    BY <1>1, <1>4, <1>5, <2>1, CachedRoutes
  <2>2. CASE found.is # "route"
    <3>1. r.cache = None
      BY <1>5, <2>2 DEF DefaultRoute, StaticRoute
    <3> QED
      BY <3>1
  <2> QED
    BY <2>1, <2>2
<1>7. \A key \in DOMAIN cache'.values : IsOf(config, cache'.values[key])
  <2>1. \A key \in DOMAIN cache'.values :
           (found.is = "route" /\ cache'.values[key] = found.route)
           \/ (key \in DOMAIN cache.values /\ cache'.values[key] = cache.values[key])
    <3>1. ASSUME NEW c, NEW key, NEW s, NEW x \in DOMAIN Cached(c, key, s).values
          PROVE  Cached(c, key, s).values[x] = s \/ (x \in DOMAIN c.values /\ Cached(c, key, s).values[x] = c.values[x])
      BY DEF Cached
    <3> QED
      BY <1>3, <3>1 DEF CacheAfter
  <2> QED
    BY <1>1, <1>4, <2>1
<1>8. ASSUME NEW id \in DOMAIN stored' PROVE stored'[id] = [by |-> id, to |-> NoPath, ok |-> TRUE]
  <2>1. PICK d : d = Handled(ask, r, raises)
    OBVIOUS
  <2>2. stored' = IF d.stores
                  THEN [i \in {r.id} \cup DOMAIN stored |-> IF i = r.id THEN AsStored(Page(r)) ELSE stored[i]]
                  ELSE stored
    BY <1>3, <1>5, <2>1, Zenon DEF Serves
  <2>3. d.stores \in BOOLEAN /\ (d.stores => r.cache # None)
    BY <2>1, HandledPage
  <2>4. CASE ~d.stores
    BY <1>1, <1>8, <2>2, <2>4
  <2>5. CASE d.stores
    <3>1. AsStored(Page(r)) = [by |-> r.id, to |-> NoPath, ok |-> TRUE]
      <4>1. r.to = NoPath /\ r.ok = TRUE
        BY <1>6, <2>3, <2>5
      <4>2. PICK page : page = Page(r)
        OBVIOUS
      <4>3. page.ok = TRUE /\ page = [by |-> r.id, to |-> r.to, ok |-> r.ok]
        BY <4>1, <4>2 DEF Page
      <4>4. [page EXCEPT !.ok = TRUE] = page
        BY <4>3
      <4> QED
        BY <4>1, <4>2, <4>3, <4>4 DEF AsStored
    <3> QED
      BY <1>1, <1>8, <2>2, <2>5, <3>1
  <2> QED
    BY <2>3, <2>4, <2>5
<1> QED
  BY <1>7, <1>8

LEMMA TablesStep ==
  ASSUME BaseInv, TreeInv, StartInv, TableInv, RoutesInv, NoReplyYet, TablesInv, [Next]_vars
  PROVE  TablesInv'
<1>0. config' = config /\ strategy' = strategy
  BY DEF Next, DeclareRoute, Nest, Mount, Mounts, AddHook, Handle, AddComponent, Declares, Initialize,
         Connect, Serve, router, vars
<1> SUFFICES ASSUME Usual(OddRoutes) PROVE TablesInv'
  BY <1>0 DEF TablesInv, Usual
<1>1. /\ Sound(config, table) /\ (initialized => Complete(config, table))
      /\ \A key \in DOMAIN cache.values : IsOf(config, cache.values[key])
      /\ \A id \in DOMAIN stored : stored[id] = [by |-> id, to |-> NoPath, ok |-> TRUE]
      /\ table \in Tables /\ config \in Configurations /\ strategy \in Strategies
      /\ strategy = config.strategy /\ "hosts" \notin config.odd
  BY NotOdd DEF TablesInv, BaseInv, TableInv, RoutesInv
<1>2. ASSUME UNCHANGED <<table, initialized>> \/ (~initialized' /\ Sound(config, table)')
      PROVE  Sound(config, table)' /\ (initialized' => Complete(config, table)')
  <2>1. PICK t : t = table'
    OBVIOUS
  <2>2. CASE UNCHANGED <<table, initialized>>
    BY <1>0, <1>1, <2>1, <2>2, SoundStill, CompleteStill
  <2> QED
    BY <1>2, <2>2
<1>3. ASSUME \A key \in DOMAIN cache'.values : IsOf(config, cache'.values[key])
      PROVE  (\A key \in DOMAIN cache.values : IsOf(config, cache.values[key]))'
  <2>1. \A s : IsOf(config, s) => IsOf(config, s)'
    BY <1>0, IsOfStill
  <2>2. PICK c : c = cache'
    OBVIOUS
  <2>3. \A key \in DOMAIN c.values : IsOf(config, c.values[key])'
    BY <1>3, <2>1, <2>2
  <2> SUFFICES ASSUME NEW key \in DOMAIN c.values PROVE IsOf(config, cache.values[key])'
    BY <2>2
  <2>4. PICK s : s = c.values[key]
    OBVIOUS
  <2>5. IsOf(config, s)
    BY <1>3, <2>2, <2>4
  <2> QED
    BY <1>0, <2>2, <2>4, <2>5 DEF IsOf, IsMade, Twinned, AllRoutes
<1>4. ASSUME UNCHANGED <<cache, stored>>,
             UNCHANGED <<table, initialized>> \/ (~initialized' /\ Sound(config, table)')
      PROVE  TablesInv'
  <2>1. Sound(config, table)' /\ (initialized' => Complete(config, table)')
    BY <1>2, <1>4
  <2>2. (\A key \in DOMAIN cache.values : IsOf(config, cache.values[key]))'
    BY <1>1, <1>3, <1>4
  <2>3. \A id \in DOMAIN stored' : stored'[id] = [by |-> id, to |-> NoPath, ok |-> TRUE]
    BY <1>1, <1>4
  <2> QED
    BY <2>1, <2>2, <2>3 DEF TablesInv
<1>5. ASSUME NEW m \in config.mounts, Mount(m) PROVE TablesInv'
  <2>1. /\ m.parent = App /\ ~initialized' /\ UNCHANGED <<cache, stored>>
        /\ table' = AllAdded(table, RoutesOf(m.bp, m.prefixes))
    BY <1>5 DEF Mount, Mounts, Declares, serving
  <2>2. PICK t : t = AllAdded(table, RoutesOf(m.bp, m.prefixes))
    OBVIOUS
  <2>3. Sound(config, t)
    <3>1. RoutesOf(m.bp, m.prefixes) \in Seq(Rights(config))
      BY <2>1, MountIsRight
    <3>2. ASSUME NEW s \in Seq(Rights(config)) PROVE Sound(config, AllAdded(table, s))
      BY <1>1, AllAddedSound
    <3> QED
      BY <2>2, <3>1, <3>2
  <2>4. Sound(config, table)'
    BY <1>0, <2>1, <2>2, <2>3, SoundStill
  <2> QED
    BY <1>4, <2>1, <2>4
<1>6. CASE Initialize
  <2>1. /\ UNCHANGED <<cache, stored>> /\ \A x \in config.routes \cup config.mounts : x.id \notin todo
        /\ table' = AddRoute(AllAdded(table, RoutesOf(App, <<NoPath>>)), StaticRoute, <<NoPath>>)
    BY <1>6 DEF Initialize, serving
  <2>2. PICK t : t = table'
    OBVIOUS
  <2>3. Sound(config, t) /\ Complete(config, t)
    BY <2>1, <2>2, InitializeIsRight
  <2>4. Sound(config, table)' /\ Complete(config, table)'
    BY <1>0, <2>2, <2>3, SoundStill, CompleteStill
  <2>5. (\A key \in DOMAIN cache.values : IsOf(config, cache.values[key]))'
    BY <1>1, <1>3, <2>1
  <2>6. \A id \in DOMAIN stored' : stored'[id] = [by |-> id, to |-> NoPath, ok |-> TRUE]
    BY <1>1, <2>1
  <2> QED
    BY <2>4, <2>5, <2>6 DEF TablesInv
<1>7. ASSUME NEW ask \in config.asks, NEW raises \in config.raises \cup {None}, Serve(ask, raises)
      PROVE  TablesInv'
  <2>1. UNCHANGED <<table, initialized>>
    BY <1>7 DEF Serve
  <2>2. /\ \A key \in DOMAIN cache'.values : IsOf(config, cache'.values[key])
        /\ \A id \in DOMAIN stored' : stored'[id] = [by |-> id, to |-> NoPath, ok |-> TRUE]
    BY <1>7, ServeTables
  <2>3. Sound(config, table)' /\ (initialized' => Complete(config, table)')
    BY <1>2, <2>1
  <2>4. (\A key \in DOMAIN cache.values : IsOf(config, cache.values[key]))'
    BY <1>3, <2>2
  <2> QED
    BY <2>2, <2>3, <2>4 DEF TablesInv
<1>8. (\E r \in config.routes : DeclareRoute(r)) \/ (\E m \in config.mounts : Nest(m))
        \/ (\E h \in config.hooks : AddHook(h)) \/ (\E x \in config.handlers : Handle(x))
        \/ (\E c \in config.components : AddComponent(c)) \/ Connect \/ UNCHANGED vars
      => UNCHANGED <<cache, stored, table, initialized>>
  BY DEF DeclareRoute, Nest, Mounts, AddHook, Handle, AddComponent, Declares, Connect, vars, serving, router
<1> QED
  BY <1>4, <1>5, <1>6, <1>7, <1>8 DEF Next

-----------------------------------------------------------------------------
(* A request is answered by a route a program declares for it.             *)

\* Answers, AnswersTwin and Declared, with the prefixes given by PrefixesOf.
Promises(c, r, path) == \E p \in PrefixesOf(c)[r.parent] : PathMatches(Join(p, r.pattern), path)
Promised(c, path, method) ==
    {r \in AllRoutes(c) :
        /\ method \in r.methods
        /\ \/ Promises(c, r, path)
           \/ /\ Twinned(r) /\ Promises(c, r, Twin(path))
              /\ strategy = "redirect" => method = "GET"}

\* The route s answers the path for the declared route r.
For(c, s, r, path) ==
    /\ s.id = r.id /\ s.ok = r.ok
    /\ s.to = IF Promises(c, r, path) \/ strategy = "clone" THEN NoPath ELSE Twin(path)

LEMMA FitsIsPromised ==
  ASSUME config \in Configurations, strategy = config.strategy, strategy \in Strategies, Usual(OddRoutes),
         Sound(config, table), NEW url \in Urls, ~url.query, url.path # NoPath,
         NEW method \in Methods, NEW s, Fits(s, method, url)
  PROVE  s.id \notin {"404", "405"} /\ \E r \in Promised(config, url.path, method) : For(config, s, r, url.path)
<1> DEFINE path == url.path
<1>1. IsOf(config, s) /\ method \in s.methods /\ Matches(s, url)
  BY FitsIsOf
<1>2a. PICK r \in AllRoutes(config) : \E p \in PrefixesOf(config)[r.parent] : IsMade(s, r, Join(p, r.pattern))
  BY <1>1 DEF IsOf
<1>2. PICK p \in PrefixesOf(config)[r.parent] : IsMade(s, r, Join(p, r.pattern))
  BY <1>2a
<1>3. PICK P : P = Join(p, r.pattern)
  OBVIOUS
<1>4. /\ r.pattern \in Paths /\ r.dynamic \in BOOLEAN /\ r.id \notin {"404", "405"} /\ (~r.dynamic => r \in config.routes)
      /\ PrefixesOf(config)[r.parent] \subseteq Paths
  BY NotOdd, RouteIs
<1>5. P \in Paths /\ path \in Paths /\ url.query \in BOOLEAN /\ P.slash = r.pattern.slash
  BY <1>2, <1>3, <1>4, JoinIs DEF Urls
<1>6. method \in r.methods /\ s.id = r.id /\ s.ok = r.ok /\ s.dynamic = r.dynamic
  BY <1>1, <1>2 DEF IsMade
<1>7. ~r.dynamic => ~IsDynamic(P) /\ P # NoPath /\ (strategy = "redirect" => P # AtSlash)
  BY <1>2, <1>3, <1>4, NotOdd, PrefixesArePlain, NotAtRoot
<1>8. CASE s.pattern = P /\ s.to = NoPath
  <2>1. PathMatches(P, path)
    <3>1. CASE r.dynamic
      BY <1>1, <1>6, <1>8, <3>1 DEF Matches, FullMatch
    <3>2. CASE ~r.dynamic
      <4>1. P = path
        BY <1>1, <1>6, <1>8, <3>2 DEF Matches
      <4> QED
        BY <1>5, <1>7, <3>2, <4>1, PlainMatches
    <3> QED
      BY <1>4, <3>1, <3>2
  <2>2. Promises(config, r, path)
    BY <1>2, <1>3, <2>1 DEF Promises
  <2> QED
    BY <1>4, <1>6, <1>8, <2>2 DEF Promised, For
<1>9. CASE /\ Twinned(r) /\ s.pattern = Twin(P)
           /\ strategy = "clone" => s.to = NoPath
           /\ strategy = "redirect" => s.to = P /\ s.methods \subseteq {"GET"}
  <2>1. ~r.dynamic /\ strategy \in {"redirect", "clone"}
    BY <1>9 DEF Twinned, Strategies
  <2>2. path = Twin(P)
    BY <1>1, <1>6, <1>9, <2>1 DEF Matches
  <2>3. Twin(path) = P
    BY <1>5, <1>7, <2>1, <2>2, TwinProperties
  <2>4. PathMatches(P, P)
    BY <1>5, <1>7, <2>1, PlainMatches
  <2>5. Promises(config, r, Twin(path))
    BY <1>2, <1>3, <2>3, <2>4 DEF Promises
  <2>6. strategy = "redirect" => method = "GET"
    BY <1>1, <1>9
  <2>7. r \in Promised(config, path, method)
    BY <1>6, <1>9, <2>5, <2>6 DEF Promised
  <2>8. ASSUME strategy = "redirect" PROVE ~Promises(config, r, path)
    <3> SUFFICES ASSUME NEW q \in PrefixesOf(config)[r.parent], PathMatches(Join(q, r.pattern), path)
                 PROVE  FALSE
      BY DEF Promises
    <3>1. PICK Q : Q = Join(q, r.pattern)
      OBVIOUS
    <3>2. Q \in Paths /\ Q.slash = r.pattern.slash
      BY <1>4, <3>1, JoinIs
    <3>3. ~IsDynamic(Q)
      BY <1>4, <2>1, <3>1, NotOdd, PrefixesArePlain
    <3>4. Q = path
      BY <1>5, <3>1, <3>2, <3>3, PlainMatches
    <3>5. P # AtSlash
      BY <1>7, <2>1, <2>8
    <3>6. Twin(P).slash # P.slash
      BY <1>5, <3>5, TwinProperties
    <3> QED
      BY <1>5, <2>2, <3>2, <3>4, <3>6
  <2>9. s.to = IF Promises(config, r, path) \/ strategy = "clone" THEN NoPath ELSE Twin(path)
    BY <1>9, <2>1, <2>3, <2>8
  <2> QED
    BY <1>4, <1>6, <2>7, <2>9 DEF For
<1> QED
  BY <1>2, <1>3, <1>8, <1>9 DEF IsMade

LEMMA PromisedIsFitted ==
  ASSUME config \in Configurations, strategy = config.strategy, strategy \in Strategies, Usual(OddRoutes),
         Sound(config, table), Complete(config, table), NEW url \in Urls, ~url.query, url.path # NoPath,
         NEW method \in Methods, NEW r \in Promised(config, url.path, method)
  PROVE  Fitted(method, url)
<1> DEFINE path == url.path
<1>1. /\ r \in AllRoutes(config) /\ method \in r.methods
      /\ \/ Promises(config, r, path)
         \/ /\ Twinned(r) /\ Promises(config, r, Twin(path))
            /\ strategy = "redirect" => method = "GET"
  BY DEF Promised
<1>2. /\ r.pattern \in Paths /\ r.dynamic \in BOOLEAN /\ (~r.dynamic => r \in config.routes)
      /\ PrefixesOf(config)[r.parent] \subseteq Paths /\ path \in Paths
  BY <1>1, NotOdd, RouteIs DEF Urls
<1>3. ASSUME NEW p \in PrefixesOf(config)[r.parent], NEW P, P = Join(p, r.pattern)
      PROVE  /\ P \in Paths /\ (~r.dynamic => ~IsDynamic(P))
             /\ r.dynamic => \E s \in ToSet(table.dynamic[method]) : s.pattern = P
             /\ ~r.dynamic => <<method, P>> \in DOMAIN table.routes
             /\ Twinned(r) /\ (strategy = "redirect" => method = "GET") => <<method, Twin(P)>> \in DOMAIN table.routes
  <2>1. Has(table, r, P)
    BY <1>1, <1>3 DEF Complete
  <2>2. P \in Paths
    BY <1>2, <1>3, JoinIs
  <2>3. ~r.dynamic => ~IsDynamic(P)
    BY <1>2, <1>3, NotOdd, PrefixesArePlain
  <2> QED
    BY <1>1, <2>1, <2>2, <2>3 DEF Has
<1>4. ASSUME <<method, path>> \in DOMAIN table.routes PROVE Fitted(method, url)
  <2>1. Fixed(method, url)
    BY <1>4 DEF Fixed
  <2> QED
    BY <2>1 DEF Fitted, Fits
<1>5. CASE Promises(config, r, path)
  <2>1. PICK p \in PrefixesOf(config)[r.parent] : PathMatches(Join(p, r.pattern), path)
    BY <1>5 DEF Promises
  <2>2. PICK P : P = Join(p, r.pattern)
    OBVIOUS
  <2>3. CASE r.dynamic
    <3>1. PICK s \in ToSet(table.dynamic[method]) : s.pattern = P
      BY <1>3, <2>2, <2>3
    <3>2. s.dynamic
      BY DEF Sound
    <3>3. Matches(s, url)
      BY <2>1, <2>2, <3>1, <3>2 DEF Matches, FullMatch
    <3> QED
      BY <3>3 DEF Fitted, Fits
  <2>4. CASE ~r.dynamic
    <3>1. P = path
      BY <1>2, <1>3, <2>1, <2>2, <2>4, PlainMatches
    <3> QED
      BY <1>3, <1>4, <2>2, <2>4, <3>1
  <2> QED
    BY <1>2, <2>3, <2>4
<1>6. CASE /\ Twinned(r) /\ Promises(config, r, Twin(path))
           /\ strategy = "redirect" => method = "GET"
  <2>1. PICK p \in PrefixesOf(config)[r.parent] : PathMatches(Join(p, r.pattern), Twin(path))
    BY <1>6 DEF Promises
  <2>2. PICK P : P = Join(p, r.pattern)
    OBVIOUS
  <2>3. ~r.dynamic /\ Twin(path) \in Paths
    BY <1>2, <1>6, TwinProperties DEF Twinned
  <2>4. P = Twin(path)
    BY <1>3, <2>1, <2>2, <2>3, PlainMatches
  <2>5. Twin(P) = path
    BY <1>2, <2>4, TwinProperties
  <2> QED
    BY <1>3, <1>4, <1>6, <2>2, <2>5
<1> QED
  BY <1>1, <1>5, <1>6

\* What a reply d has to be.
Right(c, d) ==
    LET path == d.ask.url.path
        method == d.ask.method
    IN  /\ d.is # "lost"
        /\ ~d.ask.url.query =>
              /\ d.route.id = "404" => \A m \in Methods : Promised(c, path, m) = {}
              /\ d.route.id = "405" =>
                    Promised(c, path, method) = {} /\ \E m \in Methods : Promised(c, path, m) # {}
              /\ d.route.id \notin {"404", "405"} =>
                    \E r \in Promised(c, path, method) :
                        /\ r.id = d.route.id
                        /\ d.is = "page" =>
                              /\ d.page.by = r.id /\ d.page.ok = r.ok
                              /\ d.page.to = IF Promises(c, r, path) \/ strategy = "clone" THEN NoPath
                                             ELSE Twin(path)
RightReply == (reply.is # None /\ BeforeFull /\ Usual(OddRoutes)) => Right(config, reply)

LEMMA ServesRight ==
  ASSUME BaseInv, StartInv, TableInv, CacheInv, RoutesInv, TablesInv, Usual(OddRoutes),
         NEW ask \in config.asks, NEW raises, Serve(ask, raises), cache.size <= CacheSize + 1,
         NEW d, d = reply'
  PROVE  Right(config, d)
<1>1. /\ table \in Tables /\ Sound(config, table) /\ config \in Configurations
      /\ strategy = config.strategy /\ strategy \in Strategies /\ Transparent(cache)
      /\ \A id \in DOMAIN stored : stored[id] = [by |-> id, to |-> NoPath, ok |-> TRUE]
  BY DEF TablesInv, TableInv, BaseInv, RoutesInv, CacheInv
<1>2. table.hosts = <<>>
  BY <1>1 DEF Sound
<1>3. ask.url \in Urls /\ ask.method \in Methods /\ ask.url.path # NoPath
  BY <1>1, AskTypes, RoutesAssumption
<1>4. conn.made
  BY DEF Serve
<1>5. Complete(config, table)
  BY <1>4 DEF StartInv, TablesInv
<1>6. PICK found : /\ found = GetRoute(ask.url, ask.method, ask.host) /\ found.is \in {"route", "404", "405"}
                   /\ Serves(ask, IF found.is = "route" THEN found.route ELSE DefaultRoute(found.is), raises)
  BY <1>1, <1>2, <1>3, ServesWith
<1>7. PICK s : s = IF found.is = "route" THEN found.route ELSE DefaultRoute(found.is)
  OBVIOUS
<1>8. d = Handled(ask, s, raises)
  BY <1>6, <1>7 DEF Serves
<1>9. /\ d.is \in {"hook", "error", "nothing", "replaced", "page"} /\ d.ask = ask /\ d.route = s
      /\ d.page = Page(s) \/ (s.id \in DOMAIN stored /\ s.cache # None /\ d.page = stored[s.id])
  BY <1>8, HandledPage
<1>10. PICK url, method : url = ask.url /\ method = ask.method
  OBVIOUS
<1>11. PICK g : g = FindRoute(url, method)
  OBVIOUS
<1>12. found.is = g.is /\ (found.is = "route" => found.route = g.route)
  BY <1>1, <1>2, <1>3, <1>6, <1>10, <1>11, GetRouteIs
<1>13. /\ g.is = "route" => Fits(g.route, method, url)
       /\ g.is = "404" => \A m \in Methods : ~Fitted(m, url)
       /\ g.is = "405" => ~Fitted(method, url) /\ \E m \in Methods : Fitted(m, url)
  BY <1>1, <1>3, <1>10, <1>11, FindRouteIs
<1>14. d.is # "lost"
  BY <1>9
<1> SUFFICES ASSUME ~url.query
             PROVE  /\ d.route.id = "404" => \A m \in Methods : Promised(config, url.path, m) = {}
                    /\ d.route.id = "405" => /\ Promised(config, url.path, method) = {}
                                             /\ \E m \in Methods : Promised(config, url.path, m) # {}
                    /\ d.route.id \notin {"404", "405"} =>
                          \E r \in Promised(config, url.path, method) :
                             /\ r.id = d.route.id
                             /\ d.is = "page" =>
                                   /\ d.page.by = r.id /\ d.page.ok = r.ok
                                   /\ d.page.to = IF Promises(config, r, url.path) \/ strategy = "clone" THEN NoPath
                                                  ELSE Twin(url.path)
  BY <1>9, <1>10, <1>14 DEF Right
<1>15. url \in Urls /\ method \in Methods /\ url.path # NoPath
  BY <1>3, <1>10
<1>16. \A m \in Methods : (Fitted(m, url) <=> Promised(config, url.path, m) # {})
  <2>1. ASSUME NEW m \in Methods, Fitted(m, url) PROVE Promised(config, url.path, m) # {}
    <3>1. PICK x : Fits(x, m, url)
      BY <2>1 DEF Fitted
    <3>2. \E r \in Promised(config, url.path, m) : For(config, x, r, url.path)
      BY <1>1, <1>15, <3>1, FitsIsPromised
    <3> QED
      BY <3>2
  <2>2. ASSUME NEW m \in Methods, NEW r \in Promised(config, url.path, m) PROVE Fitted(m, url)
    BY <1>1, <1>5, <1>15, PromisedIsFitted
  <2> QED
    BY <2>1, <2>2
<1>17. CASE g.is = "route"
  <2>1. s = g.route /\ Fits(s, method, url)
    BY <1>7, <1>12, <1>13, <1>17
  <2>2. s.id \notin {"404", "405"} /\ \E r \in Promised(config, url.path, method) : For(config, s, r, url.path)
    BY <1>1, <1>15, <2>1, FitsIsPromised
  <2>3. PICK r \in Promised(config, url.path, method) : For(config, s, r, url.path)
    BY <2>2
  <2>4. s.cache # None => s.to = NoPath /\ s.ok = TRUE
    <3>1. IsOf(config, s)
      BY <1>1, <1>15, <2>1, FitsIsOf
    <3> QED
      BY <1>1, <3>1, CachedRoutes
  <2>5. d.page.by = s.id /\ d.page.ok = s.ok /\ d.page.to = s.to
    <3>1. CASE d.page = Page(s)
      BY <3>1 DEF Page
    <3>2. CASE s.id \in DOMAIN stored /\ s.cache # None /\ d.page = stored[s.id]
      <4>1. d.page = [by |-> s.id, to |-> NoPath, ok |-> TRUE]
        BY <1>1, <3>2
      <4>2. d.page.by = s.id /\ d.page.to = NoPath /\ d.page.ok = TRUE
        BY <4>1
      <4>3. s.to = NoPath /\ s.ok = TRUE
        BY <2>4, <3>2
      <4> QED
        BY <4>2, <4>3, Zenon
    <3> QED
      BY <1>9, <3>1, <3>2
  <2> QED
    BY <1>9, <2>2, <2>3, <2>5 DEF For
<1>18. CASE g.is = "404"
  <2>1. s.id = "404"
    BY <1>7, <1>12, <1>18 DEF DefaultRoute, StaticRoute
  <2> QED
    BY <1>9, <1>13, <1>16, <1>18, <2>1
<1>19. CASE g.is = "405"
  <2>1. s.id = "405"
    BY <1>7, <1>12, <1>19 DEF DefaultRoute, StaticRoute
  <2> QED
    BY <1>9, <1>13, <1>15, <1>16, <1>19, <2>1
<1> QED
  BY <1>6, <1>12, <1>17, <1>18, <1>19

LEMMA RightInit == Init => RightReply
<1> SUFFICES ASSUME Init PROVE RightReply
  OBVIOUS
<1>1. reply.is = None
  BY DEF Init, NoReply
<1> QED
  BY <1>1 DEF RightReply

LEMMA RightStep ==
  ASSUME BaseInv, StartInv, TableInv, CacheInv, RoutesInv, TablesInv, SizeInv, RightReply, [Next]_vars
  PROVE  RightReply'
<1>1. ASSUME NEW ask \in config.asks, NEW raises \in config.raises \cup {None}, Serve(ask, raises)
      PROVE  RightReply'
  <2>1. /\ UNCHANGED <<config, strategy>> /\ requests' = requests + 1
        /\ cache' = CacheAfter(GetRoute(ask.url, ask.method, ask.host))
    BY <1>1 DEF Serve
  <2>2. cache.size \in Nat /\ requests \in Nat /\ CacheSize \in Nat
    BY CacheSizeAssumption DEF CacheInv, Lru, BaseInv
  <2>3. cache'.size = cache.size \/ cache'.size = cache.size + 1
    <3>1. ASSUME NEW c, NEW key, NEW r PROVE Cached(c, key, r).size = c.size + 1
      BY DEF Cached
    <3> QED
      BY <2>1, <3>1 DEF CacheAfter
  <2>4. BeforeFull' => cache.size <= CacheSize + 1
    BY <2>1, <2>2, <2>3 DEF BeforeFull, SizeInv
  <2>5. PICK d : d = reply'
    OBVIOUS
  <2>6. ASSUME BeforeFull', Usual(OddRoutes) PROVE Right(config, d)
    BY <1>1, <2>4, <2>5, <2>6, ServesRight
  <2>7. ASSUME Right(config, d) PROVE Right(config, reply)'
    BY <2>1, <2>5, <2>7 DEF Right, Promised, Promises, Twinned, AllRoutes
  <2>8. Usual(OddRoutes)' => Usual(OddRoutes)
    BY <2>1 DEF Usual, OddRoutes
  <2> QED
    BY <2>6, <2>7, <2>8 DEF RightReply
<1>2. CASE UNCHANGED <<config, strategy, cache, reply, requests>>
  BY <1>2 DEF RightReply, Right, Promised, Promises, Twinned, AllRoutes, BeforeFull, Usual, OddRoutes
<1>3. (\E r \in config.routes : DeclareRoute(r)) \/ (\E m \in config.mounts : Nest(m) \/ Mount(m))
        \/ (\E h \in config.hooks : AddHook(h)) \/ (\E x \in config.handlers : Handle(x))
        \/ (\E c \in config.components : AddComponent(c)) \/ Initialize \/ Connect \/ UNCHANGED vars
      => UNCHANGED <<config, strategy, cache, reply, requests>>
  BY DEF DeclareRoute, Nest, Mount, Mounts, AddHook, Handle, AddComponent, Declares, Initialize, Connect,
         vars, serving, router
<1> QED
  BY <1>1, <1>2, <1>3 DEF Next

LEMMA RightIsFound == RightReply => RightRoute
<1> SUFFICES ASSUME RightReply, reply.is # None, BeforeFull, Usual(OddRoutes) PROVE RightRoute
  BY DEF RightRoute, OddRoutes
<1>1. \A b : FullPrefixes(b) = PrefixesOf(config)[b]
  BY FullPrefixesAre
<1>2. \A r, path : Answers(r, path) <=> Promises(config, r, path)
  BY <1>1 DEF Answers, Promises
<1>3. \A path, method : Declared(path, method) = Promised(config, path, method)
  BY <1>2 DEF Declared, Promised, AnswersTwin, Twinned, AllRoutes
<1>4. Right(config, reply)
  BY DEF RightReply
<1> DEFINE path == reply.ask.url.path
           method == reply.ask.method
           here == {r \in Declared(path, method) : r.id = reply.route.id}
<1>5. /\ reply.is # "lost"
      /\ ~reply.ask.url.query =>
            /\ reply.route.id = "404" => \A m \in Methods : Declared(path, m) = {}
            /\ reply.route.id = "405" => Declared(path, method) = {} /\ \E m \in Methods : Declared(path, m) # {}
            /\ reply.route.id \notin {"404", "405"} =>
                  \E r \in here : reply.is = "page" =>
                        /\ reply.page.by = r.id /\ reply.page.ok = r.ok
                        /\ reply.page.to = IF Answers(r, path) \/ strategy = "clone" THEN NoPath ELSE Twin(path)
  BY <1>2, <1>3, <1>4 DEF Right
<1> HIDE DEF here, path, method
<1>6. ~reply.ask.url.query =>
        CASE reply.route.id = "404" -> \A m \in Methods : Declared(path, m) = {}
          [] reply.route.id = "405" -> Declared(path, method) = {} /\ \E m \in Methods : Declared(path, m) # {}
          [] OTHER -> \E r \in here : reply.is = "page" =>
                        /\ reply.page.by = r.id /\ reply.page.ok = r.ok
                        /\ reply.page.to = IF Answers(r, path) \/ strategy = "clone" THEN NoPath ELSE Twin(path)
  BY <1>5
<1> QED
  BY <1>5, <1>6, Zenon DEF RightRoute, here, path, method

-----------------------------------------------------------------------------
(* Theorems.                                                               *)

LEMMA Invariant == Spec => [](StartInv /\ CacheInv /\ TypeInv /\ HomeInv /\ KeptInv /\ RoutesInv /\ TablesInv /\ SizeInv)
<1>1. Init => CacheInv
  BY EmptyCacheInv DEF Init
<1>2. Init => TypeInv
  BY BaseInit, TreeInit, DictsInit, TableInit DEF TypeInv
<1>3. TypeInv /\ [Next]_vars => TypeInv'
  BY TypeStep
<1>4. StartInv /\ TypeInv /\ HomeInv /\ [Next]_vars => HomeInv'
  BY HomeStep
<1>5. StartInv /\ TypeInv /\ KeptInv /\ [Next]_vars => KeptInv'
  BY KeptStep
<1>6. StartInv /\ TypeInv /\ RoutesInv /\ [Next]_vars => RoutesInv'
  BY RoutesStep DEF TypeInv
<1>7. StartInv /\ TypeInv /\ KeptInv /\ RoutesInv /\ TablesInv /\ [Next]_vars => TablesInv'
  BY TablesStep DEF TypeInv, KeptInv
<1>8. CacheInv /\ TypeInv /\ SizeInv /\ [Next]_vars => SizeInv'
  BY SizeStep DEF TypeInv
<1> QED
  BY <1>1, <1>2, <1>3, <1>4, <1>5, <1>6, <1>7, <1>8, HomeInit, KeptInit, StartInit, StartStep, CacheStep,
     RoutesInit, TablesInit, PTL DEF Spec

\* Whatever is declared, in whatever order, and whatever is asked: the tables
\* hold routes of the application's blueprints, the dicts of hooks and handlers
\* what was declared for them, and the blueprints form a tree.
THEOREM Types == Spec => []TypeOK
<1>1. StartInv /\ CacheInv /\ TypeInv => TypeOK
  BY TypesAreRight DEF CacheInv
<1> QED
  BY <1>1, Invariant, PTL

\* A page passes every hook declared for it once, whichever blueprint declares
\* it and in whatever order blueprints are declared, mounted and connected to,
\* up to one that returns a response.
THEOREM HooksCalled == Spec => []HooksAreCalled
<1>1. StartInv /\ TypeInv /\ HomeInv /\ HooksAreCalled /\ [Next]_vars => HooksAreCalled'
  BY HooksStep
<1> QED
  BY <1>1, Invariant, HooksInit, PTL DEF Spec

\* Every exception a program raises is answered, by the nearest blueprint that
\* can, with its handler for the most specific class, and no handler is called
\* twice; whichever order handlers were declared and blueprints mounted in.
THEOREM ErrorsCaught == Spec => []ErrorsFindTheirHandler
<1>1. StartInv /\ TypeInv /\ KeptInv /\ ErrorsFindTheirHandler /\ [Next]_vars => ErrorsFindTheirHandler'
  BY ErrorsStep
<1> QED
  BY <1>1, Invariant, ErrorsInit, PTL DEF Spec

\* Every request is given to a route declared for its method and path, at a
\* prefix its blueprints give it, or redirected there, and a page it gets is that
\* route's own: what answers otherwise is a hook before or after the endpoint, or a
\* handler of an exception. 404 and 405 answer what no route is declared for. So
\* it is for any program whose routes have nothing odd (OddRoutes), in whatever
\* order it is put together, until the cache is full: from then on LRUCache.set
\* may give a route the key of another.
THEOREM RightRouteFound == Spec => []RightRoute
<1>1. StartInv /\ CacheInv /\ TypeInv /\ RoutesInv /\ TablesInv /\ SizeInv /\ RightReply /\ [Next]_vars => RightReply'
  BY RightStep DEF TypeInv
<1> QED
  BY <1>1, Invariant, RightInit, RightIsFound, PTL DEF Spec

\* A route found in the cache is the one a search would find, for any program
\* and any number of requests, until the cache is full.
THEOREM Transparency == Spec => []CacheIsTransparent
<1>1. CacheInv => CacheIsTransparent
  BY DEF CacheInv, Transparent, CacheIsTransparent
<1> QED
  BY <1>1, Invariant, PTL

\* LRUCache.set always finds the key it deletes, and the cache never holds more
\* than one route beyond its max_size, however many requests there are.
THEOREM LruKeepsItsSize == Spec => []LruIsSound
<1>1. CacheInv => LruIsSound
  BY CacheSizeAssumption DEF CacheInv, Lru, LruIsSound
<1> QED
  BY <1>1, Invariant, PTL

\* What requests are routed by stays as it was when the connection was made:
\* nobody declares a route or mounts a blueprint any more.
THEOREM Frozen == Spec => [][conn.made => UNCHANGED <<strategy, table, declared, mounted, parent>>]_vars
<1>1. StartInv /\ [Next]_vars
        => [conn.made => UNCHANGED <<strategy, table, declared, mounted, parent>>]_vars
  BY DEF StartInv, Next, DeclareRoute, Nest, Mount, Mounts, AddHook, Handle, AddComponent, Declares,
         Initialize, Connect, Serve, router, blueprints, vars
<1> QED
  BY <1>1, Invariant, PTL DEF Spec
=============================================================================
