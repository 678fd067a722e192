---------------------------- MODULE ClientProofs ----------------------------
(***************************************************************************)
(* Theorems about Client, for every number of callers, calls, connections, *)
(* redirects and retries, and every environment:                           *)
(*                                                                         *)
(*   TypeCorrect   the type invariant                                      *)
(*   Known         Session.close reaches every open connection             *)
(*   Posts         a POST is not repeated after a failure                  *)
(*   Users         a connection carries one exchange at a time             *)
(*   Kept          no connection is lost where nothing goes wrong          *)
(***************************************************************************)
EXTENDS Client, SequenceTheorems, TLAPS

(***************************************************************************)
(* The inductive invariants.  Each assumes TypeInv.                        *)
(***************************************************************************)

\* A POST has no budget for failures, and each time it is sent one of the
\* answers it may still ask for again is gone.
PostOK(q) == q.method = "POST" =>
    /\ q.failures = 0
    /\ q.sent + q.statuses <= StatusRetries + 1
    /\ q.pc \in {"start", "probing", "connecting"} /\ q.hops = MaxRedirects
          => q.sent + q.statuses <= StatusRetries

CallOK(q) == q \in CallType /\ q.hops <= MaxRedirects /\ PostOK(q)

TypeInv == TypeOK /\ \A r \in Callers : CallOK(call[r])

\* Nobody else refers to a connection that is in use.
UserInv ==
    \A r \in Callers :
        /\ call[r].pc = "body" => ~call[r].stream \/ call[r].redirect
        /\ call[r].pc = "streaming" => call[r].conn \in Conns
        /\ InUse(r) =>
             /\ call[r].conn \in Conns
             /\ call[r].conn \notin ToSet(available) \cup Releasing
             /\ \A s \in Callers \ {r} : call[s].conn # call[r].conn

-----------------------------------------------------------------------------
(***************************************************************************)
(* Sequences.                                                              *)
(***************************************************************************)

LEMMA PopProps ==
  ASSUME NEW S, NEW s \in Seq(S), s # <<>>
  PROVE  /\ Last(s) \in S /\ Last(s) \in ToSet(s)
         /\ Front(s) \in Seq(S) /\ ToSet(Front(s)) \subseteq ToSet(s)
<1>1. Len(s) \in Nat \ {0}
  BY EmptySeq, LenProperties
<1>2. Front(s) = [i \in 1..(Len(s) - 1) |-> s[i]]
  BY <1>1 DEF Front
<1> QED
  BY <1>1, <1>2, LenProperties DEF Last, ToSet, Front

LEMMA AppendLeftProps ==
  ASSUME NEW S, NEW s \in Seq(S), NEW e \in S
  PROVE  /\ <<e>> \o s \in Seq(S)
         /\ ToSet(<<e>> \o s) = {e} \cup ToSet(s)
<1>1. <<e>> \in Seq(S) /\ Len(<<e>>) = 1 /\ <<e>>[1] = e
  OBVIOUS
<1>2. /\ Len(<<e>> \o s) = 1 + Len(s) /\ <<e>> \o s \in Seq(S)
      /\ (<<e>> \o s)[1] = e
      /\ \A i \in 1..Len(s) : (<<e>> \o s)[1 + i] = s[i]
  BY <1>1
<1>3. ToSet(<<e>> \o s) \subseteq {e} \cup ToSet(s)
  <2>1. SUFFICES ASSUME NEW i \in 1..(1 + Len(s)) PROVE (<<e>> \o s)[i] \in {e} \cup ToSet(s)
    BY <1>2 DEF ToSet
  <2>2. CASE i = 1
    BY <2>2, <1>2
  <2>3. CASE i # 1
    <3>1. i - 1 \in 1..Len(s) /\ i = 1 + (i - 1)
      BY <2>3, LenProperties
    <3> QED BY <3>1, <1>2 DEF ToSet
  <2> QED BY <2>2, <2>3
<1>4. {e} \cup ToSet(s) \subseteq ToSet(<<e>> \o s)
  <2>1. e \in ToSet(<<e>> \o s)
    BY <1>2 DEF ToSet
  <2>2. ASSUME NEW i \in 1..Len(s) PROVE s[i] \in ToSet(<<e>> \o s)
    <3>1. 1 + i \in 1..(1 + Len(s)) /\ (<<e>> \o s)[1 + i] = s[i]
      BY <1>2, LenProperties
    <3>2. DOMAIN (<<e>> \o s) = 1..(1 + Len(s))
      BY <1>2, LenProperties
    <3> QED BY <3>1, <3>2 DEF ToSet
  <2> QED BY <2>1, <2>2 DEF ToSet
<1> QED BY <1>2, <1>3, <1>4

Tasks == Seq([conn : Conns, keep : BOOLEAN])

LEMMA ReleasedAppend ==
  ASSUME NEW s \in Tasks, NEW t \in Tasks
  PROVE  s \o t \in Tasks /\ Released(s \o t) = Released(s) \cup Released(t)
<1>1. /\ s \o t \in Tasks /\ Len(s \o t) = Len(s) + Len(t)
      /\ \A i \in 1..Len(s) : (s \o t)[i] = s[i]
      /\ \A i \in 1..Len(t) : (s \o t)[Len(s) + i] = t[i]
      /\ Len(s) \in Nat /\ Len(t) \in Nat
  BY ConcatProperties, LenProperties DEF Tasks
<1>2. Released(s \o t) \subseteq Released(s) \cup Released(t)
  <2>1. SUFFICES ASSUME NEW i \in 1..(Len(s) + Len(t))
                 PROVE  (s \o t)[i].conn \in Released(s) \cup Released(t)
    BY <1>1 DEF Released
  <2>2. CASE i <= Len(s)
    BY <2>2, <1>1 DEF Released
  <2>3. CASE ~(i <= Len(s))
    <3>1. i - Len(s) \in 1..Len(t) /\ i = Len(s) + (i - Len(s))
      BY <2>3, <1>1
    <3> QED BY <3>1, <1>1 DEF Released
  <2> QED BY <2>2, <2>3
<1>3. Released(s) \subseteq Released(s \o t)
  <2>1. ASSUME NEW i \in 1..Len(s) PROVE i \in 1..Len(s \o t) /\ s[i].conn = (s \o t)[i].conn
    BY <1>1
  <2> QED BY <2>1 DEF Released
<1>4. Released(t) \subseteq Released(s \o t)
  <2>1. ASSUME NEW i \in 1..Len(t)
        PROVE  Len(s) + i \in 1..Len(s \o t) /\ t[i].conn = (s \o t)[Len(s) + i].conn
    BY <1>1
  <2> QED BY <2>1 DEF Released
<1> QED BY <1>1, <1>2, <1>3, <1>4

LEMMA ReleasedTail ==
  ASSUME NEW s \in Tasks, s # <<>>
  PROVE  /\ Tail(s) \in Tasks /\ Released(Tail(s)) \subseteq Released(s)
         /\ Head(s) \in [conn : Conns, keep : BOOLEAN] /\ Head(s).conn \in Released(s)
<1> DEFINE R == [conn : Conns, keep : BOOLEAN]
<1> HIDE DEF R
<1>0. s \in Seq(R)
  BY DEF Tasks, R
<1>1. /\ Len(s) \in Nat \ {0} /\ Head(s) = s[1] /\ Tail(s) \in Seq(R)
      /\ Len(Tail(s)) = Len(s) - 1
      /\ \A i \in 1..Len(Tail(s)) : Tail(s)[i] = s[i + 1]
      /\ s[1] \in R
  <2>1. Len(s) \in Nat \ {0}
    BY <1>0, EmptySeq, LenProperties
  <2>2. s[1] \in R
    BY <1>0, <2>1, ElementOfSeq
  <2> QED BY <1>0, <2>1, <2>2, HeadTailProperties
<1>2. ASSUME NEW i \in 1..Len(Tail(s))
      PROVE  i + 1 \in 1..Len(s) /\ Tail(s)[i].conn = s[i + 1].conn
  BY <1>1
<1>3. 1 \in 1..Len(s)
  BY <1>1
<1> QED BY <1>1, <1>2, <1>3 DEF Released, Tasks, R

\* What on_message_complete adds.
LEMMA CompleteProps ==
  ASSUME NEW q \in CallType, q.conn \in Conns
  PROVE  OnMessageComplete(q) \in Tasks /\ Released(OnMessageComplete(q)) = {q.conn}
<1>1. q.keep \in BOOLEAN
  BY DEF CallType
<1> DEFINE t == [conn |-> q.conn, keep |-> q.keep]
<1>2. t \in [conn : Conns, keep : BOOLEAN] /\ t.conn = q.conn
  BY <1>1
<1>3. <<t>> \in Tasks /\ Len(<<t>>) = 1 /\ <<t>>[1] = t
  BY <1>2 DEF Tasks
<1>4. Released(<<t>>) = {q.conn}
  BY <1>2, <1>3 DEF Released
<1> QED BY <1>3, <1>4 DEF OnMessageComplete

LEMMA NoTasks == <<>> \in Tasks /\ Released(<<>>) = {}
  BY EmptySeq DEF Tasks, Released

-----------------------------------------------------------------------------
(***************************************************************************)
(* What the parts of a call make of it.                                    *)
(***************************************************************************)

\* A call that refers to no connection.
Reading == {"headers", "body", "streaming"}

Detached(q) == q.pc \notin Reading /\ q.conn = NoConn

LEMMA NewCallOK ==
  ASSUME NEW method \in Methods, NEW stream \in BOOLEAN
  PROVE  CallOK(NewCall(method, stream)) /\ Detached(NewCall(method, stream))
BY BoundsAssumption
   DEF NewCall, CallOK, CallType, PostOK, Detached, Reading, NetworkFailures, Methods, Kinds

LEMMA OverOK ==
  ASSUME NEW pc \in {"done", "failed"}
  PROVE  CallOK(Over(pc)) /\ Detached(Over(pc))
<1> DEFINE a == NewCall("GET", FALSE)
<1>1. CallOK(a) /\ Detached(a) /\ a.method = "GET"
  BY NewCallOK DEF Methods, NewCall
<1>2. Over(pc) = [a EXCEPT !.pc = pc]
  BY DEF Over
<1> HIDE DEF a
<1>3. [a EXCEPT !.pc = pc] \in CallType
  BY <1>1 DEF CallOK, CallType
<1>4. CallOK([a EXCEPT !.pc = pc]) /\ Detached([a EXCEPT !.pc = pc])
  BY <1>1, <1>3 DEF CallOK, CallType, PostOK, Detached, Reading
<1> QED BY <1>2, <1>4

LEMMA AgainType ==
  ASSUME NEW q \in CallType
  PROVE  /\ Again(q) \in CallType /\ Detached(Again(q))
         /\ Again(q).pc = "start" /\ Again(q).hops = MaxRedirects
         /\ Again(q).method = q.method /\ Again(q).failures = q.failures
         /\ Again(q).statuses = q.statuses /\ Again(q).sent = q.sent
<1> DEFINE a == NewCall(q.method, q.stream)
<1>1. /\ a \in CallType /\ Detached(a)
      /\ a.pc = "start" /\ a.hops = MaxRedirects /\ a.method = q.method
  <2>1. q.method \in Methods /\ q.stream \in BOOLEAN
    BY DEF CallType
  <2> QED BY <2>1, NewCallOK DEF NewCall, CallOK
<1>2. Again(q) = [a EXCEPT !.failures = q.failures, !.statuses = q.statuses, !.sent = q.sent]
  BY DEF Again
<1>3. q.failures \in Nat /\ q.statuses \in Nat /\ q.sent \in Nat
  BY DEF CallType
<1> HIDE DEF a
<1> QED BY <1>1, <1>2, <1>3 DEF CallType, Detached, Reading

LEMMA AfterConnectionErrorOK ==
  ASSUME NEW q, CallOK(q)
  PROVE  CallOK(AfterConnectionError(q)) /\ Detached(AfterConnectionError(q))
<1>1. CASE MayRetry(q)
  <2> DEFINE a == Again(q)
  <2>1. /\ a \in CallType /\ Detached(a) /\ a.pc = "start" /\ a.hops = MaxRedirects
        /\ a.method = q.method /\ a.failures = q.failures
    BY AgainType DEF CallOK
  <2>2. q.method # "POST" /\ q.failures \in Nat \ {0}
    BY <1>1 DEF MayRetry, CallOK, PostOK, CallType
  <2>3. AfterConnectionError(q) = [a EXCEPT !.failures = @ - 1]
    BY <1>1 DEF AfterConnectionError, Retried
  <2> HIDE DEF a
  <2>4. [a EXCEPT !.failures = @ - 1] \in CallType
    BY <2>1, <2>2 DEF CallType
  <2>5. Detached([a EXCEPT !.failures = @ - 1])
    BY <2>1 DEF CallType, Detached, Reading
  <2>6. /\ [a EXCEPT !.failures = @ - 1].hops = MaxRedirects
        /\ [a EXCEPT !.failures = @ - 1].method # "POST"
    BY <2>1, <2>2 DEF CallType
  <2> QED BY <2>3, <2>4, <2>5, <2>6, BoundsAssumption DEF CallOK, PostOK
<1>2. CASE ~MayRetry(q)
  BY <1>2, OverOK DEF AfterConnectionError
<1> QED BY <1>1, <1>2

\* A response that is returned leaves the connection, or is streamed from it.
LEMMA ReturnedOK ==
  ASSUME NEW q, CallOK(q)
  PROVE  /\ CallOK(Returned(q))
         /\ \/ Detached(Returned(q))
            \/ q.stream /\ Returned(q) = [q EXCEPT !.pc = "streaming"]
<1>0. q \in CallType
  BY DEF CallOK
<1>1. CASE q.again /\ q.statuses > 0
  <2> DEFINE a == Again(q)
  <2>1. /\ a \in CallType /\ Detached(a) /\ a.pc = "start" /\ a.hops = MaxRedirects
        /\ a.method = q.method /\ a.failures = q.failures
        /\ a.statuses = q.statuses /\ a.sent = q.sent
    BY AgainType DEF CallOK
  <2>2. q.statuses \in Nat \ {0} /\ q.sent \in Nat
    BY <1>0, <1>1 DEF CallType
  <2>3. Returned(q) = [a EXCEPT !.statuses = @ - 1]
    BY <1>1 DEF Returned
  <2> HIDE DEF a
  <2>4. [a EXCEPT !.statuses = @ - 1] \in CallType
    BY <2>1, <2>2 DEF CallType
  <2>5. Detached([a EXCEPT !.statuses = @ - 1])
    BY <2>1 DEF CallType, Detached, Reading
  <2>6. /\ [a EXCEPT !.statuses = @ - 1].hops = MaxRedirects
        /\ [a EXCEPT !.statuses = @ - 1].method = q.method
        /\ [a EXCEPT !.statuses = @ - 1].failures = q.failures
        /\ [a EXCEPT !.statuses = @ - 1].sent = q.sent
        /\ [a EXCEPT !.statuses = @ - 1].statuses = q.statuses - 1
    BY <2>1, <2>2 DEF CallType
  <2> QED BY <2>2, <2>3, <2>4, <2>5, <2>6, BoundsAssumption DEF CallOK, PostOK
<1>2. CASE ~(q.again /\ q.statuses > 0) /\ q.stream
  <2>1. Returned(q) = [q EXCEPT !.pc = "streaming"]
    BY <1>2 DEF Returned
  <2>2. [q EXCEPT !.pc = "streaming"] \in CallType
    BY <1>0 DEF CallType
  <2>3. CallOK([q EXCEPT !.pc = "streaming"])
    BY <1>0, <2>2 DEF CallOK, CallType, PostOK
  <2> QED BY <1>2, <2>1, <2>3
<1>3. CASE ~(q.again /\ q.statuses > 0) /\ ~q.stream
  <2>1. Returned(q) = Over("done")
    BY <1>3 DEF Returned
  <2> QED BY <2>1, OverOK
<1> QED BY <1>1, <1>2, <1>3

\* A call that takes its connection, if any, out of the pool.
Takes(q) == CallOK(q) /\ q.pc \notin Reading /\ q.conn \in {NoConn} \cup ToSet(available)

PoolShrinks ==
    available' \in Seq(Conns) /\ ToSet(available') \subseteq ToSet(available)

LEMMA DetachedTakes ==
  ASSUME NEW q, CallOK(q), Detached(q)
  PROVE  Takes(q)
BY DEF Detached, Takes

LEMMA GetConnectionOK ==
  ASSUME available \in Seq(Conns), NEW r \in Callers, NEW q, CallOK(q), q.pc = "start",
         GetConnection(r, q)
  PROVE  PoolShrinks /\ \E q2 : Takes(q2) /\ Is(r, q2)
<1>0. q \in CallType
  BY DEF CallOK
<1>1. CASE available = <<>>
  <2> DEFINE q2 == [q EXCEPT !.pc = "connecting", !.conn = NoConn]
  <2>1. Is(r, q2) /\ available' = available
    BY <1>1 DEF GetConnection
  <2>2. q2 \in CallType /\ q2.pc \notin Reading /\ q2.conn = NoConn
    BY <1>0 DEF CallType, Reading
  <2>3. CallOK(q2)
    BY <1>0, <2>2 DEF CallOK, CallType, PostOK
  <2>4. Takes(q2)
    BY <2>2, <2>3 DEF Takes
  <2> HIDE DEF q2
  <2> QED BY <2>1, <2>4 DEF PoolShrinks
<1>2. CASE available # <<>>
  <2> DEFINE c == Last(available)
             q2 == [q EXCEPT !.pc = "probing", !.conn = c]
  <2>1. Is(r, q2) /\ available' = Front(available)
    BY <1>2 DEF GetConnection
  <2>2. /\ c \in Conns /\ c \in ToSet(available)
        /\ Front(available) \in Seq(Conns) /\ ToSet(Front(available)) \subseteq ToSet(available)
    BY <1>2, PopProps
  <2> HIDE DEF c
  <2>3. q2 \in CallType /\ q2.pc \notin Reading /\ q2.conn = c
    BY <1>0, <2>2 DEF CallType, Reading
  <2>4. CallOK(q2)
    BY <1>0, <2>3 DEF CallOK, CallType, PostOK
  <2>5. Takes(q2)
    BY <2>2, <2>3, <2>4 DEF Takes
  <2> HIDE DEF q2
  <2> QED BY <2>1, <2>2, <2>5 DEF PoolShrinks
<1> QED BY <1>1, <1>2

LEMMA SendsOK ==
  ASSUME NEW q, CallOK(q), q.pc \in {"probing", "connecting"}, NEW c \in Conns
  PROVE  CallOK(Sends(q, c)) /\ Sends(q, c).conn = c /\ Sends(q, c).pc = "headers"
<1>0. q \in CallType
  BY DEF CallOK
<1> DEFINE n == IF q.hops = MaxRedirects THEN q.sent + 1 ELSE q.sent
           q2 == [q EXCEPT !.pc = "headers", !.conn = c, !.sent = n]
<1>1. Sends(q, c) = q2
  BY <1>0 DEF Sends, CallType
<1>2. q.sent \in Nat /\ q.statuses \in Nat /\ n \in Nat
  BY <1>0 DEF CallType
<1>3. q.method = "POST" => q.failures = 0 /\ n + q.statuses <= StatusRetries + 1
  BY <1>2, BoundsAssumption DEF CallOK, PostOK
<1> HIDE DEF n
<1>4. q2 \in CallType
  BY <1>0, <1>2 DEF CallType
<1>5. /\ q2.pc = "headers" /\ q2.conn = c /\ q2.sent = n /\ q2.method = q.method
      /\ q2.hops = q.hops /\ q2.failures = q.failures /\ q2.statuses = q.statuses
  BY <1>0 DEF CallType
<1> HIDE DEF q2
<1>6. CallOK(q2)
  BY <1>3, <1>4, <1>5 DEF CallOK, PostOK
<1> QED BY <1>1, <1>5, <1>6

\* After the content of a response that is not streamed, or is a redirect.
LEMMA AfterContentOK ==
  ASSUME available \in Seq(Conns), NEW r \in Callers, NEW q, CallOK(q),
         ~q.stream \/ q.redirect, AfterContent(r, q)
  PROVE  PoolShrinks /\ \E q2 : Takes(q2) /\ Is(r, q2)
<1>0. q \in CallType
  BY DEF CallOK
<1>1. CASE ~q.redirect
  <2>1. Is(r, Returned(q)) /\ available' = available
    BY <1>1 DEF AfterContent
  <2>2. CallOK(Returned(q)) /\ Detached(Returned(q))
    BY <1>1, ReturnedOK
  <2> QED BY <2>1, <2>2, DetachedTakes DEF PoolShrinks
<1>2. CASE q.redirect /\ q.hops = 0
  <2>1. Is(r, Over("failed")) /\ available' = available
    BY <1>2 DEF AfterContent
  <2> QED BY <2>1, OverOK, DetachedTakes DEF PoolShrinks
<1>3. CASE q.redirect /\ q.hops # 0
  <2> DEFINE a == Again(q)
             q2 == [a EXCEPT !.hops = q.hops - 1]
  <2>1. GetConnection(r, q2)
    BY <1>3 DEF AfterContent
  <2>2. /\ a \in CallType /\ a.pc = "start" /\ a.method = q.method
        /\ a.failures = q.failures /\ a.statuses = q.statuses /\ a.sent = q.sent
    BY <1>0, AgainType
  <2>3. q.hops - 1 \in Nat /\ q.hops - 1 <= MaxRedirects /\ q.hops - 1 # MaxRedirects
    BY <1>0, <1>3, BoundsAssumption DEF CallOK, CallType
  <2> HIDE DEF a
  <2>4. /\ q2 \in CallType /\ q2.pc = "start" /\ q2.method = q.method
        /\ q2.failures = q.failures /\ q2.statuses = q.statuses /\ q2.sent = q.sent
        /\ q2.hops = q.hops - 1
    BY <2>2, <2>3 DEF CallType
  <2> HIDE DEF q2
  <2>5. CallOK(q2)
    BY <2>3, <2>4 DEF CallOK, PostOK
  <2> QED BY <2>1, <2>4, <2>5, GetConnectionOK
<1> QED BY <1>1, <1>2, <1>3

-----------------------------------------------------------------------------
(***************************************************************************)
(* What a step of one call means for the others.                           *)
(***************************************************************************)

\* The call ends its use of the connection, and may hand it back.
LEMMA UseEnds ==
  ASSUME TypeInv, UserInv, NEW r \in Callers, NEW q2, Takes(q2), Is(r, q2),
         ToSet(available') \subseteq ToSet(available),
         Releasing' \subseteq Releasing \cup {call[r].conn}
  PROVE  UserInv'
<1>0. call \in [Callers -> CallType] /\ call' = [call EXCEPT ![r] = q2]
  BY DEF TypeInv, TypeOK, Is
<1>1. ASSUME NEW s \in Callers
      PROVE  UserInv!(s)'
  <2>1. CASE s = r
    <3>1. call'[s] = q2
      BY <1>0, <2>1
    <3> QED BY <3>1 DEF Takes, Reading, Used, InUse
  <2>2. CASE s # r
    <3>1. call'[s] = call[s]
      BY <1>0, <2>2
    <3>2. ASSUME InUse(s)
          PROVE  /\ call[s].conn \in Conns
                 /\ call[s].conn \notin ToSet(available) \cup Releasing
                 /\ call[s].conn # call[r].conn
                 /\ \A t \in Callers \ {s} : call'[t].conn # call[s].conn
      <4>1. /\ call[s].conn \in Conns
            /\ call[s].conn \notin ToSet(available) \cup Releasing
            /\ \A t \in Callers \ {s} : call[t].conn # call[s].conn
        BY <3>2 DEF UserInv
      <4>2. q2.conn # call[s].conn
        BY <4>1 DEF Takes, Conns, NoConn
      <4>3. ASSUME NEW t \in Callers \ {s} PROVE call'[t].conn # call[s].conn
        BY <1>0, <4>1, <4>2
      <4> QED BY <2>2, <4>1, <4>3
    <3> QED BY <3>1, <3>2 DEF UserInv, InUse
  <2> QED BY <2>1, <2>2
<1> QED BY <1>1 DEF UserInv

\* The call goes on with its connection.
LEMMA UseContinues ==
  ASSUME TypeInv, UserInv, NEW r \in Callers, NEW q2, CallOK(q2), Is(r, q2),
         InUse(r), q2.conn = call[r].conn, q2.pc = "body" => ~q2.stream \/ q2.redirect,
         ToSet(available') \subseteq ToSet(available),
         Releasing' \subseteq Releasing \cup {call[r].conn},
         Used(q2) => Releasing' \subseteq Releasing
  PROVE  UserInv'
<1>0. call \in [Callers -> CallType] /\ call' = [call EXCEPT ![r] = q2]
  BY DEF TypeInv, TypeOK, Is
<1>1. /\ call[r].conn \in Conns
      /\ call[r].conn \notin ToSet(available) \cup Releasing
      /\ \A t \in Callers \ {r} : call[t].conn # call[r].conn
  BY DEF UserInv
<1>2. \A t \in Callers : call'[t].conn = call[t].conn
  BY <1>0
<1>3. ASSUME NEW s \in Callers
      PROVE  UserInv!(s)'
  <2>1. CASE s = r
    <3>1. call'[s] = q2
      BY <1>0, <2>1
    <3> QED BY <1>1, <1>2, <2>1, <3>1 DEF InUse
  <2>2. CASE s # r
    <3>1. call'[s] = call[s]
      BY <1>0, <2>2
    <3>2. ASSUME InUse(s)
          PROVE  /\ call[s].conn \in Conns
                 /\ call[s].conn \notin ToSet(available) \cup Releasing
                 /\ \A t \in Callers \ {s} : call[t].conn # call[s].conn
      BY <3>2 DEF UserInv
    <3>3. (call[s].pc = "body" => ~call[s].stream \/ call[s].redirect)
          /\ (call[s].pc = "streaming" => call[s].conn \in Conns)
      BY DEF UserInv
    <3> QED BY <1>2, <2>2, <3>1, <3>2, <3>3 DEF InUse
  <2> QED BY <2>1, <2>2
<1> QED BY <1>3 DEF UserInv

\* The call gets a connection nobody refers to.
LEMMA UseBegins ==
  ASSUME TypeInv, UserInv, NEW r \in Callers, NEW q2, CallOK(q2), Is(r, q2),
         q2.pc = "headers", q2.conn \in Conns \ Referenced,
         UNCHANGED <<available, releases>>
  PROVE  UserInv'
<1>0. call \in [Callers -> CallType] /\ call' = [call EXCEPT ![r] = q2]
  BY DEF TypeInv, TypeOK, Is
<1>1. /\ q2.conn \in Conns
      /\ q2.conn \notin ToSet(available) \cup Releasing
      /\ \A t \in Callers : call[t].conn # q2.conn
  BY DEF Referenced
<1>2. Releasing' = Releasing /\ available' = available
  BY DEF Releasing
<1>3. ASSUME NEW s \in Callers
      PROVE  UserInv!(s)'
  <2>1. CASE s = r
    <3>1. call'[s] = q2
      BY <1>0, <2>1
    <3>2. \A t \in Callers \ {r} : call'[t] = call[t]
      BY <1>0
    <3> QED BY <1>1, <1>2, <2>1, <3>1, <3>2 DEF InUse
  <2>2. CASE s # r
    <3>1. call'[s] = call[s]
      BY <1>0, <2>2
    <3>2. ASSUME InUse(s)
          PROVE  /\ call[s].conn \in Conns
                 /\ call[s].conn \notin ToSet(available) \cup Releasing
                 /\ \A t \in Callers \ {s} : call'[t].conn # call[s].conn
      <4>1. /\ call[s].conn \in Conns
            /\ call[s].conn \notin ToSet(available) \cup Releasing
            /\ \A t \in Callers \ {s} : call[t].conn # call[s].conn
        BY <3>2 DEF UserInv
      <4>2. ASSUME NEW t \in Callers \ {s} PROVE call'[t].conn # call[s].conn
        BY <1>0, <1>1, <4>1
      <4> QED BY <4>1, <4>2
    <3>3. (call[s].pc = "body" => ~call[s].stream \/ call[s].redirect)
          /\ (call[s].pc = "streaming" => call[s].conn \in Conns)
      BY DEF UserInv
    <3> QED BY <1>2, <2>2, <3>1, <3>2, <3>3 DEF InUse
  <2> QED BY <2>1, <2>2
<1> QED BY <1>3 DEF UserInv

\* Only the pool changes.
LEMMA PoolMoves ==
  ASSUME UserInv, UNCHANGED call,
         ToSet(available') \subseteq ToSet(available) \cup Releasing,
         Releasing' \subseteq Releasing
  PROVE  UserInv'
BY DEF UserInv, InUse

-----------------------------------------------------------------------------
(***************************************************************************)
(* The invariant, action by action.                                        *)
(***************************************************************************)

Inv == TypeInv /\ UserInv

PoolTypes == available \in Seq(Conns) /\ releases \in Tasks

LEMMA TypeStep ==
  ASSUME TypeInv, UNCHANGED env, NEW r \in Callers, NEW q2, CallOK(q2), Is(r, q2),
         conn' \in [Conns -> ConnStates], known' \subseteq Conns, PoolTypes',
         calls' \in 0..MaxCalls, faults' \in 0..MaxFaults
  PROVE  TypeInv'
<1>1. call' = [call EXCEPT ![r] = q2] /\ call \in [Callers -> CallType] /\ q2 \in CallType
  BY DEF TypeInv, TypeOK, Is, CallOK
<1>2. call' \in [Callers -> CallType]
  BY <1>1
<1>3. \A s \in Callers : CallOK(call[s])'
  <2>1. \A s \in Callers : call'[s] = IF s = r THEN q2 ELSE call[s]
    BY <1>1
  <2>2. \A s \in Callers : CallOK(call'[s])
    BY <2>1 DEF TypeInv
  <2> QED BY <2>2 DEF CallOK, PostOK
<1>4. TypeOK'
  BY <1>2 DEF TypeInv, TypeOK, PoolTypes, Tasks
<1> QED BY <1>3, <1>4 DEF TypeInv

LEMMA TypeFacts ==
  ASSUME TypeInv
  PROVE  /\ conn \in [Conns -> ConnStates] /\ known \subseteq Conns /\ PoolTypes
         /\ calls \in 0..MaxCalls /\ faults \in 0..MaxFaults
         /\ \A r \in Callers : CallOK(call[r]) /\ call[r] \in CallType
BY DEF TypeInv, TypeOK, PoolTypes, Tasks, CallOK

LEMMA CallStep ==
  ASSUME Inv, UNCHANGED env, NEW r \in Callers, Call(r)
  PROVE  Inv'
<1>1. PICK stream \in BOOLEAN : Is(r, NewCall(IF r \in Posting THEN "POST" ELSE "GET", stream))
  BY DEF Call
<1> DEFINE q2 == NewCall(IF r \in Posting THEN "POST" ELSE "GET", stream)
<1>2. CallOK(q2) /\ Detached(q2)
  BY NewCallOK DEF Methods
<1>3. Is(r, q2)
  BY <1>1
<1> HIDE DEF q2
<1>4. UNCHANGED <<conn, known, available, releases, faults>> /\ calls' \in 0..MaxCalls
  BY BoundsAssumption, TypeFacts DEF Call, pool, Inv
<1>5. TypeInv'
  BY <1>2, <1>3, <1>4, TypeStep, TypeFacts DEF Inv, PoolTypes
<1>6. UserInv'
  BY <1>2, <1>3, <1>4, UseEnds, DetachedTakes DEF Inv, Releasing
<1> QED BY <1>5, <1>6 DEF Inv

LEMMA StartStep ==
  ASSUME Inv, UNCHANGED env, NEW r \in Callers, Start(r)
  PROVE  Inv'
<1>1. GetConnection(r, call[r]) /\ UNCHANGED <<conn, known, releases, calls, faults>>
  BY DEF Start
<1>2. PoolShrinks /\ \E q2 : Takes(q2) /\ Is(r, q2)
  BY <1>1, TypeFacts, GetConnectionOK DEF Inv, PoolTypes, Start
<1>3. PICK q2 : Takes(q2) /\ Is(r, q2)
  BY <1>2
<1>4. TypeInv'
  BY <1>1, <1>2, <1>3, TypeStep, TypeFacts DEF Inv, PoolTypes, PoolShrinks, Takes
<1>5. UserInv'
  BY <1>1, <1>2, <1>3, UseEnds DEF Inv, PoolShrinks, Releasing
<1> QED BY <1>4, <1>5 DEF Inv

\* A call that fails or begins again, and leaves the pool alone.
LEMMA Leaves ==
  ASSUME Inv, UNCHANGED <<env, known, available, releases, calls>>, NEW r \in Callers,
         NEW q2, CallOK(q2), Detached(q2), Is(r, q2),
         conn' \in [Conns -> ConnStates], faults' \in 0..MaxFaults
  PROVE  Inv'
<1>1. TypeInv'
  BY TypeStep, TypeFacts DEF Inv, PoolTypes
<1>2. UserInv'
  BY UseEnds, DetachedTakes DEF Inv, Releasing
<1> QED BY <1>1, <1>2 DEF Inv

LEMMA ProbeStep ==
  ASSUME Inv, UNCHANGED env, NEW r \in Callers, Probe(r)
  PROVE  Inv'
<1> DEFINE q == call[r]
           c == q.conn
<1>0. /\ CallOK(q) /\ q \in CallType /\ q.pc = "probing"
      /\ UNCHANGED <<available, releases, calls, faults>>
      /\ conn \in [Conns -> ConnStates] /\ known \subseteq Conns /\ faults \in 0..MaxFaults
  BY TypeFacts DEF Inv, Probe
<1>1. CASE conn[c] = "reset"
  <2>1. Is(r, AfterConnectionError(q)) /\ UNCHANGED <<conn, known>>
    BY <1>1 DEF Probe
  <2> QED BY <1>0, <2>1, AfterConnectionErrorOK, Leaves
<1>2. CASE conn[c] # "reset"
  <2> DEFINE q2 == [q EXCEPT !.pc = "connecting", !.conn = NoConn]
  <2>1. /\ conn' = Discarded(c) /\ known' = known \ {c} /\ Is(r, q2)
    BY <1>2 DEF Probe, IsDropped
  <2>2. conn' \in [Conns -> ConnStates] /\ known' \subseteq Conns
    BY <1>0, <2>1 DEF Discarded, ConnStates
  <2>3. q2 \in CallType /\ q2.pc = "connecting" /\ q2.conn = NoConn
    BY <1>0 DEF CallType
  <2>4. CallOK(q2) /\ Detached(q2)
    BY <1>0, <2>3 DEF CallOK, CallType, PostOK, Detached, Reading
  <2> HIDE DEF q2
  <2>5. TypeInv'
    BY <1>0, <2>1, <2>2, <2>4, TypeStep, TypeFacts DEF Inv, PoolTypes
  <2>6. UserInv'
    BY <1>0, <2>1, <2>4, UseEnds, DetachedTakes DEF Inv, Releasing
  <2> QED BY <2>5, <2>6 DEF Inv
<1> QED BY <1>1, <1>2

LEMMA ConnectStep ==
  ASSUME Inv, UNCHANGED env, NEW r \in Callers, Connect(r)
  PROVE  Inv'
<1> DEFINE q == call[r]
<1>0. /\ CallOK(q) /\ q.pc = "connecting"
      /\ UNCHANGED <<available, releases, calls, faults>>
      /\ conn \in [Conns -> ConnStates] /\ known \subseteq Conns
  BY TypeFacts DEF Inv, Connect
<1>1. PICK c \in Conns \ Referenced :
        /\ conn' = [conn EXCEPT ![c] = "open"]
        /\ known' = known \cup {c}
        /\ Is(r, Sends(q, c))
  BY DEF Connect
<1>2. CallOK(Sends(q, c)) /\ Sends(q, c).conn = c /\ Sends(q, c).pc = "headers"
  BY <1>0, SendsOK
<1>3. conn' \in [Conns -> ConnStates] /\ known' \subseteq Conns
  BY <1>0, <1>1 DEF ConnStates
<1>4. TypeInv'
  BY <1>0, <1>1, <1>2, <1>3, TypeStep, TypeFacts DEF Inv, PoolTypes
<1>5. UserInv'
  BY <1>0, <1>1, <1>2, UseBegins DEF Inv
<1> QED BY <1>4, <1>5 DEF Inv

LEMMA ConnectFailsStep ==
  ASSUME Inv, UNCHANGED env, NEW r \in Callers, ConnectFails(r)
  PROVE  Inv'
BY TypeFacts, AfterConnectionErrorOK, Leaves DEF Inv, ConnectFails, pool

LEMMA AnswerStep ==
  ASSUME Inv, UNCHANGED env, NEW r \in Callers, NEW kind \in Kinds,
         NEW keep \in BOOLEAN, NEW redirect \in BOOLEAN, NEW again \in BOOLEAN,
         Answer(r, kind, keep, redirect, again)
  PROVE  Inv'
<1> DEFINE p == call[r]
           q == [p EXCEPT !.kind = kind, !.keep = keep, !.redirect = redirect, !.again = again]
           complete == IF NoBody(kind) THEN OnMessageComplete(q) ELSE <<>>
<1>0. /\ CallOK(p) /\ p.pc = "headers" /\ UNCHANGED <<conn, known, calls, faults>>
      /\ PoolTypes /\ InUse(r) /\ p.conn \in Conns
  <2>1. CallOK(p) /\ PoolTypes
    BY TypeFacts DEF Inv
  <2>2. p.pc = "headers" /\ UNCHANGED <<conn, known, calls, faults>>
    BY DEF Answer
  <2> QED BY <2>1, <2>2 DEF InUse, Used, Inv, UserInv
<1>1. /\ CallOK(q) /\ q \in CallType /\ q.pc = "headers" /\ q.conn = p.conn
      /\ q.kind = kind /\ q.redirect = redirect /\ q.stream = p.stream
      /\ CallOK([q EXCEPT !.pc = "body"])
  <2>1. /\ q \in CallType /\ q.pc = "headers" /\ q.conn = p.conn
        /\ q.kind = kind /\ q.redirect = redirect /\ q.stream = p.stream
        /\ q.method = p.method /\ q.failures = p.failures /\ q.sent = p.sent
        /\ q.statuses = p.statuses /\ q.hops = p.hops
    <3> HIDE DEF p
    <3> QED BY <1>0 DEF CallOK, CallType
  <2> HIDE DEF p, q
  <2>2. CallOK(q)
    BY <1>0, <2>1 DEF CallOK, PostOK
  <2>3. CallOK([q EXCEPT !.pc = "body"])
    BY <2>1, <2>2 DEF CallOK, CallType, PostOK
  <2> QED BY <2>1, <2>2, <2>3
<1>2. /\ CASE q.stream /\ ~redirect ->
                Is(r, Returned(q)) /\ releases' = releases \o complete /\ UNCHANGED available
           [] (~q.stream \/ redirect) /\ kind = "full" ->
                /\ Is(r, [q EXCEPT !.pc = "body"])
                /\ releases' = releases \o complete
                /\ UNCHANGED available
           [] (~q.stream \/ redirect) /\ kind = "empty" ->
                /\ AfterContent(r, q)
                /\ releases' = releases \o complete \o OnMessageComplete(q)
           [] OTHER ->
                Is(r, Over("failed")) /\ releases' = releases \o complete /\ UNCHANGED available
  BY DEF Answer
<1>3. /\ OnMessageComplete(q) \in Tasks /\ Released(OnMessageComplete(q)) = {p.conn}
      /\ complete \in Tasks /\ Released(complete) \subseteq {p.conn}
      /\ kind = "full" => complete = <<>>
  BY <1>0, <1>1, CompleteProps, NoTasks DEF NoBody
<1> HIDE DEF q, complete
<1>4. /\ releases \o complete \in Tasks
      /\ Released(releases \o complete) \subseteq Releasing \cup {p.conn}
      /\ kind = "full" => Released(releases \o complete) = Releasing
  <2>1. releases \o complete \in Tasks
        /\ Released(releases \o complete) = Releasing \cup Released(complete)
    BY <1>0, <1>3, ReleasedAppend DEF PoolTypes, Releasing
  <2>2. kind = "full" => Released(complete) = {}
    BY <1>3, NoTasks
  <2> QED BY <1>3, <2>1, <2>2
<1>5. /\ releases \o complete \o OnMessageComplete(q) \in Tasks
      /\ Released(releases \o complete \o OnMessageComplete(q)) \subseteq Releasing \cup {p.conn}
  BY <1>3, <1>4, ReleasedAppend
<1>6. CASE q.stream /\ ~redirect
  <2>1. Is(r, Returned(q)) /\ releases' = releases \o complete /\ available' = available
    BY <1>2, <1>6
  <2>2. CallOK(Returned(q))
        /\ (Detached(Returned(q)) \/ Returned(q) = [q EXCEPT !.pc = "streaming"])
    BY <1>1, ReturnedOK
  <2>3. TypeInv'
    BY <1>0, <1>4, <2>1, <2>2, TypeStep, TypeFacts DEF Inv, PoolTypes
  <2>4. CASE Detached(Returned(q))
    <3>1. UserInv'
      BY <1>4, <2>1, <2>2, <2>4, UseEnds, DetachedTakes DEF Inv, Releasing
    <3> QED BY <2>3, <3>1 DEF Inv
  <2>5. CASE Returned(q) = [q EXCEPT !.pc = "streaming"]
    <3>1. /\ Returned(q).conn = p.conn /\ Returned(q).pc = "streaming"
          /\ Used(Returned(q)) => kind = "full"
      BY <1>1, <2>5 DEF CallType, Used
    <3>2. UserInv'
      BY <1>0, <1>4, <2>1, <2>2, <3>1, UseContinues DEF Inv, Releasing
    <3> QED BY <2>3, <3>2 DEF Inv
  <2> QED BY <2>2, <2>4, <2>5
<1>7. CASE (~q.stream \/ redirect) /\ kind = "full"
  <2> DEFINE q2 == [q EXCEPT !.pc = "body"]
  <2>1. Is(r, q2) /\ releases' = releases \o complete /\ available' = available
    BY <1>2, <1>7
  <2>2. CallOK(q2) /\ q2.conn = p.conn /\ (~q2.stream \/ q2.redirect)
    BY <1>1, <1>7 DEF CallType
  <2> HIDE DEF q2
  <2>3. TypeInv'
    BY <1>0, <1>4, <2>1, <2>2, TypeStep, TypeFacts DEF Inv, PoolTypes
  <2>4. UserInv'
    BY <1>0, <1>4, <1>7, <2>1, <2>2, UseContinues DEF Inv, Releasing
  <2> QED BY <2>3, <2>4 DEF Inv
<1>8. CASE (~q.stream \/ redirect) /\ kind = "empty"
  <2>1. AfterContent(r, q) /\ releases' = releases \o complete \o OnMessageComplete(q)
    BY <1>2, <1>8
  <2>2. PoolShrinks /\ \E q2 : Takes(q2) /\ Is(r, q2)
    BY <1>0, <1>1, <1>8, <2>1, AfterContentOK DEF PoolTypes
  <2>3. PICK q2 : Takes(q2) /\ Is(r, q2)
    BY <2>2
  <2>4. TypeInv'
    BY <1>0, <1>5, <2>1, <2>2, <2>3, TypeStep, TypeFacts DEF Inv, PoolTypes, PoolShrinks, Takes
  <2>5. UserInv'
    BY <1>5, <2>1, <2>2, <2>3, UseEnds DEF Inv, PoolShrinks, Releasing
  <2> QED BY <2>4, <2>5 DEF Inv
<1>9. CASE (~q.stream \/ redirect) /\ kind \notin {"full", "empty"}
  <2>1. Is(r, Over("failed")) /\ releases' = releases \o complete /\ available' = available
    BY <1>2, <1>9
  <2>2. CallOK(Over("failed")) /\ Detached(Over("failed"))
    BY OverOK
  <2>3. TypeInv'
    BY <1>0, <1>4, <2>1, <2>2, TypeStep, TypeFacts DEF Inv, PoolTypes
  <2>4. UserInv'
    BY <1>4, <2>1, <2>2, UseEnds, DetachedTakes DEF Inv, Releasing
  <2> QED BY <2>3, <2>4 DEF Inv
<1> QED BY <1>1, <1>6, <1>7, <1>8, <1>9

LEMMA ContentStep ==
  ASSUME Inv, UNCHANGED env, NEW r \in Callers, Content(r)
  PROVE  Inv'
<1> DEFINE q == call[r]
<1>0. /\ CallOK(q) /\ q \in CallType /\ PoolTypes /\ q.pc = "body"
      /\ UNCHANGED <<conn, known, calls, faults>>
      /\ releases' = releases \o OnMessageComplete(q) /\ AfterContent(r, q)
  BY TypeFacts DEF Inv, Content
<1>1. q.conn \in Conns /\ (~q.stream \/ q.redirect)
  BY <1>0 DEF Inv, UserInv, InUse, Used
<1>2. releases' \in Tasks /\ Releasing' = Releasing \cup {q.conn}
  BY <1>0, <1>1, CompleteProps, ReleasedAppend DEF PoolTypes, Releasing
<1>3. PoolShrinks /\ \E q2 : Takes(q2) /\ Is(r, q2)
  BY <1>0, <1>1, AfterContentOK DEF PoolTypes
<1>4. PICK q2 : Takes(q2) /\ Is(r, q2)
  BY <1>3
<1>5. TypeInv'
  BY <1>0, <1>2, <1>3, <1>4, TypeStep, TypeFacts DEF Inv, PoolTypes, PoolShrinks, Takes
<1>6. UserInv'
  BY <1>2, <1>3, <1>4, UseEnds DEF Inv, PoolShrinks
<1> QED BY <1>5, <1>6 DEF Inv

LEMMA ReadStreamStep ==
  ASSUME Inv, UNCHANGED env, NEW r \in Callers, NEW whole \in BOOLEAN, ReadStream(r, whole)
  PROVE  Inv'
<1> DEFINE q == call[r]
<1>0. /\ CallOK(q) /\ q \in CallType /\ PoolTypes /\ q.pc = "streaming" /\ q.conn \in Conns
      /\ UNCHANGED <<conn, known, available, calls, faults>>
  BY TypeFacts DEF Inv, UserInv, ReadStream, pool
<1>1. \/ releases' = releases \o OnMessageComplete(q) /\ Is(r, Over("done"))
      \/ releases' = releases /\ Is(r, Over("done"))
      \/ releases' = releases /\ Is(r, Over("failed"))
  BY DEF ReadStream
<1>2. /\ releases \o OnMessageComplete(q) \in Tasks
      /\ Released(releases \o OnMessageComplete(q)) = Releasing \cup {q.conn}
  BY <1>0, CompleteProps, ReleasedAppend DEF PoolTypes, Releasing
<1>3. releases' \in Tasks /\ Releasing' \subseteq Releasing \cup {q.conn}
  BY <1>0, <1>1, <1>2 DEF PoolTypes, Releasing
<1>4. PICK pc \in {"done", "failed"} : Is(r, Over(pc))
  BY <1>1
<1>5. CallOK(Over(pc)) /\ Detached(Over(pc))
  BY OverOK
<1>6. TypeInv'
  BY <1>0, <1>3, <1>4, <1>5, TypeStep, TypeFacts DEF Inv, PoolTypes
<1>7. UserInv'
  BY <1>0, <1>3, <1>4, <1>5, UseEnds, DetachedTakes DEF Inv
<1> QED BY <1>6, <1>7 DEF Inv

LEMMA BrokenStep ==
  ASSUME Inv, UNCHANGED env, NEW r \in Callers, Broken(r)
  PROVE  Inv'
<1> DEFINE q == call[r]
<1>1. /\ CallOK(q) /\ UNCHANGED <<known, available, releases, calls, faults>>
      /\ faults \in 0..MaxFaults
      /\ conn' \in [Conns -> ConnStates]
  BY TypeFacts DEF Inv, Broken, pool, ConnStates
<1>2. Is(r, AfterConnectionError(q)) \/ Is(r, Over("failed"))
  BY DEF Broken
<1>3. /\ CallOK(AfterConnectionError(q)) /\ Detached(AfterConnectionError(q))
      /\ CallOK(Over("failed")) /\ Detached(Over("failed"))
  BY <1>1, AfterConnectionErrorOK, OverOK
<1> QED BY <1>1, <1>2, <1>3, Leaves

LEMMA GiveUpStep ==
  ASSUME Inv, UNCHANGED env, NEW r \in Callers, Timeout(r) \/ Abandon(r)
  PROVE  Inv'
<1>1. /\ Is(r, Over("failed")) /\ UNCHANGED <<conn, known, available, releases, calls>>
      /\ faults' \in 0..MaxFaults /\ conn \in [Conns -> ConnStates]
  BY TypeFacts, BoundsAssumption DEF Inv, Timeout, Abandon, pool
<1> QED BY <1>1, OverOK, Leaves

LEMMA ReleaseStep ==
  ASSUME Inv, UNCHANGED env, Release
  PROVE  Inv'
<1> DEFINE c == Head(releases).conn
<1>0. /\ PoolTypes /\ releases # <<>> /\ releases' = Tail(releases)
      /\ UNCHANGED <<call, calls, faults>>
      /\ conn \in [Conns -> ConnStates] /\ known \subseteq Conns
  BY TypeFacts DEF Inv, Release
<1>1. /\ releases' \in Tasks /\ Releasing' \subseteq Releasing /\ c \in Conns /\ c \in Releasing
  BY <1>0, ReleasedTail DEF PoolTypes, Releasing
<1>2. \/ available' = <<c>> \o available /\ UNCHANGED <<conn, known>>
      \/ conn' = Discarded(c) /\ known' = known \ {c} /\ UNCHANGED available
  BY DEF Release
<1> HIDE DEF c
<1>3. /\ <<c>> \o available \in Seq(Conns)
      /\ ToSet(<<c>> \o available) = {c} \cup ToSet(available)
  BY <1>0, <1>1, AppendLeftProps DEF PoolTypes
<1>4. /\ available' \in Seq(Conns) /\ ToSet(available') \subseteq ToSet(available) \cup Releasing
      /\ conn' \in [Conns -> ConnStates] /\ known' \subseteq Conns
  BY <1>0, <1>1, <1>2, <1>3 DEF PoolTypes, Discarded, ConnStates
<1>5. TypeInv'
  BY <1>0, <1>1, <1>4 DEF Inv, TypeInv, TypeOK, Tasks, CallOK, PostOK
<1>6. UserInv'
  BY <1>0, <1>1, <1>4, PoolMoves DEF Inv
<1> QED BY <1>5, <1>6 DEF Inv

LEMMA ConnsStep ==
  ASSUME Inv, UNCHANGED <<env, known, available, releases, call, calls>>,
         conn' \in [Conns -> ConnStates], faults' \in 0..MaxFaults
  PROVE  Inv'
<1>1. TypeInv'
  BY DEF Inv, TypeInv, TypeOK, CallOK, PostOK
<1>2. UserInv'
  BY PoolMoves DEF Inv, Releasing
<1> QED BY <1>1, <1>2 DEF Inv

LEMMA CloseStep ==
  ASSUME Inv, UNCHANGED env, Close
  PROVE  Inv'
<1>1. conn' \in [Conns -> ConnStates] /\ faults' \in 0..MaxFaults
  BY TypeFacts DEF Inv, Close, ConnStates
<1> QED BY <1>1, ConnsStep DEF Close, pool

LEMMA PeerEndsStep ==
  ASSUME Inv, UNCHANGED env, NEW c \in Conns, NEW how \in {"eof", "reset"}, PeerEnds(c, how)
  PROVE  Inv'
<1>1. conn' \in [Conns -> ConnStates] /\ faults' \in 0..MaxFaults
  BY TypeFacts, BoundsAssumption DEF Inv, PeerEnds, ConnStates
<1> QED BY <1>1, ConnsStep DEF PeerEnds, pool

LEMMA InvInit == Init => Inv
<1> SUFFICES ASSUME Init PROVE Inv
  OBVIOUS
<1>1. CallOK(Over("done")) /\ Detached(Over("done")) /\ Over("done") \in CallType
  BY OverOK DEF CallOK
<1>2. call = [r \in Callers |-> Over("done")]
  BY DEF Init
<1>3. <<>> \in Seq(Conns) /\ <<>> \in Tasks
  BY EmptySeq DEF Tasks
<1>4. TypeInv
  BY <1>1, <1>2, <1>3, BoundsAssumption DEF Init, TypeInv, TypeOK, Tasks, ConnStates
<1>5. UserInv
  BY <1>1, <1>2 DEF UserInv, InUse, Used, Detached, Reading
<1> QED BY <1>4, <1>5 DEF Inv

LEMMA InvStep == Inv /\ [Next]_vars => Inv'
<1> SUFFICES ASSUME Inv, [Next]_vars PROVE Inv'
  OBVIOUS
<1>1. ASSUME UNCHANGED vars PROVE Inv'
  <2>1. UNCHANGED <<env, conn, known, available, releases, call, calls, faults>>
    BY <1>1 DEF vars, work, pool
  <2> QED BY <2>1, ConnsStep, TypeFacts DEF Inv
<1>2. ASSUME Next PROVE Inv'
  <2>0. UNCHANGED env
    BY <1>2 DEF Next
  <2>1. ASSUME NEW r \in Callers, Call(r) PROVE Inv'
    BY <2>0, <2>1, CallStep
  <2>2. ASSUME NEW r \in Callers, Start(r) PROVE Inv'
    BY <2>0, <2>2, StartStep
  <2>3. ASSUME NEW r \in Callers, Probe(r) PROVE Inv'
    BY <2>0, <2>3, ProbeStep
  <2>4. ASSUME NEW r \in Callers, Connects(r) PROVE Inv'
    BY <2>0, <2>4, ConnectStep, ConnectFailsStep DEF Connects
  <2>5. ASSUME NEW r \in Callers, Answers(r) PROVE Inv'
    BY <2>0, <2>5, AnswerStep, ContentStep, BrokenStep DEF Answers
  <2>6. ASSUME NEW r \in Callers, Reads(r) PROVE Inv'
    BY <2>0, <2>6, ReadStreamStep DEF Reads
  <2>7. ASSUME NEW r \in Callers, Timeout(r) \/ Abandon(r) PROVE Inv'
    BY <2>0, <2>7, GiveUpStep
  <2>8. ASSUME Release \/ Close PROVE Inv'
    BY <2>0, <2>8, ReleaseStep, CloseStep
  <2>9. ASSUME NEW c \in Conns, NEW how \in {"eof", "reset"}, PeerEnds(c, how) PROVE Inv'
    BY <2>0, <2>9, PeerEndsStep
  <2> QED BY <1>2, <2>1, <2>2, <2>3, <2>4, <2>5, <2>6, <2>7, <2>8, <2>9 DEF Next
<1> QED BY <1>1, <1>2

-----------------------------------------------------------------------------
(***************************************************************************)
(* The theorems.                                                           *)
(***************************************************************************)

LEMMA Invariant == Spec => []Inv
BY InvInit, InvStep, PTL DEF Spec

\* Every variable has its type: no budget is overdrawn, only connections are
\* in the pool.
THEOREM TypeCorrect == Spec => []TypeOK
<1>1. Inv => TypeOK
  BY DEF Inv, TypeInv
<1> QED BY <1>1, Invariant, PTL

\* A connection carries one exchange at a time, although an empty response
\* releases its connection twice: nobody gets a connection out of the pool
\* for use (pool.py:48).
THEOREM Users == Spec => []OneUser
<1>1. Inv => OneUser
  <2>1. ASSUME Inv, NEW r \in Callers, InUse(r)
        PROVE  /\ call[r].conn \notin ToSet(available)
               /\ \A s \in Callers \ {r} : InUse(s) => call[s].conn # call[r].conn
    BY <2>1 DEF Inv, UserInv
  <2> QED BY <2>1 DEF OneUser
<1> QED BY <1>1, Invariant, PTL

\* A POST is not repeated after a failure (retries.py:12), only after an
\* answer whose status the caller has listed.
THEOREM Posts == Spec => []PostIsNotRepeated
<1>1. Inv => PostIsNotRepeated
  <2>1. ASSUME Inv, NEW r \in Callers, call[r].method = "POST"
        PROVE  call[r].sent + call[r].statuses <= StatusRetries + 1
    BY <2>1 DEF Inv, TypeInv, CallOK, PostOK
  <2> QED BY <2>1 DEF PostIsNotRepeated
<1> QED BY <1>1, Invariant, PTL

\* A connection leaves pool.connections only when it is closed.
LEMMA KnownStep == TypeInv /\ OpenIsKnown /\ [Next]_vars => OpenIsKnown'
<1> SUFFICES ASSUME TypeInv, OpenIsKnown, [Next]_vars PROVE OpenIsKnown'
  OBVIOUS
<1>0. conn \in [Conns -> ConnStates]
  BY TypeFacts
<1>1. ASSUME UNCHANGED <<conn, known>> PROVE OpenIsKnown'
  BY <1>1 DEF OpenIsKnown
<1>2. ASSUME NEW c, conn' = Discarded(c), known' = known \ {c} PROVE OpenIsKnown'
  BY <1>0, <1>2 DEF OpenIsKnown, Discarded
<1>3. ASSUME NEW r \in Callers, Probe(r) PROVE OpenIsKnown'
  <2>1. \/ UNCHANGED <<conn, known>>
        \/ conn' = Discarded(call[r].conn) /\ known' = known \ {call[r].conn}
    BY <1>3 DEF Probe
  <2> QED BY <2>1, <1>1, <1>2
<1>4. ASSUME NEW r \in Callers, Connects(r) PROVE OpenIsKnown'
  <2>1. CASE Connect(r)
    <3>1. PICK c \in Conns : conn' = [conn EXCEPT ![c] = "open"] /\ known' = known \cup {c}
      BY <2>1 DEF Connect
    <3> QED BY <1>0, <3>1 DEF OpenIsKnown
  <2>2. CASE ConnectFails(r)
    BY <1>1, <2>2 DEF ConnectFails, pool
  <2> QED BY <1>4, <2>1, <2>2 DEF Connects
<1>5. ASSUME NEW r \in Callers, Answers(r) PROVE OpenIsKnown'
  <2>1. CASE Broken(r)
    BY <1>0, <2>1 DEF Broken, OpenIsKnown, pool
  <2>2. CASE Content(r)
    BY <1>1, <2>2 DEF Content
  <2>3. CASE \E kind \in Kinds, keep, redirect, again \in BOOLEAN :
                Answer(r, kind, keep, redirect, again)
    BY <1>1, <2>3 DEF Answer
  <2> QED BY <1>5, <2>1, <2>2, <2>3 DEF Answers
<1>6. ASSUME Release PROVE OpenIsKnown'
  <2>1. \/ UNCHANGED <<conn, known>>
        \/ /\ conn' = Discarded(Head(releases).conn)
           /\ known' = known \ {Head(releases).conn}
    BY <1>6 DEF Release
  <2> QED BY <2>1, <1>1, <1>2
<1>7. ASSUME Close PROVE OpenIsKnown'
  BY <1>0, <1>7 DEF Close, OpenIsKnown, pool
<1>8. ASSUME NEW c \in Conns, NEW how \in {"eof", "reset"}, PeerEnds(c, how) PROVE OpenIsKnown'
  BY <1>0, <1>8 DEF PeerEnds, OpenIsKnown, pool
<1>9. ASSUME NEW r \in Callers,
             Call(r) \/ Start(r) \/ Reads(r) \/ Timeout(r) \/ Abandon(r)
      PROVE  OpenIsKnown'
  BY <1>1, <1>9 DEF Call, Start, Reads, ReadStream, Timeout, Abandon, pool
<1>10. ASSUME UNCHANGED vars PROVE OpenIsKnown'
  BY <1>1, <1>10 DEF vars, work, pool
<1> QED BY <1>3, <1>4, <1>5, <1>6, <1>7, <1>8, <1>9, <1>10 DEF Next

\* Whatever fails, Session.close reaches every connection that is open.
THEOREM Known == Spec => []OpenIsKnown
<1>1. Init => OpenIsKnown
  BY DEF Init, OpenIsKnown
<1>2. Inv => TypeInv
  BY DEF Inv
<1> QED BY <1>1, <1>2, KnownStep, Invariant, PTL DEF Spec

-----------------------------------------------------------------------------
(***************************************************************************)
(* No connection is lost.                                                  *)
(***************************************************************************)

Orderly ==
    /\ env \cap {"fail", "timeout", "abandon", "odd"} = {}
    /\ ~({"stream", "again"} \subseteq env)

\* The call will close the connection or bring it back.  Of a streamed empty
\* response it is brought back already.
Holds(q, c) == q.conn = c /\ (q.pc = "probing" \/ Used(q))

Pooled == ToSet(available) \cup Releasing

KeptInv ==
    /\ \A r \in Callers : call[r].stream => "stream" \in env
    /\ Orderly => \A c \in Conns :
          conn[c] = "open" => c \in Pooled \/ \E r \in Callers : Holds(call[r], c)

LEMMA FrontAndLast ==
  ASSUME NEW S, NEW s \in Seq(S), s # <<>>
  PROVE  ToSet(s) \subseteq ToSet(Front(s)) \cup {Last(s)}
<1>1. Len(s) \in Nat \ {0}
  BY EmptySeq, LenProperties
<1>2. Front(s) = [i \in 1..(Len(s) - 1) |-> s[i]]
  BY <1>1 DEF Front
<1>3. ASSUME NEW i \in 1..Len(s) PROVE s[i] \in ToSet(Front(s)) \cup {Last(s)}
  <2>1. CASE i = Len(s)
    BY <2>1 DEF Last
  <2>2. CASE i # Len(s)
    <3>1. i \in 1..(Len(s) - 1)
      BY <1>1, <2>2
    <3> QED BY <1>2, <3>1 DEF ToSet
  <2> QED BY <2>1, <2>2
<1> QED BY <1>3, LenProperties DEF ToSet

LEMMA HeadAndTail ==
  ASSUME NEW s \in Tasks, s # <<>>
  PROVE  Released(s) \subseteq Released(Tail(s)) \cup {Head(s).conn}
<1> DEFINE R == [conn : Conns, keep : BOOLEAN]
<1> HIDE DEF R
<1>0. s \in Seq(R)
  BY DEF Tasks, R
<1>1. /\ Len(s) \in Nat \ {0} /\ Head(s) = s[1]
      /\ Len(Tail(s)) = Len(s) - 1
      /\ \A i \in 1..Len(Tail(s)) : Tail(s)[i] = s[i + 1]
  <2>1. Len(s) \in Nat \ {0}
    BY <1>0, EmptySeq, LenProperties
  <2> QED BY <1>0, <2>1, HeadTailProperties
<1>2. ASSUME NEW i \in 1..Len(s), i # 1 PROVE s[i].conn \in Released(Tail(s))
  <2>1. i - 1 \in 1..Len(Tail(s)) /\ i = (i - 1) + 1
    BY <1>1, <1>2
  <2>2. Tail(s)[i - 1] = s[i]
    BY <1>1, <2>1
  <2> QED BY <2>1, <2>2 DEF Released
<1> QED BY <1>1, <1>2 DEF Released

\* A call streams only where its caller asked for it.
LEMMA StreamKept ==
  ASSUME NEW q \in CallType
  PROVE  /\ \A pc : ~Over(pc).stream
         /\ Again(q).stream = q.stream
         /\ Returned(q).stream => q.stream
         /\ AfterConnectionError(q).stream => q.stream
<1>1. \A pc : ~Over(pc).stream
  BY DEF Over, NewCall
<1> DEFINE a == Again(q)
<1>2. a \in CallType /\ a.stream = q.stream
  BY AgainType DEF Again, NewCall
<1> HIDE DEF a
<1>3. Returned(q).stream => q.stream
  <2>1. /\ [a EXCEPT !.statuses = @ - 1].stream = a.stream
        /\ [q EXCEPT !.pc = "streaming"].stream = q.stream
    BY <1>2 DEF CallType
  <2> QED BY <1>1, <1>2, <2>1 DEF Returned, a
<1>4. AfterConnectionError(q).stream => q.stream
  <2>1. [a EXCEPT !.failures = @ - 1].stream = a.stream
    BY <1>2 DEF CallType
  <2> QED BY <1>1, <1>2, <2>1 DEF AfterConnectionError, Retried, a
<1> QED BY <1>1, <1>2, <1>3, <1>4 DEF a

\* What a step of one call may do with the connections.
Keeps(r, q2) ==
    /\ Is(r, q2)
    /\ q2.stream => call[r].stream \/ "stream" \in env
    /\ \A c \in Conns :
          /\ conn'[c] = "open" => conn[c] = "open" \/ Holds(q2, c)
          /\ Orderly /\ conn'[c] = "open" /\ (c \in Pooled \/ Holds(call[r], c))
                => c \in Pooled' \/ Holds(q2, c)

LEMMA KeepsStep ==
  ASSUME TypeInv, KeptInv, UNCHANGED env, NEW r \in Callers, NEW q2, Keeps(r, q2)
  PROVE  KeptInv'
<1>0. call \in [Callers -> CallType] /\ call' = [call EXCEPT ![r] = q2]
  BY DEF TypeInv, TypeOK, Is, Keeps
<1>1. call'[r] = q2 /\ \A s \in Callers \ {r} : call'[s] = call[s]
  BY <1>0
<1>2. \A s \in Callers : call'[s].stream => "stream" \in env'
  BY <1>1 DEF KeptInv, Keeps
<1>3. ASSUME Orderly, NEW c \in Conns, conn'[c] = "open"
      PROVE  c \in Pooled' \/ \E s \in Callers : Holds(call'[s], c)
  <2>1. CASE Holds(q2, c)
    BY <1>1, <2>1
  <2>2. CASE conn[c] = "open" /\ (c \in Pooled \/ Holds(call[r], c))
    BY <1>1, <1>3, <2>2 DEF Keeps
  <2>3. CASE \E s \in Callers \ {r} : Holds(call[s], c)
    <3>1. PICK s \in Callers \ {r} : Holds(call[s], c)
      BY <2>3
    <3> QED BY <1>1, <3>1
  <2>4. conn[c] = "open" \/ Holds(q2, c)
    BY <1>3 DEF Keeps
  <2>5. conn[c] = "open" => c \in Pooled \/ \E s \in Callers : Holds(call[s], c)
    BY <1>3 DEF KeptInv
  <2> QED BY <2>1, <2>2, <2>3, <2>4, <2>5
<1>4. Orderly' => Orderly
  BY DEF Orderly
<1> HIDE DEF KeptInv
<1>5. \A c \in Conns : Orderly' /\ conn'[c] = "open"
         => c \in Pooled' \/ \E s \in Callers : Holds(call'[s], c)
  BY <1>3, <1>4
<1> QED BY <1>2, <1>5 DEF KeptInv, Holds, Used

LEMMA GetConnectionKeeps ==
  ASSUME available \in Seq(Conns), NEW r \in Callers, NEW q \in CallType, GetConnection(r, q)
  PROVE  \E q2 : /\ Is(r, q2) /\ q2.stream = q.stream
                 /\ \A c \in ToSet(available) : c \in ToSet(available') \/ Holds(q2, c)
<1>1. CASE available = <<>>
  <2> DEFINE q2 == [q EXCEPT !.pc = "connecting", !.conn = NoConn]
  <2>1. Is(r, q2) /\ available' = available
    BY <1>1 DEF GetConnection
  <2>2. q2.stream = q.stream
    BY DEF CallType
  <2> HIDE DEF q2
  <2> QED BY <2>1, <2>2
<1>2. CASE available # <<>>
  <2> DEFINE q2 == [q EXCEPT !.pc = "probing", !.conn = Last(available)]
  <2>1. Is(r, q2) /\ available' = Front(available)
    BY <1>2 DEF GetConnection
  <2>2. q2.stream = q.stream /\ q2.pc = "probing" /\ q2.conn = Last(available)
    BY DEF CallType
  <2>3. ToSet(available) \subseteq ToSet(available') \cup {Last(available)}
    BY <1>2, <2>1, FrontAndLast
  <2> HIDE DEF q2
  <2> QED BY <2>1, <2>2, <2>3 DEF Holds
<1> QED BY <1>1, <1>2

LEMMA AfterContentKeeps ==
  ASSUME available \in Seq(Conns), NEW r \in Callers, NEW q \in CallType, AfterContent(r, q)
  PROVE  \E q2 : /\ Is(r, q2) /\ (q2.stream => q.stream)
                 /\ \A c \in ToSet(available) : c \in ToSet(available') \/ Holds(q2, c)
<1>1. CASE ~q.redirect
  BY <1>1, StreamKept DEF AfterContent
<1>2. CASE q.redirect /\ q.hops = 0
  BY <1>2, StreamKept DEF AfterContent
<1>3. CASE q.redirect /\ q.hops # 0
  <2> DEFINE a == Again(q)
             q2 == [a EXCEPT !.hops = q.hops - 1]
  <2>1. GetConnection(r, q2)
    BY <1>3 DEF AfterContent
  <2>2. a \in CallType /\ a.stream = q.stream
    BY AgainType, StreamKept
  <2>3. q.hops - 1 \in Nat
    BY <1>3 DEF CallType
  <2> HIDE DEF a
  <2>4. q2 \in CallType /\ q2.stream = q.stream
    BY <2>2, <2>3 DEF CallType
  <2> HIDE DEF q2
  <2> QED BY <2>1, <2>4, GetConnectionKeeps
<1> QED BY <1>1, <1>2, <1>3

\* The pool keeps what it has, and closes nothing of it.
PoolKeeps ==
    \A c \in Conns :
        /\ conn'[c] = "open" => conn[c] = "open"
        /\ c \in Pooled /\ conn'[c] = "open" => c \in Pooled'

LEMMA CallKeeps ==
  ASSUME TypeInv, KeptInv, UNCHANGED env, NEW r \in Callers, Call(r)
  PROVE  KeptInv'
<1>1. PICK stream \in BOOLEAN :
        /\ stream => "stream" \in env
        /\ Is(r, NewCall(IF r \in Posting THEN "POST" ELSE "GET", stream))
  BY DEF Call
<1> DEFINE q2 == NewCall(IF r \in Posting THEN "POST" ELSE "GET", stream)
<1>2. Is(r, q2) /\ q2.stream = stream
  BY <1>1 DEF NewCall
<1>3. UNCHANGED <<conn, available, releases>> /\ call[r].pc \in {"done", "failed"}
  BY DEF Call, pool, Ended
<1> HIDE DEF q2
<1>4. Keeps(r, q2)
  BY <1>1, <1>2, <1>3 DEF Keeps, Holds, Used, Pooled, Releasing
<1> QED BY <1>4, KeepsStep

LEMMA StartKeeps ==
  ASSUME TypeInv, KeptInv, UNCHANGED env, NEW r \in Callers, Start(r)
  PROVE  KeptInv'
<1>1. /\ GetConnection(r, call[r]) /\ UNCHANGED <<conn, releases>> /\ call[r].pc = "start"
      /\ call[r] \in CallType /\ available \in Seq(Conns)
  BY TypeFacts DEF Start, PoolTypes
<1>2. PICK q2 : /\ Is(r, q2) /\ q2.stream = call[r].stream
                /\ \A c \in ToSet(available) : c \in ToSet(available') \/ Holds(q2, c)
  BY <1>1, GetConnectionKeeps
<1>3. Keeps(r, q2)
  BY <1>1, <1>2 DEF Keeps, Holds, Used, Pooled, Releasing
<1> QED BY <1>3, KeepsStep

LEMMA ProbeKeeps ==
  ASSUME TypeInv, KeptInv, UNCHANGED env, NEW r \in Callers, Probe(r)
  PROVE  KeptInv'
<1> DEFINE q == call[r]
           c == q.conn
           q2 == [q EXCEPT !.pc = "connecting", !.conn = NoConn]
<1>1. /\ q \in CallType /\ conn \in [Conns -> ConnStates]
      /\ UNCHANGED <<available, releases>>
  BY TypeFacts DEF Probe
<1>2. CASE conn[c] = "reset"
  <2>1. Is(r, AfterConnectionError(q)) /\ conn' = conn
    BY <1>2 DEF Probe
  <2>2. Keeps(r, AfterConnectionError(q))
    BY <1>1, <1>2, <2>1, StreamKept DEF Keeps, Holds, Pooled, Releasing
  <2> QED BY <2>2, KeepsStep
<1>3. CASE conn[c] # "reset"
  <2>1. conn' = Discarded(c) /\ Is(r, q2)
    BY <1>3 DEF Probe, IsDropped
  <2>2. q2.stream = q.stream
    BY <1>1 DEF CallType
  <2> HIDE DEF q2
  <2>3. \A d \in Conns : conn'[d] = "open" => conn[d] = "open" /\ d # c
    BY <1>1, <2>1 DEF Discarded
  <2>4. Keeps(r, q2)
    BY <1>1, <2>1, <2>2, <2>3 DEF Keeps, Holds, Pooled, Releasing
  <2> QED BY <2>4, KeepsStep
<1> QED BY <1>2, <1>3

LEMMA ConnectKeeps ==
  ASSUME TypeInv, KeptInv, UNCHANGED env, NEW r \in Callers, Connect(r)
  PROVE  KeptInv'
<1> DEFINE q == call[r]
<1>1. /\ CallOK(q) /\ q \in CallType /\ q.pc = "connecting" /\ UNCHANGED <<available, releases>>
      /\ conn \in [Conns -> ConnStates]
  BY TypeFacts DEF Connect
<1>2. PICK c \in Conns : conn' = [conn EXCEPT ![c] = "open"] /\ Is(r, Sends(q, c))
  BY DEF Connect
<1>3. Sends(q, c).conn = c /\ Sends(q, c).pc = "headers"
  BY <1>1, SendsOK
<1>4. Sends(q, c).stream = q.stream
  BY <1>1 DEF Sends, CallType
<1>5. Keeps(r, Sends(q, c))
  BY <1>1, <1>2, <1>3, <1>4 DEF Keeps, Holds, Used, Pooled, Releasing
<1> QED BY <1>5, KeepsStep

\* Where somebody gives up, the environment is not orderly.
LEMMA GiveUpKeeps ==
  ASSUME TypeInv, KeptInv, UNCHANGED env, NEW r \in Callers,
         ConnectFails(r) \/ Timeout(r) \/ Abandon(r)
  PROVE  KeptInv'
<1>1. UNCHANGED conn /\ ~Orderly /\ call[r] \in CallType
  BY TypeFacts DEF ConnectFails, Timeout, Abandon, Orderly
<1>2. PICK q2 \in {AfterConnectionError(call[r]), Over("failed")} : Is(r, q2)
  BY DEF ConnectFails, Timeout, Abandon
<1>3. Keeps(r, q2)
  BY <1>1, <1>2, StreamKept DEF Keeps
<1> QED BY <1>3, KeepsStep

LEMMA BrokenKeeps ==
  ASSUME TypeInv, KeptInv, UNCHANGED env, NEW r \in Callers, Broken(r)
  PROVE  KeptInv'
<1> DEFINE q == call[r]
<1>1. /\ UNCHANGED <<available, releases>> /\ q \in CallType /\ conn[q.conn] # "open"
      /\ conn \in [Conns -> ConnStates]
  BY TypeFacts DEF Broken, pool
<1>2. \A c \in Conns : conn'[c] = "open" => conn[c] = "open"
  BY <1>1 DEF Broken
<1>3. PICK q2 \in {AfterConnectionError(q), Over("failed")} : Is(r, q2)
  BY DEF Broken
<1>4. Keeps(r, q2)
  BY <1>1, <1>2, <1>3, StreamKept DEF Keeps, Holds, Pooled, Releasing
<1> QED BY <1>4, KeepsStep

LEMMA AnswerKeeps ==
  ASSUME Inv, KeptInv, UNCHANGED env, NEW r \in Callers,
         NEW kind \in Kinds, NEW keep \in BOOLEAN, NEW redirect \in BOOLEAN,
         NEW again \in BOOLEAN, Answer(r, kind, keep, redirect, again)
  PROVE  KeptInv'
<1> DEFINE p == call[r]
           q == [p EXCEPT !.kind = kind, !.keep = keep, !.redirect = redirect, !.again = again]
           complete == IF NoBody(kind) THEN OnMessageComplete(q) ELSE <<>>
<1>0. /\ p \in CallType /\ PoolTypes /\ p.pc = "headers" /\ p.conn \in Conns
      /\ UNCHANGED conn /\ available \in Seq(Conns)
      /\ Orderly => kind \in {"full", "empty"}
      /\ Orderly /\ p.stream => ~again
  BY TypeFacts DEF Inv, UserInv, InUse, Used, Answer, PoolTypes, Kinds, Orderly, KeptInv
<1>1. /\ q \in CallType /\ q.conn = p.conn /\ q.stream = p.stream /\ q.redirect = redirect
      /\ q.kind = kind /\ q.again = again
  BY <1>0 DEF CallType
<1>2. (CASE q.stream /\ ~redirect ->
              Is(r, Returned(q)) /\ releases' = releases \o complete /\ UNCHANGED available
         [] (~q.stream \/ redirect) /\ kind = "full" ->
              /\ Is(r, [q EXCEPT !.pc = "body"])
              /\ releases' = releases \o complete
              /\ UNCHANGED available
         [] (~q.stream \/ redirect) /\ kind = "empty" ->
              /\ AfterContent(r, q)
              /\ releases' = releases \o complete \o OnMessageComplete(q)
         [] OTHER ->
              Is(r, Over("failed")) /\ releases' = releases \o complete /\ UNCHANGED available)
  BY DEF Answer
<1>3. /\ OnMessageComplete(q) \in Tasks /\ Released(OnMessageComplete(q)) = {p.conn}
      /\ complete \in Tasks
      /\ kind = "empty" => Released(complete) = {p.conn}
  BY <1>0, <1>1, CompleteProps, NoTasks DEF NoBody
<1>4. /\ releases \o complete \in Tasks
      /\ Released(releases \o complete) = Releasing \cup Released(complete)
  BY <1>0, <1>3, ReleasedAppend DEF PoolTypes, Releasing
<1>5. Released(releases \o complete \o OnMessageComplete(q))
        = Releasing \cup Released(complete) \cup {p.conn}
  BY <1>3, <1>4, ReleasedAppend
<1> HIDE DEF q, complete
<1>6. CASE q.stream /\ ~redirect
  <2>1. Is(r, Returned(q)) /\ releases' = releases \o complete /\ available' = available
    BY <1>2, <1>6
  <2>2. Returned(q).stream => p.stream
    BY <1>1, StreamKept
  <2>3. Pooled' = Pooled \cup Released(complete)
    BY <1>4, <2>1 DEF Pooled, Releasing
  <2>4. ASSUME Orderly, kind = "full" PROVE Holds(Returned(q), p.conn)
    <3>1. Returned(q) = [q EXCEPT !.pc = "streaming"]
      BY <1>0, <1>1, <1>6, <2>4 DEF Returned
    <3> QED BY <1>1, <2>4, <3>1 DEF CallType, Holds, Used
  <2>5. Keeps(r, Returned(q))
    BY <1>0, <1>3, <2>1, <2>2, <2>3, <2>4 DEF Keeps, Holds
  <2> QED BY <2>5, KeepsStep DEF Inv
<1>7. CASE (~q.stream \/ redirect) /\ kind = "full"
  <2> DEFINE q2 == [q EXCEPT !.pc = "body"]
  <2>1. Is(r, q2) /\ releases' = releases \o complete /\ available' = available
    BY <1>2, <1>7
  <2>2. q2.stream = p.stream /\ Holds(q2, p.conn)
    BY <1>1 DEF CallType, Holds, Used
  <2> HIDE DEF q2
  <2>3. Pooled' = Pooled \cup Released(complete)
    BY <1>4, <2>1 DEF Pooled, Releasing
  <2>4. Keeps(r, q2)
    BY <1>0, <2>1, <2>2, <2>3 DEF Keeps, Holds
  <2> QED BY <2>4, KeepsStep DEF Inv
<1>8. CASE (~q.stream \/ redirect) /\ kind = "empty"
  <2>1. AfterContent(r, q) /\ releases' = releases \o complete \o OnMessageComplete(q)
    BY <1>2, <1>8
  <2>2. PICK q2 : /\ Is(r, q2) /\ (q2.stream => q.stream)
                  /\ \A c \in ToSet(available) : c \in ToSet(available') \/ Holds(q2, c)
    BY <1>0, <1>1, <2>1, AfterContentKeeps
  <2>3. Releasing' = Releasing \cup Released(complete) \cup {p.conn}
    BY <1>5, <2>1 DEF Releasing
  <2>4. Keeps(r, q2)
    BY <1>0, <1>1, <2>2, <2>3 DEF Keeps, Holds, Pooled
  <2> QED BY <2>4, KeepsStep DEF Inv
<1>9. CASE (~q.stream \/ redirect) /\ kind \notin {"full", "empty"}
  <2>1. Is(r, Over("failed"))
    BY <1>2, <1>9
  <2>2. Keeps(r, Over("failed"))
    BY <1>0, <1>9, <2>1, StreamKept DEF Keeps
  <2> QED BY <2>2, KeepsStep DEF Inv
<1> QED BY <1>1, <1>6, <1>7, <1>8, <1>9

LEMMA ContentKeeps ==
  ASSUME Inv, KeptInv, UNCHANGED env, NEW r \in Callers, Content(r)
  PROVE  KeptInv'
<1> DEFINE q == call[r]
<1>0. /\ q \in CallType /\ PoolTypes /\ q.pc = "body" /\ UNCHANGED conn
      /\ available \in Seq(Conns)
      /\ releases' = releases \o OnMessageComplete(q) /\ AfterContent(r, q)
  BY TypeFacts DEF Inv, Content, PoolTypes
<1>1. q.conn \in Conns
  BY <1>0 DEF Inv, UserInv, InUse, Used
<1>2. Releasing' = Releasing \cup {q.conn}
  BY <1>0, <1>1, CompleteProps, ReleasedAppend DEF PoolTypes, Releasing
<1>3. PICK q2 : /\ Is(r, q2) /\ (q2.stream => q.stream)
                /\ \A c \in ToSet(available) : c \in ToSet(available') \/ Holds(q2, c)
  BY <1>0, AfterContentKeeps
<1>4. Keeps(r, q2)
  BY <1>0, <1>2, <1>3 DEF Keeps, Holds, Pooled
<1> QED BY <1>4, KeepsStep DEF Inv

\* An empty response was brought back when its headers came.
LEMMA ReadStreamKeeps ==
  ASSUME Inv, KeptInv, UNCHANGED env, NEW r \in Callers, NEW whole \in BOOLEAN,
         ReadStream(r, whole)
  PROVE  KeptInv'
<1> DEFINE q == call[r]
<1>0. /\ q \in CallType /\ PoolTypes /\ q.pc = "streaming" /\ q.conn \in Conns
      /\ UNCHANGED <<conn, available>>
  BY TypeFacts DEF Inv, UserInv, ReadStream, pool
<1>1. /\ \/ releases' = releases \o OnMessageComplete(q)
         \/ releases' = releases /\ q.kind # "full"
      /\ Is(r, Over("done")) \/ Is(r, Over("failed"))
  BY DEF ReadStream
<1>2. Released(releases \o OnMessageComplete(q)) = Releasing \cup {q.conn}
  BY <1>0, CompleteProps, ReleasedAppend DEF PoolTypes, Releasing
<1>3. Releasing \subseteq Releasing' /\ (q.kind = "full" => q.conn \in Releasing')
  BY <1>1, <1>2 DEF Releasing
<1>4. PICK pc \in {"done", "failed"} : Is(r, Over(pc))
  BY <1>1
<1>5. Keeps(r, Over(pc))
  BY <1>0, <1>3, <1>4, StreamKept DEF Keeps, Holds, Used, Pooled
<1> QED BY <1>5, KeepsStep DEF Inv

LEMMA PoolKeepsStep ==
  ASSUME KeptInv, UNCHANGED <<env, call>>, ~Orderly \/ PoolKeeps
  PROVE  KeptInv'
BY DEF KeptInv, PoolKeeps, Orderly, Holds, Used

LEMMA ReleaseKeeps ==
  ASSUME TypeInv, KeptInv, UNCHANGED env, Release
  PROVE  KeptInv'
<1> DEFINE c == Head(releases).conn
<1>0. /\ available \in Seq(Conns) /\ releases \in Tasks /\ releases # <<>>
      /\ releases' = Tail(releases) /\ conn \in [Conns -> ConnStates] /\ UNCHANGED call
  BY TypeFacts DEF Release, PoolTypes
<1>1. Releasing \subseteq Releasing' \cup {c} /\ c \in Conns
  BY <1>0, HeadAndTail, ReleasedTail DEF Releasing
<1>2. \/ available' = <<c>> \o available /\ UNCHANGED conn
      \/ conn' = Discarded(c) /\ UNCHANGED available
  BY DEF Release
<1> HIDE DEF c
<1>3. ToSet(<<c>> \o available) = {c} \cup ToSet(available)
  BY <1>0, <1>1, AppendLeftProps
<1>4. PoolKeeps
  <2>1. CASE available' = <<c>> \o available /\ UNCHANGED conn
    BY <1>1, <1>3, <2>1 DEF PoolKeeps, Pooled
  <2>2. CASE conn' = Discarded(c) /\ UNCHANGED available
    <3>1. \A d \in Conns : conn'[d] = "open" => conn[d] = "open" /\ d # c
      BY <1>0, <2>2 DEF Discarded
    <3> QED BY <1>1, <2>2, <3>1 DEF PoolKeeps, Pooled
  <2> QED BY <1>2, <2>1, <2>2
<1> QED BY <1>0, <1>4, PoolKeepsStep

LEMMA KeptStep == Inv /\ KeptInv /\ [Next]_vars => KeptInv'
<1> SUFFICES ASSUME Inv, KeptInv, [Next]_vars PROVE KeptInv'
  OBVIOUS
<1>0. TypeInv /\ conn \in [Conns -> ConnStates]
  BY TypeFacts DEF Inv
<1>1. ASSUME UNCHANGED vars PROVE KeptInv'
  <2>1. UNCHANGED <<env, call>> /\ PoolKeeps
    BY <1>1 DEF vars, work, pool, PoolKeeps, Pooled, Releasing
  <2> QED BY <2>1, PoolKeepsStep
<1>2. ASSUME Next PROVE KeptInv'
  <2>0. UNCHANGED env
    BY <1>2 DEF Next
  <2>1. ASSUME NEW r \in Callers, Call(r) \/ Start(r) \/ Probe(r) PROVE KeptInv'
    BY <1>0, <2>0, <2>1, CallKeeps, StartKeeps, ProbeKeeps
  <2>2. ASSUME NEW r \in Callers, Connects(r) PROVE KeptInv'
    BY <1>0, <2>0, <2>2, ConnectKeeps, GiveUpKeeps DEF Connects
  <2>3. ASSUME NEW r \in Callers, Answers(r) PROVE KeptInv'
    BY <1>0, <2>0, <2>3, AnswerKeeps, ContentKeeps, BrokenKeeps DEF Answers
  <2>4. ASSUME NEW r \in Callers, Reads(r) PROVE KeptInv'
    BY <2>0, <2>4, ReadStreamKeeps DEF Reads
  <2>5. ASSUME NEW r \in Callers, Timeout(r) \/ Abandon(r) PROVE KeptInv'
    BY <1>0, <2>0, <2>5, GiveUpKeeps
  <2>6. ASSUME Release PROVE KeptInv'
    BY <1>0, <2>0, <2>6, ReleaseKeeps
  <2>7. ASSUME Close PROVE KeptInv'
    <3>1. UNCHANGED call /\ PoolKeeps
      BY <1>0, <2>7 DEF Close, pool, PoolKeeps, Pooled, Releasing
    <3> QED BY <2>0, <3>1, PoolKeepsStep
  <2>8. ASSUME NEW c \in Conns, NEW how \in {"eof", "reset"}, PeerEnds(c, how) PROVE KeptInv'
    <3>1. UNCHANGED call /\ ~Orderly
      BY <2>8 DEF PeerEnds, Orderly
    <3> QED BY <2>0, <3>1, PoolKeepsStep
  <2> QED BY <1>2, <2>1, <2>2, <2>3, <2>4, <2>5, <2>6, <2>7, <2>8 DEF Next
<1> QED BY <1>1, <1>2

\* Without failures, timeouts, dropped and odd responses no connection is
\* lost: one that is open is in the pool, or on its way back, or a call has it.
THEOREM Kept == Spec => []NoConnectionIsLost
<1>1. Init => KeptInv
  <2>1. SUFFICES ASSUME Init PROVE KeptInv
    OBVIOUS
  <2>2. \A r \in Callers : ~call[r].stream
    <3>1. ~Over("done").stream
      BY DEF Over, NewCall
    <3> QED BY <2>1, <3>1 DEF Init
  <2>3. \A c \in Conns : conn[c] # "open"
    BY <2>1 DEF Init
  <2> QED BY <2>2, <2>3 DEF KeptInv
<1>2. TypeInv /\ KeptInv => NoConnectionIsLost
  <2>1. ASSUME TypeInv, KeptInv, Orderly, NEW c \in known, conn[c] = "open"
        PROVE  \/ c \in ToSet(available) \cup Releasing
               \/ \E r \in Callers : call[r].conn = c
    <3>1. c \in Conns
      BY <2>1, TypeFacts
    <3> QED BY <2>1, <3>1 DEF KeptInv, Holds, Pooled
  <2> QED BY <2>1 DEF NoConnectionIsLost, Orderly
<1>3. Inv => TypeInv
  BY DEF Inv
<1> QED BY <1>1, <1>2, <1>3, KeptStep, Invariant, PTL DEF Spec
=============================================================================
