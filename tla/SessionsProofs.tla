--------------------------- MODULE SessionsProofs ---------------------------
(***************************************************************************)
(* Theorems about Sessions, for any set of browsers and any number of      *)
(* requests:                                                               *)
(*                                                                         *)
(*   TypeCorrect   the type invariant, in every habit                      *)
(*   Kept          a session holds what its browser was told of, and       *)
(*                 nothing of other browsers                               *)
(*                                                                         *)
(* The files alone do not say whose they are: FileInv ties each to the     *)
(* browser of the request it is named for, CookieInv each cookie to its    *)
(* file and to what was acknowledged, and RunInv carries both through a    *)
(* running request, whose cookie and knowledge stay current because its    *)
(* browser has no other request meanwhile (TurnInv).                       *)
(***************************************************************************)
EXTENDS Sessions, SequenceTheorems, TLAPS

FileValues == {None, Empty} \cup SUBSET Ids
Stages == {"handler", "writing", "done"}

Request ==
    [browser : Browsers, cookie : Ids \cup {None}, at : Stages,
     session : {None} \cup SessionRecord, knew : SUBSET Ids, loaded : FileValues]

TypeInv ==
    /\ odd \in Habits
    /\ files \in [Ids -> FileValues]
    /\ cookies \in [Browsers -> Ids \cup {None}]
    /\ acked \in [Browsers -> SUBSET Ids]
    /\ requests \in Seq(Request) /\ Len(requests) <= MaxRequests
    /\ \A r \in Begun : requests[r].at = "writing" => requests[r].session # None

DoneOf(b) == {r \in Of(b) : requests[r].at = "done"}

\* A file belongs to the browser of the request it is named for, and holds
\* changes of its ended requests only.
FileOK(id) ==
    /\ files[id] \in SUBSET Ids /\ id \in Begun
    /\ files[id] \subseteq DoneOf(requests[id].browser)

FileInv == \A id \in Ids : files[id] # None => FileOK(id)

\* The file of a browser's cookie exists, is its own and has what it knows.
CookieInv ==
    \A b \in Browsers :
        /\ cookies[b] # None => /\ files[cookies[b]] # None
                                /\ requests[cookies[b]].browser = b
                                /\ acked[b] \subseteq files[cookies[b]]
        /\ cookies[b] = None => acked[b] = {}

\* Browsers wait for their answers, and save does not suspend.
TurnInv ==
    /\ \A r \in Begun : requests[r].at # "writing"
    /\ \A r, s \in Running : requests[r].browser = requests[s].browser => r = s

SessionOK(r, q) ==
    /\ q.loaded # None
    /\ q.session.uuid = IF q.cookie = None THEN r ELSE q.cookie
    /\ q.knew \subseteq q.session.values
    /\ q.session.values \ {r} \subseteq DoneOf(q.browser)
    /\ r \in q.session.values => q.session.pendingFlush

RunOK(r) ==
    /\ requests[r].cookie = cookies[requests[r].browser]
    /\ requests[r].knew = acked[requests[r].browser]
    /\ requests[r].session # None => SessionOK(r, requests[r])

RunInv == \A r \in Running : RunOK(r)

LoadOK(r) ==
    requests[r].loaded # None =>
        /\ requests[r].knew \subseteq requests[r].loaded
        /\ requests[r].loaded \subseteq Of(requests[r].browser)

LoadInv == \A r \in Begun : LoadOK(r)

Inv == FileInv /\ CookieInv /\ TurnInv /\ RunInv /\ LoadInv

-----------------------------------------------------------------------------
(***************************************************************************)
(* Requests.                                                               *)
(***************************************************************************)

LEMMA Numbers ==
  ASSUME TypeInv
  PROVE  /\ Begun = 1..Len(requests) /\ Len(requests) \in Nat /\ Begun \subseteq Ids
         /\ \A r \in Begun : requests[r] \in Request
<1>1. requests \in Seq(Request) /\ Len(requests) \in Nat /\ Begun = 1..Len(requests)
  BY LenProperties DEF TypeInv, Begun
<1>2. Begun \subseteq Ids
  BY <1>1, RequestsAssumption DEF TypeInv, Ids
<1> QED BY <1>1, <1>2, ElementOfSeq

\* One request becomes q, the others stay.
Becomes(r, q) ==
    /\ requests' \in Seq(Request) /\ Len(requests') = Len(requests) /\ Begun' = Begun
    /\ requests'[r] = q
    /\ \A s \in Begun \ {r} : requests'[s] = requests[s]

LEMMA Replace ==
  ASSUME TypeInv, NEW r \in Begun, NEW q \in Request, requests' = [requests EXCEPT ![r] = q]
  PROVE  Becomes(r, q)
<1>1. requests \in Seq(Request) /\ r \in 1..Len(requests)
  BY Numbers DEF TypeInv
<1>2. /\ requests' \in Seq(Request) /\ Len(requests') = Len(requests)
      /\ \A j \in 1..Len(requests) : requests'[j] = IF j = r THEN q ELSE requests[j]
  BY <1>1, ExceptSeq
<1>3. Begun' = Begun
  BY <1>1, <1>2, LenProperties DEF Begun
<1> QED BY <1>1, <1>2, <1>3, Numbers DEF Becomes

LEMMA Stepped ==
  ASSUME TypeInv, NEW r \in Begun, NEW at \in Stages, NEW session \in {None} \cup SessionRecord,
         Step(r, at, session)
  PROVE  \E q \in Request :
            /\ Becomes(r, q)
            /\ q.at = at /\ q.session = session
            /\ q.browser = requests[r].browser /\ q.cookie = requests[r].cookie
            /\ q.knew = requests[r].knew /\ q.loaded = requests[r].loaded
<1> DEFINE p == requests[r]
           q == [p EXCEPT !.at = at, !.session = session]
<1>1. p \in Request /\ requests \in Seq(Request) /\ r \in 1..Len(requests)
  BY Numbers DEF TypeInv
<1>2. requests' = [requests EXCEPT ![r] = q]
  BY <1>1, LenProperties DEF Step
<1> HIDE DEF p
<1>3. /\ q \in Request /\ q.at = at /\ q.session = session
      /\ q.browser = p.browser /\ q.cookie = p.cookie /\ q.knew = p.knew /\ q.loaded = p.loaded
  BY <1>1 DEF Request
<1> HIDE DEF q
<1>4. Becomes(r, q)
  BY <1>2, <1>3, Replace
<1> QED BY <1>3, <1>4 DEF p

\* Load in one form: the request as it is afterwards.
LEMMA LoadResult ==
  ASSUME TypeInv, NEW r \in Begun, Load(r)
  PROVE  LET p == requests[r]
             known == p.cookie # None /\ files[p.cookie] # None
             values == IF known THEN files[p.cookie] ELSE {}
         IN  /\ p.at = "handler" /\ p.session = None /\ UNCHANGED <<odd, files, cookies, acked>>
             /\ values \in FileValues
             /\ \E q \in Request :
                  /\ Becomes(r, q) /\ q.loaded = values
                  /\ q.browser = p.browser /\ q.cookie = p.cookie /\ q.knew = p.knew
                  /\ values = Empty => q.at = "done" /\ q.session = None
                  /\ values # Empty =>
                       /\ q.at = "handler"
                       /\ q.session \in SessionRecord
                       /\ q.session.uuid = (IF known THEN p.cookie ELSE r)
                       /\ q.session.values = values /\ ~q.session.pendingFlush
<1> DEFINE p == requests[r]
           known == p.cookie # None /\ files[p.cookie] # None
           values == IF known THEN files[p.cookie] ELSE {}
           id == IF known THEN p.cookie ELSE r
           session == Session(id, values)
<1>1. /\ p \in Request /\ r \in Ids /\ p.at = "handler" /\ p.session = None
      /\ UNCHANGED <<odd, files, cookies, acked>>
  BY Numbers DEF Load
<1>2. id \in Ids /\ values \in FileValues \ {None}
  <2>1. CASE known
    BY <1>1, <2>1 DEF Request, TypeInv
  <2>2. CASE ~known
    BY <1>1, <2>2, NoneAssumption DEF FileValues
  <2> QED BY <2>1, <2>2
<1>3. session.values = values /\ session.uuid = id /\ session.pendingFlush = FALSE
      /\ session = [uuid |-> id, values |-> values, pendingFlush |-> FALSE]
  BY DEF Session
<1>4. requests' = IF session.values = Empty
                  THEN [requests EXCEPT ![r].at = "done", ![r].loaded = Empty]
                  ELSE [requests EXCEPT ![r].session = session, ![r].loaded = session.values]
  BY DEF Load
<1> HIDE DEF session, id, values, known
<1>5. CASE values = Empty
  <2>1. requests' = [requests EXCEPT ![r] = [p EXCEPT !.at = "done", !.session = None, !.loaded = Empty]]
    <3>1. [p EXCEPT !.at = "done", !.session = None, !.loaded = Empty]
            = [p EXCEPT !.at = "done", !.loaded = Empty]
      BY <1>1 DEF Request
    <3>2. requests' = [requests EXCEPT ![r] = [p EXCEPT !.at = "done", !.loaded = Empty]]
      BY <1>3, <1>4, <1>5, LenProperties DEF TypeInv
    <3> QED BY <3>1, <3>2
  <2>2. "done" \in Stages /\ Empty \in FileValues /\ None \in {None} \cup SessionRecord
    BY DEF Stages, FileValues
  <2> DEFINE q == [p EXCEPT !.at = "done", !.session = None, !.loaded = Empty]
  <2>3. /\ q \in Request /\ q.at = "done" /\ q.session = None /\ q.loaded = Empty
        /\ q.browser = p.browser /\ q.cookie = p.cookie /\ q.knew = p.knew
    <3> HIDE DEF p
    <3> QED BY <1>1, <2>2 DEF Request
  <2> HIDE DEF q
  <2>4. Becomes(r, q)
    BY <2>1, <2>3, Replace DEF q
  <2> QED BY <1>1, <1>2, <1>5, <2>3, <2>4 DEF values, known
<1>6. CASE values # Empty
  <2>1. values \in SUBSET Ids
    BY <1>2, <1>6 DEF FileValues
  <2>2. session \in SessionRecord
    BY <1>2, <1>3, <2>1 DEF SessionRecord
  <2>3. requests' = [requests EXCEPT ![r] = [p EXCEPT !.at = "handler", !.session = session, !.loaded = values]]
    <3>1. [p EXCEPT !.at = "handler", !.session = session, !.loaded = values]
            = [p EXCEPT !.session = session, !.loaded = values]
      BY <1>1 DEF Request
    <3>2. requests' = [requests EXCEPT ![r] = [p EXCEPT !.session = session, !.loaded = values]]
      BY <1>3, <1>4, <1>6, LenProperties DEF TypeInv
    <3> QED BY <3>1, <3>2
  <2>4. "handler" \in Stages /\ session \in {None} \cup SessionRecord /\ values \in FileValues
    BY <1>2, <2>2 DEF Stages
  <2> DEFINE q == [p EXCEPT !.at = "handler", !.session = session, !.loaded = values]
  <2>5. /\ q \in Request /\ q.at = "handler" /\ q.session = session /\ q.loaded = values
        /\ q.browser = p.browser /\ q.cookie = p.cookie /\ q.knew = p.knew
    <3> HIDE DEF p
    <3> QED BY <1>1, <2>4 DEF Request
  <2> HIDE DEF q
  <2>6. Becomes(r, q)
    BY <2>3, <2>5, Replace DEF q
  <2> QED BY <1>1, <1>2, <1>3, <1>6, <2>2, <2>5, <2>6 DEF values, known, id
<1> QED BY <1>5, <1>6

LEMMA Arrived ==
  ASSUME TypeInv, NEW b \in Browsers, Arrive(b)
  PROVE  LET n == Len(requests) + 1
         IN  \E q \in Request :
                /\ requests' \in Seq(Request) /\ Len(requests') = n /\ n <= MaxRequests
                /\ Begun' = Begun \cup {n} /\ n \in Ids /\ n \notin Begun
                /\ requests'[n] = q
                /\ \A s \in Begun : requests'[s] = requests[s]
                /\ q.browser = b /\ q.cookie = cookies[b] /\ q.knew = acked[b]
                /\ q.at = "handler" /\ q.session = None /\ q.loaded = None
<1> DEFINE n == Len(requests) + 1
           q == [browser |-> b, cookie |-> cookies[b], at |-> "handler", session |-> None,
                 knew |-> acked[b], loaded |-> None]
<1>1. /\ requests \in Seq(Request) /\ Len(requests) \in Nat /\ Len(requests) < MaxRequests
      /\ requests' = Append(requests, q) /\ Begun = 1..Len(requests)
  BY Numbers DEF TypeInv, Arrive
<1>2. q \in Request
  BY DEF Request, TypeInv, Stages, FileValues
<1>3. q.browser = b /\ q.cookie = cookies[b] /\ q.knew = acked[b]
      /\ q.at = "handler" /\ q.session = None /\ q.loaded = None
  OBVIOUS
<1> HIDE DEF q
<1>4. /\ requests' \in Seq(Request) /\ Len(requests') = n
      /\ \A s \in 1..Len(requests) : requests'[s] = requests[s]
      /\ requests'[n] = q
  BY <1>1, <1>2, AppendProperties
<1>5. Begun' = 1..n
  BY <1>4, LenProperties DEF Begun
<1>6. Begun' = Begun \cup {n} /\ n \in Ids /\ n \notin Begun /\ n <= MaxRequests
  BY <1>1, <1>5, RequestsAssumption DEF Ids
<1> QED BY <1>1, <1>2, <1>3, <1>4, <1>6

\* What an answer changes, for its browser alone.
LEMMA AnswerProps ==
  ASSUME TypeInv, NEW r \in Begun, NEW cookie \in Ids \cup {None}, Answer(r, cookie)
  PROVE  LET b == requests[r].browser
             session == requests[r].session
         IN  /\ cookies' \in [Browsers -> Ids \cup {None}]
             /\ acked' \in [Browsers -> SUBSET Ids]
             /\ \A c \in Browsers \ {b} : cookies'[c] = cookies[c] /\ acked'[c] = acked[c]
             /\ \/ cookies'[b] = cookies[b] /\ acked'[b] = acked[b]
                \/ /\ cookies'[b] = IF cookie = None THEN cookies[b] ELSE cookie
                   /\ acked'[b] = IF session = None THEN acked[b]
                                  ELSE acked[b] \cup (session.values \cap {r})
<1> DEFINE b == requests[r].browser
           session == requests[r].session
<1>1. b \in Browsers /\ session \in {None} \cup SessionRecord
  BY Numbers DEF Request
<1>2. CASE UNCHANGED <<cookies, acked>>
  BY <1>2 DEF TypeInv
<1>3. CASE /\ cookies' = [cookies EXCEPT ![b] = IF cookie = None THEN @ ELSE cookie]
           /\ acked' = [acked EXCEPT ![b] =
                            IF session = None THEN @ ELSE @ \cup (session.values \cap {r})]
  <2> HIDE DEF b, session
  <2>1. session # None => session.values \cap {r} \in SUBSET Ids
    BY <1>1 DEF SessionRecord
  <2>2. cookies[b] \in Ids \cup {None} /\ acked[b] \in SUBSET Ids
    BY <1>1 DEF TypeInv
  <2>3. cookies' \in [Browsers -> Ids \cup {None}] /\ acked' \in [Browsers -> SUBSET Ids]
    BY <1>3, <2>1, <2>2 DEF TypeInv
  <2>4. /\ \A c \in Browsers \ {b} : cookies'[c] = cookies[c] /\ acked'[c] = acked[c]
        /\ cookies'[b] = IF cookie = None THEN cookies[b] ELSE cookie
        /\ acked'[b] = IF session = None THEN acked[b] ELSE acked[b] \cup (session.values \cap {r})
    BY <1>1, <1>3 DEF TypeInv
  <2> QED BY <2>3, <2>4 DEF b, session
<1> QED BY <1>2, <1>3 DEF Answer

-----------------------------------------------------------------------------
(***************************************************************************)
(* The type invariant.                                                     *)
(***************************************************************************)

LEMMA TypeBecomes ==
  ASSUME TypeInv, UNCHANGED odd, NEW r \in Begun, NEW q \in Request, Becomes(r, q),
         q.at = "writing" => q.session # None,
         files' \in [Ids -> FileValues], cookies' \in [Browsers -> Ids \cup {None}],
         acked' \in [Browsers -> SUBSET Ids]
  PROVE  TypeInv'
<1>1. \A s \in Begun : requests'[s].at = "writing" => requests'[s].session # None
  BY DEF Becomes, TypeInv
<1> QED BY <1>1 DEF Becomes, TypeInv

LEMMA Values ==
  ASSUME TypeInv, NEW r \in Begun
  PROVE  /\ requests[r].session \in {None} \cup SessionRecord
         /\ requests[r].at \in Stages /\ requests[r].browser \in Browsers
         /\ requests[r].session # None =>
              /\ requests[r].session.uuid \in Ids
              /\ requests[r].session.values \in SUBSET Ids
              /\ requests[r].session \in SessionRecord
BY Numbers DEF Request, SessionRecord

LEMMA ChangedType ==
  ASSUME NEW session \in SessionRecord, NEW r \in Ids
  PROVE  /\ Changed(session, r) \in SessionRecord /\ ChangedWithin(session, r) \in SessionRecord
         /\ Changed(session, r).values = session.values \cup {r}
         /\ Changed(session, r).uuid = session.uuid
         /\ Changed(session, r).pendingFlush
BY DEF Changed, ChangedWithin, SessionRecord

LEMMA FileWrites ==
  ASSUME TypeInv, NEW r \in Begun, requests[r].session # None
  PROVE  /\ [files EXCEPT ![requests[r].session.uuid] = requests[r].session.values]
              \in [Ids -> FileValues]
         /\ [files EXCEPT ![requests[r].session.uuid] = Empty] \in [Ids -> FileValues]
<1> DEFINE u == requests[r].session.uuid
           v == requests[r].session.values
<1>1. u \in Ids /\ v \in FileValues /\ Empty \in FileValues /\ files \in [Ids -> FileValues]
  BY Values DEF FileValues, TypeInv
<1> HIDE DEF u, v
<1>2. [files EXCEPT ![u] = v] \in [Ids -> FileValues]
      /\ [files EXCEPT ![u] = Empty] \in [Ids -> FileValues]
  BY <1>1
<1> QED BY <1>2 DEF u, v

LEMMA TypeStep == TypeInv /\ [SessionsNext]_sessionVars => TypeInv'
<1> SUFFICES ASSUME TypeInv, [SessionsNext]_sessionVars PROVE TypeInv'
  OBVIOUS
<1>0. /\ files \in [Ids -> FileValues] /\ cookies \in [Browsers -> Ids \cup {None}]
      /\ acked \in [Browsers -> SUBSET Ids]
      /\ {"handler", "writing", "done"} \subseteq Stages
  BY DEF TypeInv, Stages
<1>1. ASSUME UNCHANGED sessionVars PROVE TypeInv'
  BY <1>1 DEF TypeInv, sessionVars, Begun
<1>2. ASSUME NEW b \in Browsers, Arrive(b) PROVE TypeInv'
  <2>1. UNCHANGED <<odd, files, cookies, acked>>
    BY <1>2 DEF Arrive
  <2> DEFINE n == Len(requests) + 1
  <2>2. PICK q \in Request :
                /\ requests' \in Seq(Request) /\ Len(requests') = n /\ n <= MaxRequests
                /\ Begun' = Begun \cup {n}
                /\ requests'[n] = q
                /\ \A s \in Begun : requests'[s] = requests[s]
                /\ q.at = "handler"
    BY <1>2, Arrived
  <2> HIDE DEF n
  <2>3. \A s \in Begun' : requests'[s].at = "writing" => requests'[s].session # None
    BY <2>2 DEF TypeInv
  <2> QED BY <2>1, <2>2, <2>3 DEF TypeInv
<1>3. ASSUME NEW r \in Begun, Load(r) PROVE TypeInv'
  <2>1. UNCHANGED <<odd, files, cookies, acked>>
    BY <1>3 DEF Load
  <2>2. PICK q \in Request : Becomes(r, q) /\ q.at # "writing"
    BY <1>3, LoadResult
  <2> QED BY <1>0, <2>1, <2>2, TypeBecomes
<1>4. ASSUME NEW r \in Begun, Change(r) PROVE TypeInv'
  <2> DEFINE session == requests[r].session
  <2>1. UNCHANGED <<odd, files, cookies, acked>> /\ session \in SessionRecord /\ r \in Ids
    BY <1>4, Values, Numbers DEF Change
  <2>2. Step(r, "handler", Changed(session, r)) \/ Step(r, "handler", ChangedWithin(session, r))
    BY <1>4 DEF Change
  <2>3. PICK s \in SessionRecord : Step(r, "handler", s)
    BY <2>1, <2>2, ChangedType
  <2>4. PICK q \in Request : Becomes(r, q) /\ q.at = "handler"
    BY <1>0, <2>3, Stepped
  <2> QED BY <1>0, <2>1, <2>4, TypeBecomes
<1>5. ASSUME NEW r \in Begun, Flush(r) PROVE TypeInv'
  <2> DEFINE session == requests[r].session
  <2>1. UNCHANGED odd /\ session \in {None} \cup SessionRecord
    BY <1>5, Values DEF Flush
  <2>2. CASE ~PendingFlush(r)
    <3>1. Step(r, "done", session) /\ Answer(r, None) /\ files' = files
      BY <1>5, <2>2 DEF Flush
    <3>2. PICK q \in Request : Becomes(r, q) /\ q.at = "done"
      BY <1>0, <2>1, <3>1, Stepped
    <3>3. cookies' \in [Browsers -> Ids \cup {None}] /\ acked' \in [Browsers -> SUBSET Ids]
      BY <3>1, AnswerProps
    <3> QED BY <1>0, <2>1, <3>1, <3>2, <3>3, TypeBecomes
  <2>3. CASE PendingFlush(r) /\ {"workers", "crash"} \cap odd # {}
    <3>1. /\ Step(r, "writing", session) /\ session # None
          /\ files' = [files EXCEPT ![session.uuid] = Empty] /\ UNCHANGED <<cookies, acked>>
      BY <1>5, <2>3 DEF Flush, PendingFlush
    <3>2. PICK q \in Request : Becomes(r, q) /\ q.at = "writing" /\ q.session = session
      BY <1>0, <2>1, <3>1, Stepped
    <3> QED BY <1>0, <2>1, <3>1, <3>2, FileWrites, TypeBecomes
  <2>4. CASE PendingFlush(r) /\ {"workers", "crash"} \cap odd = {}
    <3>1. /\ Step(r, "done", session) /\ session # None
          /\ files' = [files EXCEPT ![session.uuid] = session.values]
          /\ Answer(r, session.uuid)
      BY <1>5, <2>4 DEF Flush, PendingFlush
    <3>2. PICK q \in Request : Becomes(r, q) /\ q.at = "done"
      BY <1>0, <2>1, <3>1, Stepped
    <3>3. cookies' \in [Browsers -> Ids \cup {None}] /\ acked' \in [Browsers -> SUBSET Ids]
      BY <3>1, AnswerProps, Values
    <3> QED BY <1>0, <2>1, <3>1, <3>2, <3>3, FileWrites, TypeBecomes
  <2> QED BY <2>2, <2>3, <2>4
<1>6. ASSUME NEW r \in Begun, Write(r) PROVE TypeInv'
  <2> DEFINE session == requests[r].session
  <2>1. /\ UNCHANGED odd /\ session \in {None} \cup SessionRecord /\ session # None
        /\ Step(r, "done", session) /\ Answer(r, session.uuid)
        /\ files' = [files EXCEPT ![session.uuid] = session.values]
    BY <1>6, Values DEF Write, TypeInv
  <2>2. PICK q \in Request : Becomes(r, q) /\ q.at = "done"
    BY <1>0, <2>1, Stepped
  <2>3. cookies' \in [Browsers -> Ids \cup {None}] /\ acked' \in [Browsers -> SUBSET Ids]
    BY <2>1, AnswerProps, Values
  <2> QED BY <1>0, <2>1, <2>2, <2>3, FileWrites, TypeBecomes
<1>7. ASSUME NEW r \in Begun, Cancel(r) \/ Crash(r) PROVE TypeInv'
  <2>1. /\ UNCHANGED <<odd, files, cookies, acked>>
        /\ Step(r, "done", requests[r].session)
    BY <1>7 DEF Cancel, Crash
  <2>2. PICK q \in Request : Becomes(r, q) /\ q.at = "done"
    BY <1>0, <2>1, Stepped, Values
  <2> QED BY <1>0, <2>1, <2>2, TypeBecomes
<1> QED BY <1>1, <1>2, <1>3, <1>4, <1>5, <1>6, <1>7 DEF SessionsNext

LEMMA TypeInit == SessionsInit => TypeInv
<1> SUFFICES ASSUME SessionsInit PROVE TypeInv
  OBVIOUS
<1>1. requests = <<>> /\ <<>> \in Seq(Request) /\ Len(<<>>) = 0
  BY EmptySeq DEF SessionsInit, NoSessions
<1>2. Begun = {}
  BY <1>1, LenProperties DEF Begun
<1> QED BY <1>1, <1>2, RequestsAssumption
        DEF SessionsInit, NoSessions, TypeInv, FileValues

LEMMA TypeInvariant == SessionsSpec => []TypeInv
BY TypeInit, TypeStep, PTL DEF SessionsSpec

\* Files, cookies and stages have their types, whatever is odd about the
\* browsers and workers (sessions/files.py, request.pyx).
THEOREM TypeCorrect == SessionsSpec => []SessionType
<1>1. TypeInv => SessionType
  <2>1. ASSUME TypeInv, NEW r \in Begun PROVE requests[r].at \in {"handler", "writing", "done"}
    BY <2>1, Values DEF Stages
  <2> QED BY <2>1 DEF TypeInv, SessionType, FileValues
<1> QED BY <1>1, TypeInvariant, PTL

-----------------------------------------------------------------------------
(***************************************************************************)
(* What a step of one request means for the others, where nothing is odd.  *)
(***************************************************************************)

\* Request r, which runs, becomes q.
Moves(r, q) ==
    /\ r \in Running /\ Becomes(r, q)
    /\ q.at \in {"handler", "done"}
    /\ q.browser = requests[r].browser /\ q.cookie = requests[r].cookie
    /\ q.knew = requests[r].knew
    /\ q.at = "handler" /\ q.session # None => SessionOK(r, q)
    /\ q.loaded # None => q.knew \subseteq q.loaded /\ q.loaded \subseteq Of(q.browser)

LEMMA Grows ==
  ASSUME TypeInv, NEW r, NEW q, Moves(r, q)
  PROVE  \A b : Of(b)' = Of(b) /\ DoneOf(b) \subseteq DoneOf(b)'
<1>1. /\ r \in Begun /\ requests[r].at # "done" /\ Begun' = Begun /\ requests'[r] = q
      /\ q.browser = requests[r].browser
      /\ \A s \in Begun \ {r} : requests'[s] = requests[s]
  BY DEF Moves, Becomes, Running
<1>2. \A s \in Begun : requests'[s].browser = requests[s].browser
  BY <1>1
<1>3. \A b : Of(b)' = Of(b)
  BY <1>1, <1>2 DEF Of
<1>4. \A s \in Begun : requests[s].at = "done" => requests'[s].at = "done"
  BY <1>1
<1>5. \A b : DoneOf(b) \subseteq DoneOf(b)'
  <2>1. SUFFICES ASSUME NEW b, NEW s \in DoneOf(b) PROVE s \in DoneOf(b)'
    OBVIOUS
  <2>2. s \in Of(b) /\ s \in Begun /\ requests[s].at = "done"
    BY <2>1 DEF DoneOf, Of
  <2> QED BY <1>3, <1>4, <2>2 DEF DoneOf
<1> QED BY <1>3, <1>5

LEMMA OthersGoOn ==
  ASSUME TypeInv, Inv, NEW r, NEW q, Moves(r, q),
         \A b \in Browsers : b # q.browser \/ q.at = "handler"
             => cookies'[b] = cookies[b] /\ acked'[b] = acked[b]
  PROVE  TurnInv' /\ RunInv' /\ LoadInv'
<1>1. /\ r \in Begun /\ requests[r].at # "done" /\ Begun' = Begun /\ requests'[r] = q
      /\ q.browser = requests[r].browser /\ q.at \in {"handler", "done"}
      /\ \A s \in Begun \ {r} : requests'[s] = requests[s]
      /\ q.browser \in Browsers
  BY Values DEF Moves, Becomes, Running
<1>2. \A b : Of(b)' = Of(b) /\ DoneOf(b) \subseteq DoneOf(b)'
  BY Grows
<1>3. /\ Running' \subseteq Running
      /\ \A s \in Begun : requests'[s].browser = requests[s].browser
  BY <1>1 DEF Running
<1>4. TurnInv'
  <2>1. \A s \in Begun : requests'[s].at # "writing"
    BY <1>1 DEF Inv, TurnInv
  <2>2. ASSUME NEW s \in Running', NEW t \in Running', requests'[s].browser = requests'[t].browser
        PROVE  s = t
    BY <1>3, <2>2 DEF Inv, TurnInv, Running
  <2> QED BY <1>1, <2>1, <2>2 DEF TurnInv
<1>5. ASSUME NEW s \in Running' PROVE RunOK(s)'
  <2>1. s \in Running /\ s \in Begun /\ RunOK(s) /\ requests[s].browser \in Browsers
    BY <1>3, Values DEF Inv, RunInv, Running
  <2>2. CASE s = r
    <3>1. q.at = "handler"
      BY <1>1, <2>2 DEF Running
    <3>2. q.session # None => SessionOK(r, q)'
      BY <1>2, <3>1 DEF Moves, SessionOK
    <3>3. q.cookie = cookies'[q.browser] /\ q.knew = acked'[q.browser]
      BY <1>1, <2>1, <2>2, <3>1 DEF Moves, RunOK
    <3> QED BY <1>1, <2>2, <3>2, <3>3 DEF RunOK, SessionOK
  <2>3. CASE s # r
    <3>1. requests'[s] = requests[s] /\ requests[s].browser # q.browser
      BY <1>1, <2>1, <2>3 DEF Inv, TurnInv, Running
    <3>2. requests[s].session # None => SessionOK(s, requests[s])'
      BY <1>2, <2>1, <3>1 DEF RunOK, SessionOK
    <3>3. requests[s].cookie = cookies'[requests[s].browser]
          /\ requests[s].knew = acked'[requests[s].browser]
      BY <2>1, <3>1 DEF RunOK
    <3> QED BY <3>1, <3>2, <3>3 DEF RunOK, SessionOK
  <2> QED BY <2>2, <2>3
<1>6. ASSUME NEW s \in Begun PROVE LoadOK(s)'
  <2>1. CASE s = r
    BY <1>1, <1>2, <2>1 DEF Moves, LoadOK
  <2>2. CASE s # r
    <3>1. requests'[s] = requests[s] /\ LoadOK(s)
      BY <1>1, <2>2 DEF Inv, LoadInv
    <3> QED BY <1>2, <3>1 DEF LoadOK
  <2> QED BY <2>1, <2>2
<1> QED BY <1>1, <1>4, <1>5, <1>6 DEF RunInv, LoadInv

LEMMA FilesStay ==
  ASSUME TypeInv, Inv, NEW r, NEW q, Moves(r, q), UNCHANGED <<files, cookies, acked>>
  PROVE  Inv'
<1>1. \A b : DoneOf(b) \subseteq DoneOf(b)'
  BY Grows
<1>2. Begun' = Begun /\ \A s \in Begun : requests'[s].browser = requests[s].browser
  BY DEF Moves, Becomes
<1>3. FileInv'
  <2>1. ASSUME NEW id \in Ids, files[id] # None PROVE FileOK(id)'
    <3>1. FileOK(id)
      BY <2>1 DEF Inv, FileInv
    <3>2. PICK b : b = requests[id].browser
      OBVIOUS
    <3>3. files[id] \subseteq DoneOf(b) /\ DoneOf(b) \subseteq DoneOf(b)'
      BY <1>1, <3>1, <3>2 DEF FileOK
    <3>4. requests'[id].browser = b /\ files[id] \in SUBSET Ids /\ id \in Begun'
      BY <1>2, <3>1, <3>2 DEF FileOK
    <3> QED BY <3>3, <3>4 DEF FileOK, DoneOf, Of
  <2> QED BY <2>1 DEF FileInv
<1>4. CookieInv'
  <2>1. ASSUME NEW b \in Browsers, cookies[b] # None
        PROVE  /\ files[cookies[b]] # None /\ requests'[cookies[b]].browser = b
               /\ acked[b] \subseteq files[cookies[b]]
    <3>1. /\ files[cookies[b]] # None /\ requests[cookies[b]].browser = b
          /\ acked[b] \subseteq files[cookies[b]] /\ cookies[b] \in Ids
      BY <2>1 DEF Inv, CookieInv, TypeInv
    <3>2. cookies[b] \in Begun
      BY <3>1 DEF Inv, FileInv, FileOK
    <3> QED BY <1>2, <3>1, <3>2
  <2> QED BY <2>1 DEF Inv, CookieInv
<1>5. TurnInv' /\ RunInv' /\ LoadInv'
  BY OthersGoOn
<1> QED BY <1>3, <1>4, <1>5 DEF Inv

\* A session is saved under its browser's cookie, or its request's number.
LEMMA FileSaved ==
  ASSUME TypeInv, Inv, NEW r \in Running, NEW q, Moves(r, q), q.at = "done",
         NEW b, b = requests[r].browser, requests[r].session # None,
         files' = [files EXCEPT ![requests[r].session.uuid] = requests[r].session.values],
         Answer(r, requests[r].session.uuid)
  PROVE  Inv'
<1> DEFINE u == requests[r].session.uuid
           v == requests[r].session.values
<1>0. /\ r \in Begun /\ b \in Browsers /\ u \in Ids /\ v \in SUBSET Ids /\ v # None /\ u # None
      /\ files \in [Ids -> FileValues]
  <2>1. r \in Begun /\ files \in [Ids -> FileValues]
    BY DEF Running, TypeInv
  <2>2. b \in Browsers /\ u \in Ids /\ v \in SUBSET Ids
    BY <2>1, Values
  <2> QED BY <2>1, <2>2, NoneAssumption
<1>1. /\ requests[r].cookie = cookies[b] /\ requests[r].knew = acked[b]
      /\ u = (IF requests[r].cookie = None THEN r ELSE requests[r].cookie)
      /\ requests[r].knew \subseteq v /\ v \ {r} \subseteq DoneOf(b)
  BY <1>0 DEF Inv, RunInv, RunOK, SessionOK
<1>2. u \in Begun /\ requests[u].browser = b
  <2>1. CASE cookies[b] = None
    BY <1>0, <1>1, <2>1
  <2>2. CASE cookies[b] # None
    <3>1. u = cookies[b] /\ files[u] # None /\ requests[u].browser = b
      BY <1>0, <1>1, <2>2 DEF Inv, CookieInv
    <3> QED BY <1>0, <3>1 DEF Inv, FileInv, FileOK
  <2> QED BY <2>1, <2>2
<1>3. /\ Begun' = Begun /\ requests'[r] = q /\ q.browser = b
      /\ \A s \in Begun : requests'[s].browser = requests[s].browser
      /\ \A c : DoneOf(c) \subseteq DoneOf(c)'
  BY <1>0, Grows DEF Moves, Becomes
<1>4. /\ \A c \in Browsers \ {b} : cookies'[c] = cookies[c] /\ acked'[c] = acked[c]
      /\ \/ cookies'[b] = cookies[b] /\ acked'[b] = acked[b]
         \/ cookies'[b] = u /\ acked'[b] = acked[b] \cup (v \cap {r})
  <2> DEFINE session == requests[r].session
  <2>1. u \in Ids \cup {None} /\ u # None /\ session # None /\ v = session.values /\ Answer(r, u)
    BY <1>0
  <2> HIDE DEF u
  <2>2. /\ \A c \in Browsers \ {b} : cookies'[c] = cookies[c] /\ acked'[c] = acked[c]
        /\ \/ cookies'[b] = cookies[b] /\ acked'[b] = acked[b]
           \/ /\ cookies'[b] = IF u = None THEN cookies[b] ELSE u
              /\ acked'[b] = IF session = None THEN acked[b] ELSE acked[b] \cup (session.values \cap {r})
    BY <1>0, <2>1, AnswerProps
  <2> QED
    BY <2>1, <2>2
<1>5. files'[u] = v /\ \A id \in Ids \ {u} : files'[id] = files[id]
  BY <1>0
<1>6. v \subseteq DoneOf(b)'
  <2>1. r \in DoneOf(b)'
    BY <1>0, <1>3 DEF DoneOf, Of
  <2> QED BY <1>1, <1>3, <2>1
<1> HIDE DEF u, v
<1>7. FileInv'
  <2>1. ASSUME NEW id \in Ids, files'[id] # None PROVE FileOK(id)'
    <3>1. CASE id = u
      <4>1. files'[id] = v /\ requests'[id].browser = b /\ id \in Begun'
        BY <1>2, <1>3, <1>5, <3>1
      <4> QED BY <1>0, <1>6, <4>1 DEF FileOK, DoneOf, Of
    <3>2. CASE id # u
      <4>1. files'[id] = files[id]
        BY <1>5, <3>2
      <4>2. FileOK(id)
        BY <2>1, <4>1 DEF Inv, FileInv
      <4>3. PICK c : c = requests[id].browser
        OBVIOUS
      <4>4. files[id] \subseteq DoneOf(c) /\ DoneOf(c) \subseteq DoneOf(c)'
        BY <1>3, <4>2, <4>3 DEF FileOK
      <4>5. requests'[id].browser = c /\ files'[id] \in SUBSET Ids /\ id \in Begun'
        BY <1>3, <4>1, <4>2, <4>3 DEF FileOK
      <4> QED BY <4>1, <4>4, <4>5 DEF FileOK, DoneOf, Of
    <3> QED BY <3>1, <3>2
  <2> QED BY <2>1 DEF FileInv
<1>8. CookieInv'
  <2>1. ASSUME NEW c \in Browsers \ {b}
        PROVE  /\ cookies'[c] # None =>
                     /\ files'[cookies'[c]] # None
                     /\ requests'[cookies'[c]].browser = c
                     /\ acked'[c] \subseteq files'[cookies'[c]]
               /\ cookies'[c] = None => acked'[c] = {}
    <3>1. cookies'[c] = cookies[c] /\ acked'[c] = acked[c] /\ cookies[c] \in Ids \cup {None}
      BY <1>4 DEF TypeInv
    <3>2. CASE cookies[c] = None
      BY <3>1, <3>2 DEF Inv, CookieInv
    <3>3. CASE cookies[c] # None
      <4>1. /\ cookies[c] \in Ids /\ files[cookies[c]] # None /\ requests[cookies[c]].browser = c
            /\ acked[c] \subseteq files[cookies[c]]
        BY <3>1, <3>3 DEF Inv, CookieInv
      <4>2. cookies[c] \in Begun
        BY <4>1 DEF Inv, FileInv, FileOK
      <4>3. cookies[c] # u
        BY <1>2, <4>1
      <4> QED BY <1>3, <1>5, <3>1, <3>3, <4>1, <4>2, <4>3
    <3> QED BY <3>2, <3>3
  <2>2. /\ cookies'[b] # None =>
              /\ files'[cookies'[b]] # None
              /\ requests'[cookies'[b]].browser = b
              /\ acked'[b] \subseteq files'[cookies'[b]]
        /\ cookies'[b] = None => acked'[b] = {}
    <3>1. acked[b] \subseteq v
      BY <1>1
    <3>2. CASE cookies'[b] = u /\ acked'[b] = acked[b] \cup (v \cap {r})
      BY <1>0, <1>2, <1>3, <1>5, <3>1, <3>2
    <3>3. CASE cookies'[b] = cookies[b] /\ acked'[b] = acked[b]
      <4>1. CASE cookies[b] = None
        BY <1>0, <3>3, <4>1 DEF Inv, CookieInv
      <4>2. CASE cookies[b] # None
        BY <1>0, <1>1, <1>2, <1>3, <1>5, <3>1, <3>3, <4>2
      <4> QED BY <4>1, <4>2
    <3> QED BY <1>4, <3>2, <3>3
  <2> QED BY <2>1, <2>2 DEF CookieInv
<1>9. TurnInv' /\ RunInv' /\ LoadInv'
  <2>1. \A c \in Browsers : c # q.browser \/ q.at = "handler"
             => cookies'[c] = cookies[c] /\ acked'[c] = acked[c]
    BY <1>3, <1>4
  <2> QED BY <2>1, OthersGoOn
<1> QED BY <1>7, <1>8, <1>9 DEF Inv

-----------------------------------------------------------------------------
(***************************************************************************)
(* The invariant, action by action.                                        *)
(***************************************************************************)

LEMMA ArriveStep ==
  ASSUME TypeInv, Inv, odd = {}, NEW b \in Browsers, Arrive(b)
  PROVE  Inv'
<1> DEFINE n == Len(requests) + 1
<1>1. UNCHANGED <<files, cookies, acked>> /\ Of(b) \cap Running = {}
  BY DEF Arrive
<1>2. PICK q \in Request :
                /\ Begun' = Begun \cup {n} /\ n \notin Begun
                /\ requests'[n] = q
                /\ \A s \in Begun : requests'[s] = requests[s]
                /\ q.browser = b /\ q.cookie = cookies[b] /\ q.knew = acked[b]
                /\ q.at = "handler" /\ q.session = None /\ q.loaded = None
  BY Arrived
<1> HIDE DEF n
<1>3. /\ \A c : Of(c) \subseteq Of(c)' /\ DoneOf(c) \subseteq DoneOf(c)'
      /\ Running' = Running \cup {n}
  BY <1>2 DEF Of, DoneOf, Running
<1>4. ASSUME NEW id \in Ids, files[id] # None PROVE FileOK(id)'
  <2>1. FileOK(id)
    BY <1>4 DEF Inv, FileInv
  <2>2. PICK c : c = requests[id].browser
    OBVIOUS
  <2>3. files[id] \subseteq DoneOf(c)'
    BY <1>3, <2>1, <2>2 DEF FileOK
  <2>4. requests'[id].browser = c /\ files'[id] = files[id] /\ files[id] \in SUBSET Ids
        /\ id \in Begun'
    BY <1>1, <1>2, <2>1, <2>2 DEF FileOK
  <2> QED BY <2>3, <2>4 DEF FileOK, DoneOf, Of
<1>5. CookieInv'
  <2>1. ASSUME NEW c \in Browsers, cookies[c] # None
        PROVE  /\ files[cookies[c]] # None /\ requests'[cookies[c]].browser = c
               /\ acked[c] \subseteq files[cookies[c]]
    <3>1. /\ files[cookies[c]] # None /\ requests[cookies[c]].browser = c
          /\ acked[c] \subseteq files[cookies[c]] /\ cookies[c] \in Ids
      BY <2>1 DEF Inv, CookieInv, TypeInv
    <3>2. cookies[c] \in Begun
      BY <3>1 DEF Inv, FileInv, FileOK
    <3> QED BY <1>2, <3>1, <3>2
  <2> QED BY <1>1, <2>1 DEF Inv, CookieInv
<1>6. TurnInv'
  <2>1. \A s \in Begun' : requests'[s].at # "writing"
    BY <1>2 DEF Inv, TurnInv
  <2>2. \A s \in Running : requests[s].browser # b /\ requests'[s] = requests[s]
    BY <1>1, <1>2 DEF Of, Running
  <2>3. \A s, t \in Running' : requests'[s].browser = requests'[t].browser => s = t
    BY <1>2, <1>3, <2>2 DEF Inv, TurnInv
  <2> QED BY <2>1, <2>3 DEF TurnInv
<1>7. ASSUME NEW s \in Running' PROVE RunOK(s)'
  <2>1. CASE s = n
    BY <1>1, <1>2, <2>1 DEF RunOK
  <2>2. CASE s # n
    <3>1. s \in Running /\ RunOK(s) /\ requests'[s] = requests[s]
      BY <1>2, <1>3, <2>2 DEF Inv, RunInv, Running
    <3>2. requests[s].session # None => SessionOK(s, requests[s])'
      BY <1>3, <3>1 DEF RunOK, SessionOK
    <3> QED BY <1>1, <3>1, <3>2 DEF RunOK, SessionOK
  <2> QED BY <2>1, <2>2
<1>8. ASSUME NEW s \in Begun' PROVE LoadOK(s)'
  <2>1. CASE s = n
    BY <1>2, <2>1 DEF LoadOK
  <2>2. CASE s # n
    <3>1. requests'[s] = requests[s] /\ LoadOK(s)
      BY <1>2, <2>2 DEF Inv, LoadInv
    <3> QED BY <1>3, <3>1 DEF LoadOK
  <2> QED BY <2>1, <2>2
<1>9. FileInv'
  BY <1>1, <1>4 DEF FileInv
<1> QED BY <1>5, <1>6, <1>7, <1>8, <1>9 DEF Inv, RunInv, LoadInv

\* The file of a browser's cookie has what the browser knows.
LEMMA LoadStep ==
  ASSUME TypeInv, Inv, NEW r \in Begun, Load(r)
  PROVE  Inv'
<1> DEFINE p == requests[r]
           known == p.cookie # None /\ files[p.cookie] # None
           values == IF known THEN files[p.cookie] ELSE {}
<1>1. /\ p.at = "handler" /\ p.session = None /\ UNCHANGED <<files, cookies, acked>>
      /\ p.browser \in Browsers /\ r \in Running
  BY LoadResult, Values DEF Running
<1>2. PICK q \in Request :
        /\ Becomes(r, q) /\ q.loaded = values
        /\ q.browser = p.browser /\ q.cookie = p.cookie /\ q.knew = p.knew
        /\ values = Empty => q.at = "done" /\ q.session = None
        /\ values # Empty =>
             /\ q.at = "handler"
             /\ q.session \in SessionRecord
             /\ q.session.uuid = (IF known THEN p.cookie ELSE r)
             /\ q.session.values = values /\ ~q.session.pendingFlush
  BY LoadResult
<1>3. p.cookie = cookies[p.browser] /\ p.knew = acked[p.browser]
  BY <1>1 DEF Inv, RunInv, RunOK
<1>4. /\ values \in SUBSET Ids /\ values # Empty /\ values # None
      /\ p.knew \subseteq values /\ values \subseteq DoneOf(p.browser)
      /\ (IF known THEN p.cookie ELSE r) = (IF p.cookie = None THEN r ELSE p.cookie)
  <2>1. CASE p.cookie = None
    <3>1. values = {}
      BY <2>1
    <3>2. cookies[p.browser] = None
      BY <1>3, <2>1
    <3>3. acked[p.browser] = {}
      <4> HIDE DEF p
      <4> QED BY <1>1, <3>2 DEF Inv, CookieInv
    <3> QED BY <1>3, <2>1, <3>1, <3>3, NoneAssumption
  <2>2. CASE p.cookie # None
    <3>1. /\ files[p.cookie] # None /\ requests[p.cookie].browser = p.browser
          /\ acked[p.browser] \subseteq files[p.cookie] /\ p.cookie \in Ids
      BY <1>1, <1>3, <2>2 DEF Inv, CookieInv, TypeInv
    <3>2. FileOK(p.cookie)
      BY <3>1 DEF Inv, FileInv
    <3>3. values = files[p.cookie]
      BY <2>2, <3>1
    <3> QED BY <1>3, <2>2, <3>1, <3>2, <3>3, NoneAssumption DEF FileOK
  <2> QED BY <2>1, <2>2
<1>5. r \notin DoneOf(p.browser)
  BY <1>1 DEF DoneOf
<1> HIDE DEF p, known, values
<1>6. Moves(r, q)
  <2>1. SessionOK(r, q)
    BY <1>2, <1>4, <1>5 DEF SessionOK
  <2>2. DoneOf(p.browser) \subseteq Of(p.browser)
    BY DEF DoneOf
  <2> QED BY <1>1, <1>2, <1>4, <2>1, <2>2 DEF Moves, p
<1> QED BY <1>1, <1>6, FilesStay

LEMMA ChangeStep ==
  ASSUME TypeInv, Inv, odd = {}, NEW r \in Begun, Change(r)
  PROVE  Inv'
<1> DEFINE p == requests[r]
           session == Changed(p.session, r)
<1>1. /\ p.at = "handler" /\ p.session # None /\ UNCHANGED <<files, cookies, acked>>
      /\ Step(r, "handler", session) /\ r \in Running
  BY DEF Change, Running
<1>2. /\ p.session \in SessionRecord /\ r \in Ids /\ session \in SessionRecord
      /\ session.values = p.session.values \cup {r} /\ session.uuid = p.session.uuid
      /\ session.pendingFlush
  BY <1>1, Values, Numbers, ChangedType
<1> HIDE DEF session
<1>3. PICK q \in Request :
        /\ Becomes(r, q) /\ q.at = "handler" /\ q.session = session
        /\ q.browser = p.browser /\ q.cookie = p.cookie /\ q.knew = p.knew /\ q.loaded = p.loaded
  BY <1>1, <1>2, Stepped DEF Stages
<1>4. SessionOK(r, p) /\ LoadOK(r)
  BY <1>1 DEF Inv, RunInv, RunOK, LoadInv
<1>5. SessionOK(r, q)
  BY <1>2, <1>3, <1>4 DEF SessionOK
<1>6. Moves(r, q)
  BY <1>1, <1>3, <1>4, <1>5 DEF Moves, LoadOK
<1> QED BY <1>1, <1>6, FilesStay

\* The request ends; what it has loaded stays as it was.
LEMMA EndsMoves ==
  ASSUME TypeInv, Inv, NEW r \in Running, Step(r, "done", requests[r].session)
  PROVE  \E q \in Request : Moves(r, q) /\ q.at = "done"
<1>1. r \in Begun /\ requests[r].session \in {None} \cup SessionRecord /\ "done" \in Stages
  BY Values DEF Running, Stages
<1>2. PICK q \in Request :
        /\ Becomes(r, q) /\ q.at = "done"
        /\ q.browser = requests[r].browser /\ q.cookie = requests[r].cookie
        /\ q.knew = requests[r].knew /\ q.loaded = requests[r].loaded
  BY <1>1, Stepped
<1>3. LoadOK(r)
  BY <1>1 DEF Inv, LoadInv
<1> QED BY <1>2, <1>3 DEF Moves, LoadOK

LEMMA FlushStep ==
  ASSUME TypeInv, Inv, odd = {}, NEW r \in Begun, Flush(r)
  PROVE  Inv'
<1> DEFINE session == requests[r].session
<1>1. /\ requests[r].at = "handler" /\ r \in Running /\ Step(r, "done", session)
  BY DEF Flush, Running
<1>2. PICK q \in Request : Moves(r, q) /\ q.at = "done"
  BY <1>1, EndsMoves
<1>3. CASE PendingFlush(r)
  <2>1. /\ session # None /\ files' = [files EXCEPT ![session.uuid] = session.values]
        /\ Answer(r, session.uuid)
    BY <1>3 DEF Flush, PendingFlush
  <2>2. PICK b : b = requests[r].browser
    OBVIOUS
  <2> QED BY <1>1, <1>2, <2>1, <2>2, FileSaved
<1>4. CASE ~PendingFlush(r)
  <2>1. files' = files /\ Answer(r, None)
    BY <1>4 DEF Flush
  <2> DEFINE b == requests[r].browser
  <2>2. session # None => session.values \cap {r} = {}
    BY <1>1, <1>4 DEF Inv, RunInv, RunOK, SessionOK, PendingFlush
  <2>3. /\ cookies' \in [Browsers -> Ids \cup {None}] /\ acked' \in [Browsers -> SUBSET Ids]
        /\ \A c \in Browsers : cookies'[c] = cookies[c] /\ acked'[c] = acked[c]
    <3>1. /\ cookies' \in [Browsers -> Ids \cup {None}] /\ acked' \in [Browsers -> SUBSET Ids]
          /\ \A c \in Browsers \ {b} : cookies'[c] = cookies[c] /\ acked'[c] = acked[c]
          /\ \/ cookies'[b] = cookies[b] /\ acked'[b] = acked[b]
             \/ /\ cookies'[b] = cookies[b]
                /\ acked'[b] = IF session = None THEN acked[b]
                               ELSE acked[b] \cup (session.values \cap {r})
      BY <2>1, AnswerProps
    <3>2. session # None => acked[b] \cup (session.values \cap {r}) = acked[b]
      BY <2>2
    <3>3. cookies'[b] = cookies[b] /\ acked'[b] = acked[b]
      BY <3>1, <3>2
    <3> QED BY <3>1, <3>3
  <2>4. cookies' = cookies /\ acked' = acked
    BY <2>3 DEF TypeInv
  <2> QED BY <1>2, <2>1, <2>4, FilesStay
<1> QED BY <1>3, <1>4

LEMMA InvStep == TypeInv /\ (odd = {} => Inv) /\ [SessionsNext]_sessionVars => (odd = {} => Inv)'
<1> SUFFICES ASSUME TypeInv, odd = {} => Inv, [SessionsNext]_sessionVars, odd' = {}
             PROVE  Inv'
  OBVIOUS
<1>1. ASSUME UNCHANGED sessionVars PROVE Inv'
  <2>1. UNCHANGED <<odd, files, cookies, requests, acked>> /\ Inv
    BY <1>1 DEF sessionVars
  <2> QED BY <2>1
          DEF Inv, FileInv, FileOK, CookieInv, TurnInv, RunInv, RunOK, SessionOK, LoadInv, LoadOK,
              Begun, Running, Of, DoneOf
<1>2. ASSUME SessionsNext PROVE odd = {}
  BY <1>2 DEF SessionsNext, Arrive, Load, Change, Flush, Write, Cancel, Crash
<1>3. ASSUME NEW b \in Browsers, Arrive(b) PROVE Inv'
  BY <1>2, <1>3, ArriveStep DEF SessionsNext
<1>4. ASSUME NEW r \in Begun, Load(r) PROVE Inv'
  BY <1>2, <1>4, LoadStep DEF SessionsNext
<1>5. ASSUME NEW r \in Begun, Change(r) PROVE Inv'
  BY <1>2, <1>5, ChangeStep DEF SessionsNext
<1>6. ASSUME NEW r \in Begun, Flush(r) PROVE Inv'
  BY <1>2, <1>6, FlushStep DEF SessionsNext
<1>7. ASSUME NEW r \in Begun, Cancel(r) PROVE Inv'
  <2>1. /\ UNCHANGED <<files, cookies, acked>> /\ r \in Running /\ Inv
        /\ Step(r, "done", requests[r].session)
    BY <1>2, <1>7 DEF Cancel, Running, SessionsNext
  <2>2. PICK q \in Request : Moves(r, q)
    BY <2>1, EndsMoves
  <2> QED BY <2>1, <2>2, FilesStay
<1>8. ASSUME NEW r \in Begun, Write(r) \/ Crash(r) PROVE Inv'
  BY <1>2, <1>8 DEF Write, Crash, SessionsNext, Inv, TurnInv
<1> QED BY <1>1, <1>3, <1>4, <1>5, <1>6, <1>7, <1>8 DEF SessionsNext

LEMMA InvInit == SessionsInit => Inv
<1> SUFFICES ASSUME SessionsInit PROVE Inv
  OBVIOUS
<1>1. Begun = {}
  BY EmptySeq, LenProperties DEF SessionsInit, NoSessions, Begun
<1> QED BY <1>1 DEF SessionsInit, NoSessions, Inv, FileInv, CookieInv, TurnInv, RunInv, LoadInv,
                    Running

\* A handler finds in its session each change that its browser was told of,
\* and none that another browser made: nothing acknowledged is lost when
\* requests are cancelled or answers do not arrive (sessions/files.py).
THEOREM Kept == SessionsSpec => []SessionIsKept
<1>1. (odd = {} => Inv) => SessionIsKept
  BY DEF Inv, LoadInv, LoadOK, SessionIsKept
<1>2. SessionsSpec => [](odd = {} => Inv)
  BY TypeInvariant, InvInit, InvStep, PTL DEF SessionsSpec
<1> QED BY <1>1, <1>2, PTL
=============================================================================
