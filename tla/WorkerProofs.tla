---------------------------- MODULE WorkerProofs ----------------------------
(***************************************************************************)
(* One worker process, proved for any set of connections, all times and    *)
(* every environment: the types, the deadline of the shutdown and that     *)
(* nothing is cut before it (InTime, Graceful), the age of idle            *)
(* connections (IdleConnections) and that prompt clients never get it      *)
(* killed (Prompt).                                                        *)
(*                                                                         *)
(* The shutdown needs TimeInv, which ties the seconds that have passed to  *)
(* the grace that is left.  The reaper needs AgeInv: how old a connection  *)
(* may be depends on where the reaper is in its turn, on the turns since   *)
(* it last looked for idle connections (the counter modulo                 *)
(* keep_alive_timeout) and on whether the connection is still on its list. *)
(* ConnInv says what a connection's status shows of its request where no   *)
(* answer precedes the end of the request.                                 *)
(***************************************************************************)
EXTENDS Worker, Integers, TLAPS

-----------------------------------------------------------------------------
(* The reaper's counter.                                                   *)

\* A number has one remainder.
LEMMA Remainder ==
  ASSUME NEW k \in Nat, k > 0, NEW d \in Int, NEW e \in Int,
         NEW p \in 0..(k - 1), NEW r \in 0..(k - 1), k * d + p = k * e + r
  PROVE  p = r
<1>1. CASE d = e
  BY <1>1, SMT
<1>2. CASE d > e
  <2>1. PICK x \in Nat : d = e + 1 + x
    BY <1>2, SMT
  <2>2. k * d = k * e + k + k * x /\ k * x >= 0
    BY <2>1, SMT
  <2> QED
    BY <2>2, SMT
<1>3. CASE d < e
  <2>1. PICK x \in Nat : e = d + 1 + x
    BY <1>3, SMT
  <2>2. k * e = k * d + k + k * x /\ k * x >= 0
    BY <2>1, SMT
  <2> QED
    BY <2>2, SMT
<1> QED
  BY <1>1, <1>2, <1>3, SMT

LEMMA Divided ==
  ASSUME NEW k \in Nat, k > 0, NEW n \in Nat
  PROVE  /\ n % k \in 0..(k - 1)
         /\ n \div k \in Nat
         /\ n = k * (n \div k) + (n % k)
  BY SMT

LEMMA ModOf ==
  ASSUME NEW k \in Nat, k > 0, NEW n \in Nat, NEW d \in Int, NEW p \in 0..(k - 1),
         n = k * d + p
  PROVE  n % k = p
<1>1. n % k \in 0..(k - 1) /\ n \div k \in Int /\ k * (n \div k) + (n % k) = k * d + p
  BY Divided
<1> QED
  BY <1>1, Remainder

LEMMA PeriodIsANumber == Period \in Nat /\ Period > 0
<1>1. KeepAlive \in Nat /\ WorkerTimeout \in Nat /\ WorkerTimeout > 0
  BY TimesAssumption
<1>2. KeepAlive # 0 => WorkerTimeout * KeepAlive \in Nat /\ WorkerTimeout * KeepAlive > 0
  BY <1>1, SMT
<1> QED
  BY <1>1, <1>2 DEF Period

\* keep_alive_timeout divides the period of the counter.
LEMMA PeriodIsWhole ==
  ASSUME KeepAlive > 0
  PROVE  \E m \in Nat : Period = KeepAlive * m
<1>1. KeepAlive \in Nat /\ WorkerTimeout \in Nat
  BY TimesAssumption
<1>2. CASE WorkerTimeout % KeepAlive = 0
  <2>1. /\ WorkerTimeout \div KeepAlive \in Nat
        /\ WorkerTimeout = KeepAlive * (WorkerTimeout \div KeepAlive)
    BY <1>1, <1>2, Divided
  <2> QED
    BY <1>2, <2>1 DEF Period
<1>3. CASE WorkerTimeout % KeepAlive # 0
  BY <1>1, <1>3, SMT DEF Period
<1> QED
  BY <1>2, <1>3

\* What counting on, modulo the period, does to the turns since the reaper
\* last looked.
LEMMA NextTurn ==
  ASSUME KeepAlive > 0, NEW n \in 0..(Period - 1)
  PROVE  LET next == (n + 1) % Period
         IN  next % KeepAlive =
                IF (n % KeepAlive) + 1 = KeepAlive THEN 0 ELSE (n % KeepAlive) + 1
<1> DEFINE p == n % KeepAlive
           d == n \div KeepAlive
           next == (n + 1) % Period
<1>1. /\ KeepAlive \in Nat /\ Period \in Nat /\ Period > 0 /\ n \in Nat
      /\ p \in 0..(KeepAlive - 1) /\ d \in Nat /\ n = KeepAlive * d + p
  BY TimesAssumption, PeriodIsANumber, Divided
<1>2. n + 1 < Period => next = n + 1
  <2>1. n + 1 = Period * 0 + (n + 1)
    BY <1>1
  <2> QED
    BY <1>1, <2>1, ModOf
<1>3. n + 1 = Period => next = 0
  <2>1. Period = Period * 1 + 0
    BY <1>1
  <2> QED
    BY <1>1, <2>1, ModOf
<1>4. 0 % KeepAlive = 0
  <2>1. 0 = KeepAlive * 0 + 0
    BY <1>1
  <2> QED
    BY <1>1, <2>1, ModOf
<1>5. ASSUME p + 1 = KeepAlive PROVE (n + 1) % KeepAlive = 0
  <2>1. n + 1 = KeepAlive * (d + 1) + 0 /\ d + 1 \in Int /\ 0 \in 0..(KeepAlive - 1)
    <3>1. KeepAlive * (d + 1) = KeepAlive * d + KeepAlive
      BY <1>1, SMT
    <3> QED
      BY <1>1, <1>5, <3>1
  <2> QED
    BY <1>1, <2>1, ModOf
<1>6. p + 1 # KeepAlive => (n + 1) % KeepAlive = p + 1
  <2>1. p + 1 # KeepAlive => p + 1 \in 0..(KeepAlive - 1)
    BY <1>1
  <2>2. n + 1 = KeepAlive * d + (p + 1)
    BY <1>1
  <2> QED
    BY <1>1, <2>1, <2>2, ModOf
<1>7. n + 1 = Period => p + 1 = KeepAlive
  <2>1. PICK m \in Nat : Period = KeepAlive * m
    BY PeriodIsWhole
  <2>2. n + 1 = Period => (n + 1) % KeepAlive = 0
    <3>1. Period = KeepAlive * m + 0
      BY <1>1, <2>1
    <3>2. Period % KeepAlive = 0
      BY <1>1, <3>1, ModOf
    <3> QED
      BY <3>2
  <2> QED
    BY <1>1, <1>6, <2>2
<1>8. CASE n + 1 < Period
  BY <1>2, <1>5, <1>6, <1>8
<1>9. CASE n + 1 = Period
  BY <1>3, <1>4, <1>7, <1>9
<1> QED
  BY <1>1, <1>8, <1>9

-----------------------------------------------------------------------------
(* Types.                                                                  *)

LEMMA ClosedType ==
  /\ Closed \in ConnType
  /\ [Closed EXCEPT !.state = "none", !.stopped = FALSE] \in ConnType
<1>1. 0 \in 0..MaxAge /\ 0 \in 0..MaxAnswers
  BY TimesAssumption
<1> QED
  BY <1>1 DEF Closed, ConnType, States, ParserPCs, Pending

\* One more second, for a connection or for the cached time.
LEMMA OlderType ==
  ASSUME NEW n \in 0..MaxAge
  PROVE  /\ Older(n) \in 0..MaxAge
         /\ n <= Older(n) /\ Older(n) <= n + 1
         /\ n < MaxAge => Older(n) = n + 1
         /\ n >= MaxAge => Older(n) = n
  BY TimesAssumption DEF Older

\* Saturation is beyond the deadline of the shutdown.
LEMMA OlderAndGrace ==
  ASSUME NEW n \in 0..MaxAge, NEW g \in Nat
  PROVE  /\ n + g + 1 >= StopTimeout => Older(n) + g >= StopTimeout
         /\ n + g + 1 = StopTimeout => Older(n) + g = StopTimeout
<1>1. MaxAge \in Nat /\ StopTimeout \in Nat /\ StopTimeout < MaxAge
  BY TimesAssumption
<1>2. CASE n < MaxAge
  <2>1. Older(n) = n + 1
    BY <1>2 DEF Older
  <2> QED
    BY <1>1, <2>1
<1>3. CASE ~(n < MaxAge)
  <2>1. Older(n) = n /\ n = MaxAge
    BY <1>1, <1>3 DEF Older
  <2> QED
    BY <1>1, <2>1
<1> QED
  BY <1>2, <1>3

\* What the operations do to a connection.
LEMMA ConnOps ==
  ASSUME NEW k \in ConnType
  PROVE  /\ Stopped(k) \in ConnType
         /\ Aged(k) \in ConnType
<1>1. Stopped(k) \in ConnType
  BY ClosedType DEF Stopped, ConnType
<1>2. Aged(k) \in ConnType
  <2>1. k.age \in 0..MaxAge
    BY DEF ConnType
  <2>2. Older(k.age) \in 0..MaxAge
    BY <2>1, OlderType
  <2> QED
    BY <2>2 DEF Aged, ConnType
<1> QED
  BY <1>1, <1>2

LEMMA ReceivedOp ==
  ASSUME NEW k \in ConnType, NEW status \in {Pending, Receiving, Processing},
         NEW data \in BOOLEAN, NEW last \in BOOLEAN
  PROVE  LET n == Received(k, status, data, last)
         IN  /\ n \in ConnType
             /\ n.state = k.state /\ n.stopped = k.stopped
             /\ n.age = k.age /\ n.answers = k.answers
             /\ n.status = IF last THEN Processing ELSE status
             /\ n.parser = IF last THEN "idle" ELSE "body"
<1> DEFINE st == IF last THEN Processing ELSE status
           pc == IF last THEN "idle" ELSE "body"
<1>1. st \in {Pending, Receiving, Processing} /\ pc \in ParserPCs
  BY DEF ParserPCs
<1>2. Received(k, status, data, last) =
        [k EXCEPT !.status = st, !.parser = pc, !.paused = data]
  BY DEF Received
<1> HIDE DEF st, pc
<1>3. LET n == [k EXCEPT !.status = st, !.parser = pc, !.paused = data]
      IN  /\ n \in ConnType
          /\ n.state = k.state /\ n.stopped = k.stopped
          /\ n.age = k.age /\ n.answers = k.answers
          /\ n.status = st /\ n.parser = pc
  BY <1>1 DEF ConnType
<1> QED
  BY <1>2, <1>3 DEF st, pc

\* A request that is stamped, and has a task to answer it.
LEMMA StampedOp ==
  ASSUME NEW k \in ConnType, lag \in 0..MaxAge
  PROVE  /\ LET n == [k EXCEPT !.age = lag]
             IN  /\ n \in ConnType
                 /\ n.state = k.state /\ n.stopped = k.stopped /\ n.status = k.status
                 /\ n.parser = k.parser /\ n.age = lag /\ n.answers = k.answers
         /\ k.answers < MaxAnswers =>
             LET n == [k EXCEPT !.age = lag, !.answers = @ + 1]
             IN  /\ n \in ConnType
                 /\ n.state = k.state /\ n.stopped = k.stopped /\ n.status = k.status
                 /\ n.parser = k.parser /\ n.age = lag /\ n.answers = k.answers + 1
<1>1. k.answers \in Nat /\ MaxAnswers \in Nat
  BY TimesAssumption DEF ConnType
<1>2. k.answers < MaxAnswers => k.answers + 1 \in 0..MaxAnswers
  BY <1>1
<1> QED
  BY <1>2 DEF ConnType

LEMMA AnsweredOp ==
  ASSUME NEW k \in ConnType
  PROVE  /\ Answered(k) \in ConnType
         /\ Answered(k).status = Pending
         /\ KeepAlive = 0 => Answered(k) = Closed
         /\ KeepAlive # 0 => /\ Answered(k).age = k.age
                             /\ Answered(k).answers = k.answers
                             /\ Answered(k).parser = k.parser
                             /\ Answered(k).state \in {"draining", k.state}
<1>1. CASE KeepAlive = 0
  BY <1>1, ClosedType DEF Answered, Closed
<1>2. CASE KeepAlive # 0
  <2> DEFINE paused == k.paused /\ k.stopped
             state == IF k.stopped THEN "draining" ELSE k.state
             n == [k EXCEPT !.status = Pending, !.paused = paused, !.state = state]
  <2>1. paused \in BOOLEAN /\ state \in States /\ state \in {"draining", k.state}
    BY DEF ConnType, States
  <2>2. Answered(k) = n
    BY <1>2 DEF Answered
  <2> HIDE DEF paused, state
  <2>3. /\ n \in ConnType /\ n.status = Pending /\ n.age = k.age
        /\ n.answers = k.answers /\ n.parser = k.parser /\ n.state = state
    BY <2>1 DEF ConnType
  <2> QED
    BY <1>2, <2>1, <2>2, <2>3
<1> QED
  BY <1>1, <1>2

\* What the segments of a client, and the answers, do to their connection.
SegmentOf(c, k) ==
    \/ /\ PartialHeaders(c)
       /\ k.status = Receiving /\ k.parser = "head"
       /\ k.age = conn[c].age /\ k.answers = conn[c].answers
    \/ \E data, last \in BOOLEAN :
          /\ Headers(c, data, last)
          /\ k.status = IF last THEN Processing ELSE Receiving
          /\ k.parser = IF last THEN "idle" ELSE "body"
          /\ k.age = lag /\ k.answers = conn[c].answers + 1
    \/ \E data, last \in BOOLEAN :
          /\ MoreBody(c, data, last)
          /\ k.status = IF last THEN Processing ELSE Receiving
          /\ k.parser = IF last THEN "idle" ELSE "body"
          /\ k.age = conn[c].age /\ k.answers = conn[c].answers
    \/ /\ BadSegment(c)
       /\ k.status = Receiving
    \/ /\ \E more \in BOOLEAN : Upgrade(c, more)
       /\ k.status = Processing

AnswerOf(c, k) ==
    /\ k.state = "draining" \/ k.state = conn[c].state
    /\ \/ \E data, last \in BOOLEAN :
             /\ HeadersCached(c, data, last)
             /\ k.status = IF last THEN Processing ELSE Pending
             /\ k.age = lag /\ k.answers = conn[c].answers
       \/ /\ Respond(c)
          /\ k.status = Pending
          /\ k.parser = conn[c].parser
          /\ k.age = conn[c].age /\ k.answers = conn[c].answers - 1

LEMMA SegmentOp ==
  ASSUME conn \in [Conns -> ConnType], lag \in 0..MaxAge, NEW c \in Conns,
         \/ PartialHeaders(c) \/ BadSegment(c)
         \/ \E data, last \in BOOLEAN : Headers(c, data, last) \/ MoreBody(c, data, last)
         \/ \E more \in BOOLEAN : Upgrade(c, more)
  PROVE  \E k \in ConnType : /\ conn' = [conn EXCEPT ![c] = k]
                             /\ k.state = conn[c].state
                             /\ SegmentOf(c, k)
<1> DEFINE old == conn[c]
<1>1. /\ old \in ConnType /\ old.answers \in Nat /\ MaxAnswers \in Nat
      /\ old.answers < MaxAnswers => old.answers + 1 \in 0..MaxAnswers
  <2>1. old \in ConnType
    OBVIOUS
  <2>2. old.answers \in Nat /\ MaxAnswers \in Nat
    BY <2>1, TimesAssumption DEF ConnType
  <2> QED
    BY <2>1, <2>2
<1>2. Receiving \in {Pending, Receiving, Processing} /\ {"head", "dead", "idle"} \subseteq ParserPCs
  BY DEF ParserPCs
<1> HIDE DEF old
<1>3. CASE PartialHeaders(c)
  <2> DEFINE k == [old EXCEPT !.status = Receiving, !.parser = "head"]
  <2>1. /\ k \in ConnType /\ k.status = Receiving /\ k.parser = "head"
        /\ k.state = old.state /\ k.age = old.age /\ k.answers = old.answers
    BY <1>1, <1>2 DEF ConnType
  <2>2. conn' = [conn EXCEPT ![c] = k]
    BY <1>3 DEF PartialHeaders, Becomes, old
  <2> HIDE DEF k
  <2>3. SegmentOf(c, k)
    BY <1>3, <2>1 DEF SegmentOf, old
  <2> QED
    BY <2>1, <2>2, <2>3 DEF old
<1>4. CASE BadSegment(c)
  <2> DEFINE more == old.answers + 1
             k == [old EXCEPT !.status = Receiving, !.parser = "dead", !.paused = TRUE,
                              !.answers = more]
  <2>1. more \in 0..MaxAnswers
    BY <1>1, <1>4 DEF BadSegment, old
  <2>2. conn' = [conn EXCEPT ![c] = k]
    BY <1>4 DEF BadSegment, Becomes, old
  <2> HIDE DEF more
  <2>3. k \in ConnType /\ k.status = Receiving /\ k.state = old.state
    BY <1>1, <1>2, <2>1 DEF ConnType
  <2> HIDE DEF k
  <2>4. SegmentOf(c, k)
    BY <1>4, <2>3 DEF SegmentOf
  <2> QED
    BY <2>2, <2>3, <2>4 DEF old
<1>5. ASSUME NEW data \in BOOLEAN, NEW last \in BOOLEAN, Headers(c, data, last)
      PROVE  \E k \in ConnType : /\ conn' = [conn EXCEPT ![c] = k]
                                 /\ k.state = conn[c].state
                                 /\ SegmentOf(c, k)
  <2> DEFINE stamped == [old EXCEPT !.age = lag, !.answers = @ + 1]
             k == Received(stamped, Receiving, data, last)
  <2>1. /\ stamped \in ConnType /\ stamped.state = old.state
        /\ stamped.age = lag /\ stamped.answers = old.answers + 1
    BY <1>1, <1>5, StampedOp DEF Headers, old
  <2>2. conn' = [conn EXCEPT ![c] = k]
    BY <1>5 DEF Headers, Becomes, old
  <2> HIDE DEF stamped
  <2>3. /\ k \in ConnType /\ k.state = stamped.state
        /\ k.age = stamped.age /\ k.answers = stamped.answers
        /\ k.status = IF last THEN Processing ELSE Receiving
        /\ k.parser = IF last THEN "idle" ELSE "body"
    <3>1. stamped \in ConnType /\ Receiving \in {Pending, Receiving, Processing}
      BY <1>2, <2>1
    <3> QED
      BY <3>1, ReceivedOp
  <2> HIDE DEF k
  <2>4. SegmentOf(c, k)
    BY <1>5, <2>1, <2>3 DEF SegmentOf, old
  <2> QED
    BY <2>1, <2>2, <2>3, <2>4 DEF old
<1>6. ASSUME NEW data \in BOOLEAN, NEW last \in BOOLEAN, MoreBody(c, data, last)
      PROVE  \E k \in ConnType : /\ conn' = [conn EXCEPT ![c] = k]
                                 /\ k.state = conn[c].state
                                 /\ SegmentOf(c, k)
  <2> DEFINE k == Received(old, Receiving, data, last)
  <2>1. conn' = [conn EXCEPT ![c] = k]
    BY <1>6 DEF MoreBody, Becomes, old
  <2>2. /\ k \in ConnType /\ k.state = old.state
        /\ k.age = old.age /\ k.answers = old.answers
        /\ k.status = IF last THEN Processing ELSE Receiving
        /\ k.parser = IF last THEN "idle" ELSE "body"
    BY <1>1, <1>2, ReceivedOp
  <2> HIDE DEF k
  <2>3. SegmentOf(c, k)
    BY <1>6, <2>2 DEF SegmentOf, old
  <2> QED
    BY <2>1, <2>2, <2>3 DEF old
<1>7. ASSUME NEW more \in BOOLEAN, Upgrade(c, more)
      PROVE  \E k \in ConnType : /\ conn' = [conn EXCEPT ![c] = k]
                                 /\ k.state = conn[c].state
                                 /\ SegmentOf(c, k)
  <2> DEFINE one == old.answers + 1
             failed == [old EXCEPT !.status = Processing, !.parser = "idle",
                                   !.paused = TRUE, !.answers = one]
             silent == [old EXCEPT !.status = Processing, !.parser = "idle"]
             k == IF more THEN failed ELSE silent
  <2>1. more => one \in 0..MaxAnswers
    BY <1>1, <1>7 DEF Upgrade, old
  <2>2. conn' = [conn EXCEPT ![c] = k]
    BY <1>7 DEF Upgrade, Becomes, old
  <2> HIDE DEF one
  <2>3. k \in ConnType /\ k.status = Processing /\ k.state = old.state
    BY <1>1, <1>2, <2>1 DEF ConnType
  <2> HIDE DEF k
  <2>4. SegmentOf(c, k)
    BY <1>7, <2>3 DEF SegmentOf
  <2> QED
    BY <2>2, <2>3, <2>4 DEF old
<1> QED
  BY <1>3, <1>4, <1>5, <1>6, <1>7

LEMMA AnswerOp ==
  ASSUME conn \in [Conns -> ConnType], lag \in 0..MaxAge, NEW c \in Conns,
         \/ Respond(c)
         \/ \E data, last \in BOOLEAN : HeadersCached(c, data, last)
  PROVE  \E k \in ConnType : /\ conn' = [conn EXCEPT ![c] = k]
                             /\ k = Closed \/ (KeepAlive # 0 /\ AnswerOf(c, k))
<1> DEFINE old == conn[c]
<1>1. old \in ConnType /\ Pending \in {Pending, Receiving, Processing}
  OBVIOUS
<1> HIDE DEF old
<1>2. ASSUME NEW data \in BOOLEAN, NEW last \in BOOLEAN, HeadersCached(c, data, last)
      PROVE  \E k \in ConnType : /\ conn' = [conn EXCEPT ![c] = k]
                                 /\ k = Closed \/ (KeepAlive # 0 /\ AnswerOf(c, k))
  <2> DEFINE stamped == [old EXCEPT !.age = lag]
             answered == Answered(stamped)
             received == Received(answered, Pending, data, last)
             k == IF KeepAlive = 0 THEN answered ELSE received
  <2>1. /\ stamped \in ConnType /\ stamped.state = old.state
        /\ stamped.age = lag /\ stamped.answers = old.answers
    BY <1>1, StampedOp
  <2>2. conn' = [conn EXCEPT ![c] = k]
    BY <1>2 DEF HeadersCached, Becomes, old
  <2> HIDE DEF stamped
  <2>3. /\ answered \in ConnType
        /\ KeepAlive = 0 => answered = Closed
        /\ KeepAlive # 0 => /\ answered.age = lag /\ answered.answers = old.answers
                            /\ answered.state \in {"draining", old.state}
    BY <2>1, AnsweredOp
  <2> HIDE DEF answered
  <2>4. /\ received \in ConnType /\ received.state = answered.state
        /\ received.age = answered.age /\ received.answers = answered.answers
        /\ received.status = IF last THEN Processing ELSE Pending
    BY <1>1, <2>3, ReceivedOp
  <2> HIDE DEF received
  <2>5. KeepAlive # 0 => AnswerOf(c, received)
    BY <1>2, <2>3, <2>4 DEF AnswerOf, old
  <2> QED
    BY <2>2, <2>3, <2>4, <2>5
<1>3. CASE Respond(c)
  <2> DEFINE less == old.answers - 1
             asked == [old EXCEPT !.answers = less]
             k == Answered(asked)
  <2>1. less \in 0..MaxAnswers
    <3>1. old.answers \in 0..MaxAnswers /\ MaxAnswers \in Nat /\ old.answers > 0
      BY <1>1, <1>3, TimesAssumption DEF Respond, ConnType, old
    <3> QED
      BY <3>1
  <2>2. conn' = [conn EXCEPT ![c] = k]
    BY <1>3 DEF Respond, Becomes, old
  <2> HIDE DEF less
  <2>3. /\ asked \in ConnType /\ asked.state = old.state /\ asked.parser = old.parser
        /\ asked.age = old.age /\ asked.answers = less
    BY <1>1, <2>1 DEF ConnType
  <2> HIDE DEF asked
  <2>4. /\ k \in ConnType /\ k.status = Pending
        /\ KeepAlive = 0 => k = Closed
        /\ KeepAlive # 0 => /\ k.age = old.age /\ k.answers = less
                            /\ k.parser = old.parser
                            /\ k.state \in {"draining", old.state}
    BY <2>3, AnsweredOp
  <2> HIDE DEF k
  <2>5. KeepAlive # 0 => AnswerOf(c, k)
    BY <1>3, <2>4 DEF AnswerOf, old, less
  <2> QED
    BY <2>2, <2>4, <2>5
<1> QED
  BY <1>2, <1>3

Segment(c) ==
    \/ PartialHeaders(c) \/ BadSegment(c)
    \/ \E data, last \in BOOLEAN : Headers(c, data, last) \/ MoreBody(c, data, last)
    \/ \E more \in BOOLEAN : Upgrade(c, more)

Answer(c) ==
    \/ Respond(c)
    \/ \E data, last \in BOOLEAN : HeadersCached(c, data, last)

\* Neither touches anything but a connection, and only while the loop runs.
LEMMA OnlyConn ==
  ASSUME NEW c, Segment(c) \/ Answer(c)
  PROVE  /\ UNCHANGED <<life, listening, stuck, reaperVars, shutdownVars>>
         /\ UNCHANGED <<reaper, counter, todo, target, has_to_work, lag, shutdown, grace,
                        due, elapsed>>
         /\ life = "running" /\ ~stuck /\ c \in Registered
<1>1. UNCHANGED <<life, listening, stuck, reaperVars, shutdownVars>>
  BY DEF Segment, Answer, PartialHeaders, BadSegment, Headers, MoreBody, Upgrade,
         HeadersCached, Respond, Becomes
<1>2. life = "running" /\ ~stuck /\ c \in Registered
  BY DEF Segment, Answer, PartialHeaders, BadSegment, Headers, MoreBody, Upgrade,
         HeadersCached, Respond, MaySendRequest, CanReceive, LoopRuns
<1> QED
  BY <1>1, <1>2 DEF reaperVars, shutdownVars

LEMMA TypeInit == Init => TypeOK
<1> SUFFICES ASSUME Init PROVE TypeOK
  OBVIOUS
<1>1. conn \in [Conns -> ConnType]
  BY ClosedType DEF Init
<1>2. 0 \in 0..(Period - 1) /\ 0 \in 0..MaxAge /\ StopTimeout \in 0..StopTimeout
  BY PeriodIsANumber, TimesAssumption
<1> QED
  BY <1>1, <1>2 DEF Init, TypeOK

LEMMA TypeStep == TypeOK /\ [Next]_vars => TypeOK'
<1> SUFFICES ASSUME TypeOK, Next PROVE TypeOK'
  <2>1. ASSUME TypeOK, UNCHANGED vars PROVE TypeOK'
    BY <2>1 DEF TypeOK, vars, work, reaperVars, shutdownVars
  <2> QED
    BY <2>1
<1>0. env' = env /\ conn \in [Conns -> ConnType] /\ \A c \in Conns : conn[c] \in ConnType
  BY DEF Next, TypeOK
<1> USE DEF reaperVars, shutdownVars
<1>1. ASSUME NEW c \in Conns, Accept(c) PROVE TypeOK'
  <2>1. conn' \in [Conns -> ConnType]
    BY <1>0, <1>1 DEF Accept, ConnType, States
  <2> QED
    BY <1>0, <1>1, <2>1 DEF Accept, TypeOK
<1>2. ASSUME NEW c \in Conns, ConnectionMade(c) PROVE TypeOK'
  <2>1. conn' \in [Conns -> ConnType]
    BY <1>0, <1>2 DEF ConnectionMade, ConnType, States
  <2> QED
    BY <1>0, <1>2, <2>1 DEF ConnectionMade, TypeOK
<1>3. ASSUME NEW c \in Conns, Segment(c) PROVE TypeOK'
  <2>1. conn' \in [Conns -> ConnType]
    BY <1>0, <1>3, SegmentOp DEF TypeOK, Segment
  <2> QED
    BY <1>0, <1>3, <2>1, OnlyConn DEF TypeOK
<1>4. ASSUME NEW c \in Conns, Answer(c) PROVE TypeOK'
  <2>1. conn' \in [Conns -> ConnType]
    BY <1>0, <1>4, AnswerOp DEF TypeOK, Answer
  <2> QED
    BY <1>0, <1>4, <2>1, OnlyConn DEF TypeOK
<1>5. ASSUME NEW c \in Conns, Closes(c) PROVE TypeOK'
  <2>1. conn' \in [Conns -> ConnType]
    BY <1>0, <1>5, ClosedType DEF Closes, Becomes
  <2> QED
    BY <1>0, <1>5, <2>1 DEF Closes, Becomes, TypeOK
<1>6. CASE Blocks
  BY <1>0, <1>6 DEF Blocks, TypeOK
<1>7. CASE ReaperTurns
  <2>1. (counter + 1) % Period \in 0..(Period - 1) /\ 0 \in 0..MaxAge
    BY PeriodIsANumber, Divided, TimesAssumption DEF TypeOK
  <2> QED
    BY <1>0, <1>7, <2>1 DEF ReaperTurns, TypeOK, Registered
<1>8. ASSUME NEW c \in Conns, LookForIdle(c) \/ LookForStuck(c) PROVE TypeOK'
  BY <1>0, <1>8 DEF LookForIdle, LookForStuck, TypeOK
<1>9. CASE StopIdle
  <2>1. conn' \in [Conns -> ConnType]
    BY <1>0, <1>9, ConnOps DEF StopIdle
  <2> QED
    BY <1>0, <1>9, <2>1 DEF StopIdle, TypeOK
<1>10. CASE IdleDone \/ StuckDone
  BY <1>0, <1>10 DEF IdleDone, StuckDone, TypeOK, Registered
<1>11. CASE Sigterm \/ BeginStop
  BY <1>0, <1>11 DEF Sigterm, BeginStop, TypeOK
<1>12. CASE AskConnections
  <2>1. conn' \in [Conns -> ConnType] /\ 0 \in 0..MaxAge
    BY <1>0, <1>12, ConnOps, TimesAssumption DEF AskConnections
  <2> QED
    BY <1>0, <1>12, <2>1 DEF AskConnections, TypeOK
<1>13. CASE WaitForConnections
  <2>1. ~MayStop => grace - 1 \in 0..StopTimeout
    BY TimesAssumption DEF MayStop, TypeOK
  <2> QED
    BY <1>0, <1>13, <2>1 DEF WaitForConnections, TypeOK
<1>14. CASE Tick
  <2>1. conn' \in [Conns -> ConnType]
    BY <1>0, <1>14, ConnOps DEF Tick
  <2>2. Older(lag) \in 0..MaxAge /\ Older(elapsed) \in 0..MaxAge
    BY OlderType DEF TypeOK
  <2> QED
    BY <1>0, <1>14, <2>1, <2>2 DEF Tick, TypeOK
<1> QED
  BY <1>1, <1>2, <1>3, <1>4, <1>5, <1>6, <1>7, <1>8, <1>9, <1>10, <1>11, <1>12, <1>13,
     <1>14
  DEF Next, Reaper, Shutdown, Connections, Segment, Answer

\* The type invariant of a worker, for any set of connections and all times
\* (workers/handler.py, workers/reaper.py).
THEOREM TypeCorrect == Spec => []TypeOK
  BY TypeInit, TypeStep, PTL DEF Spec

-----------------------------------------------------------------------------
(* The shutdown.                                                           *)

\* The seconds that have passed since the connections were asked, and the
\* turns of stop_server that are left, make up its timeout; only a loop that
\* is stuck falls behind.
TimeInv ==
    /\ shutdown # "waiting" => grace = StopTimeout /\ life # "stopped"
    /\ shutdown = "waiting" /\ due
          => /\ elapsed + grace >= StopTimeout
             /\ "stuck" \notin May => elapsed + grace = StopTimeout
    /\ shutdown = "waiting" /\ ~due
          => /\ elapsed + grace + 1 >= StopTimeout
             /\ "stuck" \notin May => elapsed + grace + 1 = StopTimeout
    /\ "stuck" \notin May => ~stuck
    /\ life = "stopped" => due /\ (grace = 0 \/ Registered = {})

\* A worker that was killed or has stopped does nothing more.
LEMMA Running == ASSUME Next PROVE life = "running"
<1>1. Connections => life = "running"
  <2>1. \A c \in Conns : Segment(c) \/ Answer(c) => life = "running"
    BY OnlyConn
  <2> QED
    BY <2>1 DEF Connections, Segment, Answer, Accept, ConnectionMade, Closes, LoopRuns
<1>2. Reaper \/ Shutdown \/ Blocks \/ Sigterm \/ Tick => life = "running"
  BY DEF Reaper, Shutdown, LoopRuns, Blocks, ReaperTurns, StopIdle, IdleDone, StuckDone,
         LookForIdle, LookForStuck, BeginStop, AskConnections, WaitForConnections,
         Sigterm, Tick
<1> QED
  BY <1>1, <1>2 DEF Next

\* What happens on connections leaves the reaper and the shutdown alone.
LEMMA ConnectionsOnly ==
  ASSUME Connections
  PROVE  UNCHANGED <<life, listening, stuck, reaperVars, shutdownVars>>
<1>1. \A c \in Conns : Segment(c) \/ Answer(c)
        => UNCHANGED <<life, listening, stuck, reaperVars, shutdownVars>>
  BY OnlyConn
<1>2. \A c \in Conns : Accept(c) \/ ConnectionMade(c) \/ Closes(c)
        => UNCHANGED <<life, listening, stuck, reaperVars, shutdownVars>>
  BY DEF Accept, ConnectionMade, Closes, Becomes
<1> QED
  BY <1>1, <1>2 DEF Connections, Segment, Answer

LEMMA TimeInit == Init => TimeInv
  BY DEF Init, TimeInv

LEMMA TimeStep == TypeOK /\ TimeInv /\ [Next]_vars => TimeInv'
<1> SUFFICES ASSUME TypeOK, TimeInv, Next PROVE TimeInv'
  BY DEF TimeInv, vars, work, reaperVars, shutdownVars, Registered, May
<1>0. /\ env' = env /\ May' = May
      /\ grace \in Nat /\ elapsed \in Nat /\ StopTimeout \in Nat /\ due \in BOOLEAN
  BY TimesAssumption DEF Next, TypeOK, May
<1>1. life = "running"
  BY Running
<1>2. ASSUME life' # "stopped", UNCHANGED shutdownVars, stuck' = stuck \/ "stuck" \in May
      PROVE  TimeInv'
  BY <1>0, <1>2 DEF TimeInv, shutdownVars
<1>3. CASE Connections \/ Blocks \/ Reaper
  <2>1. life' # "stopped" /\ UNCHANGED shutdownVars /\ (stuck' = stuck \/ "stuck" \in May)
    BY <1>1, <1>3, ConnectionsOnly
    DEF Blocks, Reaper, ReaperTurns, StopIdle, IdleDone, StuckDone, LookForIdle,
        LookForStuck
  <2> QED
    BY <1>2, <2>1
<1>4. CASE Sigterm \/ BeginStop
  BY <1>0, <1>1, <1>4 DEF Sigterm, BeginStop, TimeInv
<1>5. CASE AskConnections
  BY <1>0, <1>1, <1>5 DEF AskConnections, TimeInv
<1>6. CASE WaitForConnections
  <2>1. CASE MayStop
    <3>1. /\ life' = "stopped" /\ UNCHANGED <<grace, due, shutdown, elapsed, stuck>>
          /\ due /\ Registered' = Registered
      BY <1>6, <2>1 DEF WaitForConnections, Registered
    <3> QED
      BY <1>0, <1>6, <2>1, <3>1 DEF MayStop, TimeInv, WaitForConnections
  <2>2. CASE ~MayStop
    <3>1. /\ grace # 0 /\ grace' = grace - 1 /\ due /\ ~due'
          /\ life' = life /\ shutdown' = "waiting" /\ shutdown = "waiting"
          /\ elapsed' = elapsed /\ stuck' = stuck
      BY <1>6, <2>2 DEF WaitForConnections, MayStop
    <3> QED
      BY <1>0, <1>1, <3>1 DEF TimeInv
  <2> QED
    BY <2>1, <2>2
<1>7. CASE Tick
  <2>1. /\ life' = "running" /\ shutdown' = shutdown /\ grace' = grace /\ stuck' = stuck
        /\ stuck \/ ~due
    BY <1>7 DEF Tick, SecondIsOver
  <2>2. CASE shutdown # "waiting"
    BY <1>0, <2>1, <2>2 DEF TimeInv
  <2>3. CASE shutdown = "waiting"
    <3>1. due' = TRUE /\ elapsed' = Older(elapsed)
      BY <1>7, <2>3 DEF Tick
    <3>2. /\ elapsed + grace + 1 >= StopTimeout => elapsed' + grace >= StopTimeout
          /\ elapsed + grace + 1 = StopTimeout => elapsed' + grace = StopTimeout
      <4>1. elapsed \in 0..MaxAge
        BY DEF TypeOK
      <4> QED
        BY <1>0, <3>1, <4>1, OlderAndGrace
    <3>3. elapsed' + grace >= StopTimeout
      <4>1. elapsed + grace + 1 >= StopTimeout
        BY <1>0, <2>3 DEF TimeInv
      <4> QED
        BY <1>0, <3>2, <4>1
    <3>4. ASSUME "stuck" \notin May PROVE elapsed' + grace = StopTimeout
      <4>1. ~due /\ elapsed + grace + 1 = StopTimeout
        BY <2>1, <2>3, <3>4 DEF TimeInv
      <4> QED
        BY <1>0, <3>2, <4>1
    <3> QED
      BY <1>0, <2>1, <2>3, <3>1, <3>3, <3>4 DEF TimeInv
  <2> QED
    BY <2>2, <2>3
<1> QED
  BY <1>3, <1>4, <1>5, <1>6, <1>7 DEF Next, Shutdown

LEMMA TimeInvariant == Spec => [](TypeOK /\ TimeInv)
  BY TypeInit, TimeInit, TypeStep, TimeStep, PTL DEF Spec

\* A shutdown keeps its deadline whatever the connections do, unless a handler
\* blocks the loop: stop_server gives up after StopTimeout seconds
\* (handler.py:68-79).
THEOREM InTime == Spec => []StopsInTime
<1>1. TypeOK /\ TimeInv => StopsInTime
  <2> SUFFICES ASSUME TypeOK, TimeInv, "stuck" \notin May, shutdown = "waiting"
               PROVE  elapsed <= StopTimeout
    BY DEF StopsInTime
  <2>1. grace \in Nat /\ elapsed \in Nat /\ StopTimeout \in Nat
    BY TimesAssumption DEF TypeOK
  <2>2. elapsed + grace = StopTimeout \/ elapsed + grace + 1 = StopTimeout
    BY DEF TimeInv
  <2> QED
    BY <2>1, <2>2
<1> QED
  BY <1>1, TimeInvariant, PTL

\* A worker that stops before the deadline has closed all its connections, in
\* every environment: only the deadline cuts a request.
THEOREM Graceful == Spec => []StopsGracefully
<1>1. TypeOK /\ TimeInv => StopsGracefully
  <2> SUFFICES ASSUME TypeOK, TimeInv, life = "stopped", elapsed < StopTimeout
               PROVE  Registered = {}
    BY DEF StopsGracefully
  <2>1. grace \in Nat /\ elapsed \in Nat /\ StopTimeout \in Nat
    BY TimesAssumption DEF TypeOK
  <2>2. due /\ elapsed + grace >= StopTimeout /\ (grace = 0 \/ Registered = {})
    BY DEF TimeInv
  <2> QED
    BY <2>1, <2>2
<1> QED
  BY <1>1, TimeInvariant, PTL

-----------------------------------------------------------------------------
(* The reaper.                                                             *)

\* Each request has one task that answers it, once its body has ended.
Whole == {"early", "cached", "bad", "upgrade", "pipelined"} \cap May = {}

InPhase(k) ==
    \/ k.answers = 0 /\ k.parser = "idle" /\ k.status = Pending
    \/ k.answers = 0 /\ k.parser = "head" /\ k.status = Receiving
    \/ k.answers = 1 /\ k.parser = "body" /\ k.status = Receiving
    \/ k.answers = 1 /\ k.parser = "idle" /\ k.status = Processing

Untouched(k) == k.status = Pending /\ k.parser = "idle" /\ k.answers = 0 /\ k.age = 0

ConnInv ==
    \A c \in Conns : /\ c \notin Registered => Untouched(conn[c])
                     /\ Whole => InPhase(conn[c])

\* The reaper works until the shutdown's hooks, and looks at clocks that it
\* refreshes once a second.
ReaperInv ==
    /\ reaper # "stopping" => target = {}
    /\ shutdown \in {"no", "asked"} => has_to_work
    /\ reaper = "off" => ~has_to_work
    /\ reaper = "awake" => lag <= 1
    /\ reaper \notin {"awake", "off"} => lag = 0

\* The seconds since the reaper last looked for idle connections, at its turn.
Since == counter % KeepAlive

\* The age up to which a connection may become idle, or is left idle.
Longest == IF HandlerTimeout > KeepAlive THEN HandlerTimeout ELSE KeepAlive

\* On the list that kill_idle_connections works off.
Listed(c) == reaper \in {"idle", "stopping"} /\ c \in todo \cup target

IdleBound(c) ==
    IF reaper = "awake" THEN Longest + Since + 1
    ELSE IF Listed(c) THEN Longest + KeepAlive ELSE Longest + Since

Ages(c) ==
    /\ conn[c].status = Pending => conn[c].age <= IdleBound(c)
    /\ conn[c].answers > 0 /\ ~stuck => conn[c].age <= Longest
    /\ conn[c].parser = "head" /\ Whole /\ "slow" \notin May /\ ~stuck
          => conn[c].age <= Longest + KeepAlive

ReaperLooks == KeepAlive > 0 /\ StampedAndTimely /\ reaper # "off"

AgeInv == ReaperLooks => \A c \in Registered : Ages(c)

LEMMA Numbers ==
  ASSUME TypeOK, KeepAlive > 0
  PROVE  /\ Since \in Nat /\ Since + 1 <= KeepAlive
         /\ Longest \in Nat /\ 1 <= Longest
         /\ KeepAlive <= Longest /\ HandlerTimeout <= Longest
         /\ KeepAlive \in Nat /\ HandlerTimeout \in Nat
         /\ \A c \in Conns : /\ IdleBound(c) \in Nat
                             /\ Longest <= IdleBound(c)
                             /\ IdleBound(c) <= Longest + KeepAlive
<1>1. KeepAlive \in Nat /\ HandlerTimeout \in Nat /\ counter \in Nat
  BY TimesAssumption, PeriodIsANumber DEF TypeOK
<1>2. Since \in Nat /\ Since + 1 <= KeepAlive
  <2>1. Since \in 0..(KeepAlive - 1)
    BY <1>1, Divided DEF Since
  <2> QED
    BY <1>1, <2>1
<1>3. /\ Longest \in Nat /\ 1 <= Longest
      /\ KeepAlive <= Longest /\ HandlerTimeout <= Longest
  BY <1>1 DEF Longest
<1>4. \A c \in Conns : /\ IdleBound(c) \in Nat
                       /\ Longest <= IdleBound(c)
                       /\ IdleBound(c) <= Longest + KeepAlive
  BY <1>1, <1>2, <1>3 DEF IdleBound
<1> QED
  BY <1>1, <1>2, <1>3, <1>4

LEMMA ConnInit == Init => ConnInv /\ ReaperInv /\ AgeInv
<1> SUFFICES ASSUME Init PROVE ConnInv /\ ReaperInv /\ AgeInv
  OBVIOUS
<1>1. \A c \in Conns : Untouched(conn[c]) /\ conn[c].state = "none"
  BY DEF Init, Closed, Untouched
<1>2. Registered = {}
  BY <1>1 DEF Registered
<1> QED
  BY <1>1, <1>2 DEF Init, ConnInv, ReaperInv, AgeInv, Untouched, InPhase

\* A connection that is asked to stop closes, or is what it was.
LEMMA StoppedOp ==
  ASSUME NEW k \in ConnType
  PROVE  /\ k.status = Pending => Stopped(k) = Closed
         /\ k.status # Pending
              => /\ Stopped(k).status = k.status /\ Stopped(k).parser = k.parser
                 /\ Stopped(k).answers = k.answers
                 /\ Stopped(k).age = k.age /\ Stopped(k).state = k.state
  BY DEF Stopped, ConnType

LEMMA AgedOp ==
  ASSUME NEW k \in ConnType
  PROVE  /\ Aged(k).status = k.status /\ Aged(k).parser = k.parser
         /\ Aged(k).answers = k.answers /\ Aged(k).state = k.state
         /\ k.age \in 0..MaxAge
         /\ reaper # "off" => Aged(k).age = Older(k.age)
         /\ reaper = "off" => Aged(k).age = k.age
  BY DEF Aged, ConnType

LEMMA ClosedOp ==
  Untouched(Closed) /\ InPhase(Closed) /\ Closed.state = "closed"
  BY DEF Closed, Untouched, InPhase

LEMMA Statuses == Pending # Receiving /\ Pending # Processing /\ Receiving # Processing
  BY DEF Pending, Receiving, Processing

LEMMA ReaperStep == ReaperInv /\ [Next]_vars => ReaperInv'
<1> SUFFICES ASSUME ReaperInv, Next PROVE ReaperInv'
  BY DEF ReaperInv, vars, work, reaperVars, shutdownVars
<1>1. CASE Connections \/ Blocks
  <2>1. UNCHANGED <<reaperVars, shutdownVars>>
    BY <1>1, ConnectionsOnly DEF Blocks
  <2> QED
    BY <2>1 DEF reaperVars, shutdownVars, ReaperInv
<1>2. CASE Sigterm \/ Shutdown
  BY <1>2 DEF Sigterm, Shutdown, BeginStop, AskConnections, WaitForConnections,
       reaperVars, ReaperInv
<1>3. CASE Tick
  <2>1. CASE reaper = "off"
    BY <1>3, <2>1 DEF Tick, ReaperInv
  <2>2. CASE reaper # "off"
    <3>1. reaper = "sleeping" /\ lag = 0 /\ lag' = Older(lag) /\ reaper' = "awake"
      BY <1>3, <2>2 DEF Tick, SecondIsOver, ReaperInv
    <3>2. Older(0) = 1
      BY TimesAssumption DEF Older
    <3> QED
      BY <1>3, <3>1, <3>2 DEF Tick, ReaperInv
  <2> QED
    BY <2>1, <2>2
<1>4. CASE ReaperTurns
  BY <1>4 DEF ReaperTurns, ReaperInv, shutdownVars
<1>5. ASSUME NEW c \in Conns, LookForIdle(c) \/ LookForStuck(c) PROVE ReaperInv'
  BY <1>5 DEF LookForIdle, LookForStuck, ReaperInv, shutdownVars
<1>6. CASE StopIdle \/ IdleDone \/ StuckDone
  BY <1>6 DEF StopIdle, IdleDone, StuckDone, ReaperInv, shutdownVars
<1> QED
  BY <1>1, <1>2, <1>3, <1>4, <1>5, <1>6 DEF Next, Reaper

LEMMA ConnStep == TypeOK /\ ConnInv /\ [Next]_vars => ConnInv'
<1> SUFFICES ASSUME TypeOK, ConnInv, Next PROVE ConnInv'
  BY DEF ConnInv, vars, work, reaperVars, shutdownVars, Registered, Whole, May
<1>0. /\ conn \in [Conns -> ConnType] /\ \A c \in Conns : conn[c] \in ConnType
      /\ lag \in 0..MaxAge /\ (Whole' <=> Whole)
  BY DEF TypeOK, Next, Whole, May
\* One connection changes.
<1>1. ASSUME NEW c \in Conns, NEW k, conn' = [conn EXCEPT ![c] = k],
             k.state \notin {"open", "draining"} => Untouched(k),
             Whole => InPhase(k)
      PROVE  ConnInv'
  BY <1>0, <1>1 DEF ConnInv, Registered
\* Every connection is what it was, or closes, or grows older.
<1>2. ASSUME \A c \in Conns :
                \/ conn'[c] = conn[c]
                \/ conn'[c] = Closed
                \/ /\ conn'[c].state = conn[c].state
                   /\ conn'[c].status = conn[c].status
                   /\ conn'[c].parser = conn[c].parser
                   /\ conn'[c].answers = conn[c].answers
                   /\ conn'[c].age = conn[c].age \/ c \in Registered
      PROVE  ConnInv'
  BY <1>0, <1>2, ClosedOp DEF ConnInv, Registered, Untouched, InPhase
<1>3. ASSUME NEW c \in Conns, Accept(c) \/ ConnectionMade(c) PROVE ConnInv'
  <2>1. PICK st \in {"accepted", "open"} : conn' = [conn EXCEPT ![c].state = st]
    BY <1>3 DEF Accept, ConnectionMade
  <2>2. Untouched(conn[c])
    BY <1>3 DEF Accept, ConnectionMade, ConnInv, Registered
  <2>3. conn' = [conn EXCEPT ![c] = [conn[c] EXCEPT !.state = st]]
    BY <1>0, <2>1
  <2>4. Untouched([conn[c] EXCEPT !.state = st])
    BY <1>0, <2>2 DEF ConnType, Untouched
  <2> QED
    BY <1>1, <2>3, <2>4 DEF Untouched, InPhase
<1>4. ASSUME NEW c \in Conns, Segment(c) PROVE ConnInv'
  <2>1. PICK k \in ConnType : /\ conn' = [conn EXCEPT ![c] = k]
                              /\ k.state = conn[c].state
                              /\ SegmentOf(c, k)
    BY <1>0, <1>4, SegmentOp DEF Segment
  <2>2. c \in Registered
    BY <1>4, OnlyConn
  <2>3. ASSUME Whole PROVE InPhase(k)
    <3>1. InPhase(conn[c]) /\ ~BadSegment(c) /\ ~\E more \in BOOLEAN : Upgrade(c, more)
      BY <2>3 DEF ConnInv, Whole, BadSegment, Upgrade
    <3>2. MaySendRequest(c) => conn[c].answers = 0
      BY <2>3 DEF Whole, MaySendRequest
    <3>3. CASE PartialHeaders(c) /\ k.status = Receiving /\ k.parser = "head"
                 /\ k.answers = conn[c].answers
      BY <3>2, <3>3 DEF PartialHeaders, InPhase
    <3>4. ASSUME NEW data \in BOOLEAN, NEW last \in BOOLEAN,
                 \/ Headers(c, data, last) /\ k.answers = conn[c].answers + 1
                 \/ MoreBody(c, data, last) /\ k.answers = conn[c].answers,
                 k.status = IF last THEN Processing ELSE Receiving,
                 k.parser = IF last THEN "idle" ELSE "body"
          PROVE  InPhase(k)
      <4>1. k.answers = 1
        BY <3>1, <3>2, <3>4 DEF Headers, MoreBody, InPhase
      <4> QED
        BY <3>4, <4>1 DEF InPhase
    <3> QED
      BY <2>1, <3>1, <3>3, <3>4 DEF SegmentOf
  <2> QED
    BY <1>1, <2>1, <2>2, <2>3 DEF Registered
<1>5. ASSUME NEW c \in Conns, Answer(c) PROVE ConnInv'
  <2>1. PICK k \in ConnType : /\ conn' = [conn EXCEPT ![c] = k]
                              /\ k = Closed \/ (KeepAlive # 0 /\ AnswerOf(c, k))
    BY <1>0, <1>5, AnswerOp DEF Answer
  <2>2. c \in Registered
    BY <1>5, OnlyConn
  <2>3. CASE k = Closed
    BY <1>1, <2>1, <2>3, ClosedOp
  <2>4. CASE AnswerOf(c, k)
    <3>1. k.state \in {"open", "draining"}
      BY <2>2, <2>4 DEF AnswerOf, Registered
    <3>2. ASSUME Whole PROVE InPhase(k)
      <4>1. InPhase(conn[c]) /\ ~\E data, last \in BOOLEAN : HeadersCached(c, data, last)
        BY <3>2 DEF ConnInv, Whole, HeadersCached
      <4>2. /\ Respond(c) /\ k.status = Pending /\ k.parser = conn[c].parser
            /\ k.answers = conn[c].answers - 1
        BY <2>4, <4>1 DEF AnswerOf
      <4>3. conn[c].answers = 1 /\ conn[c].parser = "idle"
        BY <3>2, <4>1, <4>2 DEF Respond, MayAnswer, InPhase, Whole
      <4> QED
        BY <4>2, <4>3 DEF InPhase
    <3> QED
      BY <1>1, <2>1, <3>1, <3>2
  <2> QED
    BY <2>1, <2>3, <2>4
<1>6. ASSUME NEW c \in Conns, Closes(c) PROVE ConnInv'
  BY <1>1, <1>6, ClosedOp DEF Closes, Becomes
<1>7. CASE StopIdle \/ AskConnections
  <2>1. \A c \in Conns : conn'[c] = conn[c] \/ conn'[c] = Stopped(conn[c])
    BY <1>7 DEF StopIdle, AskConnections
  <2> QED
    BY <1>0, <1>2, <2>1, StoppedOp
<1>8. CASE Tick
  <2>1. \A c \in Conns : \/ conn'[c] = conn[c]
                         \/ c \in Registered /\ conn'[c] = Aged(conn[c])
    BY <1>8 DEF Tick
  <2> QED
    BY <1>0, <1>2, <2>1, AgedOp
<1>9. ASSUME conn' = conn PROVE ConnInv'
  BY <1>2, <1>9
<1>10. ASSUME NEW c \in Conns, LookForIdle(c) \/ LookForStuck(c) PROVE ConnInv'
  BY <1>9, <1>10 DEF LookForIdle, LookForStuck
<1>11. CASE Blocks \/ Sigterm \/ BeginStop \/ WaitForConnections \/ ReaperTurns
              \/ IdleDone \/ StuckDone
  BY <1>9, <1>11 DEF Blocks, Sigterm, BeginStop, WaitForConnections, ReaperTurns,
       IdleDone, StuckDone
<1> QED
  BY <1>3, <1>4, <1>5, <1>6, <1>7, <1>8, <1>10, <1>11
  DEF Next, Reaper, Shutdown, Connections, Segment, Answer

LEMMA AgeStep == TypeOK /\ ConnInv /\ ReaperInv /\ AgeInv /\ [Next]_vars => AgeInv'
<1> SUFFICES ASSUME TypeOK, ConnInv, ReaperInv, AgeInv, Next, ReaperLooks',
                    NEW c \in Conns, c \in Registered'
             PROVE  Ages(c)'
  <2>1. ASSUME AgeInv, UNCHANGED vars PROVE AgeInv'
    BY <2>1 DEF AgeInv, ReaperLooks, Ages, IdleBound, Listed, Longest, Since, Registered,
       StampedAndTimely, Whole, May, vars, work, reaperVars, shutdownVars
  <2>2. Registered' \subseteq Conns
    BY DEF Registered
  <2> QED
    BY <2>1, <2>2 DEF AgeInv
<1>0. /\ May' = May /\ KeepAlive > 0 /\ StampedAndTimely /\ (Whole' <=> Whole)
      /\ conn \in [Conns -> ConnType] /\ conn[c] \in ConnType
      /\ lag \in 0..MaxAge /\ counter \in 0..(Period - 1)
      /\ todo \subseteq Conns /\ target \subseteq Conns
      /\ reaper # "off"
  <2>1. May' = May /\ KeepAlive > 0 /\ StampedAndTimely /\ (Whole' <=> Whole)
    BY DEF Next, ReaperLooks, StampedAndTimely, Whole, May
  <2>2. reaper = "off" => reaper' = "off"
    <3>1. Reaper => reaper # "off" \/ reaper' = reaper
      BY DEF Reaper, ReaperTurns, StopIdle, IdleDone, StuckDone, LookForIdle, LookForStuck
    <3>2. Shutdown \/ Blocks \/ Sigterm \/ Tick => reaper # "off" \/ reaper' = reaper
      BY DEF Shutdown, BeginStop, AskConnections, WaitForConnections, Blocks, Sigterm, Tick, reaperVars
    <3>3. Connections => reaper' = reaper
      BY ConnectionsOnly DEF reaperVars
    <3> QED
      BY <3>1, <3>2, <3>3 DEF Next
  <2> QED
    BY <2>1, <2>2 DEF ReaperLooks, TypeOK
<1>1. \A d \in Registered : Ages(d)
  BY <1>0 DEF AgeInv, ReaperLooks
<1>2. /\ Since \in Nat /\ Since + 1 <= KeepAlive
      /\ Longest \in Nat /\ 1 <= Longest
      /\ KeepAlive <= Longest /\ HandlerTimeout <= Longest
      /\ KeepAlive \in Nat /\ HandlerTimeout \in Nat
      /\ IdleBound(c) \in Nat /\ Longest <= IdleBound(c)
      /\ IdleBound(c) <= Longest + KeepAlive
      /\ conn[c].age \in Nat /\ lag \in Nat
  BY <1>0, Numbers, TimesAssumption DEF ConnType
\* The connection is what it was, and the reaper has not moved.
<1>3. ASSUME UNCHANGED <<reaperVars, stuck>>, c \in Registered, conn'[c] = conn[c]
      PROVE  Ages(c)'
  <2>1. IdleBound(c)' = IdleBound(c)
    BY <1>3 DEF reaperVars, IdleBound, Listed, Longest, Since
  <2>2. Ages(c)
    BY <1>1, <1>3
  <2> QED
    BY <1>0, <1>3, <2>1, <2>2 DEF Ages, Longest
<1>4. ASSUME NEW d \in Conns, Accept(d) PROVE Ages(c)'
  <2>1. d # c /\ conn'[c] = conn[c] /\ c \in Registered
    BY <1>0, <1>4 DEF Accept, Registered, ConnType
  <2> QED
    BY <1>3, <1>4, <2>1 DEF Accept
<1>5. ASSUME NEW d \in Conns, ConnectionMade(d) PROVE Ages(c)'
  <2>1. CASE d = c
    <3>1. Untouched(conn[c])
      BY <1>5, <2>1 DEF ConnectionMade, ConnInv, Registered
    <3>2. Untouched(conn'[c])
      BY <1>0, <1>5, <2>1, <3>1 DEF ConnectionMade, ConnType, Untouched
    <3>3. IdleBound(c)' = IdleBound(c)
      BY <1>5 DEF ConnectionMade, reaperVars, IdleBound, Listed, Longest, Since
    <3> QED
      BY <1>2, <3>2, <3>3 DEF Ages, Untouched
  <2>2. CASE d # c
    <3>1. conn'[c] = conn[c] /\ c \in Registered
      BY <1>0, <1>5, <2>2 DEF ConnectionMade, Registered
    <3> QED
      BY <1>3, <1>5, <3>1 DEF ConnectionMade
  <2> QED
    BY <2>1, <2>2
<1>6. ASSUME NEW d \in Conns, Segment(d) PROVE Ages(c)'
  <2>1. PICK k \in ConnType : /\ conn' = [conn EXCEPT ![d] = k]
                              /\ k.state = conn[d].state
                              /\ SegmentOf(d, k)
    BY <1>6, SegmentOp DEF Segment, TypeOK
  <2>2. c \in Registered /\ UNCHANGED <<reaperVars, stuck>> /\ d \in Registered
    BY <1>0, <1>6, <2>1, OnlyConn DEF Registered
  <2>3. CASE d # c
    BY <1>0, <1>3, <2>1, <2>2, <2>3
  <2>4. CASE d = c
    <3>1. /\ Ages(c) /\ lag <= 1 /\ Longest' = Longest /\ conn'[c] = k
          /\ conn[c].answers \in Nat
      BY <1>0, <1>1, <2>1, <2>2, <2>4, TimesAssumption DEF ReaperInv, Longest, ConnType
    <3>2. "bad" \notin May /\ "upgrade" \notin May /\ "pipelined" \notin May
      BY <1>0 DEF StampedAndTimely
    <3>3. ~BadSegment(c) /\ ~\E more \in BOOLEAN : Upgrade(c, more)
      BY <3>2 DEF BadSegment, Upgrade
    <3>4. k.status # Pending
      BY <2>1, <2>4, Statuses DEF SegmentOf
    <3>5. k.answers > 0 /\ ~stuck => k.age <= Longest
      BY <1>2, <2>1, <2>4, <3>1, <3>3 DEF SegmentOf, Ages
    <3>6. ASSUME k.parser = "head", Whole PROVE k.age <= Longest + KeepAlive
      <4>1. PartialHeaders(c) /\ k.age = conn[c].age
        BY <2>1, <2>4, <3>3, <3>6 DEF SegmentOf
      <4>2. conn[c].status = Pending
        BY <3>2, <3>6, <4>1
        DEF PartialHeaders, MaySendRequest, ConnInv, InPhase
      <4> QED
        BY <1>2, <3>1, <4>1, <4>2 DEF Ages
    <3> QED
      BY <1>0, <2>2, <3>1, <3>4, <3>5, <3>6 DEF Ages
  <2> QED
    BY <2>3, <2>4
<1>7. ASSUME NEW d \in Conns, Answer(d) PROVE Ages(c)'
  <2>1. PICK k \in ConnType : /\ conn' = [conn EXCEPT ![d] = k]
                              /\ k = Closed \/ AnswerOf(d, k)
    BY <1>7, AnswerOp DEF Answer, TypeOK
  <2>2. UNCHANGED <<reaperVars, stuck>> /\ ~stuck /\ d \in Registered
    BY <1>7, OnlyConn
  <2>3. CASE d # c
    <3>1. conn'[c] = conn[c] /\ c \in Registered
      BY <1>0, <2>1, <2>3 DEF Registered
    <3> QED
      BY <1>3, <2>2, <3>1
  <2>4. CASE d = c
    <3>1. /\ Ages(c) /\ lag <= 1 /\ Longest' = Longest /\ conn'[c] = k
          /\ conn[c].answers \in Nat
      BY <1>0, <1>1, <2>1, <2>2, <2>4, TimesAssumption DEF ReaperInv, Longest, ConnType
    <3>2. IdleBound(c)' = IdleBound(c)
      BY <2>2 DEF reaperVars, IdleBound, Listed, Longest, Since
    <3>3. k # Closed
      BY <3>1, ClosedOp DEF Registered
    <3>4. CASE Respond(c) /\ k.parser = conn[c].parser /\ k.age = conn[c].age
      <4>1. conn[c].answers > 0
        BY <3>4 DEF Respond
      <4>2. k.age <= Longest /\ k.age \in Nat
        BY <1>2, <2>2, <3>1, <3>4, <4>1 DEF Ages
      <4> QED
        BY <1>2, <3>1, <3>2, <4>2 DEF Ages
    <3>5. CASE k.age = lag
      BY <1>2, <3>1, <3>2, <3>5 DEF Ages
    <3> QED
      BY <2>1, <2>4, <3>3, <3>4, <3>5 DEF AnswerOf
  <2> QED
    BY <2>3, <2>4
<1>8. ASSUME NEW d \in Conns, Closes(d) PROVE Ages(c)'
  <2>1. d # c /\ conn'[c] = conn[c] /\ c \in Registered
    BY <1>0, <1>8, ClosedOp DEF Closes, Becomes, Registered
  <2> QED
    BY <1>3, <1>8, <2>1 DEF Closes, Becomes
\* A loop that gets stuck frees what it handles from its bounds.
<1>9. ASSUME Blocks PROVE Ages(c)'
  <2>1. c \in Registered /\ conn' = conn /\ stuck' /\ IdleBound(c)' = IdleBound(c)
    BY <1>9 DEF Blocks, reaperVars, Registered, IdleBound, Listed, Longest, Since
  <2> QED
    BY <1>0, <1>1, <2>1 DEF Ages
<1>10. CASE Sigterm \/ BeginStop \/ WaitForConnections
  <2>1. /\ conn' = conn /\ stuck' = stuck /\ c \in Registered
        /\ UNCHANGED <<reaper, counter, todo, target>>
    BY <1>10 DEF Sigterm, BeginStop, WaitForConnections, reaperVars, Registered
  <2>2. IdleBound(c)' = IdleBound(c)
    BY <2>1 DEF IdleBound, Listed, Longest, Since
  <2> QED
    BY <1>0, <1>1, <2>1, <2>2 DEF Ages, Longest
\* stop() closes what is idle and leaves status and age of the rest.
<1>11. ASSUME conn'[c] = Stopped(conn[c]), c \in Registered
       PROVE  /\ conn'[c].status # Pending /\ conn'[c].status = conn[c].status
              /\ conn'[c].parser = conn[c].parser /\ conn'[c].answers = conn[c].answers
              /\ conn'[c].age = conn[c].age
  BY <1>0, <1>11, StoppedOp, ClosedOp DEF Registered
<1>12. CASE AskConnections
  <2>1. /\ UNCHANGED <<reaperVars, stuck>>
        /\ conn'[c] = IF c \in Registered THEN Stopped(conn[c]) ELSE conn[c]
    BY <1>12 DEF AskConnections
  <2>2. c \in Registered
    BY <2>1 DEF Registered
  <2> QED
    BY <1>0, <1>1, <1>11, <2>1, <2>2 DEF Ages, Longest
<1>13. CASE StopIdle
  <2>1. /\ reaper = "stopping" /\ reaper' = "idle" /\ target' = {} /\ stuck' = stuck
        /\ UNCHANGED <<counter, todo>>
        /\ conn'[c] = IF c \in target \cap Registered THEN Stopped(conn[c]) ELSE conn[c]
    BY <1>13 DEF StopIdle
  <2>2. c \in Registered
    BY <2>1 DEF Registered
  <2>3. CASE c \in target
    BY <1>0, <1>1, <1>11, <2>1, <2>2, <2>3 DEF Ages, Longest
  <2>4. CASE c \notin target
    <3>1. IdleBound(c)' = IdleBound(c) /\ conn'[c] = conn[c] /\ Longest' = Longest
      BY <2>1, <2>4 DEF IdleBound, Listed, Longest, Since
    <3> QED
      BY <1>0, <1>1, <2>1, <2>2, <3>1 DEF Ages
  <2> QED
    BY <2>3, <2>4
\* Another second has begun, or the reaper has its list of all connections.
<1>14. CASE ReaperTurns
  <2>1. /\ reaper = "awake" /\ reaper' = "idle" /\ target' = target /\ target = {}
        /\ counter' = (counter + 1) % Period
        /\ todo' = IF counter' % KeepAlive = 0 THEN Registered ELSE {}
        /\ conn' = conn /\ stuck' = stuck /\ c \in Registered
    BY <1>0, <1>14 DEF ReaperTurns, ReaperLooks, ReaperInv, Registered
  <2>2. Since' = IF Since + 1 = KeepAlive THEN 0 ELSE Since + 1
    BY <1>0, <2>1, NextTurn DEF Since
  <2>3. IdleBound(c)' = Longest + Since + 1 /\ IdleBound(c) = Longest + Since + 1
    <3>1. Longest' = Longest
      BY DEF Longest
    <3>2. CASE Since + 1 = KeepAlive
      <4>1. c \in todo'
        BY <2>1, <2>2, <3>2 DEF Since
      <4> QED
        BY <1>2, <2>1, <3>1, <3>2, <4>1 DEF IdleBound, Listed
    <3>3. CASE Since + 1 # KeepAlive
      <4>1. Since' = Since + 1 /\ todo' = {}
        BY <1>2, <2>1, <2>2, <3>3 DEF Since
      <4> QED
        BY <1>2, <2>1, <3>1, <4>1 DEF IdleBound, Listed
    <3> QED
      BY <3>2, <3>3
  <2> QED
    BY <1>0, <1>1, <2>1, <2>3 DEF Ages, Longest
\* What the reaper looks at is young enough, or is its next target.
<1>15. ASSUME NEW d \in Conns, LookForIdle(d) PROVE Ages(c)'
  <2>1. /\ reaper = "idle" /\ target = {} /\ todo' = todo \ {d} /\ conn' = conn
        /\ stuck' = stuck /\ counter' = counter /\ c \in Registered
    BY <1>15 DEF LookForIdle, ReaperInv, Registered
  <2>2. CASE IsIdle(conn[d]) \/ d # c
    <3>1. IdleBound(c)' = IdleBound(c) /\ Longest' = Longest
      <4>1. Listed(c)' <=> Listed(c)
        BY <1>15, <2>1, <2>2 DEF LookForIdle, Listed
      <4>2. reaper' # "awake"
        BY <1>15 DEF LookForIdle
      <4> QED
        BY <2>1, <4>1, <4>2 DEF IdleBound, Longest, Since
    <3> QED
      BY <1>0, <1>1, <2>1, <3>1 DEF Ages
  <2>3. CASE ~IsIdle(conn[d]) /\ d = c
    <3>1. /\ reaper' = "idle" /\ target' = {} /\ c \notin todo'
      BY <1>15, <2>1, <2>3 DEF LookForIdle
    <3>2. IdleBound(c)' = Longest + Since /\ Longest' = Longest
      BY <2>1, <3>1 DEF IdleBound, Listed, Longest, Since
    <3>3. conn[c].status = Pending => conn[c].age <= Longest + Since
      BY <1>2, <2>3 DEF IsIdle
    <3> QED
      BY <1>0, <1>1, <2>1, <3>2, <3>3 DEF Ages
  <2> QED
    BY <2>2, <2>3
\* The list is worked off: every bound is that of a connection not on it.
<1>16. ASSUME IdleDone \/ StuckDone \/ \E d \in Conns : LookForStuck(d)
       PROVE  Ages(c)'
  <2>1. /\ conn' = conn /\ stuck' = stuck /\ counter' = counter /\ c \in Registered
        /\ target = {} /\ reaper \in {"idle", "stuck"} /\ reaper' \in {"stuck", "sleeping"}
        /\ reaper = "idle" => todo = {}
    BY <1>16 DEF IdleDone, StuckDone, LookForStuck, ReaperInv, Registered
  <2>2. IdleBound(c)' = IdleBound(c) /\ Longest' = Longest
    BY <2>1 DEF IdleBound, Listed, Longest, Since
  <2> QED
    BY <1>0, <1>1, <2>1, <2>2 DEF Ages
<1>17. CASE Tick
  <2>1. /\ reaper = "sleeping" /\ reaper' = "awake" /\ counter' = counter /\ stuck' = stuck
        /\ conn'[c] = IF c \in Registered THEN Aged(conn[c]) ELSE conn[c]
        /\ SecondIsOver
    BY <1>0, <1>17 DEF Tick, SecondIsOver
  <2>2. /\ conn[c].state \in {"open", "draining"}
        /\ conn'[c].status = conn[c].status /\ conn'[c].parser = conn[c].parser
        /\ conn'[c].answers = conn[c].answers
        /\ conn'[c].age = Older(conn[c].age)
    BY <1>0, <2>1, AgedOp DEF Registered
  <2>3. c \in Registered /\ Ages(c)
    BY <1>1, <2>2 DEF Registered
  <2>4. conn'[c].age \in Nat /\ conn'[c].age <= conn[c].age + 1
    BY <1>0, <1>2, <2>2, OlderType, AgedOp, TimesAssumption
  <2>5. /\ IdleBound(c)' = Longest + Since + 1 /\ IdleBound(c) = Longest + Since
        /\ Longest' = Longest
    BY <2>1 DEF IdleBound, Listed, Longest, Since
  <2>6. conn[c].answers > 0 /\ ~stuck => conn[c].age < HandlerTimeout
    BY <1>0, <2>1, <2>3 DEF SecondIsOver, StampedAndTimely
  <2>7. conn[c].parser = "head" => "slow" \in May \/ stuck
    BY <2>1, <2>3 DEF SecondIsOver, HasSent
  <2>8. conn'[c].status = Pending => conn'[c].age <= IdleBound(c)'
    BY <1>2, <2>2, <2>3, <2>4, <2>5 DEF Ages
  <2>9. conn'[c].answers > 0 /\ ~stuck' => conn'[c].age <= Longest'
    BY <1>2, <2>1, <2>2, <2>4, <2>5, <2>6
  <2> QED
    BY <1>0, <2>1, <2>2, <2>7, <2>8, <2>9 DEF Ages
<1> QED
  BY <1>4, <1>5, <1>6, <1>7, <1>8, <1>9, <1>10, <1>12, <1>13, <1>14, <1>15, <1>16, <1>17
  DEF Next, Reaper, Shutdown, Connections, Segment, Answer

LEMMA ReaperInvariant == Spec => [](TypeOK /\ ConnInv /\ ReaperInv /\ AgeInv)
  BY TypeInit, ConnInit, TypeStep, ConnStep, ReaperStep, AgeStep, PTL DEF Spec

\* No idle connection grows older than the reaper promises, for any timeouts:
\* up to twice keep_alive_timeout, and one keep_alive_timeout more than its
\* last request took (kill_idle_connections), where every answer belongs to a
\* request that was stamped.
THEOREM IdleConnections == Spec => []IdleIsBounded
<1>1. TypeOK /\ ConnInv /\ ReaperInv /\ AgeInv => IdleIsBounded
  <2> SUFFICES ASSUME TypeOK, ConnInv, ReaperInv, AgeInv, NEW c \in Registered,
                      KeepAlive > 0, shutdown \in {"no", "asked"}, StampedAndTimely,
                      \/ conn[c].status = Pending
                      \/ {"early", "cached"} \cap May = {} /\ Idle(conn[c])
               PROVE  \/ conn[c].age <= 2 * KeepAlive
                      \/ conn[c].age <= HandlerTimeout + KeepAlive
    BY DEF IdleIsBounded
  <2>1. c \in Conns /\ conn[c].age \in Nat
    BY TimesAssumption DEF Registered, TypeOK, ConnType
  <2>2. conn[c].age <= IdleBound(c)
    <3>1. conn[c].status = Pending
      <4>1. {"early", "cached"} \cap May = {} => Whole
        BY DEF Whole, StampedAndTimely
      <4>2. Whole => InPhase(conn[c])
        BY <2>1 DEF ConnInv
      <4> QED
        BY <4>1, <4>2 DEF InPhase, Idle
    <3> QED
      BY <3>1 DEF ReaperInv, AgeInv, ReaperLooks, Ages
  <2>3. /\ IdleBound(c) \in Nat /\ IdleBound(c) <= Longest + KeepAlive
        /\ KeepAlive \in Nat /\ HandlerTimeout \in Nat
    BY <2>1, Numbers
  <2>4. Longest = HandlerTimeout \/ Longest = KeepAlive
    BY DEF Longest
  <2> QED
    BY <2>1, <2>2, <2>3, <2>4
<1> QED
  BY <1>1, ReaperInvariant, PTL

\* No worker is killed over prompt clients that wait for their answers and
\* handlers that read their bodies to the end: what arrives within a
\* second is younger than worker_timeout when check_if_worker_is_stuck looks.
THEOREM Prompt == Spec => []PromptClientsAreSafe
<1>1. Init => PromptClientsAreSafe
  BY DEF Init, PromptClientsAreSafe
<1>2. ASSUME TypeOK, ConnInv, ReaperInv, AgeInv, PromptClientsAreSafe, Next
      PROVE  PromptClientsAreSafe'
  <2> SUFFICES ASSUME May \subseteq {"stuck"}, KeepAlive > 0,
                      2 * KeepAlive < WorkerTimeout,
                      HandlerTimeout + KeepAlive < WorkerTimeout,
                      life' = "killed"
               PROVE  stuck'
    BY <1>2 DEF PromptClientsAreSafe, Next, May
  <2>0. life = "running"
    BY <1>2, Running
  <2>1. PICK c \in Conns : /\ reaper = "stuck" /\ LooksStuck(conn[c]) /\ stuck' = stuck
    <3>1. Connections => life' = life
      BY ConnectionsOnly
    <3> QED
      BY <1>2, <2>0, <3>1
      DEF Next, Reaper, Shutdown, Blocks, ReaperTurns, StopIdle, IdleDone, StuckDone,
          LookForIdle, LookForStuck, BeginStop, AskConnections, WaitForConnections,
          Sigterm, Tick
  <2>2. conn[c].status = Receiving /\ conn[c].age >= WorkerTimeout
    BY <2>1 DEF LooksStuck, PROCESSING_REQUEST, Receiving
  <2>3. c \in Registered
    BY <1>2, <2>2, Statuses DEF ConnInv, Untouched
  <2>4. Whole /\ StampedAndTimely /\ "slow" \notin May
    BY DEF Whole, StampedAndTimely
  <2>5. Ages(c)
    BY <1>2, <2>1, <2>3, <2>4 DEF AgeInv, ReaperLooks
  <2>6. conn[c].parser = "head" \/ conn[c].answers = 1
    BY <1>2, <2>2, <2>4, Statuses DEF ConnInv, InPhase
  <2>7. /\ Longest \in Nat /\ KeepAlive \in Nat /\ conn[c].age \in Nat
        /\ WorkerTimeout \in Nat
    BY <1>2, Numbers, TimesAssumption DEF TypeOK, ConnType
  <2>8. ~stuck => conn[c].age <= Longest + KeepAlive
    BY <2>4, <2>5, <2>6, <2>7 DEF Ages
  <2>9. Longest + KeepAlive < WorkerTimeout
    BY TimesAssumption DEF Longest
  <2> QED
    BY <2>1, <2>2, <2>7, <2>8, <2>9
<1>3. ASSUME PromptClientsAreSafe, UNCHANGED vars PROVE PromptClientsAreSafe'
  BY <1>3 DEF PromptClientsAreSafe, vars, work, May
<1>4. TypeOK /\ ConnInv /\ ReaperInv /\ AgeInv /\ PromptClientsAreSafe /\ [Next]_vars
        => PromptClientsAreSafe'
  BY <1>2, <1>3
<1> QED
  BY <1>1, <1>4, ReaperInvariant, PTL DEF Spec
=============================================================================
