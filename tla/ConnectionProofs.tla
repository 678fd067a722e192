-------------------------- MODULE ConnectionProofs --------------------------
(***************************************************************************)
(* Theorems about Connection, for any number of requests, chunks and       *)
(* writes, and every set of environments:                                  *)
(*                                                                         *)
(*   TypeCorrect   the type invariant                                      *)
(*   Registered    an open connection is in app.connections                *)
(*   Answers       one response for each request, in order                 *)
(*   Releases      after_response leaves nothing over                      *)
(*   Streams       no response begins within one that streams              *)
(*                                                                         *)
(* The first part has a lemma for what each operation of StreamQueue does  *)
(* to the items, the flags and the tasks that wait, and the invariants of  *)
(* every environment.  TypeInv adds to the types that a parser within a    *)
(* body has met a request, that no handler waits for hooks there are none  *)
(* of, and that a transport without pressure never pauses writing;         *)
(* ClosedInv, that of the connections that are not kept alive only one     *)
(* that streams is open after its first response.                          *)
(*                                                                         *)
(* None of the last three is inductive, and neither is any part of the     *)
(* invariant Inv that implies them: the parts say which task has the       *)
(* request that is not answered (Order), where a handler that waits for    *)
(* its body waits (Waiters), which timer runs (Watchers), what the status  *)
(* shows (Busy), what the queue holds (Body) and, when the client          *)
(* pipelines, that each request is in one place (Unique).  A step keeps    *)
(* Order because the timer that fires is the last request's, and that      *)
(* timer is the last request's because a client waits for its answer,      *)
(* which is part of Order.                                                 *)
(***************************************************************************)
EXTENDS Connection, SequenceTheorems, TLAPS

-----------------------------------------------------------------------------
(* In every environment.                                                   *)

TypeInv ==
    /\ TypeOK
    /\ parser = "body" => msg \in Reqs
    /\ SentHooks = "none" => \A r \in Reqs : handler[r] # "hooks"
    /\ "pressure" \notin May => writable /\ flushers = {}

QueueType == StreamQueueType(Items, Reqs)

LEMMA Constants ==
  /\ MaxMsgs \in Nat
  /\ EndOfStream \in Items
  /\ \A r \in Reqs : Chunk(r) \in Items /\ Chunk(r) # EndOfStream
  /\ \A r \in Reqs : r \in 0..MaxMsgs /\ r \in Nat /\ r # 0
  /\ 0 \in 0..MaxMsgs
  BY MaxMsgsAssumption DEF Items, EndOfStream, Reqs, Chunk

LEMMA ClearOp ==
  ASSUME NEW e \in Event(Reqs)
  PROVE  /\ EventClear(e) \in Event(Reqs)
         /\ EventClear(e).value = FALSE
         /\ EventClear(e).pending = e.pending
         /\ EventClear(e).woken = e.woken
  BY DEF Event, EventClear

LEMMA SetOp ==
  ASSUME NEW e \in Event(Reqs)
  PROVE  /\ EventSet(e) \in Event(Reqs)
         /\ EventSet(e).pending = IF e.value THEN e.pending ELSE {}
         /\ EventSet(e).woken = IF e.value THEN e.woken ELSE e.woken \cup e.pending
  BY DEF Event, EventSet

LEMMA LeaveOp ==
  ASSUME NEW e \in Event(Reqs), NEW t
  PROVE  /\ EventLeave(e, t) \in Event(Reqs)
         /\ EventLeave(e, t).pending = e.pending \ {t}
         /\ EventLeave(e, t).woken = e.woken \ {t}
<1>1. e.pending \ {t} \in SUBSET Reqs /\ e.woken \ {t} \in SUBSET Reqs
  BY DEF Event
<1> QED
  BY <1>1 DEF Event, EventLeave

LEMMA WaitOp ==
  ASSUME NEW e \in Event(Reqs), ~e.value, NEW t \in Reqs
  PROVE  /\ EventWait(e, t) \in Event(Reqs)
         /\ EventWait(e, t).value = FALSE
         /\ EventWait(e, t).pending = e.pending \cup {t}
         /\ EventWait(e, t).woken = e.woken
<1>1. e.pending \cup {t} \in SUBSET Reqs
  BY DEF Event
<1> QED
  BY <1>1 DEF Event, EventWait

NoEnd(queue) == \A j \in 1..Len(queue.items) : queue.items[j] # EndOfStream

LEMMA QueueFields ==
  ASSUME NEW queue \in QueueType
  PROVE  /\ queue.items \in Seq(Items) /\ queue.event \in Event(Reqs)
         /\ queue.waiting \in BOOLEAN /\ queue.dirty \in BOOLEAN
         /\ queue.finished \in BOOLEAN /\ Len(queue.items) \in Nat
         /\ queue.event.value \in BOOLEAN
         /\ queue.event.pending \subseteq Reqs /\ queue.event.woken \subseteq Reqs
  BY LenProperties DEF QueueType, StreamQueueType, Event

\* put() of one item.
LEMMA PutOne ==
  ASSUME NEW queue \in QueueType, NEW item \in Items
  PROVE  LET put == Put(queue, <<item>>)
         IN  /\ put \in QueueType
             /\ put.items = Append(queue.items, item)
             /\ put.items # <<>>
             /\ put.waiting = queue.waiting
             /\ put.finished = queue.finished
             /\ put.dirty = TRUE
             /\ put.event = IF queue.waiting THEN EventSet(queue.event) ELSE queue.event
             /\ NoEnd(queue) /\ item # EndOfStream => NoEnd(put)
<1> DEFINE put == Put(queue, <<item>>)
           items == queue.items \o <<item>>
           event == IF queue.waiting THEN EventSet(queue.event) ELSE queue.event
<1>1. /\ queue.items \in Seq(Items) /\ queue.event \in Event(Reqs)
      /\ Len(queue.items) \in Nat
  BY QueueFields
<1>2. EventSet(queue.event) \in Event(Reqs)
  BY <1>1 DEF Event, EventSet
<1>3. event \in Event(Reqs)
  BY <1>1, <1>2
<1>4. /\ items = Append(queue.items, item)
      /\ items \in Seq(Items)
      /\ Len(items) = Len(queue.items) + 1
      /\ \A j \in 1..Len(queue.items) : items[j] = queue.items[j]
      /\ items[Len(queue.items) + 1] = item
  BY <1>1, AppendProperties, AppendIsConcat
<1>5. items # <<>>
  BY <1>1, <1>4
<1>6. put = [queue EXCEPT !.items = items, !.dirty = TRUE, !.event = event]
  BY DEF Put
<1> HIDE DEF items, event, put
<1>7. /\ put \in QueueType
      /\ put.items = items
      /\ put.waiting = queue.waiting
      /\ put.finished = queue.finished
      /\ put.dirty = TRUE
      /\ put.event = event
  BY <1>1, <1>3, <1>4, <1>6 DEF QueueType, StreamQueueType
<1>8. NoEnd(queue) /\ item # EndOfStream => NoEnd(put)
  BY <1>1, <1>4, <1>7 DEF NoEnd
<1> QED
  BY <1>4, <1>5, <1>7, <1>8 DEF event, put

\* end(): the sentinel if somebody waits, and the flag.
LEMMA EndProps ==
  ASSUME NEW queue \in QueueType
  PROVE  LET ended == End(queue)
         IN  /\ ended \in QueueType
             /\ queue.items # <<>> \/ queue.waiting => ended.items # <<>>
             /\ ended.waiting = queue.waiting
             /\ ended.finished = TRUE
             /\ (queue.items # <<>> => queue.dirty) => (ended.items # <<>> => ended.dirty)
             /\ ended.event = IF queue.waiting THEN EventSet(queue.event) ELSE queue.event
<1> DEFINE before == IF queue.waiting THEN Put(queue, <<EndOfStream>>) ELSE queue
           ended == End(queue)
<1>1. /\ before \in QueueType
      /\ queue.items # <<>> \/ queue.waiting => before.items # <<>>
      /\ before.waiting = queue.waiting
      /\ (queue.items # <<>> => queue.dirty) => (before.items # <<>> => before.dirty)
      /\ before.event = IF queue.waiting THEN EventSet(queue.event) ELSE queue.event
  <2>1. CASE queue.waiting
    <3> DEFINE put == Put(queue, <<EndOfStream>>)
    <3>1. /\ put \in QueueType /\ put.items # <<>> /\ put.waiting = queue.waiting
          /\ put.dirty = TRUE
          /\ put.event = IF queue.waiting THEN EventSet(queue.event) ELSE queue.event
      BY Constants, PutOne
    <3>2. before = put
      BY <2>1
    <3> HIDE DEF before, put
    <3> QED
      BY <2>1, <3>1, <3>2
  <2>2. CASE ~queue.waiting
    <3>1. before = queue
      BY <2>2
    <3> HIDE DEF before
    <3> QED
      BY <2>2, <3>1
  <2> QED
    BY <2>1, <2>2
<1>2. ended = [before EXCEPT !.finished = TRUE]
  BY DEF End
<1> HIDE DEF before, ended
<1>3. /\ ended \in QueueType
      /\ ended.items = before.items
      /\ ended.waiting = before.waiting
      /\ ended.finished = TRUE
      /\ ended.dirty = before.dirty
      /\ ended.event = before.event
  BY <1>1, <1>2 DEF QueueType, StreamQueueType
<1> QED
  BY <1>1, <1>3 DEF ended

\* What one segment does to the queue.
FedBy(queue, body, last, fed) ==
    /\ fed \in QueueType
    /\ fed.waiting = queue.waiting
    /\ fed.finished = (queue.finished \/ last)
    /\ (queue.items # <<>> => queue.dirty) => (fed.items # <<>> => fed.dirty)
    /\ queue.items # <<>> => fed.items # <<>>
    /\ queue.waiting /\ (body \/ last) => fed.items # <<>>
    /\ NoEnd(queue) => NoEnd(fed) \/ last
    /\ fed.event = IF queue.waiting /\ (body \/ last)
                   THEN EventSet(queue.event) ELSE queue.event
    /\ ~body /\ ~last => fed = queue

LEMMA FeedProps ==
  ASSUME NEW queue \in QueueType, NEW r \in Reqs, NEW body \in BOOLEAN, NEW last \in BOOLEAN
  PROVE  FedBy(queue, body, last, Feed(queue, r, body, last))
<1> DEFINE mid == IF body THEN Put(queue, <<Chunk(r)>>) ELSE queue
           put == Put(queue, <<Chunk(r)>>)
<1>1. /\ put \in QueueType /\ put.items # <<>> /\ put.waiting = queue.waiting
      /\ put.finished = queue.finished /\ put.dirty = TRUE
      /\ put.event = IF queue.waiting THEN EventSet(queue.event) ELSE queue.event
      /\ NoEnd(queue) => NoEnd(put)
  BY Constants, PutOne
<1>2. body => mid = put
  OBVIOUS
<1>3. ~body => mid = queue
  OBVIOUS
<1>4. Feed(queue, r, body, last) = IF last THEN End(mid) ELSE mid
  BY DEF Feed
<1>5. queue.event \in Event(Reqs) /\ queue.waiting \in BOOLEAN /\ queue.finished \in BOOLEAN
  BY QueueFields
<1>6. EventSet(EventSet(queue.event)) = EventSet(queue.event)
  BY <1>5 DEF Event, EventSet
<1> HIDE DEF put, mid
<1>7. /\ mid \in QueueType
      /\ mid.waiting = queue.waiting
      /\ mid.finished = queue.finished
      /\ (queue.items # <<>> => queue.dirty) => (mid.items # <<>> => mid.dirty)
      /\ queue.items # <<>> \/ body => mid.items # <<>>
      /\ NoEnd(queue) => NoEnd(mid)
      /\ mid.event = IF queue.waiting /\ body THEN EventSet(queue.event) ELSE queue.event
  BY <1>1, <1>2, <1>3
<1>8. CASE ~last
  BY <1>3, <1>4, <1>5, <1>7, <1>8 DEF FedBy
<1>9. CASE last
  <2> DEFINE ended == End(mid)
  <2>1. /\ ended \in QueueType
        /\ mid.items # <<>> \/ mid.waiting => ended.items # <<>>
        /\ ended.waiting = mid.waiting
        /\ ended.finished = TRUE
        /\ (mid.items # <<>> => mid.dirty) => (ended.items # <<>> => ended.dirty)
        /\ ended.event = IF mid.waiting THEN EventSet(mid.event) ELSE mid.event
    BY <1>7, EndProps
  <2>2. Feed(queue, r, body, last) = ended
    BY <1>4, <1>9
  <2> HIDE DEF ended
  <2>3. ended.event = IF queue.waiting THEN EventSet(queue.event) ELSE queue.event
    BY <1>6, <1>7, <2>1
  <2> QED
    BY <1>5, <1>7, <1>9, <2>1, <2>2, <2>3 DEF FedBy
<1> QED
  BY <1>8, <1>9

\* clear(): it empties the queue, as long as items are put by put().
LEMMA ClearProps ==
  ASSUME NEW queue \in QueueType
  PROVE  LET cleared == Clear(queue)
         IN  /\ cleared \in QueueType
             /\ (queue.items # <<>> => queue.dirty) => cleared.items = <<>>
             /\ cleared.items = queue.items \/ cleared.items = <<>>
             /\ cleared.waiting = queue.waiting
             /\ cleared.finished = FALSE
             /\ cleared.dirty = FALSE
             /\ cleared.event.pending = queue.event.pending
             /\ cleared.event.woken = queue.event.woken
<1>1. queue.items \in Seq(Items) /\ queue.event \in Event(Reqs)
  BY QueueFields
<1>2. /\ EventClear(queue.event) \in Event(Reqs)
      /\ EventClear(queue.event).pending = queue.event.pending
      /\ EventClear(queue.event).woken = queue.event.woken
  BY <1>1 DEF EventClear, Event
<1>3. <<>> \in Seq(Items)
  OBVIOUS
<1> QED
  BY <1>1, <1>2, <1>3 DEF Clear, QueueType, StreamQueueType

\* get(), in its three outcomes, and a cancelled get().
LEMMA GetRestProps ==
  ASSUME NEW queue \in QueueType
  PROVE  /\ GetRest(queue) \in QueueType
         /\ GetRest(queue).items = IF queue.items = <<>> THEN <<>> ELSE Tail(queue.items)
         /\ GetRest(queue).waiting = queue.waiting
         /\ GetRest(queue).finished = queue.finished
         /\ GetRest(queue).dirty = queue.dirty
         /\ GetRest(queue).event = queue.event
<1>1. queue.items \in Seq(Items)
  BY QueueFields
<1>2. queue.items # <<>> => Tail(queue.items) \in Seq(Items)
  BY <1>1, HeadTailProperties
<1>3. <<>> \in Seq(Items)
  OBVIOUS
<1> QED
  BY <1>1, <1>2, <1>3 DEF GetRest, QueueType, StreamQueueType

LEMMA GetWaitProps ==
  ASSUME NEW queue \in QueueType, NEW t \in Reqs
  PROVE  /\ GetWait(queue, t) \in QueueType
         /\ GetWait(queue, t).items = queue.items
         /\ GetWait(queue, t).waiting = TRUE
         /\ GetWait(queue, t).finished = queue.finished
         /\ GetWait(queue, t).dirty = queue.dirty
         /\ GetWait(queue, t).event.value = FALSE
         /\ GetWait(queue, t).event.pending = queue.event.pending \cup {t}
         /\ GetWait(queue, t).event.woken = queue.event.woken
<1> DEFINE c == EventClear(queue.event)
           e == EventWait(c, t)
<1>1. t \in 0..MaxMsgs /\ queue.event \in Event(Reqs)
  BY Constants, QueueFields
<1>2. c \in Event(Reqs) /\ ~c.value /\ c.pending = queue.event.pending
      /\ c.woken = queue.event.woken
  BY <1>1, ClearOp
<1> HIDE DEF c
<1>3. /\ e \in Event(Reqs) /\ e.value = FALSE
      /\ e.pending = c.pending \cup {t} /\ e.woken = c.woken
  BY <1>1, <1>2, WaitOp, Zenon
<1>4. GetWait(queue, t) = [queue EXCEPT !.event = e, !.waiting = TRUE]
  BY DEF GetWait, c
<1> HIDE DEF e
<1>5. /\ GetWait(queue, t) \in QueueType
      /\ GetWait(queue, t).items = queue.items
      /\ GetWait(queue, t).waiting = TRUE
      /\ GetWait(queue, t).finished = queue.finished
      /\ GetWait(queue, t).dirty = queue.dirty
      /\ GetWait(queue, t).event = e
  BY <1>3, <1>4 DEF QueueType, StreamQueueType
<1> QED
  BY <1>2, <1>3, <1>5, Zenon

LEMMA GetResumeProps ==
  ASSUME NEW queue \in QueueType, NEW t \in Reqs
  PROVE  /\ GetResume(queue, t) \in QueueType
         /\ GetResume(queue, t).items =
              IF queue.items = <<>> THEN <<>> ELSE Tail(queue.items)
         /\ GetResume(queue, t).finished = queue.finished
         /\ GetResume(queue, t).dirty = queue.dirty
         /\ GetResume(queue, t).event.pending = queue.event.pending \ {t}
         /\ GetResume(queue, t).event.woken = queue.event.woken \ {t}
<1> DEFINE l == EventLeave(queue.event, t)
           e == EventClear(l)
           rest == IF queue.items = <<>> THEN <<>> ELSE Tail(queue.items)
<1>1. t \in 0..MaxMsgs /\ queue.event \in Event(Reqs) /\ queue.items \in Seq(Items)
  BY Constants, QueueFields
<1>2. /\ l \in Event(Reqs) /\ l.pending = queue.event.pending \ {t}
      /\ l.woken = queue.event.woken \ {t}
  BY <1>1, LeaveOp, Zenon
<1> HIDE DEF l
<1>3. e \in Event(Reqs) /\ e.pending = l.pending /\ e.woken = l.woken
  BY <1>1, <1>2, ClearOp
<1>4. queue.items # <<>> => Tail(queue.items) \in Seq(Items)
  BY <1>1, HeadTailProperties
<1>5. rest \in Seq(Items)
  BY <1>4
<1>6. GetResume(queue, t) =
        [queue EXCEPT !.event = e, !.waiting = FALSE, !.items = rest]
  BY DEF GetResume, GetFails, l
<1> HIDE DEF e, rest
<1>7. /\ GetResume(queue, t) \in QueueType
      /\ GetResume(queue, t).items = rest
      /\ GetResume(queue, t).finished = queue.finished
      /\ GetResume(queue, t).dirty = queue.dirty
      /\ GetResume(queue, t).event = e
  BY <1>3, <1>5, <1>6 DEF QueueType, StreamQueueType
<1> QED
  BY <1>2, <1>3, <1>7, Zenon DEF rest

LEMMA GetCancelledProps ==
  ASSUME NEW queue \in QueueType, NEW t
  PROVE  /\ GetCancelled(queue, t) \in QueueType
         /\ GetCancelled(queue, t).items = queue.items
         /\ GetCancelled(queue, t).waiting = queue.waiting
         /\ GetCancelled(queue, t).finished = queue.finished
         /\ GetCancelled(queue, t).dirty = queue.dirty
         /\ GetCancelled(queue, t).event.pending = queue.event.pending \ {t}
         /\ GetCancelled(queue, t).event.woken = queue.event.woken \ {t}
<1> DEFINE e == EventLeave(queue.event, t)
<1>1. queue.event \in Event(Reqs)
  BY QueueFields
<1>2. /\ e \in Event(Reqs) /\ e.pending = queue.event.pending \ {t}
      /\ e.woken = queue.event.woken \ {t}
  BY <1>1, LeaveOp, Zenon
<1>3. GetCancelled(queue, t) = [queue EXCEPT !.event = e]
  BY DEF GetCancelled
<1> HIDE DEF e
<1>4. /\ GetCancelled(queue, t) \in QueueType
      /\ GetCancelled(queue, t).items = queue.items
      /\ GetCancelled(queue, t).waiting = queue.waiting
      /\ GetCancelled(queue, t).finished = queue.finished
      /\ GetCancelled(queue, t).dirty = queue.dirty
      /\ GetCancelled(queue, t).event = e
  BY <1>2, <1>3 DEF QueueType, StreamQueueType
<1> QED
  BY <1>2, <1>4, Zenon

-----------------------------------------------------------------------------
(* Types. *)

LEMMA TypeInit == Init => TypeInv
<1> SUFFICES ASSUME Init PROVE TypeInv
  OBVIOUS
<1>1. NewStreamQueue \in StreamQueueType(Items, Reqs)
  <2>1. <<>> \in Seq(Items)
    OBVIOUS
  <2> QED
    BY <2>1 DEF NewStreamQueue, NewEvent, StreamQueueType, Event
<1>2. TypeOK
  <2>1. msg \in 0..MaxMsgs /\ currentTask \in 0..MaxMsgs /\ request \in 0..MaxMsgs
    BY Constants DEF Init
  <2>2. handler \in [Reqs -> HandlerPCs] /\ sent \in Seq(Reqs)
    BY DEF Init, HandlerPCs
  <2> QED
    BY <1>1, <2>1, <2>2 DEF Init, TypeOK, ParserPCs
<1> QED
  BY <1>2 DEF Init, TypeInv

\* The response to r is written, unless the transport is closed.
LEMMA WrittenType ==
  ASSUME TypeInv, NEW r \in Reqs
  PROVE  Written(r) \in Seq(Reqs)
<1>1. sent \in Seq(Reqs)
  BY DEF TypeInv, TypeOK
<1>2. Append(sent, r) \in Seq(Reqs)
  BY <1>1, AppendProperties
<1> QED
  BY <1>1, <1>2 DEF Written

\* The types Send keeps.
SendTypes ==
    /\ sent \in Seq(Reqs)
    /\ status \in {Pending, Receiving, Processing}
    /\ writable \in BOOLEAN /\ closed \in BOOLEAN /\ registered \in BOOLEAN
    /\ closing \in BOOLEAN /\ readable \in BOOLEAN /\ consumed \in BOOLEAN
    /\ timers \subseteq Timers
    /\ timeoutTask \in Timers \cup {NoTimer}
    /\ request \in 0..MaxMsgs
    /\ q \in QueueType
    /\ flushers \subseteq Reqs
    /\ "pressure" \notin May => writable /\ flushers = {}

LEMMA TypeReleased ==
  ASSUME TypeInv, NEW s \in {Pending, Receiving, Processing}, NEW b \in BOOLEAN,
         Released(s, b)
  PROVE  /\ status' \in {Pending, Receiving, Processing}
         /\ closed' \in BOOLEAN /\ registered' \in BOOLEAN
         /\ closing' \in BOOLEAN /\ readable' \in BOOLEAN /\ consumed' \in BOOLEAN
         /\ timers' \subseteq Timers
         /\ timeoutTask' \in Timers \cup {NoTimer}
         /\ request' \in 0..MaxMsgs
<1>1. closed' \in BOOLEAN /\ registered' \in BOOLEAN
  BY DEF Released, Close, TypeInv, TypeOK
<1>2. closing' \in BOOLEAN
  BY DEF Released, ClosingAfterResponse, TypeInv, TypeOK
<1>3. timers' \subseteq Timers
  BY DEF Released, TimersWithoutOurs, TypeInv, TypeOK
<1> QED
  BY <1>1, <1>2, <1>3, Constants DEF Released

LEMMA TypeSend ==
  ASSUME TypeInv, env' = env, NEW r \in Reqs, Send(r)
  PROVE  SendTypes'
<1>0. q \in QueueType /\ env' = env
  BY DEF TypeInv, TypeOK, QueueType
<1>1. sent' \in Seq(Reqs)
  BY WrittenType DEF Send
<1>2. writable' \in BOOLEAN /\ ("pressure" \notin May => writable')
  BY DEF Send, WritableAfterWrite, TypeInv, TypeOK
<1>3. CASE writable'
  <2>1. AfterResponse /\ flushers' = flushers
    BY <1>3 DEF Send
  <2>2. ReadsAfterResponse \in BOOLEAN /\ Pending \in {Pending, Receiving, Processing}
    BY DEF ReadsAfterResponse, TypeInv, TypeOK
  <2>3. Released(Pending, ReadsAfterResponse) /\ q' = Clear(q)
    BY <2>1 DEF AfterResponse
  <2>4. q' \in QueueType
    BY <1>0, <2>3, ClearProps
  <2>5. /\ status' \in {Pending, Receiving, Processing}
        /\ closed' \in BOOLEAN /\ registered' \in BOOLEAN
        /\ closing' \in BOOLEAN /\ readable' \in BOOLEAN /\ consumed' \in BOOLEAN
        /\ timers' \subseteq Timers
        /\ timeoutTask' \in Timers \cup {NoTimer}
        /\ request' \in 0..MaxMsgs
    BY <2>2, <2>3, TypeReleased
  <2>6. flushers' \subseteq Reqs /\ ("pressure" \notin May => flushers' = {})
    BY <2>1 DEF TypeInv, TypeOK
  <2> QED
    BY <1>0, <1>1, <1>2, <2>4, <2>5, <2>6 DEF SendTypes, QueueType, May
<1>4. CASE ~writable'
  <2>1. /\ flushers' = flushers \cup {r}
        /\ UNCHANGED <<status, closed, registered, closing, readable, consumed,
                       timers, timeoutTask, request, q>>
    BY <1>4 DEF Send
  <2>2. flushers' \subseteq Reqs
    BY <2>1 DEF TypeInv, TypeOK
  <2>3. "pressure" \in May
    BY <1>2, <1>4
  <2> QED
    BY <1>0, <1>1, <1>2, <2>1, <2>2, <2>3 DEF SendTypes, QueueType, May, TypeInv, TypeOK
<1> QED
  BY <1>3, <1>4

\* A streamed answer.
LEMMA SendStreamEffect ==
  ASSUME TypeInv, NEW r \in Reqs, SendStream(r)
  PROVE  /\ streaming' \subseteq Reqs
         /\ timers' \subseteq Timers
         /\ timeoutTask' \in Timers \cup {NoTimer}
         /\ sent' \in Seq(Reqs)
         /\ sent' = sent \/ sent' = Written(r)
         /\ UNCHANGED <<status, readable, writable, closed, stopped, currentTask, request,
                        q, consumed, registered, flushers, closing, msg, parser>>
<1>1. StreamWatcher(r) \in Timers
  BY DEF StreamWatcher, Timers
<1>2. CASE timeoutTask = NoTimer
  BY <1>2 DEF SendStream, TypeInv, TypeOK
<1>3. CASE timeoutTask # NoTimer
  BY <1>1, <1>3, WrittenType DEF SendStream, TimersWithoutOurs, TypeInv, TypeOK
<1> QED
  BY <1>2, <1>3

\* What a step leaves alone keeps its type; each action's own assignments
\* have theirs.
LEMMA TypeStep == TypeInv /\ [Next]_vars => TypeInv'
<1> SUFFICES ASSUME TypeInv, Next PROVE TypeInv'
  <2>1. ASSUME TypeInv, UNCHANGED vars PROVE TypeInv'
    BY <2>1 DEF TypeInv, TypeOK, vars, conn, attributes, loop, May, SentHooks
  <2> QED
    BY <2>1
<1>0. /\ env' = env
      /\ q \in QueueType
      /\ handler \in [Reqs -> HandlerPCs]
      /\ SentHooks' = SentHooks /\ May' = May
      /\ msg \in 0..MaxMsgs
  BY DEF Next, TypeInv, TypeOK, QueueType, SentHooks, May
<1> USE DEF Client, Loop, Handler, StreamTask
<1>1. ASSUME PartialHeaders PROVE TypeInv'
  BY <1>0, <1>1 DEF PartialHeaders, TypeInv, TypeOK, loop, ParserPCs
<1>2. ASSUME NEW body \in BOOLEAN, NEW last \in BOOLEAN, Headers(body, last)
      PROVE  TypeInv'
  <2>1. msg + 1 \in Reqs /\ msg + 1 \in 0..MaxMsgs
    BY <1>0, <1>2, Constants DEF Headers, MaySendRequest, ClientIsReady, Reqs
  <2>2. q' \in QueueType
    BY <1>0, <1>2, <2>1, FeedProps DEF Headers, FedBy
  <2>3. Watcher(msg') \in Timers
    BY <1>2, <2>1 DEF Headers, Watcher, Timers
  <2>4. /\ handler' \in [Reqs -> HandlerPCs]
        /\ SentHooks = "none" => \A r \in Reqs : handler'[r] # "hooks"
    BY <1>0, <1>2 DEF Headers, HandlerPCs, TypeInv
  <2>5. status' \in {Pending, Receiving, Processing}
    BY <1>2 DEF Headers, StatusAfter
  <2>6. readable' \in BOOLEAN /\ parser' \in ParserPCs
    BY <1>2 DEF Headers, ParserPCs
  <2>7. msg' = msg + 1 /\ request' = msg + 1 /\ currentTask' = msg + 1
        /\ timers' = timers \cup {Watcher(msg')} /\ timeoutTask' = Watcher(msg')
        /\ UNCHANGED <<writable, closed, stopped, consumed, registered, streaming,
                       errors, flushers, closing, sent>>
    BY <1>2 DEF Headers
  <2> QED
    BY <1>0, <2>1, <2>2, <2>3, <2>4, <2>5, <2>6, <2>7 DEF TypeInv, TypeOK, QueueType
<1>3. ASSUME NEW body \in BOOLEAN, NEW last \in BOOLEAN, HeadersCached(body, last)
      PROVE  TypeInv'
  <2>1. msg' \in Reqs /\ msg' \in 0..MaxMsgs
    BY <1>0, <1>3, Constants DEF HeadersCached, MaySendRequest, ClientIsReady, Reqs
  <2>2. sent' \in Seq(Reqs) /\ writable' \in BOOLEAN /\ ("pressure" \notin May => writable')
    BY <1>3, <2>1, WrittenType DEF HeadersCached, WritableAfterWrite, TypeInv, TypeOK
  <2>3. parser' \in ParserPCs /\ UNCHANGED <<stopped, currentTask, handler, streaming, errors>>
    BY <1>3 DEF HeadersCached, ParserPCs
  <2>4. CASE writable'
    <3>1. /\ Released(StatusAfter(Pending, last), ~body)
          /\ q' = Feed(Clear(q), msg', body, last)
          /\ flushers' = flushers
      BY <1>3, <2>4 DEF HeadersCached
    <3>2. q' \in QueueType
      <4>1. Clear(q) \in QueueType
        BY <1>0, ClearProps
      <4> QED
        BY <2>1, <3>1, <4>1, FeedProps DEF FedBy
    <3>3. StatusAfter(Pending, last) \in {Pending, Receiving, Processing}
      BY DEF StatusAfter
    <3>4. (~body) \in BOOLEAN
      OBVIOUS
    <3> QED
      BY <1>0, <2>1, <2>2, <2>3, <2>4, <3>1, <3>2, <3>3, <3>4, TypeReleased
      DEF TypeInv, TypeOK, QueueType
  <2>5. CASE ~writable'
    <3>1. /\ flushers' = flushers \cup {msg'}
          /\ request' = msg'
          /\ q' = Feed(q, msg', body, last)
          /\ readable' = ~body
          /\ status' = StatusAfter(Receiving, last)
          /\ UNCHANGED <<closed, registered, closing, consumed, timers, timeoutTask>>
      BY <1>3, <2>5 DEF HeadersCached
    <3>2. q' \in QueueType
      BY <1>0, <2>1, <3>1, FeedProps DEF FedBy
    <3>3. status' \in {Pending, Receiving, Processing} /\ readable' \in BOOLEAN
      BY <3>1 DEF StatusAfter
    <3> QED
      BY <1>0, <2>1, <2>2, <2>3, <2>5, <3>1, <3>2, <3>3 DEF TypeInv, TypeOK, QueueType
  <2> QED
    BY <2>4, <2>5
<1>4. ASSUME NEW body \in BOOLEAN, NEW last \in BOOLEAN, MoreBody(body, last)
      PROVE  TypeInv'
  <2>1. msg \in Reqs
    BY <1>4 DEF MoreBody, TypeInv
  <2>2. q' \in QueueType
    BY <1>0, <1>4, <2>1, FeedProps DEF MoreBody, FedBy
  <2>3. status' \in {Pending, Receiving, Processing}
    BY <1>4 DEF MoreBody, StatusAfter
  <2>4. readable' \in BOOLEAN /\ parser' \in ParserPCs
    BY <1>4 DEF MoreBody, ParserPCs
  <2>5. UNCHANGED <<writable, closed, stopped, timeoutTask, currentTask, request,
                    consumed, loop, msg, sent>>
    BY <1>4 DEF MoreBody
  <2> QED
    BY <1>0, <2>1, <2>2, <2>3, <2>4, <2>5 DEF TypeInv, TypeOK, QueueType, loop
<1>5. ASSUME BadSegment PROVE TypeInv'
  <2>1. msg' \in Reqs /\ msg' \in 0..MaxMsgs
    BY <1>0, <1>5, Constants DEF BadSegment, ClientIsReady, Reqs, TypeInv
  <2>2. errors' \subseteq [req : Reqs, why : {"handler", "timeout", "parser"}]
    BY <1>5, <2>1 DEF BadSegment, TypeInv, TypeOK
  <2> QED
    BY <1>0, <1>5, <2>1, <2>2 DEF BadSegment, TypeInv, TypeOK, ParserPCs
<1>6. ASSUME NEW more \in BOOLEAN, Upgrade(more) PROVE TypeInv'
  <2>1. msg' \in Reqs /\ msg' \in 0..MaxMsgs
    BY <1>0, <1>6, Constants DEF Upgrade, MaySendRequest, ClientIsReady, Reqs
  <2>2. q' \in QueueType
    BY <1>0, <1>6, EndProps DEF Upgrade
  <2>3. errors' \subseteq [req : Reqs, why : {"handler", "timeout", "parser"}]
    BY <1>6, <2>1 DEF Upgrade, TypeInv, TypeOK
  <2>4. readable' \in BOOLEAN /\ parser' \in ParserPCs /\ parser' # "body"
    BY <1>6 DEF Upgrade, ParserPCs
  <2> QED
    BY <1>0, <1>6, <2>1, <2>2, <2>3, <2>4 DEF Upgrade, TypeInv, TypeOK, QueueType
<1>7. ASSUME ConnectionLost PROVE TypeInv'
  <2>1. /\ closed' = TRUE /\ registered' = FALSE
        /\ UNCHANGED <<status, readable, writable, stopped, timeoutTask, currentTask, request, q, consumed,
                       timers, handler, streaming, errors, flushers, closing, msg, parser, sent>>
    BY <1>7 DEF ConnectionLost, Close
  <2>2. TypeOK'
    BY <1>0, <2>1 DEF TypeInv, TypeOK
  <2> QED
    BY <1>0, <2>1, <2>2 DEF TypeInv, TypeOK
<1>8. ASSUME NEW r \in Reqs, ReadChunk(r) PROVE TypeInv'
  <2>1. q' \in QueueType
    BY <1>0, <1>8, GetRestProps DEF ReadChunk
  <2>2. consumed' \in BOOLEAN /\ readable' \in BOOLEAN
    BY <1>8 DEF ReadChunk, Took
  <2> QED
    BY <1>0, <1>8, <2>1, <2>2 DEF ReadChunk, TypeInv, TypeOK, QueueType, readerVars
<1>9. ASSUME NEW r \in Reqs, WaitChunk(r) PROVE TypeInv'
  <2>1. q' \in QueueType
    BY <1>0, <1>9, GetWaitProps DEF WaitChunk
  <2>2. /\ handler' \in [Reqs -> HandlerPCs]
        /\ SentHooks = "none" => \A s \in Reqs : handler'[s] # "hooks"
    BY <1>0, <1>9 DEF WaitChunk, HandlerPCs, TypeInv
  <2> QED
    BY <1>0, <1>9, <2>1, <2>2 DEF WaitChunk, TypeInv, TypeOK, QueueType, readerVars
<1>10. ASSUME NEW r \in Reqs, Wake(r) PROVE TypeInv'
  <2>1. q' \in QueueType
    BY <1>0, <1>10, GetResumeProps DEF Wake
  <2>2. consumed' \in BOOLEAN /\ readable' \in BOOLEAN
    BY <1>10 DEF Wake, Took, TypeInv, TypeOK
  <2>3. /\ handler' \in [Reqs -> HandlerPCs]
        /\ SentHooks = "none" => \A s \in Reqs : handler'[s] # "hooks"
    BY <1>0, <1>10 DEF Wake, Fails, HandlerPCs, TypeInv
  <2>4. errors' \subseteq [req : Reqs, why : {"handler", "timeout", "parser"}]
    BY <1>10 DEF Wake, Fails, TypeInv, TypeOK
  <2> QED
    BY <1>0, <1>10, <2>1, <2>2, <2>3, <2>4
    DEF Wake, TypeInv, TypeOK, QueueType, readerVars
<1>11. ASSUME NEW r \in Reqs, AfterSending(r)
       PROVE  /\ handler' \in [Reqs -> HandlerPCs]
              /\ SentHooks = "none" => \A s \in Reqs : handler'[s] # "hooks"
  BY <1>0, <1>11 DEF AfterSending, HandlerPCs, TypeInv
<1>12. ASSUME NEW r \in Reqs, Respond(r) PROVE TypeInv'
  <2>1. SendTypes'
    BY <1>0, <1>12, TypeSend DEF Respond
  <2>2. /\ handler' \in [Reqs -> HandlerPCs]
        /\ SentHooks = "none" => \A s \in Reqs : handler'[s] # "hooks"
    BY <1>11, <1>12 DEF Respond
  <2> QED
    BY <1>0, <1>12, <2>1, <2>2 DEF Respond, SendTypes, TypeInv, TypeOK, QueueType
<1>13. ASSUME NEW r \in Reqs, Stream(r) PROVE TypeInv'
  <2>1. /\ handler' \in [Reqs -> HandlerPCs]
        /\ SentHooks = "none" => \A s \in Reqs : handler'[s] # "hooks"
    BY <1>11, <1>13 DEF Stream
  <2>2. /\ streaming' \subseteq Reqs
        /\ timers' \subseteq Timers
        /\ timeoutTask' \in Timers \cup {NoTimer}
        /\ sent' \in Seq(Reqs)
        /\ UNCHANGED <<status, readable, writable, closed, stopped, currentTask, request,
                       q, consumed, registered, errors, flushers, closing, msg, parser>>
    BY <1>13, SendStreamEffect DEF Stream
  <2> QED
    BY <1>0, <2>1, <2>2 DEF TypeInv, TypeOK
<1>14. ASSUME NEW r \in Reqs, Fails(r)
       PROVE  /\ handler' \in [Reqs -> HandlerPCs]
              /\ SentHooks = "none" => \A s \in Reqs : handler'[s] # "hooks"
              /\ errors' \subseteq [req : Reqs, why : {"handler", "timeout", "parser"}]
  BY <1>0, <1>14 DEF Fails, HandlerPCs, TypeInv, TypeOK
<1>15. ASSUME NEW r \in Reqs, Raise(r) PROVE TypeInv'
  BY <1>0, <1>14, <1>15 DEF Raise, TypeInv, TypeOK, readerVars
<1>16. ASSUME NEW r \in Reqs, RunSentHooks(r) PROVE TypeInv'
  <2>1. CASE handler' = [handler EXCEPT ![r] = "done"] /\ UNCHANGED errors
    <3>1. /\ handler' \in [Reqs -> HandlerPCs]
          /\ SentHooks = "none" => \A s \in Reqs : handler'[s] # "hooks"
      BY <1>0, <2>1 DEF HandlerPCs, TypeInv
    <3> QED
      BY <1>0, <1>16, <2>1, <3>1 DEF RunSentHooks, TypeInv, TypeOK, readerVars
  <2>2. CASE Fails(r)
    BY <1>0, <1>14, <1>16, <2>2 DEF RunSentHooks, TypeInv, TypeOK, readerVars
  <2> QED
    BY <1>16, <2>1, <2>2 DEF RunSentHooks
<1>17. ASSUME NEW e \in errors, HandleException(e) PROVE TypeInv'
  <2>1. e.req \in Reqs
    BY DEF TypeInv, TypeOK
  <2>2. errors' \subseteq errors /\ handler' = handler
    BY <1>17 DEF HandleException
  <2>3. CASE ErrorAnswers(e)
    <3>1. SendTypes'
      BY <1>0, <2>1, <2>3, TypeSend DEF ErrorAnswers
    <3> QED
      BY <1>0, <2>2, <2>3, <3>1 DEF ErrorAnswers, SendTypes, TypeInv, TypeOK, QueueType
  <2>4. CASE SendStream(e.req)
    <3>1. /\ streaming' \subseteq Reqs
          /\ timers' \subseteq Timers
          /\ timeoutTask' \in Timers \cup {NoTimer}
          /\ sent' \in Seq(Reqs)
          /\ UNCHANGED <<status, readable, writable, closed, stopped, currentTask,
                         request, q, consumed, registered, flushers, closing, msg, parser>>
      BY <2>1, <2>4, SendStreamEffect
    <3> QED
      BY <1>0, <2>2, <3>1 DEF TypeInv, TypeOK
  <2>5. CASE ErrorRaises(e)
    BY <1>0, <2>2, <2>5 DEF ErrorRaises, attributes, TypeInv, TypeOK
  <2> QED
    BY <1>17, <2>3, <2>4, <2>5 DEF HandleException
<1>18. ASSUME NEW r \in Reqs, StreamEnds(r) PROVE TypeInv'
  <2>1. ReadsAfterResponse \in BOOLEAN /\ Pending \in {Pending, Receiving, Processing}
    BY DEF ReadsAfterResponse, TypeInv, TypeOK
  <2>2. Released(Pending, ReadsAfterResponse) /\ q' = Clear(q)
    BY <1>18 DEF StreamEnds, AfterResponse
  <2>3. q' \in QueueType
    BY <1>0, <2>2, ClearProps
  <2> QED
    BY <1>0, <1>18, <2>1, <2>2, <2>3, TypeReleased DEF StreamEnds, TypeInv, TypeOK, QueueType
<1>19. ASSUME NEW r \in Reqs, StreamStalls(r) PROVE TypeInv'
  <2>1. /\ closed' = TRUE /\ registered' = FALSE /\ streaming' = streaming \ {r}
        /\ UNCHANGED <<status, readable, writable, stopped, timeoutTask, currentTask, request, q, consumed,
                       timers, handler, errors, flushers, closing, msg, parser, sent>>
    BY <1>19 DEF StreamStalls, Close
  <2>2. TypeOK'
    BY <1>0, <2>1 DEF TypeInv, TypeOK
  <2> QED
    BY <1>0, <2>1, <2>2 DEF TypeInv, TypeOK
<1>20. ASSUME NEW r \in Reqs, StreamRaises(r) PROVE TypeInv'
  BY <1>0, <1>20 DEF StreamRaises, attributes, TypeInv, TypeOK
<1>21. ASSUME NEW r \in Reqs, Timeout(r) PROVE TypeInv'
  <2>1. q' \in QueueType
    BY <1>0, <1>21, GetCancelledProps DEF Timeout
  <2>2. /\ handler' \in [Reqs -> HandlerPCs]
        /\ SentHooks = "none" => \A s \in Reqs : handler'[s] # "hooks"
    BY <1>0, <1>21 DEF Timeout, Cancelled, HandlerPCs, TypeInv
  <2> QED
    BY <1>0, <1>21, <2>1, <2>2 DEF Timeout, TypeInv, TypeOK, QueueType
<1>22. ASSUME NEW r \in Reqs, StreamTimeout(r) PROVE TypeInv'
  <2>1. /\ closed' = TRUE /\ registered' = FALSE /\ streaming' = streaming \ {r}
        /\ timers' = timers \ {StreamWatcher(r)}
        /\ UNCHANGED <<status, readable, writable, stopped, timeoutTask, currentTask, request, q, consumed,
                       handler, errors, flushers, closing, msg, parser, sent>>
    BY <1>22 DEF StreamTimeout, Close
  <2>2. TypeOK'
    BY <1>0, <2>1 DEF TypeInv, TypeOK
  <2> QED
    BY <1>0, <2>1, <2>2 DEF TypeInv, TypeOK
<1>23. ASSUME NEW r \in Reqs, WaitClientConsume(r) PROVE TypeInv'
  BY <1>0, <1>23 DEF WaitClientConsume, attributes, TypeInv, TypeOK
<1>24. ASSUME ScheduledClose PROVE TypeInv'
  BY <1>0, <1>24 DEF ScheduledClose, Close, TypeInv, TypeOK
<1>25. ASSUME ResumeWriting PROVE TypeInv'
  BY <1>0, <1>25 DEF ResumeWriting, loop, TypeInv, TypeOK
<1>26. ASSUME Stop PROVE TypeInv'
  <2>1. /\ stopped' = TRUE /\ closed' \in BOOLEAN /\ registered' \in BOOLEAN
        /\ UNCHANGED <<status, readable, writable, timeoutTask, currentTask, request, q, consumed, timers,
                       handler, streaming, errors, flushers, closing, msg, parser, sent>>
    BY <1>26 DEF Stop, Close, TypeInv, TypeOK
  <2>2. TypeOK'
    BY <1>0, <2>1 DEF TypeInv, TypeOK
  <2> QED
    BY <1>0, <2>1, <2>2 DEF TypeInv, TypeOK
<1> QED
  BY <1>1, <1>2, <1>3, <1>4, <1>5, <1>6, <1>7, <1>8, <1>9, <1>10, <1>12, <1>13, <1>15,
     <1>16, <1>17, <1>18, <1>19, <1>20, <1>21, <1>22, <1>23, <1>24, <1>25, <1>26
  DEF Next

\* The type invariant of a connection, for any number of requests and every
\* environment (cprotocol.pyx, responses.pyx).
THEOREM TypeCorrect == Spec => []TypeOK
<1>1. TypeInv => TypeOK
  BY DEF TypeInv
<1> QED
  BY <1>1, TypeInit, TypeStep, PTL DEF Spec

-----------------------------------------------------------------------------
(* Membership in app.connections. *)

\* Without keep-alive the first response that is written closes the
\* connection, unless it streams: then its watcher is there until it does.
ClosedInv ==
    /\ registered <=> ~closed
    /\ ~KeepAlive /\ "pressure" \notin May
        => closed \/ sent = <<>> \/ \E t \in timers : t.kind = "stream"

LEMMA ClosedInit == Init => ClosedInv
  BY DEF Init, ClosedInv

\* after_response.
LEMMA ClosedReleased ==
  ASSUME ClosedInv, env' = env, NEW s, NEW b, Released(s, b)
  PROVE  /\ registered' <=> ~closed'
         /\ ~KeepAlive => closed'
  BY DEF ClosedInv, Released, ClosesAtOnce, Close

LEMMA ClosedSend ==
  ASSUME TypeInv, ClosedInv, env' = env, NEW r \in Reqs, Send(r)
  PROVE  ClosedInv'
<1>1. "pressure" \notin May => writable'
  BY DEF Send, WritableAfterWrite, TypeInv, TypeOK
<1>2. CASE writable'
  BY <1>2, ClosedReleased DEF Send, AfterResponse, ClosedInv, KeepAlive, May
<1>3. CASE ~writable'
  BY <1>1, <1>3 DEF Send, ClosedInv, KeepAlive, May
<1> QED
  BY <1>2, <1>3

LEMMA ClosedStep == TypeInv /\ ClosedInv /\ [Next]_vars => ClosedInv'
<1> SUFFICES ASSUME TypeInv, ClosedInv, Next PROVE ClosedInv'
  BY DEF ClosedInv, vars, conn, attributes, loop, May, KeepAlive
<1>0. env' = env /\ May' = May /\ KeepAlive' = KeepAlive
  BY DEF Next, May, KeepAlive
<1>1. ASSUME Close, timers' \subseteq timers PROVE ClosedInv'
  BY <1>1 DEF Close, ClosedInv
<1>2. ASSUME UNCHANGED <<registered, closed, sent, timers>> PROVE ClosedInv'
  BY <1>0, <1>2 DEF ClosedInv
<1>3. ASSUME NEW body \in BOOLEAN, NEW last \in BOOLEAN, Headers(body, last)
      PROVE  ClosedInv'
  BY <1>0, <1>3 DEF Headers, ClosedInv
<1>4. ASSUME NEW body \in BOOLEAN, NEW last \in BOOLEAN, HeadersCached(body, last)
      PROVE  ClosedInv'
  <2>1. "pressure" \notin May => writable'
    BY <1>4 DEF HeadersCached, WritableAfterWrite, TypeInv, TypeOK
  <2>2. CASE writable'
    BY <1>0, <1>4, <2>2, ClosedReleased DEF HeadersCached, ClosedInv
  <2>3. CASE ~writable'
    BY <1>0, <1>4, <2>1, <2>3 DEF HeadersCached, ClosedInv
  <2> QED
    BY <2>2, <2>3
<1>5. ASSUME NEW r \in Reqs, SendStream(r) PROVE ClosedInv'
  <2>1. registered' = registered /\ closed' = closed
    BY <1>5 DEF SendStream
  <2>2. CASE timeoutTask = NoTimer
    BY <1>2, <1>5, <2>1, <2>2 DEF SendStream
  <2>3. CASE timeoutTask # NoTimer
    <3>1. StreamWatcher(r) \in timers' /\ StreamWatcher(r).kind = "stream"
      BY <1>5, <2>3 DEF SendStream, StreamWatcher
    <3> QED
      BY <1>0, <2>1, <3>1 DEF ClosedInv
  <2> QED
    BY <2>2, <2>3
<1>6. ASSUME NEW r \in Reqs, Respond(r) PROVE ClosedInv'
  BY <1>0, <1>6, ClosedSend DEF Respond
<1>7. ASSUME NEW e \in errors, HandleException(e) PROVE ClosedInv'
  <2>1. e.req \in Reqs
    BY DEF TypeInv, TypeOK
  <2> QED
    BY <1>0, <1>2, <1>5, <1>7, <2>1, ClosedSend
    DEF HandleException, ErrorAnswers, ErrorRaises, attributes
<1>8. ASSUME NEW r \in Reqs, StreamEnds(r) PROVE ClosedInv'
  BY <1>0, <1>8, ClosedReleased DEF StreamEnds, AfterResponse, ClosedInv
<1>9. ASSUME NEW r \in Reqs, Timeout(r) PROVE ClosedInv'
  <2>1. timers' = timers \ {Watcher(r)} /\ Watcher(r).kind = "request"
    BY <1>9 DEF Timeout, Watcher
  <2>2. \A t \in timers : t.kind = "stream" => t \in timers'
    BY <2>1
  <2> QED
    BY <1>0, <1>9, <2>2 DEF Timeout, ClosedInv
<1>10. CASE Client
  BY <1>1, <1>2, <1>3, <1>4, <1>10
  DEF Client, PartialHeaders, MoreBody, BadSegment, Upgrade, ConnectionLost, loop
<1>11. ASSUME NEW r \in Reqs, Handler(r) PROVE ClosedInv'
  BY <1>2, <1>5, <1>6, <1>11
  DEF Handler, ReadChunk, WaitChunk, Wake, Stream, Raise, RunSentHooks, readerVars
<1>12. ASSUME NEW r \in Reqs, StreamTask(r) PROVE ClosedInv'
  BY <1>1, <1>2, <1>8, <1>12 DEF StreamTask, StreamStalls, StreamRaises, attributes
<1>13. CASE Loop
  <2>1. ASSUME NEW r \in Reqs, StreamTimeout(r) \/ WaitClientConsume(r) PROVE ClosedInv'
    BY <1>1, <1>2, <2>1 DEF StreamTimeout, WaitClientConsume, attributes
  <2>2. CASE ScheduledClose \/ ResumeWriting \/ Stop
    BY <1>1, <1>2, <2>2 DEF ScheduledClose, ResumeWriting, Stop, loop
  <2> QED
    BY <1>7, <1>9, <1>13, <2>1, <2>2 DEF Loop
<1> QED
  BY <1>10, <1>11, <1>12, <1>13 DEF Next

\* A connection is in app.connections exactly while it is open, in every
\* environment; without keep-alive that ends with the first whole response,
\* unless the transport pauses writing.
THEOREM Registered == Spec => []RegisteredWhileOpen
<1>1. Init => TypeInv /\ ClosedInv
  BY TypeInit, ClosedInit
<1>2. TypeInv /\ ClosedInv /\ [Next]_vars => TypeInv' /\ ClosedInv'
  BY TypeStep, ClosedStep
<1>3. TypeInv /\ ClosedInv => RegisteredWhileOpen
  BY DEF TypeInv, ClosedInv, RegisteredWhileOpen, Incomplete
<1> QED
  BY <1>1, <1>2, <1>3, PTL DEF Spec

-----------------------------------------------------------------------------
(* Requests and responses, in order.  The parts below need one another: no   *)
(* one of them is inductive alone.                                           *)

Live(r) == handler[r] \in {"running", "waiting"}

\* One request at a time, and the parser has rejected nothing.
InOrder == HandlersAnswer /\ "pipelined" \notin May /\ parser # "dead"

\* Only the last request can be unanswered, and one task at most has its
\* answer: its handler, an error handler, or the stream that follows it.
Order ==
    /\ Len(sent) <= msg
    /\ msg <= Len(sent) + 1
    /\ \A i \in 1..Len(sent) : sent[i] = i
    /\ \A r \in Reqs :
          Live(r) => /\ r = msg /\ Len(sent) < msg /\ currentTask = msg
                     /\ errors = {} /\ streaming = {}
    /\ \A e \in errors : e.req = msg /\ Len(sent) < msg /\ streaming = {}
    /\ \A e, f \in errors : e = f
    /\ streaming \subseteq {msg}
    /\ streaming # {} => closed \/ Len(sent) = msg
    /\ "timeout" \in May /\ Watcher(msg) \in timers => errors = {}

\* A task that waits in get() is registered with the event and has nothing to
\* read, or was woken and has.
Waiting(r) ==
    /\ q.waiting
    /\ \/ q.event.pending = {r} /\ q.event.woken = {} /\ q.items = <<>> /\ ~q.event.value
       \/ q.event.pending = {} /\ q.event.woken = {r} /\ q.items # <<>>

Waiters ==
    /\ \A r \in Reqs : handler[r] = "waiting" => Waiting(r)
    /\ (\A r \in Reqs : handler[r] # "waiting")
          => q.event.pending = {} /\ q.event.woken = {}

\* The only timer is the one after_response would cancel; it is the last
\* request's.
Watchers ==
    /\ \A t \in timers : t = timeoutTask /\ t.req = msg
    /\ streaming # {} => Watcher(msg) \notin timers
    /\ Watcher(msg) \in timers
          => Len(sent) < msg /\ \A i \in 1..Len(sent) : sent[i] # msg
    /\ \A r \in Reqs :
          Live(r) => \/ timeoutTask = NoTimer
                     \/ /\ r = msg /\ currentTask = msg
                        /\ \/ timeoutTask = Watcher(msg) /\ Watcher(msg) \in timers
                           \/ timeoutTask.kind = "stream"
    /\ \A e \in errors : e.req = msg \/ timeoutTask = NoTimer
    /\ Len(sent) >= msg
          => \/ timeoutTask = NoTimer
             \/ timeoutTask.kind = "stream" /\ (closed \/ timeoutTask \in timers)

OrderInv == InOrder => Order
WaiterInv == InOrder => Waiters
TimerInv == HandlersAnswer /\ InTurn => Watchers

LEMMA PremisesAreConstant ==
  ASSUME env' = env
  PROVE  /\ May' = May /\ SentHooks' = SentHooks /\ KeepAlive' = KeepAlive
         /\ HooksPass' = HooksPass
         /\ HandlersAnswer' = HandlersAnswer
         /\ OneAnswerer' = OneAnswerer
         /\ InTurn' = InTurn
         /\ WholeBodies' = WholeBodies
  BY DEF May, SentHooks, KeepAlive, HooksPass, HandlersAnswer, OneAnswerer, InTurn,
         WholeBodies

LEMMA KindsOfTimers ==
  /\ \A t \in Timers : t.kind = "stream" \/ t = Watcher(t.req)
  /\ \A r, s : StreamWatcher(r) # Watcher(s)
  /\ \A r, s : Watcher(r) = Watcher(s) => r = s
  /\ \A r : Watcher(r).req = r /\ StreamWatcher(r).req = r
  /\ \A r : Watcher(r).kind = "request" /\ StreamWatcher(r).kind = "stream"
  BY DEF Timers, Watcher, StreamWatcher

LEMMA NoTimerIsNone == NoTimer \notin Timers
  BY Constants DEF NoTimer, Timers, Reqs

\* How the handler tasks of the other requests are left alone.
LEMMA HandlerSet ==
  ASSUME TypeInv, NEW r \in Reqs, NEW pc, handler' = [handler EXCEPT ![r] = pc]
  PROVE  /\ handler'[r] = pc
         /\ \A s \in Reqs : s # r => handler'[s] = handler[s]
  BY DEF TypeInv, TypeOK

LEMMA Ended ==
  ASSUME TypeInv, NEW r \in Reqs, AfterSending(r) \/ Fails(r)
  PROVE  \A s \in Reqs : /\ Live(s)' => Live(s) /\ s # r
                         /\ s # r => handler'[s] = handler[s]
<1>1. PICK pc \in {"done", "hooks"} : handler' = [handler EXCEPT ![r] = pc]
  BY DEF AfterSending, Fails
<1> QED
  BY <1>1, HandlerSet DEF Live

LEMMA CancelledTask ==
  ASSUME TypeInv, handler' = Cancelled
  PROVE  \A s \in Reqs : /\ Live(s)' => Live(s) /\ s # currentTask
                         /\ s # currentTask => handler'[s] = handler[s]
  BY DEF TypeInv, TypeOK, Cancelled, Live

\* No hook after a response raises when HooksPass.
LEMMA HooksEnd ==
  ASSUME TypeInv, HooksPass, NEW r \in Reqs, RunSentHooks(r)
  PROVE  /\ \A s \in Reqs : Live(s)' => Live(s)
         /\ \A s \in Reqs : handler'[s] = "waiting" <=> handler[s] = "waiting"
         /\ errors' = errors
<1>1. handler[r] = "hooks" /\ SentHooks \in {"none", "plain", "request"}
  BY EnvironmentsAssumption DEF RunSentHooks, SentHooks, TypeInv, TypeOK
<1>2. handler' = [handler EXCEPT ![r] = "done"] /\ errors' = errors
  BY <1>1 DEF RunSentHooks, HooksPass, TypeInv
<1> QED
  BY <1>1, <1>2, HandlerSet DEF Live

\* The one response more that is written.
LEMMA WrittenInOrder ==
  ASSUME TypeInv, Len(sent) < msg, msg <= Len(sent) + 1, msg \in Reqs,
         \A i \in 1..Len(sent) : sent[i] = i,
         sent' = Written(msg)
  PROVE  /\ Len(sent') <= msg /\ msg <= Len(sent') + 1
         /\ \A i \in 1..Len(sent') : sent'[i] = i
         /\ closed \/ Len(sent') = msg
<1>1. sent \in Seq(Reqs) /\ Len(sent) \in Nat /\ msg \in Nat /\ msg = Len(sent) + 1
  BY LenProperties, Constants DEF TypeInv, TypeOK
<1>2. CASE closed
  BY <1>1, <1>2 DEF Written
<1>3. CASE ~closed
  <2>1. sent' = Append(sent, msg)
    BY <1>3 DEF Written
  <2>2. /\ Len(sent') = Len(sent) + 1
        /\ \A i \in 1..Len(sent) : sent'[i] = sent[i]
        /\ sent'[Len(sent) + 1] = msg
    BY <1>1, <2>1, AppendProperties
  <2> QED
    BY <1>1, <2>2
<1> QED
  BY <1>2, <1>3

LEMMA SendEffect ==
  ASSUME TypeInv, NEW r \in Reqs, Send(r)
  PROVE  /\ sent' = Written(r)
         /\ timers' \subseteq timers
         /\ closed => closed'
         /\ q' = q \/ q' = Clear(q)
         /\ "pressure" \notin May => AfterResponse
<1>1. "pressure" \notin May => writable'
  BY DEF Send, WritableAfterWrite, TypeInv, TypeOK
<1>2. CASE writable'
  BY <1>2 DEF Send, AfterResponse, Released, TimersWithoutOurs, Close
<1>3. CASE ~writable'
  BY <1>1, <1>3 DEF Send
<1> QED
  BY <1>2, <1>3

\* A client that does not pipeline sends a request only when every task has
\* come to its end.
LEMMA ReadyInOrder ==
  ASSUME TypeInv, Order, "pipelined" \notin May, ClientIsReady
  PROVE  /\ Len(sent) = msg /\ msg \in Nat /\ msg + 1 \in Reqs
         /\ errors = {} /\ streaming = {}
         /\ \A r \in Reqs : ~Live(r)
         /\ \A t \in timers : t.kind # "stream"
<1>1. Len(sent) \in Nat /\ msg \in Nat /\ msg + 1 \in Reqs
  BY LenProperties, Constants DEF TypeInv, TypeOK, ClientIsReady, Reqs
<1>2. Len(sent) = msg
  BY <1>1 DEF ClientIsReady, Order
<1> QED
  BY <1>1, <1>2 DEF ClientIsReady, Incomplete, Order

\* A parser that has rejected a segment rejects all that follow.
LEMMA RejectedForGood ==
  ASSUME Next, parser = "dead"
  PROVE  parser' = "dead"
  BY DEF Next, Client, Loop, Handler, StreamTask, PartialHeaders, Headers,
       HeadersCached, MoreBody, MaySendRequest, BadSegment, Upgrade, ConnectionLost,
       ReadChunk, WaitChunk, Wake, Respond, Stream, SendStream, Raise, RunSentHooks,
       readerVars, HandleException, ErrorAnswers, ErrorRaises, StreamEnds, StreamStalls, StreamRaises, Timeout, StreamTimeout,
       WaitClientConsume, ScheduledClose, ResumeWriting, Stop

LEMMA OrderStep ==
  ASSUME TypeInv, OrderInv, WaiterInv, TimerInv, Next
  PROVE  OrderInv'
<1> SUFFICES ASSUME InOrder' PROVE Order'
  BY DEF OrderInv
<1>0. /\ May' = May /\ HandlersAnswer' = HandlersAnswer /\ InTurn' = InTurn
      /\ HandlersAnswer /\ HooksPass /\ "pipelined" \notin May
      /\ "timeout" \in May => "raise" \notin May /\ InTurn
  BY PremisesAreConstant DEF Next, InOrder, HandlersAnswer
<1>1. InOrder
  BY <1>0, RejectedForGood DEF InOrder
<1>2. Order /\ Waiters
  BY <1>1 DEF OrderInv, WaiterInv
<1>3. /\ sent \in Seq(Reqs) /\ Len(sent) \in Nat /\ msg \in Nat /\ timers \subseteq Timers
      /\ handler \in [Reqs -> HandlerPCs]
  BY LenProperties, Constants DEF TypeInv, TypeOK
\* A step that writes nothing and starts nothing.
<1>4. ASSUME UNCHANGED <<msg, sent, currentTask>>, errors' \subseteq errors,
             streaming' \subseteq streaming, timers' \subseteq timers, closed => closed',
             \A r \in Reqs : Live(r)' => Live(r)
      PROVE  Order'
  <2>1. streaming # {} => closed \/ Len(sent) = msg
    BY <1>2 DEF Order
  <2> QED
    BY <1>0, <1>2, <1>4, <2>1 DEF Order
\* A step that answers the last request, and leaves no other task.
<1>5. ASSUME Len(sent) < msg, msg' = msg, sent' = Written(msg), closed => closed',
             errors' = {}, streaming' \subseteq {msg},
             \A r \in Reqs : ~Live(r)'
      PROVE  Order'
  <2>1. msg \in Reqs /\ msg <= Len(sent) + 1 /\ \A i \in 1..Len(sent) : sent[i] = i
    BY <1>2, <1>3, <1>5 DEF Order, Reqs, TypeInv, TypeOK
  <2>2. /\ Len(sent') <= msg /\ msg <= Len(sent') + 1
        /\ \A i \in 1..Len(sent') : sent'[i] = i
        /\ closed \/ Len(sent') = msg
    BY <1>5, <2>1, WrittenInOrder
  <2> QED
    BY <1>5, <2>2 DEF Order
<1>6. ASSUME NEW r \in Reqs, handler[r] = "running"
      PROVE  /\ Live(r) /\ r = msg /\ Len(sent) < msg /\ currentTask = msg
             /\ errors = {} /\ streaming = {}
             /\ \A s \in Reqs : Live(s) => s = r
  BY <1>2, <1>6 DEF Order, Live
<1>7. CASE PartialHeaders \/ \E body, last \in BOOLEAN : MoreBody(body, last)
  BY <1>4, <1>7 DEF PartialHeaders, MoreBody, loop, Live
<1>8. ASSUME NEW body \in BOOLEAN, NEW last \in BOOLEAN, Headers(body, last)
      PROVE  Order'
  <2>1. /\ Len(sent) = msg /\ msg + 1 \in Reqs
        /\ errors = {} /\ streaming = {}
        /\ \A r \in Reqs : ~Live(r)
    BY <1>0, <1>2, <1>8, ReadyInOrder DEF Headers, MaySendRequest
  <2>2. /\ msg' = msg + 1 /\ currentTask' = msg + 1
        /\ handler' = [handler EXCEPT ![msg + 1] = "running"]
        /\ sent' = sent /\ errors' = {} /\ streaming' = {}
    BY <1>8, <2>1 DEF Headers
  <2>3. \A r \in Reqs : Live(r)' => r = msg'
    BY <2>1, <2>2, HandlerSet DEF Live
  <2> QED
    BY <1>2, <1>3, <2>1, <2>2, <2>3 DEF Order
<1>9. ASSUME NEW body \in BOOLEAN, NEW last \in BOOLEAN, HeadersCached(body, last)
      PROVE  Order'
  <2>1. /\ Len(sent) = msg /\ msg + 1 \in Reqs /\ ~closed
        /\ errors = {} /\ streaming = {}
        /\ \A r \in Reqs : ~Live(r)
    BY <1>0, <1>2, <1>9, ReadyInOrder DEF HeadersCached, MaySendRequest, CanReceive
  <2>2. /\ msg' = msg + 1
        /\ sent' = Append(sent, msg + 1) /\ errors' = {} /\ streaming' = {}
        /\ handler' = handler
    BY <1>9, <2>1 DEF HeadersCached, Written
  <2>3. /\ Len(sent') = Len(sent) + 1
        /\ \A i \in 1..Len(sent) : sent'[i] = sent[i]
        /\ sent'[Len(sent) + 1] = msg + 1
    BY <1>3, <2>1, <2>2, AppendProperties
  <2>4. \A r \in Reqs : ~Live(r)'
    BY <2>1, <2>2 DEF Live
  <2> QED
    BY <1>2, <1>3, <2>1, <2>2, <2>3, <2>4 DEF Order
<1>10. ASSUME BadSegment PROVE Order'
  BY <1>10 DEF BadSegment, InOrder
<1>11. ASSUME NEW more \in BOOLEAN, Upgrade(more) PROVE Order'
  <2>1. /\ Len(sent) = msg /\ msg + 1 \in Reqs
        /\ errors = {} /\ streaming = {}
        /\ \A r \in Reqs : ~Live(r)
    BY <1>0, <1>2, <1>11, ReadyInOrder DEF Upgrade, MaySendRequest
  <2>2. /\ msg' = msg + 1 /\ sent' = sent /\ streaming' = {} /\ timers' = timers
        /\ errors' \subseteq {[req |-> msg', why |-> "parser"]}
        /\ \A r \in Reqs : ~Live(r)'
    BY <1>11, <2>1 DEF Upgrade, Live
  <2>3. "timeout" \in May => Watcher(msg') \notin timers'
    <3>1. "timeout" \in May => Watchers
      BY <1>0 DEF TimerInv
    <3> QED
      BY <1>3, <2>2, <3>1, KindsOfTimers DEF Watchers
  <2>4. \A e \in errors' : e.req = msg' /\ Len(sent') < msg'
    BY <1>3, <2>1, <2>2
  <2> QED
    BY <1>0, <1>2, <1>3, <2>1, <2>2, <2>3, <2>4 DEF Order
<1>12. ASSUME ConnectionLost PROVE Order'
  BY <1>4, <1>12 DEF ConnectionLost, Close, Live
<1>13. ASSUME NEW r \in Reqs, ReadChunk(r) PROVE Order'
  BY <1>4, <1>13 DEF ReadChunk, readerVars, Live
<1>14. ASSUME NEW r \in Reqs, WaitChunk(r) PROVE Order'
  <2>1. \A s \in Reqs : Live(s)' => Live(s)
    BY <1>14, HandlerSet DEF WaitChunk, Live
  <2> QED
    BY <1>4, <1>14, <2>1 DEF WaitChunk, readerVars
<1>15. ASSUME NEW r \in Reqs, Wake(r) PROVE Order'
  <2>1. ~GetFails(q)
    BY <1>2, <1>15 DEF Wake, Waiters, Waiting, GetFails
  <2>2. handler' = [handler EXCEPT ![r] = "running"] /\ errors' = errors
    BY <1>15, <2>1 DEF Wake
  <2>3. \A s \in Reqs : Live(s)' => Live(s)
    BY <1>15, <2>2, HandlerSet DEF Wake, Live
  <2> QED
    BY <1>4, <1>15, <2>2, <2>3 DEF Wake, readerVars
<1>16. ASSUME NEW r \in Reqs, Respond(r) PROVE Order'
  <2>1. /\ sent' = Written(msg) /\ (closed => closed') /\ \A s \in Reqs : ~Live(s)'
        /\ Len(sent) < msg /\ errors = {} /\ streaming = {}
    BY <1>6, <1>16, SendEffect, Ended DEF Respond, HasResponse
  <2> QED
    BY <1>5, <1>16, <2>1 DEF Respond
<1>17. ASSUME NEW r \in Reqs, Stream(r) PROVE Order'
  <2>1. /\ r = msg /\ \A s \in Reqs : ~Live(s)'
        /\ Len(sent) < msg /\ errors = {} /\ streaming = {}
    BY <1>6, <1>17, Ended DEF Stream, HasResponse
  <2>2. CASE timeoutTask = NoTimer
    BY <1>4, <1>17, <2>1, <2>2 DEF Stream, SendStream
  <2>3. CASE timeoutTask # NoTimer
    BY <1>5, <1>17, <2>1, <2>3 DEF Stream, SendStream
  <2> QED
    BY <2>2, <2>3
\* The request passes from its handler to an error handler.
<1>18. ASSUME NEW r \in Reqs, Raise(r) PROVE Order'
  <2>1. /\ r = msg /\ \A s \in Reqs : ~Live(s)'
        /\ Len(sent) < msg /\ errors = {} /\ streaming = {}
    BY <1>6, <1>18, Ended DEF Raise, HasResponse
  <2>2. errors' = {[req |-> msg, why |-> "handler"]}
    BY <1>18, <2>1 DEF Raise, Fails
  <2>3. "timeout" \notin May
    BY <1>0, <1>18 DEF Raise
  <2> QED
    BY <1>0, <1>2, <1>18, <2>1, <2>2, <2>3 DEF Raise, readerVars, Order
<1>19. ASSUME NEW r \in Reqs, RunSentHooks(r) PROVE Order'
  BY <1>0, <1>4, <1>19, HooksEnd DEF RunSentHooks, readerVars
<1>20. ASSUME NEW e \in errors, HandleException(e) PROVE Order'
  <2>1. /\ e.req = msg /\ Len(sent) < msg /\ streaming = {} /\ errors' = {}
        /\ \A s \in Reqs : ~Live(s)
    BY <1>2, <1>20 DEF Order, HandleException
  <2>2. e.req \in Reqs
    BY DEF TypeInv, TypeOK
  <2>3. \A s \in Reqs : ~Live(s)'
    BY <1>20, <2>1 DEF HandleException, Live
  <2>4. CASE ErrorAnswers(e)
    <3>1. sent' = Written(msg) /\ (closed => closed')
      BY <2>1, <2>2, <2>4, SendEffect DEF ErrorAnswers
    <3> QED
      BY <1>5, <2>1, <2>3, <2>4, <3>1 DEF ErrorAnswers
  <2>5. CASE SendStream(e.req) /\ timeoutTask = NoTimer
    BY <1>4, <2>1, <2>3, <2>5 DEF SendStream
  <2>6. CASE SendStream(e.req) /\ timeoutTask # NoTimer
    BY <1>5, <2>1, <2>3, <2>6 DEF SendStream
  <2>7. CASE ErrorRaises(e)
    BY <1>4, <2>1, <2>3, <2>7 DEF ErrorRaises, attributes
  <2> QED
    BY <1>20, <2>4, <2>5, <2>6, <2>7 DEF HandleException
<1>21. ASSUME NEW r \in Reqs, StreamTask(r) PROVE Order'
  BY <1>4, <1>21 DEF StreamTask, StreamEnds, StreamStalls, StreamRaises, AfterResponse,
       Released, TimersWithoutOurs, Close, attributes, Live
\* The request passes to an error handler in its watcher's place.
<1>22. ASSUME NEW r \in Reqs, Timeout(r) PROVE Order'
  <2>1. Watchers
    BY <1>0, <1>22 DEF Timeout, TimerInv
  <2>2. Watcher(r) \in timers /\ Watcher(r).req = r
    BY <1>22, KindsOfTimers DEF Timeout
  <2>3. r = msg /\ Len(sent) < msg /\ errors = {} /\ streaming = {}
    BY <1>0, <1>2, <1>22, <2>1, <2>2 DEF Watchers, Order, Timeout
  <2>4. \A s \in Reqs : ~Live(s)'
    BY <1>2, <1>22, CancelledTask DEF Timeout, Order
  <2>5. errors' = {[req |-> msg, why |-> "timeout"]} /\ Watcher(msg) \notin timers'
    BY <1>22, <2>3 DEF Timeout
  <2> QED
    BY <1>2, <1>22, <2>3, <2>4, <2>5 DEF Timeout, Order
<1>23. ASSUME NEW r \in Reqs, StreamTimeout(r) \/ WaitClientConsume(r) PROVE Order'
  BY <1>4, <1>23 DEF StreamTimeout, WaitClientConsume, Close, attributes, Live
<1>24. CASE ScheduledClose \/ ResumeWriting \/ Stop
  BY <1>4, <1>24 DEF ScheduledClose, ResumeWriting, Stop, Close, loop, Live
<1> QED
  BY <1>7, <1>8, <1>9, <1>10, <1>11, <1>12, <1>13, <1>14, <1>15, <1>16, <1>17, <1>18,
     <1>19, <1>20, <1>21, <1>22, <1>23, <1>24
  DEF Next, Client, Handler, Loop

LEMMA WaiterStep ==
  ASSUME TypeInv, OrderInv, WaiterInv, Next
  PROVE  WaiterInv'
<1> SUFFICES ASSUME InOrder' PROVE Waiters'
  BY DEF WaiterInv
<1>0. /\ May' = May /\ HooksPass /\ "pipelined" \notin May
      /\ q \in QueueType /\ handler \in [Reqs -> HandlerPCs]
  BY PremisesAreConstant DEF Next, InOrder, HandlersAnswer, TypeInv, TypeOK, QueueType
<1>1. Order /\ Waiters
  <2>1. InOrder
    BY PremisesAreConstant, RejectedForGood DEF Next, InOrder
  <2> QED
    BY <2>1 DEF OrderInv, WaiterInv
\* Nobody waits, before and after.
<1>2. ASSUME \A r \in Reqs : handler[r] # "waiting",
             \A r \in Reqs : handler'[r] # "waiting",
             q'.event.pending = q.event.pending, q'.event.woken = q.event.woken
      PROVE  Waiters'
  BY <1>1, <1>2 DEF Waiters
\* The queue and the waiting task are left alone.
<1>3. ASSUME q' = q, \A r \in Reqs : handler'[r] = "waiting" <=> handler[r] = "waiting"
      PROVE  Waiters'
  BY <1>1, <1>3 DEF Waiters, Waiting
<1>4. ASSUME NEW r \in Reqs, handler[r] = "running"
      PROVE  \A s \in Reqs : handler[s] # "waiting"
  BY <1>1, <1>4 DEF Order, Live
<1>5. ASSUME ClientIsReady PROVE \A s \in Reqs : handler[s] # "waiting"
  BY <1>0, <1>1, <1>5, ReadyInOrder DEF Live
<1>6. ASSUME NEW cleared, cleared = Clear(q)
      PROVE  /\ cleared \in QueueType
             /\ cleared.event.pending = q.event.pending
             /\ cleared.event.woken = q.event.woken
  BY <1>0, <1>6, ClearProps
<1>7. ASSUME NEW queue \in QueueType, NEW fed,
             queue.event.pending = {}, queue.event.woken = {},
             fed.event = EventSet(queue.event) \/ fed.event = queue.event
      PROVE  fed.event.pending = {} /\ fed.event.woken = {}
  <2>1. queue.event \in Event(Reqs)
    BY QueueFields
  <2>2. EventSet(queue.event).pending = {} /\ EventSet(queue.event).woken = {}
    BY <1>7, <2>1, SetOp
  <2> QED
    BY <1>7, <2>2
<1>8. ASSUME NEW body \in BOOLEAN, NEW last \in BOOLEAN,
             Headers(body, last) \/ HeadersCached(body, last)
      PROVE  Waiters'
  <2>1. /\ \A s \in Reqs : handler[s] # "waiting"
        /\ msg' \in Reqs
        /\ q.event.pending = {} /\ q.event.woken = {}
    BY <1>0, <1>1, <1>5, <1>8, ReadyInOrder
    DEF Headers, HeadersCached, MaySendRequest, Waiters
  <2>2. \A s \in Reqs : handler'[s] # "waiting"
    BY <1>8, <2>1, HandlerSet DEF Headers, HeadersCached
  <2>3. \/ q' = Feed(q, msg', body, last)
        \/ q' = Feed(Clear(q), msg', body, last)
    BY <1>8 DEF Headers, HeadersCached
  <2>4. q'.event.pending = {} /\ q'.event.woken = {}
    <3>1. CASE q' = Feed(q, msg', body, last)
      BY <1>0, <1>7, <2>1, <3>1, FeedProps DEF FedBy
    <3>2. CASE q' = Feed(Clear(q), msg', body, last)
      <4> DEFINE cleared == Clear(q)
      <4>1. cleared \in QueueType /\ cleared.event.pending = {} /\ cleared.event.woken = {}
        BY <1>0, <2>1, ClearProps
      <4>2. q' = Feed(cleared, msg', body, last)
        BY <3>2
      <4> HIDE DEF cleared
      <4> QED
        BY <1>7, <2>1, <4>1, <4>2, FeedProps DEF FedBy
    <3> QED
      BY <2>3, <3>1, <3>2
  <2> QED
    BY <2>2, <2>4 DEF Waiters
<1>9. ASSUME NEW body \in BOOLEAN, NEW last \in BOOLEAN, MoreBody(body, last)
      PROVE  Waiters'
  <2>1. /\ msg \in Reqs /\ handler' = handler
        /\ body \/ last
        /\ FedBy(q, body, last, q')
    BY <1>0, <1>9, FeedProps DEF MoreBody, TypeInv, loop
  <2>2. ASSUME NEW r \in Reqs, handler[r] = "waiting" PROVE Waiting(r)'
    <3>1. Waiting(r) /\ q.event \in Event(Reqs)
      BY <1>0, <1>1, <2>2, QueueFields DEF Waiters
    <3>2. /\ q'.waiting /\ q'.items # <<>>
          /\ q'.event.pending = IF q.event.value THEN q.event.pending ELSE {}
          /\ q'.event.woken = IF q.event.value THEN q.event.woken
                              ELSE q.event.woken \cup q.event.pending
      BY <2>1, <3>1, SetOp DEF FedBy, Waiting
    <3>3. q'.event.pending = {} /\ q'.event.woken = {r}
      BY <3>1, <3>2 DEF Waiting
    <3> QED
      BY <3>2, <3>3 DEF Waiting
  <2>3. ASSUME \A r \in Reqs : handler[r] # "waiting"
        PROVE  q'.event.pending = {} /\ q'.event.woken = {}
    BY <1>0, <1>1, <1>7, <2>1, <2>3 DEF FedBy, Waiters
  <2> QED
    BY <2>1, <2>2, <2>3 DEF Waiters
<1>10. ASSUME NEW more \in BOOLEAN, Upgrade(more) PROVE Waiters'
  <2>1. /\ \A s \in Reqs : handler[s] # "waiting"
        /\ q.event.pending = {} /\ q.event.woken = {}
        /\ handler' = handler /\ q' = End(q)
    BY <1>1, <1>5, <1>10 DEF Upgrade, MaySendRequest, Waiters
  <2>2. q'.event = EventSet(q.event) \/ q'.event = q.event
    BY <1>0, <2>1, EndProps
  <2>3. q'.event.pending = {} /\ q'.event.woken = {}
    BY <1>0, <1>7, <2>1, <2>2
  <2> QED
    BY <2>1, <2>3 DEF Waiters
<1>11. ASSUME PartialHeaders \/ BadSegment \/ ConnectionLost PROVE Waiters'
  BY <1>3, <1>11 DEF PartialHeaders, BadSegment, ConnectionLost, loop
<1>12. ASSUME NEW r \in Reqs, ReadChunk(r) PROVE Waiters'
  <2>1. q'.event = q.event
    BY <1>0, <1>12, GetRestProps DEF ReadChunk
  <2> QED
    BY <1>2, <1>4, <1>12, <2>1 DEF ReadChunk
<1>13. ASSUME NEW r \in Reqs, WaitChunk(r) PROVE Waiters'
  <2>1. /\ q.event.pending = {} /\ q.event.woken = {} /\ q.items = <<>>
        /\ q' = GetWait(q, r)
        /\ \A s \in Reqs : handler'[s] = "waiting" => s = r
        /\ handler'[r] = "waiting"
    BY <1>1, <1>4, <1>13, HandlerSet DEF WaitChunk, GetReturns, Waiters
  <2>2. /\ q'.waiting /\ ~q'.event.value /\ q'.items = <<>>
        /\ q'.event.pending = q.event.pending \cup {r}
        /\ q'.event.woken = q.event.woken
    BY <1>0, <2>1, GetWaitProps
  <2>3. Waiting(r)'
    BY <2>1, <2>2 DEF Waiting
  <2> QED
    BY <2>1, <2>3 DEF Waiters
<1>14. ASSUME NEW r \in Reqs, Wake(r) PROVE Waiters'
  <2>1. /\ Waiting(r) /\ r \in q.event.woken
        /\ \A s \in Reqs : handler[s] = "waiting" => s = r
        /\ q' = GetResume(q, r)
    BY <1>1, <1>14 DEF Wake, Waiters, Order, Live
  <2>2. \A s \in Reqs : handler'[s] # "waiting"
    <3>1. PICK pc \in {"done", "running"} : handler' = [handler EXCEPT ![r] = pc]
      BY <1>14 DEF Wake, Fails
    <3> QED
      BY <2>1, <3>1, HandlerSet
  <2>3. q'.event.pending = {} /\ q'.event.woken = {}
    <3>1. /\ q'.event.pending = q.event.pending \ {r}
          /\ q'.event.woken = q.event.woken \ {r}
      BY <1>0, <2>1, GetResumeProps
    <3> QED
      BY <2>1, <3>1 DEF Waiting
  <2> QED
    BY <2>2, <2>3 DEF Waiters
<1>15. ASSUME NEW r \in Reqs, Respond(r) PROVE Waiters'
  <2>1. \A s \in Reqs : handler[s] # "waiting" /\ handler'[s] # "waiting"
    BY <1>4, <1>15, Ended DEF Respond, HasResponse, Live
  <2>2. q' = q \/ q' = Clear(q)
    BY <1>15, SendEffect DEF Respond
  <2> QED
    BY <1>2, <1>6, <2>1, <2>2
<1>16. ASSUME NEW r \in Reqs, Stream(r) \/ Raise(r) PROVE Waiters'
  <2>1. /\ \A s \in Reqs : handler[s] # "waiting" /\ handler'[s] # "waiting"
        /\ q' = q
    BY <1>4, <1>16, Ended DEF Stream, SendStream, Raise, HasResponse, Live
  <2> QED
    BY <1>3, <2>1
<1>17. ASSUME NEW r \in Reqs, RunSentHooks(r) PROVE Waiters'
  BY <1>0, <1>3, <1>17, HooksEnd DEF RunSentHooks
<1>18. ASSUME NEW e \in errors, HandleException(e) PROVE Waiters'
  <2>1. e.req \in Reqs
    BY DEF TypeInv, TypeOK
  <2>2. \A s \in Reqs : handler[s] # "waiting" /\ handler'[s] # "waiting"
    BY <1>1, <1>18 DEF HandleException, Order, Live
  <2>3. q' = q \/ q' = Clear(q)
    BY <1>18, <2>1, SendEffect
    DEF HandleException, ErrorAnswers, SendStream, ErrorRaises, attributes
  <2> QED
    BY <1>2, <1>6, <2>2, <2>3
<1>19. ASSUME NEW r \in Reqs, StreamEnds(r) PROVE Waiters'
  <2>1. \A s \in Reqs : handler[s] # "waiting" /\ handler'[s] # "waiting"
    BY <1>1, <1>19 DEF StreamEnds, Order, Live
  <2> QED
    BY <1>2, <1>6, <1>19, <2>1 DEF StreamEnds, AfterResponse
<1>20. ASSUME NEW r \in Reqs, StreamStalls(r) \/ StreamRaises(r) PROVE Waiters'
  BY <1>3, <1>20 DEF StreamStalls, StreamRaises, attributes
\* The task that is cancelled is the only one that may have been waiting.
<1>21. ASSUME NEW r \in Reqs, Timeout(r) PROVE Waiters'
  <2>1. handler' = Cancelled /\ q' = GetCancelled(q, currentTask)
    BY <1>21 DEF Timeout
  <2>2. \A s \in Reqs : handler'[s] # "waiting"
    BY <1>1, <2>1, CancelledTask DEF Order, Live
  <2>3. /\ q'.event.pending = q.event.pending \ {currentTask}
        /\ q'.event.woken = q.event.woken \ {currentTask}
    BY <1>0, <2>1, GetCancelledProps
  <2>4. q.event.pending \subseteq {currentTask} /\ q.event.woken \subseteq {currentTask}
    BY <1>1 DEF Waiters, Waiting, Order, Live
  <2> QED
    BY <2>2, <2>3, <2>4 DEF Waiters
<1>22. ASSUME NEW r \in Reqs, StreamTimeout(r) \/ WaitClientConsume(r) PROVE Waiters'
  BY <1>3, <1>22 DEF StreamTimeout, WaitClientConsume, attributes
<1>23. CASE ScheduledClose \/ ResumeWriting \/ Stop
  BY <1>3, <1>23 DEF ScheduledClose, ResumeWriting, Stop, loop
<1> QED
  BY <1>8, <1>9, <1>10, <1>11, <1>12, <1>13, <1>14, <1>15, <1>16, <1>17, <1>18, <1>19,
     <1>20, <1>21, <1>22, <1>23
  DEF Next, Client, Handler, StreamTask, Loop

LEMMA TimerStep ==
  ASSUME TypeInv, OrderInv, TimerInv, Next
  PROVE  TimerInv'
<1> SUFFICES ASSUME HandlersAnswer, InTurn, Watchers PROVE Watchers'
  BY PremisesAreConstant DEF TimerInv, Next
<1>0. /\ May' = May /\ HooksPass /\ "pipelined" \notin May /\ "pressure" \notin May
      /\ handler \in [Reqs -> HandlerPCs] /\ sent \in Seq(Reqs) /\ msg \in 0..MaxMsgs
      /\ Len(sent) \in Nat /\ msg \in Nat /\ timers \subseteq Timers
      /\ NoTimer \notin timers
  BY PremisesAreConstant, LenProperties, Constants, NoTimerIsNone
  DEF Next, HandlersAnswer, InTurn, TypeInv, TypeOK
<1>1. parser # "dead" => Order
  BY <1>0 DEF OrderInv, InOrder
\* Timers and their handle are left alone.
<1>2. ASSUME UNCHANGED <<msg, sent, timers, timeoutTask, currentTask>>,
             streaming' \subseteq streaming, closed => closed',
             \A e \in errors' : e \in errors \/ e.req = msg \/ timeoutTask = NoTimer,
             \A r \in Reqs : Live(r)' => Live(r)
      PROVE  Watchers'
  BY <1>2 DEF Watchers
\* after_response.
<1>3. ASSUME AfterResponse PROVE Watchers'
  <2>1. timers' = {} /\ timeoutTask' = NoTimer
    BY <1>3 DEF AfterResponse, Released, TimersWithoutOurs, Watchers
  <2> QED
    BY <2>1 DEF Watchers
<1>4. ASSUME ClientIsReady PROVE timers = {} /\ (~closed => timeoutTask = NoTimer)
  <2>1. Watcher(msg) \notin timers /\ Len(sent) >= msg
    BY <1>0, <1>4 DEF ClientIsReady, Watchers
  <2>2. \A t \in timers : t.kind # "stream"
    BY <1>0, <1>4 DEF ClientIsReady, Incomplete
  <2>3. timers = {}
    BY <1>0, <2>1, <2>2, KindsOfTimers DEF Watchers
  <2> QED
    BY <2>1, <2>3 DEF Watchers
<1>5. ASSUME NEW body \in BOOLEAN, NEW last \in BOOLEAN, Headers(body, last)
      PROVE  Watchers'
  <2>1. /\ Len(sent) = msg /\ msg + 1 \in Reqs /\ Order
        /\ timers = {} /\ streaming = {} /\ errors = {}
        /\ \A r \in Reqs : ~Live(r)
    BY <1>0, <1>1, <1>4, <1>5, ReadyInOrder DEF Headers, MaySendRequest
  <2>2. /\ msg' = msg + 1 /\ currentTask' = msg'
        /\ handler' = [handler EXCEPT ![msg + 1] = "running"]
        /\ timeoutTask' = Watcher(msg') /\ timers' = {Watcher(msg')}
        /\ streaming' = {} /\ sent' = sent /\ errors' = {}
    BY <1>5, <2>1 DEF Headers
  <2>3. \A r \in Reqs : Live(r)' => r = msg'
    BY <2>1, <2>2, HandlerSet DEF Live
  <2>4. \A i \in 1..Len(sent) : sent[i] # msg + 1
    BY <1>0, <2>1 DEF Order
  <2> QED
    BY <1>0, <2>1, <2>2, <2>3, <2>4, KindsOfTimers DEF Watchers
<1>6. ASSUME NEW body \in BOOLEAN, NEW last \in BOOLEAN, HeadersCached(body, last)
      PROVE  Watchers'
  <2>1. timers = {}
    BY <1>4, <1>6 DEF HeadersCached, MaySendRequest
  <2>2. writable'
    BY <1>0, <1>6 DEF HeadersCached, WritableAfterWrite, TypeInv, TypeOK
  <2>3. timers' = {} /\ timeoutTask' = NoTimer
    BY <1>6, <2>1, <2>2 DEF HeadersCached, Released, TimersWithoutOurs
  <2> QED
    BY <2>3 DEF Watchers
<1>7. ASSUME NEW more \in BOOLEAN, Upgrade(more) PROVE Watchers'
  <2>1. timers = {} /\ timeoutTask = NoTimer /\ \A r \in Reqs : ~Live(r)
    BY <1>0, <1>1, <1>4, <1>7, ReadyInOrder DEF Upgrade, MaySendRequest, CanReceive
  <2> QED
    BY <1>7, <2>1 DEF Upgrade, Watchers, Live
<1>8. ASSUME BadSegment PROVE Watchers'
  <2>1. CASE parser = "body"
    BY <1>2, <1>8, <2>1 DEF BadSegment, Live
  <2>2. CASE parser # "body"
    <3>1. timers = {} /\ timeoutTask = NoTimer
      BY <1>4, <1>8, <2>2 DEF BadSegment, CanReceive
    <3> QED
      BY <1>8, <3>1 DEF BadSegment, Watchers, Live
  <2> QED
    BY <2>1, <2>2
<1>9. ASSUME NEW r \in Reqs, WaitChunk(r) PROVE Watchers'
  <2>1. \A s \in Reqs : Live(s)' => Live(s)
    BY <1>9, HandlerSet DEF WaitChunk, Live
  <2> QED
    BY <1>2, <1>9, <2>1 DEF WaitChunk, readerVars
<1>10. ASSUME NEW r \in Reqs, Wake(r) PROVE Watchers'
  <2>1. PICK pc \in {"done", "running"} : handler' = [handler EXCEPT ![r] = pc]
    BY <1>10 DEF Wake, Fails
  <2>2. \A s \in Reqs : Live(s)' => Live(s)
    BY <1>10, <2>1, HandlerSet DEF Wake, Live
  <2>3. \A e \in errors' : e \in errors \/ e.req = msg \/ timeoutTask = NoTimer
    BY <1>10 DEF Wake, Fails, Live, Watchers
  <2> QED
    BY <1>2, <1>10, <2>2, <2>3 DEF Wake, readerVars
\* The only timer is replaced by the stream's.
<1>20. ASSUME NEW r \in Reqs, SendStream(r), r = msg \/ timeoutTask = NoTimer,
              errors' \subseteq errors, \A s \in Reqs : Live(s)' => Live(s)
       PROVE  Watchers'
  <2>1. CASE timeoutTask = NoTimer
    BY <1>2, <1>20, <2>1 DEF SendStream
  <2>2. CASE timeoutTask # NoTimer
    <3>1. /\ timers' = {StreamWatcher(msg)} /\ timeoutTask' = StreamWatcher(msg)
          /\ msg' = msg /\ currentTask' = currentTask /\ r = msg
      BY <1>20, <2>2 DEF SendStream, TimersWithoutOurs, Watchers
    <3>2. \A s \in Reqs : Live(s)' => s = msg /\ currentTask = msg
      BY <1>20, <2>2 DEF Watchers
    <3>3. \A e \in errors' : e.req = msg
      BY <1>20, <2>2 DEF Watchers
    <3> QED
      BY <3>1, <3>2, <3>3, KindsOfTimers DEF Watchers
  <2> QED
    BY <2>1, <2>2
<1>11. ASSUME NEW r \in Reqs, Stream(r) PROVE Watchers'
  <2>1. Live(r) /\ \A s \in Reqs : Live(s)' => Live(s)
    BY <1>11, Ended DEF Stream, HasResponse, Live
  <2>2. r = msg \/ timeoutTask = NoTimer
    BY <2>1 DEF Watchers
  <2> QED
    BY <1>11, <1>20, <2>1, <2>2 DEF Stream
<1>12. ASSUME NEW r \in Reqs, Respond(r) PROVE Watchers'
  BY <1>0, <1>3, <1>12, SendEffect DEF Respond
<1>13. ASSUME NEW e \in errors, HandleException(e) PROVE Watchers'
  <2>1. e.req \in Reqs
    BY DEF TypeInv, TypeOK
  <2> QED
    BY <1>0, <1>2, <1>3, <1>13, <1>20, <2>1, SendEffect
    DEF HandleException, ErrorAnswers, ErrorRaises, attributes, Watchers, Live
<1>14. ASSUME NEW r \in Reqs, Raise(r) \/ RunSentHooks(r) PROVE Watchers'
  <2>1. \A s \in Reqs : Live(s)' => Live(s)
    BY <1>0, <1>14, Ended, HooksEnd DEF Raise
  <2>2. \A e \in errors' : e \in errors \/ e.req = msg \/ timeoutTask = NoTimer
    BY <1>0, <1>14, HooksEnd DEF Raise, HasResponse, Fails, Live, Watchers
  <2> QED
    BY <1>2, <1>14, <2>1, <2>2 DEF Raise, RunSentHooks, readerVars
\* The only timer has fired, and the task it watched is cancelled.
<1>15. ASSUME NEW r \in Reqs, Timeout(r) PROVE Watchers'
  <2>1. /\ Watcher(r) = timeoutTask /\ r = msg /\ timers' = {}
        /\ UNCHANGED <<msg, timeoutTask>>
    BY <1>15, KindsOfTimers DEF Timeout, Watchers
  <2>2. \A s \in Reqs : Live(s)' => Live(s) /\ s # currentTask
    BY <1>15, CancelledTask DEF Timeout
  <2>3. timeoutTask # NoTimer
    BY <1>0, <1>15, <2>1 DEF Timeout
  <2>4. \A s \in Reqs : ~Live(s)'
    BY <2>2, <2>3 DEF Watchers
  <2>5. \A e \in errors' : e.req = msg
    BY <1>15, <2>1, <2>3 DEF Timeout, Watchers
  <2>6. Len(sent') < msg' /\ msg' = msg
    BY <1>15, <2>1 DEF Timeout, Watchers
  <2> QED
    BY <1>0, <2>1, <2>4, <2>5, <2>6 DEF Watchers
<1>16. ASSUME NEW r \in Reqs, StreamTimeout(r) PROVE Watchers'
  <2>1. closed' /\ timers' \subseteq timers /\ streaming' \subseteq streaming
    BY <1>16 DEF StreamTimeout, Close
  <2>2. Watcher(msg) \in timers <=> Watcher(msg) \in timers'
    BY <1>16, KindsOfTimers DEF StreamTimeout
  <2>3. /\ UNCHANGED <<msg, sent, timeoutTask, currentTask, errors>>
        /\ \A s \in Reqs : Live(s)' <=> Live(s)
    BY <1>16 DEF StreamTimeout, Live
  <2> QED
    BY <2>1, <2>2, <2>3 DEF Watchers
<1>17. ASSUME NEW r \in Reqs, StreamEnds(r) PROVE Watchers'
  BY <1>3, <1>17 DEF StreamEnds
<1>18. ASSUME NEW r \in Reqs,
              ReadChunk(r) \/ StreamStalls(r) \/ StreamRaises(r) \/ WaitClientConsume(r)
       PROVE  Watchers'
  BY <1>2, <1>18 DEF ReadChunk, StreamStalls, StreamRaises, WaitClientConsume, readerVars,
       attributes, Close, Live
<1>19. CASE PartialHeaders \/ (\E body, last \in BOOLEAN : MoreBody(body, last))
              \/ ConnectionLost \/ ScheduledClose \/ ResumeWriting \/ Stop
  BY <1>2, <1>19 DEF PartialHeaders, MoreBody, ConnectionLost, ScheduledClose,
       ResumeWriting, Stop, Close, loop, Live
<1> QED
  BY <1>5, <1>6, <1>7, <1>8, <1>9, <1>10, <1>11, <1>12, <1>13, <1>14, <1>15, <1>16,
     <1>17, <1>18, <1>19
  DEF Next, Client, Handler, StreamTask, Loop

-----------------------------------------------------------------------------
(* What after_response leaves: status, queue and reading.                    *)

\* A parser that is fed no bad segment stays alive.
AliveInv == "bad" \notin May => parser # "dead"

\* Work in flight shows in the status.
Busy ==
    (\E r \in Reqs : Live(r)) \/ errors # {} \/ streaming # {} \/ Watcher(msg) \in timers
        => status # Pending

BusyInv == OneAnswerer /\ InTurn => Busy

\* The queue holds the body of a request that is still being handled; it is
\* clean again, and the connection reads, once that request is answered.
Body ==
    /\ q.items # <<>> => q.dirty
    /\ consumed \/ ~NoEnd(q) => q.finished
    /\ q.finished => parser # "body"
    /\ parser = "body" => \E r \in Reqs : Live(r)
    /\ streaming # {} => closed \/ StreamWatcher(msg) \in timers
    /\ Len(sent) = msg /\ ~Incomplete /\ ~closed
          => q.items = <<>> /\ ~q.finished /\ ~consumed /\ (readable \/ stopped)

BodyInv == OneAnswerer /\ InTurn /\ WholeBodies => Body

LEMMA AliveStep ==
  ASSUME TypeInv, AliveInv, Next
  PROVE  AliveInv'
<1>1. May' = May
  BY DEF Next, May
<1> QED
  BY <1>1
  DEF Next, Client, Loop, Handler, StreamTask, AliveInv, PartialHeaders, Headers,
      HeadersCached, MoreBody, BadSegment, Upgrade, ConnectionLost,
      ReadChunk, WaitChunk, Wake, Respond, Stream, SendStream, Raise, RunSentHooks,
      readerVars, HandleException, ErrorAnswers, ErrorRaises, attributes, StreamEnds, StreamStalls, StreamRaises, Timeout, StreamTimeout,
      WaitClientConsume, ScheduledClose, ResumeWriting, Stop

\* The whole of the order, when one task only answers each request.
LEMMA InOrderParts ==
  ASSUME OneAnswerer, InTurn, AliveInv, OrderInv, WaiterInv, TimerInv
  PROVE  /\ Order /\ Waiters /\ Watchers
         /\ "pressure" \notin May /\ "pipelined" \notin May /\ "bad" \notin May
         /\ HooksPass
  BY DEF OneAnswerer, HandlersAnswer, InTurn, AliveInv, OrderInv, WaiterInv, TimerInv,
         InOrder

LEMMA BusyStep ==
  ASSUME TypeInv, AliveInv, OrderInv, WaiterInv, TimerInv, BusyInv, Next
  PROVE  BusyInv'
<1> SUFFICES ASSUME OneAnswerer, InTurn, Busy PROVE Busy'
  BY PremisesAreConstant DEF BusyInv, Next
<1>0. /\ Order /\ Waiters /\ Watchers
      /\ "pressure" \notin May /\ "pipelined" \notin May /\ "bad" \notin May /\ HooksPass
  BY InOrderParts
<1>1. ASSUME UNCHANGED <<status, msg, errors>>, streaming' \subseteq streaming,
             timers' \subseteq timers, \A r \in Reqs : Live(r)' => Live(r)
      PROVE  Busy'
  BY <1>1 DEF Busy
<1>2. ASSUME status' \in {Receiving, Processing} PROVE Busy'
  BY <1>2 DEF Busy, Pending, Receiving, Processing
\* after_response, once the task that calls it is over.
<1>3. ASSUME AfterResponse, \A r \in Reqs : ~Live(r)', errors' = {}, streaming' = {}
      PROVE  Busy'
  <2>1. timers' = {}
    BY <1>0, <1>3 DEF AfterResponse, Released, TimersWithoutOurs, Watchers
  <2> QED
    BY <1>3, <2>1 DEF Busy
<1>4. ASSUME NEW body \in BOOLEAN, NEW last \in BOOLEAN,
             Headers(body, last) \/ MoreBody(body, last)
      PROVE  Busy'
  BY <1>2, <1>4 DEF Headers, MoreBody, StatusAfter
<1>5. ASSUME NEW body \in BOOLEAN, NEW last \in BOOLEAN, HeadersCached(body, last)
      PROVE  Busy'
  <2>1. errors = {} /\ streaming = {} /\ \A r \in Reqs : ~Live(r)
    BY <1>0, <1>5, ReadyInOrder DEF HeadersCached, MaySendRequest
  <2>2. writable'
    BY <1>0, <1>5 DEF HeadersCached, WritableAfterWrite, TypeInv, TypeOK
  <2>3. timers' = {}
    BY <1>0, <1>5, <2>2 DEF HeadersCached, Released, TimersWithoutOurs, Watchers
  <2> QED
    BY <1>5, <2>1, <2>3 DEF HeadersCached, Busy, Live
<1>6. ASSUME PartialHeaders \/ BadSegment \/ \E more \in BOOLEAN : Upgrade(more)
      PROVE  Busy'
  BY <1>2, <1>6 DEF PartialHeaders, Upgrade, BadSegment
<1>7. ASSUME NEW r \in Reqs, WaitChunk(r) PROVE Busy'
  <2>1. \A s \in Reqs : Live(s)' => Live(s)
    BY <1>7, HandlerSet DEF WaitChunk, Live
  <2> QED
    BY <1>1, <1>7, <2>1 DEF WaitChunk, readerVars
<1>8. ASSUME NEW r \in Reqs, Wake(r) \/ Raise(r) \/ Timeout(r) PROVE Busy'
  <2>1. status' = status /\ status \in {Pending, Receiving, Processing}
    BY <1>8 DEF Wake, Raise, Timeout, readerVars, TypeInv, TypeOK
  <2>2. status # Pending
    BY <1>0, <1>8, KindsOfTimers
    DEF Wake, Raise, HasResponse, Timeout, Live, Busy, Watchers
  <2> QED
    BY <1>2, <2>1, <2>2
<1>9. ASSUME NEW r \in Reqs, Respond(r) PROVE Busy'
  <2>1. /\ \A s \in Reqs : ~Live(s)'
        /\ errors = {} /\ streaming = {}
    BY <1>0, <1>9, Ended DEF Respond, HasResponse, Order, Live
  <2>2. AfterResponse
    BY <1>0, <1>9, SendEffect DEF Respond
  <2> QED
    BY <1>3, <1>9, <2>1, <2>2 DEF Respond
<1>10. ASSUME NEW r \in Reqs, Stream(r) PROVE Busy'
  <2>1. status' = status /\ status \in {Pending, Receiving, Processing}
    BY <1>10 DEF Stream, SendStream, TypeInv, TypeOK
  <2>2. status # Pending
    BY <1>10 DEF Stream, HasResponse, Live, Busy
  <2> QED
    BY <1>2, <2>1, <2>2
<1>11. ASSUME NEW r \in Reqs, RunSentHooks(r) PROVE Busy'
  BY <1>0, <1>1, <1>11, HooksEnd DEF RunSentHooks, readerVars
<1>12. ASSUME NEW e \in errors, HandleException(e) PROVE Busy'
  <2>1. e.req \in Reqs
    BY DEF TypeInv, TypeOK
  <2>2. CASE ErrorAnswers(e)
    <3>1. /\ \A s \in Reqs : ~Live(s)'
          /\ errors' = {} /\ streaming' = {}
      BY <1>0, <1>12, <2>2 DEF HandleException, ErrorAnswers, Order, Live
    <3>2. AfterResponse
      BY <1>0, <2>1, <2>2, SendEffect DEF ErrorAnswers
    <3> QED
      BY <1>3, <3>1, <3>2
  <2>3. CASE SendStream(e.req) \/ ErrorRaises(e)
    <3>1. status' = status /\ status \in {Pending, Receiving, Processing}
      BY <2>3 DEF SendStream, ErrorRaises, attributes, TypeInv, TypeOK
    <3>2. status # Pending
      BY <1>12 DEF Busy
    <3> QED
      BY <1>2, <3>1, <3>2
  <2> QED
    BY <1>12, <2>2, <2>3 DEF HandleException
<1>13. ASSUME NEW r \in Reqs, StreamEnds(r) PROVE Busy'
  <2>1. /\ \A s \in Reqs : ~Live(s)'
        /\ errors' = {} /\ streaming' = {}
    BY <1>0, <1>13 DEF StreamEnds, Order, Live
  <2> QED
    BY <1>3, <1>13, <2>1 DEF StreamEnds
<1>14. ASSUME NEW r \in Reqs,
              ReadChunk(r) \/ StreamStalls(r) \/ StreamRaises(r) \/ StreamTimeout(r)
                 \/ WaitClientConsume(r)
       PROVE  Busy'
  BY <1>1, <1>14 DEF ReadChunk, StreamStalls, StreamRaises, StreamTimeout,
       WaitClientConsume, readerVars, attributes, Live
<1>15. CASE ConnectionLost \/ ScheduledClose \/ ResumeWriting \/ Stop
  BY <1>1, <1>15 DEF ConnectionLost, ScheduledClose, ResumeWriting, Stop, loop, Live
<1> QED
  BY <1>4, <1>5, <1>6, <1>7, <1>8, <1>9, <1>10, <1>11, <1>12, <1>13, <1>14, <1>15
  DEF Next, Client, Handler, StreamTask, Loop

\* What is left of a queue that had no sentinel, or none but with the flag.
LEMMA TailHasNoEnd ==
  ASSUME NEW queue \in QueueType, NEW rest, queue.items # <<>>,
         rest.items = Tail(queue.items), NoEnd(queue)
  PROVE  NoEnd(rest) /\ Head(queue.items) # EndOfStream
<1>1. /\ queue.items \in Seq(Items)
      /\ Len(queue.items) \in Nat /\ Len(queue.items) # 0
      /\ Head(queue.items) = queue.items[1]
      /\ Len(Tail(queue.items)) = Len(queue.items) - 1
      /\ \A j \in 1..Len(Tail(queue.items)) : Tail(queue.items)[j] = queue.items[j + 1]
  BY QueueFields, HeadTailProperties, EmptySeq
<1> QED
  BY <1>1 DEF NoEnd

LEMMA BodyStep ==
  ASSUME TypeInv, AliveInv, OrderInv, WaiterInv, TimerInv, BodyInv, Next
  PROVE  BodyInv'
<1> SUFFICES ASSUME OneAnswerer, InTurn, WholeBodies, Body PROVE Body'
  BY PremisesAreConstant DEF BodyInv, Next
<1>0. /\ Order /\ Waiters /\ Watchers
      /\ "pressure" \notin May /\ "pipelined" \notin May /\ "bad" \notin May /\ HooksPass
      /\ "early" \notin May /\ "cached" \notin May
      /\ q \in QueueType /\ Len(sent) \in Nat /\ msg \in Nat
      /\ readable \in BOOLEAN /\ stopped \in BOOLEAN /\ closed \in BOOLEAN
      /\ consumed \in BOOLEAN
  BY InOrderParts, LenProperties, Constants DEF WholeBodies, TypeInv, TypeOK, QueueType
<1>1. ASSUME NEW r \in Reqs, Live(r)
      PROVE  /\ r = msg /\ Len(sent) < msg /\ streaming = {}
             /\ \A s \in Reqs : Live(s) => s = r
  BY <1>0, <1>1 DEF Order
\* A request gets its result after the end of its body.
<1>2. ASSUME NEW r \in Reqs, HasResponse(r)
      PROVE  /\ parser # "body" /\ Live(r)
             /\ r = msg /\ Len(sent) < msg /\ streaming = {}
             /\ \A s \in Reqs : Live(s) => s = r
  BY <1>0, <1>1, <1>2 DEF HasResponse, Body, Live
\* Nothing changes but what the invariant does not look at.
<1>3. ASSUME UNCHANGED <<q, consumed, readable, stopped, closed, sent, msg, streaming,
                         timers, handler>>,
             parser' = parser \/ parser' # "body"
      PROVE  Body'
  BY <1>3 DEF Body, NoEnd, Live, Incomplete
\* The connection closes; the stream's task or watcher may end with it.
<1>4. ASSUME closed', UNCHANGED <<q, consumed, parser, handler>>
      PROVE  Body'
  BY <1>4 DEF Body, NoEnd, Live
\* after_response, once the body is over.
<1>5. ASSUME AfterResponse, parser' # "body", streaming' = {}, stopped' = stopped
      PROVE  Body'
  <2>1. /\ q' = Clear(q) /\ ~consumed'
        /\ ~closed' => readable' \/ stopped'
    BY <1>5 DEF AfterResponse, Released, ReadsAfterResponse, ClosesAtOnce, Close
  <2>2. q'.items = <<>> /\ ~q'.finished
    BY <1>0, <2>1, ClearProps DEF Body
  <2>3. NoEnd(q)'
    BY <2>2 DEF NoEnd
  <2> QED
    BY <1>5, <2>1, <2>2, <2>3 DEF Body
\* Work on a request that is not answered yet.
<1>6. ASSUME Len(sent)' < msg', streaming' = {},
             q'.items # <<>> => q'.dirty,
             consumed' \/ ~NoEnd(q)' => q'.finished,
             q'.finished => parser' # "body",
             parser' = "body" => \E r \in Reqs : Live(r)'
      PROVE  Body'
  <2>1. Len(sent)' # msg'
    BY <1>6, <1>0, LenProperties
  <2> QED
    BY <1>6, <2>1 DEF Body
<1>7. ASSUME NEW body \in BOOLEAN, NEW last \in BOOLEAN, Headers(body, last)
      PROVE  Body'
  <2>1. /\ Len(sent) = msg /\ msg + 1 \in Reqs /\ streaming = {}
        /\ q.items = <<>> /\ ~q.finished /\ ~consumed
    BY <1>0, <1>7, ReadyInOrder DEF Headers, MaySendRequest, CanReceive, Incomplete, Body
  <2>2. FedBy(q, body, last, q') /\ NoEnd(q)
    BY <1>0, <1>7, <2>1, FeedProps DEF Headers, NoEnd
  <2>3. /\ msg' = msg + 1 /\ sent' = sent /\ consumed' = consumed /\ streaming' = {}
        /\ parser' = IF last THEN "idle" ELSE "body"
        /\ handler' = [handler EXCEPT ![msg + 1] = "running"]
    BY <1>7, <2>1 DEF Headers
  <2>4. \E r \in Reqs : Live(r)'
    BY <2>1, <2>3, HandlerSet DEF Live
  <2>5. /\ q'.items # <<>> => q'.dirty
        /\ ~NoEnd(q') => q'.finished
        /\ q'.finished = last
    BY <2>1, <2>2 DEF FedBy
  <2> QED
    BY <1>0, <1>6, <2>1, <2>3, <2>4, <2>5 DEF NoEnd
<1>8. ASSUME NEW body \in BOOLEAN, NEW last \in BOOLEAN, MoreBody(body, last)
      PROVE  Body'
  <2>1. PICK r \in Reqs : Live(r)
    BY <1>8 DEF MoreBody, Body
  <2>2. ~q.finished /\ ~consumed /\ NoEnd(q)
    BY <1>8 DEF MoreBody, Body
  <2>3. FedBy(q, body, last, q')
    BY <1>0, <1>8, FeedProps DEF MoreBody, TypeInv
  <2>4. /\ msg' = msg /\ sent' = sent /\ consumed' = consumed /\ streaming' = streaming
        /\ handler' = handler
        /\ parser' = IF last THEN "idle" ELSE "body"
    BY <1>8 DEF MoreBody, loop
  <2>5. q'.items # <<>> => q'.dirty
    BY <2>3 DEF FedBy, Body
  <2> QED
    BY <1>1, <1>6, <2>1, <2>2, <2>3, <2>4, <2>5 DEF FedBy, Live
<1>9. ASSUME NEW more \in BOOLEAN, Upgrade(more) PROVE Body'
  <2>1. Len(sent) = msg /\ streaming = {} /\ q' = End(q)
    BY <1>0, <1>9, ReadyInOrder DEF Upgrade, MaySendRequest
  <2>2. q'.finished /\ (q'.items # <<>> => q'.dirty)
    BY <1>0, <2>1, EndProps DEF Body
  <2> QED
    BY <1>0, <1>6, <1>9, <2>1, <2>2 DEF Upgrade
<1>10. ASSUME NEW r \in Reqs, ReadChunk(r) PROVE Body'
  <2>1. /\ Len(sent) < msg /\ streaming = {}
        /\ msg' = msg /\ sent' = sent /\ streaming' = streaming /\ handler' = handler
        /\ parser' = parser
    BY <1>1, <1>10 DEF ReadChunk, readerVars, Live
  <2>2. /\ q' = GetRest(q)
        /\ q'.items = IF q.items = <<>> THEN <<>> ELSE Tail(q.items)
        /\ q'.finished = q.finished /\ q'.dirty = q.dirty
    BY <1>0, <1>10, GetRestProps DEF ReadChunk
  <2>3. q'.items # <<>> => q'.dirty
    BY <2>2 DEF Body
  <2>4. consumed' \/ ~NoEnd(q)' => q'.finished
    <3>1. CASE q.finished
      BY <2>2, <3>1
    <3>2. CASE ~q.finished
      <4>1. NoEnd(q) /\ q.items # <<>>
        BY <1>10, <3>2 DEF Body, ReadChunk, GetReturns
      <4>2. NoEnd(q') /\ Head(q.items) # EndOfStream
        BY <1>0, <2>2, <4>1, TailHasNoEnd
      <4>3. ~consumed'
        BY <1>10, <4>1, <4>2 DEF ReadChunk, Took, GetValue
      <4> QED
        BY <4>2, <4>3 DEF NoEnd
    <3> QED
      BY <3>1, <3>2
  <2> QED
    BY <1>6, <2>1, <2>2, <2>3, <2>4 DEF Body, Live
<1>11. ASSUME NEW r \in Reqs, WaitChunk(r) PROVE Body'
  <2>1. /\ Len(sent) < msg /\ streaming = {}
        /\ msg' = msg /\ sent' = sent /\ streaming' = streaming /\ parser' = parser
        /\ consumed' = consumed
    BY <1>1, <1>11 DEF WaitChunk, readerVars, Live
  <2>2. q'.items = q.items /\ q'.finished = q.finished /\ q'.dirty = q.dirty
    BY <1>0, <1>11, GetWaitProps DEF WaitChunk
  <2>3. Live(r)'
    BY <1>11, HandlerSet DEF WaitChunk, Live
  <2> QED
    BY <1>6, <2>1, <2>2, <2>3 DEF Body, NoEnd
<1>12. ASSUME NEW r \in Reqs, Wake(r) PROVE Body'
  <2>1. q.items # <<>>
    BY <1>0, <1>12 DEF Wake, Waiters, Waiting
  <2>2. /\ Len(sent) < msg /\ streaming = {}
        /\ msg' = msg /\ sent' = sent /\ streaming' = streaming /\ parser' = parser
        /\ handler' = [handler EXCEPT ![r] = "running"]
        /\ Took(Head(q.items))
    BY <1>1, <1>12, <2>1 DEF Wake, GetFails, readerVars, Live
  <2>3. /\ q'.items = Tail(q.items)
        /\ q'.finished = q.finished /\ q'.dirty = q.dirty
    BY <1>0, <1>12, <2>1, GetResumeProps DEF Wake
  <2>4. Live(r)'
    BY <2>2, HandlerSet DEF Live
  <2>5. consumed' \/ ~NoEnd(q)' => q'.finished
    <3>1. CASE q.finished
      BY <2>3, <3>1
    <3>2. CASE ~q.finished
      <4>1. NoEnd(q') /\ Head(q.items) # EndOfStream
        BY <1>0, <2>1, <2>3, <3>2, TailHasNoEnd DEF Body
      <4> QED
        BY <2>2, <4>1 DEF NoEnd, Took
    <3> QED
      BY <3>1, <3>2
  <2> QED
    BY <1>6, <2>1, <2>2, <2>3, <2>4, <2>5 DEF Body
<1>13. ASSUME NEW r \in Reqs, Respond(r) PROVE Body'
  <2>1. parser # "body" /\ streaming = {}
    BY <1>2, <1>13 DEF Respond
  <2>2. AfterResponse
    BY <1>0, <1>13, SendEffect DEF Respond
  <2> QED
    BY <1>5, <1>13, <2>1, <2>2 DEF Respond
\* A streamed answer to the last request, or none.
<1>27. ASSUME NEW r \in Reqs, SendStream(r), r = msg, Len(sent) < msg,
              parser # "body", streaming = {}
       PROVE  Body'
  <2>1. UNCHANGED <<q, consumed, parser, msg, closed>>
    BY <1>27 DEF SendStream
  <2>2. CASE timeoutTask = NoTimer
    BY <1>6, <1>27, <2>1, <2>2 DEF SendStream, Body, NoEnd
  <2>3. CASE timeoutTask # NoTimer
    <3>1. StreamWatcher(msg) \in timers' /\ StreamWatcher(msg).kind = "stream"
      BY <1>27, <2>3, KindsOfTimers DEF SendStream
    <3> QED
      BY <1>27, <2>1, <3>1 DEF Body, NoEnd, Incomplete
  <2> QED
    BY <2>2, <2>3
<1>14. ASSUME NEW r \in Reqs, Stream(r) PROVE Body'
  BY <1>2, <1>14, <1>27 DEF Stream
<1>15. ASSUME NEW r \in Reqs, Raise(r) PROVE Body'
  <2>1. /\ parser # "body" /\ Len(sent) < msg /\ streaming = {}
        /\ UNCHANGED <<q, consumed, parser, msg, sent, streaming>>
    BY <1>2, <1>15 DEF Raise, readerVars
  <2> QED
    BY <1>6, <2>1 DEF Body, NoEnd
<1>16. ASSUME NEW r \in Reqs, RunSentHooks(r) PROVE Body'
  <2>1. \A s \in Reqs : Live(s)' <=> Live(s)
    <3>1. \A s \in Reqs : Live(s)' => Live(s)
      BY <1>0, <1>16, HooksEnd
    <3>2. \A s \in Reqs : Live(s) => s # r
      BY <1>16 DEF RunSentHooks, Live
    <3>3. PICK pc : handler' = [handler EXCEPT ![r] = pc]
      BY <1>16 DEF RunSentHooks, Fails
    <3>4. \A s \in Reqs : Live(s) => Live(s)'
      BY <3>2, <3>3, HandlerSet DEF Live
    <3> QED
      BY <3>1, <3>4
  <2>2. UNCHANGED <<readerVars, readable, q, consumed>>
    BY <1>16 DEF RunSentHooks
  <2> QED
    BY <2>1, <2>2 DEF Body, NoEnd, Incomplete, readerVars
<1>17. ASSUME NEW e \in errors, HandleException(e) PROVE Body'
  <2>1. /\ parser # "body" /\ streaming = {} /\ e.req = msg /\ Len(sent) < msg
        /\ e.req \in Reqs
    BY <1>0 DEF Body, Order, TypeInv, TypeOK
  <2>2. CASE ErrorAnswers(e)
    <3>1. AfterResponse
      BY <1>0, <2>1, <2>2, SendEffect DEF ErrorAnswers
    <3> QED
      BY <1>5, <2>1, <2>2, <3>1 DEF ErrorAnswers
  <2>3. CASE SendStream(e.req)
    BY <1>27, <2>1, <2>3
  <2>4. CASE ErrorRaises(e)
    BY <1>6, <2>1, <2>4 DEF ErrorRaises, attributes, Body, NoEnd
  <2> QED
    BY <1>17, <2>2, <2>3, <2>4 DEF HandleException
<1>18. ASSUME NEW r \in Reqs, StreamEnds(r) PROVE Body'
  <2>1. parser # "body" /\ streaming' = {}
    BY <1>0, <1>18 DEF StreamEnds, Body, Order
  <2> QED
    BY <1>5, <1>18, <2>1 DEF StreamEnds
<1>19. ASSUME NEW r \in Reqs, StreamRaises(r) PROVE Body'
  <2>1. closed \/ (StreamWatcher(msg) \in timers /\ StreamWatcher(msg).kind = "stream")
    BY <1>19, KindsOfTimers DEF StreamRaises, Body
  <2> QED
    BY <1>0, <1>19, <2>1 DEF StreamRaises, attributes, Body, Order, NoEnd, Live, Incomplete
<1>20. ASSUME NEW r \in Reqs, Timeout(r) PROVE Body'
  <2>1. /\ parser # "body" /\ Len(sent) < msg /\ streaming = {}
        /\ UNCHANGED <<consumed, parser, msg, sent, streaming>>
    BY <1>0, <1>20, KindsOfTimers DEF Timeout, Watchers
  <2>2. q'.items = q.items /\ q'.finished = q.finished /\ q'.dirty = q.dirty
    BY <1>0, <1>20, GetCancelledProps DEF Timeout
  <2> QED
    BY <1>6, <2>1, <2>2 DEF Body, NoEnd
<1>21. ASSUME NEW r \in Reqs, StreamTimeout(r) \/ StreamStalls(r) PROVE Body'
  BY <1>4, <1>21 DEF StreamTimeout, StreamStalls, Close
<1>22. CASE ConnectionLost \/ ScheduledClose
  BY <1>4, <1>22 DEF ConnectionLost, ScheduledClose, Close
<1>23. CASE Stop
  BY <1>23 DEF Stop, Close, Body, NoEnd, Live, Incomplete
<1>24. ASSUME NEW r \in Reqs, WaitClientConsume(r) PROVE Body'
  BY <1>3, <1>24 DEF WaitClientConsume, attributes
<1>25. CASE PartialHeaders \/ ResumeWriting
  BY <1>3, <1>25 DEF PartialHeaders, ResumeWriting, loop
<1>26. ASSUME NEW body \in BOOLEAN, NEW last \in BOOLEAN,
              HeadersCached(body, last) \/ BadSegment
       PROVE  FALSE
  BY <1>0, <1>26 DEF HeadersCached, BadSegment
<1> QED
  BY <1>7, <1>8, <1>9, <1>10, <1>11, <1>12, <1>13, <1>14, <1>15, <1>16, <1>17, <1>18,
     <1>19, <1>20, <1>21, <1>22, <1>23, <1>24, <1>25, <1>26
  DEF Next, Client, Handler, StreamTask, Loop

-----------------------------------------------------------------------------
(* Pipelined requests: answered in any order, but once.                      *)

NotSent(r) == \A i \in 1..Len(sent) : sent[i] # r

\* A request is in one place: with its handler, with one error handler, or
\* among the responses.
Unique ==
    /\ \A r \in Reqs :
          Live(r) => r <= msg /\ NotSent(r) /\ \A e \in errors : e.req # r
    /\ \A e \in errors : e.req <= msg /\ NotSent(e.req)
    /\ \A e, f \in errors : e.req = f.req => e = f
    /\ \A i \in 1..Len(sent) : sent[i] <= msg
    /\ \A i, j \in 1..Len(sent) : sent[i] = sent[j] => i = j

UniqueInv == OneAnswerer /\ "timeout" \notin May => Unique

LEMMA WrittenOnce ==
  ASSUME TypeInv, Unique, NEW r \in Reqs, NotSent(r), sent' = Written(r),
         r <= msg', msg <= msg', msg' \in Nat
  PROVE  /\ \A i \in 1..Len(sent') : sent'[i] <= msg'
         /\ \A i, j \in 1..Len(sent') : sent'[i] = sent'[j] => i = j
         /\ \A s : NotSent(s) /\ s # r => \A i \in 1..Len(sent') : sent'[i] # s
<1>1. /\ sent \in Seq(Reqs) /\ Len(sent) \in Nat /\ msg \in Nat
      /\ \A i \in 1..Len(sent) : sent[i] \in Nat
  BY LenProperties, ElementOfSeq, Constants DEF TypeInv, TypeOK
<1>2. CASE closed
  BY <1>1, <1>2 DEF Written, Unique, NotSent
<1>3. CASE ~closed
  <2>1. /\ Len(sent') = Len(sent) + 1
        /\ \A i \in 1..Len(sent) : sent'[i] = sent[i]
        /\ sent'[Len(sent) + 1] = r
    BY <1>1, <1>3, AppendProperties DEF Written
  <2>2. \A i \in 1..Len(sent') : i # Len(sent) + 1 => i \in 1..Len(sent) /\ sent'[i] = sent[i]
    BY <1>1, <2>1
  <2>3. \A i \in 1..Len(sent') : sent'[i] <= msg'
    BY <1>1, <2>1, <2>2 DEF Unique
  <2>4. \A i \in 1..Len(sent) : sent[i] # r
    BY DEF NotSent
  <2>5. \A i, j \in 1..Len(sent') : sent'[i] = sent'[j] => i = j
    BY <2>1, <2>2, <2>4 DEF Unique
  <2>6. \A s : NotSent(s) /\ s # r => \A i \in 1..Len(sent') : sent'[i] # s
    BY <2>1, <2>2 DEF NotSent
  <2> QED
    BY <2>3, <2>5, <2>6
<1> QED
  BY <1>2, <1>3

LEMMA UniqueStep ==
  ASSUME TypeInv, UniqueInv, Next
  PROVE  UniqueInv'
<1> SUFFICES ASSUME OneAnswerer, "timeout" \notin May, Unique PROVE Unique'
  BY PremisesAreConstant DEF UniqueInv, Next
<1>0. /\ "bad" \notin May /\ HooksPass /\ handler \in [Reqs -> HandlerPCs]
      /\ msg \in Nat /\ sent \in Seq(Reqs) /\ Len(sent) \in Nat
      /\ \A i \in 1..Len(sent) : sent[i] \in Nat
      /\ \A r \in Reqs : r \in Nat
      /\ ClientIsReady => msg + 1 \in Reqs
      /\ errors \subseteq [req : Reqs, why : {"handler", "timeout", "parser"}]
  BY LenProperties, ElementOfSeq, Constants
  DEF OneAnswerer, HandlersAnswer, TypeInv, TypeOK, ClientIsReady, Reqs
\* Nothing is written and no task is started.
<1>1. ASSUME UNCHANGED <<msg, sent>>, errors' \subseteq errors,
             \A r \in Reqs : Live(r)' => Live(r)
      PROVE  Unique'
  BY <1>1 DEF Unique, NotSent
\* One request is answered by the task it was with.
<1>2. ASSUME NEW r \in Reqs, NotSent(r), sent' = Written(r), msg' = msg, r <= msg,
             errors' \subseteq errors, \A e \in errors' : e.req # r,
             \A s \in Reqs : Live(s)' => Live(s) /\ s # r
      PROVE  Unique'
  <2>1. /\ \A i \in 1..Len(sent') : sent'[i] <= msg'
        /\ \A i, j \in 1..Len(sent') : sent'[i] = sent'[j] => i = j
        /\ \A s : NotSent(s) /\ s # r => \A i \in 1..Len(sent') : sent'[i] # s
    BY <1>0, <1>2, WrittenOnce
  <2> QED
    BY <1>0, <1>2, <2>1 DEF Unique, NotSent
\* One request passes from its handler to an error handler.
<1>3. ASSUME NEW r \in Reqs, Live(r), Fails(r), UNCHANGED <<msg, sent>>
      PROVE  Unique'
  <2>1. \A s \in Reqs : Live(s)' => Live(s) /\ s # r
    BY <1>3, Ended
  <2> DEFINE new == [req |-> r, why |-> "handler"]
  <2>2. new.req = r /\ \A e \in errors' : e \in errors \/ e = new
    BY <1>3 DEF Fails
  <2>3. r <= msg /\ NotSent(r) /\ \A e \in errors : e.req # r
    BY <1>3 DEF Unique
  <2> HIDE DEF new
  <2>4. \A e, f \in errors' : e.req = f.req => e = f
    BY <2>2, <2>3 DEF Unique
  <2>5. \A e \in errors' : e.req <= msg /\ NotSent(e.req)
    BY <2>2, <2>3 DEF Unique
  <2>6. \A s \in Reqs :
           Live(s)' => s <= msg /\ NotSent(s) /\ \A e \in errors' : e.req # s
    BY <2>1, <2>2 DEF Unique
  <2> QED
    BY <1>3, <2>4, <2>5, <2>6 DEF Unique, NotSent
<1>4. ASSUME NEW body \in BOOLEAN, NEW last \in BOOLEAN, Headers(body, last)
      PROVE  Unique'
  <2>1. /\ msg + 1 \in Reqs /\ msg' = msg + 1 /\ sent' = sent /\ errors' = errors
        /\ handler' = [handler EXCEPT ![msg + 1] = "running"]
    BY <1>0, <1>4 DEF Headers, MaySendRequest
  <2>2. \A s \in Reqs : Live(s)' => Live(s) \/ s = msg + 1
    BY <2>1, HandlerSet DEF Live
  <2>3. ASSUME NEW s \in Reqs, Live(s)'
        PROVE  s <= msg' /\ NotSent(s)' /\ \A e \in errors' : e.req # s
    <3>1. CASE s = msg + 1
      BY <1>0, <2>1, <3>1 DEF Unique, NotSent
    <3>2. CASE s # msg + 1
      BY <1>0, <2>1, <2>2, <2>3, <3>2 DEF Unique, NotSent
    <3> QED
      BY <3>1, <3>2
  <2>4. \A e \in errors' : e.req <= msg' /\ NotSent(e.req)'
    BY <1>0, <2>1 DEF Unique, NotSent
  <2>5. \A i \in 1..Len(sent') : sent'[i] <= msg'
    BY <1>0, <2>1 DEF Unique
  <2> QED
    BY <2>1, <2>3, <2>4, <2>5 DEF Unique
<1>5. ASSUME NEW body \in BOOLEAN, NEW last \in BOOLEAN, HeadersCached(body, last)
      PROVE  Unique'
  <2>1. /\ msg + 1 \in Reqs /\ msg' = msg + 1 /\ sent' = Written(msg + 1)
        /\ errors' = errors /\ handler' = handler
    BY <1>0, <1>5 DEF HeadersCached, MaySendRequest
  <2>2. NotSent(msg + 1)
    BY <1>0 DEF Unique, NotSent
  <2>3. /\ \A i \in 1..Len(sent') : sent'[i] <= msg'
        /\ \A i, j \in 1..Len(sent') : sent'[i] = sent'[j] => i = j
        /\ \A s : NotSent(s) /\ s # msg + 1 => \A i \in 1..Len(sent') : sent'[i] # s
    BY <1>0, <2>1, <2>2, WrittenOnce
  <2>4. ASSUME NEW s \in Reqs, Live(s)'
        PROVE  s <= msg' /\ NotSent(s)' /\ \A e \in errors' : e.req # s
    <3>1. Live(s)
      BY <2>1, <2>4 DEF Live
    <3>2. s <= msg /\ NotSent(s) /\ \A e \in errors : e.req # s
      BY <3>1 DEF Unique
    <3>3. s <= msg' /\ s # msg + 1
      BY <1>0, <2>1, <3>2
    <3>4. \A i \in 1..Len(sent') : sent'[i] # s
      BY <2>3, <3>2, <3>3
    <3> QED
      BY <2>1, <3>2, <3>3, <3>4 DEF NotSent
  <2>5. ASSUME NEW e \in errors'
        PROVE  e.req <= msg' /\ NotSent(e.req)'
    <3>1. e.req <= msg /\ NotSent(e.req) /\ e.req \in Nat
      BY <1>0, <2>1 DEF Unique
    <3>2. e.req <= msg' /\ e.req # msg + 1
      BY <1>0, <2>1, <3>1
    <3>3. \A i \in 1..Len(sent') : sent'[i] # e.req
      BY <2>3, <3>1, <3>2
    <3> QED
      BY <3>1, <3>2, <3>3 DEF NotSent
  <2> QED
    BY <2>1, <2>3, <2>4, <2>5 DEF Unique
<1>6. ASSUME NEW more \in BOOLEAN, Upgrade(more) PROVE Unique'
  <2>1. /\ msg + 1 \in Reqs /\ msg' = msg + 1 /\ sent' = sent /\ handler' = handler
        /\ \A e \in errors' : e \in errors \/ e = [req |-> msg + 1, why |-> "parser"]
    BY <1>0, <1>6 DEF Upgrade, MaySendRequest
  <2>2. \A n \in Nat : n <= msg => n <= msg' /\ n # msg + 1
    BY <1>0, <2>1
  <2>3. \A e \in errors : e.req \in Nat /\ e.req <= msg'  /\ e.req # msg + 1
    BY <1>0, <2>2 DEF Unique
  <2>4. NotSent(msg + 1) /\ msg + 1 <= msg'
    BY <1>0, <2>1 DEF Unique, NotSent
  <2>5. ASSUME NEW r \in Reqs, Live(r)'
        PROVE  r <= msg' /\ NotSent(r)' /\ \A e \in errors' : e.req # r
    BY <1>0, <2>1, <2>2, <2>5 DEF Unique, NotSent, Live
  <2>6. \A e \in errors' : e.req <= msg' /\ NotSent(e.req)'
    BY <2>1, <2>3, <2>4 DEF Unique, NotSent
  <2>7. \A e, f \in errors' : e.req = f.req => e = f
    BY <2>1, <2>3 DEF Unique
  <2> QED
    BY <1>0, <2>1, <2>2, <2>5, <2>6, <2>7 DEF Unique
<1>7. ASSUME NEW r \in Reqs, WaitChunk(r) PROVE Unique'
  <2>1. \A s \in Reqs : Live(s)' => Live(s)
    BY <1>7, HandlerSet DEF WaitChunk, Live
  <2> QED
    BY <1>1, <1>7, <2>1 DEF WaitChunk, readerVars
<1>8. ASSUME NEW r \in Reqs, Wake(r) PROVE Unique'
  <2>1. Live(r) /\ UNCHANGED <<msg, sent>>
    BY <1>8 DEF Wake, readerVars, Live
  <2>2. CASE Fails(r)
    BY <1>3, <2>1, <2>2
  <2>3. CASE handler' = [handler EXCEPT ![r] = "running"] /\ errors' = errors
    BY <1>1, <2>1, <2>3, HandlerSet DEF Live
  <2> QED
    BY <1>8, <2>2, <2>3 DEF Wake
<1>9. ASSUME NEW r \in Reqs, Respond(r) PROVE Unique'
  <2>1. /\ NotSent(r) /\ r <= msg /\ \A e \in errors : e.req # r
        /\ sent' = Written(r) /\ msg' = msg /\ errors' = errors
    BY <1>9, SendEffect DEF Respond, HasResponse, Live, Unique
  <2> QED
    BY <1>2, <1>9, <2>1, Ended DEF Respond
<1>10. ASSUME NEW r \in Reqs, Stream(r) PROVE Unique'
  <2>1. /\ NotSent(r) /\ r <= msg /\ \A e \in errors : e.req # r
        /\ msg' = msg /\ errors' = errors
        /\ \A s \in Reqs : Live(s)' => Live(s) /\ s # r
    BY <1>10, Ended DEF Stream, SendStream, HasResponse, Live, Unique
  <2>2. sent' = sent \/ sent' = Written(r)
    BY <1>10, SendStreamEffect DEF Stream
  <2> QED
    BY <1>1, <1>2, <2>1, <2>2
<1>11. ASSUME NEW r \in Reqs, Raise(r) PROVE Unique'
  BY <1>3, <1>11 DEF Raise, HasResponse, Live, readerVars
<1>12. ASSUME NEW r \in Reqs, RunSentHooks(r) PROVE Unique'
  BY <1>0, <1>1, <1>12, HooksEnd DEF RunSentHooks, readerVars
<1>13. ASSUME NEW e \in errors, HandleException(e) PROVE Unique'
  <2>1. /\ e.req \in Reqs /\ NotSent(e.req) /\ e.req <= msg
        /\ \A s \in Reqs : Live(s)' => Live(s) /\ s # e.req
    BY <1>0, <1>13 DEF HandleException, Unique, Live
  <2>2. \A f \in errors' : f \in errors /\ f.req # e.req
    BY <1>0, <1>13 DEF HandleException, Unique
  <2>3. (sent' = Written(e.req) \/ sent' = sent) /\ msg' = msg
    BY <1>13, <2>1, SendEffect, SendStreamEffect
    DEF HandleException, ErrorAnswers, ErrorRaises
  <2> QED
    BY <1>1, <1>2, <2>1, <2>2, <2>3
<1>14. ASSUME NEW r \in Reqs, StreamTask(r) \/ ReadChunk(r) \/ StreamTimeout(r)
                 \/ WaitClientConsume(r)
       PROVE  Unique'
  BY <1>1, <1>14 DEF StreamTask, StreamEnds, StreamStalls, StreamRaises, ReadChunk,
       StreamTimeout, WaitClientConsume, readerVars, attributes, Live
<1>15. CASE PartialHeaders \/ (\E body, last \in BOOLEAN : MoreBody(body, last))
              \/ ConnectionLost \/ ScheduledClose \/ ResumeWriting \/ Stop
  BY <1>1, <1>15 DEF PartialHeaders, MoreBody, ConnectionLost, ScheduledClose,
       ResumeWriting, Stop, loop, Live
<1>16. ASSUME NEW r \in Reqs, BadSegment \/ Timeout(r) PROVE FALSE
  BY <1>0, <1>16 DEF BadSegment, Timeout
<1>17. ~BadSegment
  BY <1>0 DEF BadSegment
<1> QED
  BY <1>4, <1>5, <1>6, <1>7, <1>8, <1>9, <1>10, <1>11, <1>12, <1>13, <1>14, <1>15,
     <1>16, <1>17
  DEF Next, Client, Handler, Loop

-----------------------------------------------------------------------------
(* The invariant, and what follows from it.                                  *)

Inv ==
    /\ TypeInv
    /\ AliveInv /\ OrderInv /\ WaiterInv /\ TimerInv /\ BusyInv /\ BodyInv /\ UniqueInv

LEMMA InvInit == Init => Inv
<1> SUFFICES ASSUME Init PROVE Inv
  OBVIOUS
<1>1. /\ Len(sent) = 0 /\ msg = 0 /\ errors = {} /\ streaming = {} /\ timers = {}
      /\ timeoutTask = NoTimer
      /\ q.items = <<>> /\ ~q.finished /\ q.event.pending = {} /\ q.event.woken = {}
      /\ \A r \in Reqs : ~Live(r) /\ handler[r] = "none"
      /\ parser = "idle" /\ ~consumed /\ readable
  BY DEF Init, Live, NewStreamQueue, NewEvent
<1>2. Order /\ Waiters /\ Watchers
  BY <1>1 DEF Order, Waiters, Watchers
<1>3. Busy /\ Unique
  BY <1>1 DEF Busy, Unique, NotSent
<1>4. Body
  BY <1>1 DEF Body, NoEnd
<1> QED
  BY <1>1, <1>2, <1>3, <1>4, TypeInit
  DEF Inv, AliveInv, OrderInv, WaiterInv, TimerInv, BusyInv, BodyInv, UniqueInv

LEMMA InvStep == Inv /\ [Next]_vars => Inv'
<1>1. ASSUME Inv, Next PROVE Inv'
  BY <1>1, TypeStep, AliveStep, OrderStep, WaiterStep, TimerStep, BusyStep, BodyStep,
     UniqueStep
  DEF Inv
<1>2. ASSUME Inv, UNCHANGED vars PROVE Inv'
  <2>0. UNCHANGED <<env, status, readable, writable, closed, stopped, timeoutTask,
                    currentTask, request, q, consumed, registered, timers, handler,
                    streaming, errors, flushers, closing, msg, parser, sent>>
    BY <1>2 DEF vars, conn, attributes, loop
  <2>1. TypeInv'
    BY <1>2, TypeStep DEF Inv
  <2>2. OrderInv' /\ AliveInv' /\ UniqueInv'
    BY <1>2, <2>0, PremisesAreConstant
    DEF Inv, OrderInv, Order, AliveInv, InOrder, UniqueInv, Unique, NotSent, Live
  <2>3. WaiterInv' /\ TimerInv'
    BY <1>2, <2>0, PremisesAreConstant
    DEF Inv, WaiterInv, Waiters, Waiting, TimerInv, Watchers, InOrder, Live
  <2>4. BusyInv' /\ BodyInv'
    BY <1>2, <2>0, PremisesAreConstant
    DEF Inv, BusyInv, Busy, BodyInv, Body, NoEnd, Incomplete, Live
  <2> QED
    BY <2>1, <2>2, <2>3, <2>4 DEF Inv
<1> QED
  BY <1>1, <1>2

LEMMA Invariant == Spec => []Inv
  BY InvInit, InvStep, PTL DEF Spec

\* One response per request: in the order of the requests, or, when the client
\* pipelines, each once.  A handler, an error handler, the watcher and a
\* streaming task never answer the same request twice, however they interleave.
THEOREM Answers == Spec => []OneResponseInOrder
<1>1. ASSUME Inv, OneAnswerer PROVE
        /\ \A i, j \in 1..Len(sent) : sent[i] = sent[j] => i = j
        /\ "pipelined" \notin May =>
              /\ Len(sent) <= msg
              /\ \A i \in 1..Len(sent) : sent[i] = i
  <2>1. CASE "pipelined" \notin May
    <3>1. InOrder
      BY <1>1, <2>1 DEF Inv, AliveInv, OneAnswerer, InOrder
    <3>2. Order
      BY <1>1, <3>1 DEF Inv, OrderInv
    <3> QED
      BY <3>2 DEF Order
  <2>2. CASE "pipelined" \in May
    <3>1. "timeout" \notin May
      BY <1>1, <2>2 DEF OneAnswerer, HandlersAnswer, InTurn
    <3> QED
      BY <1>1, <2>2, <3>1 DEF Inv, UniqueInv, Unique
  <2> QED
    BY <2>1, <2>2
<1>2. Inv => OneResponseInOrder
  BY <1>1 DEF OneResponseInOrder
<1> QED
  BY <1>2, Invariant, PTL

\* What after_response must leave on every path to it: no watcher that fires
\* into a later request, no status that hides work from the reaper and the
\* shutdown, no paused connection and no remains of a body for the request
\* that follows.
THEOREM Releases == Spec => []NothingIsLeftOver
<1>1. Inv => WatchersAreRemoved
  <2>1. ASSUME Inv, HandlersAnswer, InTurn, NEW t \in timers
        PROVE  /\ t.req = msg
               /\ t.kind = "request" => \A i \in DOMAIN sent : sent[i] # t.req
    <3>1. Watchers /\ t \in Timers /\ sent \in Seq(Reqs)
      BY <2>1 DEF Inv, TimerInv, TypeInv, TypeOK
    <3>2. t.kind = "request" => t = Watcher(t.req)
      BY <3>1, KindsOfTimers
    <3>3. DOMAIN sent = 1..Len(sent)
      BY <3>1, LenProperties
    <3> QED
      BY <3>1, <3>2, <3>3 DEF Watchers
  <2> QED
    BY <2>1 DEF WatchersAreRemoved
<1>2. Inv => PendingIsIdle
  <2>1. ASSUME Inv, OneAnswerer, InTurn, status = Pending
        PROVE  /\ \A r \in Reqs : handler[r] \in {"none", "hooks", "done"}
               /\ errors = {} /\ streaming = {} /\ flushers = {}
    BY <2>1 DEF Inv, BusyInv, Busy, Live, InTurn, TypeInv, TypeOK, HandlerPCs
  <2> QED
    BY <2>1 DEF PendingIsIdle
<1>3. Inv => AnsweredIsClean
  BY DEF Inv, BodyInv, Body, AnsweredIsClean
<1> QED
  BY <1>1, <1>2, <1>3, Invariant, PTL DEF NothingIsLeftOver

\* No response is begun while another one streams: a response is written by
\* a handler, an error handler or a cache, and none of them has a request
\* before the stream has come to its end.
THEOREM Streams == Spec => StreamsAreUninterrupted
<1>1. ASSUME Inv, Next, OneAnswerer, "pipelined" \notin May, sent' # sent
      PROVE  streaming = {}
  <2>1. Order
    BY <1>1 DEF Inv, AliveInv, OneAnswerer, InOrder, OrderInv
  <2>2. ASSUME NEW r \in Reqs, Respond(r) \/ Stream(r) PROVE streaming = {}
    BY <2>1, <2>2 DEF Respond, Stream, HasResponse, Live, Order
  <2>3. ASSUME NEW body \in BOOLEAN, NEW last \in BOOLEAN, HeadersCached(body, last)
        PROVE  streaming = {}
    BY <1>1, <2>3 DEF HeadersCached, MaySendRequest, ClientIsReady, Incomplete
  <2>4. ASSUME errors # {} PROVE streaming = {}
    BY <2>1, <2>4 DEF Order
  <2> QED
    BY <1>1, <2>2, <2>3, <2>4
    DEF Next, Client, Handler, StreamTask, Loop, PartialHeaders, Headers, MoreBody,
        BadSegment, Upgrade, ConnectionLost, ReadChunk, WaitChunk, Wake, Raise,
        RunSentHooks, readerVars, StreamEnds, StreamStalls, StreamRaises, Timeout,
        StreamTimeout, WaitClientConsume, ScheduledClose, ResumeWriting, Stop
<1>2. Inv /\ [Next]_vars
        => [OneAnswerer /\ "pipelined" \notin May /\ sent' # sent => streaming = {}]_vars
  BY <1>1
<1> QED
  BY <1>2, Invariant, PTL DEF Spec, StreamsAreUninterrupted
=============================================================================
