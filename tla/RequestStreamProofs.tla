------------------------ MODULE RequestStreamProofs ------------------------
(***************************************************************************)
(* Theorems about RequestStream, for every number of requests, chunks and  *)
(* chunks per segment:                                                     *)
(*                                                                         *)
(*   TypeCorrect  the type invariant                                       *)
(*   Waiters      no lost wake-up, no IndexError, whatever the environment *)
(*                does                                                     *)
(*   OwnChunks    a handler reads its own chunks, in order, unless one     *)
(*                segment may hold the end of a body and a new request     *)
(*   EndsAreReal, Buffers                                                  *)
(*                real ends, back-pressure and a clean stream after each   *)
(*                answer, when every answer follows the end of its         *)
(*                request's body                                           *)
(*   Implements   the abstract stream, when every answer follows the end   *)
(*                of its request's body                                    *)
(***************************************************************************)
EXTENDS RequestStream, SequenceTheorems, FiniteSetTheorems, TLAPS

(***************************************************************************)
(* The inductive invariants.  Each assumes the ones before it.             *)
(***************************************************************************)

TypeInv == TypeOK /\ (pc # "idle" \/ ~ended => msg \in Msgs)

\* Only the current request's task is ever suspended on the event, and it is
\* suspended with a cleared event, an empty queue and the socket being read,
\* or on its way with an item to read.  A handler that runs knows of the end.
WaiterInv ==
    /\ pc # "waiting" => q.event.pending = {} /\ q.event.woken = {}
    /\ pc = "waiting" =>
         /\ q.waiting /\ ~consumed
         /\ \/ /\ q.event.pending = {msg} /\ q.event.woken = {}
               /\ q.items = <<>> /\ ~q.event.value /\ ~ended /\ readable
            \/ /\ q.event.pending = {} /\ q.event.woken = {msg}
               /\ q.items # <<>>
    /\ pc \in {"code", "waiting"} /\ ended => q.finished
    /\ pc # "broken"

\* The first k items are the chunks the handler reads next; what follows them
\* can only be the sentinel, and if nothing does they are all there is.
NextItems(k) ==
    /\ \A j \in 1..k : q.items[j] = Chunk(msg, Len(got) + j)
    /\ k < Len(q.items) => q.items[k + 1] = EndOfStream
    /\ k = Len(q.items) => Len(got) + k = sent

OwnInv ==
    /\ OwnChunksInOrder
    /\ q.items # <<>> => q.dirty
    /\ pc = "idle" /\ readable => \A j \in 1..Len(q.items) : q.items[j] = EndOfStream
    /\ pc # "idle" /\ ~consumed => \E k \in 0..Len(q.items) : NextItems(k)

\* Without early or cached answers the sentinel and the flag are real.
EndInv ==
    /\ EndIsReal
    /\ pc = "idle" =>
         ended /\ readable /\ q.items = <<>> /\ ~q.finished /\ ~consumed
    /\ q.finished => ended
    /\ pc # "idle" /\ ~consumed =>
         \A j \in 1..Len(q.items) :
            q.items[j] = EndOfStream => ended /\ Len(got) + j - 1 = sent

-----------------------------------------------------------------------------
(***************************************************************************)
(* Lemmas about the operators the actions are built from.                  *)
(***************************************************************************)

QueueType == StreamQueueType(Items, Msgs)

LEMMA EndOfStreamType == EndOfStream \in Items
  BY BoundsAssumption DEF EndOfStream, Items

LEMMA ChunkType ==
  ASSUME NEW m \in Msgs, NEW i \in 1..MaxChunks
  PROVE  Chunk(m, i) \in Items /\ Chunk(m, i) # EndOfStream
  BY BoundsAssumption DEF Chunk, Items, EndOfStream, Msgs

\* What chunks a segment carries.
LEMMA ChunksProps ==
  ASSUME NEW m \in Msgs, NEW first \in Nat, NEW n \in Nat, first + n <= MaxChunks
  PROVE  /\ Chunks(m, first, n) \in Seq(Items)
         /\ Len(Chunks(m, first, n)) = n
         /\ \A i \in 1..n : Chunks(m, first, n)[i] = Chunk(m, first + i)
         /\ n > 0 => Chunks(m, first, n) # <<>>
         /\ n = 0 => Chunks(m, first, n) = <<>>
<1>1. \A i \in 1..n : Chunk(m, first + i) \in Items
  BY ChunkType, BoundsAssumption
<1>2. Chunks(m, first, n) \in [1..n -> Items]
  BY <1>1 DEF Chunks
<1>3. Chunks(m, first, n) \in Seq(Items)
  BY <1>2, SeqDef
<1>4. Len(Chunks(m, first, n)) = n
  BY <1>2, <1>3, LenProperties
<1>5. \A i \in 1..n : Chunks(m, first, n)[i] = Chunk(m, first + i)
  BY DEF Chunks
<1> QED
  BY <1>3, <1>4, <1>5

LEMMA EventProps ==
  ASSUME NEW e \in Event(Msgs), NEW t \in Msgs
  PROVE  /\ EventSet(e) \in Event(Msgs)
         /\ EventClear(e) \in Event(Msgs)
         /\ EventClear(e).value = FALSE
         /\ EventClear(e).pending = e.pending
         /\ EventClear(e).woken = e.woken
         /\ EventWait(e, t) \in Event(Msgs)
         /\ ~e.value => /\ EventWait(e, t).value = FALSE
                        /\ EventWait(e, t).pending = e.pending \cup {t}
                        /\ EventWait(e, t).woken = e.woken
         /\ EventLeave(e, t) \in Event(Msgs)
         /\ EventLeave(e, t).value = e.value
         /\ EventLeave(e, t).pending = e.pending \ {t}
         /\ EventLeave(e, t).woken = e.woken \ {t}
<1>1. e.pending \cup {t} \in SUBSET Msgs /\ e.pending \ {t} \in SUBSET Msgs
      /\ e.woken \cup {t} \in SUBSET Msgs /\ e.woken \ {t} \in SUBSET Msgs
  BY DEF Event
<1>2. /\ EventLeave(e, t) \in Event(Msgs)
      /\ EventLeave(e, t).value = e.value
      /\ EventLeave(e, t).pending = e.pending \ {t}
      /\ EventLeave(e, t).woken = e.woken \ {t}
  BY <1>1 DEF Event, EventLeave
<1> QED
  BY <1>1, <1>2 DEF Event, EventSet, EventClear, EventWait

LEMMA EventSetTwice ==
  ASSUME NEW e \in Event(Msgs)
  PROVE  EventSet(EventSet(e)) = EventSet(e)
  BY DEF Event, EventSet

\* put(): the items, and a wake-up if somebody waits.
LEMMA PutProps ==
  ASSUME NEW queue \in QueueType, NEW s \in Seq(Items)
  PROVE  /\ Put(queue, s) \in QueueType
         /\ Put(queue, s).items = queue.items \o s
         /\ Put(queue, s).waiting = queue.waiting
         /\ Put(queue, s).finished = queue.finished
         /\ Put(queue, s).dirty = (queue.dirty \/ s # <<>>)
         /\ Put(queue, s).event = IF queue.waiting /\ s # <<>>
                                  THEN EventSet(queue.event) ELSE queue.event
<1>1. queue.items \in Seq(Items) /\ queue.event \in Event(Msgs)
      /\ queue.waiting \in BOOLEAN /\ queue.dirty \in BOOLEAN /\ queue.finished \in BOOLEAN
  BY DEF QueueType, StreamQueueType
<1>2. EventSet(queue.event) \in Event(Msgs)
  BY <1>1 DEF Event, EventSet
<1>3. queue.items \o s \in Seq(Items)
  BY <1>1, ConcatProperties
<1>4. CASE s = <<>>
  <2>1. Put(queue, s) = queue
    BY <1>4 DEF Put
  <2>2. queue.items \o s = queue.items
    BY <1>1, <1>4, ConcatEmptySeq
  <2> QED
    BY <2>1, <2>2, <1>1, <1>4
<1>5. CASE s # <<>>
  <2>1. Put(queue, s) =
          [queue EXCEPT !.items = queue.items \o s, !.dirty = TRUE,
                        !.event = IF queue.waiting THEN EventSet(queue.event)
                                  ELSE queue.event]
    BY <1>5 DEF Put
  <2> QED
    BY <2>1, <1>1, <1>2, <1>3, <1>5 DEF QueueType, StreamQueueType
<1> QED
  BY <1>4, <1>5

\* end(): the sentinel if somebody waits, and the flag.
LEMMA EndProps ==
  ASSUME NEW queue \in QueueType
  PROVE  /\ End(queue) \in QueueType
         /\ End(queue).items = IF queue.waiting THEN queue.items \o <<EndOfStream>>
                               ELSE queue.items
         /\ End(queue).waiting = queue.waiting
         /\ End(queue).finished = TRUE
         /\ End(queue).dirty = (queue.dirty \/ queue.waiting)
         /\ End(queue).event = IF queue.waiting THEN EventSet(queue.event)
                               ELSE queue.event
<1> DEFINE before == IF queue.waiting THEN Put(queue, <<EndOfStream>>) ELSE queue
<1>1. <<EndOfStream>> \in Seq(Items) /\ <<EndOfStream>> # <<>>
  BY EndOfStreamType
<1>2. /\ before \in QueueType
      /\ before.items = IF queue.waiting THEN queue.items \o <<EndOfStream>>
                        ELSE queue.items
      /\ before.waiting = queue.waiting
      /\ before.dirty = (queue.dirty \/ queue.waiting)
      /\ before.event = IF queue.waiting THEN EventSet(queue.event) ELSE queue.event
  <2>1. CASE queue.waiting
    BY <2>1, <1>1, PutProps, Zenon DEF before
  <2>2. CASE ~queue.waiting
    <3>1. before = queue
      BY <2>2 DEF before
    <3>2. queue.dirty \in BOOLEAN /\ queue.waiting \in BOOLEAN
      BY DEF QueueType, StreamQueueType
    <3> QED
      BY <3>1, <3>2, <2>2
  <2> QED
    BY <2>1, <2>2
<1>3. End(queue) = [before EXCEPT !.finished = TRUE]
  BY DEF End, before
<1> HIDE DEF before
<1> QED
  BY <1>2, <1>3 DEF QueueType, StreamQueueType

\* clear(): it empties the queue, as long as items are put by put().
LEMMA ClearProps ==
  ASSUME NEW queue \in QueueType
  PROVE  /\ Clear(queue) \in QueueType
         /\ (queue.items # <<>> => queue.dirty) => Clear(queue).items = <<>>
         /\ Clear(queue).waiting = queue.waiting
         /\ Clear(queue).finished = FALSE
         /\ Clear(queue).dirty = FALSE
         /\ Clear(queue).event = IF queue.dirty THEN EventClear(queue.event)
                                 ELSE queue.event
<1>1. queue.items \in Seq(Items) /\ queue.event \in Event(Msgs)
  BY DEF QueueType, StreamQueueType
<1>2. EventClear(queue.event) \in Event(Msgs)
  BY <1>1 DEF EventClear, Event
<1>3. <<>> \in Seq(Items)
  OBVIOUS
<1> QED
  BY <1>1, <1>2, <1>3 DEF Clear, QueueType, StreamQueueType

\* get(), in its three outcomes.
LEMMA GetRestProps ==
  ASSUME NEW queue \in QueueType
  PROVE  /\ GetRest(queue) \in QueueType
         /\ GetRest(queue).items = IF queue.items = <<>> THEN <<>> ELSE Tail(queue.items)
         /\ GetRest(queue).waiting = queue.waiting
         /\ GetRest(queue).finished = queue.finished
         /\ GetRest(queue).dirty = queue.dirty
         /\ GetRest(queue).event = queue.event
         /\ GetValue(queue) \in Items
<1>1. queue.items \in Seq(Items)
  BY DEF QueueType, StreamQueueType
<1>2. queue.items # <<>> => Tail(queue.items) \in Seq(Items) /\ Head(queue.items) \in Items
  BY <1>1, HeadTailProperties
<1>3. <<>> \in Seq(Items)
  OBVIOUS
<1>4. GetValue(queue) \in Items
  BY <1>2, EndOfStreamType DEF GetValue
<1> QED
  BY <1>1, <1>2, <1>3, <1>4 DEF GetRest, QueueType, StreamQueueType

LEMMA GetWaitProps ==
  ASSUME NEW queue \in QueueType, NEW t \in Msgs
  PROVE  /\ GetWait(queue, t) \in QueueType
         /\ GetWait(queue, t).items = queue.items
         /\ GetWait(queue, t).waiting = TRUE
         /\ GetWait(queue, t).finished = queue.finished
         /\ GetWait(queue, t).dirty = queue.dirty
         /\ GetWait(queue, t).event.value = FALSE
         /\ GetWait(queue, t).event.pending = queue.event.pending \cup {t}
         /\ GetWait(queue, t).event.woken = queue.event.woken
<1> DEFINE c == EventClear(queue.event)
           e == EventWait(c, t)
<1>1. queue.event \in Event(Msgs)
  BY DEF QueueType, StreamQueueType
<1>2. /\ e \in Event(Msgs)
      /\ e.value = FALSE
      /\ e.pending = queue.event.pending \cup {t}
      /\ e.woken = queue.event.woken
  <2>1. /\ c \in Event(Msgs)
        /\ ~c.value
        /\ c.pending = queue.event.pending
        /\ c.woken = queue.event.woken
    BY <1>1, EventProps
  <2> HIDE DEF c
  <2>2. /\ e \in Event(Msgs)
        /\ e.value = FALSE
        /\ e.pending = c.pending \cup {t}
        /\ e.woken = c.woken
    BY <2>1, EventProps, Zenon
  <2> QED
    BY <2>1, <2>2
<1>3. GetWait(queue, t) = [queue EXCEPT !.event = e, !.waiting = TRUE]
  BY DEF GetWait
<1> HIDE DEF e
<1> QED
  BY <1>2, <1>3 DEF QueueType, StreamQueueType

LEMMA GetResumeProps ==
  ASSUME NEW queue \in QueueType, NEW t \in Msgs
  PROVE  /\ GetResume(queue, t) \in QueueType
         /\ GetResume(queue, t).items =
              IF queue.items = <<>> THEN <<>> ELSE Tail(queue.items)
         /\ GetResume(queue, t).waiting = FALSE
         /\ GetResume(queue, t).finished = queue.finished
         /\ GetResume(queue, t).dirty = queue.dirty
         /\ GetResume(queue, t).event.value = FALSE
         /\ GetResume(queue, t).event.pending = queue.event.pending \ {t}
         /\ GetResume(queue, t).event.woken = queue.event.woken \ {t}
<1> DEFINE e == EventClear(EventLeave(queue.event, t))
           rest == IF queue.items = <<>> THEN <<>> ELSE Tail(queue.items)
<1>1. queue.event \in Event(Msgs) /\ queue.items \in Seq(Items)
  BY DEF QueueType, StreamQueueType
<1>2. /\ e \in Event(Msgs)
      /\ e.value = FALSE
      /\ e.pending = queue.event.pending \ {t}
      /\ e.woken = queue.event.woken \ {t}
  BY <1>1, EventProps, ZenonT(60)
<1>3. queue.items # <<>> => Tail(queue.items) \in Seq(Items)
  BY <1>1, HeadTailProperties
<1>4. rest \in Seq(Items)
  BY <1>3
<1>5. GetResume(queue, t) =
        [queue EXCEPT !.event = e, !.waiting = FALSE, !.items = rest]
  BY DEF GetResume, GetFails
<1> HIDE DEF e, rest
<1>6. /\ GetResume(queue, t) \in QueueType
      /\ GetResume(queue, t).items = rest
      /\ GetResume(queue, t).waiting = FALSE
      /\ GetResume(queue, t).finished = queue.finished
      /\ GetResume(queue, t).dirty = queue.dirty
      /\ GetResume(queue, t).event = e
  BY <1>2, <1>4, <1>5 DEF QueueType, StreamQueueType
<1> QED
  BY <1>2, <1>6 DEF rest

LEMMA GetCancelledProps ==
  ASSUME NEW queue \in QueueType, NEW t \in Msgs
  PROVE  /\ GetCancelled(queue, t) \in QueueType
         /\ GetCancelled(queue, t).items = queue.items
         /\ GetCancelled(queue, t).waiting = queue.waiting
         /\ GetCancelled(queue, t).finished = queue.finished
         /\ GetCancelled(queue, t).dirty = queue.dirty
         /\ GetCancelled(queue, t).event = EventLeave(queue.event, t)
<1>1. queue.event \in Event(Msgs)
  BY DEF QueueType, StreamQueueType
<1>2. EventLeave(queue.event, t) \in Event(Msgs)
  BY <1>1 DEF Event, EventLeave
<1> QED
  BY <1>1, <1>2 DEF GetCancelled, QueueType, StreamQueueType

\* What one segment does to the queue.
FedBy(queue, m, first, n, last, fed) ==
    /\ fed \in QueueType
    /\ Len(fed.items) = IF last /\ queue.waiting THEN Len(queue.items) + n + 1
                        ELSE Len(queue.items) + n
    /\ \A j \in 1..Len(queue.items) : fed.items[j] = queue.items[j]
    /\ \A j \in 1..n : fed.items[Len(queue.items) + j] = Chunk(m, first + j)
    /\ last /\ queue.waiting => fed.items[Len(queue.items) + n + 1] = EndOfStream
    /\ fed.waiting = queue.waiting
    /\ fed.finished = (queue.finished \/ last)
    /\ fed.dirty = (queue.dirty \/ n > 0 \/ (last /\ queue.waiting))
    /\ fed.event = IF queue.waiting /\ (n > 0 \/ last)
                   THEN EventSet(queue.event) ELSE queue.event

LEMMA FeedProps ==
  ASSUME NEW queue \in QueueType, NEW m \in Msgs, NEW first \in Nat, NEW n \in Nat,
         first + n <= MaxChunks, NEW last \in BOOLEAN
  PROVE  FedBy(queue, m, first, n, last, Feed(queue, m, first, n, last))
<1> SUFFICES ASSUME NEW fed, fed = Feed(queue, m, first, n, last)
             PROVE  FedBy(queue, m, first, n, last, fed)
  OBVIOUS
<1> USE DEF FedBy
<1> DEFINE s == Chunks(m, first, n)
           old == Len(queue.items)
           mid == Put(queue, s)
<1>1. /\ s \in Seq(Items) /\ Len(s) = n
      /\ \A j \in 1..n : s[j] = Chunk(m, first + j)
      /\ (s # <<>>) = (n > 0)
  BY ChunksProps
<1>2. /\ queue.items \in Seq(Items) /\ queue.event \in Event(Msgs)
      /\ queue.waiting \in BOOLEAN /\ queue.dirty \in BOOLEAN /\ queue.finished \in BOOLEAN
      /\ old \in Nat
  BY LenProperties DEF QueueType, StreamQueueType
<1> HIDE DEF s
<1>3. /\ mid \in QueueType
      /\ mid.items = queue.items \o s
      /\ mid.waiting = queue.waiting
      /\ mid.finished = queue.finished
      /\ mid.dirty = (queue.dirty \/ n > 0)
      /\ mid.event = IF queue.waiting /\ n > 0 THEN EventSet(queue.event)
                     ELSE queue.event
  BY <1>1, PutProps, Zenon
<1> HIDE DEF mid
<1>4. /\ mid.items \in Seq(Items)
      /\ Len(mid.items) = old + n
      /\ \A j \in 1..old : mid.items[j] = queue.items[j]
      /\ \A j \in 1..n : mid.items[old + j] = Chunk(m, first + j)
  <2>1. /\ Len(queue.items \o s) = old + n
        /\ queue.items \o s \in Seq(Items)
        /\ \A i \in 1..(old + n) : (queue.items \o s)[i] =
              IF i <= old THEN queue.items[i] ELSE s[i - old]
    BY <1>1, <1>2, ConcatProperties, ZenonT(60)
  <2>2. \A j \in 1..n : (queue.items \o s)[old + j] = s[j]
    BY <2>1, <1>2, SMTT(60)
  <2> QED
    BY <1>1, <1>2, <1>3, <2>1, <2>2
<1>5. fed = IF last THEN End(mid) ELSE mid
  BY DEF Feed, mid, s
<1>6. CASE ~last
  BY <1>2, <1>3, <1>4, <1>5, <1>6
<1>7. CASE last
  <2>1. /\ End(mid) \in QueueType
        /\ End(mid).items = IF mid.waiting THEN mid.items \o <<EndOfStream>> ELSE mid.items
        /\ End(mid).waiting = mid.waiting
        /\ End(mid).finished = TRUE
        /\ End(mid).dirty = (mid.dirty \/ mid.waiting)
        /\ End(mid).event = IF mid.waiting THEN EventSet(mid.event) ELSE mid.event
    BY <1>3, EndProps
  <2>2. EventSet(EventSet(queue.event)) = EventSet(queue.event)
    BY <1>2, EventSetTwice
  <2>3. CASE ~queue.waiting
    BY <2>1, <2>3, <1>2, <1>3, <1>4, <1>5, <1>7
  <2>4. CASE queue.waiting
    <3>1. /\ mid.items \o <<EndOfStream>> = Append(mid.items, EndOfStream)
          /\ Len(Append(mid.items, EndOfStream)) = old + n + 1
          /\ \A i \in 1..(old + n) : Append(mid.items, EndOfStream)[i] = mid.items[i]
          /\ Append(mid.items, EndOfStream)[old + n + 1] = EndOfStream
      BY <1>4, EndOfStreamType, AppendProperties, AppendIsConcat
    <3>2. /\ \A j \in 1..old : Append(mid.items, EndOfStream)[j] = queue.items[j]
          /\ \A j \in 1..n : Append(mid.items, EndOfStream)[old + j] = Chunk(m, first + j)
      <4>1. /\ \A j \in 1..old : j \in 1..(old + n)
            /\ \A j \in 1..n : old + j \in 1..(old + n)
        BY <1>2
      <4> QED
        BY ONLY <3>1, <4>1, <1>4
    <3>3. End(mid).event = EventSet(queue.event)
      BY <2>1, <2>2, <2>4, <1>3
    <3> QED
      BY <2>1, <2>4, <3>1, <3>2, <3>3, <1>2, <1>3, <1>5, <1>7, ZenonT(60)
  <2> QED
    BY <2>3, <2>4
<1> QED
  BY <1>6, <1>7

-----------------------------------------------------------------------------
(***************************************************************************)
(* Types.                                                                  *)
(***************************************************************************)

LEMMA TypeInit == Init => TypeInv
<1> SUFFICES ASSUME Init PROVE TypeInv
  OBVIOUS
<1>1. NewStreamQueue \in QueueType
  BY DEF NewStreamQueue, NewEvent, QueueType, StreamQueueType, Event
<1>2. <<>> \in Seq(Items)
  OBVIOUS
<1>3. TypeOK
  <2>1. q \in StreamQueueType(Items, Msgs)
    BY <1>1 DEF Init, QueueType
  <2>2. got \in Seq(Items)
    BY <1>2 DEF Init
  <2>3. consumed \in BOOLEAN /\ readable \in BOOLEAN /\ ended \in BOOLEAN
    BY Zenon DEF Init
  <2>4. msg = 0 /\ sent = 0 /\ pc = "idle"
    BY Zenon DEF Init
  <2>5. msg \in 0..MaxMsgs /\ sent \in 0..MaxChunks /\ pc \in PCs
    BY <2>4, BoundsAssumption DEF PCs
  <2> QED
    BY <2>1, <2>2, <2>3, <2>5 DEF TypeOK
<1>4. pc = "idle" /\ ended
  BY DEF Init
<1> QED
  BY <1>3, <1>4 DEF TypeInv

\* The next request's variables, whichever action brings it.
LEMMA TypeNextRequest ==
  ASSUME TypeInv, NEW n \in 0..MaxFeed, NEW last \in BOOLEAN, NextRequest(n, last)
  PROVE  /\ msg' \in Msgs /\ msg' = msg + 1
         /\ sent' \in 0..MaxChunks /\ 0 + n <= MaxChunks
         /\ ended' \in BOOLEAN /\ readable' \in BOOLEAN
         /\ got' \in Seq(Items)
  BY BoundsAssumption DEF TypeInv, TypeOK, NextRequest, Msgs

LEMMA TypeStep == TypeInv /\ [Next]_vars => TypeInv'
<1> SUFFICES ASSUME TypeInv, [Next]_vars PROVE TypeInv'
  OBVIOUS
<1> USE DEF QueueType
<1>0. /\ q \in QueueType /\ consumed \in BOOLEAN /\ readable \in BOOLEAN
      /\ msg \in 0..MaxMsgs /\ sent \in 0..MaxChunks /\ ended \in BOOLEAN
      /\ pc \in PCs /\ got \in Seq(Items)
      /\ pc # "idle" \/ ~ended => msg \in Msgs
  BY DEF TypeInv, TypeOK
<1>1. ASSUME NEW n \in 0..MaxFeed, NEW last \in BOOLEAN, Headers(n, last)
      PROVE  TypeInv'
  <2>1. NextRequest(n, last)
    BY <1>1 DEF Headers
  <2>2. q' \in QueueType
    <3>1. /\ q' = Feed(q, msg + 1, 0, n, last)
          /\ msg + 1 \in Msgs /\ n \in Nat /\ 0 + n <= MaxChunks
      BY <1>1, <2>1, TypeNextRequest, BoundsAssumption DEF Headers
    <3>2. FedBy(q, msg + 1, 0, n, last, q')
      BY <1>0, <3>1, FeedProps
    <3> QED
      BY <3>2 DEF FedBy
  <2> QED
    BY <1>0, <1>1, <2>1, <2>2, TypeNextRequest, BoundsAssumption
    DEF Headers, TypeInv, TypeOK, PCs, Msgs
<1>2. ASSUME NEW n \in 0..MaxFeed, NEW last \in BOOLEAN, HeadersCached(n, last)
      PROVE  TypeInv'
  <2>1. NextRequest(n, last)
    BY <1>2 DEF HeadersCached
  <2>2. Clear(q) \in QueueType
    BY <1>0, ClearProps
  <2>3. q' \in QueueType
    <3>1. /\ q' = Feed(Clear(q), msg + 1, 0, n, last)
          /\ msg + 1 \in Msgs /\ n \in Nat /\ 0 + n <= MaxChunks
      BY <1>2, <2>1, TypeNextRequest, BoundsAssumption DEF HeadersCached
    <3>2. FedBy(Clear(q), msg + 1, 0, n, last, q')
      BY <2>2, <3>1, FeedProps
    <3> QED
      BY <3>2 DEF FedBy
  <2>4. msg' \in Msgs /\ msg' \in 0..MaxMsgs
    BY <2>1, TypeNextRequest, BoundsAssumption DEF Msgs
  <2>5. consumed' \in BOOLEAN /\ pc' \in PCs
    BY <1>0, <1>2 DEF HeadersCached
  <2> QED
    BY <2>1, <2>3, <2>4, <2>5, TypeNextRequest DEF TypeInv, TypeOK
<1>3. ASSUME NEW n \in 0..MaxFeed, NEW last \in BOOLEAN, MoreBody(n, last)
      PROVE  TypeInv'
  <2>1. n \in Nat /\ sent \in Nat /\ sent + n <= MaxChunks
    BY <1>0, <1>3, BoundsAssumption DEF MoreBody
  <2>2. q' \in QueueType
    <3>1. msg \in Msgs /\ q' = Feed(q, msg, sent, n, last)
      BY <1>0, <1>3 DEF MoreBody
    <3>2. FedBy(q, msg, sent, n, last, q')
      BY <1>0, <2>1, <3>1, FeedProps
    <3> QED
      BY <3>2 DEF FedBy
  <2>3. readable' \in BOOLEAN /\ sent' \in 0..MaxChunks /\ ended' \in BOOLEAN
    BY <1>0, <1>3, <2>1, BoundsAssumption DEF MoreBody
  <2>4. msg' \in Msgs
    BY <1>0, <1>3 DEF MoreBody
  <2> QED
    BY <1>0, <1>3, <2>2, <2>3, <2>4 DEF MoreBody, TypeInv, TypeOK
<1>4. ASSUME NEW rest \in 0..MaxFeed, NEW n \in 0..MaxFeed, NEW last \in BOOLEAN,
             Coalesced(rest, n, last)
      PROVE  TypeInv'
  <2>1. /\ n \in Nat /\ rest \in Nat /\ sent \in Nat
        /\ sent + rest <= MaxChunks /\ 0 + n <= MaxChunks
        /\ msg \in Msgs /\ msg + 1 \in Msgs
    BY <1>0, <1>4, BoundsAssumption DEF Coalesced, Msgs
  <2> DEFINE mid == Feed(q, msg, sent, rest, TRUE)
  <2>2. mid \in QueueType
    <3>1. FedBy(q, msg, sent, rest, TRUE, mid)
      BY <1>0, <2>1, FeedProps
    <3> QED
      BY <3>1 DEF FedBy
  <2>3. q' \in QueueType
    <3>1. q' = Feed(mid, msg + 1, 0, n, last)
      BY <1>4 DEF Coalesced
    <3> HIDE DEF mid
    <3>2. FedBy(mid, msg + 1, 0, n, last, q')
      BY <2>1, <2>2, <3>1, FeedProps
    <3> QED
      BY <3>2 DEF FedBy
  <2>4. /\ readable' \in BOOLEAN /\ sent' \in 0..MaxChunks /\ ended' \in BOOLEAN
        /\ msg' \in Msgs /\ msg' \in 0..MaxMsgs
    BY <1>0, <1>4, <2>1, BoundsAssumption DEF Coalesced, Msgs
  <2>5. got' \in Seq(Items) /\ pc' \in PCs
    BY <1>4 DEF Coalesced, PCs
  <2> QED
    BY <1>0, <1>4, <2>3, <2>4, <2>5 DEF Coalesced, TypeInv, TypeOK
<1>5. ASSUME NextChunk PROVE TypeInv'
  <2>1. q' \in QueueType /\ GetValue(q) \in Items
    BY <1>0, <1>5, GetRestProps DEF NextChunk
  <2>2. got' \in Seq(Items) /\ consumed' \in BOOLEAN /\ readable' \in BOOLEAN
    BY <1>0, <1>5, <2>1, AppendProperties DEF NextChunk, Receive
  <2> QED
    BY <1>0, <1>5, <2>1, <2>2 DEF NextChunk, TypeInv, TypeOK
<1>6. ASSUME WaitChunk PROVE TypeInv'
  <2>1. q' \in QueueType
    BY <1>0, <1>6, GetWaitProps DEF WaitChunk
  <2> QED
    BY <1>0, <1>6, <2>1 DEF WaitChunk, TypeInv, TypeOK, PCs
<1>7. ASSUME Wake PROVE TypeInv'
  <2>1. q' \in QueueType
    BY <1>0, <1>7, GetResumeProps DEF Wake
  <2>2. CASE GetFails(q)
    BY <1>0, <1>7, <2>1, <2>2 DEF Wake, TypeInv, TypeOK, PCs
  <2>3. CASE ~GetFails(q)
    <3>1. q.items \in Seq(Items) /\ q.items # <<>>
      BY <1>0, <2>3 DEF GetFails, StreamQueueType
    <3>2. Head(q.items) \in Items
      BY <3>1, HeadTailProperties
    <3>3. got' \in Seq(Items) /\ consumed' \in BOOLEAN /\ readable' \in BOOLEAN
      BY <1>0, <1>7, <2>3, <3>2, AppendProperties DEF Wake, Receive
    <3> QED
      BY <1>0, <1>7, <2>1, <2>3, <3>3 DEF Wake, TypeInv, TypeOK, PCs
  <2> QED
    BY <2>2, <2>3
<1>8. ASSUME GiveUp PROVE TypeInv'
  <2>1. q' \in QueueType
    BY <1>0, <1>8, GetCancelledProps DEF GiveUp
  <2> QED
    BY <1>0, <1>8, <2>1 DEF GiveUp, TypeInv, TypeOK, PCs
<1>9. ASSUME Answer PROVE TypeInv'
  <2>1. q' \in QueueType
    BY <1>0, <1>9, ClearProps DEF Answer
  <2> QED
    BY <1>0, <1>9, <2>1 DEF Answer, TypeInv, TypeOK, PCs
<1>10. CASE UNCHANGED vars
  BY <1>10 DEF TypeInv, TypeOK, vars, StreamQueueType
<1> QED
  BY <1>1, <1>2, <1>3, <1>4, <1>5, <1>6, <1>7, <1>8, <1>9, <1>10
  DEF Next, Handler, NewRequest, Upload, UploadAndNew

\* Every variable keeps its type, whatever the bounds and the environment.
THEOREM TypeCorrect == Spec => []TypeOK
<1>1. TypeInv => TypeOK
  BY DEF TypeInv
<1> QED
  BY <1>1, TypeInit, TypeStep, PTL DEF Spec

-----------------------------------------------------------------------------
(***************************************************************************)
(* Waiters.                                                                *)
(***************************************************************************)

NobodyWaits(queue) == queue.event.pending = {} /\ queue.event.woken = {}

LEMMA EventSetProps ==
  ASSUME NEW e \in Event(Msgs)
  PROVE  /\ EventSet(e).pending = IF e.value THEN e.pending ELSE {}
         /\ EventSet(e).woken = IF e.value THEN e.woken ELSE e.woken \cup e.pending
  BY DEF Event, EventSet

LEMMA NobodyWaitsKept ==
  ASSUME NEW queue \in QueueType, NobodyWaits(queue)
  PROVE  /\ NobodyWaits(Clear(queue))
         /\ NobodyWaits(GetRest(queue))
<1>1. queue.event \in Event(Msgs)
  BY DEF QueueType, StreamQueueType
<1>2. EventClear(queue.event).pending = {} /\ EventClear(queue.event).woken = {}
  BY <1>1 DEF Event, EventClear, NobodyWaits
<1> QED
  BY <1>2, ClearProps, GetRestProps DEF NobodyWaits

LEMMA NobodyWaitsFed ==
  ASSUME NEW queue \in QueueType, NEW m, NEW first, NEW n, NEW last, NEW fed,
         NobodyWaits(queue), FedBy(queue, m, first, n, last, fed)
  PROVE  NobodyWaits(fed)
<1>1. queue.event \in Event(Msgs)
  BY DEF QueueType, StreamQueueType
<1>2. EventSet(queue.event).pending = {} /\ EventSet(queue.event).woken = {}
  BY <1>1, EventSetProps DEF NobodyWaits
<1> QED
  BY <1>2 DEF NobodyWaits, FedBy

LEMMA WaiterInit == Init => WaiterInv
  BY DEF Init, WaiterInv, NewStreamQueue, NewEvent

LEMMA WaiterStep == TypeInv /\ WaiterInv /\ [Next]_vars => WaiterInv'
<1> SUFFICES ASSUME TypeInv, WaiterInv, [Next]_vars PROVE WaiterInv'
  OBVIOUS
<1>0. /\ q \in QueueType /\ q' \in QueueType
      /\ consumed \in BOOLEAN /\ readable \in BOOLEAN
      /\ msg \in 0..MaxMsgs /\ sent \in 0..MaxChunks /\ ended \in BOOLEAN
      /\ pc \in PCs /\ pc # "broken"
      /\ pc # "idle" \/ ~ended => msg \in Msgs
      /\ pc # "waiting" => NobodyWaits(q)
  BY TypeStep DEF TypeInv, TypeOK, QueueType, WaiterInv, NobodyWaits
\* It is enough that nobody waits, and that a handler that runs knows of the end.
<1>a. ASSUME NobodyWaits(q'), pc' \in {"idle", "code", "gone"},
             pc' = "code" /\ ended' => q'.finished
      PROVE  WaiterInv'
  BY <1>a DEF WaiterInv, NobodyWaits
<1>1. ASSUME NEW n \in 0..MaxFeed, NEW last \in BOOLEAN, Headers(n, last)
      PROVE  WaiterInv'
  <2>1. /\ msg + 1 \in Msgs /\ n \in Nat /\ 0 + n <= MaxChunks
        /\ q' = Feed(q, msg + 1, 0, n, last)
        /\ pc = "idle" /\ pc' = "code" /\ ended' = last
    BY <1>0, <1>1, TypeNextRequest, BoundsAssumption DEF Headers, NextRequest, Msgs
  <2>2. FedBy(q, msg + 1, 0, n, last, q')
    BY <1>0, <2>1, FeedProps
  <2>3. NobodyWaits(q')
    BY <1>0, <2>1, <2>2, NobodyWaitsFed
  <2>4. last => q'.finished
    BY <2>2 DEF FedBy
  <2> QED
    BY <1>a, <2>1, <2>3, <2>4
<1>2. ASSUME NEW n \in 0..MaxFeed, NEW last \in BOOLEAN, HeadersCached(n, last)
      PROVE  WaiterInv'
  <2>1. /\ msg + 1 \in Msgs /\ n \in Nat /\ 0 + n <= MaxChunks
        /\ q' = Feed(Clear(q), msg + 1, 0, n, last)
        /\ pc = "idle" /\ pc' = "idle"
    BY <1>0, <1>2, TypeNextRequest, BoundsAssumption DEF HeadersCached, NextRequest, Msgs
  <2>2. Clear(q) \in QueueType /\ NobodyWaits(Clear(q))
    BY <1>0, <2>1, NobodyWaitsKept, ClearProps
  <2>3. FedBy(Clear(q), msg + 1, 0, n, last, q')
    BY <2>1, <2>2, FeedProps
  <2>4. NobodyWaits(q')
    BY <2>2, <2>3, NobodyWaitsFed
  <2> QED
    BY <1>a, <2>1, <2>4
<1>3. ASSUME NEW n \in 0..MaxFeed, NEW last \in BOOLEAN, MoreBody(n, last)
      PROVE  WaiterInv'
  <2>1. /\ msg \in Msgs /\ n \in Nat /\ sent \in Nat /\ sent + n <= MaxChunks
        /\ q' = Feed(q, msg, sent, n, last)
        /\ n > 0 \/ last
        /\ ended' = last /\ pc' = pc /\ msg' = msg /\ consumed' = consumed
    BY <1>0, <1>3, BoundsAssumption DEF MoreBody
  <2>0. FedBy(q, msg, sent, n, last, q')
    BY <1>0, <2>1, FeedProps
  <2>2. last => q'.finished
    BY <2>0 DEF FedBy
  <2>3. CASE pc # "waiting"
    <3>1. NobodyWaits(q')
      BY <1>0, <2>0, <2>3, NobodyWaitsFed
    <3> QED
      BY <1>0, <1>a, <2>1, <2>2, <2>3, <3>1 DEF PCs
  <2>4. CASE pc = "waiting"
    <3>1. /\ q.waiting /\ ~consumed
          /\ \/ q.event.pending = {msg} /\ q.event.woken = {} /\ ~q.event.value
             \/ q.event.pending = {} /\ q.event.woken = {msg}
      BY <2>4 DEF WaiterInv
    <3>2. q'.event = EventSet(q.event) /\ q'.waiting
      BY <2>0, <2>1, <3>1 DEF FedBy
    <3>3. q'.event.pending = {} /\ q'.event.woken = {msg}
      <4>1. q.event \in Event(Msgs)
        BY <1>0 DEF QueueType, StreamQueueType
      <4>2. /\ EventSet(q.event).pending = IF q.event.value THEN q.event.pending ELSE {}
            /\ EventSet(q.event).woken = IF q.event.value THEN q.event.woken
                                         ELSE q.event.woken \cup q.event.pending
        BY <4>1, EventSetProps, Zenon
      <4> QED
        BY <4>2, <3>1, <3>2
    <3>4. q'.items # <<>>
      <4>1. Len(q'.items) = IF last /\ q.waiting THEN Len(q.items) + n + 1
                            ELSE Len(q.items) + n
        BY <2>0 DEF FedBy
      <4>2. Len(q.items) \in Nat
        BY <1>0, LenProperties DEF QueueType, StreamQueueType
      <4> QED
        BY <4>1, <4>2, <2>1, <3>1
    <3> QED
      BY <2>1, <2>2, <2>4, <3>1, <3>2, <3>3, <3>4 DEF WaiterInv
  <2> QED
    BY <2>3, <2>4
<1>4. ASSUME NEW rest \in 0..MaxFeed, NEW n \in 0..MaxFeed, NEW last \in BOOLEAN,
             Coalesced(rest, n, last)
      PROVE  WaiterInv'
  <2> DEFINE mid == Feed(q, msg, sent, rest, TRUE)
  <2>1. /\ n \in Nat /\ rest \in Nat /\ sent \in Nat
        /\ sent + rest <= MaxChunks /\ 0 + n <= MaxChunks
        /\ msg \in Msgs /\ msg + 1 \in Msgs
        /\ q' = Feed(mid, msg + 1, 0, n, last)
        /\ pc = "idle" /\ pc' = "code" /\ ended' = last
    BY <1>0, <1>4, BoundsAssumption DEF Coalesced, Msgs
  <2>2. mid \in QueueType /\ NobodyWaits(mid)
    <3>1. FedBy(q, msg, sent, rest, TRUE, mid)
      BY <1>0, <2>1, FeedProps
    <3>2. NobodyWaits(mid)
      BY <1>0, <2>1, <3>1, NobodyWaitsFed
    <3> QED
      BY <3>1, <3>2 DEF FedBy
  <2> HIDE DEF mid
  <2>3. FedBy(mid, msg + 1, 0, n, last, q')
    BY <2>1, <2>2, FeedProps
  <2>4. NobodyWaits(q')
    BY <2>2, <2>3, NobodyWaitsFed
  <2>5. last => q'.finished
    BY <2>3 DEF FedBy
  <2> QED
    BY <1>a, <2>1, <2>4, <2>5
<1>5. ASSUME NextChunk PROVE WaiterInv'
  <2>1. /\ q' = GetRest(q) /\ pc = "code" /\ pc' = "code" /\ ended' = ended
    BY <1>5 DEF NextChunk
  <2>2. q'.finished = q.finished
    BY <1>0, <2>1, GetRestProps
  <2>3. NobodyWaits(q')
    BY <1>0, <2>1, NobodyWaitsKept DEF NobodyWaits
  <2> QED
    BY <1>a, <2>1, <2>2, <2>3 DEF WaiterInv
<1>6. ASSUME WaitChunk PROVE WaiterInv'
  <2>1. /\ q' = GetWait(q, msg) /\ pc = "code" /\ pc' = "waiting"
        /\ ended' = ended /\ msg' = msg /\ consumed' = consumed /\ ~consumed
        /\ readable' = TRUE /\ q.items = <<>> /\ ~q.finished
    BY <1>6 DEF WaitChunk, GetReturns
  <2>2. /\ q'.items = <<>> /\ q'.waiting /\ ~q'.event.value
        /\ q'.event.pending = {msg} /\ q'.event.woken = {}
    <3>1. msg \in Msgs /\ q.event.pending = {} /\ q.event.woken = {}
      BY <1>0, <2>1 DEF NobodyWaits
    <3>2. q \in QueueType /\ q' = GetWait(q, msg)
      BY <1>0, <2>1
    <3>3. /\ q'.items = q.items /\ q'.waiting = TRUE /\ q'.event.value = FALSE
          /\ q'.event.pending = q.event.pending \cup {msg}
          /\ q'.event.woken = q.event.woken
      BY ONLY <3>1, <3>2, GetWaitProps
    <3> QED
      BY <2>1, <3>1, <3>3
  <2>3. ~ended
    BY <2>1 DEF WaiterInv
  <2> QED
    BY <2>1, <2>2, <2>3 DEF WaiterInv
<1>7. ASSUME Wake PROVE WaiterInv'
  <2>1. /\ q' = GetResume(q, msg) /\ pc = "waiting" /\ msg \in q.event.woken
        /\ ended' = ended
    BY <1>7 DEF Wake
  <2>2. q.event.pending = {} /\ q.event.woken = {msg} /\ q.items # <<>>
    BY <2>1 DEF WaiterInv
  <2>3. pc' = "code"
    BY <1>7, <2>2 DEF Wake, GetFails
  <2>4. NobodyWaits(q') /\ q'.finished = q.finished
    <3>1. msg \in Msgs
      BY <1>0, <2>1
    <3>2. /\ q'.finished = q.finished
          /\ q'.event.pending = q.event.pending \ {msg}
          /\ q'.event.woken = q.event.woken \ {msg}
      BY <1>0, <2>1, <3>1, GetResumeProps, ZenonT(60)
    <3> QED
      BY <2>2, <3>2 DEF NobodyWaits
  <2> QED
    BY <1>a, <2>1, <2>3, <2>4 DEF WaiterInv
<1>8. ASSUME GiveUp PROVE WaiterInv'
  <2>1. q' = GetCancelled(q, msg) /\ pc \in {"code", "waiting"} /\ pc' = "gone"
    BY <1>8 DEF GiveUp
  <2>2. q'.event.pending = q.event.pending \ {msg} /\ q'.event.woken = q.event.woken \ {msg}
    <3>1. msg \in Msgs /\ q.event \in Event(Msgs)
      BY <1>0, <2>1 DEF QueueType, StreamQueueType
    <3>2. q'.event = EventLeave(q.event, msg)
      BY <1>0, <2>1, <3>1, GetCancelledProps
    <3>3. /\ EventLeave(q.event, msg).pending = q.event.pending \ {msg}
          /\ EventLeave(q.event, msg).woken = q.event.woken \ {msg}
      BY <3>1, EventProps, Zenon
    <3> QED
      BY <3>2, <3>3
  <2>3. q.event.pending \subseteq {msg} /\ q.event.woken \subseteq {msg}
    BY <2>1 DEF WaiterInv
  <2> QED
    BY <1>a, <2>1, <2>2, <2>3 DEF NobodyWaits
<1>9. ASSUME Answer PROVE WaiterInv'
  <2>1. q' = Clear(q) /\ pc # "waiting" /\ pc' = "idle"
    BY <1>9 DEF Answer
  <2>2. NobodyWaits(q')
    BY <1>0, <2>1, NobodyWaitsKept DEF NobodyWaits
  <2> QED
    BY <1>a, <2>1, <2>2
<1>10. CASE UNCHANGED vars
  BY <1>10 DEF WaiterInv, vars
<1> QED
  BY <1>1, <1>2, <1>3, <1>4, <1>5, <1>6, <1>7, <1>8, <1>9, <1>10
  DEF Next, Handler, NewRequest, Upload, UploadAndNew

LEMMA WaiterInvariant == Spec => [](TypeInv /\ WaiterInv)
  BY TypeInit, TypeStep, WaiterInit, WaiterStep, PTL DEF Spec

\* A consumer suspended in get() always has a wake-up ahead of it, and finds
\* an item when it comes, whatever answers, segments and cached responses do.
THEOREM Waiters == Spec => []WaiterIsServed
<1>1. TypeInv /\ WaiterInv => WaiterIsServed
  BY DEF WaiterInv, WaiterIsServed
<1> QED
  BY <1>1, WaiterInvariant, PTL

-----------------------------------------------------------------------------
(***************************************************************************)
(* A handler's own chunks.                                                 *)
(***************************************************************************)

\* What the steps below use of the invariants proved so far.
LEMMA Facts ==
  ASSUME TypeInv, WaiterInv, [Next]_vars
  PROVE  /\ q \in QueueType /\ q' \in QueueType
         /\ q.items \in Seq(Items) /\ Len(q.items) \in Nat
         /\ q'.items \in Seq(Items) /\ Len(q'.items) \in Nat
         /\ got \in Seq(Items) /\ Len(got) \in Nat
         /\ got' \in Seq(Items) /\ Len(got') \in Nat
         /\ msg \in 0..MaxMsgs /\ sent \in 0..MaxChunks
         /\ sent \in Nat /\ msg \in Nat
         /\ pc # "idle" \/ ~ended => msg \in Msgs
         /\ pc \in PCs /\ pc # "broken"
<1>1. q \in QueueType /\ q' \in QueueType /\ got \in Seq(Items) /\ got' \in Seq(Items)
  BY TypeStep DEF TypeInv, TypeOK, QueueType
<1>2. q.items \in Seq(Items) /\ q'.items \in Seq(Items)
  BY <1>1 DEF QueueType, StreamQueueType
<1>3. /\ Len(q.items) \in Nat /\ Len(q'.items) \in Nat
      /\ Len(got) \in Nat /\ Len(got') \in Nat
  BY <1>1, <1>2, LenProperties
<1>4. /\ msg \in 0..MaxMsgs /\ sent \in 0..MaxChunks
      /\ sent \in Nat /\ msg \in Nat
      /\ pc # "idle" \/ ~ended => msg \in Msgs
      /\ pc \in PCs /\ pc # "broken"
  BY BoundsAssumption DEF TypeInv, TypeOK, WaiterInv
<1> QED
  BY <1>1, <1>2, <1>3, <1>4

LEMMA ChunkIsNotTheEnd ==
  ASSUME NEW m \in Msgs, NEW i
  PROVE  Chunk(m, i) # EndOfStream
  BY BoundsAssumption DEF Chunk, EndOfStream, Msgs

LEMMA OwnInit == Init => OwnInv
  BY DEF Init, OwnInv, OwnChunksInOrder, NewStreamQueue

\* get() hands over the first item: __aiter__ in NextChunk and in Wake.
LEMMA OwnTake ==
  ASSUME TypeInv, WaiterInv, OwnInv, [Next]_vars,
         pc # "idle", ~consumed, q.items # <<>>,
         q'.items = Tail(q.items), q'.dirty = q.dirty, Receive(Head(q.items)),
         msg' = msg, sent' = sent, pc' = "code"
  PROVE  OwnInv'
<1>0. PICK k \in 0..Len(q.items) : NextItems(k)
  BY DEF OwnInv
<1>1. /\ q.items \in Seq(Items) /\ Len(q.items) \in Nat /\ Len(q.items) > 0
      /\ got \in Seq(Items) /\ Len(got) \in Nat /\ sent \in Nat
      /\ msg \in Msgs
  <2>1. /\ q.items \in Seq(Items) /\ got \in Seq(Items) /\ Len(got) \in Nat
        /\ Len(q.items) \in Nat /\ sent \in Nat /\ msg \in Msgs
    BY Facts
  <2> QED
    BY <2>1
<1>2. /\ Head(q.items) = q.items[1] /\ Head(q.items) \in Items
      /\ Len(q'.items) = Len(q.items) - 1
      /\ \A j \in 1..Len(q'.items) : q'.items[j] = q.items[j + 1]
  BY <1>1, HeadTailProperties
<1>3. q'.items # <<>> => q'.dirty
  BY DEF OwnInv
<1>4. CASE k = 0
  <2>1. Head(q.items) = EndOfStream
    BY <1>0, <1>1, <1>2, <1>4 DEF NextItems
  <2>2. consumed' /\ got' = got
    BY <2>1 DEF Receive
  <2> QED
    BY <1>3, <2>2 DEF OwnInv, OwnChunksInOrder
<1>5. CASE k > 0
  <2>1. Head(q.items) = Chunk(msg, Len(got) + 1)
    BY <1>0, <1>1, <1>2, <1>5 DEF NextItems
  <2>2. Head(q.items) # EndOfStream
    BY <2>1, <1>1, ChunkIsNotTheEnd
  <2>3. ~consumed' /\ got' = Append(got, Head(q.items))
    BY <2>2 DEF Receive
  <2>4. /\ Len(got') = Len(got) + 1
        /\ \A i \in 1..Len(got) : got'[i] = got[i]
        /\ got'[Len(got) + 1] = Head(q.items)
    BY <2>3, <1>1, <1>2, AppendProperties
  <2>5. OwnChunksInOrder'
    <3>1. \A i \in 1..Len(got) : got[i] = Chunk(msg, i)
      BY DEF OwnInv, OwnChunksInOrder
    <3> QED
      BY <3>1, <2>1, <2>4, <1>1 DEF OwnChunksInOrder
  <2>6. k - 1 \in 0..Len(q'.items) /\ NextItems(k - 1)'
    <3>1. k - 1 \in 0..Len(q'.items)
      BY <1>0, <1>1, <1>2, <1>5
    <3>2. \A j \in 1..(k - 1) : q'.items[j] = Chunk(msg', Len(got') + j)
      <4>1. SUFFICES ASSUME NEW j \in 1..(k - 1)
                     PROVE  q'.items[j] = Chunk(msg, Len(got') + j)
        OBVIOUS
      <4>2. q'.items[j] = q.items[j + 1] /\ j + 1 \in 1..k
        BY <1>0, <1>1, <1>2
      <4>3. q.items[j + 1] = Chunk(msg, Len(got) + (j + 1))
        BY <1>0, <4>2 DEF NextItems
      <4>4. Len(got) + (j + 1) = Len(got') + j
        BY <1>1, <2>4
      <4> QED
        BY <4>2, <4>3, <4>4
    <3>3. k - 1 < Len(q'.items) => q'.items[k - 1 + 1] = EndOfStream
      <4>1. SUFFICES ASSUME k - 1 < Len(q'.items)
                     PROVE  q'.items[k] = EndOfStream
        <5>1. k - 1 + 1 = k
          BY <1>0, <1>1
        <5> QED
          BY <5>1
      <4>2. k < Len(q.items) /\ k \in 1..Len(q'.items)
        BY <1>0, <1>1, <1>2, <1>5, <4>1
      <4>3. q'.items[k] = q.items[k + 1]
        BY <1>2, <4>2
      <4> QED
        BY <1>0, <4>2, <4>3 DEF NextItems
    <3>4. k - 1 = Len(q'.items) => Len(got') + (k - 1) = sent'
      <4>1. SUFFICES ASSUME k - 1 = Len(q'.items)
                     PROVE  Len(got') + (k - 1) = sent
        OBVIOUS
      <4>2. k = Len(q.items)
        BY <4>1, <1>0, <1>1, <1>2
      <4>3. Len(got) + k = sent
        BY <1>0, <4>2 DEF NextItems
      <4> QED
        BY <4>3, <1>0, <1>1, <2>4
    <3> QED
      BY <3>1, <3>2, <3>3, <3>4 DEF NextItems
  <2> QED
    BY <1>3, <2>5, <2>6 DEF OwnInv
<1> QED
  BY <1>0, <1>4, <1>5

\* on_headers_complete: what is queued when a request begins is at most a
\* sentinel, and the new chunks follow it.
LEMMA OwnHeaders ==
  ASSUME TypeInv, WaiterInv, OwnInv, [Next]_vars,
         NEW n \in 0..MaxFeed, NEW last \in BOOLEAN, Headers(n, last)
  PROVE  OwnInv'
<1>1. /\ q.items \in Seq(Items) /\ Len(q.items) \in Nat /\ q \in QueueType
      /\ n \in Nat /\ msg + 1 \in Msgs /\ 0 + n <= MaxChunks
  BY Facts, BoundsAssumption DEF Headers, NextRequest, Msgs
<1>2. /\ q' = Feed(q, msg + 1, 0, n, last)
      /\ msg' = msg + 1 /\ sent' = n /\ got' = <<>> /\ pc' = "code"
      /\ pc = "idle" /\ readable
  BY DEF Headers, NextRequest
<1>3. FedBy(q, msg + 1, 0, n, last, q')
  BY <1>1, <1>2, FeedProps
<1>4. /\ \A j \in 1..Len(q.items) : q.items[j] = EndOfStream
      /\ q.items # <<>> => q.dirty
  BY <1>2 DEF OwnInv
<1>5. OwnChunksInOrder'
  BY <1>2 DEF OwnChunksInOrder
<1>6. q'.items # <<>> => q'.dirty
  <2>1. CASE q.items # <<>>
    BY <2>1, <1>3, <1>4 DEF FedBy
  <2>2. CASE q.items = <<>> /\ (n > 0 \/ (last /\ q.waiting))
    BY <2>2, <1>3 DEF FedBy
  <2>3. CASE q.items = <<>> /\ n = 0 /\ ~(last /\ q.waiting)
    <3>1. Len(q'.items) = 0
      BY <2>3, <1>3 DEF FedBy
    <3>2. q'.items \in Seq(Items)
      BY Facts
    <3> QED
      BY <3>1, <3>2, EmptySeq
  <2> QED
    BY <2>1, <2>2, <2>3, <1>1
<1>7. \E k \in 0..Len(q'.items) : NextItems(k)'
  <2>1. CASE Len(q.items) = 0
    <3>1. /\ \A j \in 1..n : q'.items[j] = Chunk(msg', Len(got') + j)
          /\ Len(q'.items) \in {n, n + 1}
          /\ n < Len(q'.items) => q'.items[n + 1] = EndOfStream
      <4>1. /\ Len(q'.items) = IF last /\ q.waiting THEN 0 + n + 1 ELSE 0 + n
            /\ \A j \in 1..n : q'.items[0 + j] = Chunk(msg + 1, 0 + j)
            /\ last /\ q.waiting => q'.items[0 + n + 1] = EndOfStream
        BY <1>3, <2>1 DEF FedBy
      <4> QED
        BY <4>1, <1>1, <1>2
    <3>2. n \in 0..Len(q'.items)
      BY <3>1, <1>1
    <3>3. NextItems(n)'
      BY <3>1, <1>1, <1>2 DEF NextItems
    <3> QED
      BY <3>2, <3>3
  <2>2. CASE Len(q.items) > 0
    <3>1. q'.items[1] = EndOfStream
      <4>1. 1 \in 1..Len(q.items)
        BY <1>1, <2>2
      <4>2. q'.items[1] = q.items[1]
        BY <4>1, <1>3 DEF FedBy
      <4> QED
        BY <4>1, <4>2, <1>4
    <3>2. Len(q'.items) > 0 /\ Len(q'.items) \in Nat
      BY <1>1, <1>3, <2>2 DEF FedBy
    <3>3. NextItems(0)'
      BY <3>1, <3>2 DEF NextItems
    <3> QED
      BY <3>2, <3>3
  <2> QED
    BY <2>1, <2>2, <1>1
<1> QED
  BY <1>2, <1>5, <1>6, <1>7 DEF OwnInv

\* on_body and on_message_complete within a request.
LEMMA OwnMoreBody ==
  ASSUME TypeInv, WaiterInv, OwnInv, [Next]_vars,
         NEW n \in 0..MaxFeed, NEW last \in BOOLEAN, MoreBody(n, last)
  PROVE  OwnInv'
<1>1. /\ q.items \in Seq(Items) /\ Len(q.items) \in Nat /\ q \in QueueType
      /\ n \in Nat /\ sent \in Nat /\ msg \in Msgs /\ sent + n <= MaxChunks
      /\ Len(got) \in Nat
  BY Facts, BoundsAssumption DEF MoreBody
<1>2. /\ q' = Feed(q, msg, sent, n, last)
      /\ msg' = msg /\ sent' = sent + n /\ got' = got /\ pc' = pc
      /\ consumed' = consumed /\ readable /\ readable' = (n = 0)
  BY DEF MoreBody
<1>3. FedBy(q, msg, sent, n, last, q')
  BY <1>1, <1>2, FeedProps
<1>4. OwnChunksInOrder'
  BY <1>2 DEF OwnInv, OwnChunksInOrder
<1>5. q'.items # <<>> => q'.dirty
  <2>1. CASE q.items # <<>>
    <3>1. q.dirty
      BY <2>1 DEF OwnInv
    <3> QED
      BY <3>1, <1>3 DEF FedBy
  <2>2. CASE q.items = <<>> /\ (n > 0 \/ (last /\ q.waiting))
    BY <2>2, <1>3 DEF FedBy
  <2>3. CASE q.items = <<>> /\ n = 0 /\ ~(last /\ q.waiting)
    <3>1. Len(q'.items) = 0
      BY <2>3, <1>3 DEF FedBy
    <3>2. q'.items \in Seq(Items)
      BY Facts
    <3> QED
      BY <3>1, <3>2, EmptySeq
  <2> QED
    BY <2>1, <2>2, <2>3, <1>1
<1>6. ASSUME pc = "idle", n = 0
      PROVE  \A j \in 1..Len(q'.items) : q'.items[j] = EndOfStream
  <2>1. \A j \in 1..Len(q.items) : q.items[j] = EndOfStream
    BY <1>2, <1>6 DEF OwnInv
  <2>2. /\ Len(q'.items) = IF last /\ q.waiting THEN Len(q.items) + 1 ELSE Len(q.items)
        /\ \A j \in 1..Len(q.items) : q'.items[j] = q.items[j]
        /\ last /\ q.waiting => q'.items[Len(q.items) + 1] = EndOfStream
    <3>1. Len(q.items) + n = Len(q.items)
      BY <1>1, <1>6
    <3> QED
      BY <1>3, <3>1 DEF FedBy
  <2> QED
    BY <2>1, <2>2, <1>1, SMTT(60)
<1>7. ASSUME pc # "idle", ~consumed
      PROVE  \E k \in 0..Len(q'.items) : NextItems(k)'
  <2>1. PICK k \in 0..Len(q.items) : NextItems(k)
    BY <1>7 DEF OwnInv
  <2>2. /\ \A j \in 1..k : q.items[j] = Chunk(msg, Len(got) + j)
        /\ k < Len(q.items) => q.items[k + 1] = EndOfStream
        /\ k = Len(q.items) => Len(got) + k = sent
    BY <2>1 DEF NextItems
  <2>3. /\ Len(q'.items) = IF last /\ q.waiting THEN Len(q.items) + n + 1
                           ELSE Len(q.items) + n
        /\ \A j \in 1..Len(q.items) : q'.items[j] = q.items[j]
        /\ \A j \in 1..n : q'.items[Len(q.items) + j] = Chunk(msg, sent + j)
        /\ last /\ q.waiting => q'.items[Len(q.items) + n + 1] = EndOfStream
    BY <1>3 DEF FedBy
  <2>4. CASE k < Len(q.items)
    <3>1. \A j \in 1..(k + 1) : q'.items[j] = q.items[j]
      BY <2>1, <2>3, <2>4, <1>1, SMTT(60)
    <3>2. /\ \A j \in 1..k : q'.items[j] = Chunk(msg', Len(got') + j)
          /\ q'.items[k + 1] = EndOfStream
      <4>1. k \in Nat /\ q'.items[k + 1] = q.items[k + 1]
        BY <3>1, <2>1, <1>1
      <4>2. \A j \in 1..k : q'.items[j] = q.items[j]
        BY <3>1, <4>1
      <4> QED
        BY <4>1, <4>2, <2>2, <2>4, <1>2
    <3>3. k \in 0..Len(q'.items) /\ k # Len(q'.items)
      BY <2>1, <2>3, <2>4, <1>1, SMTT(60)
    <3> QED
      BY <3>2, <3>3 DEF NextItems
  <2>5. CASE k = Len(q.items)
    <3>1. k + n \in 0..Len(q'.items) /\ k \in Nat
      BY <2>3, <2>5, <1>1
    <3>2. \A j \in 1..(k + n) : q'.items[j] = Chunk(msg', Len(got') + j)
      <4>1. \A j \in 1..k : q'.items[j] = Chunk(msg, Len(got) + j)
        BY <2>2, <2>3, <2>5
      <4>2. \A j \in 1..n : q'.items[k + j] = Chunk(msg, Len(got) + (k + j))
        <5>1. \A j \in 1..n : sent + j = Len(got) + (k + j)
          <6>1. Len(got) + k = sent
            BY <2>2, <2>5
          <6> QED
            BY <6>1, <3>1, <1>1
        <5> QED
          BY <5>1, <2>3, <2>5
      <4>3. SUFFICES ASSUME NEW j \in 1..(k + n)
                     PROVE  q'.items[j] = Chunk(msg, Len(got) + j)
        BY <1>2
      <4>4. CASE j <= k
        BY <4>1, <4>4, <3>1
      <4>5. CASE j > k
        <5>1. j - k \in 1..n /\ k + (j - k) = j
          BY <4>5, <3>1, <1>1
        <5> QED
          BY <4>2, <5>1
      <4> QED
        BY <4>4, <4>5, <3>1, <1>1
    <3>3. k + n < Len(q'.items) => q'.items[k + n + 1] = EndOfStream
      BY <2>3, <2>5, <1>1
    <3>4. Len(got') + (k + n) = sent'
      BY <2>2, <2>5, <1>1, <1>2
    <3>5. NextItems(k + n)'
      BY <3>2, <3>3, <3>4 DEF NextItems
    <3> QED
      BY <3>1, <3>5
  <2> QED
    BY <2>1, <2>4, <2>5, <1>1
<1> QED
  BY <1>2, <1>4, <1>5, <1>6, <1>7 DEF OwnInv

\* The response comes from the cache, before the body: the queue was cleared.
LEMMA OwnHeadersCached ==
  ASSUME TypeInv, WaiterInv, OwnInv, [Next]_vars,
         NEW n \in 0..MaxFeed, NEW last \in BOOLEAN, HeadersCached(n, last)
  PROVE  OwnInv'
<1> DEFINE c == Clear(q)
<1>1. /\ q \in QueueType /\ n \in Nat /\ msg + 1 \in Msgs /\ 0 + n <= MaxChunks
      /\ q'.items \in Seq(Items)
  BY Facts, BoundsAssumption DEF HeadersCached, NextRequest, Msgs
<1>2. /\ q' = Feed(c, msg + 1, 0, n, last)
      /\ got' = <<>> /\ pc' = "idle" /\ readable' = (n = 0)
  BY DEF HeadersCached, NextRequest
<1>3. q.items # <<>> => q.dirty
  BY DEF OwnInv
<1>4. c \in QueueType /\ c.items = <<>> /\ c.dirty = FALSE
  BY <1>1, <1>3, ClearProps
<1> HIDE DEF c
<1>5. FedBy(c, msg + 1, 0, n, last, q')
  BY <1>1, <1>2, <1>4, FeedProps
<1>6. /\ Len(q'.items) = IF last /\ c.waiting THEN n + 1 ELSE n
      /\ last /\ c.waiting => q'.items[n + 1] = EndOfStream
      /\ q'.dirty = (n > 0 \/ (last /\ c.waiting))
  <2>1. Len(c.items) = 0 /\ 0 + n = n
    BY <1>1, <1>4
  <2> QED
    BY <1>4, <1>5, <2>1 DEF FedBy
<1>7. OwnChunksInOrder'
  BY <1>2 DEF OwnChunksInOrder
<1>8. q'.items # <<>> => q'.dirty
  <2>1. CASE n > 0 \/ (last /\ c.waiting)
    BY <1>6, <2>1
  <2>2. CASE n = 0 /\ ~(last /\ c.waiting)
    BY <1>1, <1>6, <2>2, EmptySeq
  <2> QED
    BY <1>1, <2>1, <2>2
<1>9. readable' => \A j \in 1..Len(q'.items) : q'.items[j] = EndOfStream
  <2>1. SUFFICES ASSUME n = 0
                 PROVE  \A j \in 1..Len(q'.items) : q'.items[j] = EndOfStream
    BY <1>2
  <2> QED
    BY <1>6, <2>1
<1> QED
  BY <1>2, <1>7, <1>8, <1>9 DEF OwnInv

LEMMA OwnStep ==
  ASSUME "coalesced" \notin Behaviours
  PROVE  TypeInv /\ WaiterInv /\ OwnInv /\ [Next]_vars => OwnInv'
<1> SUFFICES ASSUME TypeInv, WaiterInv, OwnInv, [Next]_vars PROVE OwnInv'
  OBVIOUS
<1>0. q \in QueueType /\ pc # "broken" /\ (pc # "idle" => msg \in Msgs)
  BY Facts
<1>1. ASSUME NEW n \in 0..MaxFeed, NEW last \in BOOLEAN, Headers(n, last)
      PROVE  OwnInv'
  BY <1>1, OwnHeaders
<1>2. ASSUME NEW n \in 0..MaxFeed, NEW last \in BOOLEAN, HeadersCached(n, last)
      PROVE  OwnInv'
  BY <1>2, OwnHeadersCached
<1>3. ASSUME NEW n \in 0..MaxFeed, NEW last \in BOOLEAN, MoreBody(n, last)
      PROVE  OwnInv'
  BY <1>3, OwnMoreBody
<1>4. ASSUME NEW rest \in 0..MaxFeed, NEW n \in 0..MaxFeed, NEW last \in BOOLEAN,
             Coalesced(rest, n, last)
      PROVE  OwnInv'
  BY <1>4 DEF Coalesced
<1>5. ASSUME NextChunk PROVE OwnInv'
  <2>1. /\ pc = "code" /\ pc' = "code" /\ ~consumed /\ q' = GetRest(q)
        /\ Receive(GetValue(q)) /\ msg' = msg /\ sent' = sent
    BY <1>5 DEF NextChunk
  <2>2. q'.dirty = q.dirty /\ q'.items = IF q.items = <<>> THEN <<>> ELSE Tail(q.items)
    BY <1>0, <2>1, GetRestProps
  <2>3. CASE q.items = <<>>
    <3>1. consumed' /\ got' = got
      BY <2>1, <2>3 DEF Receive, GetValue
    <3> QED
      BY <2>1, <2>2, <2>3, <3>1 DEF OwnInv, OwnChunksInOrder
  <2>4. CASE q.items # <<>>
    <3>1. Receive(Head(q.items)) /\ q'.items = Tail(q.items)
      BY <2>1, <2>2, <2>4 DEF GetValue
    <3> QED
      BY <2>1, <2>2, <2>4, <3>1, OwnTake
  <2> QED
    BY <2>3, <2>4
<1>6. ASSUME WaitChunk PROVE OwnInv'
  <2>1. /\ pc = "code" /\ pc' = "waiting" /\ q' = GetWait(q, msg)
        /\ got' = got /\ msg' = msg /\ sent' = sent /\ consumed' = consumed
    BY <1>6 DEF WaitChunk
  <2>2. q'.items = q.items /\ q'.dirty = q.dirty
    BY <1>0, <2>1, GetWaitProps
  <2> QED
    BY <2>1, <2>2 DEF OwnInv, OwnChunksInOrder, NextItems
<1>7. ASSUME Wake PROVE OwnInv'
  <2>1. /\ pc = "waiting" /\ msg \in q.event.woken /\ q' = GetResume(q, msg)
        /\ msg' = msg /\ sent' = sent
    BY <1>7 DEF Wake
  <2>2. q.items # <<>> /\ ~consumed
    BY <2>1 DEF WaiterInv
  <2>3. pc' = "code" /\ Receive(Head(q.items))
    BY <1>7, <2>2 DEF Wake, GetFails
  <2>4. q'.dirty = q.dirty /\ q'.items = Tail(q.items)
    BY <1>0, <2>1, <2>2, GetResumeProps
  <2> QED
    BY <2>1, <2>2, <2>3, <2>4, OwnTake
<1>8. ASSUME GiveUp PROVE OwnInv'
  <2>1. /\ pc \in {"code", "waiting"} /\ pc' = "gone" /\ q' = GetCancelled(q, msg)
        /\ got' = got /\ msg' = msg /\ sent' = sent /\ consumed' = consumed
    BY <1>8 DEF GiveUp
  <2>2. q'.items = q.items /\ q'.dirty = q.dirty
    BY <1>0, <2>1, GetCancelledProps
  <2> QED
    BY <2>1, <2>2 DEF OwnInv, OwnChunksInOrder, NextItems
<1>9. ASSUME Answer PROVE OwnInv'
  <2>1. pc' = "idle" /\ q' = Clear(q) /\ got' = got /\ msg' = msg
    BY <1>9 DEF Answer
  <2>2. q'.items = <<>>
    BY <1>0, <2>1, ClearProps DEF OwnInv
  <2> QED
    BY <2>1, <2>2 DEF OwnInv, OwnChunksInOrder
<1>10. CASE UNCHANGED vars
  BY <1>10 DEF OwnInv, OwnChunksInOrder, NextItems, vars
<1> QED
  BY <1>1, <1>2, <1>3, <1>4, <1>5, <1>6, <1>7, <1>8, <1>9, <1>10
  DEF Next, Handler, NewRequest, Upload, UploadAndNew

\* Whatever handlers, caches and timers do to a request before its body has
\* arrived, no handler ever reads a chunk of another request, misses one or
\* reads one twice, as long as no segment holds the end of a body and the
\* headers of the next request.
THEOREM OwnChunks ==
  ASSUME "coalesced" \notin Behaviours
  PROVE  Spec => []OwnChunksInOrder
<1>1. TypeInv /\ WaiterInv /\ OwnInv /\ [Next]_vars => OwnInv'
  BY OwnStep
<1>2. OwnInv => OwnChunksInOrder
  BY DEF OwnInv
<1> QED
  BY <1>1, <1>2, OwnInit, WaiterInvariant, PTL DEF Spec

-----------------------------------------------------------------------------
(***************************************************************************)
(* Real ends, when every answer follows the end of its request's body.     *)
(***************************************************************************)

Inv == TypeInv /\ WaiterInv /\ OwnInv /\ EndInv

LEMMA EndInit == Init => EndInv
  BY DEF Init, EndInv, EndIsReal, NewStreamQueue

\* A sentinel at the head of the queue is the end of the body.
LEMMA EndTake ==
  ASSUME TypeInv, WaiterInv, OwnInv, EndInv, [Next]_vars,
         pc # "idle", ~consumed, q.items # <<>>,
         q'.items = Tail(q.items), q'.finished = q.finished, Receive(Head(q.items)),
         msg' = msg, sent' = sent, ended' = ended, pc' = "code"
  PROVE  /\ EndInv'
         /\ IF consumed' THEN ended /\ Len(got) = sent /\ got' = got
            ELSE Len(got) < sent /\ got' = Append(got, Chunk(msg, Len(got) + 1))
<1>1. /\ q.items \in Seq(Items) /\ Len(q.items) \in Nat
      /\ got \in Seq(Items) /\ Len(got) \in Nat /\ sent \in Nat
      /\ msg \in Msgs
  BY Facts
<1>2. /\ Len(q.items) > 0
      /\ Head(q.items) = q.items[1] /\ Head(q.items) \in Items
      /\ Len(q'.items) = Len(q.items) - 1
      /\ \A j \in 1..Len(q'.items) : q'.items[j] = q.items[j + 1]
  BY <1>1, HeadTailProperties
<1>3. \A j \in 1..Len(q.items) :
        q.items[j] = EndOfStream => ended /\ Len(got) + j - 1 = sent
  BY DEF EndInv
<1>4. q'.finished => ended'
  BY DEF EndInv
<1>5. CASE Head(q.items) = EndOfStream
  <2>1. consumed' /\ got' = got
    BY <1>5 DEF Receive
  <2>2. ended /\ Len(got) = sent
    <3>1. 1 \in 1..Len(q.items)
      BY <1>1, <1>2
    <3>2. ended /\ Len(got) + 1 - 1 = sent
      BY <1>2, <1>3, <1>5, <3>1
    <3> QED
      BY <3>2, <1>1
  <2> QED
    BY <1>4, <2>1, <2>2 DEF EndInv, EndIsReal
<1>6. CASE Head(q.items) # EndOfStream
  <2>1. ~consumed' /\ got' = Append(got, Head(q.items))
    BY <1>6 DEF Receive
  <2>2. PICK k \in 0..Len(q.items) : NextItems(k)
    BY DEF OwnInv
  <2>3. k > 0
    BY <2>2, <1>1, <1>2, <1>6 DEF NextItems
  <2>4. Head(q.items) = Chunk(msg, Len(got) + 1)
    BY <2>2, <2>3, <1>1, <1>2 DEF NextItems
  <2>5. Len(got) < sent
    <3>1. CASE k = Len(q.items)
      BY <2>2, <2>3, <3>1, <1>1 DEF NextItems
    <3>2. CASE k < Len(q.items)
      <4>1. q.items[k + 1] = EndOfStream /\ k + 1 \in 1..Len(q.items)
        BY <2>2, <3>2, <1>1 DEF NextItems
      <4>2. Len(got) + (k + 1) - 1 = sent
        BY <4>1, <1>3
      <4> QED
        BY <4>2, <2>2, <2>3, <1>1
    <3> QED
      BY <2>2, <3>1, <3>2, <1>1
  <2>6. Len(got') = Len(got) + 1
    BY <2>1, <1>1, <1>2, AppendProperties
  <2>7. ASSUME NEW j \in 1..Len(q'.items), q'.items[j] = EndOfStream
        PROVE  ended' /\ Len(got') + j - 1 = sent'
    <3>1. q.items[j + 1] = EndOfStream /\ j + 1 \in 1..Len(q.items)
      BY <2>7, <1>1, <1>2
    <3>2. ended /\ Len(got) + (j + 1) - 1 = sent
      BY <3>1, <1>3
    <3>3. j \in Nat
      BY <1>1, <1>2
    <3> QED
      BY <3>2, <3>3, <2>6, <1>1
  <2> QED
    BY <1>4, <2>1, <2>4, <2>5, <2>7 DEF EndInv, EndIsReal
<1> QED
  BY <1>5, <1>6

\* get() of a handler that runs, or of one that wakes up, is a step of the
\* abstract stream: a chunk is delivered, or the end is seen.
LEMMA EndNextChunk ==
  ASSUME Inv, [Next]_vars, NextChunk
  PROVE  /\ EndInv'
         /\ IF consumed' THEN ended /\ Len(got) = sent /\ got' = got
            ELSE Len(got) < sent /\ got' = Append(got, Chunk(msg, Len(got) + 1))
<1> USE DEF Inv
<1>1. /\ pc = "code" /\ pc' = "code" /\ ~consumed /\ q' = GetRest(q)
      /\ Receive(GetValue(q)) /\ GetReturns(q)
      /\ msg' = msg /\ sent' = sent /\ ended' = ended
  BY DEF NextChunk
<1>2. q \in QueueType
  BY Facts
<1>3. /\ q'.finished = q.finished
      /\ q'.items = IF q.items = <<>> THEN <<>> ELSE Tail(q.items)
  BY <1>1, <1>2, GetRestProps
<1>4. CASE q.items # <<>>
  <2>1. Receive(Head(q.items)) /\ q'.items = Tail(q.items)
    BY <1>1, <1>3, <1>4 DEF GetValue
  <2> QED
    BY <1>1, <1>3, <1>4, <2>1, EndTake
<1>5. CASE q.items = <<>>
  <2>1. consumed' /\ got' = got
    BY <1>1, <1>5 DEF Receive, GetValue
  <2>2. q.finished /\ ended
    BY <1>1, <1>5 DEF GetReturns, EndInv
  <2>3. PICK k \in 0..Len(q.items) : NextItems(k)
    BY <1>1 DEF OwnInv
  <2>4. Len(got) = sent
    <3>1. Len(q.items) = 0 /\ Len(got) \in Nat
      BY <1>5, Facts
    <3> QED
      BY <2>3, <3>1 DEF NextItems
  <2> QED
    BY <1>1, <1>3, <1>5, <2>1, <2>2, <2>4 DEF EndInv, EndIsReal
<1> QED
  BY <1>4, <1>5

LEMMA EndWake ==
  ASSUME Inv, [Next]_vars, Wake
  PROVE  /\ EndInv'
         /\ pc' = "code" /\ ~consumed
         /\ IF consumed' THEN ended /\ Len(got) = sent /\ got' = got
            ELSE Len(got) < sent /\ got' = Append(got, Chunk(msg, Len(got) + 1))
<1> USE DEF Inv
<1>1. /\ pc = "waiting" /\ msg \in q.event.woken /\ q' = GetResume(q, msg)
      /\ msg' = msg /\ sent' = sent /\ ended' = ended
  BY DEF Wake
<1>2. q.items # <<>> /\ ~consumed
  BY <1>1 DEF WaiterInv
<1>3. pc' = "code" /\ Receive(Head(q.items))
  BY <1>2 DEF Wake, GetFails
<1>4. q \in QueueType /\ msg \in Msgs
  BY <1>1, Facts
<1>5. q'.finished = q.finished /\ q'.items = Tail(q.items)
  BY <1>1, <1>2, <1>4, GetResumeProps
<1> QED
  BY <1>1, <1>2, <1>3, <1>5, EndTake

LEMMA EndHeaders ==
  ASSUME Inv, [Next]_vars, NEW n \in 0..MaxFeed, NEW last \in BOOLEAN, Headers(n, last)
  PROVE  EndInv'
<1> USE DEF Inv
<1>1. /\ q \in QueueType /\ n \in Nat /\ msg + 1 \in Msgs /\ 0 + n <= MaxChunks
  BY Facts, BoundsAssumption DEF Headers, NextRequest, Msgs
<1>2. /\ q' = Feed(q, msg + 1, 0, n, last)
      /\ sent' = n /\ got' = <<>> /\ pc' = "code" /\ pc = "idle"
      /\ ended' = last /\ consumed' = consumed
  BY DEF Headers, NextRequest
<1>3. q.items = <<>> /\ ~q.finished /\ ~consumed
  BY <1>2 DEF EndInv
<1>4. FedBy(q, msg + 1, 0, n, last, q')
  BY <1>1, <1>2, FeedProps
<1>5. /\ Len(q'.items) = IF last /\ q.waiting THEN n + 1 ELSE n
      /\ \A j \in 1..n : q'.items[j] = Chunk(msg + 1, j)
      /\ q'.finished => last
  <2>1. /\ Len(q'.items) = IF last /\ q.waiting THEN 0 + n + 1 ELSE 0 + n
        /\ \A j \in 1..n : q'.items[0 + j] = Chunk(msg + 1, 0 + j)
        /\ q'.finished => last
    BY <1>3, <1>4 DEF FedBy
  <2> QED
    BY <2>1, <1>1
<1>6. ASSUME NEW j \in 1..Len(q'.items), q'.items[j] = EndOfStream
      PROVE  ended' /\ Len(got') + j - 1 = sent'
  <2>1. j \notin 1..n
    BY <1>1, <1>5, <1>6, ChunkIsNotTheEnd
  <2>2. j = n + 1 /\ last
    BY <2>1, <1>1, <1>5, <1>6
  <2> QED
    BY <2>2, <1>1, <1>2
<1> QED
  BY <1>2, <1>3, <1>5, <1>6 DEF EndInv, EndIsReal

LEMMA EndMoreBody ==
  ASSUME Inv, [Next]_vars, NEW n \in 0..MaxFeed, NEW last \in BOOLEAN, MoreBody(n, last)
  PROVE  EndInv'
<1> USE DEF Inv
<1>1. /\ q \in QueueType /\ Len(q.items) \in Nat /\ Len(got) \in Nat
      /\ n \in Nat /\ sent \in Nat /\ msg \in Msgs /\ sent + n <= MaxChunks
  BY Facts, BoundsAssumption DEF MoreBody
<1>2. /\ q' = Feed(q, msg, sent, n, last)
      /\ sent' = sent + n /\ got' = got /\ pc' = pc
      /\ ~ended /\ ended' = last /\ consumed' = consumed
  BY DEF MoreBody
<1>3. pc # "idle" /\ ~consumed /\ ~q.finished
  BY <1>2 DEF EndInv, EndIsReal
<1>4. /\ Len(q'.items) = IF last /\ q.waiting THEN Len(q.items) + n + 1
                         ELSE Len(q.items) + n
      /\ \A j \in 1..Len(q.items) : q'.items[j] = q.items[j]
      /\ \A j \in 1..n : q'.items[Len(q.items) + j] = Chunk(msg, sent + j)
      /\ q'.finished => last
  <2>1. FedBy(q, msg, sent, n, last, q')
    BY <1>1, <1>2, FeedProps
  <2> QED
    BY <1>3, <2>1 DEF FedBy
<1>5. \A j \in 1..Len(q.items) : q.items[j] # EndOfStream
  BY <1>2, <1>3 DEF EndInv
<1>6. Len(got) + Len(q.items) = sent
  <2>1. PICK k \in 0..Len(q.items) : NextItems(k)
    BY <1>3 DEF OwnInv
  <2>2. k = Len(q.items)
    <3>1. SUFFICES ASSUME k < Len(q.items) PROVE FALSE
      BY <2>1, <1>1
    <3>2. k + 1 \in 1..Len(q.items) /\ q.items[k + 1] = EndOfStream
      BY <2>1, <3>1, <1>1 DEF NextItems
    <3> QED
      BY <3>2, <1>5
  <2> QED
    BY <2>1, <2>2 DEF NextItems
<1>7. ASSUME NEW j \in 1..Len(q'.items), q'.items[j] = EndOfStream
      PROVE  ended' /\ Len(got') + j - 1 = sent'
  <2>1. j \notin 1..Len(q.items)
    BY <1>4, <1>5, <1>7
  <2>2. j - Len(q.items) \notin 1..n
    <3>1. ASSUME j - Len(q.items) \in 1..n PROVE FALSE
      <4>1. Len(q.items) + (j - Len(q.items)) = j
        BY <1>1, <1>4
      <4>2. q'.items[j] = Chunk(msg, sent + (j - Len(q.items)))
        BY <1>4, <3>1, <4>1
      <4> QED
        BY <4>2, <1>1, <1>7, ChunkIsNotTheEnd
    <3> QED
      BY <3>1
  <2>3. j = Len(q.items) + n + 1 /\ last
    BY <2>1, <2>2, <1>1, <1>4
  <2> QED
    BY <2>3, <1>1, <1>2, <1>6
<1> QED
  BY <1>2, <1>3, <1>4, <1>7 DEF EndInv, EndIsReal

LEMMA EndStep ==
  ASSUME Behaviours = {}
  PROVE  Inv /\ [Next]_vars => EndInv'
<1> SUFFICES ASSUME Inv, [Next]_vars PROVE EndInv'
  OBVIOUS
<1>0. q \in QueueType /\ pc # "broken" /\ (pc # "idle" => msg \in Msgs)
  BY Facts DEF Inv
<1>1. ASSUME NEW n \in 0..MaxFeed, NEW last \in BOOLEAN, Headers(n, last)
      PROVE  EndInv'
  BY <1>1, EndHeaders
<1>2. ASSUME NEW n \in 0..MaxFeed, NEW last \in BOOLEAN, HeadersCached(n, last)
      PROVE  EndInv'
  BY <1>2 DEF HeadersCached
<1>3. ASSUME NEW n \in 0..MaxFeed, NEW last \in BOOLEAN, MoreBody(n, last)
      PROVE  EndInv'
  BY <1>3, EndMoreBody
<1>4. ASSUME NEW rest \in 0..MaxFeed, NEW n \in 0..MaxFeed, NEW last \in BOOLEAN,
             Coalesced(rest, n, last)
      PROVE  EndInv'
  BY <1>4 DEF Coalesced
<1>5. ASSUME NextChunk PROVE EndInv'
  BY <1>5, EndNextChunk
<1>6. ASSUME WaitChunk PROVE EndInv'
  <2>1. /\ pc = "code" /\ pc' = "waiting" /\ q' = GetWait(q, msg)
        /\ got' = got /\ sent' = sent /\ ended' = ended
        /\ consumed' = consumed
    BY <1>6 DEF WaitChunk
  <2>2. q'.items = q.items /\ q'.finished = q.finished
    BY <1>0, <2>1, GetWaitProps
  <2> QED
    BY <2>1, <2>2 DEF Inv, EndInv, EndIsReal
<1>7. ASSUME Wake PROVE EndInv'
  BY <1>7, EndWake
<1>8. ASSUME GiveUp PROVE EndInv'
  <2>1. /\ pc \in {"code", "waiting"} /\ pc' = "gone" /\ q' = GetCancelled(q, msg)
        /\ got' = got /\ sent' = sent /\ ended' = ended
        /\ consumed' = consumed
    BY <1>8 DEF GiveUp
  <2>2. q'.items = q.items /\ q'.finished = q.finished
    BY <1>0, <2>1, GetCancelledProps
  <2> QED
    BY <2>1, <2>2 DEF Inv, EndInv, EndIsReal
<1>9. ASSUME Answer PROVE EndInv'
  <2>1. /\ pc' = "idle" /\ q' = Clear(q) /\ ~consumed' /\ readable' = TRUE
        /\ ended' = ended /\ ended
    BY <1>9 DEF Answer, MayEnd
  <2>2. q'.items = <<>> /\ q'.finished = FALSE
    BY <1>0, <2>1, ClearProps DEF Inv, OwnInv
  <2> QED
    BY <2>1, <2>2 DEF EndInv, EndIsReal
<1>10. CASE UNCHANGED vars
  BY <1>10 DEF Inv, EndInv, EndIsReal, vars
<1> QED
  BY <1>1, <1>2, <1>3, <1>4, <1>5, <1>6, <1>7, <1>8, <1>9, <1>10
  DEF Next, Handler, NewRequest, Upload, UploadAndNew

LEMMA Invariant ==
  ASSUME Behaviours = {}
  PROVE  Spec => []Inv
<1>1. Init => Inv
  BY TypeInit, WaiterInit, OwnInit, EndInit DEF Inv
<1>2. Inv /\ [Next]_vars => Inv'
  BY TypeStep, WaiterStep, OwnStep, EndStep DEF Inv
<1> QED
  BY <1>1, <1>2, PTL DEF Spec

\* When every answer follows the end of its request's body, a handler that
\* saw the end of its stream has read the whole body, and an answered request
\* leaves nothing to the next one and a connection that reads.
THEOREM EndsAreReal ==
  ASSUME Behaviours = {}
  PROVE  Spec => [](EndIsReal /\ IdleIsClean)
<1>1. Inv => EndIsReal /\ IdleIsClean
  BY DEF Inv, EndInv, IdleIsClean
<1> QED
  BY <1>1, Invariant, PTL

-----------------------------------------------------------------------------
(***************************************************************************)
(* Back-pressure, under the same assumption.                               *)
(***************************************************************************)

\* While the socket is read within a body nothing is queued, and the chunks
\* that are queued take the first MaxFeed places.
BufferInv ==
    /\ readable /\ ~ended => q.items = <<>>
    /\ \A j \in 1..Len(q.items) : q.items[j] # EndOfStream => j <= MaxFeed

LEMMA BufferInit == Init => BufferInv
  BY DEF Init, BufferInv, NewStreamQueue

\* get() hands over the first item, and reading goes on if it is the end.
LEMMA BufferTake ==
  ASSUME Inv, BufferInv, [Next]_vars,
         q.items # <<>>, q'.items = Tail(q.items), Receive(Head(q.items)),
         consumed' => ended, ended' = ended
  PROVE  BufferInv'
<1>1. q.items \in Seq(Items) /\ Len(q.items) \in Nat
  BY Facts DEF Inv
<1>2. /\ Len(q'.items) = Len(q.items) - 1
      /\ \A j \in 1..Len(q'.items) : q'.items[j] = q.items[j + 1]
  BY <1>1, HeadTailProperties
<1>3. ~(readable' /\ ~ended')
  BY DEF Receive
<1>4. ASSUME NEW j \in 1..Len(q'.items), q'.items[j] # EndOfStream
      PROVE  j <= MaxFeed
  <2>1. j + 1 \in 1..Len(q.items) /\ q.items[j + 1] # EndOfStream
    BY <1>1, <1>2, <1>4
  <2>2. j + 1 <= MaxFeed
    BY <2>1 DEF BufferInv
  <2> QED
    BY <2>2, <1>1, <1>2, BoundsAssumption
<1> QED
  BY <1>3, <1>4 DEF BufferInv

\* A segment is fed into an empty queue.
LEMMA BufferFed ==
  ASSUME NEW queue \in QueueType, queue.items = <<>>,
         NEW m \in Msgs, NEW first \in Nat, NEW n \in 0..MaxFeed,
         first + n <= MaxChunks, NEW last \in BOOLEAN,
         q' = Feed(queue, m, first, n, last), readable' = (n = 0), ended' = last
  PROVE  BufferInv'
<1>1. FedBy(queue, m, first, n, last, q')
  BY FeedProps, BoundsAssumption
<1>2. Len(queue.items) = 0 /\ n \in Nat
  BY BoundsAssumption
<1>3. /\ q' \in QueueType
      /\ Len(q'.items) = IF last /\ queue.waiting THEN n + 1 ELSE n
      /\ last /\ queue.waiting => q'.items[n + 1] = EndOfStream
  <2>1. /\ q' \in QueueType
        /\ Len(q'.items) = IF last /\ queue.waiting THEN 0 + n + 1 ELSE 0 + n
        /\ last /\ queue.waiting => q'.items[0 + n + 1] = EndOfStream
    BY <1>1, <1>2 DEF FedBy
  <2> QED
    BY <2>1, <1>2
<1>4. readable' /\ ~ended' => q'.items = <<>>
  <2>1. SUFFICES ASSUME n = 0, last = FALSE PROVE q'.items = <<>>
    BY <1>2
  <2>2. q'.items \in Seq(Items)
    BY <1>3 DEF QueueType, StreamQueueType
  <2>3. Len(q'.items) = 0
    BY <1>3, <2>1
  <2> QED
    BY <2>2, <2>3, EmptySeq
<1>5. \A j \in 1..Len(q'.items) : q'.items[j] # EndOfStream => j <= MaxFeed
  BY <1>2, <1>3, BoundsAssumption
<1> QED
  BY <1>4, <1>5 DEF BufferInv

LEMMA BufferStep ==
  ASSUME Behaviours = {}
  PROVE  Inv /\ BufferInv /\ [Next]_vars => BufferInv'
<1> SUFFICES ASSUME Inv, BufferInv, [Next]_vars PROVE BufferInv'
  OBVIOUS
<1>0. q \in QueueType /\ pc # "broken" /\ (pc # "idle" \/ ~ended => msg \in Msgs)
  BY Facts DEF Inv
<1>1. ASSUME NEW n \in 0..MaxFeed, NEW last \in BOOLEAN, Headers(n, last)
      PROVE  BufferInv'
  <2>1. /\ q.items = <<>> /\ q' = Feed(q, msg + 1, 0, n, last)
        /\ readable' = (n = 0) /\ ended' = last
        /\ msg + 1 \in Msgs /\ 0 + n <= MaxChunks
    BY <1>1, Facts, BoundsAssumption DEF Inv, EndInv, Headers, NextRequest, Msgs
  <2> QED
    BY <1>0, <2>1, BufferFed
<1>2. ASSUME NEW n \in 0..MaxFeed, NEW last \in BOOLEAN, HeadersCached(n, last)
      PROVE  BufferInv'
  BY <1>2 DEF HeadersCached
<1>3. ASSUME NEW n \in 0..MaxFeed, NEW last \in BOOLEAN, MoreBody(n, last)
      PROVE  BufferInv'
  <2>1. /\ q.items = <<>> /\ q' = Feed(q, msg, sent, n, last)
        /\ readable' = (n = 0) /\ ended' = last
        /\ msg \in Msgs /\ sent \in Nat /\ sent + n <= MaxChunks
    BY <1>0, <1>3, Facts DEF Inv, BufferInv, MoreBody
  <2> QED
    BY <1>0, <2>1, BufferFed
<1>4. ASSUME NEW rest \in 0..MaxFeed, NEW n \in 0..MaxFeed, NEW last \in BOOLEAN,
             Coalesced(rest, n, last)
      PROVE  BufferInv'
  BY <1>4 DEF Coalesced
<1>5. ASSUME NextChunk PROVE BufferInv'
  <2>1. /\ q' = GetRest(q) /\ Receive(GetValue(q)) /\ ended' = ended
        /\ consumed' => ended
    BY <1>5, EndNextChunk DEF NextChunk
  <2>2. q'.items = IF q.items = <<>> THEN <<>> ELSE Tail(q.items)
    BY <1>0, <2>1, GetRestProps
  <2>3. CASE q.items # <<>>
    BY <2>1, <2>2, <2>3, BufferTake DEF GetValue
  <2>4. CASE q.items = <<>>
    BY <2>2, <2>4 DEF BufferInv
  <2> QED
    BY <2>3, <2>4
<1>6. ASSUME WaitChunk PROVE BufferInv'
  <2>1. q' = GetWait(q, msg) /\ q.items = <<>> /\ pc = "code"
    BY <1>6 DEF WaitChunk, GetReturns
  <2>2. q'.items = <<>>
    BY <1>0, <2>1, GetWaitProps
  <2> QED
    BY <2>2 DEF BufferInv
<1>7. ASSUME Wake PROVE BufferInv'
  <2>1. /\ q' = GetResume(q, msg) /\ pc = "waiting" /\ msg \in q.event.woken
        /\ ended' = ended
        /\ consumed' => ended
    BY <1>7, EndWake DEF Wake
  <2>2. q.items # <<>>
    BY <2>1 DEF Inv, WaiterInv
  <2>3. q'.items = Tail(q.items)
    BY <1>0, <2>1, <2>2, GetResumeProps
  <2>4. Receive(Head(q.items))
    BY <1>7, <2>2 DEF Wake, GetFails
  <2> QED
    BY <2>1, <2>2, <2>3, <2>4, BufferTake
<1>8. ASSUME GiveUp PROVE BufferInv'
  <2>1. /\ pc \in {"code", "waiting"} /\ q' = GetCancelled(q, msg)
        /\ ended' = ended /\ readable' = readable
    BY <1>8 DEF GiveUp
  <2>2. q'.items = q.items
    BY <1>0, <2>1, GetCancelledProps
  <2> QED
    BY <2>1, <2>2 DEF BufferInv
<1>9. ASSUME Answer PROVE BufferInv'
  <2>1. q' = Clear(q)
    BY <1>9 DEF Answer
  <2>2. q'.items = <<>>
    BY <1>0, <2>1, ClearProps DEF Inv, OwnInv
  <2> QED
    BY <2>2 DEF BufferInv
<1>10. CASE UNCHANGED vars
  BY <1>10 DEF BufferInv, vars
<1> QED
  BY <1>1, <1>2, <1>3, <1>4, <1>5, <1>6, <1>7, <1>8, <1>9, <1>10
  DEF Next, Handler, NewRequest, Upload, UploadAndNew

\* When every answer follows the end of its request's body, no more chunks
\* are ever queued than one segment holds, whatever the sizes of the bodies,
\* and an answered request leaves nothing to the next one.
THEOREM Buffers ==
  ASSUME Behaviours = {}
  PROVE  Spec => []NothingPilesUp
<1>1. Init => Inv /\ BufferInv
  BY TypeInit, WaiterInit, OwnInit, EndInit, BufferInit DEF Inv
<1>2. Inv /\ BufferInv /\ [Next]_vars => Inv' /\ BufferInv'
  BY TypeStep, WaiterStep, OwnStep, EndStep, BufferStep DEF Inv
<1>3. Inv /\ BufferInv => NothingPilesUp
  <2> SUFFICES ASSUME Inv, BufferInv PROVE BackPressure
    BY DEF Inv, EndInv, IdleIsClean, NothingPilesUp
  <2> DEFINE chunks == {i \in DOMAIN q.items : q.items[i] # EndOfStream}
  <2>1. q.items \in Seq(Items)
    BY DEF Inv, TypeInv, TypeOK, StreamQueueType
  <2>2. DOMAIN q.items = 1..Len(q.items) /\ Len(q.items) \in Nat
    BY <2>1, LenProperties
  <2>3. chunks \subseteq 1..MaxFeed
    BY <2>2 DEF BufferInv
  <2>4. IsFiniteSet(1..MaxFeed) /\ Cardinality(1..MaxFeed) = MaxFeed
    BY BoundsAssumption, FS_Interval
  <2>5. Cardinality(chunks) <= MaxFeed
    BY <2>3, <2>4, FS_Subset
  <2> QED
    BY <2>5 DEF BackPressure
<1> QED
  BY <1>1, <1>2, <1>3, PTL DEF Spec

-----------------------------------------------------------------------------
(***************************************************************************)
(* RequestStream implements BodyStream: every step is one of its steps, or *)
(* leaves its variables alone.                                             *)
(***************************************************************************)

LEMMA ImplementsInit == Init => Body!Init
  BY DEF Init, Body!Init

LEMMA ImplementsStep ==
  ASSUME Behaviours = {}
  PROVE  Inv /\ [Next]_vars => [Body!Next]_(Body!vars)
<1> SUFFICES ASSUME Inv, [Next]_vars PROVE Body!Next \/ UNCHANGED Body!vars
  BY DEF Body!vars
<1> USE DEF Body!Next, Body!vars
<1>0. sent \in Nat /\ pc # "broken"
  BY Facts DEF Inv
<1>1. ASSUME NEW n \in 0..MaxFeed, NEW last \in BOOLEAN, Headers(n, last)
      PROVE  Body!Begin
  <2>1. pc = "idle" /\ ~consumed
    BY <1>1 DEF Headers, Inv, EndInv
  <2>2. n \in Nat
    BY BoundsAssumption
  <2> QED
    BY <1>1, <2>1, <2>2 DEF Headers, NextRequest, Body!Begin
<1>2. ASSUME NEW n \in 0..MaxFeed, NEW last \in BOOLEAN, MoreBody(n, last)
      PROVE  Body!Receive
  <2>1. n \in Nat
    BY BoundsAssumption
  <2> QED
    BY <1>0, <1>2, <2>1 DEF MoreBody, Body!Receive
<1>3. ASSUME pc # "idle", pc' # "idle", ~consumed,
             msg' = msg, sent' = sent, ended' = ended,
             consumed \in BOOLEAN, consumed' \in BOOLEAN,
             IF consumed' THEN ended /\ Len(got) = sent /\ got' = got
             ELSE Len(got) < sent /\ got' = Append(got, Chunk(msg, Len(got) + 1))
      PROVE  Body!Next
  <2>1. CASE consumed'
    <3>1. Body!SeeEnd
      BY <1>3, <2>1 DEF Body!SeeEnd
    <3> QED
      BY <3>1
  <2>2. CASE ~consumed'
    <3>1. Body!Deliver
      <4>1. consumed' = consumed
        BY <1>3, <2>2
      <4>2. Chunk(msg, Len(got) + 1) = Body!Chunk(msg, Len(got) + 1)
        BY DEF Chunk, Body!Chunk
      <4> QED
        BY <1>3, <2>2, <4>1, <4>2 DEF Body!Deliver
    <3> QED
      BY <3>1
  <2> QED
    BY <2>1, <2>2
<1>4. consumed \in BOOLEAN /\ consumed' \in BOOLEAN
  BY TypeStep DEF Inv, TypeInv, TypeOK
<1>5. CASE NextChunk
  BY <1>3, <1>4, <1>5, EndNextChunk DEF NextChunk
<1>6. CASE Wake
  BY <1>3, <1>4, <1>6, EndWake DEF Wake
<1>7. CASE WaitChunk
  BY <1>7 DEF WaitChunk
<1>8. CASE GiveUp
  BY <1>8 DEF GiveUp
<1>9. CASE Answer
  <2>1. Body!Close
    BY <1>9 DEF Answer, Body!Close
  <2> QED
    BY <2>1
<1>10. CASE UNCHANGED vars
  BY <1>10 DEF vars
<1>11. ASSUME NEW n \in 0..MaxFeed, NEW last \in BOOLEAN
       PROVE  ~HeadersCached(n, last)
  BY DEF HeadersCached
<1>12. ASSUME NEW rest \in 0..MaxFeed, NEW n \in 0..MaxFeed, NEW last \in BOOLEAN
       PROVE  ~Coalesced(rest, n, last)
  BY DEF Coalesced
<1> QED
  BY <1>1, <1>2, <1>5, <1>6, <1>7, <1>8, <1>9, <1>10, <1>11, <1>12
  DEF Next, Handler, NewRequest, Upload, UploadAndNew

\* The parser's callbacks, StreamQueue and Stream.__aiter__ together keep the
\* promise of BodyStream, when every answer follows the end of its body.
THEOREM Implements ==
  ASSUME Behaviours = {}
  PROVE  Spec => ImplementsBodyStream
<1>1. Inv /\ [Next]_vars => [Body!Next]_(Body!vars)
  BY ImplementsStep
<1> QED
  BY <1>1, ImplementsInit, Invariant, PTL DEF Spec, ImplementsBodyStream, Body!Spec
=============================================================================
