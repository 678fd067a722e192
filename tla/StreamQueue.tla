---------------------------- MODULE StreamQueue ----------------------------
(***************************************************************************)
(* class StreamQueue of vibora/request/request.pyx: the queue between the  *)
(* HTTP parser, which puts body chunks, and the request handler, which     *)
(* gets them.  The operations are operators on the queue's state, so that  *)
(* RequestStream and Connection run the same code.                         *)
(*                                                                         *)
(*   items    - the deque; EndOfStream is the None that end() appends      *)
(*   event    - the asyncio.Event a consumer without data waits on         *)
(*   waiting  - "a consumer is waiting", set and reset by the consumer     *)
(*   dirty    - something was put since the last clear()                   *)
(*   finished - end() was called since the last clear()                    *)
(***************************************************************************)
EXTENDS AsyncEvent, Sequences

\* None in the deque, and the b'' that get() returns once finished: both are
\* falsy, and that is all Stream.__aiter__ looks at.
EndOfStream == [msg |-> 0, n |-> 0]

StreamQueueType(Items, Tasks) ==
    [items : Seq(Items), event : Event(Tasks),
     waiting : BOOLEAN, dirty : BOOLEAN, finished : BOOLEAN]

NewStreamQueue ==
    [items |-> <<>>, event |-> NewEvent,
     waiting |-> FALSE, dirty |-> FALSE, finished |-> FALSE]

\* Mutant of Put: the waiting consumer is not woken.
PutWithoutWake(q, s) ==
    IF s = <<>> THEN q ELSE [q EXCEPT !.items = @ \o s, !.dirty = TRUE]

\* put(), called for each item of s inside one callback: nobody runs between
\* two of the calls, and only the first can find the event unset.
Put(q, s) ==
    IF s = <<>>
    THEN q
    ELSE [q EXCEPT !.items = @ \o s,
                   !.dirty = TRUE,
                   !.event = IF q.waiting THEN EventSet(@) ELSE @]

\* Mutant of End: the flag alone, no sentinel.
EndWithoutSentinel(q) == [q EXCEPT !.finished = TRUE]

\* end(): a waiting consumer is woken with the sentinel.
End(q) ==
    [(IF q.waiting THEN Put(q, <<EndOfStream>>) ELSE q) EXCEPT !.finished = TRUE]

\* Mutants of Clear: the items, or the flag, survive.
ClearKeepsItems(q) ==
    [q EXCEPT !.event = IF q.dirty THEN EventClear(@) ELSE @,
              !.dirty = FALSE,
              !.finished = FALSE]
ClearKeepsFinished(q) ==
    [q EXCEPT !.items = IF q.dirty THEN <<>> ELSE @,
              !.event = IF q.dirty THEN EventClear(@) ELSE @,
              !.dirty = FALSE]

\* clear(): `waiting` is left alone.
Clear(q) ==
    [q EXCEPT !.items = IF q.dirty THEN <<>> ELSE @,
              !.event = IF q.dirty THEN EventClear(@) ELSE @,
              !.dirty = FALSE,
              !.finished = FALSE]

\* get(), first half.  It returns without suspending when there is an item or
\* the stream is finished ...
GetReturns(q) == q.items # <<>> \/ q.finished

GetValue(q) == IF q.items = <<>> THEN EndOfStream ELSE Head(q.items)

\* Mutant of GetRest: the item is read and not removed.
GetRestPeeks(q) == q

GetRest(q) ==
    [q EXCEPT !.items = IF q.items = <<>> THEN <<>> ELSE Tail(q.items)]

\* Mutant of GetWait: the event is not cleared before the wait.
GetWaitUncleared(q, t) ==
    [q EXCEPT !.event = EventWait(@, t), !.waiting = TRUE]

\* ... and otherwise suspends task t on the event, freshly cleared.
GetWait(q, t) ==
    [q EXCEPT !.event = EventWait(EventClear(@), t), !.waiting = TRUE]

\* get(), second half: task t runs again.  When the deque is empty here, the
\* popleft raises an IndexError that nothing catches (GetFails).
GetFails(q) == q.items = <<>>

GetResume(q, t) ==
    [q EXCEPT !.event = EventClear(EventLeave(@, t)),
              !.waiting = FALSE,
              !.items = IF GetFails(q) THEN <<>> ELSE Tail(@)]

\* Task t is cancelled while suspended in get(): the assignments after the
\* await do not run, so `waiting` stays TRUE.
GetCancelled(q, t) == [q EXCEPT !.event = EventLeave(@, t)]
=============================================================================
