----------------------------- MODULE AsyncEvent -----------------------------
(***************************************************************************)
(* The asyncio.Event that vibora/request/request.pyx (StreamQueue.event)   *)
(* and vibora/protocol/cprotocol.pyx (Connection.write_permission) wait    *)
(* on.  asyncio is not part of the repository: what is modelled is the     *)
(* contract those files use.                                               *)
(*                                                                         *)
(*   value   - the flag                                                    *)
(*   pending - the tasks suspended in wait() whose future is unresolved    *)
(*   woken   - the tasks whose future is resolved and that have not run    *)
(*             since: clearing the flag does not put them back to sleep    *)
(***************************************************************************)

Event(Tasks) ==
    [value : BOOLEAN, pending : SUBSET Tasks, woken : SUBSET Tasks]

NewEvent == [value |-> FALSE, pending |-> {}, woken |-> {}]

\* set(): a flag that is already set resolves nobody's future.
EventSet(e) ==
    IF e.value
    THEN e
    ELSE [value |-> TRUE, pending |-> {}, woken |-> e.woken \cup e.pending]

\* clear()
EventClear(e) == [e EXCEPT !.value = FALSE]

\* await wait(): returns at once, without suspending, when the flag is set.
EventWait(e, t) ==
    IF e.value
    THEN [e EXCEPT !.woken = @ \cup {t}]
    ELSE [e EXCEPT !.pending = @ \cup {t}]

\* The suspended task leaves wait(): its future was resolved, or the task was
\* cancelled (CancelledError removes the future from the waiters).
EventLeave(e, t) == [e EXCEPT !.pending = @ \ {t}, !.woken = @ \ {t}]
=============================================================================
