---------------------------- MODULE MCConnection ----------------------------
(* The instances of Connection that TLC checks.  Three requests: one whose *)
(* tasks and timers may be left over, one they may meet, and one more.     *)
EXTENDS Connection

Env(may, keepAlive, sentHooks) ==
    [may |-> may, keepAlive |-> keepAlive, sentHooks |-> sentHooks]

\* Whole requests, one at a time, and handlers that may be too slow.
Orderly == Env({"timeout", "stream", "lost", "stop"}, TRUE, "plain")

\* Slow handlers among hasty ones and cached answers.
Hasty == Env({"timeout", "early", "cached", "stream", "lost", "stop"}, TRUE, "plain")

\* Handlers and generators that raise.
Failing == Env({"raise", "early", "cached", "stream", "lost", "stop"}, TRUE, "none")

\* Error handlers that raise, among slow handlers and hasty ones.
Unanswered == Env({"timeout", "faulty", "early", "stream", "lost", "stop"}, TRUE, "plain")

\* A client that pipelines and reads slowly.
Pushy == Env({"pipelined", "pressure", "raise", "stream", "stop"}, TRUE, "none")

\* A client that sends nonsense, or asks for a websocket.
Rejected == Env({"bad", "upgrade", "timeout", "stream", "lost", "stop"}, TRUE, "plain")

\* No keep-alive, and everything that may happen to a single request.
OneShot == Env({"raise", "faulty", "early", "bad", "timeout", "stream", "lost", "stop"}, FALSE, "plain")

\* A hook that asks for the request it was called after.
Asking == Env({"early", "cached", "stop"}, TRUE, "request")

Everyone == {Orderly, Hasty, Failing, Unanswered, Pushy, Rejected, OneShot, Asking}

\* A client that reads slowly.
SlowClient == {Env({"pressure"}, TRUE, "none")}
=============================================================================
