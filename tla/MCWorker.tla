------------------------------ MODULE MCWorker ------------------------------
(* The instances of Worker that TLC checks.                                *)
EXTENDS Worker, TLC

\* The connections are interchangeable.
Interchangeable == Permutations(Conns)

Env(may, clients) == [may |-> may, clients |-> clients]

\* Two clients, prompt until the loop is stuck, or slow; one with long responses,
\* one whose requests are answered before their bodies have come, and one whose
\* segments the parser does not take.
Workloads ==
    {Env({"stuck"}, 2), Env({"slow"}, 2), Env({"slow", "long"}, 1),
     Env({"slow", "early", "cached"}, 1), Env({"early", "bad", "upgrade", "pipelined"}, 1)}
Stuck == {Env({"stuck"}, 1)}
=============================================================================
