-------------------------- MODULE MCRequestStream --------------------------
(* The instances of RequestStream that TLC checks.  Three requests: one to *)
(* leave something behind, one to meet it, one to see that it is gone.     *)
EXTENDS RequestStream

\* Every answer follows the end of the request's body.
Simple == {}

\* Answers at any time, and segments with the end of one body and the next
\* request.
Anything == {"early", "cached", "coalesced"}
=============================================================================
