------------------------------ MODULE MCClient ------------------------------
(* The instances of Client that TLC checks.                                *)
EXTENDS Client

Anything ==
    {{"fail", "unkept"}, {"timeout", "odd"}, {"stream", "abandon", "fail"}, {"stream", "close"},
     {"again", "close"}, {"again", "timeout"}, {"redirect", "unkept"}}
=============================================================================
