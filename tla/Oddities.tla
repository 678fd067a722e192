------------------------------ MODULE Oddities ------------------------------
(* What the modules about files have in common.                            *)
CONSTANT
    None            \* Python's None: no entry, no session, no file, no answer

VARIABLE
    odd             \* what is unusual about a behaviour, chosen once
=============================================================================
