SPECIFICATION Spec
CONSTANTS
    MaxMsgs = 3
    MaxChunks = 3
    MaxFeed = 2
    Behaviours <- Anything
INVARIANTS
    WaiterIsServed
\* A connection whose reading stays paused stops: that is the code's behaviour.
CHECK_DEADLOCK FALSE
