SPECIFICATION FairSpec
CONSTANTS
    Callers = {r1, r2}
    Posting = {r2}
    MaxCalls = 2
    MaxConns = 6
    MaxFaults = 2
    MaxRedirects = 1
    StatusRetries = 1
    Environments <- Anything
INVARIANTS
    TypeOK
    OneUser
    PostIsNotRepeated
    OpenIsKnown
    NoConnectionIsLost
PROPERTY
    EveryRequestEnds
\* When the last call has ended nothing happens any more.
CHECK_DEADLOCK FALSE
