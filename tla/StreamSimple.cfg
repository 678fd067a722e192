SPECIFICATION FairSpec
CONSTANTS
    MaxMsgs = 3
    MaxChunks = 3
    MaxFeed = 2
    Behaviours <- Simple
INVARIANTS
    TypeOK
    OwnChunksInOrder
    EndIsReal
    NothingPilesUp
PROPERTIES
    EveryRequestEnds
    ImplementsBodyStream
\* After MaxMsgs requests the client is done.
CHECK_DEADLOCK FALSE
