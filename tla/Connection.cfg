SPECIFICATION FairSpec
CONSTANTS
    MaxMsgs = 3
    Environments <- Everyone
INVARIANTS
    TypeOK
    OneResponseInOrder
    RegisteredWhileOpen
    NothingIsLeftOver
PROPERTIES
    StreamsAreUninterrupted
    EveryRequestAnswered
    OrderlyStops
\* A closed connection whose tasks have ended stops, as does one whose client
\* has sent its MaxMsgs requests.
CHECK_DEADLOCK FALSE
