SPECIFICATION Spec
CONSTANTS
    MaxMsgs = 3
    Environments <- SlowClient
INVARIANT
    EveryAnswerReleases
\* A closed connection whose tasks have ended stops, as does one whose client
\* has sent its MaxMsgs requests.
CHECK_DEADLOCK FALSE
