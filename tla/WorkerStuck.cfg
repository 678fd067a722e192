SPECIFICATION FairSpec
CONSTANTS
    Conns = {c1}
    KeepAlive = 2
    WorkerTimeout = 6
    HandlerTimeout = 3
    StopTimeout = 2
    MaxAge = 7
    MaxAnswers = 2
    Environments <- Stuck
PROPERTY
    StuckWorkersAreKilled
\* A worker that was killed or has stopped does nothing more.
CHECK_DEADLOCK FALSE
