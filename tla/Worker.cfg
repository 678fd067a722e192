SPECIFICATION Spec
CONSTANTS
    Conns = {c1, c2}
    KeepAlive = 2
    WorkerTimeout = 6
    HandlerTimeout = 3
    StopTimeout = 2
    MaxAge = 7
    MaxAnswers = 2
    Environments <- Workloads
SYMMETRY Interchangeable
INVARIANTS
    TypeOK
    IdleIsBounded
    StopsInTime
    StopsGracefully
    PromptClientsAreSafe
\* A worker that was killed or has stopped does nothing more.
CHECK_DEADLOCK FALSE
