SPECIFICATION Spec
CONSTANTS
    None = None
    NoTime = NoTime
    Empty = Empty
    Prefix = "static"
    Roots <- TwoRoots
    Sites <- SomeSites
    MaxCacheSize = 3
    Texts <- SomeTexts
    Ranges <- SomeRanges
    MaxClock = 3
    Browsers = {b1, b2}
    Habits <- SomeHabits
    MaxRequests = 3
    Folders <- SomeFolders
    Tasks = {t1, t2}
    Count = 2
    Period = 7
    MaxTime = 17
INVARIANTS
    TypeOK
    StaticIsSound
    RateIsKept
    SessionIsKept
    TemplatesFollowFiles
\* When the bounds are reached, or a thread has died, nothing happens any more.
CHECK_DEADLOCK FALSE
