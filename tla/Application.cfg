SPECIFICATION Spec
CONSTANTS
    Blueprints = {"app", "b1", "b2"}
    App = "app"
    Super <- SuperOf
    CacheSize = 1
    MaxRequests = 4
    Configurations <- Programs
INVARIANTS
    TypeOK
    RightRoute
    CacheIsTransparent
    HooksAreCalled
    ErrorsFindTheirHandler
\* After MaxRequests requests nothing happens any more.
CHECK_DEADLOCK FALSE
