SPECIFICATION Spec
CONSTANTS
    Blueprints = {"app", "b1", "b2"}
    App = "app"
    Super <- SuperOf
    CacheSize = 1
    MaxRequests = 1
    Configurations <- Queried
INVARIANT
    RoutedByPath
CHECK_DEADLOCK FALSE
