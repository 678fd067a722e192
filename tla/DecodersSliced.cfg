SPECIFICATION Spec
CONSTANTS
    None = None
    Conversations <- SomeConversations
    HeadersLimit = 8
    BodyLimit = 3
    Forms <- SomeForms
    Delimiter <- DelimiterB
    Disposition <- PartNames
    HeaderOf <- PartOf
    ChunkSize = 2
    FlushFactor = 2
    InMemoryLimit = 12
    Peers <- SomePeers
INVARIANTS
    BoundariesMayBeSliced
\* When all has arrived, or a decoder has failed, nothing happens any more.
CHECK_DEADLOCK FALSE
