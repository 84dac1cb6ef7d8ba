SPECIFICATION Spec
CONSTANTS
    paper = paper
    deck = deck
    r1 = r1
    r2 = r2
    Nobody = Nobody
    Documents <- Both
    KeyOnly <- Nothing
    Yields <- SomeChunks
    Runs <- OneRun
    ParseRetries = 0
    EmbedRetries = 1
    MaxCrashes = 1
    Surroundings <- Quiet
INVARIANT TypeOK
INVARIANT IndexedCountsPoints
INVARIANT NothingLeftBehind
PROPERTY ImplementsLifecycle
