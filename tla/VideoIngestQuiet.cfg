SPECIFICATION Spec
CONSTANTS
    u1 = u1
    u2 = u2
    yt = yt
    r1 = r1
    r2 = r2
    Nobody = Nobody
    Videos <- OnlyYoutube
    Uploads <- NoUploads
    Content <- OneFile
    Runs <- TwoRuns
    Batches = 3
    FetchRetries = 2
    EmbedRetries = 2
    MaxCrashes = 3
    Surroundings <- Outages
INVARIANT TypeOK
INVARIANT IndexedMeansSearchable
INVARIANT NothingLeftBehind
 
PROPERTY ImplementsLifecycle
