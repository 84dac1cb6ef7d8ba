SPECIFICATION FairSpec
CONSTANTS
    u1 = u1
    u2 = u2
    yt = yt
    r1 = r1
    r2 = r2
    Nobody = Nobody
    Videos <- OnlyYoutube
    Uploads <- NoUploads
    Content <- OneFile
    Runs <- TwoRuns
    Batches = 1
    FetchRetries = 0
    EmbedRetries = 0
    MaxCrashes = 1
    Surroundings <- Stormy
PROPERTY NoLoss
