SPECIFICATION FairSpec
CONSTANTS
    paper = paper
    deck = deck
    r1 = r1
    r2 = r2
    Nobody = Nobody
    Documents <- OnlyDeck
    KeyOnly <- Nothing
    Yields <- MaybeChunks
    Runs <- TwoRuns
    ParseRetries = 0
    EmbedRetries = 0
    MaxCrashes = 1
    Surroundings <- Harsh
PROPERTY NoLoss
