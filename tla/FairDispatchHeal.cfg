SPECIFICATION FairSpec
CONSTANTS
    d1 = d1
    d2 = d2
    alice = alice
    bob = bob
    Videos = {1, 2}
    Dispatchers <- OneDispatcher
    MaxInflight = 1
    DocumentLoads <- NoDocuments
    MaxCrashes = 1
    Environment <- Behaviours
    Users <- OneUser
    MaxRuns = 2
PROPERTY NoLoss
