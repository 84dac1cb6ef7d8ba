SPECIFICATION Spec
CONSTANTS
    d1 = d1
    d2 = d2
    alice = alice
    bob = bob
    Videos = {1, 2}
    Dispatchers <- OneDispatcher
    MaxInflight = 1
    DocumentLoads <- NoDocuments
    MaxCrashes = 0
    Environment <- ReconciledWorld
    Users <- OneUser
    MaxRuns = 2
INVARIANT RunsWithinCapacity
