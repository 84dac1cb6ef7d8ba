SPECIFICATION Spec
CONSTANTS
    d1 = d1
    d2 = d2
    alice = alice
    bob = bob
    Videos = {1, 2, 3}
    Dispatchers <- TwoDispatchers
    MaxInflight = 2
    DocumentLoads <- SomeDocuments
    MaxCrashes = 1
    Environment <- CleanWorld
    Users <- TwoUsers
    MaxRuns = 2
SYMMETRY Alike
INVARIANT TypeOK
INVARIANT InflightBound
INVARIANT AdmissionShare
 
INVARIANT HandedOutOnce
PROPERTY FairShare
PROPERTY OldestFirstAndFull
