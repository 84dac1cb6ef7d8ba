SPECIFICATION MCSpec
CONSTANTS
    r1 = r1
    r2 = r2
    c1 = c1
    c2 = c2
    Replicas = {r1}
    Calls = {c1, c2}
    Hosts <- OneHost
    RateMax = 1
    RateWindow = 2
    Cooldown = 2
    MaxEvents = 2
    Faults <- AllFaults
    Samples = {sample1, sample2}
    Workers = {worker1, worker2}
    Api = api
    MaxPasses = 3
    MaxFailures = 2
INVARIANT
    UpMeansReady
PROPERTIES
    ClientReturns
    ComesUp
CHECK_DEADLOCK FALSE
