SPECIFICATION MCSpec
CONSTANTS
    film = film
    paper = paper
    none = none
    Absent = Absent
    NoLocator = NoLocator
    Nothing = Nothing
    Sources <- TwoSources
    Locators <- OnePage
    Times <- FourTimes
    BranchTopK = 3
    RrfK = 2
    Window = 15
    Boost <- ThreeHalves
    TopK = 3
    alice = alice
    bob = bob
    talk = talk
    thesis = thesis
    bobs = bobs
    Tenants = {alice, bob}
    Library = {talk, thesis, bobs}
    OwnerOf <- WhoseIs
    Content <- WhatIsIn
    Requests <- Questions
    Shown = 2
    GateOn = TRUE
    ServerModel = FALSE
    Disturbances <- AllDisturbances
    Disturbed <- Hers
    Callers = {call1, call2}
    key1 = key1
    key2 = key2
    Keys = {key1, key2}
    Users = {alice, bob}
    KeyUser <- WhoseKey
    KeyRole <- WhichRole
    DefaultUser = bob
    Master = Master
    NoToken = NoToken
    film1 = film1
    film2 = film2
    Owners = {owner1, owner2}
    Uploads = {upload}
    Films = {film1, film2}
    SampleFilms = {film2}
    Tasks = {task1}
    Manners <- Behaved
    r1 = r1
    r2 = r2
    c1 = c1
    c2 = c2
    Replicas = {r1, r2}
    Calls = {c1, c2}
    Hosts <- OneOrTwoHosts
    RateMax = 1
    RateWindow = 2
    Cooldown = 1
    MaxEvents = 3
    Faults <- AllFaults
SYMMETRY Symmetric
INVARIANTS
    TypesOK
    MomentsApart BestOfItsModality AgreementFirst TheBestAreCited
    TextChunked FramesSampled
    Grounded CitesTheirOwn
    ActsAsItsKey
     
     TotalsTrue
    RangeServed LatencyShown
PROPERTIES
    OwnerKept
CHECK_DEADLOCK FALSE
