CONSTANTS
    alpha = alpha
    beta = beta
    Projects = {alpha, beta}
    Requests = {r1, r2}
    Capacity = 1
    Limit <- OneEach
    MaxQueued = 2
    MaxQueuedPerProject = 1
    Endpoints = {endpoint1}
    NoProject = NoProject
    RateMode = "none"
    LeaseEnforced = TRUE
    MaxPeriods = 2
    MaxGenerations = 2
SPECIFICATION EndpointFairSpec
INVARIANTS CurrentWhileServing FencedChargesMatch
PROPERTIES FencedWorkLeaves
