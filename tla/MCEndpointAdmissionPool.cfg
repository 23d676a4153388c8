CONSTANTS
    alpha = alpha
    beta = beta
    Projects = {alpha, beta}
    Requests = {r1, r2, r3}
    Capacity = 1
    Limit <- OneEach
    MaxQueued = 2
    MaxQueuedPerProject = 1
    Endpoints = {endpoint1}
    NoProject = NoProject
    RateMode = "pool"
    LeaseEnforced = FALSE
    MaxPeriods = 2
    MaxGenerations = 2
SPECIFICATION EndpointSpec
SYMMETRY Interchangeable
CONSTRAINT ThirdIsTurnedAway
INVARIANTS PermitFollowsWork CancelledWorkStops
