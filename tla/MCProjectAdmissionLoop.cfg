CONSTANTS
    alpha = alpha
    beta = beta
    gamma = gamma
    r1 = r1
    r2 = r2
    r3 = r3
    r4 = r4
    Projects <- ThreeProjects
    Requests <- FourRequests
    Capacity = 2
    Limit <- ThreeLimits
    MaxQueued = 3
    MaxQueuedPerProject = 2
SPECIFICATION LoopSpec
PROPERTIES LoopImplementsDispatch NoStarvation
