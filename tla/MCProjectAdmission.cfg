CONSTANTS
    alpha = alpha
    beta = beta
    gamma = gamma
    r1 = r1
    r2 = r2
    r3 = r3
    r4 = r4
    r5 = r5
    Projects <- ThreeProjects
    Requests <- FiveRequests
    Capacity = 2
    Limit <- ThreeLimits
    MaxQueued = 3
    MaxQueuedPerProject = 2
SPECIFICATION Spec
SYMMETRY Interchangeable
INVARIANTS PermitAccounting CapacityRespected WorkConserving QueueBook
PROPERTIES RoundRobinFair
