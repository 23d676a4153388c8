SPECIFICATION Spec
CONSTANTS
    r1 = r1
    r2 = r2
    r3 = r3
    r4 = r4
    pool = pool
    north = north
    south = south
    current = current
    other = other
    Requests = {r1, r2, r3, r4}
    Budgets = {pool, north, south}
    Revisions = {current, other}
    Named <- OtherWithoutSouth
    Scope <- NorthOrSouth
    Revision <- AllCurrent
    Limit <- TwoInAWindow
    Window = 3
    Second = 2
    Policy = Policy
    NoRevision = NoRevision
    MaxTime = 3
SYMMETRY SameProject
INVARIANTS WindowRespected StartedWasCharged
PROPERTIES RetryIsTight
