CONSTANTS
    r1 = r1
    r2 = r2
    Runners = {r1, r2}
    Opener <- MCOpener
    Enforce = enforce
    Modes = {enforce, monitor}
    Local = {1}
    MaxGeneration = 3
    MaxDisturbances = 2
SPECIFICATION PSSpec
INVARIANTS OverlaysInOrder
PROPERTIES DeclaredIsInEffect ServesWithOverlay AppliedAtLast
CHECK_DEADLOCK FALSE
