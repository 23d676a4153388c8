CONSTANTS
    r1 = r1
    r2 = r2
    Runners = {r1, r2}
    Opener <- MCOpener
    Enforce = enforce
    Modes = {enforce, monitor}
    Local = {1, 3}
    MaxGeneration = 3
    MaxDisturbances = 1
SPECIFICATION PSSpec
PROPERTY OfflineReflectsConnectivity
CHECK_DEADLOCK FALSE
