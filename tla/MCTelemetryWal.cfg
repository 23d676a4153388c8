SPECIFICATION FairSpec
CONSTANTS
    pair = pair
    light = light
    heavy = heavy
    Emitters = {pair, light, heavy}
    Parts <- TwoParts
    Weight <- Weights
    MaxBody = 8
    GatewayLimit = 6
    BatchSize = 2
    RejectedRoom = 1
    MaxCrashes = 1
    MaxFailures = 1
INVARIANTS NothingLost BatchStillLeads
PROPERTIES OldestFirst OnlyBlockedEvidenceStays
CHECK_DEADLOCK FALSE
