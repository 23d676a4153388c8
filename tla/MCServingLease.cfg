CONSTANTS
    Duration = 2
    Uncertainty = 1
    ResponseTimeout = 2
    MaxTime = 3
    MaxGeneration = 2
    MaxSessions = 2
    MaxSnapshots = 3
    MaxNonce = 3
SPECIFICATION Spec
CHECK_DEADLOCK FALSE
INVARIANTS AuthorityIsInTheLedger StaleServingBounded ServesWhatWasGranted
PROPERTIES NoRevival
