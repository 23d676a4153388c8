CONSTANTS
    Calls = {c1, c2, c3, c4}
    MaxLimit = 3
    k1 = k1
    k2 = k2
    k3 = k3
    a1 = a1
    a2 = a2
    b1 = b1
    b2 = b2
    t1 = t1
    Keys = {k1, k2, k3}
    Triggers = {a1, a2, b1, b2, t1}
    KeyOf <- MCKeyOf
    Concurrency = 2
    large = large
    middle = middle
    s1 = s1
    s2 = s2
    Jobs = {large, middle, s1, s2}
    Bytes <- MCBytes
    ByteLimit = 4
    MaxJobs = 2
    MaxQueue = 3
SPECIFICATION MCSpec
INVARIANTS ActiveIsPermits NoLostWakeup QueueBusy MemoryBounded HeadDoesNotFit
PROPERTIES GrantsWithinCap FirstComeFirstServed EveryCallProceeds QueueKeepsItsPromise
