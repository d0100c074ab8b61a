SPECIFICATION FairSpec
CONSTANTS
    Lease = 4
    HeartbeatEvery = 2
    HeartbeatDelay = 1
    MaxToken = 2
CHECK_DEADLOCK FALSE
INVARIANTS LiveExecutionHoldsLease
PROPERTIES NoSpuriousAbort ZombieStops
