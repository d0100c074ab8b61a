SPECIFICATION FairSpec
CONSTANTS
    Event = {v1, v2}
    Recipient = {r1}
    Sender = {s1, s2}
    MaxAttempts = 2
    None = None
CHECK_DEADLOCK FALSE
INVARIANTS AtMostOnce
PROPERTIES SettledStays TaskEnds
