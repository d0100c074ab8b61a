SPECIFICATION FairSpec
CONSTANTS
    Content = {a, b}
    Complete = {a}
    Command = {c1}
    NoContent = NoContent
    MaxStarted = 2
    MaxRevision = 4
CHECK_DEADLOCK FALSE
INVARIANTS OneRunPerRequest
PROPERTIES InputIsStable CommandKeepsStatus RequestIsServed
