SPECIFICATION Spec
CONSTANTS
    Task = {t1}
    Run = {r1}
    Publisher = {p1, p2}
    Consumer = {c1, c2}
    NoPublisher = NoPublisher
    NoConsumer = NoConsumer
    NoEntry = NoEntry
    RunOf <- MCRunOf
    MaxPerRun = 1
    MaxActivePool = 1
    BatchLimit = 1
    MaxRevision = 5
    MaxCopies = 1
    MaxFaults = 1
    MaxGaps = 0
SYMMETRY Interchangeable
INVARIANTS PublishedIsInFlight OneExecutionPerRevision
