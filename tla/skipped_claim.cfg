SPECIFICATION Spec
CONSTANTS
    Task = {t1, t2}
    Run = {r1}
    Publisher = {p1}
    Consumer = {c1}
    NoPublisher = NoPublisher
    NoConsumer = NoConsumer
    NoEntry = NoEntry
    RunOf <- MCRunOf
    MaxPerRun = 1
    MaxActivePool = 2
    BatchLimit = 2
    MaxRevision = 3
    MaxCopies = 1
    MaxFaults = 1
    MaxGaps = 1
PROPERTIES DropsOnlyStale
