SPECIFICATION Spec
CONSTANTS
    MaxRun = 2
    MaxParallel = 2
    MaxLoss = 1
CHECK_DEADLOCK FALSE
INVARIANTS JoinsMatch
