SPECIFICATION FairSpec
CONSTANTS
    Run = {r1, r2}
    MaxLoss = 1
    MaxFailures = 2
    NoRun = NoRun
CHECK_DEADLOCK FALSE
INVARIANTS MatrixIsClaimants SharedMatrix
PROPERTIES EveryRunEnds
