SPECIFICATION Spec
CONSTANTS
    MaxRun = 3
    MaxParallel = 2
    MaxLoss = 1
CHECK_DEADLOCK FALSE
INVARIANTS OwnReportIsPublished
