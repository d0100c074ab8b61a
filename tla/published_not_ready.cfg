SPECIFICATION Spec
CONSTANTS
    MaxExecution = 2
    MaxObject = 3
CHECK_DEADLOCK FALSE
INVARIANTS SucceededIsPublished
