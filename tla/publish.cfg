SPECIFICATION Spec
CONSTANTS
    MaxExecution = 3
    MaxObject = 5
CHECK_DEADLOCK FALSE
INVARIANTS SameObjects CopiesAreLate PublishedHasFile
