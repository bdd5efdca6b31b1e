SPECIFICATION Spec
CONSTANTS
    NumWorkers = 2
    RuntimeSecs = 3
    ExpiresAfter = 2
    ResolveSecs = 4
    Boot = 1
INVARIANTS BoundedOverrun RuntimeCovers
PROPERTY Ends
