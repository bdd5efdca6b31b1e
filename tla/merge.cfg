SPECIFICATION Spec
CONSTANTS
    Inputs = {1, 2, 3}
    MaxHash = 3
    Contents <- AllContents
    CountMod = 8
    MayFail = TRUE
    MayCancel = TRUE
INVARIANT CountsBounded
PROPERTIES ImplementsUnion Terminates
