SPECIFICATION Spec
CONSTANTS
    Symbols = {a, b}
    MaxLength = 3
    MaxTrain = 3
    SumMod = 4
SYMMETRY Symmetry
INVARIANTS Frequencies LoadExact PartNeverLies
