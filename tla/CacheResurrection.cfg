SPECIFICATION Spec
CONSTANTS
    Keys = {k1, k2}
    NoKey = NoKey
    MaxOps = 2
SYMMETRY KeySymmetry
INVARIANTS HighestOpWins
