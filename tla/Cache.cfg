SPECIFICATION Spec
CONSTANTS
    Keys = {k1, k2}
    NoKey = NoKey
    MaxOps = 3
SYMMETRY KeySymmetry
INVARIANTS TypeOK NewestSetWins ResumePoint MirrorAgrees ViewAgrees DeletedStaysDeleted
