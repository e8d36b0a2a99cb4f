SPECIFICATION Spec
CONSTANTS
    j1 = j1
    j2 = j2
    j3 = j3
    j4 = j4
    w1 = w1
    w2 = w2
    NoJob = NoJob
    Job = {j1, j2, j3, j4}
    Worker = {w1, w2}
    ContinueOnError = FALSE
    HasEmitter = FALSE
    MaxDeps = 0
SYMMETRY Symmetry
INVARIANT NeverStranded
