SPECIFICATION Spec
CONSTANTS
    j1 = j1
    j2 = j2
    j3 = j3
    w1 = w1
    w2 = w2
    NoJob = NoJob
    Job = {j1, j2, j3}
    Worker = {w1, w2}
    ContinueOnError = TRUE
    HasEmitter = TRUE
    MaxDeps = 2
SYMMETRY Symmetry
INVARIANT TypeOK
INVARIANT OnePlace
INVARIANT DependenciesFirst
INVARIANT CountersAgree
INVARIANT RemainingExact
INVARIANT SettledVerdict
INVARIANT WaitOutcome
PROPERTY NoRacyWrite
PROPERTY ImplementsJobGraph
PROPERTY HonestReport
