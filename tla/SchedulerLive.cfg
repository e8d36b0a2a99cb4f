SPECIFICATION FairSpec
CONSTANTS
    j1 = j1
    j2 = j2
    j3 = j3
    w1 = w1
    w2 = w2
    NoJob = NoJob
    Job = {j1, j2, j3}
    Worker = {w1, w2}
    ContinueOnError = TRUE
    HasEmitter = FALSE
    MaxDeps = 1
PROPERTY WaitReturns
PROPERTY WorkersExit
