SPECIFICATION Spec
CONSTANTS
    Task <- ThreeTasks
    MaxSpecial = 1
    MaxSources = 2
INVARIANT TypeOK
INVARIANT InputsSettled
INVARIANT ResultsFinal
INVARIANT OneVerdict
INVARIANT FailuresReported
INVARIANT AccountedFor
