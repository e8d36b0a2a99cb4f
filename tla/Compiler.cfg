SPECIFICATION DirectiveSpec
CONSTANTS
    A = A
    B = B
    C = C
    Plain <- PlainFlow
    Odd <- OddFlow
    UserTypes = {A, B, C}
    MaxArgs = 4
    MaxOdd = 1
    AutoInstrument = TRUE
    PlainParallel <- PlainPartsOfParallel
    OddParallel <- OddPartsOfParallel
    MaxParallelOdd = 1
    MaxParallelArgs = 3
    AssignableTo <- SomeToOthers
INVARIANT FlowCrashesOnInvokeOnly
INVARIANT FlowAcceptedIffDocumented
INVARIANT FlowSortedForEnqueue
INVARIANT FlowCycleReported
INVARIANT ParallelAcceptedIffDocumented
INVARIANT ParallelEverythingNumbered
