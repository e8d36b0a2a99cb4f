SPECIFICATION DirectiveSpec
CONSTANTS
    A = A
    B = B
    C = C
    Plain <- PlainFlow
    Odd <- OddFlow
    UserTypes = {A, B, C}
    MaxArgs = 0
    MaxOdd = 1
    AutoInstrument = TRUE
    PlainParallel <- PlainPartsOfParallel
    OddParallel <- OddPartsOfParallel
    MaxParallelOdd = 1
    MaxParallelArgs = 1
    AssignableTo <- SomeToOthers
INVARIANT ParallelSliceCodeCompiles
