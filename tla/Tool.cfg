SPECIFICATION ToolSpec
CONSTANTS
    Invocations <- AllInvocations
    Worlds <- AllWorlds
    MaxCalls = 2
    ImportLists <- FileImports
    RequestLists <- FileRequests
    Base <- BaseOf
    PkgName <- NameOf
    Parts = {"generator", "command", "emitters"}
INVARIANT NamesResolve
INVARIANT SourceKept
INVARIANT HeaderInverted
INVARIANT EveryFileAnswered
INVARIANT OutputsRight
INVARIANT EachInOrder
