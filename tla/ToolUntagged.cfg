SPECIFICATION ToolSpec
CONSTANTS
    Invocations <- AllInvocations
    Worlds <- AllWorlds
    MaxCalls = 1
    ImportLists <- FileImports
    RequestLists <- FileRequests
    Base <- BaseOf
    PkgName <- NameOf
    Parts = {"command"}
INVARIANT UntaggedReported
