SPECIFICATION Spec
CONSTANTS
    Task <- TwoTasks
    MaxSpecial = 0
    MaxSources = 2
INVARIANT ContextInvalidated
