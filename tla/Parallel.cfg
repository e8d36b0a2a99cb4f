SPECIFICATION Spec
CONSTANTS
    Task = {t1, t2}
    Collection = {c1}
    MaxSize = 2
SYMMETRY Symmetry
INVARIANT TypeOK
INVARIANT EndAfterElements
INVARIANT ErrorIsRight
INVARIANT TasksAccountedFor
INVARIANT EverythingRan
INVARIANT SkippedOnlyAfterCancel
