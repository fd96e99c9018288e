\* Two items, four changes, batches of one change, two batches per sync.
CONSTANTS
    MaxId = 2
    MaxLog = 4
    RowLimit = 1
    MaxBatches = 2
    NoToken = NoToken
SPECIFICATION Spec
INVARIANTS Consistent UpToDate
