\* A sync fails halfway and `crawl --resume` takes over.
CONSTANTS
    MaxId = 2
    MaxLog = 4
    RowLimit = 1
    MaxBatches = 2
    NoToken = NoToken
SPECIFICATION Spec
INVARIANT NoGapsAtFinish
