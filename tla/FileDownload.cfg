\* Two files of one item and one name, a pool of two threads, two runs.
CONSTANTS
    Targets = {a, b}
    Shared = {a, b}
    Concurrency = 2
    MaxChunks = 2
    Suffixes = 1
    MaxRuns = 2
    Hole = Hole
SPECIFICATION FairSpec
INVARIANTS Consistent TrueRecords
PROPERTIES RecordedFilesStay EveryTargetAnswered
CHECK_DEADLOCK FALSE
