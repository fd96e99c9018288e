\* A run from scratch interrupted between unlinking the files and its first save.
CONSTANTS
    MaxId = 4
    PageSize = 2
    ServerCap = 2
SPECIFICATION Spec
INVARIANT SafeToInterrupt
