\* One list, pages of two rows, up to four items ever created.
CONSTANTS
    MaxId = 4
    PageSize = 2
    ServerCap = 2
SPECIFICATION FairSpec
INVARIANTS IInv NoGaps NoDuplicates CompleteIsWhole CompleteIsLockstep
PROPERTIES RunEnds ImplementsMirror
