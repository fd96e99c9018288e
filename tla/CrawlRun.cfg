\* Two commands, two failures between them.
CONSTANTS
    Webs = {1, 2, 3, 4, 5}
    Root = 1
    Children <- FarmChildren
    MaxDepth = 2
    Lists = {1, 2, 3}
    WebOf <- FarmWebOf
    Info <- FarmInfo
    Title <- FarmTitle
    WebInclude = {}
    WebExclude <- ByUrlAndTitle
    Setups <- FarmSetups
    MaxRuns = 2
    MaxFaults = 2
SPECIFICATION FairSpec
INVARIANTS Consistent OmissionsExplained NoListLost CountsAddUp OwnRows
PROPERTIES NothingLeftInMemory RunsEnd
CHECK_DEADLOCK FALSE
