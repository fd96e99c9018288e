SPECIFICATION Spec
CONSTANTS
    Ids = {1, 2, 3}
    AtFirst <- FarmRows
    MayGrow = {"comments"}
    ServerOrder <- FarmOrder
    ServerPage = 2
    PageSize = 2
    MinPageSize = 1
    Servers <- FarmServers
    Options <- FarmOptions
    Columns <- FarmColumns
    Housekeeping = {"CreatedById"}
    Link = "BugId"
    Value <- FarmValue
    Created <- FarmCreated
    File <- FarmFiles
    MaxRuns = 2
    MaxFaults = 3
INVARIANT ResumesCorrectly
CHECK_DEADLOCK FALSE
