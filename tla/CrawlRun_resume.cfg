\* Three commands: a crawl, a crawl that does not reach every list, a resume.
CONSTANTS
    Webs = {1, 2, 3, 4, 5}
    Root = 1
    Children <- FarmChildren
    MaxDepth = 2
    Lists = {1, 2, 3}
    WebOf <- FarmWebOf
    Info <- FarmInfo
    Title <- FarmTitle
    WebInclude = {}
    WebExclude <- ByUrlAndTitle
    Setups <- OneSetup
    MaxRuns = 3
    MaxFaults = 1
SPECIFICATION Spec
INVARIANT ResumeFinishesCrawl
CHECK_DEADLOCK FALSE
