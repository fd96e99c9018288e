\* Two threads, two attempts per request, two URLs to prime against.
CONSTANTS
    Threads = {t1, t2}
    NoThread = NoThread
    Interval = 2
    MaxRetries = 2
    Candidates = 2
    PrimingOn = TRUE
    MaxCalls = 1
SPECIFICATION FairSpec
INVARIANTS FewLogons RepeatedWhenAccepted FewRequests
PROPERTIES Spaced CallsEnd
CHECK_DEADLOCK FALSE
