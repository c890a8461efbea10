SPECIFICATION Spec
CONSTANTS
    t1 = t1
    t2 = t2
    Absent = Absent
    Targets <- MCTargets
    Https <- MCHttps
    Gaps <- MCGaps
    OooMin = 2
    OooShare = 100
    MaxCalls = 2
    MaxAttempts = 2
    Segments = 2
    Bulk = 250
    Timeout = 3
    Slack = 2
    Granularity = 2
    ReachAttempts = 3
INVARIANTS
    UnrecordedIsUnknown
CHECK_DEADLOCK FALSE
