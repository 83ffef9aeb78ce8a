CONSTANTS
    Nodes = {"a", "b"}
    Requests <- MCRequests
    Crasher = "a"
    MaxReqs = 2
    Window = 2
    MaxTime = 3
    MaxEvents = 6
    PerToken = 2
    Rate = 1
    Burst = 2
    CrashLoopWindow = 6
    MaxCrashesInWindow = 5
SPECIFICATION MCSpec
INVARIANT CapSuspends
CHECK_DEADLOCK FALSE
