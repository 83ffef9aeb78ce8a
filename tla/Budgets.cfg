CONSTANTS
    Nodes = {"a", "b"}
    Requests <- MCRequests
    Crasher = "a"
    MaxReqs = 2
    Window = 2
    MaxTime = 6
    MaxEvents = 6
    PerToken = 2
    Rate = 1
    Burst = 2
    CrashLoopWindow = 3
    MaxCrashesInWindow = 2
SPECIFICATION MCSpec
INVARIANTS LimiterInv ServedProven WindowBound NoStaleBuckets BudgetsInv BucketExact SuspendedExactly
PROPERTY ExactBudget
CHECK_DEADLOCK FALSE
