CONSTANTS
    MaxCalls = 1
    Callers = {c1, c2}
    MaxStarts = 1
    a = a
    b = b
    c = c
    Trusted = Trusted
    NoManifest = NoManifest
    MaxChanges = 1
SPECIFICATION MCSpec
INVARIANT UsageAfterEveryCall
CHECK_DEADLOCK FALSE
