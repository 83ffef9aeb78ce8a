CONSTANTS
    MaxCalls = 4
    Callers = {c1, c2}
    MaxStarts = 2
    a = a
    b = b
    c = c
    Trusted = Trusted
    NoManifest = NoManifest
    MaxChanges = 3
SPECIFICATION MCLiveSpec
INVARIANTS OneSupervisor LockHeldByDrain DialAuthorized
INVARIANTS IpcInv OwnReply RunAtMostOnce CleanEndAnswered
PROPERTIES RequestsAnswered CallReturns
CHECK_DEADLOCK FALSE
