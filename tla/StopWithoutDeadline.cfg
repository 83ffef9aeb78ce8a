CONSTANTS
    Callers = {c1, c2}
    MaxStarts = 2
SPECIFICATION LiveSpec
PROPERTY StopReturns
CHECK_DEADLOCK FALSE
