CONSTANTS
    Goroutines = {g1, g2}
    NoG = NoG
    NoBundle = NoBundle
    Bundles <- RebuiltOrBad
    Limits <- Disrupt
    MaxVerifyFails = 2
    MaxCrashes = 0
SYMMETRY Perms
SPECIFICATION Spec
INVARIANTS OneProcessPerBinary CancelTable NoStraySupervisor
INVARIANTS IInv DrainedOnExit
