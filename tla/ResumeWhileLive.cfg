CONSTANTS
    Goroutines = {g1, g2}
    NoG = NoG
    NoBundle = NoBundle
    Bundles <- OneBundle
    Limits <- Resume
    MaxVerifyFails = 1
    MaxCrashes = 1
SYMMETRY Perms
SPECIFICATION Spec
INVARIANT ResumeFindsNoGoroutine
