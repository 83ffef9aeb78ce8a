CONSTANTS
    Goroutines = {g1}
    NoG = NoG
    NoBundle = NoBundle
    Bundles <- OneBundle
    Limits <- LiveRemove
    MaxVerifyFails = 2
    MaxCrashes = 1
SPECIFICATION LiveSpec
PROPERTY ShutdownDrains
PROPERTY UninstallStops
INVARIANT TypeOK
