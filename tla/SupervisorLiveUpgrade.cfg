CONSTANTS
    Goroutines = {g1, g2}
    NoG = NoG
    NoBundle = NoBundle
    Bundles <- Upgrade
    Limits <- Replace
    MaxVerifyFails = 1
    MaxCrashes = 0
SPECIFICATION LiveSpec
PROPERTY UpgradeApplied
PROPERTY TableKept
