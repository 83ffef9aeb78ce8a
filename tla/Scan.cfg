CONSTANTS
    Names <- MCNames
    AppIds <- MCIds
    PreviousOf <- MCPreviousOf
    Dirs <- MCDirs
    Pins <- MCPins
    ManifestOf <- MCManifestOf
    SigBackoffStart = 1
    SigBackoffMax = 3
    SigQuarantineAfter = 2
SPECIFICATION LiveSpec
INVARIANTS ScanInv AdoptedTrusted QuietWhenUnchanged AttemptsSpaced
PROPERTY TrustedAdopted
