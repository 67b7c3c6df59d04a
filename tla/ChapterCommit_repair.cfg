SPECIFICATION Spec
CONSTANTS
    Manifests <- Lists
    Length <- Lengths
    MaxPages = 2
    NoDir = NoDir
    Limits <- RepairLimits
INVARIANT RepairReplaces
