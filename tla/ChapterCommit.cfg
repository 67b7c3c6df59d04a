SPECIFICATION FairSpec
CONSTANTS
    Manifests <- Lists
    Length <- Lengths
    MaxPages = 2
    NoDir = NoDir
    Limits <- FaultLimits
INVARIANTS TypeOK DoneIsWhole
PROPERTIES GoodPagesKept ImplementsShelf NeverStuck
