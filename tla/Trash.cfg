SPECIFICATION Spec
CONSTANTS
    Comics = {c1, c2}
    MaxRows = 3
    NoComic = NoComic
    Limits <- FaultLimits
SYMMETRY Symmetry
INVARIANTS TypeOK BinIntact Restorable LibraryTruthful
PROPERTY RestoredMeansShelved
