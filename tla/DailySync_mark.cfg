SPECIFICATION DailySpec
CONSTANTS
    Accounts = {a1}
    Comics = {c1, c2}
    Copies = 2
    NoEntry = NoEntry
    MaxRuns = 3
    Slots = 1
    Limits <- FaultLimits
SYMMETRY ComicSymmetry
INVARIANTS TypeOK CheckpointOwned HistoryTruthful MarkedMeansSucceeded
PROPERTY ImplementsLedger
CHECK_DEADLOCK FALSE
