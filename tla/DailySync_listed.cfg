SPECIFICATION DailySpec
CONSTANTS
    Accounts = {a1}
    Comics = {c1}
    Copies = 1
    NoEntry = NoEntry
    MaxRuns = 4
    Slots = 2
    Limits <- QuietLimits
INVARIANT MarkedMeansListed
CHECK_DEADLOCK FALSE
