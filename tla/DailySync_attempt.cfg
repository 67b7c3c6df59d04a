SPECIFICATION FairDailySpec
CONSTANTS
    Accounts = {a1, a2}
    Comics = {c1}
    Copies = 1
    NoEntry = NoEntry
    MaxRuns = 2
    Slots = 1
    Limits <- AttemptLimits
PROPERTY AttemptsReturn
CHECK_DEADLOCK FALSE
