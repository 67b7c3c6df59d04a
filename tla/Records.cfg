SPECIFICATION RecordsSpec
CONSTANTS
    Comics = {1, 2, 3}
    Starts <- FirstLists
    Callers = {w1}
    PageSize = 1
    MaxPages = 2
    FavLimits <- FavFaults
    Handlers = {h1, h2}
    Tries = 3
    Listers = {l1, l2}
    PartSize = 2
    MaxImages = 5
    MaxUnready = 1
    PartSlots = 1
    NoList = NoList
    Aids <- SomeAids
    Thresholds <- SomeThresholds
    Heights <- SomeHeights
    Askers = {a1, a2}
    Books = {b1, b2}
    Chapters = 2
    HealthLimits <- HealthBounds
    Logins = {g1, g2}
    MaxKeys = 2
    VaultLimits <- VaultBounds
    SourceCallers = {s1, s2}
    MaxUpdates = 2
    SettingsStops = 1
    Devices <- Clocks
    Skew <- PhoneAhead
    Ahead = 1
    MaxTime = 3
INVARIANTS RecordsTypeOK FreshMeansCurrent ToggleHonest ListTruthful
    RowsRestored RepairJustified OneKeyOpensAll CopiesOpen ChangesKept
    ClientsFollow NewestPositionWins
PROPERTY SnapshotWhole
CHECK_DEADLOCK FALSE
