SPECIFICATION AnswersSpec
CONSTANTS
    Readers = {r1, r2}
    Keys = {k1, k2}
    Flights = {f1, f2}
    Slots = 1
    NoKey = NoKey
    NoFlight = NoFlight
    Workers = {w1, w2}
    TransferSlots = 1
    Attempts = 2
    Hosts = 2
    Comics = {1, 2}
    Starts <- FirstLists
    Callers = {c1}
    PageSize = 1
    MaxPages = 2
    FavLimits <- FavFaults
    Books = {b1, b2}
    Chapters = 1
    HealthLimits <- HealthBounds
INVARIANTS FetchIsShared SlotsKept
PROPERTIES EveryoneAnswered FetchEnds CallersAnswered HealthEnds
CHECK_DEADLOCK FALSE
