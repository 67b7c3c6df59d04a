SPECIFICATION Spec
CONSTANTS
    Comics = {c1, c2}
    Workers = {w1, w2, w3}
    MaxJobs = 2
    Concurrency = 2
    NoComic = NoComic
    NoWorker = NoWorker
    Limits <- FaultLimits
SYMMETRY Symmetry
INVARIANTS TypeOK FilesExclusive RunningHasWorker CanceledOnRequest
PROPERTY ImplementsBoard
