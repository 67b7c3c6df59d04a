SPECIFICATION Spec
CONSTANTS
    Comics = {c1, c2}
    Workers = {w1, w2, w3}
    MaxJobs = 2
    Concurrency = 1
    NoComic = NoComic
    NoWorker = NoWorker
    Limits <- ShutdownLimits
SYMMETRY Symmetry
INVARIANT CanceledOnRequest
