SPECIFICATION Spec
CONSTANTS
    Comics = {c1, c2, c3}
    Workers = {w1, w2, w3, w4}
    MaxJobs = 3
    Concurrency = 2
    NoComic = NoComic
    NoWorker = NoWorker
    Limits <- RetryLimits
SYMMETRY Symmetry
INVARIANT DownloadsWithinLimit
