SPECIFICATION FairSpec
CONSTANTS
    Comics = {c1, c2}
    Workers = {w1, w2}
    MaxJobs = 2
    Concurrency = 1
    NoComic = NoComic
    NoWorker = NoWorker
    Limits <- ShutdownLimits
PROPERTY JobsServed
