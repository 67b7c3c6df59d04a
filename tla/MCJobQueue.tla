----------------------------- MODULE MCJobQueue -----------------------------
(* Instances of JobQueue for TLC: bounds on the events that may repeat.    *)
EXTENDS JobQueue, TLC

\* A retry, a crash and a lost status write.
FaultLimits ==
    [retry |-> 1, crash |-> 1, shutdown |-> 0, writeFailure |-> 1]

\* Retries only.
RetryLimits ==
    [retry |-> 1, crash |-> 0, shutdown |-> 0, writeFailure |-> 0]

\* A graceful shutdown only.
ShutdownLimits ==
    [retry |-> 0, crash |-> 0, shutdown |-> 1, writeFailure |-> 0]

Symmetry == Permutations(Comics) \cup Permutations(Workers)
=============================================================================
