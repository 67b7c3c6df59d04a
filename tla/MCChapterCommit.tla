-------------------------- MODULE MCChapterCommit ---------------------------
(* An instance of ChapterCommit for TLC: two lists of different lengths.   *)
EXTENDS ChapterCommit, TLC

Lists == {"m1", "m2"}
Lengths == [m \in Lists |-> IF m = "m1" THEN 2 ELSE 1]

\* Two pages go bad; one of everything else that can happen to a chapter.
FaultLimits == [change |-> 1, rot |-> 2, fault |-> 1, crash |-> 1]

\* A page is bad, and another one fails to be fetched.
RepairLimits == [change |-> 0, rot |-> 2, fault |-> 1, crash |-> 0]
=============================================================================
