------------------------------ MODULE JobBoard ------------------------------
(***************************************************************************)
(* What the jobs table promises to the rest of the program and to the      *)
(* clients of the API, without goroutines, locks or the running map: the   *)
(* only ways a row may change.  JobQueue implements this specification.    *)
(***************************************************************************)
EXTENDS Integers

CONSTANTS Comics, MaxJobs, NoComic

VARIABLES status, comic

Rows == 1..MaxJobs
Ended == {"done", "failed", "canceled"}
Pending == {"queued", "running"}

Free(c) == \A j \in Rows : comic[j] = c => status[j] \notin Pending

Init ==
    /\ status = [j \in Rows |-> "none"]
    /\ comic = [j \in Rows |-> NoComic]

Submit(j, c) ==
    /\ status[j] = "none"
    /\ Free(c)
    /\ status' = [status EXCEPT ![j] = "queued"]
    /\ comic' = [comic EXCEPT ![j] = c]

\* Some queued jobs start together.
Start(S) ==
    /\ \A j \in S : status[j] = "queued"
    /\ status' = [j \in Rows |-> IF j \in S THEN "running" ELSE status[j]]
    /\ UNCHANGED comic

Settle(j, s) ==
    /\ status[j] = "running"
    /\ status' = [status EXCEPT ![j] = s]
    /\ UNCHANGED comic

Withdraw(j) ==
    /\ status[j] = "queued"
    /\ status' = [status EXCEPT ![j] = "canceled"]
    /\ UNCHANGED comic

Reopen(j) ==
    /\ status[j] \in Ended
    /\ Free(comic[j])
    /\ status' = [status EXCEPT ![j] = "queued"]
    /\ UNCHANGED comic

Forget(j) ==
    /\ status[j] \in Ended
    /\ status' = [status EXCEPT ![j] = "deleted"]
    /\ UNCHANGED comic

\* A restart puts every job that was running back into the queue.
Recover ==
    /\ status' = [j \in Rows |->
                    IF status[j] = "running" THEN "queued" ELSE status[j]]
    /\ UNCHANGED comic

Next ==
    \/ \E j \in Rows :
        \/ \E c \in Comics : Submit(j, c)
        \/ \E s \in Ended : Settle(j, s)
        \/ Withdraw(j) \/ Reopen(j) \/ Forget(j)
    \/ \E S \in SUBSET Rows : Start(S)
    \/ Recover

Spec == Init /\ [][Next]_<<status, comic>>
=============================================================================
