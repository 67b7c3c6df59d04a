------------------------------ MODULE JobQueue ------------------------------
(***************************************************************************)
(* The download queue of internal/engine and internal/store: the jobs      *)
(* table (durable), the map Engine.running from job ids to the cancel      *)
(* function of a goroutine, the goroutines that run runJob, the dispatch   *)
(* loop, and the callers that hold Engine.opMu (enqueue, cancel, retry,    *)
(* delete, recycle bin, health-check reservation).                         *)
(*                                                                         *)
(* Everything done under opMu is one action.  A goroutine holds no lock,   *)
(* so its run is split where it reads its context, writes the jobs table   *)
(* or touches the running map: these steps interleave with all the others. *)
(***************************************************************************)
EXTENDS Integers, FiniteSets, Functions

CONSTANTS
    Comics,       \* comics, each standing for a pair (kind, comic_id)
    Workers,      \* goroutines of runJob that can exist at the same time
    MaxJobs,      \* bound: rows ever inserted into the jobs table
    Concurrency,  \* Settings.Concurrency, 1..8 in the program
    Limits,       \* bounds on retries, crashes, shutdowns, failed writes
    NoComic,      \* comic of a row not inserted yet
    NoWorker      \* absent entry of the running map

JobIds == 1..MaxJobs
Events == {"retry", "crash", "shutdown", "writeFailure"}

ASSUME MaxJobsAssumption == MaxJobs \in Nat
ASSUME ConcurrencyAssumption == Concurrency \in 1..8
ASSUME LimitsAssumption == Limits \in [Events -> Nat]
ASSUME NoComicAssumption == NoComic \notin Comics
ASSUME NoWorkerAssumption == NoWorker \notin Workers

VARIABLES
    server,    \* "up", "stopping" (ctx canceled by SIGTERM), "down"
    created,   \* rows inserted so far: ids come from AUTOINCREMENT
    status,    \* jobs.status, "none" before the insert, "deleted" after it
    comic,     \* jobs.kind and jobs.comic_id
    running,   \* Engine.running: job id -> goroutine whose cancel it holds
    phase,     \* where each goroutine is
    jobOf,     \* the job a goroutine was started for, 0 when idle
    outcome,   \* result of the download, then the status to write
    canceled,  \* goroutines whose context is canceled
    checking,  \* Engine.checking: comics reserved by a health check
    trash,     \* comics with a pending or trashed row of the trash table
    diskLow,   \* DownloadStatus() # ""
    asked,     \* jobs for which Cancel returned nil (history)
    used       \* events spent, against Limits

vars == <<server, created, status, comic, running, phase, jobOf, outcome,
          canceled, checking, trash, diskLow, asked, used>>

Active == {"queued", "running"}
Terminal == {"done", "failed", "canceled"}
Statuses == {"none", "deleted"} \cup Active \cup Terminal

\* Phases in which a goroutine may still touch the comic's files or row.
Working == {"prepare", "download", "redownload", "verify", "write"}
Phases == {"idle", "exit"} \cup Working

Idle == {w \in Workers : phase[w] = "idle"}
Queued == {j \in JobIds : status[j] = "queued"}
ActiveJobs(c) == {j \in JobIds : comic[j] = c /\ status[j] \in Active}
Held == {j \in JobIds : running[j] # NoWorker}

Spend(e) == used[e] < Limits[e] /\ used' = [used EXCEPT ![e] = @ + 1]

Init ==
    /\ server = "up"
    /\ created = 0
    /\ status = [j \in JobIds |-> "none"]
    /\ comic = [j \in JobIds |-> NoComic]
    /\ running = [j \in JobIds |-> NoWorker]
    /\ phase = [w \in Workers |-> "idle"]
    /\ jobOf = [w \in Workers |-> 0]
    /\ outcome = [w \in Workers |-> "none"]
    /\ canceled = {}
    /\ checking = {}
    /\ trash = {}
    /\ diskLow \in BOOLEAN
    /\ asked = {}
    /\ used = [e \in Events |-> 0]

-----------------------------------------------------------------------------
(* Callers that hold opMu.  Handlers in flight go on while the server stops.*)

\* A second request for a comic that has an active job returns that job's id
\* and changes nothing, so only the insert is a step.
Enqueue(c) ==
    /\ server # "down"
    /\ c \notin checking
    /\ c \notin trash
    /\ ActiveJobs(c) = {}
    /\ created < MaxJobs
    /\ created' = created + 1
    /\ status' = [status EXCEPT ![created + 1] = "queued"]
    /\ comic' = [comic EXCEPT ![created + 1] = c]
    /\ UNCHANGED <<server, running, phase, jobOf, outcome, canceled,
                   checking, trash, diskLow, asked, used>>

\* Wrong variant of Cancel: it ends the row at once, goroutine or not.
CancelAtOnce(j) ==
    /\ server # "down"
    /\ status[j] \in Active
    /\ canceled' = canceled \cup ({running[j]} \ {NoWorker})
    /\ status' = [status EXCEPT ![j] = "canceled"]
    /\ asked' = asked \cup {j}
    /\ UNCHANGED <<server, created, comic, running, phase, jobOf, outcome,
                   checking, trash, diskLow, used>>

\* An entry of the running map takes precedence over the row's status.
Cancel(j) ==
    /\ server # "down"
    /\ \/ /\ running[j] # NoWorker
          /\ canceled' = canceled \cup {running[j]}
          /\ UNCHANGED status
       \/ /\ running[j] = NoWorker
          /\ status[j] = "queued"
          /\ status' = [status EXCEPT ![j] = "canceled"]
          /\ UNCHANGED canceled
    /\ asked' = asked \cup {j}
    /\ UNCHANGED <<server, created, comic, running, phase, jobOf, outcome,
                   checking, trash, diskLow, used>>

\* Wrong variant of Retry: it does not look for another active job.
RetryUnchecked(j) ==
    /\ server # "down"
    /\ status[j] \in Terminal
    /\ comic[j] \notin checking \cup trash
    /\ Spend("retry")
    /\ status' = [status EXCEPT ![j] = "queued"]
    /\ asked' = asked \ {j}
    /\ UNCHANGED <<server, created, comic, running, phase, jobOf, outcome,
                   canceled, checking, trash, diskLow>>

Retry(j) ==
    /\ server # "down"
    /\ status[j] \in Terminal
    /\ comic[j] \notin checking
    /\ ActiveJobs(comic[j]) = {}
    /\ comic[j] \notin trash
    /\ Spend("retry")
    /\ status' = [status EXCEPT ![j] = "queued"]
    /\ asked' = asked \ {j}
    /\ UNCHANGED <<server, created, comic, running, phase, jobOf, outcome,
                   canceled, checking, trash, diskLow>>

DeleteJob(j) ==
    /\ server # "down"
    /\ status[j] \in Terminal
    /\ status' = [status EXCEPT ![j] = "deleted"]
    /\ UNCHANGED <<server, created, comic, running, phase, jobOf, outcome,
                   canceled, checking, trash, diskLow, asked, used>>

\* DeleteComic with files: the recycle bin takes the comic's directory.
MoveToTrash(c) ==
    /\ server # "down"
    /\ c \notin checking
    /\ ActiveJobs(c) = {}
    /\ trash' = trash \cup {c}
    /\ UNCHANGED <<server, created, status, comic, running, phase, jobOf,
                   outcome, canceled, checking, diskLow, asked, used>>

RestoreTrash(c) ==
    /\ server # "down"
    /\ c \in trash
    /\ ActiveJobs(c) = {}
    /\ trash' = trash \ {c}
    /\ UNCHANGED <<server, created, status, comic, running, phase, jobOf,
                   outcome, canceled, checking, diskLow, asked, used>>

\* checkComic reserves the comic, one at a time: a single health run exists.
ReserveCheck(c) ==
    /\ server # "down"
    /\ checking = {}
    /\ ActiveJobs(c) = {}
    /\ checking' = {c}
    /\ UNCHANGED <<server, created, status, comic, running, phase, jobOf,
                   outcome, canceled, trash, diskLow, asked, used>>

ReleaseCheck ==
    /\ checking # {}
    /\ checking' = {}
    /\ UNCHANGED <<server, created, status, comic, running, phase, jobOf,
                   outcome, canceled, trash, diskLow, asked, used>>
-----------------------------------------------------------------------------
(* The dispatch loop, every 800 ms under opMu.                             *)

\* The loop claims queued jobs in id order while len(running) < Concurrency.
\* Claiming a job whose old entry is still in the map overwrites the entry.
ClaimSet ==
    {j \in Queued :
        Cardinality(Held \cup {i \in Queued : i < j}) < Concurrency}

\* The jobs of ClaimSet start, each on the goroutine f gives it.
Claim(f) ==
    /\ status' = [j \in JobIds |->
                    IF j \in ClaimSet THEN "running" ELSE status[j]]
    /\ running' = [j \in JobIds |->
                    IF j \in ClaimSet THEN f[j] ELSE running[j]]
    /\ phase' = [w \in Workers |->
                    IF w \in Range(f) THEN "prepare" ELSE phase[w]]
    /\ jobOf' = [w \in Workers |->
                    IF w \in Range(f) THEN CHOOSE j \in ClaimSet : f[j] = w
                                      ELSE jobOf[w]]
    /\ canceled' = IF server = "stopping" THEN canceled \cup Range(f)
                                          ELSE canceled

\* One tick.  The loop selects between ctx.Done and the ticker, so a last
\* tick may come after the shutdown signal; its goroutines are born canceled.
Dispatch ==
    /\ server # "down"
    /\ ~diskLow
    /\ ClaimSet # {}
    /\ \E f \in Injection(ClaimSet, Idle) : Claim(f)
    /\ UNCHANGED <<server, created, comic, outcome, checking, trash, diskLow,
                   asked, used>>

-----------------------------------------------------------------------------
(* runJob, on its own goroutine.                                           *)

Goto(w, p, o) ==
    /\ phase' = [phase EXCEPT ![w] = p]
    /\ outcome' = [outcome EXCEPT ![w] = o]
    /\ UNCHANGED <<server, created, status, comic, running, jobOf, canceled,
                   checking, trash, diskLow, asked, used>>

\* Wrong variant of FailStatus: the outcome is stored instead of a status.
FailStatusRaw(w) == IF w \in canceled THEN "canceled" ELSE "error"

\* Wrong variant of FailStatus: every failure counts as a cancellation.
FailStatusCanceled(w) == "canceled"

\* fail(): the status is chosen from the context at this moment.
FailStatus(w) == IF w \in canceled THEN "canceled" ELSE "failed"

\* Account lookup, source construction and EnsureCred.
Prepare(w) ==
    /\ phase[w] = "prepare"
    /\ \/ Goto(w, "download", "none")
       \/ Goto(w, "write", FailStatus(w))

\* The first Download may end with ErrAuth: one relogin, one more Download.
\* A relogin that fails leaves ErrAuth as the result (EndDownload).
Relogin(w) ==
    /\ phase[w] = "download"
    /\ Goto(w, "redownload", "none")

\* The progress callback stores the counters together with the status
\* "running", whatever the row says by then.  Both downloads wait for the
\* goroutines that call it (stopTicker, wg.Wait) before they return.
ReportProgress(w) ==
    /\ phase[w] \in {"download", "redownload"}
    /\ status' = [status EXCEPT ![jobOf[w]] = "running"]
    /\ UNCHANGED <<server, created, comic, running, phase, jobOf, outcome,
                   canceled, checking, trash, diskLow, asked, used>>

EndDownload(w) ==
    /\ phase[w] \in {"download", "redownload"}
    /\ \E o \in {"ok", "error"} : Goto(w, "verify", o)

\* Verification runs only with a live context; then the switch at the end of
\* runJob chooses the status to write.
Verify(w) ==
    /\ phase[w] = "verify"
    /\ \/ /\ w \notin canceled
          /\ outcome[w] = "ok"
          /\ Goto(w, "write", "done")
       \/ Goto(w, "write", FailStatus(w))

\* SetJobStatus or FinishJobProgress; their errors are dropped.
WriteStatus(w) ==
    /\ phase[w] = "write"
    /\ phase' = [phase EXCEPT ![w] = "exit"]
    /\ outcome' = [outcome EXCEPT ![w] = "none"]
    /\ \/ /\ status' = [status EXCEPT ![jobOf[w]] = outcome[w]]
          /\ UNCHANGED used
       \/ /\ Spend("writeFailure")
          /\ UNCHANGED status
    /\ UNCHANGED <<server, created, comic, running, jobOf, canceled, checking,
                   trash, diskLow, asked>>

\* The deferred calls: cancel(), then delete(e.running, job.ID), which does
\* not look whose entry it deletes.
Exit(w) ==
    /\ phase[w] = "exit"
    /\ running' = [running EXCEPT ![jobOf[w]] = NoWorker]
    /\ phase' = [phase EXCEPT ![w] = "idle"]
    /\ jobOf' = [jobOf EXCEPT ![w] = 0]
    /\ canceled' = canceled \ {w}
    /\ UNCHANGED <<server, created, status, comic, outcome, checking, trash,
                   diskLow, asked, used>>

-----------------------------------------------------------------------------
(* The process and its environment.                                        *)

\* SIGTERM cancels the context every job context derives from.  main waits
\* for HTTP handlers and sync runs, not for downloads.
Shutdown ==
    /\ server = "up"
    /\ Spend("shutdown")
    /\ server' = "stopping"
    /\ canceled' = canceled \cup {w \in Workers : phase[w] # "idle"}
    /\ UNCHANGED <<created, status, comic, running, phase, jobOf, outcome,
                   checking, trash, diskLow, asked>>

\* The process ends: everything but the database is lost.
Halt ==
    /\ server' = "down"
    /\ running' = [j \in JobIds |-> NoWorker]
    /\ phase' = [w \in Workers |-> "idle"]
    /\ jobOf' = [w \in Workers |-> 0]
    /\ outcome' = [w \in Workers |-> "none"]
    /\ canceled' = {}
    /\ checking' = {}
    /\ UNCHANGED <<created, status, comic, trash, diskLow, asked>>

Crash == server # "down" /\ Spend("crash") /\ Halt
EndProcess == server = "stopping" /\ Halt /\ UNCHANGED used

\* Wrong variant of Restart: running rows are left as they are.
RestartBare ==
    /\ server = "down"
    /\ server' = "up"
    /\ UNCHANGED <<created, status, comic, running, phase, jobOf, outcome,
                   canceled, checking, trash, diskLow, asked, used>>

\* Open and ResetRunningJobs: whatever was running is queued again.
Restart ==
    /\ server = "down"
    /\ server' = "up"
    /\ status' = [j \in JobIds |->
                    IF status[j] = "running" THEN "queued" ELSE status[j]]
    /\ UNCHANGED <<created, comic, running, phase, jobOf, outcome, canceled,
                   checking, trash, diskLow, asked, used>>

DiskChange ==
    /\ diskLow' = ~diskLow
    /\ UNCHANGED <<server, created, status, comic, running, phase, jobOf,
                   outcome, canceled, checking, trash, asked, used>>

-----------------------------------------------------------------------------

Calls ==
    \/ \E c \in Comics :
        Enqueue(c) \/ MoveToTrash(c) \/ RestoreTrash(c) \/ ReserveCheck(c)
    \/ \E j \in JobIds : Cancel(j) \/ Retry(j) \/ DeleteJob(j)
    \/ ReleaseCheck

RunJob(w) ==
    \/ Prepare(w) \/ Relogin(w) \/ EndDownload(w)
    \/ Verify(w) \/ WriteStatus(w) \/ Exit(w)

Process == Shutdown \/ Crash \/ EndProcess \/ Restart \/ DiskChange

Next ==
    \/ Calls
    \/ Dispatch
    \/ \E w \in Workers : RunJob(w) \/ ReportProgress(w)
    \/ Process

Spec == Init /\ [][Next]_vars

\* Wrong variant of Progress: waitDownload does not listen to its context.
ProgressDeaf(w) ==
    /\ ~diskLow \/ phase[w] \notin {"download", "redownload"}
    /\ RunJob(w)

\* The ticker keeps firing, goroutines are scheduled, every upstream request
\* has a timeout; but a download waits as long as the disk is low, unless its
\* context is canceled (waitDownload).
Progress(w) ==
    /\ ~diskLow \/ w \in canceled \/ phase[w] \notin {"download", "redownload"}
    /\ RunJob(w)

Fairness ==
    /\ WF_vars(Dispatch)
    /\ \A w \in Workers : WF_vars(Progress(w))
    /\ WF_vars(Restart)

FairSpec == Spec /\ Fairness

-----------------------------------------------------------------------------
(* Properties.                                                             *)

TypeOK ==
    /\ server \in {"up", "stopping", "down"}
    /\ created \in 0..MaxJobs
    /\ status \in [JobIds -> Statuses]
    /\ comic \in [JobIds -> Comics \cup {NoComic}]
    /\ running \in [JobIds -> Workers \cup {NoWorker}]
    /\ phase \in [Workers -> Phases]
    /\ jobOf \in [Workers -> 0..MaxJobs]
    /\ outcome \in [Workers -> {"none", "ok", "error"} \cup Terminal]
    /\ canceled \subseteq Workers
    /\ checking \subseteq Comics
    /\ trash \subseteq Comics
    /\ diskLow \in BOOLEAN
    /\ asked \subseteq JobIds
    /\ used \in [Events -> Nat]

\* A comic never has two active jobs, whatever the order of requests,
\* retries, cancels, crashes and restarts (ActiveJobID, idx_jobs_active).
OneActivePerComic ==
    \A i, j \in JobIds :
        /\ status[i] \in Active /\ status[j] \in Active
        /\ comic[i] = comic[j]
        => i = j

\* Two goroutines never work on one comic: they would overwrite each other's
\* files (comment of ActiveJobID).  A canceled job keeps its row active until
\* its goroutine is through with the files, which is what makes this hold.
OneDownloadPerComic ==
    \A v, w \in Workers :
        /\ phase[v] \in Working /\ phase[w] \in Working
        /\ comic[jobOf[v]] = comic[jobOf[w]]
        => v = w

\* No goroutine works on a comic that is in the recycle bin or reserved by a
\* health check, and no queued job will (Enqueue, Retry, DeleteComic and
\* checkComic exclude each other through the active job, under opMu).
NoJobInTrashOrCheck ==
    \A c \in trash \cup checking :
        /\ ActiveJobs(c) = {}
        /\ \A w \in Workers : phase[w] \in Working => comic[jobOf[w]] # c

\* Whoever works on the files of a comic is alone with them.
FilesExclusive == OneDownloadPerComic /\ NoJobInTrashOrCheck

\* A running row has exactly the goroutine that will end it, as long as no
\* database write was lost: no job stays in "running" with nobody to end it.
RunningHasWorker ==
    (server # "down" /\ used["writeFailure"] = 0) =>
        \A j \in JobIds :
            status[j] = "running"
                <=> \E w \in Workers : phase[w] \in Working /\ jobOf[w] = j

\* A job ends as canceled only if somebody asked for it.
CanceledOnRequest == \A j \in JobIds : status[j] = "canceled" => j \in asked

\* No more than Concurrency goroutines download at a time (README, API.md).
DownloadsWithinLimit ==
    Cardinality({w \in Workers : phase[w] \in Working}) <= Concurrency

\* A job that ended is only ever changed by Retry (back to the queue) or by
\* DeleteJob: a late goroutine never rewrites it.  ImplementsBoard implies it,
\* and OneActivePerComic as well.
EndedStaysEnded ==
    [][\A j \in JobIds :
        (status[j] \in Terminal /\ status'[j] # status[j])
            => status'[j] \in {"queued", "deleted"}]_vars

\* The rows of the jobs table change only as JobBoard allows, whatever is lost.
Board == INSTANCE JobBoard
ImplementsBoard == Board!Spec

-----------------------------------------------------------------------------
(* The inductive invariant behind the safety properties.                   *)

\* Rows are inserted in id order and never come back once deleted.
RowsInOrder == \A j \in JobIds : status[j] = "none" <=> j > created

\* A process that is down runs no goroutine.
DownIsIdle == server = "down" => \A w \in Workers : phase[w] = "idle"

\* A goroutine that still works has a running row to itself.
WorkersOwnRows ==
    \A w \in Workers : phase[w] \in Working =>
        /\ jobOf[w] \in JobIds
        /\ status[jobOf[w]] = "running"
        /\ \A v \in Workers :
            (phase[v] \in Working /\ jobOf[v] = jobOf[w]) => v = w

\* A goroutine about to write has chosen a final status.
VerdictChosen == \A w \in Workers : phase[w] = "write" => outcome[w] \in Terminal

\* A comic in the recycle bin or under a health check has no active job.
QuarantineFree == \A c \in trash \cup checking : ActiveJobs(c) = {}

IInv ==
    /\ TypeOK
    /\ RowsInOrder
    /\ DownIsIdle
    /\ WorkersOwnRows
    /\ VerdictChosen
    /\ OneActivePerComic
    /\ QuarantineFree
    /\ RunningHasWorker

-----------------------------------------------------------------------------
(* Liveness.                                                               *)

\* A queued job does not wait for ever once the disk has room for good, and a
\* canceled download ends even if the disk stays low for ever.
JobsServed ==
    /\ <>[]~diskLow =>
          \A j \in JobIds : status[j] = "queued" ~> status[j] # "queued"
    /\ \A w \in Workers :
          (w \in canceled /\ phase[w] \in Working) ~> phase[w] \notin Working
=============================================================================
