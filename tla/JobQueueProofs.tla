--------------------------- MODULE JobQueueProofs ---------------------------
(***************************************************************************)
(* Proofs about JobQueue for every number of comics, jobs, goroutines and  *)
(* every limit.  IInv is inductive; the safety properties follow from it.  *)
(***************************************************************************)
EXTENDS JobQueue, FiniteSetTheorems, WellFoundedInduction, TLAPS

\* The steps other than the progress callback.
Core == Calls \/ Dispatch \/ (\E w \in Workers : RunJob(w)) \/ Process

\* The callback writes "running" into a row that says so already, because the
\* goroutine that owns the row has not ended it: it changes nothing.
LEMMA CoreStep == IInv /\ [Next]_vars => [Core]_vars
<1>1. ASSUME IInv, NEW w \in Workers, ReportProgress(w) PROVE UNCHANGED vars
  <2>1. jobOf[w] \in JobIds /\ status[jobOf[w]] = "running"
    BY <1>1 DEF IInv, WorkersOwnRows, ReportProgress, Working
  <2>2. status' = status
    BY <1>1, <2>1 DEF IInv, TypeOK, ReportProgress
  <2> QED
    BY <1>1, <2>2 DEF ReportProgress, vars
<1> QED
  BY <1>1 DEF Next, Core

LEMMA InitIInv == Init => IInv
<1> SUFFICES ASSUME Init PROVE IInv
  OBVIOUS
<1>1. TypeOK
  BY MaxJobsAssumption DEF Init, TypeOK, JobIds, Events, Statuses, Phases
<1>2. RowsInOrder
  BY MaxJobsAssumption DEF Init, RowsInOrder, JobIds
<1>3. WorkersOwnRows /\ VerdictChosen
  BY DEF Init, WorkersOwnRows, VerdictChosen, Working
<1>4. OneActivePerComic /\ QuarantineFree
  BY DEF Init, OneActivePerComic, QuarantineFree, Active, JobIds
<1>5. DownIsIdle
  BY DEF Init, DownIsIdle
<1>6. RunningHasWorker
  BY DEF Init, RunningHasWorker, Working
<1> QED
  BY <1>1, <1>2, <1>3, <1>4, <1>5, <1>6 DEF IInv

\* Every step keeps every variable in its type.
LEMMA TypePreserved == IInv /\ [Core]_vars => TypeOK'
<1> SUFFICES ASSUME IInv, [Core]_vars PROVE TypeOK'
  OBVIOUS
<1> USE DEF IInv, TypeOK, JobIds, Statuses, Phases, Working, Active, Terminal
<1>1. ASSUME NEW c \in Comics, Enqueue(c) PROVE TypeOK'
  BY <1>1, MaxJobsAssumption DEF Enqueue
<1>2. ASSUME NEW c \in Comics, MoveToTrash(c) PROVE TypeOK'
  BY <1>2 DEF MoveToTrash
<1>3. ASSUME NEW c \in Comics, RestoreTrash(c) PROVE TypeOK'
  BY <1>3 DEF RestoreTrash
<1>4. ASSUME NEW c \in Comics, ReserveCheck(c) PROVE TypeOK'
  BY <1>4 DEF ReserveCheck
<1>5. ASSUME NEW j \in JobIds, Cancel(j) PROVE TypeOK'
  BY <1>5 DEF Cancel
<1>6. ASSUME NEW j \in JobIds, Retry(j) PROVE TypeOK'
  BY <1>6 DEF Retry, Spend, Events
<1>7. ASSUME NEW j \in JobIds, DeleteJob(j) PROVE TypeOK'
  BY <1>7 DEF DeleteJob
<1>8. ASSUME ReleaseCheck PROVE TypeOK'
  BY <1>8 DEF ReleaseCheck
<1>9. ASSUME Dispatch PROVE TypeOK'
  <2>1. PICK f \in Injection(ClaimSet, Idle) : Claim(f)
    BY <1>9 DEF Dispatch
  <2>2. Range(f) \subseteq Workers /\ \A j \in ClaimSet : f[j] \in Workers
    BY DEF Injection, Range, Idle
  <2>3. \A w \in Range(f) : (CHOOSE j \in ClaimSet : f[j] = w) \in ClaimSet
    BY DEF Injection, Range
  <2>4. ClaimSet \subseteq 0..MaxJobs
    BY MaxJobsAssumption DEF ClaimSet, Queued
  <2>5. /\ status' \in [JobIds -> Statuses]
        /\ running' \in [JobIds -> Workers \cup {NoWorker}]
        /\ phase' \in [Workers -> Phases]
        /\ canceled' \subseteq Workers
    BY <2>1, <2>2 DEF Claim
  <2>6. jobOf' \in [Workers -> 0..MaxJobs]
    BY <2>1, <2>3, <2>4 DEF Claim
  <2> QED
    BY <1>9, <2>5, <2>6 DEF Dispatch
<1>10. ASSUME NEW w \in Workers, RunJob(w) PROVE TypeOK'
  <2>1. CASE Prepare(w) \/ Relogin(w) \/ EndDownload(w) \/ Verify(w)
    BY <2>1 DEF Prepare, Relogin, EndDownload, Verify, Goto, FailStatus
  <2>2. CASE WriteStatus(w)
    <3>1. outcome[w] \in Terminal
      BY <2>2 DEF WriteStatus, VerdictChosen
    <3>2. status' \in [JobIds -> Statuses]
      BY <2>2, <3>1 DEF WriteStatus
    <3>3. used' \in [Events -> Nat]
      BY <2>2 DEF WriteStatus, Spend, Events
    <3> QED
      BY <2>2, <3>2, <3>3 DEF WriteStatus
  <2>3. CASE Exit(w)
    <3>1. 0 \in 0..MaxJobs
      BY MaxJobsAssumption
    <3>2. running' \in [JobIds -> Workers \cup {NoWorker}]
      BY <2>3 DEF Exit
    <3>3. /\ phase' \in [Workers -> Phases]
          /\ jobOf' \in [Workers -> 0..MaxJobs]
          /\ canceled' \subseteq Workers
      BY <2>3, <3>1 DEF Exit
    <3> QED
      BY <2>3, <3>2, <3>3 DEF Exit
  <2> HIDE DEF IInv, TypeOK, JobIds, Statuses, Phases, Working, Active, Terminal
  <2> QED
    BY <1>10, <2>1, <2>2, <2>3 DEF RunJob
<1>11. ASSUME Shutdown PROVE TypeOK'
  BY <1>11 DEF Shutdown, Spend, Events
<1>12. ASSUME Crash \/ EndProcess PROVE TypeOK'
  <2>1. 0 \in 0..MaxJobs
    BY MaxJobsAssumption
  <2>2. /\ running' \in [JobIds -> Workers \cup {NoWorker}]
        /\ jobOf' \in [Workers -> 0..MaxJobs]
    BY <1>12, <2>1 DEF Crash, EndProcess, Halt
  <2>3. /\ phase' \in [Workers -> Phases]
        /\ outcome' \in [Workers -> {"none", "ok", "error"} \cup Terminal]
    BY <1>12 DEF Crash, EndProcess, Halt
  <2>4. used' \in [Events -> Nat]
    BY <1>12 DEF Crash, EndProcess, Spend, Events
  <2> QED
    BY <1>12, <2>2, <2>3, <2>4 DEF Crash, EndProcess, Halt
<1>13. ASSUME Restart \/ DiskChange PROVE TypeOK'
  BY <1>13 DEF Restart, DiskChange
<1>14. CASE UNCHANGED vars
  BY <1>14 DEF vars
<1> HIDE DEF IInv, TypeOK, JobIds, Statuses, Phases, Working, Active, Terminal
<1> QED
  BY <1>1, <1>2, <1>3, <1>4, <1>5, <1>6, <1>7, <1>8, <1>9, <1>10, <1>11,
     <1>12, <1>13, <1>14 DEF Core, Calls, Process

\* What a tick does to the rows and the goroutines: the jobs of ClaimSet were
\* queued and run now, each on one goroutine that was idle.
LEMMA DispatchEffect ==
  ASSUME IInv, Dispatch
  PROVE  /\ ClaimSet \subseteq Queued
         /\ status' = [j \in JobIds |->
                          IF j \in ClaimSet THEN "running" ELSE status[j]]
         /\ \A j \in ClaimSet : \E w \in Workers :
                phase'[w] = "prepare" /\ jobOf'[w] = j
         /\ \A w \in Workers :
                \/ phase'[w] = phase[w] /\ jobOf'[w] = jobOf[w]
                \/ /\ phase[w] = "idle" /\ phase'[w] = "prepare"
                   /\ jobOf'[w] \in ClaimSet
         /\ \A v, w \in Workers :
                (/\ phase[v] = "idle" /\ phase'[v] = "prepare"
                 /\ phase[w] = "idle" /\ phase'[w] = "prepare"
                 /\ jobOf'[v] = jobOf'[w]) => v = w
<1> USE DEF IInv, TypeOK
<1>1. PICK f \in Injection(ClaimSet, Idle) : Claim(f)
  BY DEF Dispatch
<1>2. /\ f \in [ClaimSet -> Idle]
      /\ \A i, j \in ClaimSet : f[i] = f[j] => i = j
  BY DEF Injection, IsInjective
<1>3. Range(f) \subseteq Idle /\ Idle \subseteq Workers
  BY <1>2 DEF Range, Idle
<1>4. \A j \in ClaimSet : (CHOOSE i \in ClaimSet : f[i] = f[j]) = j
  BY <1>2
<1>5. ASSUME NEW w \in Range(f)
      PROVE  \E j \in ClaimSet : f[j] = w /\ jobOf'[w] = j
  BY <1>1, <1>2, <1>3, <1>4 DEF Claim, Range
<1>6. \A w \in Workers :
        /\ w \in Range(f) => phase'[w] = "prepare" /\ phase[w] = "idle"
        /\ w \notin Range(f) => phase'[w] = phase[w] /\ jobOf'[w] = jobOf[w]
  BY <1>1, <1>3 DEF Claim, Idle
<1>7. ClaimSet \subseteq Queued
  BY DEF ClaimSet
<1>8. \A j \in ClaimSet : \E w \in Workers :
        phase'[w] = "prepare" /\ jobOf'[w] = j
  <2> SUFFICES ASSUME NEW j \in ClaimSet
               PROVE  phase'[f[j]] = "prepare" /\ jobOf'[f[j]] = j
    BY <1>2, <1>3
  <2>1. f[j] \in Range(f)
    BY <1>2 DEF Range
  <2> QED
    BY <1>1, <1>2, <1>3, <1>4, <1>6, <2>1 DEF Claim
<1> HIDE DEF IInv, TypeOK
<1>9. \A w \in Workers :
        \/ phase'[w] = phase[w] /\ jobOf'[w] = jobOf[w]
        \/ /\ phase[w] = "idle" /\ phase'[w] = "prepare"
           /\ jobOf'[w] \in ClaimSet
  BY <1>5, <1>6
<1>10. \A v, w \in Workers :
        (/\ phase[v] = "idle" /\ phase'[v] = "prepare"
         /\ phase[w] = "idle" /\ phase'[w] = "prepare"
         /\ jobOf'[v] = jobOf'[w]) => v = w
  BY <1>5, <1>6
<1> QED
  BY <1>1, <1>7, <1>8, <1>9, <1>10 DEF Claim

\* Ids are handed out in order and only once.
LEMMA RowsPreserved == IInv /\ [Core]_vars => RowsInOrder'
<1> SUFFICES ASSUME IInv, [Core]_vars PROVE RowsInOrder'
  OBVIOUS
<1>0. TypeOK /\ RowsInOrder /\ WorkersOwnRows /\ VerdictChosen
  BY DEF IInv
<1> USE DEF TypeOK, RowsInOrder, JobIds
<1>1. ASSUME NEW c \in Comics, Enqueue(c) PROVE RowsInOrder'
  BY <1>0, <1>1, MaxJobsAssumption DEF Enqueue
<1>2. ASSUME NEW j \in JobIds, Cancel(j) \/ Retry(j) \/ DeleteJob(j)
      PROVE  RowsInOrder'
  BY <1>0, <1>2 DEF Cancel, Retry, DeleteJob, Terminal
<1>3. ASSUME Dispatch PROVE RowsInOrder'
  <2>1. /\ ClaimSet \subseteq Queued
        /\ status' = [j \in JobIds |->
                         IF j \in ClaimSet THEN "running" ELSE status[j]]
    BY <1>3, DispatchEffect
  <2> QED
    BY <1>0, <1>3, <2>1 DEF Dispatch, Queued
<1>4. ASSUME NEW w \in Workers, WriteStatus(w) PROVE RowsInOrder'
  <2>1. /\ status[jobOf[w]] = "running" /\ outcome[w] \in Terminal
        /\ jobOf[w] \in JobIds
    BY <1>0, <1>4 DEF WriteStatus, WorkersOwnRows, VerdictChosen, Working
  <2> QED
    BY <1>0, <1>4, <2>1 DEF WriteStatus, Terminal
<1>5. ASSUME Restart PROVE RowsInOrder'
  BY <1>0, <1>5 DEF Restart
<1>6. CASE UNCHANGED <<created, status>>
  BY <1>0, <1>6
<1> HIDE DEF TypeOK, RowsInOrder, JobIds
<1> QED
  BY <1>1, <1>2, <1>3, <1>4, <1>5, <1>6
  DEF Core, Calls, Process, RunJob, MoveToTrash, RestoreTrash, ReserveCheck,
      ReleaseCheck, Prepare, Relogin, EndDownload, Verify, Goto, Exit,
      Shutdown, Crash, EndProcess, Halt, DiskChange, vars

\* Only a running process has goroutines.
LEMMA IdlePreserved == IInv /\ [Core]_vars => DownIsIdle'
<1> SUFFICES ASSUME IInv, [Core]_vars PROVE DownIsIdle'
  OBVIOUS
<1>0. TypeOK /\ DownIsIdle
  BY DEF IInv
<1>1. ASSUME NEW w \in Workers, RunJob(w) PROVE DownIsIdle'
  <2>1. phase[w] # "idle" /\ server' = server
    BY <1>1 DEF RunJob, Prepare, Relogin, EndDownload, Verify, WriteStatus,
                Exit, Goto
  <2> QED
    BY <1>0, <2>1 DEF DownIsIdle
<1>2. ASSUME Crash \/ EndProcess PROVE DownIsIdle'
  BY <1>2 DEF Crash, EndProcess, Halt, DownIsIdle
<1>3. ASSUME Dispatch PROVE DownIsIdle'
  BY <1>3 DEF Dispatch, DownIsIdle
<1>4. ASSUME server' # "down" PROVE DownIsIdle'
  BY <1>4 DEF DownIsIdle
<1>5. CASE UNCHANGED <<server, phase>>
  BY <1>0, <1>5 DEF DownIsIdle
<1> QED
  BY <1>1, <1>2, <1>3, <1>4, <1>5
  DEF Core, Calls, Process, Enqueue, Cancel, Retry, DeleteJob, MoveToTrash,
      RestoreTrash, ReserveCheck, ReleaseCheck, Shutdown, Restart, DiskChange,
      vars

\* A step of runJob before the write of the status leaves the rows alone.
LEMMA GotoEffect ==
  ASSUME IInv, NEW w \in Workers,
         Prepare(w) \/ Relogin(w) \/ EndDownload(w) \/ Verify(w)
  PROVE  /\ UNCHANGED <<server, status, comic, jobOf, trash, checking, used>>
         /\ phase[w] \in Working /\ phase'[w] \in Working
         /\ \A v \in Workers \ {w} : phase'[v] = phase[v]
         /\ \A v \in Workers \ {w} : outcome'[v] = outcome[v]
         /\ phase'[w] = "write" => outcome'[w] \in Terminal
<1> USE DEF IInv, TypeOK
<1> QED
  BY DEF Prepare, Relogin, EndDownload, Verify, Goto, FailStatus, Working,
         Terminal

\* A goroutine always has a final status to write.
LEMMA VerdictPreserved == IInv /\ [Core]_vars => VerdictChosen'
<1> SUFFICES ASSUME IInv, [Core]_vars PROVE VerdictChosen'
  OBVIOUS
<1>0. TypeOK /\ VerdictChosen
  BY DEF IInv
<1>1. ASSUME NEW w \in Workers,
             Prepare(w) \/ Relogin(w) \/ EndDownload(w) \/ Verify(w)
      PROVE  VerdictChosen'
  BY <1>0, <1>1, GotoEffect DEF VerdictChosen
<1>2. ASSUME NEW w \in Workers, WriteStatus(w) \/ Exit(w)
      PROVE  VerdictChosen'
  BY <1>0, <1>2 DEF WriteStatus, Exit, VerdictChosen, TypeOK
<1>3. ASSUME Dispatch PROVE VerdictChosen'
  <2>1. \A w \in Workers : phase'[w] = phase[w] \/ phase'[w] = "prepare"
    BY <1>3, DispatchEffect
  <2> QED
    BY <1>0, <1>3, <2>1 DEF Dispatch, VerdictChosen
<1>4. ASSUME Crash \/ EndProcess PROVE VerdictChosen'
  BY <1>4 DEF Crash, EndProcess, Halt, VerdictChosen
<1>5. CASE UNCHANGED <<phase, outcome>>
  BY <1>0, <1>5 DEF VerdictChosen
<1> QED
  BY <1>1, <1>2, <1>3, <1>4, <1>5
  DEF Core, Calls, Process, RunJob, Enqueue, Cancel, Retry, DeleteJob,
      MoveToTrash, RestoreTrash, ReserveCheck, ReleaseCheck, Shutdown, Restart,
      DiskChange, vars

\* The row of a working goroutine stays running until that goroutine, and no
\* other, writes its final status.
LEMMA OwnershipPreserved == IInv /\ [Core]_vars => WorkersOwnRows'
<1> SUFFICES ASSUME IInv, [Core]_vars PROVE WorkersOwnRows'
  OBVIOUS
<1>0. TypeOK /\ RowsInOrder /\ DownIsIdle /\ WorkersOwnRows /\ VerdictChosen
  BY DEF IInv
<1>1. ASSUME UNCHANGED <<phase, jobOf>>,
             \A j \in JobIds : status[j] = "running" => status'[j] = "running"
      PROVE  WorkersOwnRows'
  BY <1>0, <1>1 DEF WorkersOwnRows
<1>2. ASSUME NEW c \in Comics, Enqueue(c) PROVE WorkersOwnRows'
  <2>1. created + 1 \in JobIds /\ status[created + 1] = "none"
    BY <1>0, <1>2, MaxJobsAssumption DEF Enqueue, TypeOK, RowsInOrder, JobIds
  <2>2. \A j \in JobIds : status[j] = "running" => status'[j] = "running"
    BY <1>0, <1>2, <2>1 DEF Enqueue, TypeOK
  <2> QED
    BY <1>1, <1>2, <2>2 DEF Enqueue
<1>3. ASSUME NEW j \in JobIds, Cancel(j) \/ Retry(j) \/ DeleteJob(j)
      PROVE  WorkersOwnRows'
  <2>1. \A i \in JobIds : status[i] = "running" => status'[i] = "running"
    BY <1>0, <1>3 DEF Cancel, Retry, DeleteJob, Terminal, TypeOK
  <2> QED
    BY <1>1, <1>3, <2>1 DEF Cancel, Retry, DeleteJob
<1>4. ASSUME Dispatch PROVE WorkersOwnRows'
  <2>1. /\ ClaimSet \subseteq Queued
        /\ status' = [j \in JobIds |->
                         IF j \in ClaimSet THEN "running" ELSE status[j]]
        /\ \A w \in Workers :
               \/ phase'[w] = phase[w] /\ jobOf'[w] = jobOf[w]
               \/ /\ phase[w] = "idle" /\ phase'[w] = "prepare"
                  /\ jobOf'[w] \in ClaimSet
        /\ \A v, w \in Workers :
               (/\ phase[v] = "idle" /\ phase'[v] = "prepare"
                /\ phase[w] = "idle" /\ phase'[w] = "prepare"
                /\ jobOf'[v] = jobOf'[w]) => v = w
    BY <1>4, DispatchEffect
  <2>2. \A j \in ClaimSet : j \in JobIds /\ status[j] = "queued"
    BY <2>1 DEF Queued
  <2> DEFINE New(w) == phase[w] = "idle" /\ phase'[w] = "prepare"
             Old(w) == phase'[w] = phase[w] /\ jobOf'[w] = jobOf[w]
  <2>3. ASSUME NEW w \in Workers, phase'[w] \in Working
        PROVE  /\ jobOf'[w] \in JobIds
               /\ status'[jobOf'[w]] = "running"
               /\ Old(w) => status[jobOf'[w]] = "running"
               /\ ~Old(w) => New(w) /\ status[jobOf'[w]] = "queued"
    BY <1>0, <2>1, <2>2, <2>3 DEF WorkersOwnRows
  <2>4. ASSUME NEW v \in Workers, NEW w \in Workers,
               phase'[v] \in Working, phase'[w] \in Working,
               jobOf'[v] = jobOf'[w]
        PROVE  v = w
    <3>1. CASE Old(v) /\ Old(w)
      BY <1>0, <2>4, <3>1 DEF WorkersOwnRows
    <3>2. CASE ~Old(v) /\ ~Old(w)
      BY <2>1, <2>3, <2>4, <3>2
    <3> QED
      BY <2>3, <2>4, <3>1, <3>2
  <2> QED
    BY <2>3, <2>4 DEF WorkersOwnRows
<1>5. ASSUME NEW w \in Workers,
             Prepare(w) \/ Relogin(w) \/ EndDownload(w) \/ Verify(w)
      PROVE  WorkersOwnRows'
  <2>1. /\ UNCHANGED <<status, jobOf>>
        /\ \A v \in Workers : phase'[v] \in Working => phase[v] \in Working
    BY <1>5, GotoEffect
  <2> QED
    BY <1>0, <2>1 DEF WorkersOwnRows
<1>6. ASSUME NEW w \in Workers, WriteStatus(w) PROVE WorkersOwnRows'
  <2>1. /\ phase[w] \in Working /\ phase'[w] \notin Working
        /\ \A v \in Workers \ {w} : phase'[v] = phase[v]
        /\ UNCHANGED jobOf
    BY <1>0, <1>6 DEF WriteStatus, Working, TypeOK
  <2>2. \A j \in JobIds : j # jobOf[w] => status'[j] = status[j]
    BY <1>0, <1>6 DEF WriteStatus, TypeOK
  <2> QED
    BY <1>0, <2>1, <2>2 DEF WorkersOwnRows
<1>7. ASSUME NEW w \in Workers, Exit(w) PROVE WorkersOwnRows'
  <2>1. /\ phase[w] = "exit" /\ phase'[w] = "idle"
        /\ \A v \in Workers \ {w} : phase'[v] = phase[v] /\ jobOf'[v] = jobOf[v]
        /\ UNCHANGED status
    BY <1>0, <1>7 DEF Exit, TypeOK
  <2> QED
    BY <1>0, <2>1 DEF WorkersOwnRows, Working
<1>8. ASSUME Crash \/ EndProcess PROVE WorkersOwnRows'
  BY <1>8 DEF Crash, EndProcess, Halt, WorkersOwnRows, Working
<1>9. ASSUME Restart PROVE WorkersOwnRows'
  <2>1. \A w \in Workers : phase'[w] = "idle"
    BY <1>0, <1>9 DEF Restart, DownIsIdle
  <2> QED
    BY <2>1 DEF WorkersOwnRows, Working
<1>10. CASE UNCHANGED <<phase, jobOf, status>>
  BY <1>0, <1>10 DEF WorkersOwnRows
<1> QED
  BY <1>2, <1>3, <1>4, <1>5, <1>6, <1>7, <1>8, <1>9, <1>10
  DEF Core, Calls, Process, RunJob, MoveToTrash, RestoreTrash, ReserveCheck,
      ReleaseCheck, Shutdown, DiskChange, vars

\* A step changes the active rows of a comic only by taking rows out, or by
\* one insert or retry of a comic that has none, or by Dispatch and Restart,
\* which keep a row active.
LEMMA UniquePreserved == IInv /\ [Core]_vars => OneActivePerComic'
<1> SUFFICES ASSUME IInv, [Core]_vars PROVE OneActivePerComic'
  OBVIOUS
<1>0. TypeOK /\ RowsInOrder /\ OneActivePerComic /\ WorkersOwnRows /\ VerdictChosen
  BY DEF IInv
<1>1. ASSUME UNCHANGED comic,
             \A j \in JobIds : status'[j] \in Active => status[j] \in Active
      PROVE  OneActivePerComic'
  BY <1>0, <1>1 DEF OneActivePerComic
<1>2. ASSUME NEW c \in Comics, Enqueue(c) PROVE OneActivePerComic'
  <2>1. created + 1 \in JobIds
    BY <1>0, <1>2, MaxJobsAssumption DEF Enqueue, TypeOK, JobIds
  <2>2. /\ comic'[created + 1] = c
        /\ \A j \in JobIds \ {created + 1} :
              /\ comic'[j] = comic[j] /\ status'[j] = status[j]
              /\ comic[j] = c => status[j] \notin Active
    BY <1>0, <1>2, <2>1 DEF Enqueue, TypeOK, ActiveJobs
  <2> QED
    BY <1>0, <2>1, <2>2 DEF OneActivePerComic
<1>3. ASSUME NEW j \in JobIds, Retry(j) PROVE OneActivePerComic'
  <2>1. \A i \in JobIds \ {j} :
          /\ status'[i] = status[i]
          /\ comic[i] = comic[j] => status[i] \notin Active
    BY <1>0, <1>3 DEF Retry, TypeOK, ActiveJobs
  <2>2. UNCHANGED comic
    BY <1>3 DEF Retry
  <2> QED
    BY <1>0, <2>1, <2>2 DEF OneActivePerComic
<1>4. ASSUME NEW j \in JobIds, Cancel(j) \/ DeleteJob(j)
      PROVE  OneActivePerComic'
  <2>1. UNCHANGED comic
    BY <1>4 DEF Cancel, DeleteJob
  <2>2. \A i \in JobIds : status'[i] \in Active => status[i] \in Active
    BY <1>0, <1>4 DEF Cancel, DeleteJob, TypeOK, Active
  <2> QED
    BY <1>1, <2>1, <2>2
<1>5. ASSUME Dispatch PROVE OneActivePerComic'
  <2>1. /\ ClaimSet \subseteq Queued
        /\ status' = [j \in JobIds |->
                         IF j \in ClaimSet THEN "running" ELSE status[j]]
    BY <1>5, DispatchEffect
  <2>2. \A j \in JobIds : status'[j] \in Active => status[j] \in Active
    BY <2>1 DEF Queued, Active
  <2> QED
    BY <1>1, <1>5, <2>2 DEF Dispatch
<1>6. ASSUME NEW w \in Workers, WriteStatus(w) PROVE OneActivePerComic'
  <2>1. outcome[w] \notin Active
    BY <1>0, <1>6 DEF WriteStatus, VerdictChosen, Active, Terminal
  <2>2. \A j \in JobIds : status'[j] \in Active => status[j] \in Active
    BY <1>0, <1>6, <2>1 DEF WriteStatus, TypeOK
  <2> QED
    BY <1>1, <1>6, <2>2 DEF WriteStatus
<1>7. ASSUME Restart PROVE OneActivePerComic'
  BY <1>1, <1>7 DEF Restart, Active
<1>8. CASE UNCHANGED <<comic, status>>
  BY <1>1, <1>8
<1> QED
  BY <1>2, <1>3, <1>4, <1>5, <1>6, <1>7, <1>8
  DEF Core, Calls, Process, RunJob, MoveToTrash, RestoreTrash, ReserveCheck,
      ReleaseCheck, Prepare, Relogin, EndDownload, Verify, Goto, Exit,
      Shutdown, Crash, EndProcess, Halt, DiskChange, vars

\* Trash, health checks and active jobs keep excluding each other.
LEMMA QuarantinePreserved == IInv /\ [Core]_vars => QuarantineFree'
<1> SUFFICES ASSUME IInv, [Core]_vars PROVE QuarantineFree'
  OBVIOUS
<1>0. /\ TypeOK /\ RowsInOrder /\ QuarantineFree
      /\ WorkersOwnRows /\ VerdictChosen
  BY DEF IInv
<1>1. ASSUME UNCHANGED comic,
             trash' \cup checking' \subseteq trash \cup checking,
             \A j \in JobIds : status'[j] \in Active => status[j] \in Active
      PROVE  QuarantineFree'
  BY <1>0, <1>1 DEF QuarantineFree, ActiveJobs
<1>2. ASSUME NEW c \in Comics, Enqueue(c) PROVE QuarantineFree'
  <2>1. created + 1 \in JobIds
    BY <1>0, <1>2, MaxJobsAssumption DEF Enqueue, TypeOK, JobIds
  <2>2. /\ comic'[created + 1] = c
        /\ \A j \in JobIds \ {created + 1} :
              comic'[j] = comic[j] /\ status'[j] = status[j]
    BY <1>0, <1>2, <2>1 DEF Enqueue, TypeOK
  <2> QED
    BY <1>0, <1>2, <2>1, <2>2 DEF Enqueue, QuarantineFree, ActiveJobs
<1>3. ASSUME NEW j \in JobIds, Retry(j) PROVE QuarantineFree'
  <2>1. \A i \in JobIds \ {j} : status'[i] = status[i]
    BY <1>0, <1>3 DEF Retry, TypeOK
  <2> QED
    BY <1>0, <1>3, <2>1 DEF Retry, QuarantineFree, ActiveJobs
<1>4. ASSUME NEW j \in JobIds, Cancel(j) \/ DeleteJob(j) PROVE QuarantineFree'
  <2>1. \A i \in JobIds : status'[i] \in Active => status[i] \in Active
    BY <1>0, <1>4 DEF Cancel, DeleteJob, TypeOK, Active
  <2> QED
    BY <1>1, <1>4, <2>1 DEF Cancel, DeleteJob
<1>5. ASSUME NEW c \in Comics,
             MoveToTrash(c) \/ RestoreTrash(c) \/ ReserveCheck(c)
      PROVE  QuarantineFree'
  BY <1>0, <1>5 DEF MoveToTrash, RestoreTrash, ReserveCheck, QuarantineFree,
                    ActiveJobs
<1>6. ASSUME Dispatch PROVE QuarantineFree'
  <2>1. /\ ClaimSet \subseteq Queued
        /\ status' = [j \in JobIds |->
                         IF j \in ClaimSet THEN "running" ELSE status[j]]
    BY <1>6, DispatchEffect
  <2>2. \A j \in JobIds : status'[j] \in Active => status[j] \in Active
    BY <2>1 DEF Queued, Active
  <2> QED
    BY <1>1, <1>6, <2>2 DEF Dispatch
<1>7. ASSUME NEW w \in Workers, WriteStatus(w) PROVE QuarantineFree'
  <2>1. outcome[w] \notin Active
    BY <1>0, <1>7 DEF WriteStatus, VerdictChosen, Active, Terminal
  <2>2. \A j \in JobIds : status'[j] \in Active => status[j] \in Active
    BY <1>0, <1>7, <2>1 DEF WriteStatus, TypeOK
  <2> QED
    BY <1>1, <1>7, <2>2 DEF WriteStatus
<1>8. ASSUME Restart PROVE QuarantineFree'
  BY <1>1, <1>8 DEF Restart, Active
<1>9. ASSUME UNCHANGED <<status, comic, trash>>, checking' \subseteq checking
      PROVE  QuarantineFree'
  BY <1>1, <1>9
<1> QED
  BY <1>2, <1>3, <1>4, <1>5, <1>6, <1>7, <1>8, <1>9
  DEF Core, Calls, Process, RunJob, ReleaseCheck, Prepare, Relogin,
      EndDownload, Verify, Goto, Exit, Shutdown, Crash, EndProcess, Halt,
      DiskChange, vars

\* A running row is never left without the goroutine that will end it.
LEMMA RunningPreserved == IInv /\ [Core]_vars => RunningHasWorker'
<1> SUFFICES ASSUME IInv, [Core]_vars PROVE RunningHasWorker'
  OBVIOUS
<1> DEFINE Sound == server # "down" /\ used["writeFailure"] = 0
           Ran(j) == \E w \in Workers : phase[w] \in Working /\ jobOf[w] = j
<1>0. TypeOK /\ RowsInOrder /\ DownIsIdle /\ WorkersOwnRows /\ VerdictChosen
  BY DEF IInv
<1>a. Sound => \A j \in JobIds : status[j] = "running" => Ran(j)
  BY DEF IInv, RunningHasWorker
\* One direction is ownership, which the step preserves.
<1>b. ASSUME Sound' => \A j \in JobIds : status'[j] = "running" => Ran(j)'
      PROVE  RunningHasWorker'
  BY <1>b, OwnershipPreserved DEF RunningHasWorker, WorkersOwnRows
<1>1. ASSUME UNCHANGED <<phase, jobOf>>, Sound' => Sound,
             \A j \in JobIds : status'[j] = "running" => status[j] = "running"
      PROVE  RunningHasWorker'
  BY <1>a, <1>b, <1>1
<1>2. ASSUME NEW c \in Comics, Enqueue(c) PROVE RunningHasWorker'
  <2>1. \A j \in JobIds : status'[j] = "running" => status[j] = "running"
    BY <1>0, <1>2 DEF Enqueue, TypeOK
  <2> QED
    BY <1>1, <1>2, <2>1 DEF Enqueue
<1>3. ASSUME NEW j \in JobIds, Cancel(j) \/ Retry(j) \/ DeleteJob(j)
      PROVE  RunningHasWorker'
  <2>1. \A i \in JobIds : status'[i] = "running" => status[i] = "running"
    BY <1>0, <1>3 DEF Cancel, Retry, DeleteJob, TypeOK
  <2>2. used'["writeFailure"] = used["writeFailure"]
    BY <1>0, <1>3 DEF Cancel, Retry, DeleteJob, Spend, TypeOK, Events
  <2> QED
    BY <1>1, <1>3, <2>1, <2>2 DEF Cancel, Retry, DeleteJob
<1>4. ASSUME Dispatch PROVE RunningHasWorker'
  <2>1. /\ status' = [j \in JobIds |->
                         IF j \in ClaimSet THEN "running" ELSE status[j]]
        /\ \A j \in ClaimSet : \E w \in Workers :
               phase'[w] = "prepare" /\ jobOf'[w] = j
        /\ \A w \in Workers : phase[w] # "idle" =>
               phase'[w] = phase[w] /\ jobOf'[w] = jobOf[w]
    BY <1>4, DispatchEffect
  <2>2. \A j \in JobIds : Ran(j) => Ran(j)'
    BY <2>1 DEF Working
  <2>3. \A j \in ClaimSet : Ran(j)'
    BY <2>1 DEF Working
  <2>4. Sound' => Sound
    BY <1>4 DEF Dispatch
  <2> HIDE DEF Sound, Ran
  <2> QED
    BY <1>a, <1>b, <2>1, <2>2, <2>3, <2>4
<1>5. ASSUME NEW w \in Workers,
             Prepare(w) \/ Relogin(w) \/ EndDownload(w) \/ Verify(w)
      PROVE  RunningHasWorker'
  <2>1. /\ UNCHANGED <<server, status, jobOf, used>>
        /\ \A v \in Workers : phase[v] \in Working => phase'[v] \in Working
    BY <1>5, GotoEffect
  <2> QED
    BY <1>a, <1>b, <2>1
<1>6. ASSUME NEW w \in Workers, WriteStatus(w) PROVE RunningHasWorker'
  <2>1. ASSUME Sound', NEW j \in JobIds, status'[j] = "running"
        PROVE  Ran(j)'
    <3>1. CASE UNCHANGED status
      <4>1. \/ /\ used'["writeFailure"] = used["writeFailure"] + 1
               /\ used["writeFailure"] \in Nat
            \/ status' = [status EXCEPT ![jobOf[w]] = outcome[w]]
        BY <1>0, <1>6 DEF WriteStatus, Spend, TypeOK, Events
      <4>2. status' = [status EXCEPT ![jobOf[w]] = outcome[w]]
        BY <2>1, <4>1
      <4>3. /\ outcome[w] \in Terminal /\ jobOf[w] \in JobIds
            /\ status[jobOf[w]] = "running"
        BY <1>0, <1>6 DEF WriteStatus, VerdictChosen, WorkersOwnRows, Working
      <4> QED
        BY <1>0, <3>1, <4>2, <4>3 DEF TypeOK, Terminal
    <3>2. CASE status' = [status EXCEPT ![jobOf[w]] = outcome[w]]
      <4>1. outcome[w] \in Terminal
        BY <1>0, <1>6 DEF WriteStatus, VerdictChosen
      <4>2. j # jobOf[w] /\ status[j] = "running"
        BY <1>0, <2>1, <3>2, <4>1 DEF TypeOK, Terminal
      <4>3. Sound
        BY <1>0, <1>6, <2>1 DEF WriteStatus, Spend, TypeOK, Events
      <4>4. PICK v \in Workers : phase[v] \in Working /\ jobOf[v] = j
        BY <1>a, <4>2, <4>3
      <4>5. phase'[v] = phase[v] /\ jobOf'[v] = jobOf[v]
        BY <1>0, <1>6, <4>2, <4>4 DEF WriteStatus, TypeOK
      <4> QED
        BY <4>4, <4>5
    <3> QED
      BY <1>6, <3>1, <3>2 DEF WriteStatus
  <2> QED
    BY <1>b, <2>1
<1>7. ASSUME NEW w \in Workers, Exit(w) PROVE RunningHasWorker'
  <2>1. /\ phase[w] = "exit" /\ UNCHANGED <<server, status, used>>
        /\ \A v \in Workers \ {w} :
              phase'[v] = phase[v] /\ jobOf'[v] = jobOf[v]
    BY <1>0, <1>7 DEF Exit, TypeOK
  <2>2. \A j \in JobIds : Ran(j) => Ran(j)'
    BY <2>1 DEF Working
  <2> QED
    BY <1>a, <1>b, <2>1, <2>2
<1>8. ASSUME Crash \/ EndProcess PROVE RunningHasWorker'
  BY <1>8 DEF Crash, EndProcess, Halt, RunningHasWorker
<1>9. ASSUME Restart PROVE RunningHasWorker'
  <2>1. \A j \in JobIds : status'[j] # "running"
    BY <1>9 DEF Restart
  <2> QED
    BY <1>b, <2>1
<1>10. ASSUME UNCHANGED <<phase, jobOf, status>>, Sound' => Sound
       PROVE  RunningHasWorker'
  BY <1>1, <1>10
<1>11. ASSUME Shutdown PROVE Sound' => Sound
  BY <1>0, <1>11 DEF Shutdown, Spend, TypeOK, Events
<1>12. ASSUME UNCHANGED <<server, used>> PROVE Sound' => Sound
  BY <1>12
<1> HIDE DEF Sound, Ran
<1> QED
  BY <1>2, <1>3, <1>4, <1>5, <1>6, <1>7, <1>8, <1>9, <1>10, <1>11, <1>12
  DEF Core, Calls, Process, RunJob, MoveToTrash, RestoreTrash, ReserveCheck,
      ReleaseCheck, Shutdown, DiskChange, vars

\* IInv is inductive.
LEMMA StepIInv == IInv /\ [Next]_vars => IInv'
BY CoreStep, TypePreserved, RowsPreserved, IdlePreserved, OwnershipPreserved,
   VerdictPreserved, UniquePreserved, QuarantinePreserved, RunningPreserved
DEF IInv

-----------------------------------------------------------------------------

\* IInv holds in every reachable state.
THEOREM Invariance == Spec => []IInv
<1>1. Init => IInv
  BY InitIInv
<1>2. IInv /\ [Next]_vars => IInv'
  BY StepIInv
<1> QED
  BY <1>1, <1>2, PTL DEF Spec

\* Every variable keeps its type.
THEOREM TypeCorrect == Spec => []TypeOK
<1>1. IInv => TypeOK
  BY DEF IInv
<1> QED
  BY <1>1, Invariance, PTL

\* A comic never has two active jobs (Enqueue, Retry, ResetRunningJobs).
THEOREM ActiveJobUnique == Spec => []OneActivePerComic
<1>1. IInv => OneActivePerComic
  BY DEF IInv
<1> QED
  BY <1>1, Invariance, PTL

\* Two goroutines never work on one comic (claim under opMu, Cancel, runJob).
THEOREM DownloadExclusive == Spec => []OneDownloadPerComic
<1>1. IInv => OneDownloadPerComic
  BY DEF IInv, WorkersOwnRows, OneActivePerComic, OneDownloadPerComic, Active
<1> QED
  BY <1>1, Invariance, PTL

\* No goroutine touches a comic that is in the recycle bin or under a check.
THEOREM QuarantineRespected == Spec => []NoJobInTrashOrCheck
<1>1. IInv => NoJobInTrashOrCheck
  <2> SUFFICES ASSUME IInv, NEW c \in trash \cup checking, NEW w \in Workers,
                      phase[w] \in Working, comic[jobOf[w]] = c
               PROVE  FALSE
    BY DEF NoJobInTrashOrCheck, IInv, QuarantineFree
  <2>1. jobOf[w] \in ActiveJobs(c)
    BY DEF IInv, WorkersOwnRows, ActiveJobs, Active
  <2> QED
    BY <2>1 DEF IInv, QuarantineFree
<1> QED
  BY <1>1, Invariance, PTL

\* Whoever works on the files of a comic is alone with them: no other
\* goroutine, no deletion and no health check is at them.
THEOREM FilesAlone == Spec => []FilesExclusive
BY DownloadExclusive, QuarantineRespected, PTL DEF FilesExclusive

\* While no write was lost, a running row has the goroutine that will end it.
THEOREM NoOrphanedRun == Spec => []RunningHasWorker
<1>1. IInv => RunningHasWorker
  BY DEF IInv
<1> QED
  BY <1>1, Invariance, PTL

\* A late goroutine never rewrites the status of a job that ended.
THEOREM EndIsFinal == Spec => EndedStaysEnded
<1> DEFINE Kept == \A j \in JobIds :
                     (status[j] \in Terminal /\ status'[j] # status[j])
                        => status'[j] \in {"queued", "deleted"}
<1>1. ASSUME IInv, Core PROVE Kept
  <2>0. /\ TypeOK /\ RowsInOrder /\ WorkersOwnRows
    BY <1>1 DEF IInv
  <2>1. ASSUME NEW c \in Comics, Enqueue(c) PROVE Kept
    <3>1. created + 1 \in JobIds /\ status[created + 1] = "none"
      BY <2>0, <2>1, MaxJobsAssumption DEF Enqueue, TypeOK, RowsInOrder, JobIds
    <3> QED
      BY <2>0, <2>1, <3>1 DEF Enqueue, TypeOK, Terminal
  <2>2. ASSUME NEW j \in JobIds, Cancel(j) \/ Retry(j) \/ DeleteJob(j)
        PROVE  Kept
    BY <2>0, <2>2 DEF Cancel, Retry, DeleteJob, TypeOK, Terminal
  <2>3. ASSUME Dispatch PROVE Kept
    BY <1>1, <2>3, DispatchEffect DEF Queued, Terminal
  <2>4. ASSUME NEW w \in Workers, WriteStatus(w) PROVE Kept
    <3>1. status[jobOf[w]] = "running"
      BY <2>0, <2>4 DEF WriteStatus, WorkersOwnRows, Working
    <3> QED
      BY <2>0, <2>4, <3>1 DEF WriteStatus, TypeOK, Terminal
  <2>5. ASSUME Restart PROVE Kept
    BY <2>5 DEF Restart, Terminal
  <2>6. CASE UNCHANGED status
    BY <2>6
  <2> HIDE DEF Kept
  <2> QED
    BY <1>1, <2>1, <2>2, <2>3, <2>4, <2>5, <2>6
    DEF Core, Calls, Process, RunJob, MoveToTrash, RestoreTrash, ReserveCheck,
        ReleaseCheck, Prepare, Relogin, EndDownload, Verify, Goto, Exit,
        Shutdown, Crash, EndProcess, Halt, DiskChange
<1>2. IInv /\ [Next]_vars => [Kept]_vars
  BY <1>1, CoreStep
<1> QED
  BY <1>2, Invariance, PTL DEF Spec, EndedStaysEnded

\* The concrete queue, for all its lost writes, crashes and late goroutines,
\* changes the rows of the jobs table only in the ways JobBoard lists.
THEOREM BoardRefinement == Spec => ImplementsBoard
<1> USE DEF JobIds, Board!Rows, Active, Board!Pending, Terminal, Board!Ended
<1>1. Init => Board!Init
  BY DEF Init, Board!Init
<1>2. ASSUME IInv, Core PROVE Board!Next \/ UNCHANGED <<status, comic>>
  <2>0. TypeOK /\ RowsInOrder /\ WorkersOwnRows /\ VerdictChosen
    BY <1>2 DEF IInv
  <2>1. ASSUME NEW c \in Comics, Enqueue(c) PROVE Board!Next
    <3>1. created + 1 \in JobIds /\ status[created + 1] = "none"
      BY <2>0, <2>1, MaxJobsAssumption DEF Enqueue, TypeOK, RowsInOrder
    <3>2. Board!Submit(created + 1, c)
      BY <2>1, <3>1 DEF Enqueue, ActiveJobs, Board!Submit, Board!Free
    <3> QED
      BY <3>1, <3>2 DEF Board!Next
  <2>2. ASSUME NEW j \in JobIds, Cancel(j)
        PROVE  Board!Next \/ UNCHANGED <<status, comic>>
    BY <2>2 DEF Cancel, Board!Next, Board!Withdraw
  <2>3. ASSUME NEW j \in JobIds, Retry(j) PROVE Board!Next
    <3>1. Board!Reopen(j)
      BY <2>3 DEF Retry, ActiveJobs, Board!Reopen, Board!Free
    <3> QED
      BY <3>1 DEF Board!Next
  <2>4. ASSUME NEW j \in JobIds, DeleteJob(j) PROVE Board!Next
    BY <2>4 DEF DeleteJob, Board!Next, Board!Forget
  <2>5. ASSUME Dispatch PROVE Board!Next
    <3>1. /\ ClaimSet \subseteq Queued
          /\ status' = [j \in JobIds |->
                           IF j \in ClaimSet THEN "running" ELSE status[j]]
      BY <1>2, <2>5, DispatchEffect
    <3>2. Board!Start(ClaimSet) /\ ClaimSet \in SUBSET JobIds
      BY <2>5, <3>1 DEF Dispatch, Queued, Board!Start
    <3> QED
      BY <3>2 DEF Board!Next
  <2>6. ASSUME NEW w \in Workers, WriteStatus(w)
        PROVE  Board!Next \/ UNCHANGED <<status, comic>>
    <3>1. /\ outcome[w] \in Terminal /\ jobOf[w] \in JobIds
          /\ status[jobOf[w]] = "running"
      BY <2>0, <2>6 DEF WriteStatus, VerdictChosen, WorkersOwnRows, Working
    <3>2. Board!Settle(jobOf[w], outcome[w]) \/ UNCHANGED <<status, comic>>
      BY <2>6, <3>1 DEF WriteStatus, Board!Settle
    <3> QED
      BY <3>1, <3>2 DEF Board!Next
  <2>7. ASSUME Restart PROVE Board!Next
    BY <2>7 DEF Restart, Board!Next, Board!Recover
  <2>8. CASE UNCHANGED <<status, comic>>
    BY <2>8
  <2> QED
    BY <1>2, <2>1, <2>2, <2>3, <2>4, <2>5, <2>6, <2>7, <2>8
    DEF Core, Calls, Process, RunJob, MoveToTrash, RestoreTrash, ReserveCheck,
        ReleaseCheck, Prepare, Relogin, EndDownload, Verify, Goto, Exit,
        Shutdown, Crash, EndProcess, Halt, DiskChange
<1>3. IInv /\ [Next]_vars => [Board!Next]_<<status, comic>>
  BY <1>2, CoreStep DEF vars
<1> QED
  BY <1>1, <1>3, Invariance, PTL DEF Spec, ImplementsBoard, Board!Spec
-----------------------------------------------------------------------------
(* Cancellation in a process that is never told to stop.                   *)

\* An entry of the running map is the goroutine of that job, not one that has
\* gone on to another; so Cancel(j) reaches nobody but j's goroutine.
EntriesCurrent ==
    \A j \in JobIds : running[j] # NoWorker =>
        phase[running[j]] # "idle" /\ jobOf[running[j]] = j

\* While nobody stops the process, a canceled context and a verdict "canceled"
\* come from a request for that very job.
CancelsAsked ==
    /\ server # "stopping"
    /\ \A w \in canceled : phase[w] # "idle"
    /\ \A w \in Workers : phase[w] \in Working =>
          /\ w \in canceled => jobOf[w] \in asked
          /\ phase[w] = "write" /\ outcome[w] = "canceled"
                => jobOf[w] \in asked

RequestInv == EntriesCurrent /\ CancelsAsked /\ CanceledOnRequest

\* A tick enters each job it starts under its own goroutine.
LEMMA DispatchEntries ==
  ASSUME IInv, Dispatch
  PROVE  \A j \in JobIds :
            \/ running'[j] = running[j]
            \/ /\ running'[j] \in Workers
               /\ phase'[running'[j]] # "idle" /\ jobOf'[running'[j]] = j
<1>1. PICK f \in Injection(ClaimSet, Idle) : Claim(f)
  BY DEF Dispatch
<1>2. /\ f \in [ClaimSet -> Idle]
      /\ \A i, j \in ClaimSet : f[i] = f[j] => i = j
  BY DEF Injection, IsInjective
<1> SUFFICES ASSUME NEW j \in JobIds, j \in ClaimSet
             PROVE  /\ running'[j] \in Workers
                    /\ phase'[running'[j]] # "idle" /\ jobOf'[running'[j]] = j
  BY <1>1 DEF Claim
<1>3. f[j] \in Workers /\ f[j] \in Range(f) /\ running'[j] = f[j]
  BY <1>1, <1>2 DEF Claim, Range, Idle
<1>4. (CHOOSE i \in ClaimSet : f[i] = f[j]) = j
  BY <1>2
<1> QED
  BY <1>1, <1>3, <1>4 DEF Claim

LEMMA RequestStep ==
  ASSUME Limits["shutdown"] = 0, IInv, RequestInv, [Next]_vars
  PROVE  RequestInv'
<1>0. /\ TypeOK /\ WorkersOwnRows /\ VerdictChosen /\ RowsInOrder
      /\ EntriesCurrent /\ CancelsAsked /\ CanceledOnRequest
  BY DEF IInv, RequestInv
<1> USE DEF EntriesCurrent, CancelsAsked, CanceledOnRequest
<1>1. ASSUME NEW c \in Comics, Enqueue(c) PROVE RequestInv'
  BY <1>0, <1>1 DEF Enqueue, RequestInv, TypeOK
<1>2. ASSUME NEW j \in JobIds, Cancel(j) PROVE RequestInv'
  BY <1>0, <1>2 DEF Cancel, RequestInv, TypeOK
<1>3. ASSUME NEW j \in JobIds, Retry(j) PROVE RequestInv'
  <2>1. \A w \in Workers : phase[w] \in Working => jobOf[w] # j
    BY <1>0, <1>3 DEF Retry, WorkersOwnRows, Terminal
  <2> QED
    BY <1>0, <1>3, <2>1 DEF Retry, RequestInv, TypeOK
<1>4. ASSUME NEW j \in JobIds, DeleteJob(j) PROVE RequestInv'
  BY <1>0, <1>4 DEF DeleteJob, RequestInv, TypeOK
<1>5. ASSUME Dispatch PROVE RequestInv'
  <2>1. canceled' = canceled
    BY <1>0, <1>5 DEF Dispatch, Claim
  <2>2. /\ \A j \in JobIds : status'[j] = "canceled" => status[j] = "canceled"
        /\ \A w \in Workers :
              \/ phase'[w] = phase[w] /\ jobOf'[w] = jobOf[w]
              \/ phase[w] = "idle" /\ phase'[w] = "prepare"
    BY <1>5, DispatchEffect
  <2>3. EntriesCurrent'
    BY <1>0, <1>5, <2>2, DispatchEntries DEF TypeOK
  <2>4. CancelsAsked'
    BY <1>0, <1>5, <2>1, <2>2 DEF Dispatch, TypeOK, Working
  <2>5. CanceledOnRequest'
    BY <1>0, <1>5, <2>2 DEF Dispatch
  <2> QED
    BY <2>3, <2>4, <2>5 DEF RequestInv
<1>6. ASSUME NEW w \in Workers,
             Prepare(w) \/ Relogin(w) \/ EndDownload(w) \/ Verify(w)
      PROVE  RequestInv'
  BY <1>0, <1>6 DEF Prepare, Relogin, EndDownload, Verify, Goto, FailStatus,
                    RequestInv, TypeOK, Working
<1>7. ASSUME NEW w \in Workers, WriteStatus(w) PROVE RequestInv'
  <2>1. jobOf[w] \in JobIds /\ phase[w] \in Working
    BY <1>0, <1>7 DEF WriteStatus, WorkersOwnRows, Working
  <2> QED
    BY <1>0, <1>7, <2>1 DEF WriteStatus, RequestInv, TypeOK, Working
<1>8. ASSUME NEW w \in Workers, Exit(w) PROVE RequestInv'
  BY <1>0, <1>8 DEF Exit, RequestInv, TypeOK, Working
<1>9. ~Shutdown
  BY <1>0 DEF Shutdown, Spend, TypeOK, Events
<1>10. ASSUME Crash \/ EndProcess PROVE RequestInv'
  BY <1>0, <1>10 DEF Crash, EndProcess, Halt, RequestInv, TypeOK, Working
<1>11. ASSUME Restart PROVE RequestInv'
  BY <1>0, <1>11 DEF Restart, RequestInv, TypeOK
<1>12. CASE UNCHANGED <<server, status, running, phase, jobOf, outcome,
                        canceled, asked>>
  BY <1>0, <1>12 DEF RequestInv
<1> HIDE DEF EntriesCurrent, CancelsAsked, CanceledOnRequest
<1> QED
  BY <1>1, <1>2, <1>3, <1>4, <1>5, <1>6, <1>7, <1>8, <1>9, <1>10, <1>11,
     <1>12, CoreStep
  DEF Core, Calls, Process, RunJob, MoveToTrash, RestoreTrash, ReserveCheck,
      ReleaseCheck, DiskChange, vars

\* As long as nobody stops the process, a job ends as canceled only if Cancel
\* was called for it: a cancel never strikes another job's goroutine, and a
\* crash never turns into one.  The run JobQueue_shutdown shows why the
\* hypothesis is needed: SIGTERM cancels every context.
THEOREM CancelOnlyOnRequest ==
  Limits["shutdown"] = 0 => (Spec => []CanceledOnRequest)
<1> SUFFICES ASSUME Limits["shutdown"] = 0 PROVE Spec => []CanceledOnRequest
  OBVIOUS
<1>1. Init => RequestInv
  BY DEF Init, RequestInv, EntriesCurrent, CancelsAsked, CanceledOnRequest,
         Working
<1>2. IInv /\ RequestInv /\ [Next]_vars => RequestInv'
  BY RequestStep
<1>3. RequestInv => CanceledOnRequest
  BY DEF RequestInv
<1> QED
  BY <1>1, <1>2, <1>3, Invariance, PTL DEF Spec

-----------------------------------------------------------------------------
(* The concurrency limit: the map keeps it, and so do the downloads until  *)
(* a job is retried.                                                       *)

\* The map never holds more goroutines than the setting allows: the loop
\* counts the map before each claim (dispatch).  What the setting promises is
\* DownloadsWithinLimit, which counts goroutines; JobQueue_limit refutes it.
MapWithinLimit == Cardinality(Held) <= Concurrency

\* Until the first retry the two counts agree: only a retry claims a job while
\* its former goroutine is still about to delete the entry.
LimitUntilRetry == used["retry"] = 0 => DownloadsWithinLimit

\* A goroutine is found under its job, which is not waiting in the queue.
EntriesOwn ==
    \A w \in Workers : phase[w] # "idle" =>
        /\ jobOf[w] \in JobIds
        /\ running[jobOf[w]] = w
        /\ phase[w] = "exit" => status[jobOf[w]] \notin {"none", "queued"}

EntriesInv == used["retry"] = 0 => EntriesOwn

\* A finite set of positive numbers that is not empty has a greatest one.
LEMMA GreatestJob ==
  ASSUME NEW T, T \subseteq JobIds, T # {}
  PROVE  \E m \in T : \A k \in T : k <= m
<1> DEFINE B == {b \in Nat : \A k \in T : k <= b}
<1>1. MaxJobs \in B
  BY MaxJobsAssumption DEF JobIds
<1>2. PICK m \in B : \A b \in B : <<b, m>> \notin OpToRel(<, Nat)
  <2>1. B \subseteq Nat
    OBVIOUS
  <2> HIDE DEF B
  <2> QED
    BY <1>1, <2>1, WFMin, NatLessThanWellFounded, Zenon
<1>3. ASSUME NEW b \in B PROVE ~(b < m)
  BY <1>2, Zenon DEF OpToRel
<1>4. T \subseteq Nat \ {0}
  BY MaxJobsAssumption DEF JobIds
<1>5. ASSUME m \notin T PROVE FALSE
  <2>1. PICK k \in T : TRUE
    OBVIOUS
  <2>2. m \in Nat /\ m # 0
    BY <1>4, <1>5, <2>1
  <2>3. ASSUME NEW i \in T PROVE i <= m - 1
    BY <1>4, <1>5, <2>2, <2>3
  <2>4. m - 1 \in B
    BY <2>2, <2>3
  <2> QED
    BY <1>3, <2>2, <2>4
<1> QED
  BY <1>5

LEMMA HeldFinite == IsFiniteSet(JobIds) /\ IsFiniteSet(Held)
<1>1. IsFiniteSet(JobIds)
  BY FS_Interval, MaxJobsAssumption DEF JobIds
<1>2. Held \in SUBSET JobIds
  BY DEF Held
<1> QED
  BY <1>1, <1>2, FS_Subset

\* The claims of a tick fit under the limit: the last of them was made when
\* the map and the claims before it were fewer.
LEMMA ClaimsFit ==
  ASSUME ClaimSet # {}
  PROVE  /\ IsFiniteSet(Held \cup ClaimSet)
         /\ Cardinality(Held \cup ClaimSet) <= Concurrency
<1>1. ClaimSet \subseteq JobIds /\ Queued \subseteq JobIds /\ Held \subseteq JobIds
  BY DEF ClaimSet, Queued, Held
<1>2. PICK j \in ClaimSet : \A k \in ClaimSet : k <= j
  BY <1>1, GreatestJob
<1> DEFINE Before == Held \cup {i \in Queued : i < j}
<1>3. /\ IsFiniteSet(Before) /\ Cardinality(Before) \in Nat
      /\ Cardinality(Before) < Concurrency
  <2>1. Before \in SUBSET JobIds
    BY <1>1
  <2>2. Cardinality(Before) < Concurrency
    BY DEF ClaimSet
  <2> HIDE DEF Before
  <2> QED
    BY <2>1, <2>2, HeldFinite, FS_Subset, FS_CardinalityType
<1>4. Held \cup ClaimSet \subseteq Before \cup {j}
  <2>1. ASSUME NEW k \in ClaimSet, k # j PROVE k \in Before
    <3>1. k \in Nat /\ j \in Nat /\ k <= j /\ k \in Queued
      BY <1>1, <1>2, MaxJobsAssumption DEF JobIds, ClaimSet
    <3> QED
      BY <2>1, <3>1
  <2> QED
    BY <2>1
<1> HIDE DEF Before
<1>5. /\ IsFiniteSet(Before \cup {j})
      /\ Cardinality(Before \cup {j}) <= Concurrency
      /\ Cardinality(Before \cup {j}) \in Nat
  <2>1. /\ IsFiniteSet(Before \cup {j})
        /\ Cardinality(Before \cup {j})
              = IF j \in Before THEN Cardinality(Before)
                                ELSE Cardinality(Before) + 1
    BY <1>3, FS_AddElement
  <2> QED
    BY <1>3, <2>1, ConcurrencyAssumption
<1>6. /\ IsFiniteSet(Held \cup ClaimSet)
      /\ Cardinality(Held \cup ClaimSet) <= Cardinality(Before \cup {j})
  BY <1>4, <1>5, FS_Subset
<1> QED
  BY <1>5, <1>6, FS_CardinalityType, ConcurrencyAssumption

\* The map gets new entries from a tick only.
LEMMA MapGrows ==
  ASSUME IInv, [Next]_vars
  PROVE  \/ Held' \subseteq Held
         \/ ClaimSet # {} /\ Held' \subseteq Held \cup ClaimSet
<1>0. TypeOK /\ VerdictChosen
  BY DEF IInv
<1>1. ASSUME Dispatch
      PROVE  ClaimSet # {} /\ Held' \subseteq Held \cup ClaimSet
  BY <1>1 DEF Dispatch, Claim, Held
<1>2. ASSUME NEW w \in Workers, Exit(w) PROVE Held' \subseteq Held
  BY <1>0, <1>2 DEF Exit, Held, TypeOK
<1>3. ASSUME Crash \/ EndProcess PROVE Held' \subseteq Held
  BY <1>3 DEF Crash, EndProcess, Halt, Held
<1>4. CASE UNCHANGED running
  BY <1>4 DEF Held
<1> QED
  BY <1>1, <1>2, <1>3, <1>4, CoreStep
  DEF Core, Calls, Process, RunJob, Enqueue, Cancel, Retry, DeleteJob,
      MoveToTrash, RestoreTrash, ReserveCheck, ReleaseCheck, Prepare, Relogin,
      EndDownload, Verify, WriteStatus, Goto, Shutdown, Restart, DiskChange,
      vars

\* At every moment the map has at most Concurrency entries.
THEOREM MapLimited == Spec => []MapWithinLimit
<1>1. Init => MapWithinLimit
  <2> SUFFICES ASSUME Init PROVE MapWithinLimit
    OBVIOUS
  <2>1. Held = {}
    BY DEF Init, Held
  <2> QED
    BY <2>1, FS_EmptySet, ConcurrencyAssumption DEF MapWithinLimit
<1>2. ASSUME IInv, MapWithinLimit, [Next]_vars PROVE MapWithinLimit'
  <2>1. PICK S : /\ IsFiniteSet(S) /\ Cardinality(S) <= Concurrency
                 /\ Held' \subseteq S
    BY <1>2, MapGrows, HeldFinite, ClaimsFit DEF MapWithinLimit
  <2>2. Held' \in SUBSET S
    BY <2>1
  <2>3. IsFiniteSet(Held') /\ Cardinality(Held') <= Cardinality(S)
    BY <2>1, <2>2, FS_Subset
  <2>4. Cardinality(Held') \in Nat /\ Cardinality(S) \in Nat
    BY <2>1, <2>3, FS_CardinalityType
  <2> QED
    BY <2>1, <2>3, <2>4, ConcurrencyAssumption DEF MapWithinLimit
<1> QED
  BY <1>1, <1>2, Invariance, PTL DEF Spec

\* Without a retry, no step takes an entry from the goroutine that made it.
LEMMA EntriesStep ==
  ASSUME IInv, EntriesInv, [Next]_vars
  PROVE  EntriesInv'
<1>0. TypeOK /\ RowsInOrder /\ DownIsIdle /\ WorkersOwnRows /\ VerdictChosen
  BY DEF IInv
<1>1. used'["retry"] = 0 => used["retry"] = 0 /\ \A j \in JobIds : ~Retry(j)
  <2>1. ASSUME NEW j \in JobIds, Retry(j) PROVE used'["retry"] # 0
    BY <1>0, <2>1 DEF Retry, Spend, TypeOK, Events
  <2>2. ASSUME NEW e \in Events, Spend(e) PROVE used["retry"] <= used'["retry"]
    BY <1>0, <2>2 DEF Spend, TypeOK, Events
  <2>3. used["retry"] <= used'["retry"]
    <3>1. CASE UNCHANGED used
      BY <1>0, <3>1 DEF TypeOK, Events
    <3>2. CASE \E e \in Events : Spend(e)
      BY <2>2, <3>2
    <3> QED
      BY <3>1, <3>2, CoreStep
      DEF Core, Calls, Process, RunJob, Enqueue, Cancel, Retry, DeleteJob,
          MoveToTrash, RestoreTrash, ReserveCheck, ReleaseCheck, Dispatch,
          Prepare, Relogin, EndDownload, Verify, WriteStatus, Exit, Goto,
          Shutdown, Crash, EndProcess, Restart, DiskChange, Events, vars
  <2>4. used["retry"] \in Nat
    BY <1>0 DEF TypeOK, Events
  <2> QED
    BY <2>1, <2>3, <2>4
<1> SUFFICES ASSUME EntriesOwn, \A j \in JobIds : ~Retry(j)
             PROVE  EntriesOwn'
  BY <1>1 DEF EntriesInv
<1>2. ASSUME UNCHANGED <<running, phase, jobOf>>,
             \A j \in JobIds : status[j] \notin {"none", "queued"}
                                  => status'[j] \notin {"none", "queued"}
      PROVE  EntriesOwn'
  BY <1>2 DEF EntriesOwn
<1>3. ASSUME NEW c \in Comics, Enqueue(c) PROVE EntriesOwn'
  <2>1. created + 1 \in JobIds /\ status[created + 1] = "none"
    BY <1>0, <1>3, MaxJobsAssumption DEF Enqueue, TypeOK, RowsInOrder, JobIds
  <2> QED
    BY <1>0, <1>2, <1>3, <2>1 DEF Enqueue, TypeOK
<1>4. ASSUME NEW j \in JobIds, Cancel(j) \/ DeleteJob(j) PROVE EntriesOwn'
  <2>1. \A i \in JobIds : status[i] \notin {"none", "queued"}
                             => status'[i] \notin {"none", "queued"}
    BY <1>0, <1>4 DEF Cancel, DeleteJob, TypeOK
  <2> QED
    BY <1>2, <1>4, <2>1 DEF Cancel, DeleteJob
<1>5. ASSUME Dispatch PROVE EntriesOwn'
  <2>1. PICK f \in Injection(ClaimSet, Idle) : Claim(f)
    BY <1>5 DEF Dispatch
  <2>2. /\ f \in [ClaimSet -> Idle]
        /\ \A i, j \in ClaimSet : f[i] = f[j] => i = j
    BY DEF Injection, IsInjective
  <2>3. \A j \in ClaimSet : j \in JobIds /\ status[j] = "queued"
    BY DEF ClaimSet, Queued
  <2>4. \A j \in ClaimSet : (CHOOSE i \in ClaimSet : f[i] = f[j]) = j
    BY <2>2
  <2>5. ASSUME NEW w \in Workers, w \in Range(f)
        PROVE  /\ phase'[w] = "prepare" /\ jobOf'[w] \in JobIds
               /\ running'[jobOf'[w]] = w
    <3>1. PICK j \in ClaimSet : f[j] = w
      BY <2>2, <2>5 DEF Range
    <3>2. jobOf'[w] = j
      BY <2>1, <2>4, <2>5, <3>1 DEF Claim
    <3> QED
      BY <2>1, <2>3, <2>5, <3>1, <3>2 DEF Claim
  <2>6. ASSUME NEW w \in Workers, w \notin Range(f), phase[w] # "idle"
        PROVE  /\ jobOf'[w] = jobOf[w] /\ phase'[w] = phase[w]
               /\ jobOf[w] \notin ClaimSet
               /\ running'[jobOf[w]] = w
               /\ status'[jobOf[w]] = status[jobOf[w]]
    <3>1. jobOf[w] \in JobIds /\ status[jobOf[w]] # "queued"
      BY <1>0, <2>6 DEF EntriesOwn, WorkersOwnRows, TypeOK, Phases
    <3>2. jobOf[w] \notin ClaimSet
      BY <2>3, <3>1
    <3> QED
      BY <2>1, <2>6, <3>1, <3>2 DEF Claim, EntriesOwn
  <2>7. \A w \in Workers : w \notin Range(f) => phase'[w] = phase[w]
    BY <2>1 DEF Claim
  <2> QED
    BY <2>5, <2>6, <2>7 DEF EntriesOwn
<1>6. ASSUME NEW w \in Workers,
             Prepare(w) \/ Relogin(w) \/ EndDownload(w) \/ Verify(w)
      PROVE  EntriesOwn'
  <2>1. /\ UNCHANGED <<status, jobOf, running>>
        /\ phase[w] \in Working /\ phase'[w] \in Working
        /\ \A v \in Workers \ {w} : phase'[v] = phase[v]
    BY <1>6, GotoEffect DEF Prepare, Relogin, EndDownload, Verify, Goto
  <2> QED
    BY <2>1 DEF EntriesOwn, Working
<1>7. ASSUME NEW w \in Workers, WriteStatus(w) PROVE EntriesOwn'
  <2>1. /\ phase[w] = "write" /\ phase[w] \in Working
        /\ UNCHANGED <<running, jobOf>>
    BY <1>7 DEF WriteStatus, Working
  <2>2. /\ jobOf[w] \in JobIds /\ status[jobOf[w]] = "running"
        /\ outcome[w] \in Terminal
    BY <1>0, <2>1 DEF WorkersOwnRows, VerdictChosen
  <2>3. \A j \in JobIds : status[j] \notin {"none", "queued"}
                             => status'[j] \notin {"none", "queued"}
    BY <1>0, <1>7, <2>2 DEF WriteStatus, TypeOK, Terminal
  <2>4. \A v \in Workers : v # w => phase'[v] = phase[v]
    BY <1>0, <1>7 DEF WriteStatus, TypeOK
  <2> QED
    BY <2>1, <2>2, <2>3, <2>4 DEF EntriesOwn
<1>8. ASSUME NEW w \in Workers, Exit(w) PROVE EntriesOwn'
  <2>1. /\ phase[w] = "exit" /\ phase'[w] = "idle" /\ UNCHANGED status
        /\ \A v \in Workers : v # w => phase'[v] = phase[v] /\ jobOf'[v] = jobOf[v]
    BY <1>0, <1>8 DEF Exit, TypeOK
  <2>2. \A j \in JobIds : j # jobOf[w] => running'[j] = running[j]
    BY <1>0, <1>8 DEF Exit, TypeOK
  <2>3. \A v \in Workers : v # w /\ phase[v] # "idle" => jobOf[v] # jobOf[w]
    BY <2>1 DEF EntriesOwn
  <2> QED
    BY <2>1, <2>2, <2>3 DEF EntriesOwn
<1>9. ASSUME Crash \/ EndProcess PROVE EntriesOwn'
  BY <1>9 DEF Crash, EndProcess, Halt, EntriesOwn
<1>10. ASSUME Restart PROVE EntriesOwn'
  <2>1. \A w \in Workers : phase'[w] = "idle"
    BY <1>0, <1>10 DEF Restart, DownIsIdle
  <2> QED
    BY <2>1 DEF EntriesOwn
<1>11. CASE UNCHANGED <<status, running, phase, jobOf>>
  BY <1>11 DEF EntriesOwn
<1> QED
  BY <1>3, <1>4, <1>5, <1>6, <1>7, <1>8, <1>9, <1>10, <1>11, CoreStep
  DEF Core, Calls, Process, RunJob, MoveToTrash, RestoreTrash, ReserveCheck,
      ReleaseCheck, Shutdown, DiskChange, vars

\* The working goroutines are entries of the map: there are no more of them.
LEMMA WorkersEntered ==
  ASSUME TypeOK, EntriesOwn, MapWithinLimit
  PROVE  DownloadsWithinLimit
<1> DEFINE Busy == {w \in Workers : phase[w] \in Working}
           f == [w \in Busy |-> jobOf[w]]
<1>1. \A w \in Busy : jobOf[w] \in Held /\ running[jobOf[w]] = w
  BY NoWorkerAssumption DEF EntriesOwn, Held, Working
<1>2. f \in Injection(Busy, Held)
  <2>1. f \in [Busy -> Held]
    BY <1>1
  <2>2. \A v, w \in Busy : f[v] = f[w] => v = w
    BY <1>1
  <2> QED
    BY <2>1, <2>2 DEF Injection, IsInjective
<1> HIDE DEF f
<1>3. Cardinality(Busy) <= Cardinality(Held) /\ IsFiniteSet(Busy)
  BY <1>2, HeldFinite, FS_Injection
<1> QED
  BY <1>3, HeldFinite, FS_CardinalityType, ConcurrencyAssumption
  DEF MapWithinLimit, DownloadsWithinLimit

\* No more than Concurrency goroutines download at a time as long as no job
\* was retried, whatever is canceled, deleted, crashes or is lost.  The run
\* JobQueue_limit shows that one retry is enough to exceed the limit.
THEOREM LimitKept == Spec => []LimitUntilRetry
<1>1. Init => EntriesInv
  BY DEF Init, EntriesInv, EntriesOwn
<1>2. IInv /\ EntriesInv /\ [Next]_vars => EntriesInv'
  BY EntriesStep
<1>3. IInv /\ EntriesInv /\ MapWithinLimit => LimitUntilRetry
  BY WorkersEntered DEF IInv, EntriesInv, LimitUntilRetry
<1> QED
  BY <1>1, <1>2, <1>3, Invariance, MapLimited, PTL DEF Spec
=============================================================================
