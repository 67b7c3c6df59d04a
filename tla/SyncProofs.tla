----------------------------- MODULE SyncProofs ------------------------------
(***************************************************************************)
(* Proofs about SyncRuns and DailySync for every number of accounts,       *)
(* comics, runs and slots and for all bounds.  RunInv is the inductive     *)
(* invariant of the runs, SchedInv that of the scheduler on top of them.   *)
(***************************************************************************)
EXTENDS DailySync, FiniteSetTheorems, TLAPS

-----------------------------------------------------------------------------
(* The inductive invariant of the runs.                                    *)

\* A goroutine that runs is registered for its account, has not reported yet,
\* and belongs to a process that is there.
RunsRegistered ==
    \A r \in Live :
        /\ run[r].acct \in Accounts
        /\ current[run[r].acct] = r
        /\ run[r].prog \in {"queued", "running"}
        /\ server # "down"

\* An entry of syncJobs is a run of that account.
EntriesKnown ==
    \A a \in Accounts : current[a] # 0 =>
        run[current[a]].acct = a /\ run[current[a]].phase # "none"

\* The progress is final only when the goroutine is through, and a success
\* only if there was no error.
ReportsAreLast ==
    \A r \in RunIds :
        /\ run[r].prog \in Reports => run[r].phase = "end"
        /\ run[r].prog = "success" => ~run[r].bad

\* A comic that run x has to do is a row of its checkpoint for it to settle, or
\* one that it has settled; and what it has settled stays settled.
TodoUnfinished(x) ==
    x.phase \in {"auth", "checking", "marking"} =>
        /\ \A c \in Named(x.todo) \ x.met : item[x.acct][c] \in Duty(x)
        /\ \A c \in x.met : item[x.acct][c] \in Settled

CheckpointMatches == \A r \in RunIds : TodoUnfinished(run[r])

\* A run has settled nothing before it has a list.
MetLater ==
    \A r \in RunIds :
        run[r].phase \in {"none", "queued", "listing"} => run[r].met = {}

\* The entry a run is on is one of those it has to do.
OnListed == \A r \in RunIds : run[r].phase = "marking" => run[r].at \in run[r].todo

\* No error so far in run x.
Clean(x) == ~x.bad

\* The converse: what a run without an error has to settle is on its list, and
\* nothing is left of it when the run has been through the list.
NothingForgotten ==
    \A a \in Accounts : current[a] # 0 =>
        LET x == run[current[a]]
        IN  Clean(x) =>
              /\ x.phase \in {"auth", "checking", "marking"} =>
                    \A c \in Comics : item[a][c] \in Duty(x) => c \in Named(x.todo)
              /\ x.phase \in {"finish", "report"} \/ x.prog = "success" =>
                    \A c \in Comics : item[a][c] \notin Duty(x)

\* A row is written when its run is launched, and says that it is running
\* until the run is saved.
RowsOpen ==
    \A r \in RunIds :
        /\ run[r].phase = "none" => row[r] = "none"
        /\ run[r].phase \in Alive \ {"report"} => row[r] = "running"

\* As long as no write was lost, the history follows the goroutines.
RowsFollow ==
    NoWriteLost =>
        /\ server # "down" =>
              \A r \in RunIds : row[r] = "running" => r \in Live
        /\ \A r \in RunIds :
              /\ run[r].phase = "report" => row[r] = Verdict(run[r])
              /\ run[r].prog \in Reports => row[r] = run[r].prog

LeftWithin == \A l \in Limits : left["lostWrite"] <= l["lostWrite"]

RunInv ==
    /\ TypeOK
    /\ RunsRegistered
    /\ EntriesKnown
    /\ ReportsAreLast
    /\ CheckpointMatches
    /\ MetLater
    /\ OnListed
    /\ NothingForgotten
    /\ RowsOpen
    /\ RowsFollow
    /\ LeftWithin

-----------------------------------------------------------------------------
(* The inductive invariant of the scheduler.                               *)

SchedType ==
    /\ today \in Nat
    /\ lastRun \in Nat
    /\ saved \in Nat
    /\ attempt \in [day : Nat, left : SUBSET Accounts, wait : 0..MaxRuns,
                    over : BOOLEAN, failed : BOOLEAN]
    /\ listed \in [Accounts -> Nat]
    /\ succeeded \in [Accounts -> Nat]

\* No day is remembered before it has come.
NoFutureDay == lastRun <= today /\ saved <= today /\ attempt.day <= today

\* The run an attempt waits for exists; if it reported success, it did so
\* since the attempt began.
WaitTruthful ==
    attempt.wait # 0 =>
        /\ run[attempt.wait].phase # "none"
        /\ run[attempt.wait].acct \in Accounts
        /\ run[attempt.wait].prog = "success" =>
              succeeded[run[attempt.wait].acct] >= attempt.day

\* An attempt without a failure has a success of its day, or is waiting for
\* one, for every account it has dealt with.
AttemptEarned ==
    attempt.day # 0 /\ ~attempt.failed =>
        \A a \in Accounts \ attempt.left :
            \/ attempt.wait # 0 /\ run[attempt.wait].acct = a
            \/ succeeded[a] >= attempt.day

SchedInv ==
    /\ SchedType
    /\ NoFutureDay
    /\ WaitTruthful
    /\ AttemptEarned
    /\ MarkedMeansSucceeded

-----------------------------------------------------------------------------
(* Every step, the scheduler's too, has one of five effects on the runs.   *)

\* The bounds only shrink.
Shrinks ==
    /\ left' \in [Events -> Nat]
    /\ left'["lostWrite"] <= left["lostWrite"]

\* A step that leaves runs, history and checkpoints alone.
Aside ==
    /\ UNCHANGED <<run, current, row, item>>
    /\ server' \in {"up", "stopping", "down"}
    /\ server' = "down" <=> server = "down"
    /\ boot' \in {"query", "resume", "over"}
    /\ owed' \subseteq Accounts
    /\ canceled' \subseteq RunIds
    /\ Shrinks

\* A launch, by whom ever.
Started ==
    /\ \E a \in Accounts, m \in Modes, o \in {"life", "attempt"} : Launch(a, m, o)
    /\ UNCHANGED <<server, boot, canceled, item>>
    /\ owed' \subseteq Accounts
    /\ Shrinks

Stopped == Halt /\ Shrinks

GoesOn == Aside \/ Started \/ Restart \/ (\E r \in RunIds : RunStep(r))

RunEffect == GoesOn \/ Stopped

LEMMA SpendShrinks ==
  ASSUME TypeOK, NEW e \in Events, Spend(e)
  PROVE  Shrinks
BY DEF TypeOK, Spend, Shrinks, Events

LEMMA SameShrinks == TypeOK /\ left' = left => Shrinks
BY DEF TypeOK, Shrinks, Events

\* A request, a timeout of a run, the goroutine of Start.
Outside ==
    \/ \E a \in Accounts, m \in Modes : StartAccountSync(a, m)
    \/ \E r \in RunIds : Expire(r)
    \/ Boot

LEMMA OutsideEffect == TypeOK /\ Outside => Started \/ Aside
<1> SUFFICES ASSUME TypeOK, Outside PROVE Started \/ Aside
  OBVIOUS
<1>1. ASSUME NEW a \in Accounts, NEW m \in Modes, StartAccountSync(a, m)
      PROVE  Started
  <2>1. Shrinks
    BY <1>1, SpendShrinks DEF StartAccountSync, Events
  <2> QED
    BY <1>1, <2>1 DEF StartAccountSync, Started, TypeOK
<1>2. ASSUME NEW r \in RunIds, Expire(r) PROVE Aside
  <2>1. Shrinks
    BY <1>2, SpendShrinks DEF Expire, Events
  <2> QED
    BY <1>2, <2>1 DEF Expire, Aside, TypeOK, Live
<1>3. ASSUME BootQuery \/ BootOver PROVE Aside
  BY <1>3, SameShrinks DEF BootQuery, BootOver, Aside, TypeOK
<1>4. ASSUME NEW a \in Accounts, BootResume(a) PROVE Started \/ Aside
  BY <1>4, SameShrinks DEF BootResume, Started, Aside, TypeOK, Modes
<1> QED
  BY <1>1, <1>2, <1>3, <1>4 DEF Outside, Boot

LEMMA StepEffect == TypeOK /\ [Next]_vars => RunEffect
<1> SUFFICES ASSUME TypeOK, [Next]_vars PROVE RunEffect
  OBVIOUS
<1>1. Outside => Started \/ Aside
  BY OutsideEffect
<1>2. ASSUME Shutdown PROVE Aside
  <2>1. Shrinks
    BY <1>2, SpendShrinks DEF Shutdown, Events
  <2> QED
    BY <1>2, <2>1 DEF Shutdown, Aside, TypeOK, Live
<1>3. ASSUME Crash \/ EndProcess PROVE Stopped
  <2>1. Shrinks
    BY <1>3, SpendShrinks, SameShrinks DEF Crash, EndProcess, Events
  <2> QED
    BY <1>3, <2>1 DEF Crash, EndProcess, Stopped
<1>4. UNCHANGED vars => Aside
  BY SameShrinks DEF vars, Aside, TypeOK
<1> QED
  BY <1>1, <1>2, <1>3, <1>4 DEF Next, Environment, Outside, RunEffect, GoesOn

LEMMA DailyEffect == TypeOK /\ [DailyNext]_dailyVars => RunEffect
<1> SUFFICES ASSUME TypeOK, [DailyNext]_dailyVars PROVE RunEffect
  OBVIOUS
<1>1. ASSUME Tick \/ NextDay PROVE Aside
  <2>1. Shrinks
    BY <1>1, SpendShrinks DEF Tick, NextDay, Events
  <2> QED
    BY <1>1, <2>1 DEF Tick, NextDay, Aside, TypeOK
<1>2. ASSUME NEW a \in Accounts, JoinOrLaunch(a) PROVE Started \/ Aside
  BY <1>2, SameShrinks DEF JoinOrLaunch, Started, Aside, TypeOK, Modes
<1>3. ASSUME Answered PROVE Aside
  BY <1>3, SameShrinks DEF Answered, vars, Aside, TypeOK
<1>4. ASSUME AttemptReturns PROVE Aside
  <2>1. Shrinks
    BY <1>4, SpendShrinks, SameShrinks DEF AttemptReturns, Events
  <2> QED
    BY <1>4, <2>1 DEF AttemptReturns, Aside, TypeOK, Live
<1>5. ASSUME AttemptTimeout PROVE Aside
  <2>1. Shrinks
    BY <1>5, SpendShrinks DEF AttemptTimeout, Events
  <2> QED
    BY <1>5, <2>1 DEF AttemptTimeout, Aside, TypeOK, Live
<1>6. ASSUME NEW r \in RunIds, DailyRunStep(r) PROVE RunStep(r)
  BY <1>6 DEF DailyRunStep
<1>7. ASSUME Others \/ DailyShutdown \/ DailyEnd \/ DailyRestart PROVE Next
  BY <1>7 DEF Others, DailyShutdown, DailyEnd, DailyRestart, Next, Environment
<1>8. CASE UNCHANGED dailyVars
  BY <1>8, SameShrinks DEF dailyVars, vars, Aside, TypeOK, RunEffect, GoesOn
<1> QED
  BY <1>1, <1>2, <1>3, <1>4, <1>5, <1>6, <1>7, <1>8, StepEffect
  DEF DailyNext, Scheduler, RunEffect, GoesOn

-----------------------------------------------------------------------------
(* A step of a run.                                                        *)

\* The list a checkpoint makes names its comics, and to take an entry off a list
\* takes away no other comic.
LEMMA NamedOnce ==
  ASSUME NEW S
  PROVE  Named(S \X {1}) = S
<1>1. ASSUME NEW c \in S PROVE c \in Named(S \X {1})
  <2>1. <<c, 1>> \in S \X {1} /\ Comic(<<c, 1>>) = c
    BY DEF Comic
  <2> QED
    BY <2>1 DEF Named
<1>2. ASSUME NEW e \in S \X {1} PROVE Comic(e) \in S
  BY DEF Comic
<1> QED
  BY <1>1, <1>2 DEF Named

LEMMA NamedRest ==
  ASSUME NEW L, NEW at, NEW c \in Named(L), c # Comic(at)
  PROVE  c \in Named(L \ {at})
<1>1. PICK e \in L : c = Comic(e)
  BY DEF Named
<1>2. e \in L \ {at}
  BY <1>1
<1> QED
  BY <1>1, <1>2 DEF Named

\* What remains a syncJob of the same account and mode after an update.
Heir(x, y) == y \in RunType /\ y.acct = x.acct /\ y.mode = x.mode

LEMMA Heirs ==
  ASSUME NEW x \in RunType, NEW p \in {"end"} \cup Alive, NEW t \in SUBSET Entries,
         NEW q \in {"none", "queued", "running"} \cup Reports, NEW b \in BOOLEAN
  PROVE  /\ Heir(x, [x EXCEPT !.phase = p])
         /\ Heir(x, [x EXCEPT !.phase = p, !.prog = q])
         /\ Heir(x, [x EXCEPT !.phase = p, !.bad = b])
         /\ Heir(x, [x EXCEPT !.phase = p, !.todo = t])
         /\ Heir(x, [x EXCEPT !.phase = p, !.todo = t, !.bad = b])
         /\ Heir(x, [x EXCEPT !.phase = p, !.bad = b, !.todo = t])
<1>1. Heir(x, [x EXCEPT !.phase = p])
  BY DEF RunType, Heir
<1>2. Heir(x, [x EXCEPT !.phase = p, !.prog = q])
  BY DEF RunType, Heir
<1>3. Heir(x, [x EXCEPT !.phase = p, !.bad = b])
  BY DEF RunType, Heir
<1>4. Heir(x, [x EXCEPT !.phase = p, !.todo = t])
  BY DEF RunType, Heir
<1>5. Heir(x, [x EXCEPT !.phase = p, !.todo = t, !.bad = b])
  BY DEF RunType, Heir
<1>6. Heir(x, [x EXCEPT !.phase = p, !.bad = b, !.todo = t])
  BY DEF RunType, Heir
<1> QED
  BY <1>1, <1>2, <1>3, <1>4, <1>5, <1>6

LEMMA HeirAt ==
  ASSUME NEW x, NEW y, Heir(x, y), NEW c \in Entries \cup {NoEntry},
         NEW o \in {"none", "handled", "error"}
  PROVE  Heir(x, [y EXCEPT !.at = c, !.result = o])
<1>1. [y EXCEPT !.at = c, !.result = o] \in RunType
  BY DEF RunType, Heir
<1>2. /\ [y EXCEPT !.at = c, !.result = o].acct = y.acct
      /\ [y EXCEPT !.at = c, !.result = o].mode = y.mode
  BY DEF RunType, Heir
<1> QED
  BY <1>1, <1>2 DEF Heir

LEMMA HeirWorked ==
  ASSUME NEW x, NEW y, Heir(x, y), NEW w \in BOOLEAN
  PROVE  Heir(x, [y EXCEPT !.worked = w])
BY DEF RunType, Heir

LEMMA HeirChecked ==
  ASSUME NEW x \in RunType, NEW p \in {"end"} \cup Alive,
         NEW c \in Entries \cup {NoEntry}, NEW o \in {"none", "handled", "error"}
  PROVE  Heir(x, [x EXCEPT !.phase = p, !.at = c, !.result = o])
<1>1. Heir(x, [[x EXCEPT !.phase = p] EXCEPT !.at = c, !.result = o])
  BY Heirs, HeirAt
<1>2. [[x EXCEPT !.phase = p] EXCEPT !.at = c, !.result = o]
        = [x EXCEPT !.phase = p, !.at = c, !.result = o]
  OBVIOUS
<1> QED
  BY <1>1, <1>2

LEMMA HeirOver ==
  ASSUME NEW x \in RunType, NEW p \in {"end"} \cup Alive, NEW t \in SUBSET Entries,
         NEW b \in BOOLEAN
  PROVE  Heir(x, [x EXCEPT !.phase = p, !.bad = b, !.todo = t,
                           !.at = NoEntry, !.result = "none"])
<1>1. Heir(x, [[x EXCEPT !.phase = p, !.bad = b, !.todo = t]
                  EXCEPT !.at = NoEntry, !.result = "none"])
  BY Heirs, HeirAt
<1>2. [[x EXCEPT !.phase = p, !.bad = b, !.todo = t]
          EXCEPT !.at = NoEntry, !.result = "none"]
        = [x EXCEPT !.phase = p, !.bad = b, !.todo = t,
                    !.at = NoEntry, !.result = "none"]
  OBVIOUS
<1> QED
  BY <1>1, <1>2

LEMMA HeirMet ==
  ASSUME NEW x, NEW y, Heir(x, y), NEW M \in SUBSET Comics
  PROVE  Heir(x, [y EXCEPT !.met = M])
BY DEF RunType, Heir

LEMMA HeirMarked ==
  ASSUME NEW x \in RunType, NEW p \in {"end"} \cup Alive, NEW t \in SUBSET Entries,
         NEW b \in BOOLEAN, NEW w \in BOOLEAN
  PROVE  Heir(x, [x EXCEPT !.phase = p, !.bad = b, !.todo = t, !.worked = w,
                           !.at = NoEntry, !.result = "none"])
<1>1. Heir(x, [[[x EXCEPT !.phase = p, !.bad = b, !.todo = t]
                  EXCEPT !.worked = w] EXCEPT !.at = NoEntry, !.result = "none"])
  BY Heirs, HeirAt, HeirWorked
<1>2. [[[x EXCEPT !.phase = p, !.bad = b, !.todo = t]
          EXCEPT !.worked = w] EXCEPT !.at = NoEntry, !.result = "none"]
        = [x EXCEPT !.phase = p, !.bad = b, !.todo = t, !.worked = w,
                    !.at = NoEntry, !.result = "none"]
  OBVIOUS
<1> QED
  BY <1>1, <1>2

LEMMA SetFrame ==
  ASSUME TypeOK, NEW r \in RunIds, NEW x, Heir(run[r], x), Set(r, x)
  PROVE  /\ run' \in [RunIds -> RunType]
         /\ run'[r] = x
         /\ run'[r].acct = run[r].acct /\ run'[r].mode = run[r].mode
         /\ \A s \in RunIds \ {r} : run'[s] = run[s]
BY DEF TypeOK, Heir, Set

LEMMA LeaveFrame ==
  ASSUME TypeOK, NEW r \in RunIds, NEW b \in BOOLEAN, Leave(r, b)
  PROVE  /\ run' \in [RunIds -> RunType]
         /\ run'[r] = [run[r] EXCEPT !.phase = "finish", !.bad = @ \/ b,
                                     !.todo = {}, !.at = NoEntry,
                                     !.result = "none"]
         /\ run'[r].acct = run[r].acct /\ run'[r].mode = run[r].mode
         /\ \A s \in RunIds \ {r} : run'[s] = run[s]
<1>1. run[r] \in RunType /\ run[r].bad \in BOOLEAN
  BY DEF TypeOK, RunType
<1>2. Heir(run[r], [run[r] EXCEPT !.phase = "finish", !.bad = run[r].bad \/ b,
                        !.todo = {}, !.at = NoEntry, !.result = "none"])
  BY <1>1, HeirOver DEF Alive
<1> QED
  BY <1>2, SetFrame DEF Leave

\* What a step of run r may touch: its own syncJob and row, the checkpoint of
\* its account, the bounds.  It never changes hands.
LEMMA RunStepFrame ==
  ASSUME TypeOK, OnListed, NEW r \in RunIds, RunStep(r)
  PROVE  /\ r \in Live
         /\ run' \in [RunIds -> RunType]
         /\ run'[r].acct = run[r].acct /\ run'[r].mode = run[r].mode
         /\ \A s \in RunIds \ {r} : run'[s] = run[s] /\ row'[s] = row[s]
         /\ \A a \in Accounts \ {run[r].acct} : item'[a] = item[a]
         /\ UNCHANGED <<server, boot, owed, current>>
         /\ canceled' \subseteq RunIds
         /\ Shrinks
<1> DEFINE Job == /\ run' \in [RunIds -> RunType]
                  /\ run'[r].acct = run[r].acct /\ run'[r].mode = run[r].mode
                  /\ \A s \in RunIds \ {r} : run'[s] = run[s]
           Rest == /\ r \in Live
                   /\ \A s \in RunIds \ {r} : row'[s] = row[s]
                   /\ \A a \in Accounts \ {run[r].acct} : item'[a] = item[a]
                   /\ UNCHANGED <<server, boot, owed, current>>
                   /\ canceled' \subseteq RunIds
<1>0. run[r] \in RunType /\ canceled \subseteq RunIds
  BY DEF TypeOK
<1>a. ASSUME NEW b \in BOOLEAN, Leave(r, b) PROVE Job
  BY <1>a, LeaveFrame
<1>b. ASSUME NEW x, Heir(run[r], x), Set(r, x) PROVE Job
  BY <1>b, SetFrame
<1> HIDE DEF Job
<1>1. CASE EnterSlot(r)
  <2>1. Job
    BY <1>0, <1>b, <1>1, Heirs DEF EnterSlot, Alive, Inside
  <2>2. Rest
    BY <1>0, <1>1 DEF EnterSlot, Live, Alive
  <2> QED
    BY <1>1, <2>1, <2>2, SameShrinks DEF EnterSlot, Job
<1>2. CASE GiveUp(r) \/ Interrupted(r)
  <2>1. Job
    BY <1>a, <1>2 DEF GiveUp, Interrupted, Quit
  <2>2. Rest
    BY <1>0, <1>2 DEF GiveUp, Interrupted, Live, Alive, Inside
  <2> QED
    BY <1>2, <2>1, <2>2, SameShrinks DEF GiveUp, Interrupted, Job
<1>3. CASE ListFails(r)
  <2>1. Job
    BY <1>a, <1>3 DEF ListFails, Quit
  <2>2. Rest
    BY <1>0, <1>3 DEF ListFails, Live, Alive, Inside
  <2>3. Shrinks
    BY <1>3, SameShrinks, SpendShrinks DEF ListFails, CallFails, Events
  <2> QED
    BY <2>1, <2>2, <2>3 DEF Job
<1>4. CASE ListCheckpoint(r)
  <2>1. Quit(r) \/ \E L \in SUBSET Entries :
                      Set(r, [run[r] EXCEPT !.phase = "auth", !.todo = L])
    <3> DEFINE found == {c \in Comics : item[run[r].acct][c] \in Duty(run[r])}
               L == found \X {1}
    <3>1. Quit(r) \/ Set(r, [run[r] EXCEPT !.phase = "auth", !.todo = L])
      BY <1>4 DEF ListCheckpoint
    <3>2. L \in SUBSET Entries
      <4>1. {1} \subseteq 1..Copies
        BY CopiesAssumption
      <4>2. found \subseteq Comics
        OBVIOUS
      <4> HIDE DEF found
      <4> QED
        BY <4>1, <4>2 DEF Entries
    <3> HIDE DEF L
    <3> QED
      BY <3>1, <3>2
  <2>2. Job
    BY <1>0, <1>a, <1>b, <2>1, Heirs DEF Quit, Alive, Inside
  <2>3. Rest
    BY <1>0, <1>4 DEF ListCheckpoint, Live, Alive, Inside
  <2> QED
    BY <1>4, <2>2, <2>3, SameShrinks DEF ListCheckpoint, Job
<1>5. CASE ListFavorites(r)
  <2>1. PICK L \in SUBSET Entries, partial \in BOOLEAN :
          /\ partial => Spend("error")
          /\ ~partial => UNCHANGED left
          /\ item' = [item EXCEPT ![run[r].acct] =
                        [c \in Comics |->
                            IF c \in Named(L) THEN "pending" ELSE "none"]]
          /\ Set(r, [run[r] EXCEPT !.phase = "auth", !.todo = L,
                                   !.bad = partial])
    BY <1>5 DEF ListFavorites, Lists
  <2>2. Job
    BY <1>0, <1>b, <2>1, Heirs DEF Alive, Inside
  <2>3. Shrinks
    BY <2>1, SameShrinks, SpendShrinks DEF Events
  <2>4. \A a \in Accounts \ {run[r].acct} : item'[a] = item[a]
    BY <2>1 DEF TypeOK
  <2>5. Rest
    BY <1>0, <1>5, <2>4 DEF ListFavorites, Live, Alive, Inside
  <2> QED
    BY <2>2, <2>3, <2>5 DEF Job
<1>6. CASE Authorise(r)
  <2>1. Job
    BY <1>0, <1>a, <1>b, <1>6, Heirs DEF Authorise, Quit, Alive, Inside
  <2>2. Rest
    BY <1>0, <1>6 DEF Authorise, Live, Alive, Inside
  <2>3. Shrinks
    BY <1>6, SameShrinks, SpendShrinks DEF Authorise, CallFails, Events
  <2> QED
    BY <2>1, <2>2, <2>3 DEF Job
<1>7. ASSUME NEW e \in Entries, SyncComic(r, e) PROVE Job /\ Rest /\ Shrinks
  <2>1. Job
    BY <1>0, <1>b, <1>7, HeirChecked DEF SyncComic, Alive, Inside
  <2>2. Rest
    BY <1>0, <1>7 DEF SyncComic, Live, Alive, Inside
  <2>3. Shrinks
    BY <1>7, SameShrinks, SpendShrinks DEF SyncComic, Events
  <2> QED
    BY <2>1, <2>2, <2>3
<1>8. CASE MarkItem(r)
  <2> DEFINE bad == run[r].bad \/ run[r].result = "error"
             worked == run[r].worked \/ run[r].result # "error"
             rest == run[r].todo \ {run[r].at}
             met == run[r].met \cup {Comic(run[r].at)}
             half == [run[r] EXCEPT !.phase = "checking", !.bad = bad,
                          !.todo = rest, !.worked = worked, !.at = NoEntry,
                          !.result = "none"]
             over == [run[r] EXCEPT !.phase = "finish", !.bad = TRUE,
                          !.todo = {}, !.worked = worked, !.at = NoEntry,
                          !.result = "none"]
             next == [run[r] EXCEPT !.phase = "checking", !.bad = bad,
                          !.todo = rest, !.worked = worked, !.at = NoEntry,
                          !.result = "none", !.met = met]
  <2>1. /\ bad \in BOOLEAN /\ worked \in BOOLEAN
        /\ rest \in SUBSET Entries
    BY <1>0 DEF RunType
  <2>2. met \in SUBSET Comics
    <3>1. run[r].at \in Entries /\ run[r].met \in SUBSET Comics
      BY <1>0, <1>8 DEF MarkItem, OnListed, RunType
    <3> QED
      BY <3>1 DEF Entries, Comic
  <2>3. Set(r, next) \/ Set(r, over)
    BY <1>8 DEF MarkItem
  <2>7. Job
    <3>1. next = [half EXCEPT !.met = met]
      OBVIOUS
    <3> HIDE DEF bad, worked, rest, met, next
    <3>2. Heir(run[r], half)
      BY <1>0, <2>1, HeirMarked DEF Alive, Inside
    <3>3. Heir(run[r], over)
      BY <1>0, <2>1, HeirMarked DEF Alive
    <3> HIDE DEF half, over
    <3>4. Heir(run[r], next)
      BY <2>2, <3>1, <3>2, HeirMet
    <3> QED
      BY <1>b, <2>3, <3>3, <3>4
  <2>4. \A a \in Accounts \ {run[r].acct} : item'[a] = item[a]
    BY <1>8 DEF MarkItem, TypeOK
  <2>5. Rest
    BY <1>0, <1>8, <2>4 DEF MarkItem, Live, Alive, Inside
  <2>6. Shrinks
    BY <1>8, SameShrinks, SpendShrinks DEF MarkItem, Events
  <2> QED
    BY <2>5, <2>6, <2>7 DEF Job
<1>9. CASE ListDone(r)
  <2>1. Job
    BY <1>a, <1>9 DEF ListDone, Quit
  <2>2. Rest
    BY <1>0, <1>9 DEF ListDone, Live, Alive, Inside
  <2>3. Shrinks
    BY <1>9, SameShrinks, SpendShrinks DEF ListDone, Events
  <2> QED
    BY <2>1, <2>2, <2>3 DEF Job
<1>10. CASE SaveRun(r)
  <2>1. Job
    BY <1>0, <1>b, <1>10, Heirs DEF SaveRun, Alive
  <2>2. \A s \in RunIds \ {r} : row'[s] = row[s]
    BY <1>10 DEF SaveRun, TypeOK
  <2>3. Rest
    BY <1>0, <1>10, <2>2 DEF SaveRun, Live, Alive
  <2>4. Shrinks
    BY <1>10, SameShrinks, SpendShrinks DEF SaveRun, Events
  <2> QED
    BY <2>1, <2>3, <2>4 DEF Job
<1>11. CASE Report(r)
  <2>1. Verdict(run[r]) \in Reports
    BY DEF Verdict, Reports
  <2>2. Job
    <3> DEFINE half == [run[r] EXCEPT !.phase = "end", !.prog = Verdict(run[r])]
               next == [run[r] EXCEPT !.phase = "end", !.prog = Verdict(run[r]),
                                      !.met = {}]
    <3>1. Heir(run[r], half)
      BY <1>0, <2>1, Heirs
    <3>2. next = [half EXCEPT !.met = {}]
      OBVIOUS
    <3>3. Set(r, next)
      BY <1>11 DEF Report
    <3> HIDE DEF half, next
    <3>4. Heir(run[r], next)
      BY <3>1, <3>2, HeirMet
    <3> QED
      BY <1>b, <3>3, <3>4
  <2>3. Rest
    BY <1>0, <1>11 DEF Report, Live, Alive
  <2> QED
    BY <1>11, <2>2, <2>3, SameShrinks DEF Report, Job
<1> QED
  BY <1>1, <1>2, <1>3, <1>4, <1>5, <1>6, <1>7, <1>8, <1>9, <1>10, <1>11
  DEF RunStep, Job

\* The shapes of a step of run r: it gets a slot, gives up, has a list, goes
\* on along it, marks a comic, is through with it, saves, reports.
Enters(r) ==
    /\ run[r].phase = "queued"
    /\ run'[r].phase = "listing" /\ run'[r].prog = "running"
    /\ run'[r].met = run[r].met
    /\ UNCHANGED <<row, item>>

Quits(r) ==
    /\ run[r].phase \in {"queued"} \cup Inside
    /\ run'[r].phase = "finish" /\ run'[r].prog = run[r].prog /\ run'[r].bad
    /\ run'[r].met = run[r].met
    /\ UNCHANGED <<row, item>>

Listing(r) ==
    /\ run[r].phase = "listing"
    /\ run'[r].phase = "auth" /\ run'[r].prog = run[r].prog
    /\ run'[r].met = run[r].met
    /\ \/ /\ item' = item
          /\ Named(run'[r].todo)
                = {c \in Comics : item[run[r].acct][c] \in Duty(run[r])}
       \/ /\ run[r].mode = "incremental"
          /\ item' = [item EXCEPT ![run[r].acct] =
                        [c \in Comics |->
                           IF c \in Named(run'[r].todo) THEN "pending"
                           ELSE "none"]]
    /\ row' = row

Advances(r) ==
    /\ run[r].phase \in {"auth", "checking"}
    /\ run'[r].phase \in {"checking", "marking"}
    /\ run'[r].phase = "checking" => run[r].phase = "auth"
    /\ run'[r].prog = run[r].prog /\ run'[r].bad = run[r].bad
    /\ run'[r].todo = run[r].todo /\ run'[r].met = run[r].met
    /\ run'[r].phase = "marking" => run'[r].at \in run[r].todo
    /\ UNCHANGED <<row, item>>

Marks(r) ==
    /\ run[r].phase = "marking"
    /\ run'[r].phase = "checking" /\ run'[r].prog = run[r].prog
    /\ run'[r].bad <=> run[r].bad \/ run[r].result = "error"
    /\ run'[r].todo = run[r].todo \ {run[r].at}
    /\ run'[r].met = run[r].met \cup {Comic(run[r].at)}
    /\ item' = [item EXCEPT ![run[r].acct][Comic(run[r].at)] =
                   IF run[r].result = "error" THEN "failed" ELSE "done"]
    /\ row' = row

Completes(r) ==
    /\ run[r].phase = "checking" /\ run[r].todo = {}
    /\ run'[r].phase = "finish" /\ run'[r].prog = run[r].prog
    /\ run'[r].bad = run[r].bad /\ run'[r].met = run[r].met
    /\ UNCHANGED <<row, item>>

Saves(r) ==
    /\ run[r].phase = "finish"
    /\ run'[r].phase = "report" /\ run'[r].prog = run[r].prog
    /\ run'[r].met = run[r].met
    /\ \/ /\ row' = [row EXCEPT ![r] = Verdict(run[r])]
          /\ run'[r].bad = run[r].bad /\ run'[r].worked = run[r].worked
       \/ /\ left["lostWrite"] > 0 /\ left' = [left EXCEPT !["lostWrite"] = @ - 1]
          /\ row' = row /\ run'[r].bad
    /\ item' = item

Announces(r) ==
    /\ run[r].phase = "report"
    /\ run'[r].phase = "end" /\ run'[r].prog = Verdict(run[r])
    /\ run'[r].bad = run[r].bad
    /\ UNCHANGED <<row, item>>

LEMMA QuitShape ==
  ASSUME TypeOK, NEW r \in RunIds, Quit(r), UNCHANGED <<row, item>>,
         run[r].phase \in {"queued"} \cup Inside
  PROVE  Quits(r)
<1>1. run'[r] = [run[r] EXCEPT !.phase = "finish", !.bad = @ \/ TRUE,
                               !.todo = {}, !.at = NoEntry, !.result = "none"]
  BY LeaveFrame DEF Quit
<1>2. run[r] \in RunType
  BY DEF TypeOK
<1> QED
  BY <1>1, <1>2 DEF Quits, RunType

LEMMA RunStepShape ==
  ASSUME TypeOK, NEW r \in RunIds, RunStep(r)
  PROVE  \/ Enters(r) \/ Quits(r) \/ Listing(r) \/ Advances(r)
         \/ Marks(r) \/ Completes(r) \/ Saves(r) \/ Announces(r)
<1>0. run \in [RunIds -> RunType] /\ run[r] \in RunType
  BY DEF TypeOK
<1>a. ASSUME NEW x, Set(r, x) PROVE run'[r] = x
  BY <1>0, <1>a DEF Set
<1>1. EnterSlot(r) => Enters(r)
  BY <1>0, <1>a DEF EnterSlot, Enters, RunType
<1>2. GiveUp(r) \/ ListFails(r) \/ Interrupted(r) => Quits(r)
  BY QuitShape DEF GiveUp, ListFails, Interrupted, Inside
<1>3. ASSUME ListCheckpoint(r) PROVE Quits(r) \/ Listing(r)
  <2> DEFINE found == {c \in Comics : item[run[r].acct][c] \in Duty(run[r])}
             L == found \X {1}
  <2>1. Quit(r) \/ Set(r, [run[r] EXCEPT !.phase = "auth", !.todo = L])
    BY <1>3 DEF ListCheckpoint
  <2>2. CASE Quit(r)
    BY <1>3, <2>2, QuitShape DEF ListCheckpoint, Inside
  <2>3. CASE Set(r, [run[r] EXCEPT !.phase = "auth", !.todo = L])
    <3>1. run'[r] = [run[r] EXCEPT !.phase = "auth", !.todo = L]
      BY <1>a, <2>3
    <3>2. /\ run'[r].phase = "auth" /\ run'[r].prog = run[r].prog
          /\ run'[r].todo = L /\ run'[r].met = run[r].met
      <4> HIDE DEF L
      <4> QED
        BY <1>0, <3>1 DEF RunType
    <3>3. Named(L) = found
      BY NamedOnce
    <3> QED
      BY <1>3, <3>2, <3>3 DEF ListCheckpoint, Listing
  <2> QED
    BY <2>1, <2>2, <2>3
<1>4. ASSUME ListFavorites(r) PROVE Listing(r)
  <2>1. PICK L \in Lists, partial \in BOOLEAN :
          /\ item' = [item EXCEPT ![run[r].acct] =
                        [c \in Comics |->
                            IF c \in Named(L) THEN "pending" ELSE "none"]]
          /\ run'[r] = [run[r] EXCEPT !.phase = "auth", !.todo = L,
                                      !.bad = partial]
    BY <1>4, <1>a DEF ListFavorites
  <2>2. /\ run'[r].phase = "auth" /\ run'[r].prog = run[r].prog
        /\ run'[r].todo = L /\ run'[r].met = run[r].met
    BY <1>0, <2>1 DEF RunType
  <2> QED
    BY <1>4, <2>1, <2>2 DEF ListFavorites, Listing
<1>5. ASSUME Authorise(r) PROVE Quits(r) \/ Advances(r)
  <2>1. CASE Quit(r)
    BY <1>5, <2>1, QuitShape DEF Authorise, Inside
  <2>2. CASE Set(r, [run[r] EXCEPT !.phase = "checking"])
    BY <1>0, <1>5, <1>a, <2>2 DEF Authorise, Advances, RunType
  <2> QED
    BY <1>5, <2>1, <2>2 DEF Authorise
<1>6. ASSUME NEW e \in Entries, SyncComic(r, e) PROVE Advances(r)
  <2>1. PICK res \in {"handled", "error"} :
          run'[r] = [run[r] EXCEPT !.phase = "marking", !.at = e, !.result = res]
    BY <1>6, <1>a DEF SyncComic
  <2>2. /\ run'[r].phase = "marking" /\ run'[r].prog = run[r].prog
        /\ run'[r].bad = run[r].bad /\ run'[r].todo = run[r].todo
        /\ run'[r].at = e /\ run'[r].met = run[r].met
    BY <1>0, <2>1 DEF RunType
  <2> QED
    BY <1>6, <2>2 DEF SyncComic, Advances
<1>7. ASSUME MarkItem(r) PROVE Quits(r) \/ Marks(r)
  <2> DEFINE bad == run[r].bad \/ run[r].result = "error"
             worked == run[r].worked \/ run[r].result # "error"
             half == [run[r] EXCEPT !.phase = "checking", !.bad = bad,
                              !.todo = run[r].todo \ {run[r].at},
                              !.worked = worked, !.at = NoEntry,
                              !.result = "none"]
             met == run[r].met \cup {Comic(run[r].at)}
             next == [run[r] EXCEPT !.phase = "checking", !.bad = bad,
                              !.todo = run[r].todo \ {run[r].at},
                              !.worked = worked, !.at = NoEntry,
                              !.result = "none", !.met = met]
             over == [run[r] EXCEPT !.phase = "finish", !.bad = TRUE,
                              !.todo = {}, !.worked = worked, !.at = NoEntry,
                              !.result = "none"]
  <2>1. \/ /\ run'[r] = next
           /\ item' = [item EXCEPT ![run[r].acct][Comic(run[r].at)] =
                          IF run[r].result = "error" THEN "failed" ELSE "done"]
        \/ run'[r] = over /\ item' = item
    BY <1>7, <1>a DEF MarkItem
  <2>2. /\ next.phase = "checking" /\ next.prog = run[r].prog
        /\ next.bad = bad /\ next.todo = run[r].todo \ {run[r].at}
        /\ next.met = met
    <3>1. /\ half.phase = "checking" /\ half.prog = run[r].prog
          /\ half.bad = bad /\ half.todo = run[r].todo \ {run[r].at}
          /\ half = [half EXCEPT !.met = run[r].met]
      BY <1>0 DEF RunType
    <3>2. next = [half EXCEPT !.met = met]
      OBVIOUS
    <3>3. "met" \in DOMAIN half
      BY <1>0 DEF RunType
    <3> HIDE DEF half, met, next
    <3> QED
      BY <3>1, <3>2, <3>3
  <2>3. /\ over.phase = "finish" /\ over.prog = run[r].prog /\ over.bad = TRUE
        /\ over.met = run[r].met
    BY <1>0 DEF RunType
  <2> HIDE DEF next, over
  <2> QED
    BY <1>7, <2>1, <2>2, <2>3 DEF MarkItem, Quits, Marks, Inside
<1>8. ASSUME ListDone(r) PROVE Quits(r) \/ Completes(r)
  <2>1. CASE Quit(r)
    BY <1>8, <2>1, QuitShape DEF ListDone, Inside
  <2>2. CASE Leave(r, FALSE)
    <3>1. run'[r] = [run[r] EXCEPT !.phase = "finish", !.bad = @ \/ FALSE,
                               !.todo = {}, !.at = NoEntry, !.result = "none"]
      BY <2>2, LeaveFrame
    <3>2. /\ run'[r].phase = "finish" /\ run'[r].prog = run[r].prog
          /\ run'[r].bad = run[r].bad /\ run'[r].met = run[r].met
      BY <1>0, <3>1 DEF RunType
    <3> QED
      BY <1>8, <3>2 DEF ListDone, Completes
  <2> QED
    BY <1>8, <2>1, <2>2 DEF ListDone
<1>9. ASSUME SaveRun(r) PROVE Saves(r)
  <2>1. CASE Set(r, [run[r] EXCEPT !.phase = "report"])
             /\ row' = [row EXCEPT ![r] = Verdict(run[r])]
    BY <1>0, <1>9, <1>a, <2>1 DEF SaveRun, Saves, RunType
  <2>2. CASE Set(r, [run[r] EXCEPT !.phase = "report", !.bad = TRUE])
             /\ Spend("lostWrite") /\ row' = row
    BY <1>0, <1>9, <1>a, <2>2 DEF SaveRun, Saves, RunType, Spend
  <2> QED
    BY <1>9, <2>1, <2>2 DEF SaveRun
<1>10. ASSUME Report(r) PROVE Announces(r)
  BY <1>0, <1>10, <1>a DEF Report, Announces, RunType
<1> QED
  BY <1>1, <1>2, <1>3, <1>4, <1>5, <1>6, <1>7, <1>8, <1>9, <1>10 DEF RunStep

\* All that is left of a run that has been saved is to report it.
LEMMA ReportedOnlyEnds ==
  ASSUME TypeOK, NEW r \in RunIds, RunStep(r), run[r].phase = "report"
  PROVE  Announces(r)
<1>1. Report(r)
  BY DEF RunStep, EnterSlot, GiveUp, ListFails, ListCheckpoint, ListFavorites,
         Authorise, Interrupted, SyncComic, MarkItem, ListDone, SaveRun
<1>2. run'[r] = [run[r] EXCEPT !.phase = "end", !.prog = Verdict(run[r]),
                               !.met = {}]
  BY <1>1 DEF Report, Set, TypeOK
<1>3. run[r] \in RunType
  BY DEF TypeOK
<1> QED
  BY <1>1, <1>2, <1>3 DEF Report, Announces, RunType

-----------------------------------------------------------------------------
(* A launch and the end of the process.                                    *)

\* A launch adds one queued run and registers it.
LEMMA LaunchFrame ==
  ASSUME TypeOK, NEW a \in Accounts, NEW m \in Modes,
         NEW o \in {"life", "attempt"}, Launch(a, m, o)
  PROVE  \E r \in RunIds :
            /\ run[r].phase = "none"
            /\ run' \in [RunIds -> RunType]
            /\ run'[r].acct = a /\ run'[r].mode = m
            /\ run'[r].phase = "queued" /\ run'[r].prog = "queued"
            /\ run'[r].met = NoRun.met
            /\ \A s \in RunIds \ {r} : run'[s] = run[s] /\ row'[s] = row[s]
            /\ row'[r] = "running" /\ row' \in [RunIds -> {"none", "running"} \cup Reports]
            /\ current' = [current EXCEPT ![a] = r]
            /\ server = "up" /\ ~Joinable(a)
<1> DEFINE new == [NoRun EXCEPT !.acct = a, !.mode = m, !.owner = o,
                                !.phase = "queued", !.prog = "queued"]
<1>1. PICK r \in RunIds :
        /\ Launched = 1..(r - 1)
        /\ run' = [run EXCEPT ![r] = new]
        /\ current' = [current EXCEPT ![a] = r]
        /\ row' = [row EXCEPT ![r] = "running"]
  BY DEF Launch
<1>2. NoRun \in RunType
  BY DEF NoRun, RunType
<1>3. /\ new \in RunType /\ new.acct = a /\ new.mode = m
      /\ new.phase = "queued" /\ new.prog = "queued" /\ new.met = NoRun.met
  <2> DEFINE half == [NoRun EXCEPT !.acct = a, !.mode = m, !.owner = o]
  <2>1. half \in RunType /\ half.acct = a /\ half.mode = m /\ half.met = NoRun.met
    BY <1>2 DEF RunType
  <2>2. new = [half EXCEPT !.phase = "queued", !.prog = "queued"]
    OBVIOUS
  <2> HIDE DEF half, new
  <2>3. /\ Heir(half, new) /\ new.phase = "queued" /\ new.prog = "queued"
        /\ new.met = half.met
    BY <2>1, <2>2 DEF Heir, RunType, Alive
  <2> QED
    BY <2>1, <2>3 DEF Heir
<1>4. run[r].phase = "none"
  <2>1. r \notin Launched
    BY <1>1, MaxRunsAssumption DEF RunIds
  <2> QED
    BY <2>1 DEF Launched
<1> HIDE DEF new
<1> QED
  BY <1>1, <1>3, <1>4 DEF TypeOK, Launch

\* After the process nothing runs, and what had reported stays as it was.
LEMMA HaltFrame ==
  ASSUME TypeOK, Halt
  PROVE  /\ run' \in [RunIds -> RunType]
         /\ \A r \in RunIds : run'[r].phase \notin Alive
         /\ \A r \in RunIds : run'[r].phase = "none" => run[r].phase = "none"
         /\ \A r \in RunIds : run'[r].prog \in Reports \cup {"queued", "running"}
                                 => r \notin Live /\ run'[r] = run[r]
<1> DEFINE dead(a) == [NoRun EXCEPT !.acct = a, !.phase = "end"]
           gone(r) == dead(run[r].acct)
<1>0. ASSUME NEW a \in Accounts \cup {0}
      PROVE  dead(a) \in RunType /\ dead(a).phase = "end" /\ dead(a).prog = "none"
  <2>1. NoRun \in RunType /\ NoRun.prog = "none"
    BY DEF NoRun, RunType
  <2> QED
    BY <2>1 DEF RunType
<1>1. ASSUME NEW r \in RunIds
      PROVE  /\ gone(r) \in RunType /\ gone(r).phase = "end"
             /\ gone(r).prog = "none"
  <2>1. run[r].acct \in Accounts \cup {0}
    BY DEF TypeOK, RunType
  <2> HIDE DEF dead
  <2> QED
    BY <1>0, <2>1
<1>2. \A r \in RunIds : run'[r] = IF r \in Live THEN gone(r) ELSE run[r]
  BY DEF Halt
<1> HIDE DEF gone, dead
<1>3. "end" \notin Alive /\ "none" \notin Reports
  BY DEF Alive, Inside, Reports
<1>4. run' \in [RunIds -> RunType]
  <2>1. run' = [r \in RunIds |-> run'[r]]
    BY DEF Halt
  <2> QED
    BY <1>1, <1>2, <2>1 DEF TypeOK
<1> QED
  BY <1>1, <1>2, <1>3, <1>4 DEF Live

\* After a crash nothing runs.
LEMMA HaltIsQuiet == TypeOK /\ Halt => Live' = {}
BY HaltFrame DEF Live

-----------------------------------------------------------------------------
(* RunInv is inductive.                                                    *)

LEMMA InitRunInv == Init => RunInv
<1> SUFFICES ASSUME Init PROVE RunInv
  OBVIOUS
<1>1. NoRun \in RunType
  BY DEF NoRun, RunType
<1>2. \A r \in RunIds : run[r].phase = "none" /\ run[r].prog = "none"
  BY DEF Init, NoRun
<1>3. TypeOK
  BY <1>1, MaxRunsAssumption, LimitsAssumption DEF Init, TypeOK, RunIds
<1>4. Live = {}
  BY <1>2 DEF Live, Alive, Inside
<1>5. RunsRegistered /\ EntriesKnown /\ ReportsAreLast
  BY <1>2, <1>4 DEF RunsRegistered, EntriesKnown, ReportsAreLast, Reports, Init
<1>6. CheckpointMatches /\ OnListed /\ NothingForgotten /\ MetLater
  BY <1>2 DEF CheckpointMatches, TodoUnfinished, OnListed, NothingForgotten,
              MetLater, Init, NoRun
<1>7. RowsFollow /\ RowsOpen
  BY <1>2 DEF RowsFollow, RowsOpen, Alive, Inside, Reports, Init
<1>8. LeftWithin
  <2> SUFFICES ASSUME NEW l \in Limits
               PROVE  left["lostWrite"] <= l["lostWrite"]
    BY DEF LeftWithin
  <2>1. left["lostWrite"] = l["lostWrite"] /\ left["lostWrite"] \in Nat
    BY LostWritesAssumption, LimitsAssumption DEF Init, Events
  <2> QED
    BY <2>1
<1> QED
  BY <1>3, <1>5, <1>6, <1>7, <1>8 DEF RunInv

LEMMA RunTypePreserved == RunInv /\ RunEffect => TypeOK'
<1> SUFFICES ASSUME RunInv, RunEffect PROVE TypeOK'
  OBVIOUS
<1>0. TypeOK /\ OnListed /\ RunsRegistered
  BY DEF RunInv
<1>1. CASE Aside
  BY <1>0, <1>1 DEF Aside, Shrinks, TypeOK
<1>2. CASE Started
  <2>1. PICK a \in Accounts, m \in Modes, o \in {"life", "attempt"} : Launch(a, m, o)
    BY <1>2 DEF Started
  <2>2. /\ run' \in [RunIds -> RunType]
        /\ row' \in [RunIds -> {"none", "running"} \cup Reports]
        /\ \E r \in RunIds : current' = [current EXCEPT ![a] = r]
    BY <1>0, <2>1, LaunchFrame
  <2>3. current' \in [Accounts -> 0..MaxRuns]
    BY <1>0, <2>2, MaxRunsAssumption DEF TypeOK, RunIds
  <2> QED
    BY <1>0, <1>2, <2>2, <2>3 DEF Started, Shrinks, TypeOK
<1>3. CASE Stopped
  <2>1. 0 \in 0..MaxRuns
    BY MaxRunsAssumption
  <2> QED
    BY <1>0, <1>3, <2>1, HaltFrame DEF Stopped, Halt, Shrinks, TypeOK
<1>4. CASE Restart
  BY <1>0, <1>4 DEF Restart, TypeOK, Reports
<1>5. ASSUME NEW r \in RunIds, RunStep(r) PROVE TypeOK'
  <2>1. /\ run' \in [RunIds -> RunType]
        /\ UNCHANGED <<server, boot, owed, current>>
        /\ canceled' \subseteq RunIds /\ Shrinks /\ r \in Live
    BY <1>0, <1>5, RunStepFrame
  <2>2. row' \in [RunIds -> {"none", "running"} \cup Reports]
    <3>1. row' = row \/ row' = [row EXCEPT ![r] = Verdict(run[r])]
      BY <1>0, <1>5, RunStepShape
      DEF Enters, Quits, Listing, Advances, Marks, Completes, Saves, Announces
    <3> QED
      BY <1>0, <3>1 DEF TypeOK, Verdict, Reports
  <2>3. item' \in [Accounts -> [Comics -> {"none", "done"} \cup Unfinished]]
    <3>1. CASE Listing(r)
      BY <1>0, <3>1 DEF TypeOK, Listing, Unfinished
    <3>2. CASE Marks(r)
      BY <1>0, <3>2 DEF TypeOK, Marks, Unfinished
    <3>3. CASE item' = item
      BY <1>0, <3>3 DEF TypeOK
    <3> QED
      BY <1>0, <1>5, <3>1, <3>2, <3>3, RunStepShape
      DEF Enters, Quits, Advances, Completes, Saves, Announces
  <2> QED
    BY <1>0, <2>1, <2>2, <2>3 DEF TypeOK, Shrinks
<1> QED
  BY <1>1, <1>2, <1>3, <1>4, <1>5 DEF RunEffect, GoesOn

\* A launch never meets a goroutine of its account that still runs.
LEMMA RegisteredPreserved == RunInv /\ RunEffect => RunsRegistered'
<1> SUFFICES ASSUME RunInv, RunEffect PROVE RunsRegistered'
  OBVIOUS
<1>0. TypeOK /\ OnListed /\ RunsRegistered
  BY DEF RunInv
<1>1. CASE Aside
  BY <1>0, <1>1 DEF Aside, RunsRegistered, Live
<1>2. CASE Started
  <2>1. PICK a \in Accounts, m \in Modes, o \in {"life", "attempt"} : Launch(a, m, o)
    BY <1>2 DEF Started
  <2>2. PICK r \in RunIds :
          /\ run'[r].acct = a /\ run'[r].prog = "queued"
          /\ \A s \in RunIds \ {r} : run'[s] = run[s]
          /\ current' = [current EXCEPT ![a] = r]
          /\ server = "up" /\ ~Joinable(a)
    BY <1>0, <2>1, LaunchFrame
  <2>3. server' = "up"
    BY <1>2, <2>2 DEF Started
  <2>4. current'[a] = r
    BY <1>0, <2>2 DEF TypeOK
  <2>5. ASSUME NEW s \in RunIds, s # r, run[s].phase \in Alive
        PROVE  current'[run[s].acct] = s
    <3>1. /\ current[run[s].acct] = s /\ run[s].acct \in Accounts
          /\ run[s].prog \in {"queued", "running"}
      BY <1>0, <2>5 DEF RunsRegistered, Live
    <3>2. s # 0
      BY DEF RunIds
    <3>3. run[s].acct # a
      BY <2>2, <3>1, <3>2 DEF Joinable
    <3> QED
      BY <1>0, <2>2, <3>1, <3>3 DEF TypeOK
  <2> QED
    BY <1>0, <2>2, <2>3, <2>4, <2>5 DEF RunsRegistered, Live
<1>3. CASE Stopped
  BY <1>0, <1>3, HaltIsQuiet DEF Stopped, RunsRegistered
<1>4. CASE Restart
  BY <1>0, <1>4 DEF Restart, RunsRegistered, Live
<1>5. ASSUME NEW r \in RunIds, RunStep(r) PROVE RunsRegistered'
  <2>1. /\ r \in Live /\ run'[r].acct = run[r].acct
        /\ \A s \in RunIds \ {r} : run'[s] = run[s]
        /\ UNCHANGED <<server, current>>
    BY <1>0, <1>5, RunStepFrame
  <2>2. run'[r].phase \in Alive =>
           run'[r].prog = run[r].prog \/ run'[r].prog = "running"
    BY <1>0, <1>5, RunStepShape
    DEF Enters, Quits, Listing, Advances, Marks, Completes, Saves, Announces,
        Alive, Inside
  <2> QED
    BY <1>0, <2>1, <2>2 DEF RunsRegistered, Live
<1> QED
  BY <1>1, <1>2, <1>3, <1>4, <1>5 DEF RunEffect, GoesOn

LEMMA EntriesPreserved == RunInv /\ RunEffect => EntriesKnown'
<1> SUFFICES ASSUME RunInv, RunEffect PROVE EntriesKnown'
  OBVIOUS
<1>0. TypeOK /\ OnListed /\ EntriesKnown
  BY DEF RunInv
<1>a. \A a \in Accounts : current[a] # 0 => current[a] \in RunIds
  BY <1>0, MaxRunsAssumption DEF TypeOK, RunIds
<1>1. CASE Aside \/ Restart
  BY <1>0, <1>1 DEF Aside, Restart, EntriesKnown
<1>2. CASE Started
  <2>1. PICK a \in Accounts, m \in Modes, o \in {"life", "attempt"} : Launch(a, m, o)
    BY <1>2 DEF Started
  <2>2. PICK r \in RunIds :
          /\ run[r].phase = "none"
          /\ run'[r].acct = a /\ run'[r].phase = "queued"
          /\ \A s \in RunIds \ {r} : run'[s] = run[s]
          /\ current' = [current EXCEPT ![a] = r]
    BY <1>0, <2>1, LaunchFrame
  <2> QED
    BY <1>0, <1>a, <2>2 DEF EntriesKnown, TypeOK
<1>3. CASE Stopped
  BY <1>3 DEF Stopped, Halt, EntriesKnown
<1>4. ASSUME NEW r \in RunIds, RunStep(r) PROVE EntriesKnown'
  <2>1. /\ run'[r].acct = run[r].acct /\ current' = current
        /\ \A s \in RunIds \ {r} : run'[s] = run[s]
    BY <1>0, <1>4, RunStepFrame
  <2>2. run'[r].phase # "none"
    BY <1>0, <1>4, RunStepShape
    DEF Enters, Quits, Listing, Advances, Marks, Completes, Saves, Announces
  <2> QED
    BY <1>0, <1>a, <2>1, <2>2 DEF EntriesKnown
<1> QED
  BY <1>1, <1>2, <1>3, <1>4 DEF RunEffect, GoesOn

LEMMA ReportsPreserved == RunInv /\ RunEffect => ReportsAreLast'
<1> SUFFICES ASSUME RunInv, RunEffect PROVE ReportsAreLast'
  OBVIOUS
<1>0. TypeOK /\ OnListed /\ RunsRegistered /\ ReportsAreLast
  BY DEF RunInv
<1>1. CASE Aside \/ Restart
  BY <1>0, <1>1 DEF Aside, Restart, ReportsAreLast
<1>2. CASE Started
  <2>1. PICK a \in Accounts, m \in Modes, o \in {"life", "attempt"} : Launch(a, m, o)
    BY <1>2 DEF Started
  <2>2. PICK r \in RunIds : /\ run'[r].prog = "queued"
                            /\ \A s \in RunIds \ {r} : run'[s] = run[s]
    BY <1>0, <2>1, LaunchFrame
  <2> QED
    BY <1>0, <2>2 DEF ReportsAreLast, Reports
<1>3. CASE Stopped
  BY <1>0, <1>3, HaltFrame DEF Stopped, ReportsAreLast, Reports
<1>4. ASSUME NEW r \in RunIds, RunStep(r) PROVE ReportsAreLast'
  <2>1. r \in Live /\ \A s \in RunIds \ {r} : run'[s] = run[s]
    BY <1>0, <1>4, RunStepFrame
  <2>2. run[r].prog \in {"queued", "running"}
    BY <1>0, <2>1 DEF RunsRegistered
  <2>3. \/ run'[r].prog \in {run[r].prog, "running"}
        \/ /\ run'[r].phase = "end"
           /\ run'[r].prog = "success" => ~run'[r].bad
    BY <1>0, <1>4, RunStepShape
    DEF Enters, Quits, Listing, Advances, Marks, Completes, Saves, Announces,
        Verdict
  <2> QED
    BY <1>0, <2>1, <2>2, <2>3 DEF ReportsAreLast, Reports
<1> QED
  BY <1>1, <1>2, <1>3, <1>4 DEF RunEffect, GoesOn

\* Two goroutines never run for one account.
LEMMA AloneForAccount ==
  ASSUME RunsRegistered, NEW r \in Live, NEW s \in Live, r # s
  PROVE  /\ run[r].acct \in Accounts /\ run[s].acct \in Accounts
         /\ run[s].acct # run[r].acct
BY DEF RunsRegistered

LEMMA CheckpointPreserved == RunInv /\ RunEffect => CheckpointMatches'
<1> SUFFICES ASSUME RunInv, RunEffect PROVE CheckpointMatches'
  OBVIOUS
<1> DEFINE OnList == {"auth", "checking", "marking"}
<1>0. /\ TypeOK /\ OnListed /\ RunsRegistered /\ CheckpointMatches
      /\ MetLater
  BY DEF RunInv
<1>a. OnList \subseteq Alive
  BY DEF Alive, Inside
<1>1. CASE Aside \/ Restart
  BY <1>0, <1>1 DEF Aside, Restart, CheckpointMatches, TodoUnfinished
<1>2. CASE Started
  <2>1. PICK a \in Accounts, m \in Modes, o \in {"life", "attempt"} : Launch(a, m, o)
    BY <1>2 DEF Started
  <2>2. PICK r \in RunIds : /\ run'[r].phase = "queued"
                            /\ \A s \in RunIds \ {r} : run'[s] = run[s]
    BY <1>0, <2>1, LaunchFrame
  <2>3. item' = item
    BY <1>2 DEF Started
  <2> QED
    BY <1>0, <2>2, <2>3 DEF CheckpointMatches, TodoUnfinished
<1>3. CASE Stopped
  BY <1>0, <1>3, <1>a, HaltFrame DEF Stopped, CheckpointMatches, TodoUnfinished
<1>4. ASSUME NEW r \in RunIds, RunStep(r) PROVE CheckpointMatches'
  <2>1. /\ r \in Live /\ run'[r].acct = run[r].acct
        /\ run'[r].mode = run[r].mode
        /\ \A s \in RunIds \ {r} : run'[s] = run[s]
        /\ \A a \in Accounts \ {run[r].acct} : item'[a] = item[a]
    BY <1>0, <1>4, RunStepFrame
  <2>2. run[r].acct \in Accounts
    BY <1>0, <2>1 DEF RunsRegistered
  <2>3. ASSUME NEW s \in RunIds, s # r, run[s].phase \in OnList
        PROVE  item'[run[s].acct] = item[run[s].acct]
    <3>1. s \in Live
      BY <1>a, <2>3 DEF Live
    <3>2. run[s].acct \in Accounts \ {run[r].acct}
      BY <1>0, <2>1, <2>3, <3>1, AloneForAccount
    <3> QED
      BY <2>1, <3>2
  <2> DEFINE a == run[r].acct
             Held == /\ \A c \in Named(run'[r].todo) \ run'[r].met :
                          item'[a][c] \in Duty(run[r])
                     /\ \A c \in run'[r].met : item'[a][c] \in Settled
  <2>4. ASSUME run'[r].phase \in OnList PROVE Held
    <3>0. run'[r] \in RunType
      BY <1>0, <1>4, RunStepFrame
    <3>1. /\ Named(run'[r].todo) \in SUBSET Comics
          /\ run'[r].met \in SUBSET Comics
      BY <3>0 DEF RunType, Named, Comic, Entries
    <3>2. CASE Listing(r)
      <4>1. run'[r].met = {}
        BY <1>0, <3>2 DEF Listing, MetLater
      <4>2. \A c \in Named(run'[r].todo) : item'[a][c] \in Duty(run[r])
        <5>1. CASE /\ item' = item
                   /\ Named(run'[r].todo) = {c \in Comics : item[a][c] \in Duty(run[r])}
          BY <5>1
        <5>2. CASE /\ run[r].mode = "incremental"
                   /\ item' = [item EXCEPT ![a] =
                        [c \in Comics |->
                           IF c \in Named(run'[r].todo) THEN "pending"
                           ELSE "none"]]
          <6>1. "pending" \in Duty(run[r])
            BY <5>2 DEF Duty, Unfinished
          <6> QED
            BY <1>0, <2>2, <3>1, <5>2, <6>1 DEF TypeOK
        <5> QED
          BY <3>2, <5>1, <5>2 DEF Listing
      <4> QED
        BY <4>1, <4>2
    <3>3. CASE Advances(r)
      BY <1>0, <2>4, <3>3 DEF Advances, CheckpointMatches, TodoUnfinished
    <3>4. CASE Marks(r)
      <4> DEFINE c0 == Comic(run[r].at)
      <4>1. /\ run'[r].met = run[r].met \cup {c0}
            /\ Named(run'[r].todo) \subseteq Named(run[r].todo)
        BY <3>4 DEF Marks, Named
      <4>2. /\ \A c \in Named(run[r].todo) \ run[r].met :
                   item[a][c] \in Duty(run[r])
            /\ \A c \in run[r].met : item[a][c] \in Settled
        BY <1>0, <3>4 DEF Marks, CheckpointMatches, TodoUnfinished
      <4>3. PICK s \in Settled : item' = [item EXCEPT ![a][c0] = s]
        BY <3>4 DEF Marks, Settled
      <4>4. /\ item'[a][c0] = s
            /\ \A c \in Comics : c # c0 => item'[a][c] = item[a][c]
        <5>1. c0 \in Comics
          BY <3>1, <4>1
        <5> HIDE DEF c0
        <5> QED
          BY <1>0, <2>2, <4>3, <5>1 DEF TypeOK
      <4> HIDE DEF c0
      <4> QED
        BY <3>1, <4>1, <4>2, <4>4
    <3> QED
      BY <1>0, <1>4, <2>4, <3>2, <3>3, <3>4, RunStepShape
      DEF Enters, Quits, Completes, Saves, Announces
  <2>5. ASSUME NEW s \in RunIds PROVE TodoUnfinished(run[s])'
    <3>1. CASE s = r
      BY <2>1, <2>4, <3>1 DEF TodoUnfinished, Duty
    <3>2. CASE s # r
      BY <1>0, <2>1, <2>3, <3>2 DEF CheckpointMatches, TodoUnfinished
    <3> QED
      BY <3>1, <3>2
  <2> QED
    BY <2>5 DEF CheckpointMatches
<1> QED
  BY <1>1, <1>2, <1>3, <1>4 DEF RunEffect, GoesOn

LEMMA MetPreserved == RunInv /\ RunEffect => MetLater'
<1> SUFFICES ASSUME RunInv, RunEffect PROVE MetLater'
  OBVIOUS
<1>0. TypeOK /\ OnListed /\ MetLater
  BY DEF RunInv
<1>1. CASE Aside \/ Restart
  BY <1>0, <1>1 DEF Aside, Restart, MetLater
<1>2. CASE Started
  <2>1. PICK a \in Accounts, m \in Modes, o \in {"life", "attempt"} : Launch(a, m, o)
    BY <1>2 DEF Started
  <2>2. PICK r \in RunIds :
          /\ run'[r].phase = "queued" /\ run'[r].met = NoRun.met
          /\ \A s \in RunIds \ {r} : run'[s] = run[s]
    BY <1>0, <2>1, LaunchFrame
  <2>3. run'[r].met = {}
    BY <2>2 DEF NoRun
  <2> QED
    BY <1>0, <2>2, <2>3 DEF MetLater
<1>3. CASE Stopped
  <2>1. /\ \A r \in RunIds : run'[r].phase \notin Alive
        /\ \A r \in RunIds : r \notin Live => run'[r] = run[r]
        /\ \A r \in RunIds : run'[r].phase = "none" => r \notin Live
    BY <1>0, <1>3, HaltFrame DEF Stopped, Halt, Live, Alive, Inside
  <2> QED
    BY <1>0, <2>1 DEF MetLater, Alive, Inside
<1>4. ASSUME NEW r \in RunIds, RunStep(r) PROVE MetLater'
  <2>1. \A s \in RunIds \ {r} : run'[s] = run[s]
    BY <1>0, <1>4, RunStepFrame
  <2>2. run'[r].phase \in {"none", "queued", "listing"} => run'[r].met = {}
    BY <1>0, <1>4, RunStepShape
    DEF Enters, Quits, Listing, Advances, Marks, Completes, Saves, Announces,
        MetLater
  <2> QED
    BY <1>0, <2>1, <2>2 DEF MetLater
<1> QED
  BY <1>1, <1>2, <1>3, <1>4 DEF RunEffect, GoesOn

LEMMA ListedPreserved == RunInv /\ RunEffect => OnListed'
<1> SUFFICES ASSUME RunInv, RunEffect PROVE OnListed'
  OBVIOUS
<1>0. TypeOK /\ OnListed
  BY DEF RunInv
<1>1. CASE Aside \/ Restart
  BY <1>0, <1>1 DEF Aside, Restart, OnListed
<1>2. CASE Started
  <2>1. PICK a \in Accounts, m \in Modes, o \in {"life", "attempt"} : Launch(a, m, o)
    BY <1>2 DEF Started
  <2>2. PICK r \in RunIds : /\ run'[r].phase = "queued"
                            /\ \A s \in RunIds \ {r} : run'[s] = run[s]
    BY <1>0, <2>1, LaunchFrame
  <2> QED
    BY <1>0, <2>2 DEF OnListed
<1>3. CASE Stopped
  BY <1>0, <1>3, HaltFrame DEF Stopped, OnListed, Alive, Inside
<1>4. ASSUME NEW r \in RunIds, RunStep(r) PROVE OnListed'
  <2>1. \A s \in RunIds \ {r} : run'[s] = run[s]
    BY <1>0, <1>4, RunStepFrame
  <2>2. run'[r].phase = "marking" => run'[r].at \in run'[r].todo
    BY <1>0, <1>4, RunStepShape
    DEF Enters, Quits, Listing, Advances, Marks, Completes, Saves, Announces
  <2> QED
    BY <1>0, <2>1, <2>2 DEF OnListed
<1> QED
  BY <1>1, <1>2, <1>3, <1>4 DEF RunEffect, GoesOn

LEMMA ForgottenPreserved == RunInv /\ RunEffect => NothingForgotten'
<1> SUFFICES ASSUME RunInv, RunEffect PROVE NothingForgotten'
  OBVIOUS
<1> DEFINE OnList == {"auth", "checking", "marking"}
           Good(a, x) ==
             Clean(x) =>
               /\ x.phase \in OnList =>
                     \A c \in Comics : item[a][c] \in Duty(x) => c \in Named(x.todo)
               /\ x.phase \in {"finish", "report"} \/ x.prog = "success" =>
                     \A c \in Comics : item[a][c] \notin Duty(x)
<1>0. TypeOK /\ OnListed /\ RunsRegistered /\ EntriesKnown /\ ReportsAreLast
  BY DEF RunInv
<1>a. \A a \in Accounts : current[a] # 0 => Good(a, run[current[a]])
  BY DEF RunInv, NothingForgotten
<1>b. \A a \in Accounts : current[a] # 0 => current[a] \in RunIds
  BY <1>0, MaxRunsAssumption DEF TypeOK, RunIds
<1>1. CASE Aside \/ Restart
  BY <1>a, <1>1 DEF Aside, Restart, NothingForgotten
<1>2. CASE Started
  <2>1. PICK a \in Accounts, m \in Modes, o \in {"life", "attempt"} : Launch(a, m, o)
    BY <1>2 DEF Started
  <2>2. PICK r \in RunIds : /\ run[r].phase = "none"
                            /\ run'[r].phase = "queued" /\ run'[r].prog = "queued"
                            /\ \A s \in RunIds \ {r} : run'[s] = run[s]
                            /\ current' = [current EXCEPT ![a] = r]
    BY <1>0, <2>1, LaunchFrame
  <2>3. item' = item
    BY <1>2 DEF Started
  <2>4. ASSUME NEW b \in Accounts, current'[b] # 0
        PROVE  Good(b, run[current[b]])' 
    <3>1. CASE b = a
      <4>1. current'[b] = r
        BY <1>0, <2>2, <3>1 DEF TypeOK
      <4> QED
        BY <2>2, <4>1
    <3>2. CASE b # a
      <4>1. current'[b] = current[b] /\ current[b] # r
        BY <1>0, <2>2, <2>4, <3>2 DEF TypeOK, EntriesKnown
      <4>2. run'[current'[b]] = run[current[b]]
        BY <1>b, <2>2, <2>4, <4>1
      <4> QED
        BY <1>a, <2>3, <2>4, <4>1, <4>2
    <3> QED
      BY <3>1, <3>2
  <2> QED
    BY <2>4 DEF NothingForgotten
<1>3. CASE Stopped
  BY <1>3 DEF Stopped, Halt, NothingForgotten
<1>4. ASSUME NEW r \in RunIds, RunStep(r) PROVE NothingForgotten'
  <2>1. /\ r \in Live
        /\ run'[r].acct = run[r].acct /\ run'[r].mode = run[r].mode
        /\ \A s \in RunIds \ {r} : run'[s] = run[s]
        /\ \A a \in Accounts \ {run[r].acct} : item'[a] = item[a]
        /\ current' = current
    BY <1>0, <1>4, RunStepFrame
  <2>2. run[r].acct \in Accounts /\ current[run[r].acct] = r
    BY <1>0, <2>1 DEF RunsRegistered
  <2>3. ASSUME NEW a \in Accounts, current[a] # 0, a # run[r].acct
        PROVE  Good(a, run[current[a]])'
    <3>1. current[a] \in RunIds \ {r}
      BY <1>0, <1>b, <2>3 DEF EntriesKnown
    <3>2. run'[current'[a]] = run[current[a]] /\ item'[a] = item[a]
      BY <2>1, <2>3, <3>1
    <3> QED
      BY <1>a, <2>3, <3>2
  <2> DEFINE a == run[r].acct
  <2>4. Good(a, run[r])
    <3>1. current[a] # 0
      BY <2>2 DEF RunIds
    <3> QED
      BY <1>a, <2>2, <3>1
  <2>5. run[r].prog # "success"
    BY <1>0, <2>1 DEF RunsRegistered
  <2>d. Duty(run'[r]) = Duty(run[r])
    BY <2>1 DEF Duty
  <2>6. /\ Clean(run'[r]) /\ run'[r].phase \in OnList =>
              \A c \in Comics :
                 item'[a][c] \in Duty(run[r]) => c \in Named(run'[r].todo)
        /\ Clean(run'[r]) /\ (run'[r].phase \in {"finish", "report"}
                                 \/ run'[r].prog = "success") =>
              \A c \in Comics : item'[a][c] \notin Duty(run[r])
    <3>1. CASE Enters(r) \/ Quits(r)
      BY <2>5, <3>1 DEF Enters, Quits, Clean
    <3>2. CASE Listing(r)
      BY <1>0, <2>1, <2>2, <2>5, <3>2
      DEF Listing, Clean, TypeOK, Unfinished, Duty
    <3>3. CASE Advances(r)
      BY <2>1, <2>4, <2>5, <3>3 DEF Advances, Clean
    <3>4. CASE Marks(r)
      <4>1. ASSUME Clean(run'[r]), NEW c \in Comics, item'[a][c] \in Duty(run[r])
            PROVE  c \in Named(run'[r].todo)
        <5> DEFINE c0 == Comic(run[r].at)
        <5>1. Clean(run[r]) /\ run[r].result # "error"
          BY <2>1, <3>4, <4>1 DEF Marks, Clean
        <5>2. item' = [item EXCEPT ![a][c0] = "done"]
          BY <3>4, <5>1 DEF Marks
        <5>3. c # c0 /\ item[a][c] \in Duty(run[r])
          <6> HIDE DEF c0
          <6> QED
            BY <1>0, <2>2, <4>1, <5>2 DEF TypeOK, Unfinished, Duty
        <5>4. c \in Named(run[r].todo)
          BY <2>4, <3>4, <5>1, <5>3 DEF Marks
        <5> HIDE DEF c0
        <5>5. run'[r].todo = run[r].todo \ {run[r].at}
          BY <3>4 DEF Marks
        <5>6. c # Comic(run[r].at)
          BY <5>3 DEF c0
        <5>7. c \in Named(run[r].todo \ {run[r].at})
          BY <5>4, <5>6, NamedRest
        <5> QED
          BY <5>5, <5>7
      <4> QED
        BY <2>5, <3>4, <4>1 DEF Marks
    <3>5. CASE Completes(r)
      BY <2>1, <2>4, <2>5, <3>5 DEF Completes, Clean, Named
    <3>6. CASE Saves(r)
      BY <2>1, <2>4, <2>5, <3>6 DEF Saves, Clean
    <3>7. CASE Announces(r)
      BY <2>1, <2>4, <3>7 DEF Announces, Clean
    <3> QED
      BY <1>0, <1>4, <3>1, <3>2, <3>3, <3>4, <3>5, <3>6, <3>7, RunStepShape
  <2> QED
    BY <2>1, <2>2, <2>3, <2>d, <2>6 DEF NothingForgotten
<1> QED
  BY <1>1, <1>2, <1>3, <1>4 DEF RunEffect, GoesOn

LEMMA OpenPreserved == RunInv /\ RunEffect => RowsOpen'
<1> SUFFICES ASSUME RunInv, RunEffect PROVE RowsOpen'
  OBVIOUS
<1>0. TypeOK /\ OnListed /\ RunsRegistered /\ RowsOpen
  BY DEF RunInv
<1>1. CASE Aside
  BY <1>0, <1>1 DEF Aside, RowsOpen
<1>2. CASE Started
  <2>1. PICK a \in Accounts, m \in Modes, o \in {"life", "attempt"} : Launch(a, m, o)
    BY <1>2 DEF Started
  <2>2. PICK r \in RunIds :
          /\ run'[r].phase = "queued" /\ row'[r] = "running"
          /\ \A s \in RunIds \ {r} : run'[s] = run[s] /\ row'[s] = row[s]
    BY <1>0, <2>1, LaunchFrame
  <2> QED
    BY <1>0, <2>2 DEF RowsOpen
<1>3. CASE Stopped
  <2>1. /\ row' = row
        /\ \A r \in RunIds : run'[r].phase \notin Alive
        /\ \A r \in RunIds : run'[r].phase = "none" => run[r].phase = "none"
    BY <1>0, <1>3, HaltFrame DEF Stopped, Halt
  <2> QED
    BY <1>0, <2>1 DEF RowsOpen
<1>4. CASE Restart
  <2>1. \A r \in RunIds : run[r].phase \notin Alive
    BY <1>0, <1>4 DEF Restart, RunsRegistered, Live
  <2> QED
    BY <1>0, <1>4, <2>1 DEF Restart, RowsOpen
<1>5. ASSUME NEW r \in RunIds, RunStep(r) PROVE RowsOpen'
  <2>1. r \in Live /\ \A s \in RunIds \ {r} : run'[s] = run[s] /\ row'[s] = row[s]
    BY <1>0, <1>5, RunStepFrame
  <2>2. /\ run'[r].phase # "none"
        /\ run'[r].phase \in Alive \ {"report"} =>
              row'[r] = row[r] /\ run[r].phase # "report"
    <3>1. CASE Saves(r) \/ Announces(r)
      BY <3>1 DEF Saves, Announces, Alive, Inside
    <3>2. CASE run[r].phase = "report"
      BY <1>0, <1>5, <3>1, <3>2, ReportedOnlyEnds
    <3>3. ASSUME run[r].phase # "report",
                 Enters(r) \/ Quits(r) \/ Listing(r) \/ Advances(r) \/ Marks(r)
                    \/ Completes(r)
          PROVE  row'[r] = row[r] /\ run'[r].phase # "none"
      BY <3>3 DEF Enters, Quits, Listing, Advances, Marks, Completes
    <3> QED
      BY <1>0, <1>5, <3>1, <3>2, <3>3, RunStepShape
  <2> QED
    BY <1>0, <2>1, <2>2 DEF RowsOpen, Live
<1> QED
  BY <1>1, <1>2, <1>3, <1>4, <1>5 DEF RunEffect, GoesOn

LEMMA LeftPreserved == RunInv /\ RunEffect => LeftWithin' /\ (NoWriteLost' => NoWriteLost)
<1> SUFFICES ASSUME RunInv, RunEffect
             PROVE  LeftWithin' /\ (NoWriteLost' => NoWriteLost)
  OBVIOUS
<1>0. TypeOK /\ OnListed /\ LeftWithin
  BY DEF RunInv
<1>1. left' \in [Events -> Nat] /\ left'["lostWrite"] <= left["lostWrite"]
  <2>1. Shrinks
    BY <1>0, SameShrinks, RunStepFrame
    DEF RunEffect, GoesOn, Aside, Started, Stopped, Restart
  <2> QED
    BY <2>1 DEF Shrinks
<1>2. /\ left["lostWrite"] \in Nat /\ left'["lostWrite"] \in Nat
      /\ \A l \in Limits : l["lostWrite"] \in Nat
  BY <1>0, <1>1, LimitsAssumption DEF TypeOK, Events
<1> QED
  BY <1>0, <1>1, <1>2 DEF LeftWithin, NoWriteLost

LEMMA RowsPreserved == RunInv /\ RunEffect => RowsFollow'
<1> SUFFICES ASSUME RunInv, RunEffect, NoWriteLost' PROVE RowsFollow'
  BY DEF RowsFollow
<1>0. TypeOK /\ OnListed /\ RunsRegistered /\ LeftWithin
  BY DEF RunInv
<1>a. /\ server # "down" => \A r \in RunIds : row[r] = "running" => r \in Live
      /\ \A r \in RunIds :
            /\ run[r].phase = "report" => row[r] = Verdict(run[r])
            /\ run[r].prog \in Reports => row[r] = run[r].prog
  BY LeftPreserved DEF RunInv, RowsFollow
<1>1. CASE Aside
  BY <1>a, <1>1 DEF Aside, RowsFollow, Live
<1>2. CASE Started
  <2>1. PICK a \in Accounts, m \in Modes, o \in {"life", "attempt"} : Launch(a, m, o)
    BY <1>2 DEF Started
  <2>2. PICK r \in RunIds :
          /\ run'[r].phase = "queued" /\ run'[r].prog = "queued"
          /\ \A s \in RunIds \ {r} : run'[s] = run[s] /\ row'[s] = row[s]
          /\ server = "up"
    BY <1>0, <2>1, LaunchFrame
  <2> QED
    BY <1>a, <2>2 DEF RowsFollow, Live, Alive, Reports
<1>3. CASE Stopped
  <2>1. /\ server' = "down" /\ row' = row
        /\ \A r \in RunIds : run'[r].phase # "report"
        /\ \A r \in RunIds : run'[r].prog \in Reports => run'[r] = run[r]
    BY <1>0, <1>3, HaltFrame DEF Stopped, Halt, Alive
  <2> QED
    BY <1>a, <2>1 DEF RowsFollow
<1>4. CASE Restart
  <2>1. \A r \in RunIds : row'[r] = IF row[r] = "running" THEN "failed" ELSE row[r]
    BY <1>4 DEF Restart
  <2>2. \A r \in RunIds : Verdict(run[r]) # "running"
    BY DEF Verdict
  <2> QED
    BY <1>a, <1>4, <2>1, <2>2 DEF Restart, RowsFollow, Reports
<1>5. ASSUME NEW r \in RunIds, RunStep(r) PROVE RowsFollow'
  <2>1. /\ r \in Live /\ server' = server
        /\ \A s \in RunIds \ {r} : run'[s] = run[s] /\ row'[s] = row[s]
    BY <1>0, <1>5, RunStepFrame
  <2>2. server # "down" /\ run[r].prog \in {"queued", "running"}
    BY <1>0, <2>1 DEF RunsRegistered
  <2>3. /\ row'[r] = "running" => run'[r].phase \in Alive
        /\ run'[r].phase = "report" => row'[r] = Verdict(run'[r])
        /\ run'[r].prog \in Reports => row'[r] = run'[r].prog
    <3>1. CASE Enters(r) \/ Quits(r) \/ Listing(r) \/ Advances(r) \/ Marks(r)
                 \/ Completes(r)
      BY <2>2, <3>1 DEF Enters, Quits, Listing, Advances, Marks, Completes,
                        Alive, Inside, Reports
    <3>2. CASE Saves(r)
      <4>1. row'[r] = Verdict(run[r])
            /\ run'[r].bad = run[r].bad /\ run'[r].worked = run[r].worked
        <5>1. ASSUME left["lostWrite"] > 0,
                     left' = [left EXCEPT !["lostWrite"] = @ - 1]
              PROVE  FALSE
          <6>1. PICK l \in Limits : left'["lostWrite"] = l["lostWrite"]
            BY DEF NoWriteLost
          <6>2. left["lostWrite"] <= l["lostWrite"]
            BY <1>0 DEF LeftWithin
          <6>3. left["lostWrite"] \in Nat /\ left'["lostWrite"] = left["lostWrite"] - 1
            BY <1>0, <5>1 DEF TypeOK, Events
          <6> QED
            BY <6>1, <6>2, <6>3
        <5> QED
          BY <1>0, <3>2, <5>1 DEF Saves, TypeOK
      <4> QED
        BY <2>2, <3>2, <4>1 DEF Saves, Verdict, Alive, Reports
    <3>3. CASE Announces(r)
      <4>1. row'[r] = Verdict(run[r])
        BY <1>a, <3>3 DEF Announces
      <4> QED
        BY <3>3, <4>1 DEF Announces, Verdict
    <3> QED
      BY <1>0, <1>5, <3>1, <3>2, <3>3, RunStepShape
  <2> QED
    BY <1>a, <2>1, <2>2, <2>3 DEF RowsFollow, Live
<1> QED
  BY <1>1, <1>2, <1>3, <1>4, <1>5 DEF RunEffect, GoesOn

\* Whatever step is taken, in SyncRuns or under the scheduler.
LEMMA EffectPreserves == RunInv /\ RunEffect => RunInv'
BY RunTypePreserved, RegisteredPreserved, EntriesPreserved, ReportsPreserved,
   CheckpointPreserved, MetPreserved, ListedPreserved, ForgottenPreserved, OpenPreserved,
   RowsPreserved, LeftPreserved
DEF RunInv

\* RunInv is strong enough for the properties of the runs.
LEMMA RunInvImplies == RunInv => TypeOK /\ CheckpointOwned /\ HistoryTruthful
<1> SUFFICES ASSUME RunInv PROVE CheckpointOwned /\ HistoryTruthful
  BY DEF RunInv
<1>1. CheckpointOwned
  BY DEF RunInv, RunsRegistered, CheckpointMatches, TodoUnfinished,
         CheckpointOwned
<1>2. ASSUME NEW a \in Accounts, current[a] # 0,
             run[current[a]].prog = "success", NEW c \in Comics
      PROVE  item[a][c] \notin Duty(run[current[a]])
  BY <1>2, MaxRunsAssumption
  DEF RunInv, TypeOK, RunIds, ReportsAreLast, NothingForgotten, Clean
<1>3. HistoryTruthful
  BY <1>2 DEF RunInv, RowsFollow, HistoryTruthful
<1> QED
  BY <1>1, <1>3

-----------------------------------------------------------------------------
(* Every effect on the runs is a step of SyncLedger, or none.              *)

LEMMA DutySorts ==
  ASSUME NEW x
  PROVE  Duty(x) \in {{"failed"}, Ledger!Open}
BY DEF Duty, Unfinished, Ledger!Open

\* The entry of an account in the ledger depends on its entry in syncJobs and
\* on that run only.
LEMMA HolderKept ==
  ASSUME NEW a \in Accounts, current'[a] = current[a],
         current[a] # 0 => /\ run'[current[a]].mode = run[current[a]].mode
                           /\ run'[current[a]].met = run[current[a]].met
                           /\ run'[current[a]].phase \in Alive
                                 <=> run[current[a]].phase \in Alive
  PROVE  /\ Holders'[a] = Holders[a] /\ Duties'[a] = Duties[a]
         /\ Mets'[a] = Mets[a]
BY DEF Holders, Duties, Mets, HasHolder, Duty

\* The three are functions of the accounts.
LEMMA LedgerFunctions ==
  /\ Holders = [b \in Accounts |-> Holders[b]]
  /\ Duties = [b \in Accounts |-> Duties[b]]
  /\ Mets = [b \in Accounts |-> Mets[b]]
  /\ Holders' = [b \in Accounts |-> Holders'[b]]
  /\ Duties' = [b \in Accounts |-> Duties'[b]]
  /\ Mets' = [b \in Accounts |-> Mets'[b]]
BY DEF Holders, Duties, Mets

LEMMA EntryChanged ==
  ASSUME NEW S, NEW f, NEW g, NEW a \in S, NEW v,
         f = [b \in S |-> f[b]], g = [b \in S |-> g[b]],
         g[a] = v, \A b \in S : b # a => g[b] = f[b]
  PROVE  g = [f EXCEPT ![a] = v]
OBVIOUS

\* A run that still works is the holder.
LEMMA LiveHolds ==
  ASSUME RunInv, NEW r \in Live
  PROVE  /\ run[r].acct \in Accounts
         /\ Holders[run[r].acct] = r /\ r # 0
         /\ Duties[run[r].acct] = Duty(run[r])
         /\ Mets[run[r].acct] = run[r].met
BY DEF RunInv, RunsRegistered, Live, RunIds, Holders, Duties, Mets, HasHolder

LEMMA LaunchLedger ==
  ASSUME RunInv, NEW a \in Accounts, NEW m \in Modes,
         NEW o \in {"life", "attempt"}, Launch(a, m, o), item' = item
  PROVE  Ledger!Take(a)
<1>0. TypeOK /\ OnListed /\ RunsRegistered /\ EntriesKnown /\ RowsOpen
  BY DEF RunInv
<1>1. PICK r \in RunIds :
        /\ run[r].phase = "none"
        /\ run'[r].phase = "queued" /\ run'[r].met = NoRun.met
        /\ \A s \in RunIds \ {r} : run'[s] = run[s] /\ row'[s] = row[s]
        /\ row'[r] = "running" /\ row' \in [RunIds -> {"none", "running"} \cup Reports]
        /\ current' = [current EXCEPT ![a] = r]
        /\ ~Joinable(a)
  BY <1>0, LaunchFrame
<1>2. ~HasHolder(a)
  <2>1. current[a] \in RunIds \cup {0}
    BY <1>0, MaxRunsAssumption DEF TypeOK, RunIds
  <2> QED
    BY <1>0, <1>1, <2>1 DEF HasHolder, Joinable, RunsRegistered, EntriesKnown, Live
<1>3. row[r] = "none" /\ row' = [row EXCEPT ![r] = "running"]
  BY <1>0, <1>1 DEF RowsOpen, TypeOK
<1>4. current'[a] = r /\ HasHolder(a)'
  BY <1>0, <1>1 DEF TypeOK, HasHolder, RunIds, Alive
<1>5. ASSUME NEW b \in Accounts, b # a
      PROVE  /\ Holders'[b] = Holders[b] /\ Duties'[b] = Duties[b]
             /\ Mets'[b] = Mets[b]
  <2>1. current'[b] = current[b]
    BY <1>0, <1>1, <1>5 DEF TypeOK
  <2>2. current[b] # 0 => run'[current[b]] = run[current[b]]
    BY <1>0, <1>1, MaxRunsAssumption DEF TypeOK, EntriesKnown, RunIds
  <2> QED
    BY <2>1, <2>2, HolderKept
<1>6. /\ Holders' = [Holders EXCEPT ![a] = r]
      /\ Duties' = [Duties EXCEPT ![a] = Duty(run'[r])]
  BY <1>4, <1>5 DEF Holders, Duties, Duty
<1>9. Mets' = Mets
  <2>1. Mets'[a] = {} /\ Mets[a] = {}
    BY <1>1, <1>2, <1>4 DEF Mets, NoRun
  <2> QED
    BY <1>5, <2>1 DEF Mets
<1>7. Holders[a] = 0
  BY <1>2 DEF Holders
<1>8. r \in Ledger!Runs /\ Duty(run'[r]) \in {{"failed"}, Ledger!Open}
  BY DutySorts DEF Ledger!Runs, RunIds
<1> QED
  BY <1>3, <1>6, <1>7, <1>8, <1>9 DEF Ledger!Take

\* What a step of run r does to the ledger.
LEMMA StepLedger ==
  ASSUME RunInv, NEW r \in RunIds, RunStep(r)
  PROVE  Ledger!Next \/ UNCHANGED <<item, row, Holders, Duties, Mets>>
<1> DEFINE a == run[r].acct
<1>0. TypeOK /\ OnListed /\ RunsRegistered /\ EntriesKnown /\ RowsOpen
  BY DEF RunInv
<1>1. /\ r \in Live /\ current' = current
      /\ run'[r].acct = a /\ run'[r].mode = run[r].mode
      /\ \A s \in RunIds \ {r} : run'[s] = run[s]
  BY <1>0, RunStepFrame
<1>2. /\ a \in Accounts /\ Holders[a] = r /\ r # 0 /\ Duties[a] = Duty(run[r])
      /\ Mets[a] = run[r].met
  BY <1>1, LiveHolds
<1>3. current[a] = r
  BY <1>0, <1>1 DEF RunsRegistered
<1>4. ASSUME NEW b \in Accounts, b # a
      PROVE  /\ Holders'[b] = Holders[b] /\ Duties'[b] = Duties[b]
             /\ Mets'[b] = Mets[b]
  <2>1. current[b] # 0 => run'[current[b]] = run[current[b]]
    BY <1>0, <1>1, <1>4, MaxRunsAssumption DEF TypeOK, EntriesKnown, RunIds
  <2> QED
    BY <1>1, <2>1, HolderKept
<1>5. ASSUME run'[r].phase \in Alive
      PROVE  /\ UNCHANGED <<Holders, Duties>>
             /\ Mets' = [Mets EXCEPT ![a] = run'[r].met]
  <2>1. Holders'[a] = r /\ Duties'[a] = Duty(run[r]) /\ Mets'[a] = run'[r].met
    BY <1>1, <1>2, <1>3, <1>5 DEF Holders, Duties, Mets, HasHolder, Duty
  <2>2. \A b \in Accounts : /\ Holders'[b] = Holders[b] /\ Duties'[b] = Duties[b]
                            /\ Mets'[b] = IF b = a THEN run'[r].met ELSE Mets[b]
    BY <1>2, <1>4, <2>1
  <2> QED
    BY <2>2, LedgerFunctions, Zenon
<1>n. ASSUME run'[r].phase \in Alive, run'[r].met = run[r].met
      PROVE  UNCHANGED <<Holders, Duties, Mets>>
  <2>1. Mets' = [Mets EXCEPT ![a] = Mets[a]]
    BY <1>2, <1>5, <1>n
  <2> QED
    BY <1>5, <1>n, <2>1 DEF Mets
<1>6. row[r] = "running" \/ run[r].phase = "report"
  BY <1>0, <1>1 DEF RowsOpen, Live
<1>7. CASE Announces(r)
  <2>1. /\ Holders' = [Holders EXCEPT ![a] = 0]
        /\ Duties' = [Duties EXCEPT ![a] = {}]
        /\ Mets' = [Mets EXCEPT ![a] = {}]
    <3>1. ~HasHolder(a)'
      BY <1>1, <1>3, <1>7 DEF Announces, HasHolder, Alive, Inside
    <3>2. Holders'[a] = 0
      BY <1>1, <1>2, <3>1 DEF Holders
    <3>3. Duties'[a] = {}
      BY <1>1, <1>2, <3>1 DEF Duties
    <3>8. Mets'[a] = {}
      BY <1>1, <1>2, <3>1 DEF Mets
    <3>4. /\ \A b \in Accounts : b # a => Holders'[b] = Holders[b]
          /\ \A b \in Accounts : b # a => Duties'[b] = Duties[b]
          /\ \A b \in Accounts : b # a => Mets'[b] = Mets[b]
      BY <1>4
    <3>5. Holders' = [Holders EXCEPT ![a] = 0]
      BY <1>2, <3>2, <3>4, LedgerFunctions, EntryChanged
    <3>6. Duties' = [Duties EXCEPT ![a] = {}]
      BY <1>2, <3>3, <3>4, LedgerFunctions, EntryChanged
    <3>7. Mets' = [Mets EXCEPT ![a] = {}]
      BY <1>2, <3>8, <3>4, LedgerFunctions, EntryChanged
    <3> QED
      BY <3>5, <3>6, <3>7
  <2>2. Ledger!Release(a)
    BY <1>2, <1>7, <2>1 DEF Ledger!Release, Announces
  <2> QED
    BY <1>2, <2>2 DEF Ledger!Next
<1>8. CASE Enters(r) \/ Quits(r) \/ Advances(r) \/ Completes(r)
  BY <1>n, <1>8 DEF Enters, Quits, Advances, Completes, Alive, Inside
<1>9. CASE Listing(r)
  <2>1. UNCHANGED <<Holders, Duties, Mets, row>> /\ Ledger!Writing(a)
    BY <1>2, <1>n, <1>6, <1>9 DEF Listing, Alive, Inside, Ledger!Writing
  <2>2. CASE item' = item
    BY <2>1, <2>2
  <2>3. CASE run[r].mode = "incremental" /\
             item' = [item EXCEPT ![a] =
                        [c \in Comics |->
                           IF c \in Named(run'[r].todo) THEN "pending"
                           ELSE "none"]]
    <3>1. Named(run'[r].todo) \in SUBSET Comics
      BY <1>0, RunStepFrame DEF RunType, Named, Comic, Entries
    <3>4. Mets[a] = {}
      BY <1>2, <1>9 DEF Listing, RunInv, MetLater
    <3>2. Duties[a] = Ledger!Open
      BY <1>2, <2>3 DEF Duty, Unfinished, Ledger!Open
    <3>3. Ledger!Relist(a)
      BY <2>1, <2>3, <3>1, <3>2, <3>4 DEF Ledger!Relist
    <3> QED
      BY <1>2, <3>3 DEF Ledger!Next
  <2> QED
    BY <1>9, <2>2, <2>3 DEF Listing
<1>10. CASE Marks(r)
  <2> DEFINE c0 == Comic(run[r].at)
  <2>1. /\ UNCHANGED <<Holders, Duties, row>> /\ Ledger!Writing(a)
        /\ Mets' = [Mets EXCEPT ![a] = @ \cup {c0}]
    BY <1>2, <1>5, <1>6, <1>10 DEF Marks, Alive, Inside, Ledger!Writing
  <2>2. c0 \in Named(run[r].todo) /\ c0 \in Comics
    <3>1. run[r].at \in run[r].todo /\ run[r].todo \subseteq Entries
      BY <1>0, <1>10 DEF RunInv, OnListed, Marks, TypeOK, RunType
    <3> QED
      BY <3>1 DEF Named, Comic, Entries
  <2>3. item[a][c0] \in Duties[a] \/ c0 \in Mets[a]
    <3> HIDE DEF c0
    <3> QED
      BY <1>2, <1>10, <2>2 DEF RunInv, CheckpointMatches, TodoUnfinished, Marks
  <2>4. PICK s \in {"done", "failed"} : item' = [item EXCEPT ![a][c0] = s]
    BY <1>10 DEF Marks
  <2> HIDE DEF c0
  <2>5. Ledger!Settle(a)
    BY <2>1, <2>2, <2>3, <2>4 DEF Ledger!Settle
  <2> QED
    BY <1>2, <2>5 DEF Ledger!Next
<1>11. CASE Saves(r)
  <2>1. UNCHANGED <<Holders, Duties, Mets, item>> /\ Ledger!Writing(a)
    BY <1>2, <1>n, <1>6, <1>11 DEF Saves, Alive, Ledger!Writing
  <2>2. CASE row' = row
    BY <2>1, <2>2
  <2>3. CASE row' = [row EXCEPT ![r] = Verdict(run[r])]
    <3>1. Verdict(run[r]) = "success" =>
             \A c \in Comics : item[a][c] \notin Duties[a]
      BY <1>2, <1>3, <1>11 DEF RunInv, NothingForgotten, Clean, Saves, Verdict
    <3>2. Verdict(run[r]) \in Ledger!Verdicts
      BY DEF Verdict, Ledger!Verdicts
    <3>3. Ledger!Conclude(a)
      BY <1>2, <2>1, <2>3, <3>1, <3>2 DEF Ledger!Conclude
    <3> QED
      BY <1>2, <3>3 DEF Ledger!Next
  <2> QED
    BY <1>11, <2>2, <2>3 DEF Saves
<1> QED
  BY <1>0, <1>7, <1>8, <1>9, <1>10, <1>11, RunStepShape

LEMMA EffectLedger ==
  RunInv /\ RunEffect => Ledger!Next \/ UNCHANGED <<item, row, Holders, Duties, Mets>>
<1> SUFFICES ASSUME RunInv, RunEffect
             PROVE  Ledger!Next \/ UNCHANGED <<item, row, Holders, Duties, Mets>>
  OBVIOUS
<1>0. TypeOK /\ OnListed /\ RunsRegistered
  BY DEF RunInv
<1>1. CASE Aside
  BY <1>1 DEF Aside, Holders, Duties, Mets, HasHolder, Duty
<1>2. CASE Started
  BY <1>2, LaunchLedger DEF Started, Ledger!Next
<1>3. CASE Stopped
  <2>1. /\ \A b \in Accounts : ~HasHolder(b)'
        /\ UNCHANGED <<item, row>>
    BY <1>3 DEF Stopped, Halt, HasHolder
  <2>2. /\ Holders' = [b \in Accounts |-> 0]
        /\ Duties' = [b \in Accounts |-> {}] /\ Mets' = [b \in Accounts |-> {}]
    BY <2>1 DEF Holders, Duties, Mets
  <2>3. CASE \E b \in Accounts : Holders[b] # 0
    BY <2>1, <2>2, <2>3 DEF Ledger!Vanish, Ledger!Next
  <2>4. CASE \A b \in Accounts : Holders[b] = 0
    <3>1. ASSUME NEW b \in Accounts PROVE ~HasHolder(b)
      BY <2>4 DEF Holders, HasHolder
    <3> QED
      BY <2>1, <2>2, <3>1 DEF Holders, Duties, Mets
  <2> QED
    BY <2>3, <2>4
<1>4. CASE Restart
  <2>1. Live = {}
    BY <1>0, <1>4 DEF Restart, RunsRegistered
  <2>2. ASSUME NEW b \in Accounts PROVE ~HasHolder(b)
    BY <1>0, <2>1, MaxRunsAssumption DEF HasHolder, Live, TypeOK, RunIds
  <2>3. \A b \in Accounts : Holders[b] = 0
    BY <2>2 DEF Holders
  <2>4. UNCHANGED <<item, Holders, Duties, Mets>>
    BY <1>4 DEF Restart, Holders, Duties, Mets, HasHolder, Duty
  <2>5. Ledger!Recover
    BY <1>4, <2>3, <2>4 DEF Restart, Ledger!Recover, Ledger!Runs, RunIds
  <2> QED
    BY <2>5 DEF Ledger!Next
<1> QED
  BY <1>1, <1>2, <1>3, <1>4, StepLedger DEF RunEffect, GoesOn

LEMMA InitLedger == Init => Ledger!Init
BY DEF Init, Ledger!Init, Ledger!Runs, RunIds, Holders, Duties, Mets, HasHolder

-----------------------------------------------------------------------------
(* The runs on their own.                                                  *)

\* RunInv holds whatever requests, timeouts, crashes and restarts come.
THEOREM RunInvariance == Spec => []RunInv
<1>1. RunInv /\ [Next]_vars => RunInv'
  BY StepEffect, EffectPreserves DEF RunInv
<1> QED
  BY InitRunInv, <1>1, PTL DEF Spec

\* No account is ever synchronised by two goroutines, and what a run has still
\* to do is what the table calls unfinished (launchSync, PrepareSyncItems).
THEOREM CheckpointSafe == Spec => []CheckpointOwned
BY RunInvariance, RunInvImplies, PTL

\* The history of the runs tells the truth (FinishSync, updateSync, and
\* migrateFeatures after a crash).
THEOREM HistorySafe == Spec => []HistoryTruthful
BY RunInvariance, RunInvImplies, PTL

-----------------------------------------------------------------------------
(* The scheduler on top of them.                                           *)

LEMMA InitSchedInv == DailyInit => SchedInv
<1> SUFFICES ASSUME DailyInit PROVE SchedInv
  OBVIOUS
<1>1. /\ attempt.day = 0 /\ attempt.wait = 0
      /\ attempt \in [day : Nat, left : SUBSET Accounts, wait : 0..MaxRuns,
                      over : BOOLEAN, failed : BOOLEAN]
  BY MaxRunsAssumption DEF DailyInit, NoAttempt
<1> QED
  BY <1>1 DEF DailyInit, SchedInv, SchedType, NoFutureDay, WaitTruthful,
              AttemptEarned, MarkedMeansSucceeded

\* A run that was launched keeps its account, and its success once it is
\* reported.
LEMMA RunsKept ==
  ASSUME RunInv, GoesOn, NEW r \in RunIds, run[r].phase # "none"
  PROVE  /\ run'[r].phase # "none" /\ run'[r].acct = run[r].acct
         /\ run'[r].prog = "success" =>
               \/ run[r].prog = "success"
               \/ run[r].phase = "report" /\ RunStep(r)
<1>0. TypeOK /\ OnListed /\ RunsRegistered
  BY DEF RunInv
<1>1. CASE Aside \/ Restart
  BY <1>1 DEF Aside, Restart
<1>2. CASE Started
  <2>1. PICK a \in Accounts, m \in Modes, o \in {"life", "attempt"} : Launch(a, m, o)
    BY <1>2 DEF Started
  <2>2. run'[r] = run[r]
    BY <1>0, <2>1, LaunchFrame
  <2> QED
    BY <2>2
<1>3. ASSUME NEW s \in RunIds, RunStep(s)
      PROVE  /\ run'[r].phase # "none" /\ run'[r].acct = run[r].acct
             /\ run'[r].prog = "success" =>
                   \/ run[r].prog = "success"
                   \/ run[r].phase = "report" /\ RunStep(r)
  <2>1. CASE s # r
    BY <1>0, <1>3, <2>1, RunStepFrame
  <2>2. CASE s = r
    <3>1. run'[r].acct = run[r].acct
      BY <1>0, <1>3, <2>2, RunStepFrame
    <3> QED
      BY <1>0, <1>3, <2>2, <3>1, RunStepShape
      DEF Enters, Quits, Listing, Advances, Marks, Completes, Saves, Announces
  <2> QED
    BY <2>1, <2>2
<1> QED
  BY <1>1, <1>2, <1>3 DEF GoesOn

AttemptType == [day : Nat, left : SUBSET Accounts, wait : 0..MaxRuns,
                over : BOOLEAN, failed : BOOLEAN]

LEMMA NoAttemptFacts ==
  /\ NoAttempt \in AttemptType
  /\ NoAttempt.day = 0 /\ NoAttempt.wait = 0 /\ ~NoAttempt.failed
BY MaxRunsAssumption DEF NoAttempt, AttemptType

\* What an answer makes of an attempt.
LEMMA AnswerFacts ==
  ASSUME NEW x \in AttemptType, NEW f \in BOOLEAN, NEW y,
         y = [x EXCEPT !.wait = 0, !.failed = f]
  PROVE  /\ y \in AttemptType /\ y.day = x.day /\ y.left = x.left
         /\ y.wait = 0 /\ (y.failed <=> f)
<1>1. 0 \in 0..MaxRuns
  BY MaxRunsAssumption
<1>2. y \in AttemptType
  BY <1>1 DEF AttemptType
<1>3. y.day = x.day /\ y.left = x.left /\ y.wait = 0
  BY DEF AttemptType
<1>4. y.failed <=> f
  BY DEF AttemptType
<1> QED
  BY <1>2, <1>3, <1>4

\* While the attempt itself does not change, steps of the runs keep what it has
\* earned: successes are only added, and of days no earlier than its own.
LEMMA AttemptKept ==
  ASSUME RunInv, SchedInv, GoesOn, SchedType',
         attempt'.day = attempt.day, attempt'.left = attempt.left,
         attempt'.wait = attempt.wait, attempt'.failed = attempt.failed,
         \A a \in Accounts : succeeded'[a] >= succeeded[a]
                                \/ succeeded'[a] >= attempt.day,
         \A r \in RunIds :
            (RunStep(r) /\ run[r].phase = "report" /\ run'[r].prog = "success")
               => succeeded'[run[r].acct] >= attempt.day
  PROVE  WaitTruthful' /\ AttemptEarned'
<1>0. /\ SchedType /\ WaitTruthful /\ AttemptEarned /\ MaxRuns \in Nat
      /\ attempt.day \in Nat /\ attempt.wait \in 0..MaxRuns
      /\ \A a \in Accounts : succeeded[a] \in Nat /\ succeeded'[a] \in Nat
  BY MaxRunsAssumption DEF SchedInv, SchedType
<1>1. attempt.wait # 0 =>
        /\ attempt.wait \in RunIds
        /\ run'[attempt.wait].phase # "none"
        /\ run'[attempt.wait].acct = run[attempt.wait].acct
        /\ run'[attempt.wait].prog = "success" =>
             \/ run[attempt.wait].prog = "success"
             \/ /\ run[attempt.wait].phase = "report"
                /\ RunStep(attempt.wait)
  BY <1>0, RunsKept DEF WaitTruthful, RunIds
<1>2. WaitTruthful'
  <2> SUFFICES ASSUME attempt.wait # 0
               PROVE  /\ run'[attempt.wait].phase # "none"
                      /\ run'[attempt.wait].acct \in Accounts
                      /\ run'[attempt.wait].prog = "success" =>
                           succeeded'[run'[attempt.wait].acct] >= attempt.day
    BY DEF WaitTruthful
  <2>1. run[attempt.wait].acct \in Accounts
    BY <1>0 DEF WaitTruthful
  <2>2. run[attempt.wait].prog = "success" =>
           succeeded[run[attempt.wait].acct] >= attempt.day
    BY <1>0 DEF WaitTruthful
  <2> QED
    BY <1>0, <1>1, <2>1, <2>2
<1>3. AttemptEarned'
  BY <1>0, <1>1 DEF AttemptEarned
<1> QED
  BY <1>2, <1>3

LEMMA SchedStep ==
  ASSUME RunInv, SchedInv, [DailyNext]_dailyVars
  PROVE  SchedInv'
<1>0. /\ TypeOK /\ OnListed /\ EntriesKnown /\ SchedType /\ NoFutureDay /\ WaitTruthful
      /\ AttemptEarned /\ MarkedMeansSucceeded
  BY DEF RunInv, SchedInv
<1>b. /\ attempt \in AttemptType /\ attempt.day \in Nat
      /\ attempt.wait \in 0..MaxRuns /\ MaxRuns \in Nat
      /\ today \in Nat /\ lastRun \in Nat /\ saved \in Nat
      /\ \A a \in Accounts : succeeded[a] \in Nat
  BY <1>0, MaxRunsAssumption DEF SchedType, AttemptType
<1> USE DEF SchedInv, SchedType
<1>1. ASSUME Tick PROVE SchedInv'
  <2>1. attempt' = [NoAttempt EXCEPT !.day = today, !.left = Accounts]
    BY <1>1 DEF Tick
  <2>2. /\ attempt' \in AttemptType /\ attempt'.day = today
        /\ attempt'.left = Accounts /\ attempt'.wait = 0
    BY <1>b, <2>1, NoAttemptFacts DEF AttemptType
  <2> QED
    BY <1>0, <1>1, <2>2 DEF Tick, AttemptType, NoFutureDay, WaitTruthful,
                            AttemptEarned, MarkedMeansSucceeded
<1>2. ASSUME NEW a \in Accounts, JoinOrLaunch(a) PROVE SchedInv'
  <2>1. /\ attempt'.day = attempt.day /\ attempt'.left = attempt.left \ {a}
        /\ attempt' \in AttemptType
        /\ \/ attempt'.wait = attempt.wait /\ attempt'.failed
           \/ /\ attempt'.wait = current'[a] /\ attempt'.failed = attempt.failed
              /\ attempt'.wait \in RunIds
              /\ run'[attempt'.wait].phase # "none"
              /\ run'[attempt'.wait].acct = a
              /\ run'[attempt'.wait].prog # "success"
    <3>0. current[a] \in 0..MaxRuns
      BY <1>0 DEF TypeOK
    <3>1. CASE /\ Joinable(a) /\ UNCHANGED <<run, current, row>>
               /\ attempt' = [attempt EXCEPT !.left = @ \ {a}, !.wait = current[a]]
      <4>1. /\ attempt'.day = attempt.day /\ attempt'.left = attempt.left \ {a}
            /\ attempt' \in AttemptType
            /\ attempt'.wait = current[a] /\ attempt'.failed = attempt.failed
        BY <1>b, <3>0, <3>1 DEF AttemptType
      <4>2. /\ current[a] # 0 /\ run[current[a]].prog # "success"
            /\ run[current[a]].acct = a /\ run[current[a]].phase # "none"
        BY <1>0, <3>1 DEF Joinable, EntriesKnown
      <4>3. current[a] \in RunIds
        BY <3>0, <4>2, <1>b DEF RunIds
      <4> QED
        BY <3>1, <4>1, <4>2, <4>3
    <3>2. CASE /\ Launch(a, "incremental", "attempt")
               /\ attempt' = [attempt EXCEPT !.left = @ \ {a}, !.wait = current'[a]]
      <4>1. PICK r \in RunIds :
              /\ run'[r].acct = a
              /\ run'[r].phase = "queued" /\ run'[r].prog = "queued"
              /\ current' = [current EXCEPT ![a] = r]
        BY <1>0, <3>2, LaunchFrame DEF Modes
      <4>2. current'[a] = r /\ r \in 0..MaxRuns
        BY <1>0, <1>b, <4>1 DEF TypeOK, RunIds
      <4> QED
        BY <1>b, <3>2, <4>1, <4>2 DEF AttemptType
    <3>3. CASE attempt' = [attempt EXCEPT !.left = @ \ {a}, !.failed = TRUE]
      BY <1>b, <3>3 DEF AttemptType
    <3> QED
      BY <1>2, <3>1, <3>2, <3>3 DEF JoinOrLaunch
  <2>2. attempt.wait = 0
    BY <1>2 DEF JoinOrLaunch
  <2>3. WaitTruthful'
    BY <2>1, <2>2 DEF WaitTruthful
  <2>4. AttemptEarned'
    BY <1>0, <1>2, <1>b, <2>1, <2>2 DEF JoinOrLaunch, AttemptEarned, RunIds
  <2> QED
    BY <1>0, <1>2, <2>1, <2>3, <2>4
    DEF JoinOrLaunch, AttemptType, NoFutureDay, MarkedMeansSucceeded
<1>3. ASSUME Answered PROVE SchedInv'
  <2>1. /\ attempt'.day = attempt.day /\ attempt'.left = attempt.left
        /\ attempt' \in AttemptType /\ attempt'.wait = 0
        /\ \/ attempt'.failed
           \/ run[attempt.wait].prog = "success" /\ attempt'.failed = attempt.failed
    <3>1. CASE attempt' = [attempt EXCEPT
                            !.wait = 0,
                            !.failed = @ \/ run[attempt.wait].prog # "success"]
      <4>1. CASE attempt.failed \/ run[attempt.wait].prog # "success"
        <5>1. attempt' = [attempt EXCEPT !.wait = 0, !.failed = TRUE]
          BY <3>1, <4>1
        <5> QED
          BY <1>b, <5>1, AnswerFacts
      <4>2. CASE ~attempt.failed /\ run[attempt.wait].prog = "success"
        <5>1. attempt' = [attempt EXCEPT !.wait = 0, !.failed = FALSE]
          BY <3>1, <4>2
        <5>2. attempt.failed = FALSE
          BY <1>b, <4>2 DEF AttemptType
        <5>3. attempt'.failed = FALSE
          BY <1>b, <5>1 DEF AttemptType
        <5> QED
          BY <1>b, <4>2, <5>1, <5>2, <5>3, AnswerFacts
      <4> QED
        BY <4>1, <4>2
    <3>2. CASE attempt' = [attempt EXCEPT !.wait = 0, !.failed = TRUE]
      BY <1>b, <3>2, AnswerFacts
    <3> QED
      BY <1>3, <3>1, <3>2 DEF Answered
  <2>2. attempt.wait # 0 /\ run' = run
    BY <1>3 DEF Answered, vars
  <2>3. AttemptEarned'
    BY <1>0, <1>3, <1>b, <2>1, <2>2 DEF Answered, AttemptEarned, WaitTruthful
  <2> QED
    BY <1>0, <1>3, <2>1, <2>3
    DEF Answered, AttemptType, NoFutureDay, WaitTruthful, MarkedMeansSucceeded
<1>4. ASSUME AttemptReturns PROVE SchedInv'
  <2>1. \A a \in Accounts : ~attempt.failed => succeeded[a] >= attempt.day
    BY <1>0, <1>4 DEF AttemptReturns, AttemptEarned
  <2>2. /\ lastRun' \in {lastRun, attempt.day} /\ saved' \in {saved, attempt.day}
        /\ attempt.failed => lastRun' = lastRun /\ saved' = saved
        /\ attempt' = NoAttempt
        /\ UNCHANGED <<today, listed, succeeded>>
    BY <1>4 DEF AttemptReturns
  <2>3. MarkedMeansSucceeded'
    BY <1>0, <2>1, <2>2 DEF MarkedMeansSucceeded
  <2> QED
    BY <1>0, <1>b, <2>2, <2>3, NoAttemptFacts
    DEF AttemptType, NoFutureDay, WaitTruthful, AttemptEarned
<1>5. ASSUME AttemptTimeout \/ NextDay PROVE SchedInv'
  <2>1. /\ attempt'.day = attempt.day /\ attempt'.left = attempt.left
        /\ attempt' \in AttemptType /\ attempt'.wait = attempt.wait
        /\ attempt'.failed = attempt.failed
    BY <1>5, <1>b DEF AttemptTimeout, NextDay, AttemptType
  <2>2. /\ UNCHANGED <<run, lastRun, saved, listed, succeeded>>
        /\ today' \in {today, today + 1}
    BY <1>5 DEF AttemptTimeout, NextDay
  <2> QED
    BY <1>0, <1>b, <2>1, <2>2
    DEF AttemptType, NoFutureDay, WaitTruthful, AttemptEarned,
        MarkedMeansSucceeded
<1>6. ASSUME NEW r \in RunIds, DailyRunStep(r) PROVE SchedInv'
  <2>1. GoesOn
    BY <1>6 DEF DailyRunStep, GoesOn
  <2>2. UNCHANGED <<today, lastRun, saved, attempt>>
    BY <1>6 DEF DailyRunStep, schedVars
  <2>3. /\ listed' \in [Accounts -> Nat] /\ succeeded' \in [Accounts -> Nat]
        /\ \A a \in Accounts : succeeded'[a] \in {succeeded[a], today}
    BY <1>0, <1>6, <1>b DEF DailyRunStep
  <2>4. run[r].acct \in Accounts
    BY <1>0, <1>6, RunStepFrame DEF DailyRunStep, RunInv, RunsRegistered
  <2>5. ASSUME NEW s \in RunIds, RunStep(s), run[s].phase = "report",
               run'[s].prog = "success"
        PROVE  succeeded'[run[s].acct] >= attempt.day
    <3>1. s = r
      <4>1. run[s].prog # "success"
        BY <2>5 DEF RunInv, ReportsAreLast, Reports
      <4> QED
        BY <1>0, <1>6, <2>5, <4>1, RunStepFrame DEF DailyRunStep
    <3>2. succeeded'[run[s].acct] = today
      BY <1>0, <1>6, <2>4, <2>5, <3>1 DEF DailyRunStep
    <3> QED
      BY <1>0, <1>b, <3>2 DEF NoFutureDay
  <2>6. SchedType'
    BY <1>0, <2>2, <2>3
  <2>7. \A a \in Accounts : \/ succeeded'[a] >= succeeded[a]
                            \/ succeeded'[a] >= attempt.day
    BY <1>0, <1>b, <2>3 DEF NoFutureDay
  <2>8. WaitTruthful' /\ AttemptEarned'
    BY <2>1, <2>2, <2>5, <2>6, <2>7, AttemptKept
  <2>9. NoFutureDay'
    BY <1>0, <2>2 DEF NoFutureDay
  <2>10. MarkedMeansSucceeded'
    BY <1>0, <1>b, <2>2, <2>3 DEF MarkedMeansSucceeded, NoFutureDay
  <2> QED
    BY <2>6, <2>8, <2>9, <2>10
<1>7. ASSUME Others PROVE SchedInv'
  <2>1. UNCHANGED <<today, lastRun, saved, attempt, listed, succeeded>>
    BY <1>7 DEF Others, schedVars
  <2>2. Started \/ Aside
    BY <1>0, <1>7, OutsideEffect DEF Others, Outside
  <2>3. ASSUME NEW r \in RunIds, run[r].phase = "report",
               run'[r].prog = "success"
        PROVE  FALSE
    <3>1. run'[r] = run[r]
      BY <1>0, <2>2, <2>3, LaunchFrame DEF Started, Aside
    <3> QED
      BY <2>3, <3>1 DEF RunInv, ReportsAreLast, Reports
  <2>4. SchedType'
    BY <1>0, <2>1
  <2>5. \A a \in Accounts : succeeded'[a] >= succeeded[a]
    BY <1>b, <2>1
  <2>6. WaitTruthful' /\ AttemptEarned'
    <3>1. GoesOn
      BY <2>2 DEF GoesOn
    <3> HIDE DEF SchedInv, SchedType
    <3> QED
      BY <2>1, <2>3, <2>4, <2>5, <3>1, AttemptKept
  <2> QED
    BY <1>0, <2>1, <2>4, <2>6 DEF NoFutureDay, MarkedMeansSucceeded
<1>8. ASSUME DailyShutdown PROVE SchedInv'
  <2>1. /\ attempt'.day = attempt.day /\ attempt'.left = attempt.left
        /\ attempt' \in AttemptType /\ attempt'.wait = attempt.wait
        /\ attempt'.failed = attempt.failed
    BY <1>8, <1>b DEF DailyShutdown, AttemptType
  <2> QED
    BY <1>0, <1>8, <1>b, <2>1
    DEF DailyShutdown, Shutdown, AttemptType, NoFutureDay, WaitTruthful,
        AttemptEarned, MarkedMeansSucceeded
<1>9. ASSUME DailyEnd PROVE SchedInv'
  BY <1>0, <1>9, <1>b, NoAttemptFacts
  DEF DailyEnd, AttemptType, NoFutureDay, WaitTruthful, AttemptEarned,
      MarkedMeansSucceeded
<1>10. ASSUME DailyRestart PROVE SchedInv'
  BY <1>0, <1>10, <1>b
  DEF DailyRestart, Restart, NoFutureDay, WaitTruthful, AttemptEarned,
      MarkedMeansSucceeded
<1>11. CASE UNCHANGED dailyVars
  BY <1>0, <1>11
  DEF dailyVars, vars, schedVars, NoFutureDay, WaitTruthful, AttemptEarned,
      MarkedMeansSucceeded
<1> HIDE DEF SchedInv, SchedType
<1> QED
  BY <1>1, <1>2, <1>3, <1>4, <1>5, <1>6, <1>7, <1>8, <1>9, <1>10, <1>11
  DEF DailyNext, Scheduler

\* Both invariants hold of the scheduler and the runs together.
THEOREM DailyInvariance == DailySpec => [](RunInv /\ SchedInv)
<1>1. DailyInit => RunInv /\ SchedInv
  BY InitRunInv, InitSchedInv DEF DailyInit
<1>2. RunInv /\ SchedInv /\ [DailyNext]_dailyVars => (RunInv /\ SchedInv)'
  BY SchedStep, DailyEffect, EffectPreserves DEF RunInv
<1> QED
  BY <1>1, <1>2, PTL DEF DailySpec

\* Every variable keeps its type.
THEOREM SyncTypeCorrect == DailySpec => []TypeOK
BY DailyInvariance, RunInvImplies, PTL

\* The same of the runs when the scheduler starts and joins them: no account
\* ever has two goroutines, and no comic is forgotten.
THEOREM DailyCheckpoint == DailySpec => []CheckpointOwned
BY DailyInvariance, RunInvImplies, PTL

\* The history tells the truth under the scheduler, too.
THEOREM DailyHistory == DailySpec => []HistoryTruthful
BY DailyInvariance, RunInvImplies, PTL

\* A day the scheduler remembers is a day on which every account had a run
\* that succeeded (SyncAll, saveLastRun, loadLastRun).
THEOREM DayEarned == DailySpec => []MarkedMeansSucceeded
<1>1. SchedInv => MarkedMeansSucceeded
  BY DEF SchedInv
<1> QED
  BY <1>1, DailyInvariance, PTL

\* The goroutines of the runs, for all their joins, deadlines, lost writes and
\* crashes, change checkpoint and history only in the ways SyncLedger lists.
THEOREM LedgerRefinement == Spec => ImplementsLedger
<1>1. RunInv /\ [Next]_vars => [Ledger!Next]_(Ledger!ledgerVars)
  BY StepEffect, EffectLedger DEF RunInv, Ledger!ledgerVars
<1> QED
  BY InitLedger, <1>1, RunInvariance, PTL DEF Spec, ImplementsLedger, Ledger!Spec

\* Under the scheduler, which launches and joins runs of its own, as well.
THEOREM DailyLedger == DailySpec => ImplementsLedger
<1>1. RunInv /\ [DailyNext]_dailyVars => [Ledger!Next]_(Ledger!ledgerVars)
  BY DailyEffect, EffectLedger DEF RunInv, Ledger!ledgerVars
<1>2. DailyInit => Ledger!Init
  BY InitLedger DEF DailyInit
<1> QED
  BY <1>1, <1>2, DailyInvariance, PTL
  DEF DailySpec, ImplementsLedger, Ledger!Spec

-----------------------------------------------------------------------------
(* The steps a run has left.                                               *)

RunStage == [queued |-> 6, listing |-> 5, auth |-> 4, checking |-> 3,
             marking |-> 2, finish |-> 2, report |-> 1]

\* The entries that run x may still take up; every one costs it two steps.
Ahead(x) ==
    IF x.phase \in {"queued", "listing"} THEN Entries
    ELSE IF x.phase \in Inside THEN x.todo ELSE {}

RunRank(x) ==
    IF x.phase \in Alive THEN RunStage[x.phase] + 2 * Cardinality(Ahead(x)) ELSE 0

(* A run that is not over (launchSync) has at most as many steps to go as  *)
(* the longest list allows, whatever the list turns out to be.             *)
RunBounded ==
    \A r \in Live : RunRank(run[r]) \in 1..(2 * Cardinality(Entries) + 6)

(* Every step of a run leaves it fewer: errors, a deadline, lost writes    *)
(* and the end of the process only shorten it, and what joins it or runs   *)
(* beside it leaves it alone.                                              *)
RunAdvances ==
    [][\A r \in RunIds : run[r].phase # "none" /\ run'[r] # run[r]
          => RunRank(run'[r]) < RunRank(run[r])]_vars

LEMMA RunStageValues ==
  /\ RunStage["queued"] = 6 /\ RunStage["listing"] = 5 /\ RunStage["auth"] = 4
  /\ RunStage["checking"] = 3 /\ RunStage["marking"] = 2
  /\ RunStage["finish"] = 2 /\ RunStage["report"] = 1
BY DEF RunStage

LEMMA EntriesFinite ==
  ASSUME IsFiniteSet(Comics)
  PROVE  IsFiniteSet(Entries)
<1>1. IsFiniteSet(1..Copies)
  BY CopiesAssumption, FS_Interval
<1> QED
  BY <1>1, FS_Product DEF Entries

LEMMA EntrySets ==
  ASSUME IsFiniteSet(Entries), NEW S \in SUBSET Entries
  PROVE  /\ Cardinality(S) \in Nat /\ Cardinality(Entries) \in Nat
         /\ Cardinality(S) <= Cardinality(Entries)
         /\ \A c \in S : Cardinality(S) >= 1
                         /\ Cardinality(S \ {c}) = Cardinality(S) - 1
<1>1. IsFiniteSet(S) /\ Cardinality(S) <= Cardinality(Entries)
  BY FS_Subset
<1>2. Cardinality(S) \in Nat /\ Cardinality(Entries) \in Nat
  BY <1>1, FS_CardinalityType
<1>3. ASSUME NEW c \in S
      PROVE  Cardinality(S) >= 1 /\ Cardinality(S \ {c}) = Cardinality(S) - 1
  <2>1. IsFiniteSet(S \ {c}) /\ Cardinality(S \ {c}) = Cardinality(S) - 1
    BY <1>1, FS_RemoveElement
  <2>2. Cardinality(S \ {c}) \in Nat
    BY <2>1, FS_CardinalityType
  <2> QED
    BY <1>2, <2>1, <2>2
<1> QED
  BY <1>1, <1>2, <1>3

LEMMA RunRankRange ==
  ASSUME IsFiniteSet(Entries), NEW x \in RunType
  PROVE  /\ x.phase \in Alive => /\ RunRank(x) \in 1..(2 * Cardinality(Entries) + 6)
                                 /\ RunRank(x) \in Nat
         /\ x.phase \notin Alive => RunRank(x) = 0
<1>1. Ahead(x) \in SUBSET Entries
  BY DEF Ahead, RunType
<1>2. PICK m \in Nat, n \in Nat :
         m = Cardinality(Ahead(x)) /\ n = Cardinality(Entries) /\ m <= n
  BY <1>1, EntrySets
<1>3. x.phase \in Alive => RunStage[x.phase] \in 1..6
  BY RunStageValues DEF Alive, Inside
<1> QED
  BY <1>2, <1>3 DEF RunRank

\* A step of a run takes at least one from what it has left.
LEMMA RunStepRank ==
  ASSUME IsFiniteSet(Entries), RunInv, NEW r \in RunIds, RunStep(r)
  PROVE  RunRank(run'[r]) < RunRank(run[r])
<1>0. TypeOK /\ run[r] \in RunType /\ run'[r] \in RunType
  BY RunStepFrame DEF RunInv, TypeOK
<1> DEFINE x == run[r]
           y == run'[r]
<1>1. x.todo \in SUBSET Entries /\ y.todo \in SUBSET Entries
  BY <1>0 DEF RunType
<1>2. PICK n \in Nat, m \in Nat, k \in Nat :
         /\ n = Cardinality(Entries) /\ m = Cardinality(x.todo)
         /\ k = Cardinality(y.todo) /\ m <= n /\ k <= n
  BY <1>1, EntrySets
<1>3. x.phase = "marking" => m >= 1
  BY <1>1, <1>2, EntrySets DEF RunInv, OnListed
<1>4. Cardinality({}) = 0
  BY FS_EmptySet
<1>5. /\ x.phase = "queued" => RunRank(x) = 6 + 2 * n
      /\ x.phase = "listing" => RunRank(x) = 5 + 2 * n
      /\ x.phase = "auth" => RunRank(x) = 4 + 2 * m
      /\ x.phase = "checking" => RunRank(x) = 3 + 2 * m
      /\ x.phase = "marking" => RunRank(x) = 2 + 2 * m
      /\ x.phase = "finish" => RunRank(x) = 2
      /\ x.phase = "report" => RunRank(x) = 1
  BY <1>2, <1>4, RunStageValues DEF RunRank, Ahead, Alive, Inside
<1>6. /\ y.phase = "listing" => RunRank(y) = 5 + 2 * n
      /\ y.phase = "auth" => RunRank(y) = 4 + 2 * k
      /\ y.phase = "checking" => RunRank(y) = 3 + 2 * k
      /\ y.phase = "marking" => RunRank(y) = 2 + 2 * k
      /\ y.phase = "finish" => RunRank(y) = 2
      /\ y.phase = "report" => RunRank(y) = 1
      /\ y.phase = "end" => RunRank(y) = 0
  BY <1>2, <1>4, RunStageValues DEF RunRank, Ahead, Alive, Inside
<1>7. Enters(r) => RunRank(y) < RunRank(x)
  BY <1>5, <1>6 DEF Enters
<1>8. Quits(r) => RunRank(y) < RunRank(x)
  BY <1>3, <1>5, <1>6 DEF Quits, Inside
<1>9. Listing(r) => RunRank(y) < RunRank(x)
  BY <1>2, <1>5, <1>6 DEF Listing
<1>10. Advances(r) => RunRank(y) < RunRank(x)
  <2>1. y.todo = x.todo => k = m
    BY <1>2
  <2> QED
    BY <1>5, <1>6, <2>1 DEF Advances
<1>11. Marks(r) => RunRank(y) < RunRank(x)
  <2>1. Marks(r) => k = m - 1
    BY <1>1, <1>2, EntrySets DEF Marks, RunInv, OnListed
  <2> QED
    BY <1>5, <1>6, <2>1 DEF Marks
<1>12. Completes(r) \/ Saves(r) \/ Announces(r) => RunRank(y) < RunRank(x)
  BY <1>5, <1>6 DEF Completes, Saves, Announces
<1> QED
  BY <1>0, <1>7, <1>8, <1>9, <1>10, <1>11, <1>12, RunStepShape

LEMMA EffectRank ==
  ASSUME IsFiniteSet(Entries), RunInv, RunEffect, NEW r \in RunIds,
         run[r].phase # "none", run'[r] # run[r]
  PROVE  RunRank(run'[r]) < RunRank(run[r])
<1>0. TypeOK /\ OnListed /\ run[r] \in RunType
  BY DEF RunInv, TypeOK
<1>1. CASE Aside \/ Restart
  BY <1>1 DEF Aside, Restart
<1>2. CASE Started
  <2>1. PICK a \in Accounts, m \in Modes, o \in {"life", "attempt"} : Launch(a, m, o)
    BY <1>2 DEF Started
  <2> QED
    BY <1>0, <2>1, LaunchFrame
<1>3. ASSUME NEW s \in RunIds, RunStep(s) PROVE RunRank(run'[r]) < RunRank(run[r])
  <2>1. s = r
    BY <1>0, <1>3, RunStepFrame
  <2> QED
    BY <1>3, <2>1, RunStepRank
<1>4. CASE Stopped
  <2>1. Halt
    BY <1>4 DEF Stopped
  <2>2. r \in Live
    BY <2>1 DEF Halt
  <2>3. run'[r] \in RunType /\ run'[r].phase \notin Alive
    BY <1>0, <2>1, HaltFrame
  <2>4. RunRank(run'[r]) = 0 /\ RunRank(run[r]) \in 1..(2 * Cardinality(Entries) + 6)
    BY <1>0, <2>2, <2>3, RunRankRange DEF Live
  <2> QED
    BY <2>4
<1> QED
  BY <1>1, <1>2, <1>3, <1>4 DEF RunEffect, GoesOn

LEMMA LiveBounded == ASSUME IsFiniteSet(Entries) PROVE RunInv => RunBounded
<1> SUFFICES ASSUME RunInv, NEW r \in Live
             PROVE  RunRank(run[r]) \in 1..(2 * Cardinality(Entries) + 6)
  BY DEF RunBounded
<1>1. run[r] \in RunType /\ run[r].phase \in Alive
  BY DEF Live, RunInv, TypeOK
<1> QED
  BY <1>1, RunRankRange

(* Every run of a favourites synchronisation has a bounded number of steps *)
(* left and every step takes one away (launchSync, syncAccount): neither a *)
(* checkpoint that grows nor an error can keep it going.                   *)
THEOREM RunIsBounded ==
  ASSUME IsFiniteSet(Comics)
  PROVE  Spec => []RunBounded /\ RunAdvances
<1>0. IsFiniteSet(Entries)
  BY EntriesFinite
<1>1. RunInv => RunBounded
  BY <1>0, LiveBounded
<1>2. RunInv /\ [Next]_vars
      => [\A r \in RunIds : run[r].phase # "none" /\ run'[r] # run[r]
             => RunRank(run'[r]) < RunRank(run[r])]_vars
  <2> SUFFICES ASSUME RunInv, [Next]_vars, NEW r \in RunIds,
                      run[r].phase # "none", run'[r] # run[r]
               PROVE  RunRank(run'[r]) < RunRank(run[r])
    OBVIOUS
  <2> QED
    BY <1>0, StepEffect, EffectRank DEF RunInv
<1> QED
  BY <1>1, <1>2, RunInvariance, PTL DEF Spec, RunAdvances

\* The same of the runs under the scheduler, its own and those it joins.
THEOREM DailyRunBounded ==
  ASSUME IsFiniteSet(Comics)
  PROVE  DailySpec => []RunBounded /\ RunAdvances
<1>0. IsFiniteSet(Entries)
  BY EntriesFinite
<1>1. RunInv => RunBounded
  BY <1>0, LiveBounded
<1>2. RunInv /\ [DailyNext]_dailyVars
      => [\A r \in RunIds : run[r].phase # "none" /\ run'[r] # run[r]
             => RunRank(run'[r]) < RunRank(run[r])]_vars
  <2> SUFFICES ASSUME RunInv, [DailyNext]_dailyVars, NEW r \in RunIds,
                      run[r].phase # "none", run'[r] # run[r]
               PROVE  RunRank(run'[r]) < RunRank(run[r])
    OBVIOUS
  <2> QED
    BY <1>0, DailyEffect, EffectRank DEF RunInv
<1> QED
  BY <1>1, <1>2, DailyInvariance, PTL DEF DailySpec, RunAdvances
=============================================================================
