----------------------------- MODULE DailySync ------------------------------
(***************************************************************************)
(* The daily scheduler of main.go on top of SyncRuns: once a day it calls  *)
(* Engine.SyncAll, which takes the accounts one by one, joins the run of   *)
(* an account if there is one and starts one otherwise, and it remembers   *)
(* the day only when no account failed.  Runs it starts live in the        *)
(* context of the attempt; runs it joins do not.                           *)
(***************************************************************************)
EXTENDS SyncRuns

VARIABLES
    today,      \* the day whose scheduled time has passed
    lastRun,    \* scheduler's lastRun, 0 for ""
    saved,      \* schedule.state
    attempt,    \* SyncAll: [day, left, wait, over, failed]; day 0 when idle
    listed,     \* last day the whole favourites list came back (history)
    succeeded   \* last day a run of the account reported success (history)

schedVars == <<today, lastRun, saved, attempt>>
dailyVars == <<vars, schedVars, listed, succeeded>>

NoAttempt == [day |-> 0, left |-> {}, wait |-> 0, over |-> FALSE, failed |-> FALSE]

DailyInit ==
    /\ Init
    /\ today = 1
    /\ lastRun = 0
    /\ saved = 0
    /\ attempt = NoAttempt
    /\ listed = [a \in Accounts |-> 0]
    /\ succeeded = [a \in Accounts |-> 0]

-----------------------------------------------------------------------------
(* The scheduler.  The fifteen minutes after a failure are any delay.      *)

Tick ==
    /\ server = "up"
    /\ attempt = NoAttempt
    /\ lastRun # today
    /\ Spend("attempt")
    /\ attempt' = [NoAttempt EXCEPT !.day = today, !.left = Accounts]
    /\ UNCHANGED <<server, boot, owed, run, current, canceled, row, item, today,
                   lastRun, saved, listed, succeeded>>

\* Wrong variant of JoinOrLaunch: it insists on a run after the attempt is over.
JoinOrLaunchStubborn(a) ==
    /\ server # "down"
    /\ attempt.wait = 0
    /\ a \in attempt.left
    /\ \/ Joinable(a) /\ UNCHANGED <<run, current, row>>
       \/ ~attempt.over /\ Launch(a, "incremental", "attempt")
    /\ attempt' = [attempt EXCEPT !.left = @ \ {a}, !.wait = current'[a]]
    /\ UNCHANGED <<server, boot, owed, canceled, item, left, today, lastRun,
                   saved, listed, succeeded>>

\* SyncAccount of the next account: launchSync joins before it looks at the
\* context, and starts nothing in a context that is over.  StartSync may fail:
\* here it does when MaxRuns rows exist.
JoinOrLaunch(a) ==
    /\ server # "down"
    /\ attempt.wait = 0
    /\ a \in attempt.left
    /\ \/ /\ Joinable(a)
          /\ attempt' = [attempt EXCEPT !.left = @ \ {a}, !.wait = current[a]]
          /\ UNCHANGED <<run, current, row>>
       \/ /\ ~attempt.over
          /\ Launch(a, "incremental", "attempt")
          /\ attempt' = [attempt EXCEPT !.left = @ \ {a}, !.wait = current'[a]]
       \/ /\ ~Joinable(a)
          /\ attempt.over \/ Launched = RunIds
          /\ attempt' = [attempt EXCEPT !.left = @ \ {a}, !.failed = TRUE]
          /\ UNCHANGED <<run, current, row>>
    /\ UNCHANGED <<server, boot, owed, canceled, item, left, today, lastRun,
                   saved, listed, succeeded>>

\* The select of SyncAccount: the run is done, or the attempt is over.
Answered ==
    /\ attempt.wait # 0
    /\ \/ /\ run[attempt.wait].prog \in Reports
          /\ attempt' = [attempt EXCEPT
                            !.wait = 0,
                            !.failed = @ \/ run[attempt.wait].prog # "success"]
       \/ /\ attempt.over
          /\ attempt' = [attempt EXCEPT !.wait = 0, !.failed = TRUE]
    /\ UNCHANGED <<vars, today, lastRun, saved, listed, succeeded>>

\* Wrong variant of AttemptReturns: the day is read after the attempt.
AttemptReturnsLate ==
    /\ attempt.day # 0
    /\ attempt.left = {} /\ attempt.wait = 0
    /\ attempt' = NoAttempt
    /\ canceled' = canceled \cup {r \in Live : run[r].owner = "attempt"}
    /\ lastRun' = IF attempt.failed THEN lastRun ELSE today
    /\ saved' = IF attempt.failed THEN saved ELSE today
    /\ UNCHANGED <<server, boot, owed, run, current, row, item, left, today,
                   listed, succeeded>>

\* SyncAll returns; the deferred cancel ends what is left of the attempt.
\* saveLastRun only logs an error.
AttemptReturns ==
    /\ attempt.day # 0
    /\ attempt.left = {} /\ attempt.wait = 0
    /\ attempt' = NoAttempt
    /\ canceled' = canceled \cup {r \in Live : run[r].owner = "attempt"}
    /\ \/ /\ attempt.failed
          /\ UNCHANGED <<lastRun, saved, left>>
       \/ /\ ~attempt.failed
          /\ lastRun' = attempt.day
          /\ \/ saved' = attempt.day /\ UNCHANGED left
             \/ Spend("lostWrite") /\ UNCHANGED saved
    /\ UNCHANGED <<server, boot, owed, run, current, row, item, today,
                   listed, succeeded>>

AttemptTimeout ==
    /\ attempt.day # 0
    /\ ~attempt.over
    /\ Spend("timeout")
    /\ attempt' = [attempt EXCEPT !.over = TRUE]
    /\ canceled' = canceled \cup {r \in Live : run[r].owner = "attempt"}
    /\ UNCHANGED <<server, boot, owed, run, current, row, item, today,
                   lastRun, saved, listed, succeeded>>

NextDay ==
    /\ Spend("day")
    /\ today' = today + 1
    /\ UNCHANGED <<server, boot, owed, run, current, canceled, row, item,
                   lastRun, saved, attempt, listed, succeeded>>

-----------------------------------------------------------------------------
(* The steps of SyncRuns, with what they mean for the scheduler.           *)

DailyRunStep(r) ==
    /\ RunStep(r)
    /\ listed' =
         IF /\ run[r].phase = "listing" /\ run'[r].phase = "auth"
            /\ run[r].mode = "incremental" /\ ~run'[r].bad
         THEN [listed EXCEPT ![run[r].acct] = today] ELSE listed
    /\ succeeded' =
         IF run[r].phase = "report" /\ run'[r].prog = "success"
         THEN [succeeded EXCEPT ![run[r].acct] = today] ELSE succeeded
    /\ UNCHANGED schedVars

Others ==
    /\ \/ \E a \in Accounts, m \in Modes : StartAccountSync(a, m)
       \/ \E r \in RunIds : Expire(r)
       \/ Boot
    /\ UNCHANGED <<schedVars, listed, succeeded>>

DailyShutdown ==
    /\ Shutdown
    /\ attempt' = IF attempt.day = 0 THEN attempt
                  ELSE [attempt EXCEPT !.over = TRUE]
    /\ UNCHANGED <<today, lastRun, saved, listed, succeeded>>

DailyEnd ==
    /\ Crash \/ EndProcess
    /\ attempt' = NoAttempt
    /\ lastRun' = 0
    /\ UNCHANGED <<today, saved, listed, succeeded>>

\* scheduler begins with loadLastRun.
DailyRestart ==
    /\ Restart
    /\ lastRun' = saved
    /\ UNCHANGED <<today, saved, attempt, listed, succeeded>>

Scheduler ==
    \/ (\E a \in Accounts : JoinOrLaunch(a))
    \/ Answered \/ AttemptReturns

DailyNext ==
    \/ Tick \/ Scheduler \/ AttemptTimeout \/ NextDay
    \/ (\E r \in RunIds : DailyRunStep(r))
    \/ Others \/ DailyShutdown \/ DailyEnd \/ DailyRestart

DailySpec == DailyInit /\ [][DailyNext]_dailyVars

DailyFairness ==
    /\ \A r \in RunIds : WF_dailyVars(DailyRunStep(r))
    /\ WF_dailyVars(Scheduler)

FairDailySpec == DailySpec /\ DailyFairness

-----------------------------------------------------------------------------
(* Properties.                                                             *)

\* A marked day is a day on which every account had a run that succeeded,
\* whatever timed out, was joined, stopped or restarted (RELIABILITY.md: the
\* scheduled synchronisation stores its mark only after success).
MarkedMeansSucceeded ==
    \A d \in {lastRun, saved} : \A a \in Accounts : succeeded[a] >= d

\* A marked day is a day on which every account's favourites were read in
\* full (comment of scheduler: a full synchronisation every day).
MarkedMeansListed == \A a \in Accounts : listed[a] >= lastRun

\* Every run ends, and an attempt as well, even one that waits for a run
\* somebody else started: the scheduler is one goroutine and would never try
\* again.
AttemptsReturn == RunsEnd /\ (attempt.day # 0 ~> attempt.day = 0)
=============================================================================
