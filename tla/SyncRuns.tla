------------------------------ MODULE SyncRuns ------------------------------
(***************************************************************************)
(* Favourite synchronisation, internal/engine/sync.go and syncAccount of   *)
(* engine.go: at most one run per account (launchSync coalesces), two runs *)
(* upstream at a time (syncSlots), a durable checkpoint of every comic of  *)
(* the list (sync_items) and a durable history of the runs (sync_runs).    *)
(*                                                                         *)
(* A run is a goroutine.  It is split at every read of its context, every  *)
(* write to the database and every section under syncMu; the process may   *)
(* stop or crash between any two of these.                                 *)
(***************************************************************************)
EXTENDS Integers, FiniteSets

CONSTANTS
    Accounts,
    Comics,
    Copies,    \* bound: how often a list may name one comic
    NoEntry,   \* a run that is not on an entry of its list
    MaxRuns,   \* bound: runs ever launched
    Slots,     \* capacity of syncSlots, 2 in the program
    Limits     \* bounds, one of them for each behaviour

RunIds == 1..MaxRuns

\* An entry of a list of favourites: a comic, and the how manieth time the list
\* names it.  Pica.Favorites appends page after page and drops no repetition.
Entries == Comics \X (1..Copies)
Comic(e) == e[1]
Lists == {L \in SUBSET Entries :
            \A e \in L : e[2] > 1 => <<Comic(e), e[2] - 1>> \in L}
Named(L) == {Comic(e) : e \in L}

\* What is bounded: how often things happen, the length of a list of
\* favourites, and for the scheduler of DailySync its attempts and new days.
Events == {"manual", "error", "timeout", "crash", "shutdown", "lostWrite",
           "list", "attempt", "day"}

\* "full" differs from "incremental" only in what syncComic may skip.
Modes == {"incremental", "resume", "retry"}

ASSUME MaxRunsAssumption == MaxRuns \in Nat
ASSUME SlotsAssumption == Slots \in Nat \ {0}
ASSUME LimitsAssumption == Limits \subseteq [Events -> Nat]
ASSUME CopiesAssumption == Copies \in Nat \ {0}
ASSUME NoEntryAssumption == NoEntry \notin Entries

\* The bounds agree on lost writes: what is left of one tells of every loss.
ASSUME LostWritesAssumption ==
    \A k, l \in Limits : k["lostWrite"] = l["lostWrite"]

VARIABLES
    server,    \* "up", "stopping" (lifeCtx canceled), "down"
    boot,      \* the resume goroutine of Start: "query", "resume", "over"
    owed,      \* accounts it has still to resume
    run,       \* run id -> the goroutine and its syncJob
    current,   \* Engine.syncJobs: account -> run id, 0 if absent
    canceled,  \* runs whose context is canceled
    row,       \* sync_runs.status
    item,      \* sync_items.status per account and comic
    left       \* what is left of the bounds

vars == <<server, boot, owed, run, current, canceled, row, item, left>>

\* A run holds a slot from the moment it enters syncAccount until it leaves.
Inside == {"listing", "auth", "checking", "marking"}
Alive == {"queued", "finish", "report"} \cup Inside
Reports == {"success", "partial", "failed"}
Unfinished == {"pending", "failed"}
Settled == {"done", "failed"}

\* The field met is a history: the comics that the run has settled so far.
NoRun == [acct |-> 0, mode |-> "none", owner |-> "none", phase |-> "none",
          prog |-> "none", todo |-> {}, at |-> NoEntry, result |-> "none",
          bad |-> FALSE, worked |-> FALSE, met |-> {}]

Live == {r \in RunIds : run[r].phase \in Alive}
Entered == {r \in RunIds : run[r].phase \in Inside}
Launched == {r \in RunIds : run[r].phase # "none"}

\* Wrong variant of Joinable: a run that waits for a slot is overlooked.
JoinableRunning(a) == current[a] # 0 /\ run[current[a]].prog = "running"

\* launchSync joins the account's run while its progress says it is active.
Joinable(a) == current[a] # 0 /\ run[current[a]].prog \in {"queued", "running"}

Spend(e) == left[e] > 0 /\ left' = [left EXCEPT ![e] = @ - 1]

Init ==
    /\ server = "up"
    /\ boot = "query"
    /\ owed = {}
    /\ run = [r \in RunIds |-> NoRun]
    /\ current = [a \in Accounts |-> 0]
    /\ canceled = {}
    /\ row = [r \in RunIds |-> "none"]
    /\ item = [a \in Accounts |-> [c \in Comics |-> "none"]]
    /\ left \in Limits

-----------------------------------------------------------------------------
(* launchSync, under syncMu.                                               *)

\* A new run: its row first, then the syncJob, then the goroutine.
Launch(a, m, owner) ==
    /\ ~Joinable(a)
    /\ server = "up"
    /\ \E r \in RunIds :
        /\ Launched = 1..(r - 1)
        /\ run' = [run EXCEPT ![r] =
                    [NoRun EXCEPT !.acct = a, !.mode = m, !.owner = owner,
                                  !.phase = "queued", !.prog = "queued"]]
        /\ current' = [current EXCEPT ![a] = r]
        /\ row' = [row EXCEPT ![r] = "running"]

\* A request of a user; one that joins a run changes nothing.
StartAccountSync(a, m) ==
    /\ Launch(a, m, "life")
    /\ Spend("manual")
    /\ UNCHANGED <<server, boot, owed, canceled, item>>

\* The goroutine of Start: InterruptedSyncAccounts, then one resume each.
BootQuery ==
    /\ server # "down"
    /\ boot = "query"
    /\ boot' = "resume"
    /\ owed' = {a \in Accounts : \E c \in Comics : item[a][c] = "pending"}
    /\ UNCHANGED <<server, run, current, canceled, row, item, left>>

BootResume(a) ==
    /\ boot = "resume"
    /\ a \in owed
    /\ \/ Launch(a, "resume", "life")
       \/ Joinable(a) /\ UNCHANGED <<run, current, row>>
    /\ owed' = owed \ {a}
    /\ UNCHANGED <<server, boot, canceled, item, left>>

BootOver ==
    /\ boot = "resume"
    /\ owed = {} \/ server = "stopping"
    /\ boot' = "over"
    /\ owed' = {}
    /\ UNCHANGED <<server, run, current, canceled, row, item, left>>

-----------------------------------------------------------------------------
(* The goroutine of a run.                                                 *)

Set(r, f) == run' = [run EXCEPT ![r] = f]

\* syncAccount returns, with an error if bad; its locals are gone.
Leave(r, bad) ==
    Set(r, [run[r] EXCEPT !.phase = "finish", !.bad = @ \/ bad, !.todo = {},
                          !.at = NoEntry, !.result = "none"])
Quit(r) == Leave(r, TRUE)

\* An upstream or database call fails: its context is canceled, or an error.
CallFails(r) ==
    \/ r \in canceled /\ UNCHANGED left
    \/ Spend("error")

\* The select of the goroutine; updateSync marks the progress as running.
EnterSlot(r) ==
    /\ run[r].phase = "queued"
    /\ Cardinality(Entered) < Slots
    /\ Set(r, [run[r] EXCEPT !.phase = "listing", !.prog = "running"])
    /\ UNCHANGED <<server, boot, owed, current, canceled, row, item, left>>

GiveUp(r) ==
    /\ run[r].phase = "queued"
    /\ r \in canceled
    /\ Quit(r)
    /\ UNCHANGED <<server, boot, owed, current, canceled, row, item, left>>

\* Errors before there is a list: account, source, favourites, context.
ListFails(r) ==
    /\ run[r].phase = "listing"
    /\ Quit(r)
    /\ CallFails(r)
    /\ UNCHANGED <<server, boot, owed, current, canceled, row, item>>

\* What run x has to settle: retry takes only the comics that failed.
Duty(x) == IF x.mode = "retry" THEN {"failed"} ELSE Unfinished

\* resume and retry take what the checkpoint has for them, one row a comic.  An
\* empty list is an error of the run.
ListCheckpoint(r) ==
    LET a == run[r].acct
        found == {c \in Comics : item[a][c] \in Duty(run[r])}
    IN /\ run[r].phase = "listing"
       /\ run[r].mode \in {"resume", "retry"}
       /\ IF found = {} THEN Quit(r)
          ELSE Set(r, [run[r] EXCEPT !.phase = "auth", !.todo = found \X {1}])
       /\ UNCHANGED <<server, boot, owed, current, canceled, row, item,
                      left>>

\* Wrong variant of ListFavorites: rows of the old list are not deleted.
ListFavoritesKept(r) ==
    /\ run[r].phase = "listing"
    /\ run[r].mode = "incremental"
    /\ \E L \in Lists :
        /\ Cardinality(L) <= left["list"]
        /\ item' = [item EXCEPT ![run[r].acct] =
                        [c \in Comics |->
                            IF c \in Named(L) THEN "pending" ELSE @[c]]]
        /\ Set(r, [run[r] EXCEPT !.phase = "auth", !.todo = L])
    /\ UNCHANGED <<server, boot, owed, current, canceled, row, left>>

\* RefreshFavorites returns the list L, with an error if it is not complete;
\* PrepareSyncItems then replaces the checkpoint of the account, one row for a
\* comic however often the list names it, while the run keeps the list.
ListFavorites(r) ==
    /\ run[r].phase = "listing"
    /\ run[r].mode = "incremental"
    /\ \E L \in Lists, partial \in BOOLEAN :
        /\ Cardinality(L) <= left["list"]
        /\ partial => L # {} /\ Spend("error")
        /\ ~partial => UNCHANGED left
        /\ item' = [item EXCEPT ![run[r].acct] =
                        [c \in Comics |->
                            IF c \in Named(L) THEN "pending" ELSE "none"]]
        /\ Set(r, [run[r] EXCEPT !.phase = "auth", !.todo = L,
                                 !.bad = partial])
    /\ UNCHANGED <<server, boot, owed, current, canceled, row>>

\* EnsureCred, once the list is stored.
Authorise(r) ==
    /\ run[r].phase = "auth"
    /\ \/ Set(r, [run[r] EXCEPT !.phase = "checking"]) /\ UNCHANGED left
       \/ Quit(r) /\ CallFails(r)
    /\ UNCHANGED <<server, boot, owed, current, canceled, row, item>>

\* ctx.Err() at the head of the loop, or after syncComic, whose work may be
\* done already: the comic stays unfinished for the next resume.
Interrupted(r) ==
    /\ r \in canceled
    /\ \/ run[r].phase = "checking" /\ run[r].todo # {}
       \/ run[r].phase = "marking"
    /\ Quit(r)
    /\ UNCHANGED <<server, boot, owed, current, canceled, row, item, left>>

\* syncComic on the comic of one entry: it is skipped (downloading, in the
\* recycle bin, complete) or enqueued, or a call fails.
SyncComic(r, e) ==
    /\ run[r].phase = "checking"
    /\ e \in run[r].todo
    /\ \A f \in run[r].todo : Comic(f) = Comic(e) => e[2] <= f[2]
    /\ r \notin canceled
    /\ \E res \in {"handled", "error"} :
        /\ res = "error" => Spend("error")
        /\ res = "handled" => UNCHANGED left
        /\ Set(r, [run[r] EXCEPT !.phase = "marking", !.at = e, !.result = res])
    /\ UNCHANGED <<server, boot, owed, current, canceled, row, item>>

\* Wrong variant of MarkItem: a comic that failed is no error of the run.
MarkItemQuiet(r) ==
    /\ run[r].phase = "marking"
    /\ r \notin canceled
    /\ Set(r, [run[r] EXCEPT !.phase = "checking", !.todo = @ \ {run[r].at},
                             !.at = NoEntry, !.result = "none",
                             !.met = @ \cup {Comic(run[r].at)}])
    /\ item' = [item EXCEPT ![run[r].acct][Comic(run[r].at)] =
                    IF run[r].result = "error" THEN "failed" ELSE "done"]
    /\ UNCHANGED <<server, boot, owed, current, canceled, row, left>>

\* FinishSyncItem, an update whatever the row says: a comic that the list names
\* again is settled again.  If the write fails the run ends there.
MarkItem(r) ==
    LET worked == run[r].worked \/ run[r].result # "error"
        bad == run[r].bad \/ run[r].result = "error"
    IN /\ run[r].phase = "marking"
       /\ r \notin canceled
       /\ \/ /\ Set(r, [run[r] EXCEPT !.phase = "checking", !.bad = bad,
                              !.todo = @ \ {run[r].at}, !.worked = worked,
                              !.at = NoEntry, !.result = "none",
                              !.met = @ \cup {Comic(run[r].at)}])
             /\ item' = [item EXCEPT ![run[r].acct][Comic(run[r].at)] =
                            IF run[r].result = "error" THEN "failed" ELSE "done"]
             /\ UNCHANGED left
          \/ /\ Set(r, [run[r] EXCEPT !.phase = "finish", !.bad = TRUE,
                              !.todo = {}, !.worked = worked, !.at = NoEntry,
                              !.result = "none"])
             /\ Spend("lostWrite")
             /\ UNCHANGED item
       /\ UNCHANGED <<server, boot, owed, current, canceled, row>>

\* The list is through; TouchSync may still fail.
ListDone(r) ==
    /\ run[r].phase = "checking"
    /\ run[r].todo = {}
    /\ \/ Leave(r, FALSE) /\ UNCHANGED left
       \/ Quit(r) /\ Spend("lostWrite")
    /\ UNCHANGED <<server, boot, owed, current, canceled, row, item>>

\* Wrong variant of Verdict: not one of the words of the history.
VerdictRaw(x) == IF ~x.bad THEN "success" ELSE "error"

Verdict(x) == IF ~x.bad THEN "success" ELSE IF x.worked THEN "partial" ELSE "failed"

\* FinishSync, outside syncMu.
SaveRun(r) ==
    /\ run[r].phase = "finish"
    /\ \/ /\ row' = [row EXCEPT ![r] = Verdict(run[r])]
          /\ Set(r, [run[r] EXCEPT !.phase = "report"])
          /\ UNCHANGED left
       \/ /\ Spend("lostWrite")
          /\ Set(r, [run[r] EXCEPT !.phase = "report", !.bad = TRUE])
          /\ UNCHANGED row
    /\ UNCHANGED <<server, boot, owed, current, canceled, item>>

\* The last section under syncMu: the progress is final, done is closed.
Report(r) ==
    /\ run[r].phase = "report"
    /\ Set(r, [run[r] EXCEPT !.phase = "end", !.prog = Verdict(run[r]),
                             !.met = {}])
    /\ canceled' = canceled \ {r}
    /\ UNCHANGED <<server, boot, owed, current, row, item, left>>

-----------------------------------------------------------------------------
(* Timeouts and the process.                                               *)

\* The 30 minutes of a run are over.
Expire(r) ==
    /\ r \in Live \ canceled
    /\ Spend("timeout")
    /\ canceled' = canceled \cup {r}
    /\ UNCHANGED <<server, boot, owed, run, current, row, item>>

Shutdown ==
    /\ server = "up"
    /\ Spend("shutdown")
    /\ server' = "stopping"
    /\ canceled' = canceled \cup Live
    /\ UNCHANGED <<boot, owed, run, current, row, item>>

\* main waits ten seconds for the runs, no longer.
Halt ==
    /\ server' = "down"
    /\ run' = [r \in RunIds |->
                 IF r \in Live
                 THEN [NoRun EXCEPT !.acct = run[r].acct, !.phase = "end"]
                 ELSE run[r]]
    /\ current' = [a \in Accounts |-> 0]
    /\ canceled' = {}
    /\ owed' = {}
    /\ UNCHANGED <<boot, row, item>>

Crash == server # "down" /\ Spend("crash") /\ Halt
EndProcess == server = "stopping" /\ Halt /\ UNCHANGED left

\* migrateFeatures closes the rows of interrupted runs; Start begins again.
Restart ==
    /\ server = "down"
    /\ server' = "up"
    /\ boot' = "query"
    /\ row' = [r \in RunIds |-> IF row[r] = "running" THEN "failed" ELSE row[r]]
    /\ UNCHANGED <<owed, run, current, canceled, item, left>>

-----------------------------------------------------------------------------

RunStep(r) ==
    \/ EnterSlot(r) \/ GiveUp(r)
    \/ ListFails(r) \/ ListCheckpoint(r) \/ ListFavorites(r)
    \/ Authorise(r) \/ Interrupted(r)
    \/ \E e \in Entries : SyncComic(r, e)
    \/ MarkItem(r) \/ ListDone(r) \/ SaveRun(r) \/ Report(r)

Boot == BootQuery \/ (\E a \in Accounts : BootResume(a)) \/ BootOver

Environment ==
    \/ \E a \in Accounts, m \in Modes : StartAccountSync(a, m)
    \/ \E r \in RunIds : Expire(r)
    \/ Shutdown \/ Crash

Next ==
    \/ Environment \/ Boot \/ EndProcess \/ Restart
    \/ \E r \in RunIds : RunStep(r)

Spec == Init /\ [][Next]_vars

\* Every upstream request has a timeout and every goroutine is scheduled; the
\* channel serves waiting senders in order, and with finitely many runs weak
\* fairness of EnterSlot says no more than that.
Fairness ==
    /\ \A r \in RunIds : WF_vars(RunStep(r))
    /\ WF_vars(Boot) /\ WF_vars(Restart)

FairSpec == Spec /\ Fairness

-----------------------------------------------------------------------------
(* Properties.                                                             *)

RunType ==
    [acct : Accounts \cup {0}, mode : Modes \cup {"none"},
     owner : {"none", "life", "attempt"}, phase : {"none", "end"} \cup Alive,
     prog : {"none", "queued", "running"} \cup Reports, todo : SUBSET Entries,
     at : Entries \cup {NoEntry}, result : {"none", "handled", "error"},
     bad : BOOLEAN, worked : BOOLEAN, met : SUBSET Comics]

TypeOK ==
    /\ server \in {"up", "stopping", "down"}
    /\ boot \in {"query", "resume", "over"}
    /\ owed \subseteq Accounts
    /\ run \in [RunIds -> RunType]
    /\ current \in [Accounts -> 0..MaxRuns]
    /\ canceled \subseteq RunIds
    /\ row \in [RunIds -> {"none", "running"} \cup Reports]
    /\ item \in [Accounts -> [Comics -> {"none", "done"} \cup Unfinished]]
    /\ left \in [Events -> Nat]

\* A goroutine that still runs is the one syncJobs names for its account: two
\* of them never synchronise one account, whoever asked and however a launch
\* meets an end (launchSync decides and registers under one lock).  And a run
\* that works on a list is alone with its account's checkpoint: what it has
\* settled stays settled, and a comic it has still to do is an unfinished row of
\* the table, in a retry one that failed, unless the list names it again and the
\* run has settled it before; so an interruption at any moment loses none.
CheckpointOwned ==
    /\ \A r \in Live : current[run[r].acct] = r
    /\ \A r \in RunIds : run[r].phase \in {"auth", "checking", "marking"} =>
          LET rows == item[run[r].acct] IN
          /\ \A c \in Named(run[r].todo) \ run[r].met : rows[c] \in Duty(run[r])
          /\ \A c \in run[r].met : rows[c] \in Settled

\* All bounds on lost writes are still whole.
NoWriteLost == \E l \in Limits : left["lostWrite"] = l["lostWrite"]

\* The history tells the truth: a run reported as successful leaves no comic
\* unfinished in the checkpoint of its account, and a retry, which takes only
\* the comics that failed, none that failed; and while no write is lost, a row
\* that says "running" has its goroutine, and the progress a client polls never
\* differs from the row once it is final.
HistoryTruthful ==
    /\ \A a \in Accounts : LET r == current[a] IN
          (r # 0 /\ run[r].prog = "success") =>
              \A c \in Comics : item[a][c] \notin Duty(run[r])
    /\ NoWriteLost =>
          /\ server # "down" =>
               \A r \in RunIds : row[r] = "running" => r \in Live
          /\ \A r \in RunIds : run[r].prog \in Reports => run[r].prog = row[r]

\* Who has the checkpoint of an account: the run that launchSync has registered
\* for it, as long as its goroutine has not ended.
HasHolder(a) == current[a] # 0 /\ run[current[a]].phase \in Alive
Holders == [a \in Accounts |-> IF HasHolder(a) THEN current[a] ELSE 0]
Duties == [a \in Accounts |-> IF HasHolder(a) THEN Duty(run[current[a]]) ELSE {}]
Mets == [a \in Accounts |-> IF HasHolder(a) THEN run[current[a]].met ELSE {}]

\* The two tables change only as SyncLedger allows, whatever is joined, canceled,
\* lost, interrupted or listed twice: a live run has the checkpoint of its
\* account to itself, brings its list before it settles anything, settles only
\* what it took on, once more only what it has settled itself, and its row is a
\* success only if nothing of that is left.
Ledger == INSTANCE SyncLedger WITH holder <- Holders, duty <- Duties,
                                   settled <- Mets
ImplementsLedger == Ledger!Spec

\* Every launched run ends, even when others hold the slots.
RunsEnd == \A r \in RunIds :
    run[r].phase = "queued" ~> run[r].phase = "end"
=============================================================================
