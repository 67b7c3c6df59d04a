----------------------------- MODULE SyncLedger -----------------------------
(***************************************************************************)
(* What the two tables of the synchronisation promise, with no goroutine,  *)
(* slot, context or map around: who may write the checkpoint of an account *)
(* (sync_items), what a write may do to it, and what a row of the history  *)
(* (sync_runs) says about it.  SyncRuns implements this specification.     *)
(***************************************************************************)
EXTENDS Integers

CONSTANTS Accounts, Comics, MaxRuns

VARIABLES
    item,    \* account -> comic -> "none", "pending", "failed" or "done"
    row,     \* run -> "none", "running", "success", "partial" or "failed"
    holder,  \* account -> the run that has its checkpoint, 0 if nobody has
    duty,    \* account -> the sorts of items that its holder has to settle
    settled  \* account -> the comics that its holder has settled so far

ledgerVars == <<item, row, holder, duty, settled>>

Runs == 1..MaxRuns
Open == {"pending", "failed"}
Verdicts == {"success", "partial", "failed"}

Init ==
    /\ item = [a \in Accounts |-> [c \in Comics |-> "none"]]
    /\ row = [r \in Runs |-> "none"]
    /\ holder = [a \in Accounts |-> 0]
    /\ duty = [a \in Accounts |-> {}]
    /\ settled = [a \in Accounts |-> {}]

\* A run takes the checkpoint of an account that nobody has, and says so.
Take(a) ==
    /\ holder[a] = 0
    /\ \E r \in Runs, sorts \in {{"failed"}, Open} :
        /\ row[r] = "none"
        /\ row' = [row EXCEPT ![r] = "running"]
        /\ holder' = [holder EXCEPT ![a] = r]
        /\ duty' = [duty EXCEPT ![a] = sorts]
    /\ UNCHANGED <<item, settled>>

\* The holder has not said yet how it went.
Writing(a) == holder[a] # 0 /\ row[holder[a]] = "running"

\* A new list takes the place of the old one at once, before its holder settles
\* anything; who has only the failed items to settle brings no list.
Relist(a) ==
    /\ Writing(a)
    /\ duty[a] = Open
    /\ settled[a] = {}
    /\ \E S \in SUBSET Comics :
        item' = [item EXCEPT ![a] =
                    [c \in Comics |-> IF c \in S THEN "pending" ELSE "none"]]
    /\ UNCHANGED <<row, holder, duty, settled>>

\* One item is settled, by the holder, and only one that it has to settle; what
\* it has settled itself it may settle again, since a list may repeat itself.
Settle(a) ==
    /\ Writing(a)
    /\ \E c \in Comics, s \in {"done", "failed"} :
        /\ item[a][c] \in duty[a] \/ c \in settled[a]
        /\ item' = [item EXCEPT ![a][c] = s]
        /\ settled' = [settled EXCEPT ![a] = @ \cup {c}]
    /\ UNCHANGED <<row, holder, duty>>

\* The holder says how it went; "success" means that nothing is left to do.
Conclude(a) ==
    /\ Writing(a)
    /\ \E v \in Verdicts :
        /\ v = "success" => \A c \in Comics : item[a][c] \notin duty[a]
        /\ row' = [row EXCEPT ![holder[a]] = v]
    /\ UNCHANGED <<item, holder, duty, settled>>

\* The holder leaves; whether it could say how it went or not.
Release(a) ==
    /\ holder[a] # 0
    /\ holder' = [holder EXCEPT ![a] = 0]
    /\ duty' = [duty EXCEPT ![a] = {}]
    /\ settled' = [settled EXCEPT ![a] = {}]
    /\ UNCHANGED <<item, row>>

\* The process is gone.
Vanish ==
    /\ \E a \in Accounts : holder[a] # 0
    /\ holder' = [a \in Accounts |-> 0]
    /\ duty' = [a \in Accounts |-> {}]
    /\ settled' = [a \in Accounts |-> {}]
    /\ UNCHANGED <<item, row>>

\* A new process closes the rows of which nobody will say how they went.
Recover ==
    /\ \A a \in Accounts : holder[a] = 0
    /\ row' = [r \in Runs |-> IF row[r] = "running" THEN "failed" ELSE row[r]]
    /\ UNCHANGED <<item, holder, duty, settled>>

Next ==
    \/ \E a \in Accounts :
        Take(a) \/ Relist(a) \/ Settle(a) \/ Conclude(a) \/ Release(a)
    \/ Vanish \/ Recover

Spec == Init /\ [][Next]_ledgerVars
=============================================================================
