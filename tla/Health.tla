------------------------------- MODULE Health -------------------------------
(***************************************************************************)
(* The health check of the library and the repair of what it finds:        *)
(* internal/engine/health.go.  One goroutine examines comic after comic    *)
(* while downloads of other comics go on and while files change in a way   *)
(* nobody is told of; a client may stop it, and later asks to repair what  *)
(* the report, which may be old by then, says of a comic.                  *)
(***************************************************************************)
EXTENDS Integers, Sequences, FiniteSets

CONSTANTS Books,        \* comics of the library
          Chapters,     \* chapters of each comic, examined in this order
          HealthLimits  \* bounds: runs, changes of files and repairs

HealthEvents == {"run", "change", "repair"}

ASSUME HealthAssumption ==
    /\ Chapters \in Nat \ {0}
    /\ HealthLimits \in [HealthEvents -> Nat]

VARIABLES
    file,      \* per comic its files: their version (what localFingerprint
               \* sees), and the chapters with damage in each version
    job,       \* per comic its download: the chapters of it, or none
    report,    \* Engine.health.run, with the results
    stop,      \* the context of the run is over
    check,     \* the goroutine of the run
    repair,    \* RepairHealth, which holds opMu and the lock of the report
    healthUsed \* events spent, against HealthLimits

healthVars == <<file, job, report, stop, check, repair, healthUsed>>

ChapterSets == SUBSET (1..Chapters)
NoJob == [at |-> "none", chapters |-> {}]
NoCheck == [at |-> "idle", left |-> {}, comic |-> {}, from |-> 0, next |-> 1,
            found |-> {}, result |-> "none"]
NoRepair == [entry |-> 0, seen |-> 0]

Version(b) == Len(file[b])
Damage(b) == file[b][Version(b)]
Held == repair # NoRepair

\* Engine.checking
Checking(b) ==
    /\ check.comic = {b}
    /\ check.at \in {"print", "look", "release"}

HealthSpend(e) ==
    /\ healthUsed[e] < HealthLimits[e]
    /\ healthUsed' = [healthUsed EXCEPT ![e] = @ + 1]

HealthInit ==
    /\ file = [b \in Books |-> <<{1}>>]     \* damage from earlier
    /\ job = [b \in Books |-> NoJob]
    /\ report = [id |-> 0, status |-> "none", results |-> <<>>]
    /\ stop = FALSE
    /\ check = NoCheck
    /\ repair = NoRepair
    /\ healthUsed = [e \in HealthEvents |-> 0]

(***************************************************************************)
(* What goes on besides: downloads, and changes nobody announces.          *)
(***************************************************************************)
Changed(b, damage) == file' = [file EXCEPT ![b] = Append(@, damage)]

\* Somebody copies files, or the disk loses some.
FilesChange(b, damage) ==
    /\ HealthSpend("change")
    /\ Changed(b, damage)
    /\ UNCHANGED <<job, report, stop, check, repair>>

\* A download is asked for; not of a comic that is being examined.
Download(b) ==
    /\ ~Held /\ ~Checking(b)
    /\ job[b] = NoJob
    /\ job' = [job EXCEPT ![b] = [at |-> "queued", chapters |-> 1..Chapters]]
    /\ UNCHANGED <<file, report, stop, check, repair, healthUsed>>

\* It replaces what is damaged in its chapters, or ends with nothing done.
DownloadEnds(b) ==
    /\ job[b] # NoJob
    /\ job' = [job EXCEPT ![b] = NoJob]
    /\ \/ UNCHANGED <<file, healthUsed>>
       \/ HealthSpend("change") /\ Changed(b, Damage(b) \ job[b].chapters)
    /\ UNCHANGED <<report, stop, check, repair>>

(***************************************************************************)
(* StartHealth, CancelHealth and the goroutine.                            *)
(***************************************************************************)
\* One comic or all; refused while a run has not ended, also a canceled one.
StartHealth(books) ==
    /\ ~Held
    /\ report.status # "running"
    /\ HealthSpend("run")
    /\ report' = [id |-> report.id + 1, status |-> "running", results |-> <<>>]
    /\ check' = [NoCheck EXCEPT !.at = "next", !.left = books]
    /\ stop' = FALSE
    /\ UNCHANGED <<file, job, repair>>

\* CancelHealth of this run, the thirty minutes, or a shutdown.
StopHealth ==
    /\ ~Held
    /\ report.status = "running"
    /\ stop' = TRUE
    /\ UNCHANGED <<file, job, report, check, repair, healthUsed>>

\* checkComic: a comic with an active job is skipped, another one reserved.
Reserve(b) ==
    /\ ~Held
    /\ check.at = "next" /\ ~stop
    /\ b \in check.left
    /\ check' = IF job[b] # NoJob
                THEN [check EXCEPT !.at = "append", !.left = @ \ {b},
                                   !.comic = {b}, !.result = "skipped"]
                ELSE [check EXCEPT !.at = "print", !.left = @ \ {b},
                                   !.comic = {b}]
    /\ UNCHANGED <<file, job, report, stop, repair, healthUsed>>

\* The comic that is being examined.
Book == CHOOSE b \in Books : check.comic = {b}

\* The first fingerprint; a directory that cannot be read is an error.
Fingerprint ==
    /\ check.at = "print"
    /\ \/ check' = [check EXCEPT !.at = "look", !.from = Version(Book)]
       \/ check' = [check EXCEPT !.at = "release", !.result = "error"]
    /\ UNCHANGED <<file, job, report, stop, repair, healthUsed>>

\* One more chapter is examined.  Its damage is found as it is now.
Examine ==
    /\ check.at = "look"
    /\ check.next <= Chapters
    /\ check' = IF stop
                THEN [check EXCEPT !.at = "release", !.result = "canceled"]
                ELSE [check EXCEPT !.next = @ + 1,
                                   !.found = @ \cup (Damage(Book) \cap {check.next})]
    /\ UNCHANGED <<file, job, report, stop, repair, healthUsed>>

\* The second fingerprint: files that changed meanwhile make it stale.
Compare ==
    /\ check.at = "look"
    /\ check.next > Chapters
    /\ check' = [check EXCEPT
                   !.at = "release",
                   !.result = IF stop THEN "canceled"
                              ELSE IF Version(Book) # check.from THEN "stale"
                              ELSE IF check.found # {} THEN "issues"
                              ELSE "checked"]
    /\ UNCHANGED <<file, job, report, stop, repair, healthUsed>>

\* The deferred delete of the reservation.
Release ==
    /\ ~Held
    /\ check.at = "release"
    /\ check' = [check EXCEPT !.at = "append"]
    /\ UNCHANGED <<file, job, report, stop, repair, healthUsed>>

\* The result joins the report, and the next comic has its turn.
AppendResult ==
    /\ ~Held
    /\ check.at = "append"
    /\ report' = [report EXCEPT !.results = Append(@,
                    [comic |-> Book, status |-> check.result,
                     from |-> check.from, chapters |-> check.found,
                     jobs |-> 0])]
    /\ check' = [NoCheck EXCEPT !.at = "next", !.left = check.left]
    /\ UNCHANGED <<file, job, stop, repair, healthUsed>>

\* Wrong variant of HealthOver: a run that was stopped is left as it is.
HealthOverUnlessStopped ==
    /\ ~Held /\ ~stop
    /\ check.at = "next" /\ check.left = {}
    /\ report' = [report EXCEPT !.status = "done"]
    /\ check' = NoCheck
    /\ UNCHANGED <<file, job, stop, repair, healthUsed>>

\* The goroutine ends, and only then another run may start.
HealthOver ==
    /\ ~Held
    /\ check.at = "next"
    /\ stop \/ check.left = {}
    /\ report' = [report EXCEPT !.status = IF stop THEN "canceled" ELSE "done"]
    /\ check' = NoCheck
    /\ UNCHANGED <<file, job, stop, repair, healthUsed>>

CheckStep ==
    \/ \E b \in Books : Reserve(b)
    \/ Fingerprint \/ Examine \/ Compare \/ Release \/ AppendResult
    \/ HealthOver

(***************************************************************************)
(* RepairHealth.                                                           *)
(***************************************************************************)
Entry == report.results[repair.entry]

\* Wrong variant of RepairBegins: the files are not compared.
RepairBeginsUnseen(i) ==
    LET r == report.results[i]
    IN  /\ ~Held
        /\ report.status # "running"
        /\ HealthSpend("repair")
        /\ r.jobs = 0
        /\ r.status = "issues" /\ r.chapters # {}
        /\ job[r.comic] = NoJob
        /\ repair' = [entry |-> i, seen |-> Version(r.comic)]
        /\ UNCHANGED <<file, job, report, stop, check>>

(* A repair that passes the checks; one that does not changes nothing.  It *)
(* names the run, and an entry that has a job already is answered with it. *)
RepairBegins(i) ==
    LET r == report.results[i]
    IN  /\ ~Held
        /\ report.status # "running"
        /\ HealthSpend("repair")
        /\ r.jobs = 0
        /\ r.status = "issues" /\ r.chapters # {}
        /\ job[r.comic] = NoJob
        /\ Version(r.comic) = r.from
        /\ repair' = [entry |-> i, seen |-> Version(r.comic)]
        /\ UNCHANGED <<file, job, report, stop, check>>

\* The damaged pages are marked, and a job for their chapters is created.
RepairQueues ==
    /\ Held
    /\ job' = [job EXCEPT ![Entry.comic] =
                  [at |-> "queued", chapters |-> Entry.chapters]]
    /\ report' = [report EXCEPT !.results[repair.entry].jobs = @ + 1]
    /\ repair' = NoRepair
    /\ UNCHANGED <<file, stop, check, healthUsed>>

\* There is no account, or a mark or the job cannot be written.
RepairFails ==
    /\ Held
    /\ repair' = NoRepair
    /\ UNCHANGED <<file, job, report, stop, check, healthUsed>>

HealthNext ==
    \/ \E b \in Books :
          \/ Download(b) \/ DownloadEnds(b)
          \/ \E damage \in ChapterSets : FilesChange(b, damage)
    \/ \E books \in {Books} \cup {{b} : b \in Books} : StartHealth(books)
    \/ StopHealth \/ CheckStep
    \/ \E i \in DOMAIN report.results : RepairBegins(i)
    \/ RepairQueues \/ RepairFails

HealthSpec == HealthInit /\ [][HealthNext]_healthVars

(* The goroutine of the run and a repair are scheduled; neither waits for  *)
(* anything but the locks.                                                 *)
HealthFairness ==
    /\ WF_healthVars(CheckStep)
    /\ WF_healthVars(RepairQueues \/ RepairFails)

(***************************************************************************)
(* Properties.                                                             *)
(***************************************************************************)
HealthTypeOK ==
    /\ \A b \in Books :
          /\ file[b] \in Seq(ChapterSets)
          /\ job[b] \in [at : {"none", "queued"}, chapters : ChapterSets]
    /\ report.status \in {"none", "running", "done", "canceled"}
    /\ check.at \in {"idle", "next", "print", "look", "release", "append"}
    /\ check.at = "idle" <=> report.status # "running"
    /\ repair.entry \in 0..Len(report.results)

(* What a report calls damaged was damaged all at once, in one version of  *)
(* the files, although they are read one by one while they may change; a   *)
(* repair that begins replaces exactly what is damaged at that moment,     *)
(* however old the report is; and an entry is repaired at most once.       *)
RepairJustified ==
    /\ \A i \in DOMAIN report.results :
          LET r == report.results[i]
          IN  /\ r.status = "issues" => r.chapters = file[r.comic][r.from]
              /\ r.jobs > 0 => r.status = "issues" /\ r.jobs = 1
    /\ Held => Entry.chapters = file[Entry.comic][repair.seen]

(* A run comes to its end, also when it is stopped at any moment: until    *)
(* then every further run is refused.                                      *)
HealthEnds == report.status = "running" ~> report.status # "running"
=============================================================================
