--------------------------- MODULE ChapterCommit ---------------------------
(***************************************************************************)
(* The directories of one chapter while it is downloaded, interrupted,     *)
(* damaged, repaired and downloaded again.  A "pica" download fills a      *)
(* staging directory and swaps it in; a "jm" download works in place.      *)
(* One action per operation on the file system, so that a crash may come   *)
(* between any two.  At most one download of a comic runs at a time        *)
(* (OneDownloadPerComic of JobQueue).                                      *)
(***************************************************************************)
EXTENDS Integers

CONSTANTS Manifests,   \* the lists of pages that upstream may answer with
          Length,      \* Length[m]: the number of pages of list m
          MaxPages,    \* bound on the length of a list
          Limits,      \* how often upstream changes, files rot, calls fail
          NoDir        \* no directory of that name

ASSUME ChapterAssumption ==
    /\ MaxPages \in Nat
    /\ Length \in [Manifests -> 1..MaxPages]
    /\ Limits \in [{"change", "rot", "fault", "crash"} -> Nat]
    /\ {"none", "broken", "damaged"} \cap Manifests = {}

VARIABLES
    kind,      \* the source, which decides how a chapter is stored
    dir,       \* the directories: dst, dst's .resume and .previous
    upstream,  \* the list of pages that upstream now has
    at,        \* the next step of Download for this chapter, or idle
    target,    \* the list that this download fetches
    page,      \* the page that seedChapterRepair looks at
    work,      \* what the image workers have done of each page
    rotten,    \* history: pages of dst whose bad bytes match their receipt
    repair,    \* history: pages marked by a repair that is not yet over
    used       \* how much of Limits is used up

life == <<upstream, rotten, repair, used>>
vars == <<kind, dir, at, target, page, work, life>>

Places == {"dst", "stage", "prev"}
Pages == 1..MaxPages
PagesOf(m) == 1..Length[m]

(* The bytes of a page or the sum in its receipt: those of the page in the *)
(* list m are m.  Bytes that do not decode are "broken" as they were       *)
(* stored, and "damaged" as they have become: no receipt is theirs.        *)
Undecodable == {"broken", "damaged"}
Bytes == Manifests \cup {"none"} \cup Undecodable

Dirs == [manifest : Manifests \cup {"none"}, file : [Pages -> Bytes],
         sum : [Pages -> Bytes], mark : SUBSET Pages]
EmptyDir == [manifest |-> "none", file |-> [p \in Pages |-> "none"],
             sum |-> [p \in Pages |-> "none"], mark |-> {}]

ASSUME NoDirAssumption ==
    /\ NoDir \notin Dirs
    /\ NoDir \notin [manifest : Manifests \cup {"none"}, file : [Pages -> Bytes]]

Steps == {"idle", "check", "prepare", "seed", "receipt", "fetch", "recover",
          "clear", "swap", "install", "cleanup", "done"}

\* Where the pages of a download go.
Workplace == IF kind = "jm" THEN "dst" ELSE "stage"

Spend(what) ==
    /\ used[what] < Limits[what]
    /\ used' = [used EXCEPT ![what] = @ + 1]

(***************************************************************************)
(* Pages and their receipts.                                               *)
(***************************************************************************)
\* Wrong variant of Valid: a repair mark is not looked at.
ValidUnmarked(d, p) ==
    /\ d.file[p] # "none"
    /\ \/ d.sum[p] = d.file[p]
       \/ d.sum[p] = "none" /\ d.file[p] \notin Undecodable

(* The answer of validImageFile: a receipt that is there decides, otherwise *)
(* the image is decoded.                                                    *)
Valid(d, p) ==
    /\ p \notin d.mark
    /\ d.file[p] # "none"
    /\ \/ d.sum[p] = d.file[p]
       \/ d.sum[p] = "none" /\ d.file[p] \notin Undecodable

Has(place, p) == dir[place] # NoDir /\ Valid(dir[place], p)

\* What validImageFile leaves behind for the valid pages S: their receipts.
Sealed(d, S) ==
    [d EXCEPT !.sum = [p \in Pages |-> IF p \in S THEN d.file[p] ELSE @[p]]]

\* dirImageStats: the pages of list m are there, and not one more in a row.
Counted(d, m) ==
    /\ \A p \in PagesOf(m) : d.file[p] # "none"
    /\ Length[m] + 1 \in Pages => d.file[Length[m] + 1] = "none"

\* completeImageFiles: exactly the pages of list m, each of them valid.
Complete(d, m) ==
    \A p \in Pages : IF p \in PagesOf(m) THEN Valid(d, p)
                                         ELSE d.file[p] = "none"

\* The pages that completeImageFiles visits before it meets an invalid one.
Visited(d) ==
    {p \in Pages : /\ d.file[p] # "none"
                   /\ \A q \in 1..p : d.file[q] # "none" => Valid(d, q)}

\* pageManifestMatches: a directory without a list matches any.
ManifestMatches(place, m) ==
    dir[place] # NoDir => dir[place].manifest \in {"none", m}

\* InspectImage rejects the page.
Bad(d, p) ==
    /\ d.file[p] # "none"
    /\ d.file[p] \in Undecodable \/ d.sum[p] \notin {"none", d.file[p]}

Init ==
    /\ kind \in {"pica", "jm"}
    /\ dir = [d \in Places |-> NoDir]
    /\ upstream \in Manifests
    /\ at = "idle"
    /\ target = upstream
    /\ page = 1
    /\ work = [p \in Pages |-> "done"]
    /\ rotten = {}
    /\ repair = {}
    /\ used = [l \in DOMAIN Limits |-> 0]

(***************************************************************************)
(* Download, up to the fetches.                                            *)
(***************************************************************************)
\* Download has read the list of pages.
Begin ==
    /\ at = "idle"
    /\ target' = upstream
    /\ at' = IF kind = "jm" THEN "prepare" ELSE "check"
    /\ UNCHANGED <<kind, dir, page, work, life>>

(* The test for a chapter that is complete.  jm has written its list       *)
(* before, pica compares it.                                               *)
Check ==
    LET d == dir["dst"]
        looked == d # NoDir /\ ManifestMatches("dst", target)
                            /\ Counted(d, target)
    IN  /\ at = "check"
        /\ dir' = IF looked THEN [dir EXCEPT !["dst"] = Sealed(d, Visited(d))]
                            ELSE dir
        /\ at' = IF looked /\ Complete(d, target) THEN "done"
                 ELSE IF kind = "jm" THEN "fetch" ELSE "prepare"
        /\ work' = [p \in Pages |-> IF p \in PagesOf(target) THEN "todo"
                                                             ELSE "done"]
        /\ UNCHANGED <<kind, target, page, life>>

\* A receipt cannot be written: validImageFile says no, and so does the check.
CheckFails ==
    LET d == dir["dst"]
    IN  /\ at = "check"
        /\ d # NoDir
        /\ \E p \in Visited(d) : d.sum[p] = "none"
        /\ Spend("fault")
        /\ at' = IF kind = "jm" THEN "fetch" ELSE "prepare"
        /\ work' = [p \in Pages |-> IF p \in PagesOf(target) THEN "todo"
                                                             ELSE "done"]
        /\ UNCHANGED <<kind, dir, target, page, upstream, rotten, repair>>

\* The least page of which a file is left.
Leftover(d, p) ==
    /\ d.file[p] # "none" \/ d.sum[p] # "none"
    /\ \A q \in 1..(p - 1) : d.file[q] = "none" /\ d.sum[q] = "none"

\* preparePageManifest: the directory is there.
MakeDir ==
    /\ at = "prepare"
    /\ dir[Workplace] = NoDir
    /\ dir' = [dir EXCEPT ![Workplace] = EmptyDir]
    /\ UNCHANGED <<kind, at, target, page, work, life>>

\* Wrong variant of RemoveFile: files of the same list are removed as well.
RemoveAnyFile ==
    LET d == dir[Workplace]
    IN  /\ at = "prepare"
        /\ d # NoDir
        /\ \E p \in Pages :
            /\ Leftover(d, p)
            /\ dir' = [dir EXCEPT ![Workplace] =
                        IF d.file[p] # "none" THEN [d EXCEPT !.file[p] = "none"]
                                              ELSE [d EXCEPT !.sum[p] = "none"]]
        /\ UNCHANGED <<kind, at, target, page, work, life>>

\* preparePageManifest: files of another list are removed one by one.
RemoveFile ==
    LET d == dir[Workplace]
    IN  /\ at = "prepare"
        /\ d # NoDir
        /\ d.manifest \notin {"none", target}
        /\ \E p \in Pages :
            /\ Leftover(d, p)
            /\ dir' = [dir EXCEPT ![Workplace] =
                        IF d.file[p] # "none" THEN [d EXCEPT !.file[p] = "none"]
                                              ELSE [d EXCEPT !.sum[p] = "none"]]
        /\ UNCHANGED <<kind, at, target, page, work, life>>

\* Wrong variant of WriteManifest: the pages are counted from zero.
WriteManifestFromZero ==
    LET d == dir[Workplace]
    IN  /\ at = "prepare"
        /\ d # NoDir
        /\ \/ d.manifest \in {"none", target}
           \/ \A p \in Pages : {d.file[p], d.sum[p]} = {"none"}
        /\ dir' = [dir EXCEPT ![Workplace].manifest = target]
        /\ at' = IF kind = "jm" THEN "check" ELSE "seed"
        /\ page' = 0
        /\ UNCHANGED <<kind, target, work, life>>

\* preparePageManifest: the new list is written.
WriteManifest ==
    LET d == dir[Workplace]
    IN  /\ at = "prepare"
        /\ d # NoDir
        /\ \/ d.manifest \in {"none", target}
           \/ \A p \in Pages : {d.file[p], d.sum[p]} = {"none"}
        /\ dir' = [dir EXCEPT ![Workplace].manifest = target]
        /\ at' = IF kind = "jm" THEN "check" ELSE "seed"
        /\ page' = 1
        /\ UNCHANGED <<kind, target, work, life>>

(* seedChapterRepair looks at one page: a valid page in place stays, a     *)
(* valid page of the committed chapter is copied.                          *)
SeedPage ==
    LET stage == dir["stage"]
        dst == dir["dst"]
    IN  /\ at = "seed"
        /\ page <= Length[target]
        /\ ManifestMatches("dst", target)
        /\ \/ /\ Valid(stage, page)
              /\ dir' = [dir EXCEPT !["stage"] = Sealed(stage, {page})]
              /\ page' = page + 1
              /\ UNCHANGED at
           \/ /\ ~Valid(stage, page) /\ ~Has("dst", page)
              /\ page' = page + 1
              /\ UNCHANGED <<at, dir>>
           \/ /\ ~Valid(stage, page) /\ Has("dst", page)
              /\ dir' = [dir EXCEPT
                            !["dst"] = Sealed(dst, {page}),
                            !["stage"].file[page] = dst.file[page]]
              /\ at' = "receipt"
              /\ UNCHANGED page
        /\ UNCHANGED <<kind, target, work, life>>

\* seedChapterRepair: the receipt of the copy.  A staged page is never marked.
SeedReceipt ==
    /\ at = "receipt"
    /\ dir' = [dir EXCEPT !["stage"] = Sealed(@, {page})]
    /\ at' = "seed"
    /\ page' = page + 1
    /\ UNCHANGED <<kind, target, work, life>>

SeedEnds ==
    /\ at = "seed"
    /\ page > Length[target] \/ ~ManifestMatches("dst", target)
    /\ at' = "fetch"
    /\ UNCHANGED <<kind, dir, target, page, work, life>>

(***************************************************************************)
(* The image workers: each page on its own, in any order.                  *)
(***************************************************************************)
SkipPage(p) ==
    /\ at = "fetch"
    /\ work[p] = "todo"
    /\ Valid(dir[Workplace], p)
    /\ dir' = [dir EXCEPT ![Workplace] = Sealed(@, {p})]
    /\ work' = [work EXCEPT ![p] = "done"]
    /\ UNCHANGED <<kind, at, target, page, life>>

\* The image is fetched, decoded and renamed into place.
FetchPage(p) ==
    /\ at = "fetch"
    /\ work[p] = "todo"
    /\ ~Valid(dir[Workplace], p)
    /\ dir' = [dir EXCEPT ![Workplace].file[p] = target]
    /\ work' = [work EXCEPT ![p] = "saved"]
    /\ UNCHANGED <<kind, at, target, page, life>>

\* writeImageReceipt writes the receipt.
SaveReceipt(p) ==
    /\ at = "fetch"
    /\ work[p] = "saved"
    /\ dir' = [dir EXCEPT ![Workplace].sum[p] = target]
    /\ work' = [work EXCEPT ![p] = "sealed"]
    /\ UNCHANGED <<kind, at, target, page, life>>

\* writeImageReceipt removes the repair mark.
ClearMark(p) ==
    /\ at = "fetch"
    /\ work[p] = "sealed"
    /\ dir' = [dir EXCEPT ![Workplace].mark = @ \ {p}]
    /\ work' = [work EXCEPT ![p] = "done"]
    /\ UNCHANGED <<kind, at, target, page, life>>

\* A request or a write of one page fails.
PageFails(p) ==
    /\ at = "fetch"
    /\ work[p] \in {"todo", "saved", "sealed"}
    /\ Spend("fault")
    /\ work' = [work EXCEPT ![p] = "failed"]
    /\ UNCHANGED <<kind, dir, at, target, page, upstream, rotten, repair>>

\* The context is canceled: pages that no worker has taken are left.
FetchCanceled ==
    /\ at = "fetch"
    /\ \E p \in Pages : work[p] = "todo"
    /\ Spend("fault")
    /\ work' = [p \in Pages |-> IF work[p] = "todo" THEN "failed" ELSE work[p]]
    /\ UNCHANGED <<kind, dir, at, target, page, upstream, rotten, repair>>

\* The workers are done; one failed page fails the chapter.
FetchEnds ==
    /\ at = "fetch"
    /\ \A p \in Pages : work[p] \in {"done", "failed"}
    /\ at' = IF \E p \in Pages : work[p] = "failed" THEN "idle"
             ELSE IF kind = "jm" THEN "done" ELSE "recover"
    /\ UNCHANGED <<kind, dir, target, page, work, life>>

(***************************************************************************)
(* commitChapter.                                                          *)
(***************************************************************************)
Renamed(from, to) == [dir EXCEPT ![to] = dir[from], ![from] = NoDir]

\* Wrong variant of Recover: a copy that was moved away is not moved back.
RecoverNothing ==
    /\ at = "recover"
    /\ at' = "clear"
    /\ UNCHANGED <<kind, dir, target, page, work, life>>

\* A crash between the two renames has left the chapter in .previous.
Recover ==
    /\ at = "recover"
    /\ dir' = IF dir["dst"] = NoDir THEN Renamed("prev", "dst") ELSE dir
    /\ at' = "clear"
    /\ UNCHANGED <<kind, target, page, work, life>>

\* Wrong variant of Clear: what an earlier commit has left is left in place.
ClearNothing ==
    /\ at = "clear"
    /\ at' = "swap"
    /\ UNCHANGED <<kind, dir, target, page, work, life>>

\* An earlier commit has left .previous beside a chapter that is in place.
Clear ==
    /\ at = "clear"
    /\ dir' = [dir EXCEPT !["prev"] = NoDir]
    /\ at' = "swap"
    /\ UNCHANGED <<kind, target, page, work, life>>

\* A rename to a name that is taken fails, and with it the chapter.
Swap ==
    LET taken == dir["dst"] # NoDir /\ dir["prev"] # NoDir
    IN  /\ at = "swap"
        /\ dir' = IF dir["dst"] # NoDir /\ ~taken THEN Renamed("dst", "prev")
                                                 ELSE dir
        /\ at' = IF taken THEN "idle" ELSE "install"
        /\ UNCHANGED <<kind, target, page, work, life>>

Install ==
    /\ at = "install"
    /\ dir' = Renamed("stage", "dst")
    /\ at' = "cleanup"
    /\ UNCHANGED <<kind, target, page, work, life>>

\* The rename fails: the chapter that was moved away is moved back.
InstallFails ==
    /\ at = "install"
    /\ Spend("fault")
    /\ dir' = Renamed("prev", "dst")
    /\ at' = "idle"
    /\ UNCHANGED <<kind, target, page, work, upstream, rotten, repair>>

Cleanup ==
    /\ at = "cleanup"
    /\ dir' = [dir EXCEPT !["prev"] = NoDir]
    /\ at' = "done"
    /\ UNCHANGED <<kind, target, page, work, life>>

\* The chapter is reported as done.
Report ==
    /\ at = "done"
    /\ at' = "idle"
    /\ repair' = {}
    /\ UNCHANGED <<kind, dir, target, page, work, upstream, rotten, used>>

(***************************************************************************)
(* What fails, and what happens between downloads.                         *)
(***************************************************************************)
\* A part of a directory, the pages S: what a RemoveAll that stopped has left.
Part(d, S, m) ==
    [d EXCEPT !.manifest = m,
              !.file = [p \in Pages |-> IF p \in S THEN @[p] ELSE "none"],
              !.sum = [p \in Pages |-> IF p \in S THEN @[p] ELSE "none"]]

\* RemoveAll of .previous stops in the middle.
RemoveStops ==
    /\ at \in {"clear", "cleanup"}
    /\ dir["prev"] # NoDir
    /\ \E S \in SUBSET Pages, m \in {dir["prev"].manifest, "none"} :
        dir' = [dir EXCEPT !["prev"] = Part(@, S, m)]
    /\ at' = "idle"
    /\ \E why \in {"fault", "crash"} : Spend(why)
    /\ UNCHANGED <<kind, target, page, work, upstream, rotten, repair>>

(* A call on the file system fails: the download or the chapter is given   *)
(* up.  When it is the rename back in InstallFails, nothing is in place.   *)
StepFails ==
    /\ at \in {"prepare", "seed", "receipt", "recover", "swap", "install"}
    /\ Spend("fault")
    /\ at' = "idle"
    /\ UNCHANGED <<kind, dir, target, page, work, upstream, rotten, repair>>

\* Between any two operations the process dies.
Crash ==
    /\ at # "idle"
    /\ Spend("crash")
    /\ at' = "idle"
    /\ UNCHANGED <<kind, dir, target, page, work, upstream, rotten, repair>>

UpstreamChanges ==
    /\ Spend("change")
    /\ \E m \in Manifests \ {upstream} : upstream' = m
    /\ UNCHANGED <<kind, dir, at, target, page, work, rotten, repair>>

\* Outside of the program: a file disappears, or its bytes change.
Decay(place, p) ==
    /\ at = "idle"
    /\ dir[place] # NoDir
    /\ dir[place].file[p] # "none"
    /\ Spend("rot")
    /\ \E b \in {"none", "damaged"} :
        dir' = [dir EXCEPT ![place].file[p] = b]
    /\ UNCHANGED <<kind, at, target, page, work, upstream, rotten, repair>>

(* A page of the chapter does not decode although its receipt matches: the *)
(* receipt was taken from bytes that an earlier version had stored.        *)
StoredBroken(p) ==
    /\ at = "idle"
    /\ dir["dst"] # NoDir
    /\ dir["dst"].file[p] # "none"
    /\ p \notin dir["dst"].mark
    /\ Spend("rot")
    /\ dir' = [dir EXCEPT !["dst"] = [@ EXCEPT !.file[p] = "broken",
                                               !.sum[p] = "broken"]]
    /\ rotten' = rotten \cup {p}
    /\ repair' = repair \ {p}
    /\ UNCHANGED <<kind, at, target, page, work, upstream>>

(* RepairHealth marks pages that the check found bad, while no job of the  *)
(* comic is active.  It does not look at the staging directory.            *)
Repair ==
    /\ at = "idle"
    /\ dir["dst"] # NoDir
    /\ \E S \in SUBSET {p \in Pages : Bad(dir["dst"], p)} :
        /\ S # {}
        /\ dir' = [dir EXCEPT !["dst"].mark = @ \cup S]
        /\ repair' = repair \cup S
        /\ rotten' = {p \in rotten : \/ p \notin S
                                     \/ /\ dir["stage"] # NoDir
                                        /\ dir["stage"].file[p] = "broken"}
    /\ UNCHANGED <<kind, at, target, page, work, upstream, used>>

\* Steps of a download in which nothing fails.
Progress ==
    \/ Check \/ MakeDir \/ RemoveFile \/ WriteManifest
    \/ SeedPage \/ SeedReceipt \/ SeedEnds
    \/ \E p \in Pages :
        SkipPage(p) \/ FetchPage(p) \/ SaveReceipt(p) \/ ClearMark(p)
    \/ FetchEnds
    \/ Recover \/ Clear \/ Swap \/ Install \/ Cleanup \/ Report

Failure ==
    \/ CheckFails \/ FetchCanceled \/ InstallFails \/ RemoveStops
    \/ StepFails \/ Crash
    \/ \E p \in Pages : PageFails(p)

Between ==
    \/ UpstreamChanges \/ Repair
    \/ \E p \in Pages :
        StoredBroken(p) \/ \E place \in {"dst", "stage"} : Decay(place, p)

Next == Begin \/ Progress \/ Failure \/ Between

Spec == Init /\ [][Next]_vars

(* A chapter that is not there is asked for again, by the user or by the   *)
(* next synchronisation, and a download that runs goes on.                 *)
FairSpec == Spec /\ WF_vars(Begin) /\ WF_vars(Progress)

(***************************************************************************)
(* Properties.                                                             *)
(***************************************************************************)
TypeOK ==
    /\ kind \in {"pica", "jm"}
    /\ dir \in [Places -> Dirs \cup {NoDir}]
    /\ upstream \in Manifests
    /\ target \in Manifests
    /\ at \in Steps
    /\ page \in 1..(MaxPages + 1)
    /\ work \in [Pages -> {"todo", "saved", "sealed", "done", "failed"}]
    /\ rotten \subseteq Pages
    /\ repair \subseteq Pages
    /\ used \in [DOMAIN Limits -> Nat]

(* A chapter that is reported as done holds the pages of the list that was *)
(* fetched and no other page: whatever was left by interrupted downloads   *)
(* of this list or of another one, lost or damaged since, or marked by a   *)
(* repair.  Only bad bytes under a matching receipt get past it.  And all  *)
(* the time the pages in a chapter or in its staging directory are those   *)
(* of the list beside them, even when preparePageManifest stops half-way.  *)
DoneIsWhole ==
    /\ at = "done" =>
          /\ dir["dst"] # NoDir
          /\ dir["dst"].manifest = target
          /\ \A p \in Pages :
                IF p \in PagesOf(target)
                THEN dir["dst"].file[p] = target \/ p \in rotten
                ELSE dir["dst"].file[p] = "none"
    /\ \A place \in {"dst", "stage"}, p \in Pages :
          dir[place] # NoDir =>
              dir[place].file[p] \in
                  {"none", dir[place].manifest} \cup Undecodable

(* A download never throws away a good page of the list it fetches: a      *)
(* retry fetches what is missing and no more.  Only bad bytes under a      *)
(* matching receipt may take the place of a good page that is left in      *)
(* .previous or whose receipt is lost.                                     *)
GoodPagesKept ==
    [][at # "idle" =>
        \A p \in Pages \ rotten :
            (\E d \in Places : dir[d] # NoDir /\ dir[d].file[p] = target)
            => \E d \in Places :
                dir'[d] # NoDir /\ dir'[d].file[p] = target]_vars

(* Whatever crashes, failures and damage have left behind, some later      *)
(* download brings the chapter to its end.                                 *)
NeverStuck == []<>(at = "done")

(* commitChapter replaces a chapter at once although it takes two renames  *)
(* and two removals: what it can bring back is, all the time, the old      *)
(* chapter or the new one.                                                 *)
shelved ==
    LET kept == IF dir["dst"] # NoDir THEN dir["dst"] ELSE dir["prev"]
    IN  IF kind = "jm" \/ kept = NoDir
        THEN NoDir
        ELSE [manifest |-> kept.manifest, file |-> kept.file]

Shelf == INSTANCE ChapterShelf WITH copy <- shelved
ImplementsShelf == Shelf!Spec

(* docs/OPERATIONS.md:81: a page that a repair has marked keeps its bytes  *)
(* until the download has replaced them, and then loses its mark.          *)
RepairReplaces ==
    at = "done" =>
        \A p \in repair \cap PagesOf(target) : dir["dst"].file[p] = target
=============================================================================
