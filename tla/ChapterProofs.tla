--------------------------- MODULE ChapterProofs ---------------------------
(***************************************************************************)
(* Proofs about ChapterCommit: for every list of pages, every number of    *)
(* pages and every number of crashes, failures and damages.                *)
(***************************************************************************)
EXTENDS ChapterCommit, TLAPS

(***************************************************************************)
(* The invariant.                                                          *)
(***************************************************************************)
\* The pages in a directory and their receipts are of the list beside them.
Fine(d) ==
    /\ d \in Dirs
    /\ \A p \in Pages :
        /\ d.file[p] \in {"none", "broken", "damaged", d.manifest}
        /\ d.sum[p] \in {"none", "broken", d.manifest}
        /\ d.file[p] # "none" \/ d.sum[p] # "none" =>
              d.manifest # "none" /\ p \in PagesOf(d.manifest)

\* Bad bytes that a receipt may hide are known, unless the page is marked.
Known(d, bad) ==
    \A p \in Pages : d.file[p] = "broken" /\ p \notin d.mark => p \in bad

\* Every page of list m is there, but for bad bytes that are known.
Whole(d, m, bad) ==
    /\ d # NoDir
    /\ d.manifest = m
    /\ \A p \in PagesOf(m) : d.file[p] = m \/ (d.file[p] = "broken" /\ p \in bad)

dst == dir["dst"]
stage == dir["stage"]
prev == dir["prev"]

ScalarsFine ==
    /\ kind \in {"pica", "jm"}
    /\ upstream \in Manifests
    /\ target \in Manifests
    /\ at \in Steps
    /\ page \in 1..(MaxPages + 1)
    /\ work \in [Pages -> {"todo", "saved", "sealed", "done", "failed"}]
    /\ rotten \subseteq Pages
    /\ repair \subseteq Pages
    /\ used \in [DOMAIN Limits -> Nat]

\* What .previous has kept beside a chapter in place may be a part only.
DirsFine ==
    /\ dir \in [Places -> Dirs \cup {NoDir}]
    /\ dst # NoDir => Fine(dst) /\ Known(dst, rotten)
    /\ dst = NoDir /\ prev # NoDir => Fine(prev) /\ Known(prev, rotten)
    /\ prev # NoDir =>
          \A p \in Pages : prev.file[p] \in Manifests =>
              p \in PagesOf(prev.file[p])
    /\ stage # NoDir => Fine(stage) /\ Known(stage, rotten) /\ stage.mark = {}

\* The copy of the chapter that counts.
Kept == IF dst # NoDir THEN dst ELSE prev

\* Bad bytes in the staging directory are those of the chapter.
KindFine ==
    /\ kind = "jm" =>
          /\ stage = NoDir /\ prev = NoDir
          /\ at \notin {"seed", "receipt", "recover", "clear", "swap",
                        "install", "cleanup"}
    /\ kind = "pica" =>
          /\ Kept # NoDir => Kept.manifest # "none"
          /\ stage # NoDir =>
                \A p \in Pages : stage.file[p] = "broken" =>
                    /\ Kept # NoDir
                    /\ Kept.manifest = stage.manifest
                    /\ Kept.file[p] # Kept.manifest

\* The pages that the workers have, and what they have done.
WorkFine ==
    /\ at \in {"seed", "receipt", "fetch"} \/ (at = "prepare" /\ kind = "pica") =>
          \A p \in Pages :
              /\ work[p] # "done" => p \in PagesOf(target)
              /\ at # "fetch" => (p \in PagesOf(target) => work[p] = "todo")
    /\ at = "fetch" =>
          \A p \in Pages :
              /\ work[p] \in {"saved", "sealed"} =>
                    dir[Workplace].file[p] = target
              /\ work[p] = "done" /\ p \in PagesOf(target) =>
                    \/ dir[Workplace].file[p] = target
                    \/ dir[Workplace].file[p] = "broken" /\ p \in rotten

StepFine ==
    /\ at = "check" /\ kind = "jm" => dst # NoDir /\ dst.manifest = target
    /\ at \in {"seed", "receipt", "fetch"} =>
          dir[Workplace] # NoDir /\ dir[Workplace].manifest = target
    /\ at = "receipt" =>
          page \in PagesOf(target) /\ stage.file[page] \in {target, "broken"}
    /\ at \in {"recover", "clear", "swap", "install"} =>
          Whole(stage, target, rotten)
    /\ at = "clear" /\ dst = NoDir => prev = NoDir
    /\ at = "swap" => prev = NoDir
    /\ at = "install" => dst = NoDir
    /\ at = "cleanup" => Whole(dst, target, rotten)
    /\ at = "done" =>
          /\ dst # NoDir /\ dst.manifest = target
          /\ \A p \in PagesOf(target) : dst.file[p] = target \/ p \in rotten

ChapterInv == ScalarsFine /\ DirsFine /\ KindFine /\ WorkFine /\ StepFine

USE DEF dst, stage, prev

-----------------------------------------------------------------------------
(* Pages, their receipts and directories.                                  *)

LEMMA PagesType ==
  ASSUME NEW m \in Manifests
  PROVE  /\ PagesOf(m) \subseteq Pages /\ 1 \in PagesOf(m)
         /\ Length[m] \in Nat /\ Length[m] <= MaxPages /\ MaxPages \in Nat
         /\ m \notin {"none", "broken", "damaged"}
<1>1. Length[m] \in 1..MaxPages /\ MaxPages \in Nat
  BY ChapterAssumption
<1>2. m \notin {"none", "broken", "damaged"}
  BY ChapterAssumption
<1> QED
  BY <1>1, <1>2 DEF PagesOf, Pages

LEMMA NoDirType == NoDir \notin Dirs
BY NoDirAssumption

LEMMA EmptyDirFine ==
  ASSUME NEW bad
  PROVE  /\ Fine(EmptyDir) /\ Known(EmptyDir, bad) /\ EmptyDir \in Dirs
         /\ EmptyDir.mark = {} /\ EmptyDir.manifest = "none"
         /\ \A p \in Pages : EmptyDir.file[p] = "none"
<1>1. /\ EmptyDir \in Dirs /\ EmptyDir.mark = {} /\ EmptyDir.manifest = "none"
      /\ EmptyDir.file = [p \in Pages |-> "none"]
      /\ EmptyDir.sum = [p \in Pages |-> "none"]
  BY DEF EmptyDir, Dirs, Bytes
<1> QED
  BY <1>1 DEF Fine, Known

WithFile(d, p, b) == [d EXCEPT !.file[p] = b]
WithSum(d, p, b) == [d EXCEPT !.sum[p] = b]

\* A page of the list is replaced, or becomes bad or is removed.
LEMMA FileFine ==
  ASSUME NEW d, Fine(d), NEW p \in Pages,
         NEW b, b # "none" =>
                   /\ b \in {"broken", "damaged", d.manifest}
                   /\ d.manifest # "none" /\ p \in PagesOf(d.manifest)
  PROVE  LET e == WithFile(d, p, b)
         IN  /\ Fine(e) /\ e.manifest = d.manifest /\ e.mark = d.mark
             /\ e.sum = d.sum /\ e.file[p] = b
             /\ \A q \in Pages \ {p} : e.file[q] = d.file[q]
<1>1. d \in Dirs /\ d.manifest \in Manifests \cup {"none"} /\ b \in Bytes
  BY DEF Fine, Dirs, Bytes, Undecodable
<1> DEFINE e == WithFile(d, p, b)
           f == [d.file EXCEPT ![p] = b]
<1>2. /\ e \in Dirs /\ e.manifest = d.manifest /\ e.mark = d.mark
      /\ e.sum = d.sum /\ e.file = f
  <2>1. f \in [Pages -> Bytes]
    BY <1>1 DEF Dirs
  <2>2. e = [d EXCEPT !.file = f]
    BY DEF WithFile
  <2> HIDE DEF e, f
  <2> QED
    BY <1>1, <2>1, <2>2 DEF Dirs
<1> HIDE DEF e
<1>3. e.file[p] = b /\ \A q \in Pages : q # p => e.file[q] = d.file[q]
  BY <1>1, <1>2 DEF Dirs
<1>4. Fine(e)
  BY <1>2, <1>3 DEF Fine
<1> QED
  BY <1>2, <1>3, <1>4 DEF e

\* A receipt is written or removed.
LEMMA SumFine ==
  ASSUME NEW d, Fine(d), NEW p \in Pages,
         NEW b, b # "none" =>
                   /\ b \in {"broken", d.manifest}
                   /\ d.manifest # "none" /\ p \in PagesOf(d.manifest)
  PROVE  LET e == WithSum(d, p, b)
         IN  /\ Fine(e) /\ e.manifest = d.manifest /\ e.mark = d.mark
             /\ e.file = d.file
<1>1. d \in Dirs /\ d.manifest \in Manifests \cup {"none"} /\ b \in Bytes
  BY DEF Fine, Dirs, Bytes, Undecodable
<1> DEFINE e == WithSum(d, p, b)
           f == [d.sum EXCEPT ![p] = b]
<1>2. /\ e \in Dirs /\ e.manifest = d.manifest /\ e.mark = d.mark
      /\ e.file = d.file /\ e.sum = f
  <2>1. f \in [Pages -> Bytes]
    BY <1>1 DEF Dirs
  <2>2. e = [d EXCEPT !.sum = f]
    BY DEF WithSum
  <2> HIDE DEF e, f
  <2> QED
    BY <1>1, <2>1, <2>2 DEF Dirs
<1> HIDE DEF e
<1>3. e.sum[p] = b /\ \A q \in Pages : q # p => e.sum[q] = d.sum[q]
  BY <1>1, <1>2 DEF Dirs
<1>4. Fine(e)
  BY <1>2, <1>3 DEF Fine
<1> QED
  BY <1>2, <1>3, <1>4 DEF e

\* A page that validImageFile accepts is of the list, or bad from the first.
LEMMA ValidPage ==
  ASSUME NEW d, Fine(d), NEW p \in Pages, Valid(d, p)
  PROVE  /\ d.manifest \in Manifests /\ p \in PagesOf(d.manifest)
         /\ p \notin d.mark
         /\ d.file[p] \in {"broken", d.manifest}
BY DEF Fine, Valid, Dirs, Undecodable

LEMMA SealedFine ==
  ASSUME NEW d, Fine(d), NEW S \in SUBSET Pages,
         \A p \in S : d.file[p] \in {"broken", d.manifest} /\ d.file[p] # "none"
  PROVE  LET e == Sealed(d, S)
         IN  /\ Fine(e) /\ e.manifest = d.manifest /\ e.mark = d.mark
             /\ e.file = d.file
<1> DEFINE f == [p \in Pages |-> IF p \in S THEN d.file[p] ELSE d.sum[p]]
           e == Sealed(d, S)
<1>1. d \in Dirs
  BY DEF Fine
<1>2. f \in [Pages -> Bytes]
  BY <1>1 DEF Dirs
<1>3. \A p \in Pages : f[p] = d.sum[p] \/ (p \in S /\ f[p] = d.file[p])
  OBVIOUS
<1>4. e = [d EXCEPT !.sum = f]
  BY DEF Sealed
<1> HIDE DEF e, f
<1>5. /\ e \in Dirs /\ e.manifest = d.manifest /\ e.mark = d.mark
      /\ e.file = d.file /\ e.sum = f
  BY <1>1, <1>2, <1>4 DEF Dirs
<1>6. Fine(e)
  BY <1>3, <1>5 DEF Fine
<1> QED
  BY <1>5, <1>6 DEF e

LEMMA SealedValid ==
  ASSUME NEW d, Fine(d), NEW S \in SUBSET Pages, \A p \in S : Valid(d, p)
  PROVE  LET e == Sealed(d, S)
         IN  /\ Fine(e) /\ e.manifest = d.manifest /\ e.mark = d.mark
             /\ e.file = d.file
<1>1. \A p \in S : d.file[p] \in {"broken", d.manifest} /\ d.file[p] # "none"
  <2> SUFFICES ASSUME NEW p \in S
               PROVE  d.file[p] \in {"broken", d.manifest} /\ d.file[p] # "none"
    OBVIOUS
  <2>1. p \in Pages /\ Valid(d, p)
    OBVIOUS
  <2> QED
    BY <2>1, ValidPage DEF Valid
<1> QED
  BY <1>1, SealedFine

\* Pages are marked, or a mark is removed.
LEMMA MarkFine ==
  ASSUME NEW d, Fine(d), NEW M \in SUBSET Pages
  PROVE  LET e == [d EXCEPT !.mark = M]
         IN  /\ Fine(e) /\ e.manifest = d.manifest /\ e.mark = M
             /\ e.file = d.file /\ e.sum = d.sum
<1>1. d \in Dirs
  BY DEF Fine
<1> DEFINE e == [d EXCEPT !.mark = M]
<1>2. /\ e \in Dirs /\ e.manifest = d.manifest /\ e.mark = M
      /\ e.file = d.file /\ e.sum = d.sum
  BY <1>1 DEF Dirs
<1> HIDE DEF e
<1>3. Fine(e)
  BY <1>2 DEF Fine
<1> QED
  BY <1>2, <1>3 DEF e

\* The list is written into a directory with nothing of another list.
LEMMA ManifestFine ==
  ASSUME NEW d, Fine(d), NEW m \in Manifests,
         \/ d.manifest \in {"none", m}
         \/ \A p \in Pages : {d.file[p], d.sum[p]} = {"none"}
  PROVE  LET e == [d EXCEPT !.manifest = m]
         IN  /\ Fine(e) /\ e.manifest = m /\ e.mark = d.mark
             /\ e.file = d.file /\ e.sum = d.sum
             /\ \A p \in Pages : d.file[p] # "none" => d.manifest = m
<1>1. d \in Dirs
  BY DEF Fine
<1> DEFINE e == [d EXCEPT !.manifest = m]
<1>2. /\ e \in Dirs /\ e.manifest = m /\ e.mark = d.mark
      /\ e.file = d.file /\ e.sum = d.sum
  BY <1>1 DEF Dirs
<1>3. \A p \in Pages : \/ d.file[p] = "none" /\ d.sum[p] = "none"
                       \/ d.manifest = m
  BY DEF Fine
<1> HIDE DEF e
<1>4. Fine(e)
  BY <1>2, <1>3 DEF Fine
<1> QED
  BY <1>2, <1>3, <1>4 DEF e

-----------------------------------------------------------------------------
(* How one directory may change.                                           *)

Committing ==
    {"seed", "receipt", "recover", "clear", "swap", "install", "cleanup"}

\* Nothing on the disk changes.
LEMMA SameDirs ==
  ASSUME DirsFine, KindFine, UNCHANGED <<kind, dir, rotten>>,
         kind = "jm" => at' \notin Committing
  PROVE  DirsFine' /\ KindFine'
BY DEF DirsFine, KindFine, Kept, Committing

\* The chapter in place changes: its list stays, no page gets better.
LEMMA DstStep ==
  ASSUME DirsFine, KindFine, kind' = kind, NEW d,
         dir' = [dir EXCEPT !["dst"] = d], Fine(d), Known(d, rotten'),
         stage # NoDir => Known(stage, rotten'),
         kind = "jm" => at' \notin Committing,
         kind = "pica" =>
            /\ dst # NoDir /\ d.manifest = dst.manifest
            /\ \A p \in Pages :
                  d.file[p] = dst.file[p] \/ d.file[p] \notin Manifests
  PROVE  DirsFine' /\ KindFine'
<1>1. /\ dir \in [Places -> Dirs \cup {NoDir}] /\ d \in Dirs /\ d # NoDir
      /\ dir' \in [Places -> Dirs \cup {NoDir}]
  BY NoDirType DEF DirsFine, Fine
<1>2. /\ dir'["dst"] = d /\ dir'["stage"] = dir["stage"]
      /\ dir'["prev"] = dir["prev"]
  BY <1>1 DEF Places
<1>3. DirsFine'
  BY <1>1, <1>2 DEF DirsFine
<1>4. d.manifest \in Manifests \cup {"none"}
  BY <1>1 DEF Dirs
<1>5. KindFine'
  BY <1>1, <1>2, <1>4 DEF KindFine, Kept, Committing
<1> QED
  BY <1>3, <1>5

\* The staging directory changes: bad bytes in it are those of the chapter.
LEMMA StageStep ==
  ASSUME DirsFine, KindFine, kind = "pica", UNCHANGED <<kind, rotten>>, NEW d,
         dir' = [dir EXCEPT !["stage"] = d], Fine(d), Known(d, rotten),
         d.mark = {},
         \A p \in Pages : d.file[p] = "broken" =>
            /\ Kept # NoDir /\ Kept.manifest = d.manifest
            /\ Kept.file[p] # Kept.manifest
  PROVE  DirsFine' /\ KindFine' /\ Kept' = Kept
<1>1. /\ dir \in [Places -> Dirs \cup {NoDir}] /\ d \in Dirs /\ d # NoDir
      /\ dir' \in [Places -> Dirs \cup {NoDir}]
  BY NoDirType DEF DirsFine, Fine
<1>2. /\ dir'["stage"] = d /\ dir'["dst"] = dir["dst"]
      /\ dir'["prev"] = dir["prev"]
  BY <1>1 DEF Places
<1>3. DirsFine'
  BY <1>1, <1>2 DEF DirsFine
<1>4. Kept' = Kept
  BY <1>2 DEF Kept
<1>5. KindFine'
  BY <1>1, <1>2, <1>4 DEF KindFine
<1> QED
  BY <1>3, <1>4, <1>5

\* The directory that is worked in changes: its bad bytes were there before.
LEMMA WorkplaceStep ==
  ASSUME DirsFine, KindFine, kind \in {"pica", "jm"},
         UNCHANGED <<kind, rotten>>, NEW d,
         dir' = [dir EXCEPT ![Workplace] = d], Fine(d), Known(d, rotten),
         kind = "jm" => at' \notin Committing,
         kind = "pica" =>
            /\ d.mark = {}
            /\ \A p \in Pages : d.file[p] = "broken" =>
                  /\ stage # NoDir /\ stage.manifest = d.manifest
                  /\ stage.file[p] = "broken"
  PROVE  /\ DirsFine' /\ KindFine' /\ dir'[Workplace] = d /\ d # NoDir
         /\ Workplace' = Workplace
         /\ \A q \in Places \ {Workplace} : dir'[q] = dir[q]
<1>1. /\ dir \in [Places -> Dirs \cup {NoDir}] /\ d \in Dirs /\ d # NoDir
      /\ Workplace \in Places /\ Workplace' = Workplace
  BY NoDirType DEF DirsFine, Fine, Workplace, Places
<1>2. CASE kind = "jm"
  <2>1. Workplace = "dst"
    BY <1>2 DEF Workplace
  <2>2. stage = NoDir
    BY <1>2 DEF KindFine
  <2>3. DirsFine' /\ KindFine'
    BY <1>2, <2>1, <2>2, DstStep
  <2> QED
    BY <1>1, <2>3
<1>3. CASE kind = "pica"
  <2>1. Workplace = "stage"
    BY <1>3 DEF Workplace
  <2>2. \A p \in Pages : d.file[p] = "broken" =>
           /\ Kept # NoDir /\ Kept.manifest = d.manifest
           /\ Kept.file[p] # Kept.manifest
    BY <1>3 DEF KindFine
  <2>3. DirsFine' /\ KindFine'
    BY <1>3, <2>1, <2>2, StageStep
  <2> QED
    BY <1>1, <2>3
<1> QED
  BY <1>2, <1>3

-----------------------------------------------------------------------------
(* The invariant, action by action.                                        *)

LEMMA Spent ==
  ASSUME used \in [DOMAIN Limits -> Nat], NEW what, Spend(what)
  PROVE  used' \in [DOMAIN Limits -> Nat]
<1>1. CASE what \in DOMAIN Limits
  <2>1. used[what] + 1 \in Nat
    BY <1>1
  <2> QED
    BY <2>1 DEF Spend
<1>2. CASE what \notin DOMAIN Limits
  BY <1>2 DEF Spend
<1> QED
  BY <1>1, <1>2

LEMMA InitInv == Init => ChapterInv
<1> SUFFICES ASSUME Init PROVE ChapterInv
  OBVIOUS
<1>1. ScalarsFine
  BY ChapterAssumption DEF Init, ScalarsFine, Steps
<1>2. /\ dir \in [Places -> Dirs \cup {NoDir}]
      /\ dir["dst"] = NoDir /\ dir["stage"] = NoDir /\ dir["prev"] = NoDir
  BY DEF Init, Places
<1>3. DirsFine /\ KindFine
  BY <1>2 DEF Init, DirsFine, KindFine, Kept
<1>4. WorkFine /\ StepFine
  BY DEF Init, WorkFine, StepFine
<1> QED
  BY <1>1, <1>3, <1>4 DEF ChapterInv

\* A download begins, is given up or is reported; upstream changes.
LEMMA QuietStep ==
  ASSUME ChapterInv,
         Begin \/ Report \/ StepFails \/ Crash \/ UpstreamChanges
         \/ UNCHANGED vars
  PROVE  ChapterInv'
<1>0. ScalarsFine /\ DirsFine /\ KindFine /\ WorkFine /\ StepFine
  BY DEF ChapterInv
<1>1. kind' = kind /\ dir' = dir /\ rotten' = rotten
  BY DEF Begin, Report, StepFails, Crash, UpstreamChanges, life, vars
<1>2. used' \in [DOMAIN Limits -> Nat]
  BY <1>0, Spent
  DEF ScalarsFine, Begin, Report, StepFails, Crash, UpstreamChanges, life, vars
<1>3. ScalarsFine'
  BY <1>0, <1>1, <1>2
  DEF ScalarsFine, Begin, Report, StepFails, Crash, UpstreamChanges, Steps,
      life, vars
<1>4. CASE at' = at
  <2>1. target' = target /\ page' = page /\ work' = work
    BY <1>0, <1>4 DEF Begin, Report, StepFails, Crash, UpstreamChanges, life,
                      vars, ScalarsFine
  <2>2. DirsFine' /\ KindFine'
    BY <1>0, <1>1, <1>4, SameDirs DEF KindFine, Committing
  <2>3. WorkFine' /\ StepFine'
    BY <1>0, <1>1, <1>4, <2>1 DEF WorkFine, StepFine, Workplace
  <2> QED
    BY <1>3, <2>2, <2>3 DEF ChapterInv
<1>5. CASE at' # at
  <2>1. \/ at' = "idle"
        \/ at' = IF kind = "jm" THEN "prepare" ELSE "check"
    BY <1>5 DEF Begin, Report, StepFails, Crash, UpstreamChanges, life, vars
  <2>2. DirsFine' /\ KindFine'
    BY <1>0, <1>1, <2>1, SameDirs DEF Committing
  <2>3. WorkFine' /\ StepFine'
    BY <1>0, <1>1, <2>1 DEF WorkFine, StepFine, ScalarsFine
  <2> QED
    BY <1>3, <2>2, <2>3 DEF ChapterInv
<1> QED
  BY <1>4, <1>5

\* The workers get all the pages of the list.
LEMMA TodoFine ==
  ASSUME ScalarsFine, target' = target, kind' = kind,
         work' = [p \in Pages |-> IF p \in PagesOf(target) THEN "todo"
                                                           ELSE "done"]
  PROVE  WorkFine' /\ work' \in [Pages -> {"todo", "saved", "sealed", "done",
                                           "failed"}]
<1>1. PagesOf(target) \subseteq Pages
  BY PagesType DEF ScalarsFine
<1>2. \A p \in Pages : /\ p \in PagesOf(target) => work'[p] = "todo"
                       /\ p \notin PagesOf(target) => work'[p] = "done"
  OBVIOUS
<1>3. WorkFine'
  BY <1>1, <1>2 DEF WorkFine, PagesOf
<1> QED
  BY <1>3

LEMMA CheckStep ==
  ASSUME ChapterInv, Check \/ CheckFails
  PROVE  ChapterInv'
<1>0. /\ ScalarsFine /\ DirsFine /\ KindFine /\ WorkFine /\ StepFine
      /\ at = "check" /\ kind \in {"pica", "jm"} /\ target \in Manifests
      /\ UNCHANGED <<kind, target, page, upstream, rotten, repair>>
  BY DEF ChapterInv, ScalarsFine, Check, CheckFails, life
<1>1. WorkFine' /\ work' \in [Pages -> {"todo", "saved", "sealed", "done",
                                        "failed"}]
  BY <1>0, TodoFine DEF Check, CheckFails
<1>2. at' = "done" \/ at' = IF kind = "jm" THEN "fetch" ELSE "prepare"
  BY DEF Check, CheckFails
<1>3. ScalarsFine'
  <2>1. used' \in [DOMAIN Limits -> Nat]
    BY <1>0, Spent DEF ScalarsFine, Check, CheckFails, life
  <2> QED
    BY <1>0, <1>1, <1>2, <2>1 DEF ScalarsFine, Steps
<1> DEFINE S == Visited(dst)
           e == Sealed(dst, S)
           looked == dst # NoDir /\ ManifestMatches("dst", target)
                                 /\ Counted(dst, target)
<1>4. ASSUME dst # NoDir
      PROVE  /\ Fine(e) /\ e.manifest = dst.manifest /\ e.mark = dst.mark
             /\ e.file = dst.file
  <2>1. S \in SUBSET Pages
    BY DEF Visited
  <2>2. \A p \in S : Valid(dst, p)
    BY DEF Visited, Pages
  <2>3. Fine(dst)
    BY <1>0, <1>4 DEF DirsFine
  <2> QED
    BY <2>1, <2>2, <2>3, SealedValid
<1>5. DirsFine' /\ KindFine'
  <2>1. CASE dir' = dir
    BY <1>0, <1>2, <2>1, SameDirs DEF Committing
  <2>2. CASE dst # NoDir /\ dir' = [dir EXCEPT !["dst"] = e]
    <3>1. /\ Known(dst, rotten)
          /\ stage # NoDir => Known(stage, rotten)
      BY <1>0, <2>2 DEF DirsFine
    <3>2. Known(e, rotten')
      BY <1>0, <1>4, <2>2, <3>1 DEF Known
    <3> HIDE DEF e
    <3> QED
      BY <1>0, <1>2, <1>4, <2>2, <3>1, <3>2, DstStep DEF Committing
  <2> QED
    BY <2>1, <2>2 DEF Check, CheckFails
<1>6. CASE at' # "done"
  <2>1. kind = "jm" => dst' # NoDir /\ dst'.manifest = target
    <3> SUFFICES ASSUME kind = "jm" PROVE dst' # NoDir /\ dst'.manifest = target
      OBVIOUS
    <3>1. dst # NoDir /\ dst.manifest = target
      BY <1>0 DEF StepFine
    <3>2. e \in Dirs /\ e # NoDir
      BY <1>4, <3>1, NoDirType DEF Fine
    <3>3. dir' = dir \/ dir' = [dir EXCEPT !["dst"] = e]
      BY DEF Check, CheckFails
    <3>4. dir \in [Places -> Dirs \cup {NoDir}] /\ "dst" \in Places
      BY <1>0 DEF DirsFine, Places
    <3> HIDE DEF e
    <3> QED
      BY <1>4, <3>1, <3>2, <3>3, <3>4
  <2>2. StepFine'
    BY <1>0, <1>2, <1>6, <2>1 DEF StepFine, Workplace
  <2> QED
    BY <1>1, <1>3, <1>5, <2>2 DEF ChapterInv
<1>7. CASE at' = "done"
  <2>1. /\ looked /\ Complete(dst, target)
        /\ dir' = [dir EXCEPT !["dst"] = e]
    BY <1>0, <1>7 DEF Check, CheckFails
  <2>2. dst # NoDir /\ Fine(dst) /\ Known(dst, rotten)
    BY <1>0, <2>1 DEF DirsFine
  <2>3. \A p \in PagesOf(target) : p \in Pages /\ Valid(dst, p)
    BY <1>0, <2>1, PagesType DEF Complete
  <2>4. dst.manifest = target
    <3>1. dst.manifest \in Manifests
      BY <1>0, <2>2, <2>3, PagesType, ValidPage
    <3> QED
      BY <2>1, <3>1, ChapterAssumption DEF ManifestMatches
  <2>5. \A p \in PagesOf(target) : dst.file[p] = target \/ p \in rotten
    BY <2>2, <2>3, <2>4, ValidPage DEF Known
  <2>6. dst' = e /\ e # NoDir
    <3>1. dir \in [Places -> Dirs \cup {NoDir}] /\ "dst" \in Places
      BY <1>0 DEF DirsFine, Places
    <3>2. e \in Dirs
      BY <1>4, <2>1 DEF Fine
    <3> HIDE DEF e
    <3> QED
      BY <2>1, <3>1, <3>2, NoDirType
  <2>7. StepFine'
    <3> HIDE DEF e
    <3> QED
      BY <1>0, <1>4, <1>7, <2>1, <2>4, <2>5, <2>6 DEF StepFine, PagesOf
  <2> QED
    BY <1>1, <1>3, <1>5, <2>7 DEF ChapterInv
<1> QED
  BY <1>6, <1>7

LEMMA WorkplaceFine ==
  ASSUME ChapterInv, dir[Workplace] # NoDir
  PROVE  LET d == dir[Workplace]
         IN  /\ Fine(d) /\ Known(d, rotten)
             /\ kind = "pica" => Workplace = "stage" /\ d.mark = {}
             /\ kind = "jm" => Workplace = "dst"
BY DEF ChapterInv, ScalarsFine, DirsFine, Workplace

\* The directory is made ready for the list.
LEMMA PrepareStep ==
  ASSUME ChapterInv, MakeDir \/ RemoveFile \/ WriteManifest
  PROVE  ChapterInv'
<1>0. /\ ScalarsFine /\ DirsFine /\ KindFine /\ WorkFine /\ StepFine
      /\ at = "prepare" /\ kind \in {"pica", "jm"} /\ target \in Manifests
      /\ UNCHANGED <<kind, target, work, upstream, rotten, repair, used>>
  BY DEF ChapterInv, ScalarsFine, MakeDir, RemoveFile, WriteManifest, life
<1>1. dir \in [Places -> Dirs \cup {NoDir}] /\ Workplace \in Places
  BY <1>0 DEF DirsFine, Workplace, Places
<1> DEFINE d == dir[Workplace]
<1>2. CASE MakeDir
  <2>1. /\ dir' = [dir EXCEPT ![Workplace] = EmptyDir]
        /\ at' = at /\ page' = page
    BY <1>2 DEF MakeDir
  <2>2. /\ Fine(EmptyDir) /\ Known(EmptyDir, rotten) /\ EmptyDir.mark = {}
        /\ \A p \in Pages : EmptyDir.file[p] # "broken"
    BY EmptyDirFine
  <2>3. DirsFine' /\ KindFine'
    BY <1>0, <2>1, <2>2, WorkplaceStep DEF Committing
  <2>4. ScalarsFine' /\ WorkFine' /\ StepFine'
    BY <1>0, <2>1 DEF ScalarsFine, WorkFine, StepFine
  <2> QED
    BY <2>3, <2>4 DEF ChapterInv
<1>3. CASE RemoveFile
  <2>1. d # NoDir /\ at' = at /\ page' = page
    BY <1>3 DEF RemoveFile
  <2>2. PICK p \in Pages :
           dir' = [dir EXCEPT ![Workplace] =
                     IF d.file[p] # "none" THEN WithFile(d, p, "none")
                                           ELSE WithSum(d, p, "none")]
    BY <1>3 DEF RemoveFile, WithFile, WithSum
  <2>3. /\ Fine(d) /\ Known(d, rotten) /\ d.manifest \in Manifests \cup {"none"}
        /\ kind = "pica" => Workplace = "stage" /\ d.mark = {}
    BY <2>1, WorkplaceFine DEF Fine, Dirs
  <2> HIDE DEF d
  <2>4. PICK e \in {WithFile(d, p, "none"), WithSum(d, p, "none")} :
           dir' = [dir EXCEPT ![Workplace] = e]
    BY <2>2
  <2>5. /\ Fine(e) /\ e.manifest = d.manifest /\ e.mark = d.mark
        /\ \A q \in Pages : e.file[q] \in {"none", d.file[q]}
    <3>1. LET f == WithFile(d, p, "none")
          IN  /\ Fine(f) /\ f.manifest = d.manifest /\ f.mark = d.mark
              /\ \A q \in Pages : f.file[q] \in {"none", d.file[q]}
      BY <2>3, FileFine
    <3>2. LET f == WithSum(d, p, "none")
          IN  /\ Fine(f) /\ f.manifest = d.manifest /\ f.mark = d.mark
              /\ f.file = d.file
      BY <2>3, SumFine
    <3> QED
      BY <2>4, <3>1, <3>2
  <2>6. /\ Known(e, rotten)
        /\ \A q \in Pages : e.file[q] = "broken" => d.file[q] = "broken"
    BY <2>3, <2>5 DEF Known
  <2>7. DirsFine' /\ KindFine'
    <3>1. kind = "pica" =>
            /\ e.mark = {}
            /\ \A q \in Pages : e.file[q] = "broken" =>
                  /\ stage # NoDir /\ stage.manifest = e.manifest
                  /\ stage.file[q] = "broken"
      BY <2>1, <2>3, <2>5, <2>6 DEF d
    <3> QED
      BY <1>0, <2>1, <2>4, <2>5, <2>6, <3>1, WorkplaceStep DEF Committing
  <2>8. ScalarsFine' /\ WorkFine' /\ StepFine'
    BY <1>0, <2>1 DEF ScalarsFine, WorkFine, StepFine
  <2> QED
    BY <2>7, <2>8 DEF ChapterInv
<1>4. CASE WriteManifest
  <2> DEFINE e == [d EXCEPT !.manifest = target]
  <2>1. /\ d # NoDir /\ at' = (IF kind = "jm" THEN "check" ELSE "seed")
        /\ page' = 1
        /\ \/ d.manifest \in {"none", target}
           \/ \A p \in Pages : {d.file[p], d.sum[p]} = {"none"}
        /\ dir' = [dir EXCEPT ![Workplace] = e]
    BY <1>4 DEF WriteManifest
  <2>2. /\ Fine(d) /\ Known(d, rotten)
        /\ kind = "pica" => Workplace = "stage" /\ d.mark = {}
        /\ kind = "jm" => Workplace = "dst"
    BY <2>1, WorkplaceFine
  <2> HIDE DEF d
  <2>3. /\ Fine(e) /\ e.manifest = target /\ e.mark = d.mark
        /\ e.file = d.file
        /\ \A p \in Pages : d.file[p] # "none" => d.manifest = target
    BY <1>0, <2>1, <2>2, ManifestFine
  <2> HIDE DEF e
  <2>4. Known(e, rotten)
    BY <2>2, <2>3 DEF Known
  <2>5. /\ DirsFine' /\ KindFine' /\ dir'[Workplace] = e /\ e # NoDir
        /\ Workplace' = Workplace
    <3>1. kind = "pica" =>
            /\ e.mark = {}
            /\ \A q \in Pages : e.file[q] = "broken" =>
                  /\ stage # NoDir /\ stage.manifest = e.manifest
                  /\ stage.file[q] = "broken"
      BY <2>1, <2>2, <2>3 DEF d
    <3>2. kind = "jm" => at' \notin Committing
      BY <2>1 DEF Committing
    <3> QED
      BY <1>0, <2>1, <2>3, <2>4, <3>1, <3>2, WorkplaceStep
  <2>6. ScalarsFine'
    BY <1>0, <2>1, ChapterAssumption DEF ScalarsFine, Steps
  <2>7. WorkFine'
    BY <1>0, <2>1 DEF WorkFine
  <2>8. StepFine'
    BY <1>0, <2>1, <2>2, <2>3, <2>5 DEF StepFine
  <2> QED
    BY <2>5, <2>6, <2>7, <2>8 DEF ChapterInv
<1> QED
  BY <1>2, <1>3, <1>4

\* A worker has done something of page p.
LEMMA PageStep ==
  ASSUME ChapterInv, at = "fetch", at' = at,
         UNCHANGED <<kind, target, page, life>>,
         NEW p \in Pages, work[p] # "done",
         NEW w \in {"saved", "sealed", "done"}, work' = [work EXCEPT ![p] = w],
         NEW e, dir' = [dir EXCEPT ![Workplace] = e],
         Fine(e), Known(e, rotten), e.manifest = target,
         kind = "pica" => e.mark = {},
         \A q \in Pages \ {p} : e.file[q] = dir[Workplace].file[q],
         \/ e.file[p] = target
         \/ /\ w = "done" /\ p \in rotten
            /\ e.file[p] = "broken" /\ dir[Workplace].file[p] = "broken"
  PROVE  ChapterInv'
<1>0. /\ ScalarsFine /\ DirsFine /\ KindFine /\ WorkFine /\ StepFine
      /\ kind \in {"pica", "jm"} /\ target \in Manifests
      /\ UNCHANGED <<upstream, rotten, repair, used>>
  BY DEF ChapterInv, ScalarsFine, life
<1>1. dir[Workplace] # NoDir /\ dir[Workplace].manifest = target
  BY <1>0 DEF StepFine
<1>2. target # "broken"
  BY <1>0, ChapterAssumption
<1>3. kind = "pica" => Workplace = "stage"
  BY DEF Workplace
<1>4. \A q \in Pages : e.file[q] = "broken" =>
         dir[Workplace].file[q] = "broken"
  BY <1>2
<1>5. /\ DirsFine' /\ KindFine' /\ dir'[Workplace] = e /\ e # NoDir
      /\ Workplace' = Workplace
  <2>1. kind = "pica" =>
          /\ e.mark = {}
          /\ \A q \in Pages : e.file[q] = "broken" =>
                /\ stage # NoDir /\ stage.manifest = e.manifest
                /\ stage.file[q] = "broken"
    BY <1>1, <1>3, <1>4
  <2> QED
    BY <1>0, <2>1, WorkplaceStep DEF Committing
<1>6. work \in [Pages -> {"todo", "saved", "sealed", "done", "failed"}]
  BY <1>0 DEF ScalarsFine
<1>7. work'[p] = w /\ \A q \in Pages \ {p} : work'[q] = work[q]
  BY <1>6
<1>8. ScalarsFine'
  BY <1>0, <1>6 DEF ScalarsFine
<1>9. WorkFine'
  <2>1. \A q \in Pages :
           /\ work[q] # "done" => q \in PagesOf(target)
           /\ work[q] \in {"saved", "sealed"} =>
                 dir[Workplace].file[q] = target
           /\ work[q] = "done" /\ q \in PagesOf(target) =>
                 \/ dir[Workplace].file[q] = target
                 \/ dir[Workplace].file[q] = "broken" /\ q \in rotten
    BY <1>0 DEF WorkFine
  <2>2. \A q \in Pages :
           /\ work'[q] # "done" => q \in PagesOf(target)
           /\ work'[q] \in {"saved", "sealed"} => e.file[q] = target
           /\ work'[q] = "done" /\ q \in PagesOf(target) =>
                 e.file[q] = target \/ (e.file[q] = "broken" /\ q \in rotten)
    BY <1>7, <2>1
  <2> QED
    BY <1>0, <1>5, <2>2 DEF WorkFine, PagesOf
<1>10. StepFine'
  BY <1>0, <1>5 DEF StepFine
<1> QED
  BY <1>5, <1>8, <1>9, <1>10 DEF ChapterInv

LEMMA FetchStep ==
  ASSUME ChapterInv, NEW p \in Pages,
         SkipPage(p) \/ FetchPage(p) \/ SaveReceipt(p) \/ ClearMark(p)
  PROVE  ChapterInv'
<1> DEFINE d == dir[Workplace]
<1>0. /\ at = "fetch" /\ at' = at /\ UNCHANGED <<kind, target, page, life>>
      /\ work[p] # "done" /\ target \in Manifests /\ p \in PagesOf(target)
      /\ d # NoDir /\ d.manifest = target
      /\ work[p] \in {"saved", "sealed"} => d.file[p] = target
  <2>1. /\ at = "fetch" /\ at' = at /\ work[p] # "done"
        /\ UNCHANGED <<kind, target, page, life>>
    BY DEF SkipPage, FetchPage, SaveReceipt, ClearMark
  <2> QED
    BY <2>1 DEF ChapterInv, ScalarsFine, WorkFine, StepFine
<1>2. /\ Fine(d) /\ Known(d, rotten)
      /\ kind = "pica" => d.mark = {}
  BY <1>0, WorkplaceFine
<1>3. target \notin {"none", "broken"}
  BY <1>0, ChapterAssumption
<1>4. d.mark \in SUBSET Pages /\ d.mark \ {p} \in SUBSET Pages
  BY <1>2 DEF Fine, Dirs
<1>5. CASE SkipPage(p)
  <2> DEFINE e == Sealed(d, {p})
  <2>1. Valid(d, p) /\ work' = [work EXCEPT ![p] = "done"]
        /\ dir' = [dir EXCEPT ![Workplace] = e]
    BY <1>5 DEF SkipPage
  <2>2. d.file[p] \in {"broken", target} /\ p \notin d.mark
    BY <1>0, <1>2, <2>1, ValidPage
  <2>3. {p} \in SUBSET Pages /\ \A q \in {p} : Valid(d, q)
    BY <2>1
  <2>4. /\ Fine(e) /\ e.manifest = d.manifest /\ e.mark = d.mark
        /\ e.file = d.file
    BY <1>2, <2>3, SealedValid
  <2> HIDE DEF e
  <2>5. Known(e, rotten) /\ (d.file[p] = "broken" => p \in rotten)
    BY <1>2, <2>2, <2>4 DEF Known
  <2> QED
    BY <1>0, <1>2, <2>1, <2>2, <2>4, <2>5, PageStep
<1>6. CASE FetchPage(p)
  <2> DEFINE e == WithFile(d, p, target)
  <2>1. dir' = [dir EXCEPT ![Workplace] = e]
        /\ work' = [work EXCEPT ![p] = "saved"]
    BY <1>6 DEF FetchPage, WithFile
  <2>2. /\ Fine(e) /\ e.manifest = d.manifest /\ e.mark = d.mark
        /\ e.file[p] = target
        /\ \A q \in Pages \ {p} : e.file[q] = d.file[q]
    BY <1>0, <1>2, <1>3, FileFine
  <2> HIDE DEF e, d
  <2>3. Known(e, rotten)
    BY <1>2, <1>3, <2>2 DEF Known
  <2> QED
    BY <1>0, <1>2, <2>1, <2>2, <2>3, PageStep DEF d
<1>7. CASE SaveReceipt(p)
  <2> DEFINE e == WithSum(d, p, target)
  <2>1. dir' = [dir EXCEPT ![Workplace] = e]
        /\ work' = [work EXCEPT ![p] = "sealed"] /\ d.file[p] = target
    BY <1>0, <1>7 DEF SaveReceipt, WithSum
  <2>2. /\ Fine(e) /\ e.manifest = d.manifest /\ e.mark = d.mark
        /\ e.file = d.file
    BY <1>0, <1>2, <1>3, SumFine
  <2> HIDE DEF e, d
  <2>3. Known(e, rotten)
    BY <1>2, <2>2 DEF Known
  <2> QED
    BY <1>0, <1>2, <2>1, <2>2, <2>3, PageStep DEF d
<1>8. CASE ClearMark(p)
  <2> DEFINE e == [d EXCEPT !.mark = d.mark \ {p}]
  <2>1. dir' = [dir EXCEPT ![Workplace] = e]
        /\ work' = [work EXCEPT ![p] = "done"] /\ d.file[p] = target
    BY <1>0, <1>8 DEF ClearMark
  <2>2. /\ Fine(e) /\ e.manifest = d.manifest /\ e.mark = d.mark \ {p}
        /\ e.file = d.file
    BY <1>2, <1>4, MarkFine
  <2> HIDE DEF e, d
  <2>3. Known(e, rotten)
    BY <1>2, <1>3, <2>1, <2>2 DEF Known
  <2> QED
    BY <1>0, <1>2, <2>1, <2>2, <2>3, PageStep DEF d
<1> QED
  BY <1>5, <1>6, <1>7, <1>8

\* A page fails, the rest is given up, or the workers are done.
LEMMA FetchOverStep ==
  ASSUME ChapterInv,
         FetchCanceled \/ FetchEnds \/ \E p \in Pages : PageFails(p)
  PROVE  ChapterInv'
<1>0. /\ ScalarsFine /\ DirsFine /\ KindFine /\ WorkFine /\ StepFine
      /\ at = "fetch" /\ kind \in {"pica", "jm"} /\ target \in Manifests
      /\ UNCHANGED <<kind, dir, target, page, upstream, rotten, repair>>
  BY DEF ChapterInv, ScalarsFine, FetchCanceled, FetchEnds, PageFails, life
<1>1. /\ used' \in [DOMAIN Limits -> Nat]
      /\ dir[Workplace] # NoDir /\ dir[Workplace].manifest = target
      /\ Workplace' = Workplace
  BY <1>0, Spent
  DEF ScalarsFine, StepFine, Workplace, FetchCanceled, FetchEnds, PageFails, life
<1>2. work \in [Pages -> {"todo", "saved", "sealed", "done", "failed"}]
  BY <1>0 DEF ScalarsFine
<1>3. CASE FetchCanceled \/ \E p \in Pages : PageFails(p)
  <2>1. /\ at' = at
        /\ work' \in [Pages -> {"todo", "saved", "sealed", "done", "failed"}]
        /\ \A q \in Pages : \/ work'[q] = work[q]
                            \/ work'[q] = "failed" /\ work[q] # "done"
    BY <1>2, <1>3 DEF FetchCanceled, PageFails
  <2>2. DirsFine' /\ KindFine'
    BY <1>0, <2>1, SameDirs DEF Committing
  <2>3. WorkFine'
    BY <1>0, <1>1, <2>1 DEF WorkFine, PagesOf
  <2>4. ScalarsFine' /\ StepFine'
    BY <1>0, <1>1, <2>1 DEF ScalarsFine, StepFine
  <2> QED
    BY <2>2, <2>3, <2>4 DEF ChapterInv
<1>4. CASE FetchEnds
  <2>1. /\ work' = work
        /\ \/ at' = "idle"
           \/ /\ at' = (IF kind = "jm" THEN "done" ELSE "recover")
              /\ \A p \in Pages : work[p] = "done"
    BY <1>2, <1>4 DEF FetchEnds
  <2>2. DirsFine' /\ KindFine'
    BY <1>0, <2>1, SameDirs DEF Committing
  <2>3. ScalarsFine' /\ WorkFine'
    BY <1>0, <1>1, <2>1 DEF ScalarsFine, WorkFine, Steps
  <2>4. at' # "idle" => Whole(dir[Workplace], target, rotten)
    <3> SUFFICES ASSUME at' # "idle", NEW p \in PagesOf(target)
                 PROVE  \/ dir[Workplace].file[p] = target
                        \/ dir[Workplace].file[p] = "broken" /\ p \in rotten
      BY <1>1 DEF Whole
    <3>1. p \in Pages
      BY <1>0, PagesType
    <3> QED
      BY <1>0, <2>1, <3>1 DEF WorkFine
  <2>5. StepFine'
    BY <1>0, <2>1, <2>4 DEF StepFine, Whole, Workplace, PagesOf
  <2> QED
    BY <2>2, <2>3, <2>5 DEF ChapterInv
<1> QED
  BY <1>3, <1>4

\* seedChapterRepair: what it copies is of the list, or known to be bad.
LEMMA SeedStep ==
  ASSUME ChapterInv, SeedPage \/ SeedReceipt \/ SeedEnds
  PROVE  ChapterInv'
<1>0. /\ ScalarsFine /\ DirsFine /\ KindFine /\ WorkFine /\ StepFine
      /\ at \in {"seed", "receipt"} /\ kind \in {"pica", "jm"}
      /\ target \in Manifests
      /\ UNCHANGED <<kind, target, work, upstream, rotten, repair, used>>
  BY DEF ChapterInv, ScalarsFine, SeedPage, SeedReceipt, SeedEnds, life
<1>1. /\ kind = "pica" /\ Workplace = "stage" /\ Workplace' = "stage"
      /\ stage # NoDir /\ stage.manifest = target
  BY <1>0 DEF KindFine, StepFine, Workplace
<1>2. /\ dir \in [Places -> Dirs \cup {NoDir}] /\ Places = {"dst", "stage", "prev"}
      /\ Fine(stage) /\ Known(stage, rotten) /\ stage.mark = {}
      /\ dst # NoDir => Fine(dst) /\ Known(dst, rotten)
  BY <1>0, <1>1 DEF DirsFine, Places
<1>3. /\ target \notin {"none", "broken"} /\ PagesOf(target) \subseteq Pages
      /\ Length[target] \in Nat /\ Length[target] <= MaxPages
      /\ MaxPages \in Nat /\ page \in 1..(MaxPages + 1)
  BY <1>0, ChapterAssumption, PagesType DEF ScalarsFine
\* What is seen of the staging directory stays true.
<1>4. \A p \in Pages : stage.file[p] = "broken" =>
         /\ Kept # NoDir /\ Kept.manifest = target
         /\ Kept.file[p] # Kept.manifest
  BY <1>0, <1>1 DEF KindFine
<1>5. ASSUME SeedPage PROVE page \in PagesOf(target) /\ page \in Pages
  BY <1>3, <1>5 DEF SeedPage, PagesOf
<1>6. \A s \in {"seed", "receipt"} : at' = s => WorkFine'
  BY <1>0, <1>1 DEF WorkFine
<1>7. CASE SeedPage /\ Valid(stage, page)
  <2> DEFINE e == Sealed(stage, {page})
  <2>1. /\ dir' = [dir EXCEPT !["stage"] = e]
        /\ at' = "seed" /\ page' = page + 1
    BY <1>0, <1>7 DEF SeedPage
  <2>2. /\ Fine(e) /\ e.manifest = stage.manifest /\ e.mark = stage.mark
        /\ e.file = stage.file
    BY <1>2, <1>5, <1>7, SealedValid
  <2> HIDE DEF e
  <2>3. Known(e, rotten)
    BY <1>2, <2>2 DEF Known
  <2>4. DirsFine' /\ KindFine'
    BY <1>0, <1>1, <1>2, <1>4, <2>1, <2>2, <2>3, StageStep
  <2>5. dir'["stage"] = e /\ e # NoDir
    BY <1>2, <2>1, <2>2, NoDirType DEF Fine
  <2>6. ScalarsFine'
    BY <1>0, <1>3, <1>5, <1>7, <2>1 DEF ScalarsFine, Steps, PagesOf
  <2>7. StepFine'
    BY <1>0, <1>1, <2>1, <2>2, <2>5 DEF StepFine
  <2> QED
    BY <1>6, <2>1, <2>4, <2>6, <2>7 DEF ChapterInv
<1>8. CASE SeedPage /\ ~Valid(stage, page) /\ ~Has("dst", page)
  <2>1. dir' = dir /\ at' = "seed" /\ page' = page + 1
    BY <1>0, <1>8 DEF SeedPage
  <2>2. DirsFine' /\ KindFine'
    BY <1>0, <1>1, <2>1, SameDirs
  <2>3. ScalarsFine'
    BY <1>0, <1>3, <1>5, <1>8, <2>1 DEF ScalarsFine, Steps, PagesOf
  <2>4. StepFine'
    BY <1>0, <1>1, <2>1 DEF StepFine
  <2> QED
    BY <1>6, <2>1, <2>2, <2>3, <2>4 DEF ChapterInv
<1>9. CASE SeedPage /\ ~Valid(stage, page) /\ Has("dst", page)
  <2> DEFINE b == dst.file[page]
             c == Sealed(dst, {page})
             e == WithFile(stage, page, b)
  <2>1. /\ dst # NoDir /\ Valid(dst, page) /\ ManifestMatches("dst", target)
        /\ at' = "receipt" /\ page' = page
        /\ dir' = [dir EXCEPT !["dst"] = c, !["stage"] = e]
    BY <1>9 DEF SeedPage, Has, WithFile
  <2>2. page \in PagesOf(target) /\ page \in Pages
    BY <1>5, <1>9
  <2>3. /\ dst.manifest = target /\ b \in {"broken", target}
        /\ b = "broken" => page \in rotten
    <3>1. /\ dst.manifest \in Manifests /\ page \notin dst.mark
          /\ b \in {"broken", dst.manifest}
      BY <1>2, <2>1, <2>2, ValidPage
    <3> QED
      BY <1>2, <2>1, <2>2, <3>1, ChapterAssumption
      DEF Known, ManifestMatches
  <2>4. /\ Fine(c) /\ c.manifest = target /\ c.mark = dst.mark
        /\ c.file = dst.file
    BY <1>2, <2>1, <2>2, <2>3, SealedValid
  <2>5. /\ Fine(e) /\ e.manifest = target /\ e.mark = {}
        /\ e.file[page] = b
        /\ \A q \in Pages \ {page} : e.file[q] = stage.file[q]
    <3>1. /\ b \in {"broken", "damaged", stage.manifest}
          /\ stage.manifest # "none" /\ page \in PagesOf(stage.manifest)
      BY <1>1, <1>3, <2>2, <2>3
    <3> HIDE DEF b
    <3> QED
      BY <1>1, <1>2, <2>2, <3>1, FileFine
  <2>6. Known(c, rotten)
    <3> HIDE DEF c
    <3> QED
      BY <1>2, <2>1, <2>4 DEF Known
  <2>7. Known(e, rotten)
    <3> HIDE DEF e
    <3> QED
      BY <1>2, <2>2, <2>3, <2>5 DEF Known
  <2>8. c \in Dirs /\ e \in Dirs /\ c # NoDir /\ e # NoDir
    BY <2>4, <2>5, NoDirType DEF Fine
  <2>9. /\ dir' \in [Places -> Dirs \cup {NoDir}]
        /\ dir'["dst"] = c /\ dir'["stage"] = e /\ dir'["prev"] = prev
    <3> HIDE DEF c, e
    <3> QED
      BY <1>2, <2>1, <2>8
  <2> HIDE DEF c, e
  <2>10. DirsFine'
    BY <1>0, <2>4, <2>5, <2>6, <2>7, <2>8, <2>9 DEF DirsFine
  <2>11. KindFine'
    <3>1. Kept = dst /\ Kept' = c
      BY <2>1, <2>8, <2>9 DEF Kept
    <3>2. target # "none"
      BY <1>3
    <3>3. ASSUME NEW q \in Pages, e.file[q] = "broken"
          PROVE  c.file[q] # target
      <4>1. CASE q = page
        BY <1>3, <2>3, <2>4, <2>5, <3>3, <4>1
      <4>2. CASE q # page
        <5>1. stage.file[q] = "broken"
          BY <2>5, <3>3, <4>2
        <5> QED
          BY <1>4, <2>3, <2>4, <3>1, <5>1
      <4> QED
        BY <4>1, <4>2
    <3> QED
      BY <1>0, <1>1, <2>4, <2>5, <2>8, <2>9, <3>1, <3>2, <3>3 DEF KindFine
  <2>12. ScalarsFine'
    BY <1>0, <2>1 DEF ScalarsFine, Steps
  <2>13. StepFine'
    BY <1>0, <1>1, <2>1, <2>2, <2>3, <2>5, <2>8, <2>9 DEF StepFine, PagesOf
  <2> QED
    BY <1>6, <2>1, <2>10, <2>11, <2>12, <2>13 DEF ChapterInv
<1>10. CASE SeedReceipt
  <2> DEFINE e == Sealed(stage, {page})
  <2>1. /\ dir' = [dir EXCEPT !["stage"] = e] /\ at = "receipt"
        /\ at' = "seed" /\ page' = page + 1
    BY <1>10 DEF SeedReceipt
  <2>2. page \in PagesOf(target) /\ stage.file[page] \in {target, "broken"}
    BY <1>0, <2>1 DEF StepFine
  <2>3. page \in Pages
    BY <1>3, <2>2
  <2>4. /\ Fine(e) /\ e.manifest = stage.manifest /\ e.mark = stage.mark
        /\ e.file = stage.file
    <3>1. {page} \in SUBSET Pages /\
          \A p \in {page} : /\ stage.file[p] \in {"broken", stage.manifest}
                            /\ stage.file[p] # "none"
      BY <1>1, <1>3, <2>2, <2>3
    <3> QED
      BY <1>2, <3>1, SealedFine
  <2> HIDE DEF e
  <2>5. Known(e, rotten)
    BY <1>2, <2>4 DEF Known
  <2>6. DirsFine' /\ KindFine'
    BY <1>0, <1>1, <1>2, <1>4, <2>1, <2>4, <2>5, StageStep
  <2>7. dir'["stage"] = e /\ e # NoDir
    BY <1>2, <2>1, <2>4, NoDirType DEF Fine
  <2>8. ScalarsFine'
    BY <1>0, <1>3, <2>1, <2>2 DEF ScalarsFine, Steps, PagesOf
  <2>9. StepFine'
    BY <1>0, <1>1, <2>1, <2>4, <2>7 DEF StepFine
  <2> QED
    BY <1>6, <2>1, <2>6, <2>8, <2>9 DEF ChapterInv
<1>11. CASE SeedEnds
  <2>1. dir' = dir /\ at = "seed" /\ at' = "fetch" /\ page' = page
    BY <1>11 DEF SeedEnds
  <2>2. DirsFine' /\ KindFine'
    BY <1>0, <1>1, <2>1, SameDirs
  <2>3. ScalarsFine' /\ StepFine'
    BY <1>0, <1>1, <2>1 DEF ScalarsFine, Steps, StepFine
  <2>4. WorkFine'
    BY <1>0, <2>1 DEF WorkFine
  <2> QED
    BY <2>2, <2>3, <2>4 DEF ChapterInv
<1> QED
  BY <1>7, <1>8, <1>9, <1>10, <1>11

\* What is kept of a directory of which a part has been removed.
LEMMA PartType ==
  ASSUME NEW d \in Dirs, NEW S \in SUBSET Pages, NEW m \in {d.manifest, "none"}
  PROVE  LET e == Part(d, S, m)
         IN  /\ e \in Dirs
             /\ \A p \in Pages : e.file[p] \in {"none", d.file[p]}
<1> DEFINE e == Part(d, S, m)
           f == [p \in Pages |-> IF p \in S THEN d.file[p] ELSE "none"]
           g == [p \in Pages |-> IF p \in S THEN d.sum[p] ELSE "none"]
<1>2. f \in [Pages -> Bytes] /\ g \in [Pages -> Bytes]
  BY DEF Dirs, Bytes
<1>3. \A p \in Pages : f[p] \in {"none", d.file[p]}
  OBVIOUS
<1>4. e = [d EXCEPT !.manifest = m, !.file = f, !.sum = g]
  BY DEF Part
<1> DEFINE h == [d EXCEPT !.manifest = m, !.file = f]
<1> HIDE DEF f, g
<1>5. h \in Dirs /\ h.file = f
  BY <1>2 DEF Dirs
<1>6. e = [h EXCEPT !.sum = g]
  BY <1>4 DEF Dirs
<1> HIDE DEF e, h
<1>7. e \in Dirs /\ e.file = f
  BY <1>2, <1>5, <1>6 DEF Dirs
<1> QED
  BY <1>3, <1>7 DEF e

\* commitChapter: the steps around the two renames.
LEMMA CommitStep ==
  ASSUME ChapterInv,
         Recover \/ Clear \/ Swap \/ Install \/ InstallFails \/ Cleanup
         \/ RemoveStops
  PROVE  ChapterInv'
<1>0. /\ ScalarsFine /\ DirsFine /\ KindFine /\ WorkFine /\ StepFine
      /\ at \in {"recover", "clear", "swap", "install", "cleanup"}
      /\ UNCHANGED <<kind, target, page, work, upstream, rotten, repair>>
  BY DEF ChapterInv, Recover, Clear, Swap, Install, InstallFails, Cleanup,
         RemoveStops, life
<1>1. kind = "pica"
  BY <1>0 DEF KindFine, ScalarsFine
<1>2. /\ dir \in [Places -> Dirs \cup {NoDir}]
      /\ Places = {"dst", "stage", "prev"}
      /\ dst # NoDir => Fine(dst) /\ Known(dst, rotten)
      /\ dst = NoDir /\ prev # NoDir => Fine(prev) /\ Known(prev, rotten)
      /\ stage # NoDir => Fine(stage) /\ Known(stage, rotten)
  BY <1>0 DEF DirsFine, Places
<1>3. ASSUME NEW d, Fine(d)
      PROVE  \A p \in Pages : d.file[p] \in Manifests => p \in PagesOf(d.file[p])
  BY <1>3, ChapterAssumption DEF Fine
<1>4. ScalarsFine'
  <2>1. used' \in [DOMAIN Limits -> Nat]
    BY <1>0, Spent DEF ScalarsFine, Recover, Clear, Swap, Install,
       InstallFails, Cleanup, RemoveStops, life
  <2>2. at' \in Steps
    BY DEF Recover, Clear, Swap, Install, InstallFails, Cleanup, RemoveStops,
       Steps
  <2> QED
    BY <1>0, <2>1, <2>2 DEF ScalarsFine
<1>5. WorkFine'
  <2>1. at' \in {"idle", "clear", "swap", "install", "cleanup", "done"}
    BY DEF Recover, Clear, Swap, Install, InstallFails, Cleanup, RemoveStops
  <2> QED
    BY <2>1 DEF WorkFine
<1>6. target \in Manifests /\ target # "none"
  BY <1>0, ChapterAssumption DEF ScalarsFine
\* The directories are moved, or what is removed is not the chapter.
<1>7. ASSUME NEW a, NEW b, dir' \in [Places -> Dirs \cup {NoDir}],
             dst' = a, prev' = b, stage' = stage, a = dst \/ a = prev,
             \/ b \in {dst, NoDir}
             \/ /\ prev # NoDir /\ b \in Dirs
                /\ \A p \in Pages : b.file[p] \in {"none", prev.file[p]},
             (IF a # NoDir THEN a ELSE b) = Kept
      PROVE  DirsFine' /\ KindFine' /\ Kept' = Kept
  <2>1. Kept' = Kept
    BY <1>7 DEF Kept
  <2>2. a # NoDir => a = Kept
    BY <1>7
  <2>3. Kept # NoDir => Fine(Kept) /\ Known(Kept, rotten)
    BY <1>2 DEF Kept
  <2>4. b # NoDir =>
           \A p \in Pages : b.file[p] \in Manifests => p \in PagesOf(b.file[p])
    <3>1. prev # NoDir =>
            \A p \in Pages : prev.file[p] \in Manifests =>
                p \in PagesOf(prev.file[p])
      BY <1>0 DEF DirsFine
    <3>2. "none" \notin Manifests
      BY ChapterAssumption
    <3> QED
      BY <1>2, <1>3, <1>7, <3>1, <3>2
  <2>5. DirsFine'
    BY <1>0, <1>7, <2>2, <2>3, <2>4 DEF DirsFine
  <2>6. KindFine'
    BY <1>0, <1>1, <1>7, <2>1 DEF KindFine
  <2> QED
    BY <2>1, <2>5, <2>6
<1>8. CASE Recover
  <2>1. at = "recover" /\ at' = "clear" /\ Whole(stage, target, rotten)
    BY <1>0, <1>8 DEF Recover, StepFine
  <2>2. CASE dst = NoDir
    <3>1. dir' = Renamed("prev", "dst")
      BY <1>8, <2>2 DEF Recover
    <3>2. /\ dir' \in [Places -> Dirs \cup {NoDir}]
          /\ dst' = prev /\ prev' = NoDir /\ stage' = stage
      BY <1>2, <3>1 DEF Renamed
    <3>3. DirsFine' /\ KindFine'
      BY <1>7, <2>2, <3>2 DEF Kept
    <3>4. StepFine'
      BY <1>0, <1>1, <2>1, <3>2 DEF StepFine
    <3> QED
      BY <1>4, <1>5, <3>3, <3>4 DEF ChapterInv
  <2>3. CASE dst # NoDir
    <3>1. dir' = dir
      BY <1>8, <2>3 DEF Recover
    <3>2. DirsFine' /\ KindFine'
      BY <1>0, <1>1, <3>1, SameDirs
    <3>3. StepFine'
      BY <1>0, <1>1, <2>1, <2>3, <3>1 DEF StepFine
    <3> QED
      BY <1>4, <1>5, <3>2, <3>3 DEF ChapterInv
  <2> QED
    BY <2>2, <2>3
<1>9. CASE Clear \/ Cleanup
  <2>1. /\ dir' \in [Places -> Dirs \cup {NoDir}]
        /\ dst' = dst /\ prev' = NoDir /\ stage' = stage
        /\ \/ at = "clear" /\ at' = "swap" /\ Whole(stage, target, rotten)
           \/ at = "cleanup" /\ at' = "done" /\ Whole(dst, target, rotten)
    BY <1>0, <1>2, <1>9 DEF Clear, Cleanup, StepFine
  <2>2. (IF dst # NoDir THEN dst ELSE NoDir) = Kept
    BY <1>0, <2>1 DEF StepFine, Kept, Whole
  <2>3. DirsFine' /\ KindFine'
    BY <1>7, <2>1, <2>2
  <2>4. StepFine'
    BY <1>0, <2>1 DEF StepFine, Whole
  <2> QED
    BY <1>4, <1>5, <2>3, <2>4 DEF ChapterInv
<1>10. CASE Swap
  <2>1. at = "swap" /\ prev = NoDir /\ Whole(stage, target, rotten)
    BY <1>0, <1>10 DEF Swap, StepFine
  <2>2. at' = "install"
    BY <1>10, <2>1 DEF Swap
  <2>3. CASE dst = NoDir
    <3>1. dir' = dir
      BY <1>10, <2>3 DEF Swap
    <3>2. DirsFine' /\ KindFine'
      BY <1>0, <1>1, <3>1, SameDirs
    <3>3. StepFine'
      BY <1>0, <2>1, <2>2, <2>3, <3>1 DEF StepFine
    <3> QED
      BY <1>4, <1>5, <3>2, <3>3 DEF ChapterInv
  <2>4. CASE dst # NoDir
    <3>1. dir' = Renamed("dst", "prev")
      BY <1>10, <2>1, <2>4 DEF Swap
    <3>2. /\ dir' \in [Places -> Dirs \cup {NoDir}]
          /\ dst' = NoDir /\ prev' = dst /\ stage' = stage
      BY <1>2, <3>1 DEF Renamed
    <3>3. DirsFine' /\ KindFine'
      BY <1>7, <2>1, <2>4, <3>2 DEF Kept
    <3>4. StepFine'
      BY <1>0, <2>1, <2>2, <3>2 DEF StepFine
    <3> QED
      BY <1>4, <1>5, <3>3, <3>4 DEF ChapterInv
  <2> QED
    BY <2>3, <2>4
<1>11. CASE Install
  <2>1. /\ at = "install" /\ at' = "cleanup" /\ dst = NoDir
        /\ Whole(stage, target, rotten)
    BY <1>0, <1>11 DEF Install, StepFine
  <2>2. dir' = Renamed("stage", "dst")
    BY <1>11 DEF Install
  <2>3. /\ dir' \in [Places -> Dirs \cup {NoDir}]
        /\ dst' = stage /\ prev' = prev /\ stage' = NoDir
    BY <1>2, <2>2 DEF Renamed
  <2>4. DirsFine'
    BY <1>0, <1>2, <2>1, <2>3 DEF DirsFine, Whole
  <2>5. KindFine'
    BY <1>0, <1>1, <1>6, <2>1, <2>3 DEF KindFine, Kept, Whole
  <2>6. StepFine'
    BY <1>0, <2>1, <2>3 DEF StepFine
  <2> QED
    BY <1>4, <1>5, <2>4, <2>5, <2>6 DEF ChapterInv
<1>12. CASE InstallFails
  <2>1. at = "install" /\ at' = "idle" /\ dst = NoDir
    BY <1>0, <1>12 DEF InstallFails, StepFine
  <2>2. dir' = Renamed("prev", "dst")
    BY <1>12 DEF InstallFails
  <2>3. /\ dir' \in [Places -> Dirs \cup {NoDir}]
        /\ dst' = prev /\ prev' = NoDir /\ stage' = stage
    BY <1>2, <2>2 DEF Renamed
  <2>4. DirsFine' /\ KindFine'
    BY <1>7, <2>1, <2>3 DEF Kept
  <2>5. StepFine'
    BY <2>1 DEF StepFine
  <2> QED
    BY <1>4, <1>5, <2>4, <2>5 DEF ChapterInv
<1>13. CASE RemoveStops
  <2>1. PICK S \in SUBSET Pages, m \in {prev.manifest, "none"} :
           dir' = [dir EXCEPT !["prev"] = Part(prev, S, m)]
    BY <1>13 DEF RemoveStops
  <2> DEFINE e == Part(prev, S, m)
  <2>2. prev # NoDir /\ prev \in Dirs /\ dst # NoDir /\ at' = "idle"
    BY <1>0, <1>2, <1>13 DEF RemoveStops, StepFine, Whole
  <2>3. /\ e \in Dirs /\ dir' = [dir EXCEPT !["prev"] = e]
        /\ \A p \in Pages : e.file[p] \in {"none", prev.file[p]}
    BY <2>1, <2>2, PartType
  <2> HIDE DEF e
  <2>4. /\ dir' \in [Places -> Dirs \cup {NoDir}]
        /\ dst' = dst /\ prev' = e /\ stage' = stage
    BY <1>2, <2>3
  <2>5. DirsFine' /\ KindFine'
    BY <1>7, <2>2, <2>3, <2>4 DEF Kept
  <2>6. StepFine'
    BY <2>2 DEF StepFine
  <2> QED
    BY <1>4, <1>5, <2>5, <2>6 DEF ChapterInv
<1> QED
  BY <1>8, <1>9, <1>10, <1>11, <1>12, <1>13

\* A page is lost or damaged.
LEMMA DecayStep ==
  ASSUME ChapterInv, NEW place \in {"dst", "stage"}, NEW p \in Pages,
         Decay(place, p)
  PROVE  ChapterInv'
<1> DEFINE d == dir[place]
<1>0. /\ ScalarsFine /\ DirsFine /\ KindFine /\ kind \in {"pica", "jm"}
      /\ at' = "idle" /\ d # NoDir /\ d.file[p] # "none"
      /\ UNCHANGED <<kind, at, target, page, work, upstream, rotten, repair>>
  BY DEF ChapterInv, ScalarsFine, Decay
<1>1. ScalarsFine'
  <2>1. used' \in [DOMAIN Limits -> Nat]
    BY <1>0, Spent DEF ScalarsFine, Decay
  <2> QED
    BY <1>0, <2>1 DEF ScalarsFine
<1>2. WorkFine' /\ StepFine'
  BY <1>0 DEF WorkFine, StepFine
<1>3. PICK b \in {"none", "damaged"} :
         dir' = [dir EXCEPT ![place] = WithFile(d, p, b)]
  BY DEF Decay, WithFile
<1>4. /\ Fine(d) /\ Known(d, rotten)
      /\ place = "stage" => d.mark = {}
  BY <1>0 DEF DirsFine
<1>5. d.manifest # "none" /\ p \in PagesOf(d.manifest)
  BY <1>0, <1>4 DEF Fine
<1>6. b \notin Manifests /\ b # "broken"
  BY ChapterAssumption
<1> DEFINE e == WithFile(d, p, b)
<1>7. /\ Fine(e) /\ e.manifest = d.manifest /\ e.mark = d.mark
      /\ \A q \in Pages : \/ e.file[q] = d.file[q]
                          \/ e.file[q] \notin Manifests /\ e.file[q] # "broken"
  <2> HIDE DEF d
  <2>1. /\ Fine(e) /\ e.manifest = d.manifest /\ e.mark = d.mark
        /\ e.file[p] = b /\ \A q \in Pages \ {p} : e.file[q] = d.file[q]
    BY <1>4, <1>5, FileFine
  <2> HIDE DEF e
  <2> QED
    BY <1>6, <2>1
<1>8. dir' = [dir EXCEPT ![place] = e]
  BY <1>3
<1> HIDE DEF e
<1>9. Known(e, rotten)
  BY <1>4, <1>7 DEF Known
<1>10. CASE place = "dst"
  <2>1. stage # NoDir => Known(stage, rotten)
    BY <1>0 DEF DirsFine
  <2>2. DirsFine' /\ KindFine'
    BY <1>0, <1>7, <1>8, <1>9, <1>10, <2>1, DstStep DEF Committing
  <2> QED
    BY <1>1, <1>2, <2>2 DEF ChapterInv
<1>11. CASE place = "stage"
  <2>1. kind = "pica"
    BY <1>0, <1>11 DEF KindFine
  <2>2. \A q \in Pages : e.file[q] = "broken" =>
           /\ Kept # NoDir /\ Kept.manifest = e.manifest
           /\ Kept.file[q] # Kept.manifest
    BY <1>0, <1>7, <1>11, <2>1 DEF KindFine
  <2>3. DirsFine' /\ KindFine'
    BY <1>0, <1>4, <1>7, <1>8, <1>9, <1>11, <2>1, <2>2, StageStep
  <2> QED
    BY <1>1, <1>2, <2>3 DEF ChapterInv
<1> QED
  BY <1>10, <1>11

\* A page turns out to be stored badly, or bad pages are marked.
LEMMA RepairStep ==
  ASSUME ChapterInv, Repair \/ \E p \in Pages : StoredBroken(p)
  PROVE  ChapterInv'
<1>0. /\ ScalarsFine /\ DirsFine /\ KindFine
      /\ at' = "idle" /\ dst # NoDir
      /\ UNCHANGED <<kind, at, target, page, work, upstream>>
  BY DEF ChapterInv, ScalarsFine, Repair, StoredBroken
<1>1. /\ Fine(dst) /\ Known(dst, rotten)
      /\ stage # NoDir => Known(stage, rotten) /\ stage.mark = {}
  BY <1>0 DEF DirsFine
<1>2. WorkFine' /\ StepFine'
  BY <1>0 DEF WorkFine, StepFine
<1>3. CASE Repair
  <2>1. PICK S \in SUBSET Pages :
          /\ dir' = [dir EXCEPT !["dst"].mark = @ \cup S]
          /\ repair' = repair \cup S
          /\ rotten' = {p \in rotten : \/ p \notin S
                                       \/ /\ stage # NoDir
                                          /\ stage.file[p] = "broken"}
    BY <1>3 DEF Repair
  <2> DEFINE M == dst.mark \cup S
             e == [dst EXCEPT !.mark = M]
  <2>2. M \in SUBSET Pages
    BY <1>1 DEF Fine, Dirs
  <2>3. /\ Fine(e) /\ e.manifest = dst.manifest /\ e.mark = M
        /\ e.file = dst.file
    <3> HIDE DEF M
    <3> QED
      BY <1>1, <2>2, MarkFine
  <2>4. dir' = [dir EXCEPT !["dst"] = e]
    BY <2>1
  <2> HIDE DEF e
  <2>5. Known(e, rotten')
    BY <1>1, <2>1, <2>3 DEF Known
  <2>6. stage # NoDir => Known(stage, rotten')
    BY <1>1, <2>1 DEF Known
  <2>7. DirsFine' /\ KindFine'
    BY <1>0, <2>3, <2>4, <2>5, <2>6, DstStep DEF Committing
  <2>8. used' = used
    BY <1>3 DEF Repair
  <2>9. ScalarsFine'
    BY <1>0, <2>1, <2>8 DEF ScalarsFine
  <2> QED
    BY <1>2, <2>7, <2>9 DEF ChapterInv
<1>4. ASSUME NEW p \in Pages, StoredBroken(p) PROVE ChapterInv'
  <2> DEFINE f == WithFile(dst, p, "broken")
             e == WithSum(f, p, "broken")
  <2>1. /\ dst.file[p] # "none" /\ rotten' = rotten \cup {p}
        /\ repair' = repair \ {p}
    BY <1>4 DEF StoredBroken
  <2>2. dst.manifest # "none" /\ p \in PagesOf(dst.manifest)
    BY <1>1, <2>1 DEF Fine
  <2>3. /\ Fine(f) /\ f.manifest = dst.manifest /\ f.mark = dst.mark
        /\ f.file[p] = "broken"
        /\ \A q \in Pages \ {p} : f.file[q] = dst.file[q]
    BY <1>1, <2>2, FileFine
  <2>4. dir' = [dir EXCEPT !["dst"] = e]
    <3>1. e = [dst EXCEPT !.file[p] = "broken", !.sum[p] = "broken"]
      BY <1>1 DEF WithFile, WithSum, Fine, Dirs
    <3> QED
      BY <1>4, <3>1 DEF StoredBroken
  <2> HIDE DEF f
  <2>5. /\ Fine(e) /\ e.manifest = f.manifest /\ e.mark = f.mark
        /\ e.file = f.file
    BY <2>2, <2>3, SumFine
  <2> HIDE DEF e
  <2>6. /\ Known(e, rotten')
        /\ \A q \in Pages :
              e.file[q] = dst.file[q] \/ e.file[q] \notin Manifests
    BY <1>1, <2>1, <2>3, <2>5, ChapterAssumption DEF Known
  <2>7. stage # NoDir => Known(stage, rotten')
    BY <1>1, <2>1 DEF Known
  <2>8. DirsFine' /\ KindFine'
    BY <1>0, <2>3, <2>4, <2>5, <2>6, <2>7, DstStep DEF Committing
  <2>9. ScalarsFine'
    <3>1. used' \in [DOMAIN Limits -> Nat]
      BY <1>0, <1>4, Spent DEF ScalarsFine, StoredBroken
    <3> QED
      BY <1>0, <2>1, <3>1 DEF ScalarsFine
  <2> QED
    BY <1>2, <2>8, <2>9 DEF ChapterInv
<1> QED
  BY <1>3, <1>4

LEMMA StepInv == ChapterInv /\ [Next]_vars => ChapterInv'
BY QuietStep, CheckStep, PrepareStep, SeedStep, FetchStep, FetchOverStep,
   CommitStep, DecayStep, RepairStep
DEF Next, Progress, Failure, Between

LEMMA ChapterInvariance == Spec => []ChapterInv
BY InitInv, StepInv, PTL DEF Spec

-----------------------------------------------------------------------------
(* The properties.                                                         *)

\* The directories, the pages in them and the steps of a download keep their
\* types, for every list and every bound on what may fail.
THEOREM ChapterTypeCorrect == Spec => []TypeOK
<1>1. ChapterInv => TypeOK
  BY DEF ChapterInv, ScalarsFine, DirsFine, TypeOK
<1> QED
  BY ChapterInvariance, <1>1, PTL

\* saveChapter: a chapter that is reported as done holds the pages of the list
\* that was fetched and no other, after any number of crashes, failures,
\* changes of the list and damages; only bad bytes under a receipt of their own
\* get past it.
THEOREM ChapterWhole == Spec => []DoneIsWhole
<1>1. ChapterInv => DoneIsWhole
  <2> SUFFICES ASSUME ChapterInv PROVE DoneIsWhole
    OBVIOUS
  <2>1. /\ dst # NoDir => Fine(dst)
        /\ stage # NoDir => Fine(stage)
    BY DEF ChapterInv, DirsFine
  <2>2. ASSUME at = "done"
        PROVE  /\ dst # NoDir /\ dst.manifest = target
               /\ \A p \in Pages :
                     IF p \in PagesOf(target)
                     THEN dst.file[p] = target \/ p \in rotten
                     ELSE dst.file[p] = "none"
    BY <2>1, <2>2 DEF ChapterInv, StepFine, Fine
  <2>3. ASSUME NEW place \in {"dst", "stage"}, NEW p \in Pages,
               dir[place] # NoDir
        PROVE  dir[place].file[p] \in
                  {"none", dir[place].manifest} \cup Undecodable
    BY <2>1, <2>3 DEF Fine, Undecodable
  <2> QED
    BY <2>2, <2>3 DEF DoneIsWhole
<1> QED
  BY ChapterInvariance, <1>1, PTL

-----------------------------------------------------------------------------
(* What a step does to the pages.                                          *)

\* The same list and the same pages, whatever receipts and marks there are.
SameFiles(a, b) ==
    /\ a = NoDir <=> b = NoDir
    /\ a # NoDir => b.file = a.file /\ b.manifest = a.manifest

AllSame == \A place \in Places : SameFiles(dir[place], dir'[place])

LEMMA OneDir ==
  ASSUME dir \in [Places -> Dirs \cup {NoDir}], NEW place \in Places,
         NEW e \in Dirs, dir' = [dir EXCEPT ![place] = e],
         dir[place] # NoDir, e.file = dir[place].file,
         e.manifest = dir[place].manifest
  PROVE  AllSame
<1>1. e # NoDir
  BY NoDirType
<1> QED
  BY <1>1 DEF AllSame, SameFiles

LEMMA SealedType ==
  ASSUME NEW d \in Dirs, NEW S
  PROVE  LET e == Sealed(d, S)
         IN  e \in Dirs /\ e.file = d.file /\ e.manifest = d.manifest
<1> DEFINE f == [p \in Pages |-> IF p \in S THEN d.file[p] ELSE d.sum[p]]
           e == Sealed(d, S)
<1>1. f \in [Pages -> Bytes]
  BY DEF Dirs
<1>2. e = [d EXCEPT !.sum = f]
  BY DEF Sealed
<1> HIDE DEF e, f
<1>3. e \in Dirs /\ e.file = d.file /\ e.manifest = d.manifest
  BY <1>1, <1>2 DEF Dirs
<1> QED
  BY <1>3 DEF e

\* Steps that leave all pages as they are.
LEMMA QuietFiles ==
  ASSUME ChapterInv,
         \/ Begin \/ Report \/ StepFails \/ Crash \/ UpstreamChanges
         \/ UNCHANGED vars
         \/ Check \/ CheckFails \/ SeedReceipt \/ SeedEnds
         \/ SeedPage /\ ~(~Valid(stage, page) /\ Has("dst", page))
         \/ FetchCanceled \/ FetchEnds \/ Repair
         \/ \E p \in Pages :
               PageFails(p) \/ SkipPage(p) \/ SaveReceipt(p) \/ ClearMark(p)
  PROVE  AllSame
<1>0. /\ ScalarsFine /\ StepFine /\ DirsFine /\ target \in Manifests
      /\ dir \in [Places -> Dirs \cup {NoDir}]
      /\ {"dst", "stage", Workplace} \subseteq Places
      /\ \A place \in Places : dir[place] # NoDir => dir[place] \in Dirs
  BY DEF ChapterInv, ScalarsFine, DirsFine, Places, Workplace
<1>1. CASE dir' = dir
  BY <1>1 DEF AllSame, SameFiles
<1>2. ASSUME NEW place \in Places, NEW S, dir[place] # NoDir,
             dir' = [dir EXCEPT ![place] = Sealed(dir[place], S)]
      PROVE  AllSame
  <2>1. PICK d \in Dirs : d = dir[place]
    BY <1>0, <1>2
  <2>2. LET e == Sealed(d, S)
        IN  e \in Dirs /\ e.file = d.file /\ e.manifest = d.manifest
    BY SealedType
  <2> QED
    BY <1>0, <1>2, <2>1, <2>2, OneDir
<1>3. CASE Check
  BY <1>0, <1>1, <1>2, <1>3 DEF Check
<1>4. CASE SeedReceipt
  <2>1. stage # NoDir
    <3>1. kind = "pica" /\ at = "receipt"
      BY <1>0, <1>4 DEF ChapterInv, ScalarsFine, KindFine, SeedReceipt
    <3> QED
      BY <1>0, <3>1 DEF StepFine, Workplace
  <2> QED
    BY <1>0, <1>2, <1>4, <2>1 DEF SeedReceipt
<1>5. CASE SeedPage /\ ~(~Valid(stage, page) /\ Has("dst", page))
  <2>1. stage # NoDir
    <3>1. kind = "pica" /\ at = "seed"
      BY <1>0, <1>5 DEF ChapterInv, ScalarsFine, KindFine, SeedPage
    <3> QED
      BY <1>0, <3>1 DEF StepFine, Workplace
  <2> QED
    BY <1>0, <1>1, <1>2, <1>5, <2>1 DEF SeedPage
<1>6. CASE Repair
  <2>1. dst # NoDir /\ dst \in Dirs
    BY <1>0, <1>6 DEF Repair
  <2>2. PICK S \in SUBSET Pages : dir' = [dir EXCEPT !["dst"].mark = @ \cup S]
    BY <1>6 DEF Repair
  <2> DEFINE M == dst.mark \cup S
             e == [dst EXCEPT !.mark = M]
  <2>3. M \in SUBSET Pages
    BY <2>1 DEF Dirs
  <2>4. dir' = [dir EXCEPT !["dst"] = e]
    BY <2>2
  <2>5. e \in Dirs /\ e.file = dst.file /\ e.manifest = dst.manifest
    <3> HIDE DEF M
    <3> QED
      BY <2>1, <2>3 DEF Dirs
  <2> HIDE DEF e
  <2> QED
    BY <1>0, <2>1, <2>4, <2>5, OneDir
<1>7. ASSUME NEW p \in Pages, SkipPage(p) \/ SaveReceipt(p) \/ ClearMark(p)
      PROVE  AllSame
  <2> DEFINE d == dir[Workplace]
  <2>1. d # NoDir /\ d \in Dirs
    BY <1>0, <1>7 DEF StepFine, SkipPage, SaveReceipt, ClearMark
  <2>2. CASE SkipPage(p)
    BY <1>0, <1>2, <2>1, <2>2 DEF SkipPage
  <2>3. CASE SaveReceipt(p)
    <3> DEFINE f == [d.sum EXCEPT ![p] = target]
               e == [d EXCEPT !.sum = f]
    <3>1. f \in [Pages -> Bytes]
      BY <1>0, <2>1 DEF Dirs, Bytes
    <3>2. dir' = [dir EXCEPT ![Workplace] = e]
      BY <2>3 DEF SaveReceipt
    <3>3. e \in Dirs /\ e.file = d.file /\ e.manifest = d.manifest
      <4> HIDE DEF d, f
      <4> QED
        BY <2>1, <3>1 DEF Dirs
    <3> HIDE DEF e
    <3> QED
      BY <1>0, <2>1, <3>2, <3>3, OneDir
  <2>4. CASE ClearMark(p)
    <3> DEFINE M == d.mark \ {p}
               e == [d EXCEPT !.mark = M]
    <3>1. M \in SUBSET Pages
      BY <2>1 DEF Dirs
    <3>2. dir' = [dir EXCEPT ![Workplace] = e]
      BY <2>4 DEF ClearMark
    <3>3. e \in Dirs /\ e.file = d.file /\ e.manifest = d.manifest
      <4> HIDE DEF d, M
      <4> QED
        BY <2>1, <3>1 DEF Dirs
    <3> HIDE DEF e
    <3> QED
      BY <1>0, <2>1, <3>2, <3>3, OneDir
  <2> QED
    BY <1>7, <2>2, <2>3, <2>4
<1> QED
  BY <1>1, <1>3, <1>4, <1>5, <1>6, <1>7
  DEF Begin, Report, StepFails, Crash, UpstreamChanges, CheckFails, SeedEnds,
      FetchCanceled, FetchEnds, PageFails, vars

\* Page p of list m is somewhere.
Held(ds, m, p) ==
    \E place \in Places : ds[place] # NoDir /\ ds[place].file[p] = m

AllHeld == \A p \in Pages \ rotten : Held(dir, target, p) => Held(dir', target, p)

LEMMA SameHeld == AllSame => AllHeld
<1> SUFFICES ASSUME AllSame, NEW p \in Pages \ rotten, NEW place \in Places,
                    dir[place] # NoDir, dir[place].file[p] = target
             PROVE  Held(dir', target, p)
  BY DEF AllHeld, Held
<1>1. dir'[place] # NoDir /\ dir'[place].file = dir[place].file
  BY DEF AllSame, SameFiles
<1> QED
  BY <1>1 DEF Held

LEMMA WorkFiles ==
  ASSUME dir \in [Places -> Dirs \cup {NoDir}], kind \in {"pica", "jm"},
         NEW e \in Dirs, dir' = [dir EXCEPT ![Workplace] = e],
         \A p \in Pages \ rotten :
            dir[Workplace] # NoDir /\ dir[Workplace].file[p] = target =>
                e.file[p] = target
  PROVE  /\ AllHeld
         /\ kind = "pica" => SameFiles(dst, dst') /\ SameFiles(prev, prev')
<1>1. e # NoDir /\ Workplace \in Places /\ {"dst", "prev"} \subseteq Places
  BY NoDirType DEF Workplace, Places
<1>2. dir'[Workplace] = e /\ \A q \in Places \ {Workplace} : dir'[q] = dir[q]
  BY <1>1
<1>3. AllHeld
  BY <1>1, <1>2 DEF AllHeld, Held
<1>4. ASSUME kind = "pica"
      PROVE  SameFiles(dst, dst') /\ SameFiles(prev, prev')
  BY <1>1, <1>2, <1>4 DEF Workplace, SameFiles
<1> QED
  BY <1>3, <1>4

\* Steps that change the pages of the directory that is worked in.
LEMMA WorkStepFiles ==
  ASSUME ChapterInv,
         \/ MakeDir \/ RemoveFile \/ WriteManifest
         \/ \E p \in Pages : FetchPage(p)
  PROVE  /\ AllHeld
         /\ kind = "pica" => SameFiles(dst, dst') /\ SameFiles(prev, prev')
<1> DEFINE d == dir[Workplace]
<1>0. /\ dir \in [Places -> Dirs \cup {NoDir}] /\ kind \in {"pica", "jm"}
      /\ target \in Manifests /\ Workplace \in Places
      /\ d \in Dirs \cup {NoDir}
  BY DEF ChapterInv, ScalarsFine, DirsFine, Places, Workplace
<1>1. CASE MakeDir
  <2>1. dir' = [dir EXCEPT ![Workplace] = EmptyDir] /\ d = NoDir
    BY <1>1 DEF MakeDir
  <2>2. EmptyDir \in Dirs
    BY EmptyDirFine
  <2> QED
    BY <1>0, <2>1, <2>2, WorkFiles
<1>2. CASE RemoveFile
  <2>1. d # NoDir /\ d.manifest # target
    BY <1>2 DEF RemoveFile
  <2>2. PICK p \in Pages :
           dir' = [dir EXCEPT ![Workplace] =
                     IF d.file[p] # "none" THEN WithFile(d, p, "none")
                                           ELSE WithSum(d, p, "none")]
    BY <1>2 DEF RemoveFile, WithFile, WithSum
  <2>3. Fine(d)
    BY <2>1, WorkplaceFine
  <2> HIDE DEF d
  <2>4. PICK e \in {WithFile(d, p, "none"), WithSum(d, p, "none")} :
           dir' = [dir EXCEPT ![Workplace] = e]
    BY <2>2
  <2>5. Fine(WithFile(d, p, "none")) /\ Fine(WithSum(d, p, "none"))
    BY <2>3, FileFine, SumFine
  <2>6. e \in Dirs
    BY <2>4, <2>5 DEF Fine
  <2>7. \A q \in Pages : d.file[q] # target
    BY <1>0, <2>1, <2>3, ChapterAssumption DEF Fine
  <2> QED
    BY <1>0, <2>4, <2>6, <2>7, WorkFiles DEF d
<1>3. CASE WriteManifest
  <2> DEFINE e == [d EXCEPT !.manifest = target]
  <2>1. d # NoDir /\ dir' = [dir EXCEPT ![Workplace] = e]
    BY <1>3 DEF WriteManifest
  <2>2. e \in Dirs /\ e.file = d.file
    <3> HIDE DEF d
    <3> QED
      BY <1>0, <2>1 DEF Dirs
  <2> HIDE DEF e
  <2> QED
    BY <1>0, <2>1, <2>2, WorkFiles
<1>4. ASSUME NEW p \in Pages, FetchPage(p)
      PROVE  /\ AllHeld
             /\ kind = "pica" => SameFiles(dst, dst') /\ SameFiles(prev, prev')
  <2> DEFINE f == [d.file EXCEPT ![p] = target]
             e == [d EXCEPT !.file = f]
  <2>1. d # NoDir
    BY <1>4 DEF FetchPage, ChapterInv, StepFine
  <2>2. dir' = [dir EXCEPT ![Workplace] = e]
    BY <1>4 DEF FetchPage
  <2>3. /\ f \in [Pages -> Bytes]
        /\ \A q \in Pages : f[q] = target \/ f[q] = d.file[q]
    <3> HIDE DEF d
    <3> QED
      BY <1>0, <2>1 DEF Dirs, Bytes
  <2>4. e \in Dirs /\ e.file = f
    <3> HIDE DEF d, f
    <3> QED
      BY <1>0, <2>1, <2>3 DEF Dirs
  <2> HIDE DEF e, f
  <2> QED
    BY <1>0, <2>2, <2>3, <2>4, WorkFiles
<1> QED
  BY <1>1, <1>2, <1>3, <1>4

\* A page that is copied comes from a chapter of the same list.
LEMMA SeedFiles ==
  ASSUME ChapterInv, SeedPage, ~Valid(stage, page), Has("dst", page)
  PROVE  /\ AllHeld /\ kind = "pica"
         /\ SameFiles(dst, dst') /\ SameFiles(prev, prev')
<1>0. /\ dir \in [Places -> Dirs \cup {NoDir}] /\ kind = "pica"
      /\ Places = {"dst", "stage", "prev"} /\ at = "seed"
      /\ target \in Manifests /\ page \in 1..(MaxPages + 1)
      /\ page <= Length[target]
  BY DEF ChapterInv, ScalarsFine, DirsFine, KindFine, Places, SeedPage
<1>1. page \in Pages
  <2>1. Length[target] \in 1..MaxPages /\ MaxPages \in Nat
    BY <1>0, ChapterAssumption
  <2> QED
    BY <1>0, <2>1 DEF Pages
<1>2. /\ dst # NoDir /\ stage # NoDir /\ Fine(dst) /\ Known(dst, rotten)
      /\ dst \in Dirs /\ stage \in Dirs /\ Valid(dst, page)
      /\ ManifestMatches("dst", target)
  BY <1>0 DEF ChapterInv, StepFine, DirsFine, Workplace, Fine, Has, SeedPage
<1> DEFINE b == dst.file[page]
           c == Sealed(dst, {page})
           f == [stage.file EXCEPT ![page] = b]
           e == [stage EXCEPT !.file = f]
<1>3. dir' = [dir EXCEPT !["dst"] = c, !["stage"] = e]
  BY DEF SeedPage
<1>4. b = target \/ page \in rotten
  <2>1. /\ dst.manifest \in Manifests /\ page \notin dst.mark
        /\ b \in {"broken", dst.manifest}
    BY <1>1, <1>2, ValidPage
  <2>2. dst.manifest = target
    BY <1>2, <2>1, ChapterAssumption DEF ManifestMatches
  <2> QED
    BY <1>1, <1>2, <2>1, <2>2 DEF Known
<1>5. c \in Dirs /\ c.file = dst.file /\ c.manifest = dst.manifest
  BY <1>2, SealedType
<1>6. /\ f \in [Pages -> Bytes]
      /\ \A p \in Pages \ rotten : stage.file[p] = target => f[p] = target
  <2>1. b \in Bytes /\ stage.file \in [Pages -> Bytes]
    BY <1>1, <1>2 DEF Dirs
  <2> HIDE DEF b
  <2> QED
    BY <1>1, <1>4, <2>1
<1>7. e \in Dirs /\ e.file = f
  <2> HIDE DEF f
  <2> QED
    BY <1>2, <1>6 DEF Dirs
<1> HIDE DEF c, e, f
<1>8. /\ dir'["dst"] = c /\ dir'["stage"] = e /\ dir'["prev"] = prev
      /\ c # NoDir /\ e # NoDir
  BY <1>0, <1>3, <1>5, <1>7, NoDirType
<1>9. SameFiles(dst, dst') /\ SameFiles(prev, prev')
  BY <1>2, <1>5, <1>8 DEF SameFiles
<1>10. AllHeld
  <2> SUFFICES ASSUME NEW p \in Pages \ rotten, NEW place \in Places,
                      dir[place] # NoDir, dir[place].file[p] = target
               PROVE  dir'[place] # NoDir /\ dir'[place].file[p] = target
    BY DEF AllHeld, Held
  <2> QED
    BY <1>0, <1>5, <1>6, <1>7, <1>8
<1> QED
  BY <1>0, <1>9, <1>10

\* What is removed is held elsewhere, and what is moved away is kept.
LEMMA CommitFiles ==
  ASSUME ChapterInv,
         Recover \/ Clear \/ Swap \/ Install \/ InstallFails \/ Cleanup
         \/ RemoveStops
  PROVE  /\ AllHeld /\ kind = "pica"
         /\ ~Install => Kept' = Kept
         /\ Install =>
               /\ Whole(stage, target, rotten) /\ Fine(stage)
               /\ Kept' = stage /\ dst' = stage
<1>0. /\ DirsFine /\ KindFine /\ StepFine /\ target \in Manifests
      /\ kind = "pica"
      /\ dir \in [Places -> Dirs \cup {NoDir}]
      /\ Places = {"dst", "stage", "prev"}
  BY DEF ChapterInv, ScalarsFine, DirsFine, KindFine, Places, Recover, Clear,
         Swap, Install, InstallFails, Cleanup, RemoveStops
\* What .previous has is also in a directory that is whole.
<1>1. ASSUME NEW place \in {"dst", "stage"},
             Whole(dir[place], target, rotten), dir'[place] = dir[place],
             \A q \in {"dst", "stage"} : dir'[q] = dir[q]
      PROVE  AllHeld
  <2> SUFFICES ASSUME NEW p \in Pages \ rotten, NEW q \in Places,
                      dir[q] # NoDir, dir[q].file[p] = target
               PROVE  Held(dir', target, p)
    BY DEF AllHeld, Held
  <2>1. CASE q \in {"dst", "stage"}
    BY <1>0, <1>1, <2>1 DEF Held
  <2>2. CASE q = "prev"
    <3>1. p \in PagesOf(target)
      BY <1>0, <2>2 DEF DirsFine
    <3>2. dir[place] # NoDir /\ dir[place].file[p] = target
      BY <1>1, <3>1 DEF Whole
    <3> QED
      BY <1>0, <1>1, <3>2 DEF Held
  <2> QED
    BY <1>0, <2>1, <2>2
<1>2. ASSUME NEW from \in Places, NEW to \in Places, from # to,
             dir[to] = NoDir, dir' = Renamed(from, to)
      PROVE  /\ AllHeld /\ dir'[to] = dir[from] /\ dir'[from] = NoDir
             /\ \A q \in Places \ {from, to} : dir'[q] = dir[q]
  <2>1. /\ dir'[to] = dir[from] /\ dir'[from] = NoDir
        /\ \A q \in Places \ {from, to} : dir'[q] = dir[q]
    BY <1>0, <1>2 DEF Renamed
  <2> QED
    BY <1>2, <2>1 DEF AllHeld, Held
<1>3. dir' = dir => AllHeld /\ Kept' = Kept
  BY DEF AllHeld, Held, Kept
<1>4. CASE Recover
  BY <1>0, <1>2, <1>3, <1>4 DEF Recover, Install, Kept
<1>5. CASE Swap
  BY <1>0, <1>2, <1>3, <1>5 DEF Swap, Install, Kept, StepFine
<1>6. CASE InstallFails
  <2>1. dst = NoDir /\ dir' = Renamed("prev", "dst") /\ at' = "idle"
    BY <1>0, <1>6 DEF InstallFails, StepFine
  <2>2. ~Install
    BY <2>1 DEF Install
  <2> QED
    BY <1>0, <1>2, <2>1, <2>2 DEF Kept
<1>7. CASE Install
  <2>1. /\ dst = NoDir /\ dir' = Renamed("stage", "dst")
        /\ Whole(stage, target, rotten) /\ stage # NoDir
    BY <1>0, <1>7 DEF Install, StepFine, Whole
  <2>2. Fine(stage)
    BY <1>0, <2>1 DEF DirsFine
  <2> QED
    BY <1>0, <1>2, <1>7, <2>1, <2>2 DEF Kept
<1>8. CASE Clear \/ Cleanup \/ RemoveStops
  <2>1. /\ dst' = dst /\ stage' = stage /\ at \in {"clear", "cleanup"}
        /\ prev' = NoDir \/ prev # NoDir
    <3>1. \/ dir' = [dir EXCEPT !["prev"] = NoDir]
          \/ /\ prev # NoDir
             /\ \E S \in SUBSET Pages, m \in {prev.manifest, "none"} :
                   dir' = [dir EXCEPT !["prev"] = Part(prev, S, m)]
      BY <1>8 DEF Clear, Cleanup, RemoveStops
    <3> QED
      BY <1>0, <1>8, <3>1 DEF Clear, Cleanup, RemoveStops
  <2>2. \/ at = "clear" /\ Whole(stage, target, rotten)
        \/ at = "cleanup" /\ Whole(dst, target, rotten)
    BY <1>0, <2>1 DEF StepFine
  <2>3. AllHeld
    BY <1>1, <2>1, <2>2
  <2>4. dst = NoDir => prev = NoDir
    BY <1>0, <2>2 DEF StepFine, Whole
  <2>5. ~Install
    BY <2>1 DEF Install
  <2> QED
    BY <1>0, <2>1, <2>3, <2>4, <2>5 DEF Kept
<1> QED
  BY <1>4, <1>5, <1>6, <1>7, <1>8

\* saveChapter, seedChapterRepair and commitChapter: no step of a download
\* throws away the last copy of a good page of the list that is fetched, for
\* every list and however often downloads were interrupted before; only known
\* bad bytes under a receipt may replace it.
THEOREM PagesKept == Spec => GoodPagesKept
<1>1. ASSUME ChapterInv, Next, at # "idle" PROVE AllHeld
  <2>1. \/ AllHeld
        \/ \E p \in Pages : StoredBroken(p) \/
              \E place \in {"dst", "stage"} : Decay(place, p)
    BY <1>1, QuietFiles, SameHeld, WorkStepFiles, SeedFiles, CommitFiles
    DEF Next, Progress, Failure, Between
  <2> QED
    BY <1>1, <2>1 DEF StoredBroken, Decay
<1>2. ChapterInv /\ [Next]_vars =>
        [at # "idle" =>
          \A p \in Pages \ rotten :
            (\E d \in Places : dir[d] # NoDir /\ dir[d].file[p] = target)
            => \E d \in Places :
                dir'[d] # NoDir /\ dir'[d].file[p] = target]_vars
  BY <1>1 DEF AllHeld, Held
<1> QED
  BY ChapterInvariance, <1>2, PTL DEF Spec, GoodPagesKept

-----------------------------------------------------------------------------
(* The chapter implements the shelf.                                       *)

\* What a reader sees of a directory.
Copy(d) == [manifest |-> d.manifest, file |-> d.file]

LEMMA ShelvedKept ==
  /\ shelved = IF kind = "jm" \/ Kept = NoDir THEN NoDir ELSE Copy(Kept)
  /\ shelved' = IF kind' = "jm" \/ Kept' = NoDir THEN NoDir ELSE Copy(Kept')
BY DEF shelved, Kept, Copy

LEMMA CopyType ==
  ASSUME NEW d \in Dirs
  PROVE  /\ Copy(d) # NoDir
         /\ Copy(d).manifest = d.manifest /\ Copy(d).file = d.file
<1>1. Copy(d) \in [manifest : Manifests \cup {"none"}, file : [Pages -> Bytes]]
  BY DEF Copy, Dirs
<1> QED
  BY <1>1, NoDirAssumption DEF Copy

LEMMA SameShelved ==
  ASSUME kind' = kind,
         \/ kind = "jm"
         \/ Kept' = Kept
         \/ SameFiles(dst, dst') /\ SameFiles(prev, prev')
  PROVE  shelved' = shelved
BY ShelvedKept DEF SameFiles, Kept, Copy

\* The chapter in place loses a page, or one goes bad.
LEMMA PageSpoiled ==
  ASSUME kind = "pica", kind' = kind, dst # NoDir, dst \in Dirs,
         NEW p \in Pages, NEW b \in {"none", "broken", "damaged"},
         dst' \in Dirs, dst'.manifest = dst.manifest,
         dst'.file = [dst.file EXCEPT ![p] = b]
  PROVE  Shelf!Spoil
<1>1. dst' # NoDir
  BY NoDirType
<1>2. shelved = Copy(dst) /\ shelved' = Copy(dst')
  BY <1>1, ShelvedKept DEF Kept
<1>3. shelved # NoDir
  BY <1>2, CopyType
<1>4. shelved' = [shelved EXCEPT !.file = [dst.file EXCEPT ![p] = b]]
  BY <1>2 DEF Copy
<1>5. shelved' = [shelved EXCEPT !.file[p] = b]
  BY <1>2, <1>4 DEF Copy
<1> QED
  BY <1>3, <1>5 DEF Shelf!Spoil, Shelf!Pages, Pages

\* The staged chapter takes the place of the old one.
LEMMA ChapterReplaced ==
  ASSUME ChapterInv, Install
  PROVE  Shelf!Replace
<1>0. /\ KindFine /\ kind = "pica" /\ kind' = kind /\ target \in Manifests
      /\ Whole(stage, target, rotten) /\ Fine(stage) /\ stage \in Dirs
      /\ Kept' = stage /\ stage # NoDir /\ PagesOf(target) \subseteq Pages
      /\ Kept # NoDir => Kept \in Dirs
  <2>1. ChapterInv /\ kind = "pica" /\ target \in Manifests /\ kind' = kind
    BY CommitFiles DEF ChapterInv, ScalarsFine, Install
  <2>2. Kept # NoDir => Kept \in Dirs
    BY DEF ChapterInv, DirsFine, Kept, Places
  <2> QED
    BY <2>1, <2>2, CommitFiles, PagesType DEF ChapterInv, Whole, Fine
<1>1. /\ shelved' = Copy(stage) /\ shelved'.manifest = target
      /\ shelved'.file = stage.file
  BY <1>0, ShelvedKept, CopyType DEF Whole
<1>2. shelved' \in Shelf!Copies
  <2>1. stage.file \in [Pages -> Manifests \cup {"none", "broken", "damaged"}]
    BY <1>0 DEF Dirs, Bytes, Undecodable
  <2> QED
    BY <1>0, <1>1, <2>1 DEF Copy, Whole, Shelf!Copies, Shelf!Pages, Pages
<1>3. ASSUME NEW p \in Pages, p \in PagesOf(target), stage.file[p] # target
      PROVE  /\ shelved # NoDir /\ shelved.manifest = target
             /\ shelved.file[p] # target
  <2>1. stage.file[p] = "broken" /\ stage.manifest = target
    BY <1>0, <1>3 DEF Whole
  <2>2. Kept # NoDir /\ Kept.manifest = target /\ Kept.file[p] # target
    BY <1>0, <2>1 DEF KindFine
  <2> QED
    BY <1>0, <2>2, ShelvedKept, CopyType
<1>4. \A p \in Pages : p \notin PagesOf(target) => stage.file[p] = "none"
  BY <1>0 DEF Fine, Whole
<1> QED
  BY <1>0, <1>1, <1>2, <1>3, <1>4
  DEF Shelf!Replace, Shelf!Good, Shelf!Pages, Pages, PagesOf

LEMMA DamageStep ==
  ASSUME ChapterInv, NEW p \in Pages,
         StoredBroken(p) \/ \E place \in {"dst", "stage"} : Decay(place, p)
  PROVE  Shelf!Spoil \/ shelved' = shelved
<1>0. /\ dir \in [Places -> Dirs \cup {NoDir}] /\ kind \in {"pica", "jm"}
      /\ kind' = kind /\ Places = {"dst", "stage", "prev"}
  BY DEF ChapterInv, ScalarsFine, DirsFine, Places, StoredBroken, Decay
<1>1. ASSUME NEW d \in Dirs, NEW b \in {"none", "damaged"}
      PROVE  LET e == WithFile(d, p, b)
             IN  /\ e \in Dirs /\ e.manifest = d.manifest
                 /\ e.file = [d.file EXCEPT ![p] = b]
  <2> DEFINE f == [d.file EXCEPT ![p] = b]
  <2>1. f \in [Pages -> Bytes]
    BY DEF Dirs, Bytes, Undecodable
  <2> HIDE DEF f
  <2>2. [d EXCEPT !.file = f] \in Dirs
    BY <2>1 DEF Dirs
  <2>3. [d EXCEPT !.file = f].file = f
    BY DEF Dirs
  <2> QED
    BY <2>2, <2>3 DEF f, Dirs, WithFile
<1>2. CASE \E place \in {"dst", "stage"} : Decay(place, p)
  <2>1. PICK place \in {"dst", "stage"} : Decay(place, p)
    BY <1>2
  <2>2. PICK b \in {"none", "damaged"} :
           dir' = [dir EXCEPT ![place].file[p] = b]
    BY <2>1 DEF Decay
  <2>3. dir[place] \in Dirs
    BY <1>0, <2>1 DEF Decay
  <2>4. CASE place = "stage"
    <3>1. dst' = dst /\ prev' = prev
      BY <1>0, <2>2, <2>4
    <3> QED
      BY <1>0, <3>1, SameShelved DEF Kept
  <2>5. CASE place = "dst" /\ kind = "pica"
    <3>0. dir' = [dir EXCEPT !["dst"] = WithFile(dir["dst"], p, b)]
      BY <2>2, <2>5 DEF WithFile
    <3> DEFINE e == WithFile(dst, p, b)
    <3>1. /\ e \in Dirs /\ e.manifest = dst.manifest
          /\ e.file = [dst.file EXCEPT ![p] = b]
      BY <1>1, <2>3, <2>5
    <3> HIDE DEF e
    <3>2. dst' = e
      BY <1>0, <3>0 DEF e
    <3>3. /\ dst' \in Dirs /\ dst'.manifest = dst.manifest
          /\ dst'.file = [dst.file EXCEPT ![p] = b]
      BY <3>1, <3>2
    <3>4. dst # NoDir /\ dst \in Dirs
      BY <2>1, <2>3, <2>5 DEF Decay
    <3> QED
      BY <1>0, <2>5, <3>3, <3>4, PageSpoiled
  <2> QED
    BY <1>0, <2>4, <2>5, SameShelved
<1>3. CASE StoredBroken(p) /\ kind = "pica"
  <2> DEFINE f == [dst.file EXCEPT ![p] = "broken"]
             s == [dst.sum EXCEPT ![p] = "broken"]
             c == [dst EXCEPT !.file = f]
             e == [c EXCEPT !.sum = s]
  <2>1. dst \in Dirs /\ dst # NoDir
    BY <1>0, <1>3 DEF StoredBroken
  <2>2. f \in [Pages -> Bytes] /\ s \in [Pages -> Bytes]
    BY <2>1 DEF Dirs, Bytes, Undecodable
  <2>3. dir' = [dir EXCEPT !["dst"] = e]
    BY <1>3 DEF StoredBroken
  <2>4. c \in Dirs /\ c.manifest = dst.manifest /\ c.file = f
    <3> HIDE DEF f
    <3> QED
      BY <2>1, <2>2 DEF Dirs
  <2>5. e \in Dirs /\ e.manifest = dst.manifest /\ e.file = f
    <3> HIDE DEF f, s, c
    <3> QED
      BY <2>2, <2>4 DEF Dirs
  <2>6. dst' = e
    <3> HIDE DEF e
    <3> QED
      BY <1>0, <2>3
  <2> HIDE DEF e, c, s
  <2> QED
    BY <1>0, <1>3, <2>1, <2>5, <2>6, PageSpoiled
<1> QED
  BY <1>0, <1>2, <1>3, SameShelved

\* commitChapter: for every list, and for any number of crashes, failures and
\* damages, the copy that a download can bring back is replaced at once by one
\* that is not worse, although it takes two renames and two removals.
THEOREM ShelfRefinement == Spec => ImplementsShelf
<1>1. Init => Shelf!Init
  BY DEF Init, Shelf!Init, shelved, Places
<1>2. ASSUME ChapterInv, [Next]_vars PROVE [Shelf!Next]_shelved
  <2>0. kind' = kind /\ kind \in {"pica", "jm"}
    BY <1>2
    DEF ChapterInv, ScalarsFine, Next, vars, Progress, Failure, Between, Begin,
        Check, MakeDir, RemoveFile, WriteManifest, SeedPage, SeedReceipt,
        SeedEnds, SkipPage, FetchPage, SaveReceipt, ClearMark, FetchEnds,
        Recover, Clear, Swap, Install, Cleanup, Report, CheckFails,
        FetchCanceled, InstallFails, RemoveStops, StepFails, Crash, PageFails,
        UpstreamChanges, Repair, StoredBroken, Decay
  <2>1. CASE AllSame
    BY <2>0, <2>1, SameShelved DEF AllSame, Places
  <2>2. CASE \/ MakeDir \/ RemoveFile \/ WriteManifest
             \/ \E p \in Pages : FetchPage(p)
    BY <1>2, <2>0, <2>2, WorkStepFiles, SameShelved
  <2>3. CASE SeedPage /\ ~Valid(stage, page) /\ Has("dst", page)
    BY <1>2, <2>0, <2>3, SeedFiles, SameShelved
  <2>4. CASE Recover \/ Clear \/ Swap \/ Install \/ InstallFails \/ Cleanup
             \/ RemoveStops
    <3>1. CASE Install
      BY <1>2, <3>1, ChapterReplaced DEF Shelf!Next
    <3>2. CASE ~Install
      BY <1>2, <2>0, <2>4, <3>2, CommitFiles, SameShelved
    <3> QED
      BY <3>1, <3>2
  <2>5. CASE \E p \in Pages : StoredBroken(p) \/
                \E place \in {"dst", "stage"} : Decay(place, p)
    BY <2>5, <1>2, DamageStep DEF Shelf!Next
  <2> QED
    BY <1>2, <2>1, <2>2, <2>3, <2>4, <2>5, QuietFiles
    DEF Next, Progress, Failure, Between
<1> QED
  BY <1>1, <1>2, ChapterInvariance, PTL DEF Spec, ImplementsShelf, Shelf!Spec
=============================================================================
