------------------------------- MODULE Trash --------------------------------
(***************************************************************************)
(* The recycle bin: DeleteComic and RestoreTrash of                        *)
(* internal/engine/reliability.go with the trash and comics tables.  Both  *)
(* move a directory between two database writes, so a crash or a failed    *)
(* write can leave the three stores (comics, trash, the disk) at odds; the *)
(* trash row, written first, is what makes it possible to recover.         *)
(*                                                                         *)
(* They hold opMu from beginning to end: op is the handler in progress.    *)
(* Downloads hold no lock while they write.                                *)
(***************************************************************************)
EXTENDS Integers, FiniteSets

CONSTANTS
    Comics,   \* comics; each has one directory in the library
    MaxRows,  \* bound: rows ever inserted into the trash table
    Limits,   \* bounds on failed calls and crashes
    NoComic   \* comic of a row not inserted yet

RowIds == 1..MaxRows
Events == {"failure", "crash"}

ASSUME MaxRowsAssumption == MaxRows \in Nat
ASSUME LimitsAssumption == Limits \in [Events -> Nat]
ASSUME NoComicAssumption == NoComic \notin Comics

VARIABLES
    library,  \* rows of the comics table
    home,     \* comics whose directory is in the library
    bin,      \* trash rows whose path holds a directory
    status,   \* trash.status, "none" before the insert
    comic,    \* trash.kind and trash.comic_id
    active,   \* comics with a queued or running job
    op,       \* the handler that holds opMu: its stage and its trash row
    used      \* events spent, against Limits

vars == <<library, home, bin, status, comic, active, op, used>>

Unresolved == {t \in RowIds : status[t] \in {"pending", "trashed"}}

\* Wrong variant of InTrash: a row that is still pending is overlooked.
InTrashTrashedOnly(c) ==
    \E t \in RowIds : status[t] = "trashed" /\ comic[t] = c

InTrash(c) == \E t \in Unresolved : comic[t] = c

NoOp == [stage |-> "idle", row |-> 0]
OpComic == comic[op.row]
At(stage) == op.stage = stage

Spend(e) == used[e] < Limits[e] /\ used' = [used EXCEPT ![e] = @ + 1]
Fails == Spend("failure")

Init ==
    /\ library = {} /\ home = {} /\ bin = {} /\ active = {}
    /\ status = [t \in RowIds |-> "none"]
    /\ comic = [t \in RowIds |-> NoComic]
    /\ op = NoOp
    /\ used = [e \in Events |-> 0]

-----------------------------------------------------------------------------
(* Downloads and the other ways a library row comes and goes.              *)

Enqueue(c) ==
    /\ At("idle")
    /\ ~InTrash(c)
    /\ active' = active \cup {c}
    /\ UNCHANGED <<library, home, bin, status, comic, op, used>>

\* runJob writes the first files of the comic.
WriteFiles(c) ==
    /\ c \in active
    /\ home' = home \cup {c}
    /\ UNCHANGED <<library, bin, status, comic, active, op, used>>

\* runJob ends: a directory with images gets its row, unless a write fails.
EndJob(c) ==
    /\ c \in active
    /\ active' = active \ {c}
    /\ \/ c \in home /\ library' = library \cup {c}
       \/ UNCHANGED library
    /\ UNCHANGED <<home, bin, status, comic, op, used>>

\* Upsert errors are dropped, so any part of the directories may be entered.
ScanLibrary ==
    /\ At("idle")
    /\ \E S \in SUBSET {c \in home \ active : ~InTrash(c)} :
        library' = library \cup S
    /\ UNCHANGED <<home, bin, status, comic, active, op, used>>

\* DeleteComic without files.
DeleteRecord(c) ==
    /\ At("idle")
    /\ c \in library \ active
    /\ library' = library \ {c}
    /\ UNCHANGED <<home, bin, status, comic, active, op, used>>

-----------------------------------------------------------------------------
(* DeleteComic with files.                                                 *)

\* Wrong variant of PrepareTrash: an active download is not looked for.
PrepareTrashBusy(c) ==
    /\ At("idle")
    /\ c \in library \cap home
    /\ \E t \in RowIds :
        /\ \A u \in RowIds : status[u] = "none" <=> u >= t
        /\ status' = [status EXCEPT ![t] = "pending"]
        /\ comic' = [comic EXCEPT ![t] = c]
        /\ op' = [stage |-> "move", row |-> t]
    /\ UNCHANGED <<library, home, bin, active, used>>

\* EvalSymlinks wants the directory to exist; then the row is written.
PrepareTrash(c) ==
    /\ At("idle")
    /\ c \in (library \cap home) \ active
    /\ \E t \in RowIds :
        /\ \A u \in RowIds : status[u] = "none" <=> u >= t
        /\ status' = [status EXCEPT ![t] = "pending"]
        /\ comic' = [comic EXCEPT ![t] = c]
        /\ op' = [stage |-> "move", row |-> t]
    /\ UNCHANGED <<library, home, bin, active, used>>

Move ==
    /\ At("move")
    /\ \/ /\ home' = home \ {OpComic}
          /\ bin' = bin \cup {op.row}
          /\ op' = [op EXCEPT !.stage = "finish"]
          /\ UNCHANGED used
       \/ /\ Fails
          /\ op' = [op EXCEPT !.stage = "abort"]
          /\ UNCHANGED <<home, bin>>
    /\ UNCHANGED <<library, status, comic, active>>

\* Wrong variant of Abort: a status the table does not know.
AbortUnknown ==
    /\ At("abort")
    /\ op' = NoOp
    /\ status' = [status EXCEPT ![op.row] = "failed"]
    /\ UNCHANGED <<library, home, bin, comic, active, used>>

\* The move failed; the error of this write is dropped.
Abort ==
    /\ At("abort")
    /\ op' = NoOp
    /\ \/ status' = [status EXCEPT ![op.row] = "aborted"] /\ UNCHANGED used
       \/ Fails /\ UNCHANGED status
    /\ UNCHANGED <<library, home, bin, comic, active>>

\* One transaction.  If it fails, the pending row stays for the recovery.
FinishTrash ==
    /\ At("finish")
    /\ op' = NoOp
    /\ \/ /\ library' = library \ {OpComic}
          /\ status' = [status EXCEPT ![op.row] = "trashed"]
          /\ UNCHANGED used
       \/ /\ Fails
          /\ UNCHANGED <<library, status>>
    /\ UNCHANGED <<home, bin, comic, active>>

-----------------------------------------------------------------------------
(* RestoreTrash.                                                           *)

\* The original path is free and takes the directory, or it is there and the
\* bin is empty: then only the records are to be repaired.
RestoreTrash(t) ==
    /\ At("idle")
    /\ t \in Unresolved
    /\ comic[t] \notin active
    /\ \/ /\ comic[t] \notin home /\ t \in bin
          /\ home' = home \cup {comic[t]}
          /\ bin' = bin \ {t}
       \/ /\ comic[t] \in home /\ t \notin bin
          /\ UNCHANGED <<home, bin>>
    /\ op' = [stage |-> "shelve", row |-> t]
    /\ UNCHANGED <<library, status, comic, active, used>>

\* Wrong variant of Shelve: the error of UpsertComic is dropped.
ShelveUnchecked ==
    /\ At("shelve")
    /\ \/ library' = library \cup {OpComic} /\ UNCHANGED used
       \/ Fails /\ UNCHANGED library
    /\ op' = [op EXCEPT !.stage = "resolve"]
    /\ UNCHANGED <<home, bin, status, comic, active>>

Shelve ==
    /\ At("shelve")
    /\ \/ /\ library' = library \cup {OpComic}
          /\ op' = [op EXCEPT !.stage = "resolve"]
          /\ UNCHANGED used
       \/ /\ Fails
          /\ op' = NoOp
          /\ UNCHANGED library
    /\ UNCHANGED <<home, bin, status, comic, active>>

Resolve ==
    /\ At("resolve")
    /\ op' = NoOp
    /\ \/ status' = [status EXCEPT ![op.row] = "restored"] /\ UNCHANGED used
       \/ Fails /\ UNCHANGED status
    /\ UNCHANGED <<library, home, bin, comic, active>>

-----------------------------------------------------------------------------

\* The process ends and starts again; unfinished jobs are queued again.
Crash ==
    /\ Spend("crash")
    /\ op' = NoOp
    /\ UNCHANGED <<library, home, bin, status, comic, active>>

Next ==
    \/ \E c \in Comics :
        \/ Enqueue(c) \/ WriteFiles(c) \/ EndJob(c)
        \/ DeleteRecord(c) \/ PrepareTrash(c)
    \/ \E t \in RowIds : RestoreTrash(t)
    \/ ScanLibrary
    \/ Move \/ Abort \/ FinishTrash
    \/ Shelve \/ Resolve
    \/ Crash

Spec == Init /\ [][Next]_vars

-----------------------------------------------------------------------------
(* Properties.                                                             *)

DeleteStages == {"move", "abort", "finish"}
RestoreStages == {"shelve", "resolve"}

TypeOK ==
    /\ library \subseteq Comics
    /\ home \subseteq Comics
    /\ bin \subseteq RowIds
    /\ status \in [RowIds -> {"none", "pending", "trashed", "aborted", "restored"}]
    /\ comic \in [RowIds -> Comics \cup {NoComic}]
    /\ active \subseteq Comics
    /\ op \in [stage : {"idle"} \cup DeleteStages \cup RestoreStages,
               row : 0..MaxRows]
    /\ used \in [Events -> Nat]

\* A directory in the bin always belongs to a row that RestoreTrash still
\* offers: no crash or failed write makes files unreachable.
BinReachable == bin \subseteq Unresolved

\* A comic's files are in one place, so a restore never finds both its
\* original path and its path in the bin occupied (DeleteComic, RestoreTrash
\* and the downloads exclude each other through opMu, InTrash and the job).
OneCopy ==
    \A t \in bin :
        /\ comic[t] \notin home
        /\ \A u \in bin : comic[u] = comic[t] => u = t

\* No files of the bin are lost to RestoreTrash, or in its way.
BinIntact == BinReachable /\ OneCopy

Restores(t) == (comic[t] \in home) # (t \in bin)

\* A comic that the bin keeps from being downloaded again can be restored:
\* at any moment one of its rows is accepted by RestoreTrash.
Restorable ==
    \A c \in Comics : InTrash(c) =>
        /\ c \notin active
        /\ \E t \in Unresolved : comic[t] = c /\ Restores(t)

\* A library row whose files are gone is explained by the bin, even in the
\* middle of a handler: the row never outlives its directory silently.
LibraryTruthful == \A c \in library : c \in home \/ InTrash(c)

\* A row is marked restored only when directory and library row are back.
RestoredMeansShelved ==
    [][\A t \in RowIds :
        (status[t] # "restored" /\ status'[t] = "restored")
            => comic[t] \in home' /\ comic[t] \in library']_vars

-----------------------------------------------------------------------------
(* The inductive invariant behind the safety properties.                   *)

\* A row has its comic, and the rows are inserted in order.
RowsHaveComics == \A t \in RowIds : status[t] # "none" => comic[t] \in Comics

\* What the handler that holds opMu may rely on: its row is unresolved, no
\* job is active, and the files are where its stage has left them.
OpConsistent ==
    ~At("idle") =>
        /\ op.row \in Unresolved
        /\ OpComic \notin active
        /\ At("move") \/ At("abort") => OpComic \in home
        /\ At("finish") => op.row \in bin
        /\ At("shelve") \/ At("resolve") => OpComic \in home
        /\ At("resolve") => OpComic \in library

TrashInv ==
    /\ TypeOK
    /\ RowsHaveComics
    /\ OpConsistent
    /\ BinReachable
    /\ OneCopy
    /\ Restorable
    /\ LibraryTruthful
=============================================================================
