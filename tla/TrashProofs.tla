---------------------------- MODULE TrashProofs -----------------------------
(***************************************************************************)
(* Proofs about Trash for every set of comics, every number of trash rows  *)
(* and every number of failures and crashes.  TrashInv is inductive: the   *)
(* handler in progress knows where it has left the files (OpConsistent),   *)
(* which is what a crash in the middle of it cannot disturb.               *)
(***************************************************************************)
EXTENDS Trash, TLAPS

LEMMA InitTrashInv == Init => TrashInv
<1> SUFFICES ASSUME Init PROVE TrashInv
  OBVIOUS
<1>1. TypeOK
  BY MaxRowsAssumption DEF Init, TypeOK, NoOp, RowIds, Events
<1>2. Unresolved = {}
  BY DEF Init, Unresolved
<1> QED
  BY <1>1, <1>2 DEF Init, TrashInv, RowsHaveComics, OpConsistent, At, NoOp,
     BinReachable, OneCopy, Restorable, InTrash, LibraryTruthful

\* Every step keeps every variable in its type, and every row its comic.
LEMMA TrashTyped == TrashInv /\ [Next]_vars => (TypeOK /\ RowsHaveComics)'
<1> SUFFICES ASSUME TrashInv, [Next]_vars PROVE (TypeOK /\ RowsHaveComics)'
  OBVIOUS
<1> USE DEF TrashInv, TypeOK, RowsHaveComics
<1>1. OpComic \in Comics \/ At("idle")
  BY DEF OpComic, OpConsistent, Unresolved
<1>2. NoOp \in [stage : {"idle"}, row : 0..MaxRows]
  BY MaxRowsAssumption DEF NoOp
<1>3. ASSUME NEW c \in Comics,
             Enqueue(c) \/ WriteFiles(c) \/ EndJob(c) \/ DeleteRecord(c)
      PROVE (TypeOK /\ RowsHaveComics)'
  BY <1>3 DEF Enqueue, WriteFiles, EndJob, DeleteRecord
<1>4. ASSUME NEW c \in Comics, PrepareTrash(c)
      PROVE (TypeOK /\ RowsHaveComics)'
  BY <1>4, MaxRowsAssumption DEF PrepareTrash, DeleteStages, RowIds
<1>5. ASSUME NEW t \in RowIds, RestoreTrash(t)
      PROVE (TypeOK /\ RowsHaveComics)'
  <2>1. comic[t] \in Comics
    BY <1>5 DEF RestoreTrash, Unresolved
  <2>2. op' \in [stage : RestoreStages, row : 0..MaxRows]
    BY <1>5, MaxRowsAssumption DEF RestoreTrash, RestoreStages, RowIds
  <2> QED
    BY <1>5, <2>1, <2>2 DEF RestoreTrash
<1>6. CASE ScanLibrary
  BY <1>6 DEF ScanLibrary
<1>7. CASE Move \/ Abort \/ FinishTrash
  <2>1. op.row \in RowIds
    BY <1>7 DEF Move, Abort, FinishTrash, At, OpConsistent, Unresolved
  <2>2. used' \in [Events -> Nat]
    BY <1>7 DEF Move, Abort, FinishTrash, Fails, Spend, Events
  <2>3. op' \in [stage : {"idle"} \cup DeleteStages, row : 0..MaxRows]
    BY <1>7, <1>2 DEF Move, Abort, FinishTrash, DeleteStages
  <2>4. home' \subseteq Comics /\ library' \subseteq Comics /\ bin' \subseteq RowIds
    BY <1>7, <2>1 DEF Move, Abort, FinishTrash
  <2>5. /\ status' \in [RowIds -> {"none", "pending", "trashed", "aborted", "restored"}]
        /\ \A t \in RowIds : status'[t] # "none" => comic[t] \in Comics
    <3>1. comic[op.row] \in Comics
      BY <1>7, <1>1 DEF Move, Abort, FinishTrash, At, OpComic
    <3> QED
      BY <1>7, <2>1, <3>1 DEF Move, Abort, FinishTrash
  <2> QED
    BY <1>7, <2>2, <2>3, <2>4, <2>5 DEF Move, Abort, FinishTrash
<1>8. CASE Shelve \/ Resolve
  <2>1. used' \in [Events -> Nat]
    BY <1>8 DEF Shelve, Resolve, Fails, Spend, Events
  <2>2. /\ op.row \in RowIds
        /\ comic[op.row] \in Comics
    BY <1>8, <1>1 DEF Shelve, Resolve, At, OpConsistent, Unresolved, OpComic
  <2>3. op' \in [stage : {"idle"} \cup RestoreStages, row : 0..MaxRows]
    BY <1>8, <1>2 DEF Shelve, Resolve, RestoreStages
  <2>4. library' \subseteq Comics
    BY <1>8, <2>2 DEF Shelve, Resolve, OpComic
  <2>5. /\ status' \in [RowIds -> {"none", "pending", "trashed", "aborted", "restored"}]
        /\ \A t \in RowIds : status'[t] # "none" => comic[t] \in Comics
    BY <1>8, <2>2 DEF Shelve, Resolve
  <2> QED
    BY <1>8, <2>1, <2>3, <2>4, <2>5 DEF Shelve, Resolve
<1>9. CASE Crash
  BY <1>9, <1>2 DEF Crash, Spend, Events
<1>10. CASE UNCHANGED vars
  BY <1>10 DEF vars
<1> HIDE DEF TrashInv, TypeOK, RowsHaveComics
<1> QED
  BY <1>3, <1>4, <1>5, <1>6, <1>7, <1>8, <1>9, <1>10 DEF Next

\* What holds of the records and the files once a step has been taken.
Facts ==
    /\ OpConsistent
    /\ BinReachable
    /\ OneCopy
    /\ Restorable
    /\ LibraryTruthful

LEMMA DownloadsKeep ==
  ASSUME TrashInv,
         \/ \E c \in Comics :
              Enqueue(c) \/ WriteFiles(c) \/ EndJob(c) \/ DeleteRecord(c)
         \/ ScanLibrary
  PROVE  Facts'
<1> USE DEF TrashInv
<1>1. status' = status /\ comic' = comic /\ bin' = bin /\ op' = op
  BY DEF Enqueue, WriteFiles, EndJob, DeleteRecord, ScanLibrary
<1>2. Unresolved' = Unresolved /\ \A d \in Comics : InTrash(d)' = InTrash(d)
  BY <1>1 DEF Unresolved, InTrash
<1>3. \A d \in Comics : InTrash(d) => d \notin active' /\ (d \in home' <=> d \in home)
  BY DEF Enqueue, WriteFiles, EndJob, DeleteRecord, ScanLibrary, Restorable
<1>4. \A t \in Unresolved : comic[t] \in Comics /\ InTrash(comic[t])
  BY DEF RowsHaveComics, Unresolved, InTrash
<1>5. home \subseteq home'
  BY DEF Enqueue, WriteFiles, EndJob, DeleteRecord, ScanLibrary
<1>6. OpConsistent'
  BY <1>1, <1>2, <1>3, <1>4
     DEF OpConsistent, At, OpComic, Enqueue, WriteFiles, EndJob, DeleteRecord,
         ScanLibrary
<1>7. BinReachable'
  BY <1>1, <1>2 DEF BinReachable
<1>8. OneCopy'
  BY <1>1, <1>3, <1>4 DEF OneCopy, BinReachable
<1>9. Restorable'
  BY <1>1, <1>2, <1>3 DEF Restorable, Restores
<1>10. LibraryTruthful'
  BY <1>2, <1>5
     DEF LibraryTruthful, Enqueue, WriteFiles, EndJob, DeleteRecord,
         ScanLibrary, TypeOK
<1> QED
  BY <1>6, <1>7, <1>8, <1>9, <1>10 DEF Facts

\* The row of a handler in progress, and the comic it is about.
LEMMA OpRow ==
  ASSUME TrashInv, ~At("idle")
  PROVE  op.row \in Unresolved /\ OpComic \in Comics /\ InTrash(OpComic)
<1>1. op.row \in Unresolved
  BY DEF TrashInv, OpConsistent
<1> QED
  BY <1>1 DEF TrashInv, RowsHaveComics, OpComic, Unresolved, InTrash

\* The new row is the only one of its comic that is not restored or aborted
\* by itself; the files are still at home.
LEMMA PrepareKeeps ==
  ASSUME TrashInv, NEW c \in Comics, PrepareTrash(c)
  PROVE  Facts'
<1> USE DEF TrashInv
<1>1. PICK t \in RowIds :
        /\ status[t] = "none"
        /\ status' = [status EXCEPT ![t] = "pending"]
        /\ comic' = [comic EXCEPT ![t] = c]
        /\ op' = [stage |-> "move", row |-> t]
  <2>1. PICK t \in RowIds :
          /\ \A u \in RowIds : status[u] = "none" <=> u >= t
          /\ status' = [status EXCEPT ![t] = "pending"]
          /\ comic' = [comic EXCEPT ![t] = c]
          /\ op' = [stage |-> "move", row |-> t]
    BY DEF PrepareTrash
  <2>2. t >= t
    BY MaxRowsAssumption DEF RowIds
  <2> QED
    BY <2>1, <2>2
<1>2. c \in home /\ c \in library /\ c \notin active
  BY DEF PrepareTrash
<1>3. library' = library /\ home' = home /\ bin' = bin /\ active' = active
  BY DEF PrepareTrash
<1>4. t \notin Unresolved /\ t \notin bin
  BY <1>1 DEF Unresolved, BinReachable
<1>5. Unresolved' = Unresolved \cup {t}
  BY <1>1 DEF Unresolved, TypeOK
<1>6. comic'[t] = c /\ \A u \in Unresolved : comic'[u] = comic[u]
  BY <1>1, <1>4 DEF TypeOK, Unresolved
<1>7. \A d \in Comics : InTrash(d)' <=> InTrash(d) \/ d = c
  BY <1>5, <1>6 DEF InTrash
<1>8. OpConsistent'
  BY <1>1, <1>2, <1>3, <1>5, <1>6 DEF OpConsistent, At, OpComic
<1>9. BinReachable' /\ OneCopy'
  BY <1>3, <1>5, <1>6 DEF BinReachable, OneCopy
<1>10. Restorable'
  <2>1. \A u \in Unresolved : Restores(u)' <=> Restores(u)
    BY <1>3, <1>6 DEF Restores
  <2>2. Restores(t)'
    BY <1>2, <1>3, <1>4, <1>6 DEF Restores
  <2> QED
    BY <1>2, <1>3, <1>5, <1>6, <1>7, <2>1, <2>2 DEF Restorable
<1>11. LibraryTruthful'
  BY <1>3, <1>7 DEF LibraryTruthful, TypeOK
<1> QED
  BY <1>8, <1>9, <1>10, <1>11 DEF Facts

\* The files go from home to the bin, to the row of the handler.
LEMMA MoveKeeps ==
  ASSUME TrashInv, Move
  PROVE  Facts'
<1> USE DEF TrashInv
<1>1. op.row \in Unresolved /\ OpComic \in Comics /\ InTrash(OpComic)
  BY OpRow DEF Move, At
<1>2. OpComic \in home /\ OpComic \notin active
  BY DEF Move, OpConsistent, At
<1>3. \A t \in bin : comic[t] # OpComic
  BY <1>2 DEF OneCopy
<1>4. Unresolved' = Unresolved /\ \A d \in Comics : InTrash(d)' = InTrash(d)
  BY DEF Move, Unresolved, InTrash
<1>5. CASE UNCHANGED <<home, bin>> /\ op' = [op EXCEPT !.stage = "abort"]
  BY <1>1, <1>2, <1>4, <1>5
     DEF Move, Facts, OpConsistent, At, OpComic, BinReachable, OneCopy,
         Restorable, Restores, InTrash, LibraryTruthful, TypeOK
<1>6. CASE /\ home' = home \ {OpComic}
           /\ bin' = bin \cup {op.row}
           /\ op' = [op EXCEPT !.stage = "finish"]
  <2>1. comic' = comic /\ active' = active /\ library' = library
    BY DEF Move
  <2>2. OpConsistent'
    BY <1>1, <1>2, <1>4, <1>6, <2>1 DEF OpConsistent, At, OpComic, TypeOK
  <2>3. BinReachable' /\ OneCopy'
    BY <1>1, <1>3, <1>4, <1>6, <2>1 DEF BinReachable, OneCopy, OpComic
  <2>4. \A u \in Unresolved : u = op.row => comic[u] = OpComic /\ Restores(u)'
    BY <1>6, <2>1 DEF Restores, OpComic
  <2>5. \A u \in Unresolved : comic[u] # OpComic => (Restores(u)' <=> Restores(u))
    BY <1>6, <2>1 DEF Restores, OpComic
  <2>6. Restorable'
    <3>1. ASSUME NEW d \in Comics, InTrash(d)
          PROVE  \E t \in Unresolved : comic[t] = d /\ Restores(t)'
      <4>1. CASE d = OpComic
        BY <1>1, <2>1, <2>4, <4>1
      <4>2. CASE d # OpComic
        BY <2>5, <3>1, <4>2 DEF Restorable
      <4> QED
        BY <4>1, <4>2
    <3> QED
      BY <1>4, <2>1, <3>1 DEF Restorable
  <2>7. LibraryTruthful'
    BY <1>1, <1>4, <1>6, <2>1 DEF LibraryTruthful, TypeOK
  <2> QED
    BY <2>2, <2>3, <2>6, <2>7 DEF Facts
<1> QED
  BY <1>5, <1>6 DEF Move

\* A handler that stops, at any stage, leaves records that can be recovered.
LEMMA StopKeeps ==
  ASSUME TrashInv, op' = NoOp,
         UNCHANGED <<library, home, bin, status, comic, active>>
  PROVE  Facts'
<1>1. Unresolved' = Unresolved /\ \A d \in Comics : InTrash(d)' = InTrash(d)
  BY DEF Unresolved, InTrash
<1> QED
  BY <1>1
     DEF TrashInv, Facts, OpConsistent, At, NoOp, BinReachable, OneCopy,
         Restorable, Restores, LibraryTruthful, TypeOK

\* When the row of a handler is closed, the files are at home, so that every
\* other unresolved row of the comic is empty and would be accepted.
LEMMA RowClosed ==
  ASSUME TrashInv, op.row \in Unresolved, OpComic \in home, op' = NoOp,
         UNCHANGED <<library, home, bin, comic, active>>,
         NEW s \in {"aborted", "restored"},
         status' = [status EXCEPT ![op.row] = s]
  PROVE  Facts'
<1> USE DEF TrashInv
<1>1. Unresolved' = Unresolved \ {op.row}
  BY DEF Unresolved, TypeOK
<1>2. op.row \notin bin
  BY DEF OneCopy, OpComic
<1>3. \A d \in Comics : InTrash(d)' => InTrash(d)
  BY <1>1 DEF InTrash
<1>4. \A d \in Comics : d # OpComic => (InTrash(d)' <=> InTrash(d))
  BY <1>1 DEF InTrash, OpComic
<1>5. OpConsistent' /\ BinReachable' /\ OneCopy'
  BY <1>1, <1>2 DEF OpConsistent, At, NoOp, BinReachable, OneCopy
<1>6. ASSUME NEW d \in Comics, InTrash(d)'
      PROVE  d \notin active /\ \E t \in Unresolved' : comic[t] = d /\ Restores(t)
  <2>1. CASE d = OpComic
    <3>1. PICK t \in Unresolved' : comic[t] = d
      BY <1>6 DEF InTrash
    <3>2. t \notin bin
      BY <2>1, <3>1 DEF OneCopy
    <3> QED
      BY <1>3, <1>6, <2>1, <3>1, <3>2 DEF Restores, Restorable
  <2>2. CASE d # OpComic
    BY <1>1, <1>3, <1>6, <2>2 DEF Restorable, OpComic
  <2> QED
    BY <2>1, <2>2
<1>7. Restorable'
  BY <1>6 DEF Restorable, Restores
<1>8. LibraryTruthful'
  BY <1>4 DEF LibraryTruthful, TypeOK
<1> QED
  BY <1>5, <1>7, <1>8 DEF Facts

LEMMA AbortKeeps ==
  ASSUME TrashInv, Abort
  PROVE  Facts'
<1>1. op.row \in Unresolved
  BY OpRow DEF Abort, At
<1>2. OpComic \in home
  BY DEF Abort, TrashInv, OpConsistent, At
<1>3. CASE status' = status
  BY <1>3, StopKeeps DEF Abort
<1>4. CASE status' = [status EXCEPT ![op.row] = "aborted"]
  BY <1>1, <1>2, <1>4, RowClosed DEF Abort
<1> QED
  BY <1>3, <1>4 DEF Abort

LEMMA FinishKeeps ==
  ASSUME TrashInv, FinishTrash
  PROVE  Facts'
<1> USE DEF TrashInv
<1>1. op.row \in Unresolved /\ OpComic \in Comics /\ InTrash(OpComic)
  BY OpRow DEF FinishTrash, At
<1>2. CASE UNCHANGED <<library, status>>
  BY <1>2, StopKeeps DEF FinishTrash
<1>3. CASE /\ library' = library \ {OpComic}
           /\ status' = [status EXCEPT ![op.row] = "trashed"]
  <2>1. /\ UNCHANGED <<home, bin, comic, active>>
        /\ op' = NoOp
    BY DEF FinishTrash
  <2>2. Unresolved' = Unresolved
    BY <1>1, <1>3 DEF Unresolved, TypeOK
  <2>3. \A d \in Comics : InTrash(d)' = InTrash(d)
    BY <2>1, <2>2 DEF InTrash
  <2> QED
    BY <1>3, <2>1, <2>2, <2>3
       DEF Facts, OpConsistent, At, NoOp, BinReachable, OneCopy, Restorable,
           Restores, LibraryTruthful, TypeOK
<1> QED
  BY <1>2, <1>3 DEF FinishTrash

\* The files come home from the bin, or were at home already.
LEMMA RestoreKeeps ==
  ASSUME TrashInv, NEW t \in RowIds, RestoreTrash(t)
  PROVE  Facts'
<1> USE DEF TrashInv
<1>1. /\ UNCHANGED <<library, status, comic, active>>
      /\ op' = [stage |-> "shelve", row |-> t]
      /\ t \in Unresolved /\ comic[t] \notin active
  BY DEF RestoreTrash
<1>2. comic[t] \in Comics /\ InTrash(comic[t])
  BY <1>1 DEF RowsHaveComics, Unresolved, InTrash
<1>3. Unresolved' = Unresolved /\ \A d \in Comics : InTrash(d)' = InTrash(d)
  BY <1>1 DEF Unresolved, InTrash
<1>4. /\ bin' = bin \ {t}
      /\ home' = home \cup {comic[t]}
  BY DEF RestoreTrash
<1>5. \A u \in bin' : comic[u] # comic[t]
  BY <1>4 DEF RestoreTrash, OneCopy
<1>6. OpConsistent'
  BY <1>1, <1>3, <1>4 DEF OpConsistent, At, OpComic
<1>7. BinReachable' /\ OneCopy'
  BY <1>1, <1>3, <1>4, <1>5 DEF BinReachable, OneCopy
<1>8. Restorable'
  <2>1. Restores(t)'
    BY <1>1, <1>4 DEF Restores
  <2>2. \A u \in Unresolved : comic[u] # comic[t] => (Restores(u)' <=> Restores(u))
    BY <1>1, <1>4 DEF Restores
  <2>3. ASSUME NEW d \in Comics, InTrash(d)
        PROVE  \E u \in Unresolved : comic[u] = d /\ Restores(u)'
    <3>1. CASE d = comic[t]
      BY <1>1, <2>1, <3>1
    <3>2. CASE d # comic[t]
      BY <2>2, <2>3, <3>2 DEF Restorable
    <3> QED
      BY <3>1, <3>2
  <2> QED
    BY <1>1, <1>3, <2>3 DEF Restorable
<1>9. LibraryTruthful'
  BY <1>1, <1>3, <1>4 DEF LibraryTruthful, TypeOK
<1> QED
  BY <1>6, <1>7, <1>8, <1>9 DEF Facts

LEMMA ShelveKeeps ==
  ASSUME TrashInv, Shelve
  PROVE  Facts'
<1> USE DEF TrashInv
<1>1. op.row \in Unresolved /\ OpComic \in Comics
  BY OpRow DEF Shelve, At
<1>2. OpComic \in home /\ OpComic \notin active
  BY DEF Shelve, OpConsistent, At
<1>3. CASE UNCHANGED library /\ op' = NoOp
  BY <1>3, StopKeeps DEF Shelve
<1>4. CASE /\ library' = library \cup {OpComic}
           /\ op' = [op EXCEPT !.stage = "resolve"]
  <2>1. UNCHANGED <<home, bin, status, comic, active>>
    BY DEF Shelve
  <2>2. Unresolved' = Unresolved /\ \A d \in Comics : InTrash(d)' = InTrash(d)
    BY <2>1 DEF Unresolved, InTrash
  <2>3. OpConsistent'
    BY <1>1, <1>2, <1>4, <2>1, <2>2 DEF OpConsistent, At, OpComic, TypeOK
  <2>4. BinReachable' /\ OneCopy'
    BY <2>1, <2>2 DEF BinReachable, OneCopy
  <2>5. Restorable'
    BY <2>1, <2>2 DEF Restorable, Restores
  <2>6. LibraryTruthful'
    BY <1>2, <1>4, <2>1, <2>2 DEF LibraryTruthful, TypeOK
  <2> QED
    BY <2>3, <2>4, <2>5, <2>6 DEF Facts
<1> QED
  BY <1>3, <1>4 DEF Shelve

LEMMA ResolveKeeps ==
  ASSUME TrashInv, Resolve
  PROVE  Facts'
<1> USE DEF TrashInv
<1>1. op.row \in Unresolved /\ OpComic \in Comics
  BY OpRow DEF Resolve, At
<1>2. OpComic \in home
  BY DEF Resolve, OpConsistent, At
<1>3. CASE status' = status
  BY <1>3, StopKeeps DEF Resolve
<1>4. CASE status' = [status EXCEPT ![op.row] = "restored"]
  BY <1>1, <1>2, <1>4, RowClosed DEF Resolve
<1> QED
  BY <1>3, <1>4 DEF Resolve

LEMMA StepTrashInv == TrashInv /\ [Next]_vars => TrashInv'
<1> SUFFICES ASSUME TrashInv, [Next]_vars PROVE TrashInv'
  OBVIOUS
<1>1. (TypeOK /\ RowsHaveComics)'
  BY TrashTyped
<1>2. Facts'
  <2>1. ASSUME NEW c \in Comics,
               Enqueue(c) \/ WriteFiles(c) \/ EndJob(c) \/ DeleteRecord(c)
        PROVE  Facts'
    BY <2>1, DownloadsKeep
  <2>2. ASSUME NEW c \in Comics, PrepareTrash(c) PROVE Facts'
    BY <2>2, PrepareKeeps
  <2>3. ASSUME NEW t \in RowIds, RestoreTrash(t) PROVE Facts'
    BY <2>3, RestoreKeeps
  <2>4. CASE ScanLibrary
    BY <2>4, DownloadsKeep
  <2>5. CASE Move \/ Abort \/ FinishTrash \/ Shelve \/ Resolve
    BY <2>5, MoveKeeps, AbortKeeps, FinishKeeps, ShelveKeeps, ResolveKeeps
  <2>6. CASE Crash
    BY <2>6, StopKeeps DEF Crash
  <2>7. CASE UNCHANGED vars
    <3>1. Unresolved' = Unresolved /\ \A d \in Comics : InTrash(d)' = InTrash(d)
      BY <2>7 DEF vars, Unresolved, InTrash
    <3> QED
      BY <2>7, <3>1
         DEF vars, TrashInv, Facts, OpConsistent, At, OpComic, BinReachable,
             OneCopy, Restorable, Restores, LibraryTruthful, TypeOK
  <2> QED
    BY <2>1, <2>2, <2>3, <2>4, <2>5, <2>6, <2>7 DEF Next
<1> QED
  BY <1>1, <1>2 DEF Facts, TrashInv

\* The invariant holds in every reachable state.
THEOREM TrashInvariance == Spec => []TrashInv
<1>1. Init => TrashInv
  BY InitTrashInv
<1>2. TrashInv /\ [Next]_vars => TrashInv'
  BY StepTrashInv
<1> QED
  BY <1>1, <1>2, PTL DEF Spec

\* Whatever fails and whenever the process stops, a directory in the bin has
\* a row that RestoreTrash offers (PrepareTrash writes it before the move).
THEOREM FilesReachable == Spec => []BinReachable
<1>1. TrashInv => BinReachable
  BY DEF TrashInv
<1> QED
  BY <1>1, TrashInvariance, PTL

\* A comic's directory is never in two places: RestoreTrash cannot meet the
\* conflict it guards against.
THEOREM SingleCopy == Spec => []OneCopy
<1>1. TrashInv => OneCopy
  BY DEF TrashInv
<1> QED
  BY <1>1, TrashInvariance, PTL

\* Every variable keeps its type.
THEOREM TrashTypeCorrect == Spec => []TypeOK
<1>1. TrashInv => TypeOK
  BY DEF TrashInv
<1> QED
  BY <1>1, TrashInvariance, PTL

\* The files of the bin have their row and are in no other place.
THEOREM BinKept == Spec => []BinIntact
BY FilesReachable, SingleCopy, PTL DEF BinIntact

\* A comic that InTrash keeps from the queue can always be restored.
THEOREM BinRecoverable == Spec => []Restorable
<1>1. TrashInv => Restorable
  BY DEF TrashInv
<1> QED
  BY <1>1, TrashInvariance, PTL

\* A library row has its files at home or a row of the bin that explains
\* where they are.
THEOREM LibraryExplained == Spec => []LibraryTruthful
<1>1. TrashInv => LibraryTruthful
  BY DEF TrashInv
<1> QED
  BY <1>1, TrashInvariance, PTL

\* RestoreTrash marks a record restored only when files and row are back.
THEOREM RestoreIsComplete == Spec => RestoredMeansShelved
<1>1. TrashInv /\ [Next]_vars =>
        [\A t \in RowIds :
            (status[t] # "restored" /\ status'[t] = "restored")
                => comic[t] \in home' /\ comic[t] \in library']_vars
  <2> SUFFICES ASSUME TrashInv, Next, NEW t \in RowIds,
                      status[t] # "restored", status'[t] = "restored"
               PROVE  comic[t] \in home' /\ comic[t] \in library'
    OBVIOUS
  <2>1. status # status'
    OBVIOUS
  <2>2. CASE Resolve
    <3>1. t = op.row
      BY <2>2, <2>1 DEF Resolve, TrashInv, TypeOK
    <3> QED
      BY <2>2, <3>1 DEF Resolve, TrashInv, OpConsistent, At, OpComic
  <2>3. CASE Abort \/ FinishTrash \/ \E c \in Comics : PrepareTrash(c)
    BY <2>3 DEF Abort, FinishTrash, PrepareTrash, TrashInv, TypeOK
  <2> QED
    BY <2>1, <2>2, <2>3
       DEF Next, Enqueue, WriteFiles, EndJob, DeleteRecord, RestoreTrash,
           ScanLibrary, Move, Shelve, Crash
<1> QED
  BY <1>1, TrashInvariance, PTL DEF Spec, RestoredMeansShelved
=============================================================================
