----------------------------- MODULE Favourites -----------------------------
(***************************************************************************)
(* The favourites of one account: the list upstream, which is read page by *)
(* page while it changes, the snapshot of it in the store, and the load    *)
(* that all who want the list share.                                       *)
(***************************************************************************)
EXTENDS Integers, Sequences, FiniteSets

CONSTANTS Comics,
          Starts,         \* lists that upstream may hold at first
          Callers,        \* those who wait for a load, the synchronisation runs
          PageSize,       \* entries in a page of upstream's list
          MaxPages,       \* pages that are asked for at most (200 in the code)
          FavLimits       \* bounds, one of them for each behaviour: changes of
                          \* the list, faults and crashes

ASSUME FavAssumption ==
    /\ PageSize \in Nat \ {0}
    /\ MaxPages \in Nat \ {0}
    /\ FavLimits \subseteq [{"change", "fault"} -> Nat]
    /\ Starts \subseteq Seq(Comics)
    /\ \A s \in Starts : \A i, j \in DOMAIN s : s[i] = s[j] => i = j

VARIABLES
    upstream,   \* upstream's list, the newest first
    kind,       \* which upstream it is: the two list differently
    snap,       \* favorite_state (the times only) and favorite_items
    load,       \* favoriteLoads[id] and its goroutine
    caller,     \* RefreshFavorites
    edit,       \* comics that a handler has changed and not yet answered
    left,       \* what is left of the bounds
    seen        \* history: doubt are the comics that the load may miss or have
                \* too many, stale those in which the snapshot may be wrong

favVars == <<upstream, kind, snap, load, caller, edit, left, seen>>

Listed(s) == {s[i] : i \in DOMAIN s}

\* The n-th page of a list, and how many pages it has.
PageOf(s, n) ==
    {s[i] : i \in {j \in DOMAIN s : (j - 1) \div PageSize = n - 1}}

Pages(s) == (Len(s) + PageSize - 1) \div PageSize

NoLoad == [at |-> "none", page |-> 1, items |-> {}, err |-> FALSE,
           relogged |-> FALSE]

Nothing == [doubt |-> {}, stale |-> {}]

\* Nothing is read any more; what is known of the snapshot stays.
Forget == [seen EXCEPT !.doubt = {}]

\* What only one of two sets has.
Apart(S, T) == (S \ T) \cup (T \ S)

FavInit ==
    /\ upstream \in Starts
    /\ kind \in {"pica", "jm"}
    /\ snap = [row |-> FALSE, items |-> {}, updated |-> "never",
               attempt |-> "never"]
    /\ load = NoLoad
    /\ caller = [w \in Callers |-> "away"]
    /\ edit = {}
    /\ left \in FavLimits
    /\ seen = Nothing

Spend(what) ==
    /\ left[what] > 0
    /\ left' = [left EXCEPT ![what] = @ - 1]

(***************************************************************************)
(* Requests.                                                               *)
(***************************************************************************)
\* favoriteLoad: a load that is in progress is shared.
Loading == IF load.at = "none" THEN [NoLoad EXCEPT !.at = "begin"] ELSE load

\* CachedFavorites: the snapshot is answered, and loaded anew if it is old.
View(force) ==
    /\ force \/ (snap.updated # "fresh" /\ snap.attempt # "recent")
    /\ load' = Loading
    /\ UNCHANGED <<upstream, kind, snap, caller, edit, left, seen>>

\* RefreshFavorites: a synchronisation run waits for the load itself.
Call(w) ==
    /\ caller[w] = "away"
    /\ caller' = [caller EXCEPT ![w] = "waiting"]
    /\ load' = Loading
    /\ UNCHANGED <<upstream, kind, snap, edit, left, seen>>

\* The context of the caller is done.
CallerLeaves(w) ==
    /\ caller[w] = "waiting"
    /\ caller' = [caller EXCEPT ![w] = "away"]
    /\ UNCHANGED <<upstream, kind, snap, load, edit, left, seen>>

(***************************************************************************)
(* The list upstream.                                                      *)
(***************************************************************************)
Reading == load.at \in {"list", "relogin", "save"}

\* The list without a comic, which is in it once.
Without(c) ==
    LET at == CHOOSE i \in DOMAIN upstream : upstream[i] = c
    IN  [i \in 1..(Len(upstream) - 1) |->
            IF i < at THEN upstream[i] ELSE upstream[i + 1]]

\* A comic is put at the head of the list, or taken out of it.
Toggled(c) ==
    IF c \in Listed(upstream) THEN Without(c) ELSE <<c>> \o upstream

\* The comics that stand behind a comic, and move up when it is taken out.
Behind(c) ==
    {upstream[i] : i \in {j \in DOMAIN upstream :
                             \E k \in 1..(j - 1) : upstream[k] = c}}

\* The list changes under a load that reads it.
Followed(c) ==
    IF Reading THEN [seen EXCEPT !.doubt = @ \cup {c} \cup Behind(c)] ELSE seen

\* addFavorite, delFavorite: upstream has done it, perhaps for the second time.
Edit(c) ==
    /\ Spend("change")
    /\ upstream' = Toggled(c)
    /\ seen' = Followed(c)
    /\ edit' = edit \cup {c}
    /\ UNCHANGED <<kind, snap, load, caller>>

\* The snapshot may be wrong about a comic, and nobody has told it.
Untold(c) ==
    /\ c \in edit
    /\ Spend("fault")
    /\ edit' = edit \ {c}
    /\ seen' = [seen EXCEPT !.stale = @ \cup {c}]
    /\ UNCHANGED <<upstream, kind, snap, load, caller>>

\* ... but the call has failed for the handler: it answers with an error.
EditFails(c) == Untold(c)

\* Wrong variant of Invalidate: the snapshot is left as it is.
InvalidateNothing(c) ==
    /\ c \in edit
    /\ edit' = edit \ {c}
    /\ UNCHANGED <<upstream, kind, snap, load, caller, left, seen>>

\* ... InvalidateFavorites: the snapshot counts as never loaded nor tried.
Invalidate(c) ==
    /\ c \in edit
    /\ edit' = edit \ {c}
    /\ snap' = IF snap.row
               THEN [snap EXCEPT !.updated = "never", !.attempt = "never"]
               ELSE snap
    /\ UNCHANGED <<upstream, kind, load, caller, left, seen>>

\* ... which fails, and the handler answers ok all the same.
InvalidateFails(c) == Untold(c)

\* The list is changed by another client of the account.
ChangeElsewhere(c) ==
    /\ Spend("change")
    /\ upstream' = Toggled(c)
    /\ seen' = [Followed(c) EXCEPT !.stale = @ \cup {c}]
    /\ UNCHANGED <<kind, snap, load, caller, edit>>

(***************************************************************************)
(* The goroutine of a load.                                                *)
(***************************************************************************)
\* BeginFavorites.
Begin ==
    /\ load.at = "begin"
    /\ snap' = [snap EXCEPT !.row = TRUE, !.attempt = "recent"]
    /\ load' = [load EXCEPT !.at = "login"]
    /\ UNCHANGED <<upstream, kind, caller, edit, left, seen>>

BeginFails ==
    /\ load.at = "begin"
    /\ Spend("fault")
    /\ load' = [load EXCEPT !.at = "end", !.err = TRUE]
    /\ UNCHANGED <<upstream, kind, snap, caller, edit, seen>>

\* src.Favorites is called, for the first time or after a Relogin.
Opens ==
    /\ load' = [load EXCEPT !.at = "list", !.page = 1, !.items = {}]
    /\ seen' = Forget

\* The account and its credentials are there, or Relogin has renewed them.
Login ==
    /\ load.at \in {"login", "relogin"}
    /\ Opens
    /\ UNCHANGED <<upstream, kind, snap, caller, edit, left>>

LoginFails ==
    /\ load.at \in {"login", "relogin"}
    /\ Spend("fault")
    /\ load' = [load EXCEPT !.at = "save", !.err = TRUE]
    /\ UNCHANGED <<upstream, kind, snap, caller, edit, seen>>

\* What is known after the page that is asked for.
Items == load.items \cup PageOf(upstream, load.page)

\* Pica.Favorites: the number of pages that this page tells.
PicaLast == Pages(upstream) <= load.page \/ PageOf(upstream, load.page) = {}

\* JM.Favorites: the total that this page tells, if it does, or an empty page.
JmLast(told) ==
    \/ PageOf(upstream, load.page) = {}
    \/ told /\ Cardinality(Items) >= Len(upstream)

LastPage(told) == IF kind = "pica" THEN PicaLast ELSE JmLast(told)

\* What is not on the pages that are asked for.
Beyond ==
    {upstream[i] : i \in {j \in DOMAIN upstream : j > MaxPages * PageSize}}

\* After 200 pages Pica gives up with an error, and JM without one: what is
\* behind them is not read.
ListPage ==
    /\ load.at = "list"
    /\ \E told \in BOOLEAN :
        /\ seen' = IF ~LastPage(told) /\ load.page = MaxPages
                   THEN [seen EXCEPT !.doubt = @ \cup Beyond] ELSE seen
        /\ load' = IF LastPage(told) \/ load.page = MaxPages
                   THEN [load EXCEPT !.items = Items, !.at = "save",
                                     !.err = ~LastPage(told) /\ kind = "pica"]
                   ELSE [load EXCEPT !.items = Items, !.page = @ + 1]
    /\ UNCHANGED <<upstream, kind, snap, caller, edit, left>>

\* A page fails after apiCall's retries, or the ten minutes are over.
PageFails ==
    /\ load.at = "list"
    /\ Spend("fault")
    /\ load' = [load EXCEPT !.at = "save", !.err = TRUE]
    /\ UNCHANGED <<upstream, kind, snap, caller, edit, seen>>

\* ErrAuth: the first time there is a Relogin, the second time it is an error.
PageUnauthorized ==
    /\ load.at = "list"
    /\ Spend("fault")
    /\ load' = IF load.relogged
               THEN [load EXCEPT !.at = "save", !.err = TRUE]
               ELSE [load EXCEPT !.at = "relogin", !.relogged = TRUE]
    /\ UNCHANGED <<upstream, kind, snap, caller, edit, seen>>

\* Wrong variant of Saved: a failed load replaces the snapshot as well.
SavedAlways ==
    [snap EXCEPT !.items = load.items, !.updated = "fresh"]

\* SaveFavorites: a whole list replaces the items, a part of one is added.
Saved ==
    IF load.err
    THEN [snap EXCEPT !.items = @ \cup load.items]
    ELSE [snap EXCEPT !.items = load.items, !.updated = "fresh"]

Save ==
    /\ load.at = "save"
    /\ snap' = Saved
    /\ load' = [load EXCEPT !.at = "end"]
    /\ seen' = [Forget EXCEPT !.stale = IF load.err THEN @ ELSE seen.doubt]
    /\ UNCHANGED <<upstream, kind, caller, edit, left>>

\* The transaction is rolled back.
SaveFails ==
    /\ load.at = "save"
    /\ Spend("fault")
    /\ load' = [load EXCEPT !.at = "end", !.err = TRUE]
    /\ seen' = Forget
    /\ UNCHANGED <<upstream, kind, snap, caller, edit>>

\* Wrong variant of Finish: after an error nobody is woken.
FinishSilently ==
    /\ load.at = "end"
    /\ load' = NoLoad
    /\ caller' = IF load.err THEN caller ELSE [w \in Callers |-> "away"]
    /\ UNCHANGED <<upstream, kind, snap, edit, left, seen>>

\* The deferred function: the load is taken out and its callers are woken.
Finish ==
    /\ load.at = "end"
    /\ load' = NoLoad
    /\ caller' = [w \in Callers |-> "away"]
    /\ UNCHANGED <<upstream, kind, snap, edit, left, seen>>

(***************************************************************************)
(* Time, and the end of the process.                                       *)
(***************************************************************************)
\* Five minutes since updated_at, or one since attempt_at, are over.
Age ==
    /\ \/ /\ snap.updated = "fresh"
          /\ snap' = [snap EXCEPT !.updated = "old"]
       \/ /\ snap.attempt = "recent"
          /\ snap' = [snap EXCEPT !.attempt = "old"]
    /\ UNCHANGED <<upstream, kind, load, caller, edit, left, seen>>

\* The process ends and starts again: only the store is left.
FavCrash ==
    /\ Spend("fault")
    /\ load' = NoLoad
    /\ caller' = [w \in Callers |-> "away"]
    /\ edit' = {}
    /\ seen' = [Forget EXCEPT !.stale = @ \cup edit]
    /\ UNCHANGED <<upstream, kind, snap>>

LoadSteps ==
    \/ Begin \/ BeginFails \/ Login \/ LoginFails
    \/ ListPage \/ PageFails \/ PageUnauthorized
    \/ Save \/ SaveFails \/ Finish

FavNext ==
    \/ \E force \in BOOLEAN : View(force)
    \/ \E w \in Callers : Call(w) \/ CallerLeaves(w)
    \/ \E c \in Comics :
          \/ Edit(c) \/ EditFails(c) \/ Invalidate(c) \/ InvalidateFails(c)
          \/ ChangeElsewhere(c)
    \/ LoadSteps
    \/ Age \/ FavCrash

FavSpec == FavInit /\ [][FavNext]_favVars

\* The goroutine of a load is scheduled; its requests come to an end.
FavFairness == WF_favVars(LoadSteps)

(***************************************************************************)
(* Properties.                                                             *)
(***************************************************************************)
FavTypeOK ==
    /\ Listed(upstream) \subseteq Comics
    /\ kind \in {"pica", "jm"}
    /\ snap \in [row : BOOLEAN, items : SUBSET Comics,
                 updated : {"never", "old", "fresh"},
                 attempt : {"never", "old", "recent"}]
    /\ load \in [at : {"none", "begin", "login", "list", "relogin", "save",
                       "end"},
                 page : 1..MaxPages, items : SUBSET Comics, err : BOOLEAN,
                 relogged : BOOLEAN]
    /\ caller \in [Callers -> {"away", "waiting"}]
    /\ edit \subseteq Comics
    /\ seen \in [doubt : SUBSET Comics, stale : SUBSET Comics]

(* What replaces the snapshot is the whole list although its pages are     *)
(* read one after the other while it changes: it is wrong at most about    *)
(* the comics that were added or taken out meanwhile, about those that     *)
(* stood behind one that was taken out, which may have moved to a page     *)
(* that had been read, and about those behind the last page that JM is     *)
(* asked for.  A failed load takes nothing out of the snapshot, and        *)
(* nothing is made up.                                                     *)
SnapshotWhole ==
    [][snap'.items # snap.items =>
          IF load.err
          THEN /\ snap.items \subseteq snap'.items
               /\ snap'.items \ snap.items
                     \subseteq Listed(upstream) \cup seen.doubt
          ELSE Apart(snap'.items, Listed(upstream))
                  \subseteq seen.doubt]_favVars

(* A snapshot that counts as fresh shows every change that a handler has   *)
(* answered with ok.  The comics that it may be wrong about are known:     *)
(* those a handler still works on, those whose change was made elsewhere,  *)
(* was answered with an error, or could not be told; and, when changes met *)
(* the load that it comes from and whose stamp undoes InvalidateFavorites, *)
(* the comics that SnapshotWhole names, and no others.                     *)
FreshMeansCurrent ==
    snap.updated = "fresh" =>
        Apart(snap.items, Listed(upstream)) \subseteq seen.stale \cup edit

\* Whoever waits for the list gets an answer, whatever fails in the load.
CallersAnswered ==
    \A w \in Callers : caller[w] = "waiting" ~> caller[w] = "away"
=============================================================================
