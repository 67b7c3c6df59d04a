--------------------------- MODULE UpstreamProofs ---------------------------
(***************************************************************************)
(* Proofs about what the server says and keeps of upstream: the call that  *)
(* toggles a favourite (ToggleCall), for every number of requests, the     *)
(* snapshot of the favourites (Favourites), for every list, page size and  *)
(* bound, and the pages that are put back together (Descramble), for every *)
(* height and every number of strips.                                      *)
(***************************************************************************)
EXTENDS Favourites, ToggleCall, Descramble, TLAPS, FiniteSetTheorems

-----------------------------------------------------------------------------
(* ToggleCall.                                                             *)

HandlerType ==
    [at : {"idle", "calling", "ok", "failed"}, want : BOOLEAN,
     round : {1, 2}, try : 1..Tries, blind : BOOLEAN]

\* The handler that toggled last has got what it wants, or something is left
\* of it: it is still calling, it has failed, or does not know what it did.
LastToggle ==
    \/ \E h \in Handlers : Done(h) /\ handler[h].want = favourite
    \/ \E h \in Handlers :
          \/ handler[h].at \in {"calling", "failed"}
          \/ Done(h) /\ handler[h].blind
    \/ \A h \in Handlers : handler[h].at = "idle"

ToggleInv == ToggleTypeOK /\ LastToggle

LEMMA NoToggleType == NoToggle \in HandlerType /\ NoToggle.at = "idle"
BY ToggleAssumption DEF NoToggle, HandlerType

\* A step of one handler, with what it may make of the favourite.
LEMMA HandlerStep ==
  ASSUME ToggleTypeOK, NEW h \in Handlers, NEW g \in HandlerType,
         handler' = [handler EXCEPT ![h] = g], source' = source,
         favourite' \in BOOLEAN,
         \/ g.at = "ok" /\ g.want = favourite'
         \/ g.at \in {"calling", "failed"}
         \/ g.at = "ok" /\ g.blind
  PROVE  ToggleInv'
<1>1. ToggleTypeOK'
  BY DEF ToggleTypeOK, HandlerType
<1>2. handler'[h] = g
  BY DEF ToggleTypeOK
<1>3. LastToggle'
  BY <1>2 DEF LastToggle, Done
<1> QED
  BY <1>1, <1>3 DEF ToggleInv

LEMMA ToggleStepInv == ToggleInv /\ [ToggleNext]_toggleVars => ToggleInv'
<1> SUFFICES ASSUME ToggleInv, [ToggleNext]_toggleVars PROVE ToggleInv'
  OBVIOUS
<1>0. /\ ToggleTypeOK /\ favourite \in BOOLEAN
      /\ \A h \in Handlers : handler[h] \in HandlerType
  BY DEF ToggleInv, ToggleTypeOK, HandlerType
<1>1. ASSUME NEW h \in Handlers, NEW want \in BOOLEAN, Request(h, want)
      PROVE  ToggleInv'
  <2> DEFINE g == [handler[h] EXCEPT !.at = "calling", !.want = want]
  <2>1. g \in HandlerType /\ g.at = "calling"
    BY <1>0 DEF HandlerType
  <2>2. handler' = [handler EXCEPT ![h] = g]
    BY <1>1 DEF Request
  <2> HIDE DEF g
  <2> QED
    BY <1>0, <1>1, <2>1, <2>2, HandlerStep DEF Request
<1>2. ASSUME NEW h \in Handlers, NEW o \in Outcomes, NEW done \in BOOLEAN,
             TryAgain(h, o, done)
      PROVE  ToggleInv'
  <2> DEFINE g == [handler[h] EXCEPT !.try = @ + 1]
  <2>1. handler[h].try + 1 \in 1..Tries
    BY <1>0, <1>2, ToggleAssumption DEF TryAgain, HandlerType
  <2>2. g \in HandlerType /\ g.at = handler[h].at
    BY <1>0, <2>1 DEF HandlerType
  <2>3. handler' = [handler EXCEPT ![h] = g] /\ handler[h].at = "calling"
    BY <1>2 DEF TryAgain, Unanswered
  <2>4. favourite' \in BOOLEAN /\ source' = source
    BY <1>2 DEF TryAgain, Unanswered
  <2> HIDE DEF g
  <2> QED
    BY <1>0, <2>2, <2>3, <2>4, HandlerStep
<1>3. ASSUME NEW h \in Handlers, NEW o \in Outcomes, NEW done \in BOOLEAN,
             CallFails(h, o, done)
      PROVE  ToggleInv'
  <2> DEFINE g == [handler[h] EXCEPT !.at = "failed"]
  <2>1. g \in HandlerType /\ g.at = "failed"
    BY <1>0 DEF HandlerType
  <2>2. handler' = [handler EXCEPT ![h] = g]
    BY <1>3 DEF CallFails
  <2>3. favourite' \in BOOLEAN /\ source' = source
    BY <1>3 DEF CallFails, Unanswered
  <2> HIDE DEF g
  <2> QED
    BY <1>0, <2>1, <2>2, <2>3, HandlerStep
<1>4. ASSUME NEW h \in Handlers, Answered(h) PROVE ToggleInv'
  <2>1. PICK now \in BOOLEAN : now = ~favourite
    BY <1>0
  <2>2. /\ handler[h] \in HandlerType /\ handler[h].at = "calling"
        /\ 1 \in 1..Tries
    BY <1>0, <1>4, ToggleAssumption DEF Answered
  <2> DEFINE ok == [handler[h] EXCEPT !.at = "ok"]
             again == [handler[h] EXCEPT !.round = 2, !.try = 1]
             unseen == [handler[h] EXCEPT !.at = "ok", !.blind = TRUE]
             failed == [handler[h] EXCEPT !.at = "failed"]
  <2>3. ok \in HandlerType /\ ok.at = "ok"
    BY <2>2 DEF HandlerType
  <2>4. ok.want = handler[h].want
    BY <2>2 DEF HandlerType
  <2>5. again \in HandlerType /\ again.at = "calling"
    BY <2>2 DEF HandlerType
  <2>6. unseen \in HandlerType /\ unseen.at = "ok"
    BY <2>2 DEF HandlerType
  <2>7. unseen.blind
    BY <2>2 DEF HandlerType
  <2>8. failed \in HandlerType /\ failed.at = "failed"
    BY <2>2 DEF HandlerType
  <2>9. favourite' = now /\ source' = source
    BY <1>4, <2>1 DEF Answered
  <2>10. PICK g \in {ok, again, unseen, failed} :
            /\ handler' = [handler EXCEPT ![h] = g]
            /\ (g = ok /\ handler[h].want = now) \/ g \in {again, unseen, failed}
    BY <1>4, <2>1 DEF Answered, PicaNext, JmNext
  <2> HIDE DEF ok, again, unseen, failed
  <2> QED
    BY <1>0, <2>3, <2>4, <2>5, <2>6, <2>7, <2>8, <2>9, <2>10, HandlerStep
<1>7. ASSUME NEW h \in Handlers, NEW done \in BOOLEAN, AnsweredUnclear(h, done)
      PROVE  ToggleInv'
  <2>2. /\ handler[h] \in HandlerType /\ handler[h].at = "calling"
        /\ 1 \in 1..Tries /\ favourite' \in BOOLEAN /\ source' = source
    BY <1>0, <1>7, ToggleAssumption DEF AnsweredUnclear
  <2> DEFINE again == [handler[h] EXCEPT !.round = 2, !.try = 1]
             unseen == [handler[h] EXCEPT !.at = "ok", !.blind = TRUE]
             failed == [handler[h] EXCEPT !.at = "failed"]
  <2>5. again \in HandlerType /\ again.at = "calling"
    BY <2>2 DEF HandlerType
  <2>6. unseen \in HandlerType /\ unseen.at = "ok"
    BY <2>2 DEF HandlerType
  <2>7. unseen.blind
    BY <2>2 DEF HandlerType
  <2>8. failed \in HandlerType /\ failed.at = "failed"
    BY <2>2 DEF HandlerType
  <2>9. JmNext(handler[h], ~handler[h].want) \in {again, failed}
    <3>1. handler[h].want \in BOOLEAN
      BY <2>2 DEF HandlerType
    <3>2. ~handler[h].want # handler[h].want
      BY <3>1
    <3> QED
      BY <3>2 DEF JmNext
  <2>10. PICK g \in {again, unseen, failed} : handler' = [handler EXCEPT ![h] = g]
    BY <1>7, <2>9 DEF AnsweredUnclear, PicaUnclear, JmUnclear
  <2> HIDE DEF again, unseen, failed
  <2> QED
    BY <1>0, <2>2, <2>5, <2>6, <2>7, <2>8, <2>10, HandlerStep
<1>5. CASE Rest
  <2>1. \A h \in Handlers : handler'[h] = NoToggle
    BY <1>5 DEF Rest
  <2> QED
    BY <1>0, <1>5, <2>1, NoToggleType
    DEF Rest, ToggleInv, ToggleTypeOK, HandlerType, LastToggle
<1>6. CASE UNCHANGED toggleVars
  BY <1>6 DEF toggleVars, ToggleInv, ToggleTypeOK, LastToggle, Done
<1> QED
  BY <1>1, <1>2, <1>3, <1>4, <1>5, <1>6, <1>7 DEF ToggleNext, Toggling

LEMMA ToggleInitInv == ToggleInit => ToggleInv
BY NoToggleType
DEF ToggleInit, ToggleInv, ToggleTypeOK, HandlerType, LastToggle

\* The handlers keep their types: no call is tried more often than it may.
THEOREM ToggleTypeCorrect == ToggleSpec => []ToggleTypeOK
<1>1. ToggleInv => ToggleTypeOK
  BY DEF ToggleInv
<1> QED
  BY ToggleInitInv, ToggleStepInv, <1>1, PTL DEF ToggleSpec

\* AddFavorite, DelFavorite and toggleFavorite: when all requests want the
\* same and are answered with ok, that is what the favourite is, unless one of
\* Pica's took an answer for ok that did not tell; for every number of requests
\* at the same time, and whatever upstream answers.
THEOREM TogglesHonest == ToggleSpec => []ToggleHonest
<1>1. ToggleInv => ToggleHonest
  <2> SUFFICES ASSUME ToggleInv, NEW want \in BOOLEAN,
                      \E h \in Handlers : Done(h),
                      \A h \in Handlers :
                         handler[h].at # "idle" =>
                            /\ Done(h) /\ handler[h].want = want
                            /\ ~handler[h].blind
               PROVE  favourite = want
    BY DEF ToggleHonest
  <2>1. \E h \in Handlers : Done(h) /\ handler[h].want = favourite
    BY DEF ToggleInv, LastToggle, Done
  <2> QED
    BY <2>1 DEF Done
<1> QED
  BY ToggleInitInv, ToggleStepInv, <1>1, PTL DEF ToggleSpec

-----------------------------------------------------------------------------
(* Favourites: pages of a list.                                            *)

LEMMA DivMono ==
  ASSUME NEW n \in Nat \ {0}, NEW a \in Nat, NEW b \in Nat, a <= b
  PROVE  a \div n <= b \div n
BY SMT

LEMMA DivNat ==
  ASSUME NEW n \in Nat \ {0}, NEW a \in Nat
  PROVE  a \div n \in Nat
BY SMT

LEMMA DivLess ==
  ASSUME NEW n \in Nat \ {0}, NEW a \in Nat, NEW m \in Nat, a < m * n
  PROVE  a \div n < m
BY SMT

LEMMA DivAdd ==
  ASSUME NEW n \in Nat \ {0}, NEW a \in Nat
  PROVE  (a + n) \div n = (a \div n) + 1
BY SMT

LEMMA DivMul ==
  ASSUME NEW n \in Nat \ {0}, NEW m \in Nat
  PROVE  (m * n) \div n = m /\ m * n \in Nat
BY SMT

\* The page on which the i-th entry is, the first page being 0.
PageNr(i) == (i - 1) \div PageSize

LEMMA PageNrType ==
  ASSUME NEW i \in Nat \ {0}
  PROVE  PageNr(i) \in Nat
BY DivNat, FavAssumption DEF PageNr

\* There is nothing behind the last page that Pages counts,
LEMMA BehindPages ==
  ASSUME NEW s \in Seq(Comics), NEW n \in Nat, Pages(s) <= n,
         NEW i \in DOMAIN s
  PROVE  PageNr(i) < n
<1>1. PageSize \in Nat \ {0}
  BY FavAssumption
<1>2. PICK a \in Nat, b \in Nat : a = i - 1 /\ b = Len(s) - 1 /\ a <= b
  <2>1. i - 1 \in Nat /\ Len(s) - 1 \in Nat /\ i - 1 <= Len(s) - 1
    OBVIOUS
  <2> QED
    BY <2>1
<1>3. PICK p \in Nat, q \in Nat :
         p = a \div PageSize /\ q = b \div PageSize /\ p <= q
  <2>1. a \div PageSize <= b \div PageSize
    BY <1>1, <1>2, DivMono
  <2>2. a \div PageSize \in Nat /\ b \div PageSize \in Nat
    BY <1>1, DivNat
  <2> QED
    BY <2>1, <2>2
<1>4. Pages(s) = q + 1
  <2>1. Len(s) + PageSize - 1 = b + PageSize
    BY <1>1, <1>2
  <2> QED
    BY <1>1, <1>3, <2>1, DivAdd DEF Pages
<1>5. PageNr(i) = p
  BY <1>2, <1>3 DEF PageNr
<1> QED
  BY <1>3, <1>4, <1>5

\* nor behind a page that is empty,
LEMMA BehindEmptyPage ==
  ASSUME NEW s \in Seq(Comics), NEW n \in Nat \ {0}, PageOf(s, n) = {},
         NEW i \in DOMAIN s
  PROVE  PageNr(i) < n
<1>1. i \in Nat /\ i - 1 \in Nat /\ i <= Len(s)
  OBVIOUS
<1>2. PageSize \in Nat \ {0} /\ PageNr(i) \in Nat
  BY <1>1, FavAssumption, DivNat DEF PageNr
<1> SUFFICES ASSUME PageNr(i) >= n PROVE FALSE
  BY <1>2
<1> DEFINE j == (n - 1) * PageSize + 1
<1>3. (n - 1) * PageSize \in Nat /\ ((n - 1) * PageSize) \div PageSize = n - 1
  <2>1. n - 1 \in Nat
    OBVIOUS
  <2> QED
    BY <1>2, <2>1, DivMul
<1>4. PageNr(j) = n - 1 /\ j \in Nat
  BY <1>2, <1>3 DEF PageNr
<1>5. j <= i
  <2> SUFFICES ASSUME i < j PROVE FALSE
    BY <1>1, <1>4
  <2>1. i - 1 <= (n - 1) * PageSize
    BY <1>1, <1>3
  <2>2. PageNr(i) <= n - 1
    BY <1>1, <1>2, <1>3, <2>1, DivMono DEF PageNr
  <2> QED
    BY <1>2, <2>2
<1>6. j \in DOMAIN s
  BY <1>1, <1>3, <1>4, <1>5
<1> HIDE DEF j
<1>7. s[j] \in PageOf(s, n)
  BY <1>4, <1>6 DEF PageOf, PageNr
<1> QED
  BY <1>7

\* nor on the pages that are asked for, but what is beyond them.
LEMMA BehindMaxPages ==
  ASSUME NEW s \in Seq(Comics), NEW i \in DOMAIN s, PageNr(i) >= MaxPages
  PROVE  i > MaxPages * PageSize
<1>1. i - 1 \in Nat /\ MaxPages * PageSize \in Nat
  BY FavAssumption
<1> SUFFICES ASSUME i - 1 < MaxPages * PageSize PROVE FALSE
  BY <1>1
<1>2. PageNr(i) < MaxPages
  BY <1>1, DivLess, FavAssumption DEF PageNr
<1>3. PageNr(i) \in Nat /\ MaxPages \in Nat
  BY FavAssumption, PageNrType
<1> QED
  BY <1>2, <1>3

\* A later page has later entries.
LEMMA PageOrder ==
  ASSUME NEW i \in Nat \ {0}, NEW j \in Nat \ {0}, PageNr(j) < PageNr(i)
  PROVE  j < i
<1>1. PICK a \in Nat, b \in Nat : a = i - 1 /\ b = j - 1
  <2>1. i - 1 \in Nat /\ j - 1 \in Nat
    OBVIOUS
  <2> QED
    BY <2>1
<1> SUFFICES ASSUME a <= b PROVE FALSE
  BY <1>1
<1>2. a \div PageSize <= b \div PageSize
  BY FavAssumption, DivMono
<1>3. PageNr(i) \in Nat /\ PageNr(j) \in Nat
  BY PageNrType
<1> QED
  BY <1>1, <1>2, <1>3 DEF PageNr

\* What stands in a list before its i-th entry.
Before(s, i) == {s[k] : k \in 1..(i - 1)}

\* There are fewer of these than the list has entries.
LEMMA BeforeFew ==
  ASSUME NEW s \in Seq(Comics), NEW i \in DOMAIN s,
         NEW S, S \subseteq Before(s, i)
  PROVE  Cardinality(S) < Len(s)
<1>1. PICK n \in Nat : n = i - 1 /\ n < Len(s) /\ n \in Int
  <2>1. i - 1 \in Nat /\ i - 1 < Len(s) /\ i - 1 \in Int
    OBVIOUS
  <2> QED
    BY <2>1
<1> DEFINE f == [k \in 1..n |-> s[k]]
           T == Before(s, i)
<1>2. f \in Surjection(1..n, T)
  BY <1>1 DEF Surjection, Before
<1>3. IsFiniteSet(1..n) /\ Cardinality(1..n) = n
  BY <1>1, FS_Interval
<1> HIDE DEF f, T
<1>4. IsFiniteSet(T) /\ Cardinality(T) <= n
  BY <1>2, <1>3, FS_Surjection
<1>5. S \subseteq T
  BY DEF T
<1>6. /\ Cardinality(S) \in Nat /\ Cardinality(T) \in Nat
      /\ Cardinality(S) <= Cardinality(T)
  BY <1>4, <1>5, FS_Subset, FS_CardinalityType
<1> QED
  BY <1>1, <1>4, <1>6

-----------------------------------------------------------------------------
(* Favourites: the invariant.                                              *)

SnapType ==
    [row : BOOLEAN, items : SUBSET Comics,
     updated : {"never", "old", "fresh"}, attempt : {"never", "old", "recent"}]

LoadType ==
    [at : {"none", "begin", "login", "list", "relogin", "save", "end"},
     page : 1..MaxPages, items : SUBSET Comics, err : BOOLEAN,
     relogged : BOOLEAN]

SeenType == [doubt : SUBSET Comics, stale : SUBSET Comics]

\* Nothing is known of a list that is not being read.
Unread == {"none", "begin", "login", "end"}

LoadFine ==
    /\ load.at \in {"none", "begin", "login"} => load.items = {} /\ ~load.err
    /\ load.at \in {"list", "relogin"} => ~load.err

\* What has been read is in the list, or has been changed since.
SeenFine ==
    /\ load.at \in Unread => seen.doubt = {}
    /\ Reading => load.items \subseteq Listed(upstream) \cup seen.doubt

\* What is not in doubt has been read, or is on this page or a later one, and
\* behind everything that has been read.
PagesRead ==
    load.at = "list" =>
        \A i \in DOMAIN upstream :
            \/ upstream[i] \in load.items \cup seen.doubt
            \/ /\ PageNr(i) >= load.page - 1
               /\ load.items \subseteq Before(upstream, i)

AllRead ==
    load.at = "save" /\ ~load.err =>
        Listed(upstream) \subseteq load.items \cup seen.doubt

LoadInv ==
    /\ upstream \in Seq(Comics)
    /\ kind \in {"pica", "jm"}
    /\ load \in LoadType
    /\ seen \in SeenType
    /\ LoadFine /\ SeenFine /\ PagesRead /\ AllRead

\* What a load adds to a fresh snapshot if it fails is in the list, or known to
\* be wrong.
LoadKnown ==
    Reading /\ snap.updated = "fresh" =>
        load.items \subseteq Listed(upstream) \cup seen.stale \cup edit

SnapInv ==
    /\ snap \in SnapType
    /\ caller \in [Callers -> {"away", "waiting"}]
    /\ edit \subseteq Comics
    /\ load.at \in {"login", "list", "relogin", "save"} => snap.row
    /\ snap.updated = "fresh" => snap.row
    /\ LoadKnown
    /\ FreshMeansCurrent

FavInv == LoadInv /\ SnapInv

LEMMA NoLoadType ==
  /\ NoLoad \in LoadType /\ NoLoad.at = "none" /\ NoLoad.items = {}
  /\ NoLoad.page = 1
BY FavAssumption DEF NoLoad, LoadType

LEMMA NoLoadOK == ~NoLoad.err
BY DEF NoLoad

LEMMA NothingType == Nothing \in SeenType /\ Nothing.doubt = {}
BY DEF Nothing, SeenType

LEMMA FavInitInv == FavInit => FavInv
<1> SUFFICES ASSUME FavInit PROVE FavInv
  OBVIOUS
<1> USE NoLoadType, NoLoadOK, NothingType
<1>1. upstream \in Seq(Comics) /\ kind \in {"pica", "jm"}
  BY FavAssumption DEF FavInit
<1>2. load = NoLoad /\ seen = Nothing
  BY DEF FavInit
<1>3. LoadFine /\ SeenFine /\ PagesRead /\ AllRead
  BY <1>2 DEF LoadFine, SeenFine, PagesRead, AllRead, Reading, Unread
<1>4. snap \in SnapType /\ snap.updated = "never"
  BY DEF FavInit, SnapType
<1>5. SnapInv
  BY <1>2, <1>4 DEF FavInit, SnapInv, LoadKnown, FreshMeansCurrent, Reading
<1> QED
  BY <1>1, <1>2, <1>3, <1>5 DEF FavInv, LoadInv

-----------------------------------------------------------------------------
(* Favourites: the list changes.                                           *)

LEMMA WithoutType ==
  ASSUME upstream \in Seq(Comics), NEW c \in Listed(upstream)
  PROVE  Without(c) \in Seq(Comics)
<1>1. Len(upstream) \in Nat /\ Len(upstream) >= 1
  BY DEF Listed
<1>2. Len(upstream) - 1 \in Nat
  BY <1>1
<1>3. \A i \in 1..(Len(upstream) - 1) :
         upstream[i] \in Comics /\ upstream[i + 1] \in Comics
  BY <1>1
<1> DEFINE at == CHOOSE i \in DOMAIN upstream : upstream[i] = c
           g(i) == IF i < at THEN upstream[i] ELSE upstream[i + 1]
<1>4. \A i \in 1..(Len(upstream) - 1) : g(i) \in Comics
  BY <1>3
<1>5. Without(c) = [i \in 1..(Len(upstream) - 1) |-> g(i)]
  BY DEF Without
<1> HIDE DEF g
<1> QED
  BY <1>2, <1>4, <1>5

LEMMA AddedList ==
  ASSUME upstream \in Seq(Comics), NEW c \in Comics, c \notin Listed(upstream)
  PROVE  /\ Toggled(c) \in Seq(Comics)
         /\ Len(Toggled(c)) = Len(upstream) + 1
         /\ Toggled(c)[1] = c
         /\ \A i \in DOMAIN Toggled(c) :
               i # 1 => i - 1 \in DOMAIN upstream /\
                        Toggled(c)[i] = upstream[i - 1]
         /\ Listed(Toggled(c)) = Listed(upstream) \cup {c}
<1>1. Toggled(c) = <<c>> \o upstream
  BY DEF Toggled
<1> DEFINE s == <<c>> \o upstream
<1>2. s \in Seq(Comics) /\ Len(s) = Len(upstream) + 1 /\ s[1] = c
  OBVIOUS
<1>3. \A i \in DOMAIN s :
         i # 1 => i - 1 \in DOMAIN upstream /\ s[i] = upstream[i - 1]
  OBVIOUS
<1>4. \A i \in DOMAIN upstream : i + 1 \in DOMAIN s /\ s[i + 1] = upstream[i]
  OBVIOUS
<1>5. 1 \in DOMAIN s
  BY <1>2
<1> HIDE DEF s
<1>6. Listed(s) = Listed(upstream) \cup {c}
  <2>1. ASSUME NEW i \in DOMAIN s PROVE s[i] \in Listed(upstream) \cup {c}
    BY <1>2, <1>3 DEF Listed
  <2>2. c \in Listed(s)
    BY <1>2, <1>5 DEF Listed
  <2>3. ASSUME NEW i \in DOMAIN upstream PROVE upstream[i] \in Listed(s)
    BY <1>4 DEF Listed
  <2> QED
    BY <2>1, <2>2, <2>3 DEF Listed
<1> QED
  BY <1>1, <1>2, <1>3, <1>6 DEF s

LEMMA RemovedList ==
  ASSUME upstream \in Seq(Comics), NEW c \in Comics, c \in Listed(upstream)
  PROVE  /\ Toggled(c) \in Seq(Comics)
         /\ \E at \in DOMAIN upstream :
               /\ upstream[at] = c
               /\ DOMAIN Toggled(c) = 1..(Len(upstream) - 1)
               /\ \A i \in 1..(Len(upstream) - 1) :
                     Toggled(c)[i] = IF i < at THEN upstream[i]
                                               ELSE upstream[i + 1]
         /\ Listed(Toggled(c)) \subseteq Listed(upstream)
         /\ Listed(upstream) \subseteq Listed(Toggled(c)) \cup {c}
<1>1. Toggled(c) = Without(c) /\ Without(c) \in Seq(Comics)
  BY WithoutType DEF Toggled
<1> DEFINE at == CHOOSE i \in DOMAIN upstream : upstream[i] = c
           s == Without(c)
<1>2. at \in DOMAIN upstream /\ upstream[at] = c
  BY DEF Listed
<1>3. s = [i \in 1..(Len(upstream) - 1) |->
              IF i < at THEN upstream[i] ELSE upstream[i + 1]]
  BY DEF Without
<1> HIDE DEF at, s
<1>4. /\ DOMAIN s = 1..(Len(upstream) - 1)
      /\ \A i \in 1..(Len(upstream) - 1) :
            s[i] = IF i < at THEN upstream[i] ELSE upstream[i + 1]
  BY <1>3
<1>5. Listed(s) \subseteq Listed(upstream)
  <2> SUFFICES ASSUME NEW i \in 1..(Len(upstream) - 1)
               PROVE  s[i] \in Listed(upstream)
    BY <1>4 DEF Listed
  <2>1. i \in DOMAIN upstream /\ i + 1 \in DOMAIN upstream
    OBVIOUS
  <2> QED
    BY <1>4, <2>1 DEF Listed
<1>6. Listed(upstream) \subseteq Listed(s) \cup {c}
  <2> SUFFICES ASSUME NEW i \in DOMAIN upstream, i # at
               PROVE  upstream[i] \in Listed(s)
    BY <1>2 DEF Listed
  <2>1. at \in Int /\ i \in Int /\ i >= 1 /\ i <= Len(upstream)
        /\ at >= 1 /\ at <= Len(upstream)
    BY <1>2
  <2>2. CASE i < at
    <3>1. i \in 1..(Len(upstream) - 1)
      BY <2>1, <2>2
    <3> QED
      BY <1>4, <2>2, <3>1 DEF Listed
  <2>3. CASE i > at
    <3>1. PICK k \in 1..(Len(upstream) - 1) : k = i - 1 /\ ~(k < at) /\ k + 1 = i
      <4>1. /\ i - 1 \in 1..(Len(upstream) - 1) /\ ~(i - 1 < at)
            /\ (i - 1) + 1 = i
        BY <2>1, <2>3
      <4> QED
        BY <4>1
    <3> QED
      BY <1>4, <3>1 DEF Listed
  <2> QED
    BY <2>1, <2>2, <2>3
<1> QED
  BY <1>1, <1>2, <1>4, <1>5, <1>6 DEF s

LEMMA ToggledType ==
  ASSUME upstream \in Seq(Comics), NEW c \in Comics
  PROVE  /\ Toggled(c) \in Seq(Comics)
         /\ Listed(upstream) \subseteq Listed(Toggled(c)) \cup {c}
         /\ Listed(Toggled(c)) \subseteq Listed(upstream) \cup {c}
<1>1. CASE c \in Listed(upstream)
  BY <1>1, RemovedList
<1>2. CASE c \notin Listed(upstream)
  BY <1>2, AddedList
<1> QED
  BY <1>1, <1>2

LEMMA FollowedType ==
  ASSUME upstream \in Seq(Comics), seen \in SeenType, NEW c \in Comics
  PROVE  /\ Followed(c) \in SeenType /\ Followed(c).stale = seen.stale
         /\ ~Reading => Followed(c) = seen
         /\ Reading => Followed(c).doubt = seen.doubt \cup {c} \cup Behind(c)
<1>1. Behind(c) \in SUBSET Comics
  BY DEF Behind
<1> QED
  BY <1>1 DEF Followed, SeenType

\* A comic is added or taken out, while a load may be at any page.
LEMMA ChangeStep ==
  ASSUME LoadInv, NEW c \in Comics, upstream' = Toggled(c),
         UNCHANGED <<kind, load>>, seen' \in SeenType,
         seen'.doubt = Followed(c).doubt
  PROVE  LoadInv'
<1>0. /\ upstream \in Seq(Comics) /\ load \in LoadType /\ seen \in SeenType
      /\ LoadFine /\ SeenFine /\ PagesRead /\ AllRead
  BY DEF LoadInv
<1>1. /\ upstream' \in Seq(Comics) /\ kind' \in {"pica", "jm"}
      /\ Listed(upstream) \subseteq Listed(upstream') \cup {c}
      /\ Listed(upstream') \subseteq Listed(upstream) \cup {c}
  BY <1>0, ToggledType DEF LoadInv
<1>2. LoadFine'
  BY <1>0 DEF LoadFine
<1>3. CASE ~Reading
  <2>1. load.at \in Unread
    BY <1>0, <1>3 DEF Reading, LoadType, Unread
  <2>2. Followed(c) = seen
    BY <1>0, <1>3, FollowedType
  <2>3. SeenFine' /\ PagesRead' /\ AllRead'
    BY <1>0, <1>3, <2>1, <2>2
    DEF SeenFine, PagesRead, AllRead, Reading, Unread
  <2> QED
    BY <1>0, <1>1, <1>2, <2>3 DEF LoadInv
<1>4. CASE Reading
  <2>0. seen'.doubt = seen.doubt \cup {c} \cup Behind(c)
    BY <1>0, <1>4, FollowedType
  <2>1. SeenFine' /\ AllRead'
    BY <1>0, <1>1, <1>4, <2>0 DEF SeenFine, AllRead, Reading, Unread
  <2>2. PagesRead'
    <3> SUFFICES ASSUME load.at = "list", NEW i \in DOMAIN upstream',
                        upstream'[i] \notin load.items \cup seen'.doubt
                 PROVE  /\ PageNr(i) >= load.page - 1
                        /\ load.items \subseteq Before(upstream', i)
      BY DEF PagesRead, PageNr, Before
    <3>1. \A j \in DOMAIN upstream :
             upstream[j] \notin load.items \cup seen'.doubt =>
                /\ PageNr(j) >= load.page - 1
                /\ load.items \subseteq Before(upstream, j)
      BY <1>0, <2>0 DEF PagesRead
    <3>2. load.page \in Nat /\ i \in Nat \ {0}
      BY <1>0, <1>1, FavAssumption DEF LoadType
    <3>3. CASE c \in Listed(upstream)
      <4>1. PICK at \in DOMAIN upstream :
               /\ upstream[at] = c
               /\ DOMAIN upstream' = 1..(Len(upstream) - 1)
               /\ \A k \in 1..(Len(upstream) - 1) :
                     upstream'[k] = IF k < at THEN upstream[k]
                                              ELSE upstream[k + 1]
        BY <1>0, <3>3, RemovedList
      <4>2. i < at
        <5> SUFFICES ASSUME ~(i < at) PROVE FALSE
          OBVIOUS
        <5>1. PICK j \in DOMAIN upstream : j = i + 1 /\ at \in 1..(j - 1)
          <6>1. i + 1 \in DOMAIN upstream /\ at \in 1..((i + 1) - 1)
            BY <1>0, <4>1
          <6> QED
            BY <6>1
        <5>2. upstream'[i] = upstream[j]
          BY <4>1, <5>1
        <5>3. upstream[j] \in Behind(c)
          BY <4>1, <5>1 DEF Behind
        <5> QED
          BY <2>0, <5>2, <5>3
      <4>3. i \in DOMAIN upstream /\ upstream'[i] = upstream[i]
        BY <1>0, <4>1, <4>2
      <4>4. \A k \in 1..(i - 1) : upstream'[k] = upstream[k]
        BY <1>0, <4>1, <4>2
      <4>5. Before(upstream', i) = Before(upstream, i)
        BY <4>4 DEF Before
      <4> QED
        BY <3>1, <4>3, <4>5
    <3>4. CASE c \notin Listed(upstream)
      <4>1. /\ Len(upstream') = Len(upstream) + 1 /\ upstream'[1] = c
            /\ \A k \in DOMAIN upstream' :
                  k # 1 => k - 1 \in DOMAIN upstream /\
                           upstream'[k] = upstream[k - 1]
        BY <1>0, <3>4, AddedList
      <4>2. i # 1
        BY <2>0, <4>1
      <4>3. PICK j \in DOMAIN upstream : j = i - 1 /\ upstream'[i] = upstream[j]
        BY <4>1, <4>2
      <4>4. /\ PageNr(j) >= load.page - 1
            /\ load.items \subseteq Before(upstream, j)
        BY <3>1, <4>3
      <4>5. PageNr(i) >= load.page - 1
        <5>1. j \in Nat \ {0} /\ ~(i < j)
          <6>1. j \in Nat \ {0} /\ i \in Int /\ j = i - 1
            BY <1>0, <3>2, <4>3
          <6> QED
            BY <6>1
        <5>2. ~(PageNr(i) < PageNr(j))
          <6> SUFFICES ASSUME PageNr(i) < PageNr(j) PROVE FALSE
            OBVIOUS
          <6>1. i < j
            BY <3>2, <5>1, PageOrder
          <6> QED
            BY <5>1, <6>1
        <5>3. PageNr(i) \in Nat /\ PageNr(j) \in Nat
          BY <3>2, <5>1, PageNrType
        <5> QED
          BY <3>2, <4>4, <5>2, <5>3
      <4>6. Before(upstream, j) \subseteq Before(upstream', i)
        <5> SUFFICES ASSUME NEW k \in 1..(j - 1)
                     PROVE  upstream[k] \in Before(upstream', i)
          BY DEF Before
        <5>1. PICK m \in 1..(i - 1) : m = k + 1 /\ m \in DOMAIN upstream' /\ m # 1
                                    /\ m - 1 = k
          <6>1. /\ k + 1 \in 1..(i - 1) /\ k + 1 \in DOMAIN upstream'
                /\ k + 1 # 1 /\ (k + 1) - 1 = k
            BY <1>0, <1>1, <4>1, <4>3
          <6> QED
            BY <6>1
        <5> QED
          BY <4>1, <5>1 DEF Before
      <4> QED
        BY <4>4, <4>5, <4>6
    <3> QED
      BY <3>3, <3>4
  <2> QED
    BY <1>0, <1>1, <1>2, <2>1, <2>2 DEF LoadInv
<1> QED
  BY <1>3, <1>4

-----------------------------------------------------------------------------
(* Favourites: the goroutine of a load.                                    *)

LEMMA ForgetType ==
  ASSUME seen \in SeenType
  PROVE  Forget \in SeenType /\ Forget.doubt = {} /\ Forget.stale = seen.stale
BY DEF Forget, SeenType

\* No list is read before the step, nor after it.
LEMMA UnreadStep ==
  ASSUME LoadInv, UNCHANGED <<upstream, kind>>,
         load' \in LoadType, load'.at \in Unread,
         load'.at # "end" => load'.items = {} /\ ~load'.err,
         seen' \in SeenType, seen'.doubt = {}
  PROVE  LoadInv'
BY DEF LoadInv, LoadFine, SeenFine, PagesRead, AllRead, Reading, Unread

\* A load fails, or has to log in again: what it has read is kept.
LEMMA FailStep ==
  ASSUME LoadInv, UNCHANGED <<upstream, kind, seen>>,
         load.at \in {"login", "list", "relogin"},
         load' \in LoadType, load'.items = load.items,
         \/ load'.at = "save" /\ load'.err
         \/ load.at = "list" /\ load'.at = "relogin" /\ ~load'.err
  PROVE  LoadInv'
BY DEF LoadInv, LoadFine, SeenFine, PagesRead, AllRead, Reading, Unread

LEMMA LoginStep ==
  ASSUME LoadInv, Login
  PROVE  LoadInv' /\ load'.at = "list" /\ load'.items = {}
                  /\ seen'.stale = seen.stale
<1>0. /\ upstream \in Seq(Comics) /\ load \in LoadType /\ seen \in SeenType
      /\ LoadFine /\ load.at \in {"login", "relogin"}
      /\ UNCHANGED <<upstream, kind>>
  BY DEF LoadInv, Login
<1> DEFINE g == [load EXCEPT !.at = "list", !.page = 1, !.items = {}]
<1>1. g \in LoadType /\ g.at = "list" /\ g.page = 1 /\ g.items = {}
  <2>1. 1 \in 1..MaxPages
    BY FavAssumption
  <2> QED
    BY <1>0, <2>1 DEF LoadType
<1>2. g.err <=> load.err
  BY <1>0 DEF LoadType
<1>3. /\ seen' \in SeenType /\ seen'.doubt = {} /\ seen'.stale = seen.stale
  BY <1>0, ForgetType DEF Login, Opens
<1>5. load' = g
  BY DEF Login, Opens
<1> HIDE DEF g
<1>6. LoadFine' /\ SeenFine' /\ AllRead'
  BY <1>0, <1>1, <1>2, <1>3, <1>5
  DEF LoadFine, SeenFine, AllRead, Reading, Unread
<1>7. PagesRead'
  <2> SUFFICES ASSUME NEW i \in DOMAIN upstream
               PROVE  PageNr(i) >= 1 - 1
    BY <1>0, <1>1, <1>5 DEF PagesRead, PageNr
  <2>1. i \in Nat \ {0}
    BY <1>0
  <2>2. PageNr(i) \in Nat
    BY <2>1, PageNrType
  <2> QED
    BY <2>2
<1> QED
  BY <1>0, <1>1, <1>3, <1>5, <1>6, <1>7 DEF LoadInv

\* What is neither in doubt nor on the pages up to this one stands behind
\* everything that has been read.
LEMMA ItemsRead ==
  ASSUME LoadInv, load.at = "list", NEW i \in DOMAIN upstream,
         upstream[i] \notin Items \cup seen.doubt
  PROVE  PageNr(i) >= load.page /\ Items \subseteq Before(upstream, i)
<1>1. load.page \in Nat /\ load.page >= 1 /\ i \in Nat \ {0}
      /\ upstream \in Seq(Comics)
  BY FavAssumption DEF LoadInv, LoadType
<1>2. PageNr(i) \in Nat
  BY <1>1, PageNrType
<1>3. PageNr(i) >= load.page - 1 /\ load.items \subseteq Before(upstream, i)
  BY DEF LoadInv, PagesRead, Items
<1>4. PageNr(i) # load.page - 1
  BY DEF Items, PageOf, PageNr
<1>5. PageOf(upstream, load.page) \subseteq Before(upstream, i)
  <2> SUFFICES ASSUME NEW j \in DOMAIN upstream, PageNr(j) = load.page - 1
               PROVE  upstream[j] \in Before(upstream, i)
    BY DEF PageOf, PageNr
  <2>1. j \in Nat \ {0} /\ PageNr(j) < PageNr(i)
    BY <1>1, <1>2, <1>3, <1>4
  <2>2. j < i
    BY <1>1, <2>1, PageOrder
  <2>3. j \in 1..(i - 1)
    BY <1>1, <2>1, <2>2
  <2> QED
    BY <2>3 DEF Before
<1> QED
  BY <1>1, <1>2, <1>3, <1>4, <1>5 DEF Items

\* The last page that is asked for is the last that there is, or JM's list
\* goes on beyond it.
LEMMA LastRead ==
  ASSUME LoadInv, load.at = "list", NEW told \in BOOLEAN,
         LastPage(told) \/ (load.page = MaxPages /\ kind = "jm"),
         NEW i \in DOMAIN upstream,
         upstream[i] \notin Items \cup seen.doubt
  PROVE  ~LastPage(told) /\ upstream[i] \in Beyond
<1>0. /\ upstream \in Seq(Comics) /\ load.page \in Nat \ {0}
      /\ i \in Nat \ {0}
  BY FavAssumption DEF LoadInv, LoadType
<1>1. PageNr(i) >= load.page /\ Items \subseteq Before(upstream, i)
  BY ItemsRead
<1>2. PageNr(i) \in Nat
  BY <1>0, PageNrType
<1>3. ~(Pages(upstream) <= load.page)
  <2> SUFFICES ASSUME Pages(upstream) <= load.page PROVE FALSE
    OBVIOUS
  <2>1. PageNr(i) < load.page
    BY <1>0, BehindPages
  <2> QED
    BY <1>0, <1>1, <1>2, <2>1
<1>4. PageOf(upstream, load.page) # {}
  <2> SUFFICES ASSUME PageOf(upstream, load.page) = {} PROVE FALSE
    OBVIOUS
  <2>1. PageNr(i) < load.page
    BY <1>0, BehindEmptyPage
  <2> QED
    BY <1>0, <1>1, <1>2, <2>1
<1>5. ~(Cardinality(Items) >= Len(upstream))
  <2>1. Cardinality(Items) < Len(upstream)
    BY <1>0, <1>1, BeforeFew
  <2>2. Cardinality(Items) \in Int
    <3>1. Before(upstream, i) \subseteq Listed(upstream)
      BY <1>0 DEF Before, Listed
    <3>2. IsFiniteSet(Listed(upstream))
      <4>1. upstream \in Surjection(1..Len(upstream), Listed(upstream))
        BY <1>0 DEF Surjection, Listed
      <4>2. IsFiniteSet(1..Len(upstream))
        <5>1. 1 \in Int /\ Len(upstream) \in Int
          BY <1>0
        <5> QED
          BY <5>1, FS_Interval
      <4> QED
        BY <4>1, <4>2, FS_Surjection
    <3> QED
      BY <1>1, <3>1, <3>2, FS_Subset, FS_CardinalityType
  <2>3. Len(upstream) \in Int
    BY <1>0
  <2> QED
    BY <2>1, <2>2, <2>3
<1>6. ~LastPage(told)
  BY <1>3, <1>4, <1>5 DEF LastPage, PicaLast, JmLast
<1>7. i > MaxPages * PageSize
  BY <1>0, <1>1, <1>6, BehindMaxPages
<1> QED
  BY <1>6, <1>7 DEF Beyond

LEMMA ListStep ==
  ASSUME LoadInv, ListPage
  PROVE  /\ LoadInv' /\ seen'.stale = seen.stale
         /\ load'.items \subseteq load.items \cup Listed(upstream)
<1>0. /\ upstream \in Seq(Comics) /\ kind \in {"pica", "jm"}
      /\ load \in LoadType /\ seen \in SeenType /\ load.at = "list"
      /\ LoadFine /\ SeenFine /\ PagesRead
      /\ upstream' = upstream /\ kind' = kind
  BY DEF LoadInv, ListPage
<1>1. MaxPages \in Nat \ {0} /\ load.page \in 1..MaxPages
  BY <1>0, FavAssumption DEF LoadType
<1>2. PageOf(upstream, load.page) \subseteq Listed(upstream)
  BY DEF PageOf, Listed
<1>3. /\ Items \in SUBSET Comics
      /\ Items \subseteq Listed(upstream) \cup seen.doubt
      /\ Items \subseteq load.items \cup Listed(upstream)
  <2>1. Listed(upstream) \subseteq Comics
    BY <1>0 DEF Listed
  <2> QED
    BY <1>0, <1>2, <2>1 DEF Items, SeenFine, Reading, LoadType
<1>t. PICK told \in BOOLEAN :
        /\ seen' = IF ~LastPage(told) /\ load.page = MaxPages
                   THEN [seen EXCEPT !.doubt = @ \cup Beyond] ELSE seen
        /\ load' = IF LastPage(told) \/ load.page = MaxPages
                   THEN [load EXCEPT !.items = Items, !.at = "save",
                                     !.err = ~LastPage(told) /\ kind = "pica"]
                   ELSE [load EXCEPT !.items = Items, !.page = @ + 1]
  BY DEF ListPage
<1>s. /\ seen' \in SeenType /\ seen'.stale = seen.stale
      /\ seen.doubt \subseteq seen'.doubt
      /\ ~LastPage(told) /\ load.page = MaxPages => Beyond \subseteq seen'.doubt
  <2>1. Beyond \in SUBSET Comics
    BY <1>0 DEF Beyond
  <2> QED
    BY <1>0, <1>t, <2>1 DEF SeenType
<1>4. CASE LastPage(told) \/ load.page = MaxPages
  <2> DEFINE e == ~LastPage(told) /\ kind = "pica"
             g == [load EXCEPT !.items = Items, !.at = "save", !.err = e]
  <2>1. load' = g
    BY <1>4, <1>t
  <2>2. e \in BOOLEAN
    OBVIOUS
  <2>3. g \in LoadType /\ g.at = "save" /\ g.items = Items /\ g.err = e
    <3> HIDE DEF e
    <3> QED
      BY <1>0, <1>3, <2>2 DEF LoadType
  <2>4. ~g.err => LastPage(told) \/ (load.page = MaxPages /\ kind = "jm")
    BY <1>0, <1>4, <2>3
  <2> HIDE DEF g, e
  <2>5. LoadFine' /\ PagesRead'
    BY <2>1, <2>3 DEF LoadFine, PagesRead
  <2>6. SeenFine'
    BY <1>0, <1>3, <1>s, <2>1, <2>3 DEF SeenFine, Reading, Unread
  <2>7. AllRead'
    <3> SUFFICES ASSUME ~g.err, NEW i \in DOMAIN upstream,
                        upstream[i] \notin Items \cup seen.doubt
                 PROVE  upstream[i] \in seen'.doubt
      BY <1>0, <1>s, <2>1, <2>3 DEF AllRead, Listed
    <3>1. ~LastPage(told) /\ upstream[i] \in Beyond
      BY <1>0, <2>4, LastRead
    <3> QED
      BY <1>s, <2>4, <3>1
  <2> QED
    BY <1>0, <1>3, <1>s, <2>1, <2>3, <2>5, <2>6, <2>7 DEF LoadInv
<1>5. CASE ~(LastPage(told) \/ load.page = MaxPages)
  <2> DEFINE g == [load EXCEPT !.items = Items, !.page = @ + 1]
  <2>1. load' = g
    BY <1>5, <1>t
  <2>2. load.page + 1 \in 1..MaxPages
    BY <1>1, <1>5
  <2>3. /\ g \in LoadType /\ g.at = "list" /\ g.items = Items
        /\ g.page = load.page + 1
    BY <1>0, <1>3, <2>2 DEF LoadType
  <2>4. g.err <=> load.err
    BY <1>0 DEF LoadType
  <2> HIDE DEF g
  <2>5. LoadFine' /\ AllRead'
    BY <1>0, <2>1, <2>3, <2>4 DEF LoadFine, AllRead
  <2>6. SeenFine'
    BY <1>0, <1>3, <1>s, <2>1, <2>3 DEF SeenFine, Reading, Unread
  <2>7. PagesRead'
    <3>1. ASSUME NEW i \in DOMAIN upstream,
                 upstream[i] \notin Items \cup seen'.doubt
          PROVE  /\ PageNr(i) >= g.page - 1
                 /\ Items \subseteq Before(upstream, i)
      <4>1. PageNr(i) >= load.page /\ Items \subseteq Before(upstream, i)
        BY <1>0, <1>s, <3>1, ItemsRead
      <4>2. g.page - 1 = load.page
        BY <1>1, <2>3
      <4> QED
        BY <4>1, <4>2
    <3> QED
      BY <1>0, <2>1, <2>3, <3>1 DEF PagesRead, PageNr, Before
  <2> QED
    BY <1>0, <1>3, <1>s, <2>1, <2>3, <2>5, <2>6, <2>7 DEF LoadInv
<1> QED
  BY <1>4, <1>5

\* Nothing of what is read changes.
LEMMA SameLoad ==
  ASSUME LoadInv, UNCHANGED <<upstream, kind, load>>, seen' \in SeenType,
         seen'.doubt = seen.doubt
  PROVE  LoadInv'
BY DEF LoadInv, LoadFine, SeenFine, PagesRead, AllRead, Reading, PageNr, Before

LEMMA LoadingStep ==
  ASSUME LoadInv, load' = Loading, UNCHANGED <<upstream, kind, seen>>
  PROVE  /\ LoadInv' /\ (Reading' <=> Reading)
         /\ load'.at = load.at \/ load'.at = "begin"
         /\ Reading => load' = load
<1>1. CASE load.at = "none"
  <2> DEFINE g == [NoLoad EXCEPT !.at = "begin"]
  <2>1. g \in LoadType /\ g.at = "begin" /\ g.items = {}
    BY NoLoadType DEF LoadType
  <2>2. ~g.err
    BY NoLoadType, NoLoadOK DEF LoadType
  <2>3. load' = g
    BY <1>1 DEF Loading
  <2> HIDE DEF g
  <2>4. seen \in SeenType /\ load.at \in Unread /\ SeenFine
    BY <1>1 DEF LoadInv, Unread
  <2>5. LoadInv'
    BY <2>1, <2>2, <2>3, <2>4, UnreadStep DEF SeenFine, Unread
  <2> QED
    BY <1>1, <2>1, <2>3, <2>5 DEF Reading
<1>2. CASE load.at # "none"
  <2>1. load' = load /\ seen' = seen /\ seen \in SeenType
    BY <1>2 DEF Loading, LoadInv
  <2> QED
    BY <2>1, SameLoad DEF Reading
<1> QED
  BY <1>1, <1>2

\* The goroutine's steps before and after the list is read.
LEMMA OutsideStep ==
  ASSUME LoadInv, Begin \/ BeginFails \/ Finish
  PROVE  /\ LoadInv' /\ seen' = seen /\ ~Reading /\ ~Reading'
<1>0. /\ load \in LoadType /\ load.at \in {"begin", "end"} /\ seen \in SeenType
      /\ upstream' = upstream /\ kind' = kind /\ seen' = seen
      /\ LoadFine /\ SeenFine
  BY DEF LoadInv, Begin, BeginFails, Finish
<1>1. seen.doubt = {}
  BY <1>0 DEF SeenFine, Unread
<1>2. /\ load' \in LoadType /\ load'.at \in Unread
      /\ load'.at # "end" => load'.items = {} /\ ~load'.err
  <2>1. CASE Begin
    <3> DEFINE g == [load EXCEPT !.at = "login"]
    <3>1. g \in LoadType /\ g.at = "login" /\ g.items = load.items
      BY <1>0 DEF LoadType
    <3>2. g.err <=> load.err
      BY <1>0 DEF LoadType
    <3>3. load' = g /\ load.at = "begin"
      BY <2>1 DEF Begin
    <3> HIDE DEF g
    <3> QED
      BY <1>0, <3>1, <3>2, <3>3 DEF LoadFine, Unread
  <2>2. CASE BeginFails
    <3> DEFINE g == [load EXCEPT !.at = "end", !.err = TRUE]
    <3>1. g \in LoadType /\ g.at = "end"
      BY <1>0 DEF LoadType
    <3>2. load' = g
      BY <2>2 DEF BeginFails
    <3> HIDE DEF g
    <3> QED
      BY <3>1, <3>2 DEF Unread
  <2>3. CASE Finish
    BY <2>3, NoLoadType, NoLoadOK DEF Finish, Unread
  <2> QED
    BY <2>1, <2>2, <2>3
<1>3. LoadInv'
  BY <1>0, <1>1, <1>2, UnreadStep
<1> QED
  BY <1>0, <1>1, <1>2, <1>3 DEF Reading, Unread

\* The requests of a load fail.
LEMMA FailingStep ==
  ASSUME LoadInv, LoginFails \/ PageFails \/ PageUnauthorized
  PROVE  /\ LoadInv' /\ seen' = seen
         /\ load'.at \in {"save", "relogin"}
         /\ load.at \in {"login", "list", "relogin"}
         /\ load'.items = load.items
         /\ load.at = "login" => load.items = {}
<1>0. /\ load \in LoadType /\ load.at \in {"login", "list", "relogin"}
      /\ seen \in SeenType /\ LoadFine /\ SeenFine
      /\ upstream' = upstream /\ kind' = kind /\ seen' = seen
  BY DEF LoadInv, LoginFails, PageFails, PageUnauthorized
<1> DEFINE g == [load EXCEPT !.at = "save", !.err = TRUE]
           h == [load EXCEPT !.at = "relogin", !.relogged = TRUE]
<1>1. g \in LoadType /\ g.at = "save" /\ g.items = load.items
  BY <1>0 DEF LoadType
<1>2. g.err
  BY <1>0 DEF LoadType
<1>3. h \in LoadType /\ h.at = "relogin" /\ h.items = load.items
  BY <1>0 DEF LoadType
<1>4. h.err <=> load.err
  BY <1>0 DEF LoadType
<1>5. load' = g \/ (load.at = "list" /\ load' = h)
  BY DEF LoginFails, PageFails, PageUnauthorized
<1> HIDE DEF g, h
<1>6. load.at = "list" => ~load.err
  BY <1>0 DEF LoadFine
<1>7. LoadInv'
  BY <1>0, <1>1, <1>2, <1>3, <1>4, <1>5, <1>6, FailStep
<1>8. load.at = "login" => load.items = {}
  BY <1>0 DEF LoadFine
<1> QED
  BY <1>0, <1>1, <1>3, <1>5, <1>7, <1>8

\* What is saved has been read; the process may end at any time.
LEMMA OverStep ==
  ASSUME LoadInv, edit \subseteq Comics, Save \/ SaveFails \/ FavCrash
  PROVE  /\ LoadInv' /\ ~Reading' /\ load'.at \in {"none", "end"}
         /\ \/ Save /\ seen'.stale = IF load.err THEN seen.stale ELSE seen.doubt
            \/ SaveFails /\ seen'.stale = seen.stale
            \/ FavCrash /\ seen'.stale = seen.stale \cup edit
<1>0. /\ load \in LoadType /\ seen \in SeenType
      /\ upstream' = upstream /\ kind' = kind
  BY DEF LoadInv, Save, SaveFails, FavCrash
<1>1. Forget \in SeenType /\ Forget.doubt = {} /\ Forget.stale = seen.stale
  BY <1>0, ForgetType
<1>2. ASSUME NEW b \in SUBSET Comics
      PROVE  LET f == [Forget EXCEPT !.stale = b]
             IN  f \in SeenType /\ f.doubt = {} /\ f.stale = b
  BY <1>1 DEF SeenType
<1>3. load' \in LoadType /\ load'.at \in {"none", "end"}
      /\ (load'.at # "end" => load'.items = {} /\ ~load'.err)
  <2>1. CASE Save
    BY <1>0, <2>1 DEF Save, LoadType
  <2>2. CASE SaveFails
    <3> DEFINE g == [load EXCEPT !.at = "end", !.err = TRUE]
    <3>1. g \in LoadType /\ g.at = "end"
      BY <1>0 DEF LoadType
    <3> QED
      BY <2>2, <3>1 DEF SaveFails
  <2>3. CASE FavCrash
    BY <2>3, NoLoadType, NoLoadOK DEF FavCrash
  <2> QED
    BY <2>1, <2>2, <2>3
<1>t. seen.stale \in SUBSET Comics /\ seen.doubt \in SUBSET Comics
  BY <1>0 DEF SeenType
<1>4. CASE Save
  <2>1. PICK b \in SUBSET Comics :
           b = IF load.err THEN seen.stale ELSE seen.doubt
    BY <1>t
  <2>2. seen' = [Forget EXCEPT !.stale = b]
    <3>1. b = IF load.err THEN Forget.stale ELSE seen.doubt
      BY <1>1, <2>1
    <3> QED
      BY <1>4, <3>1 DEF Save
  <2>3. LoadInv' /\ seen'.stale = b
    BY <1>0, <1>2, <1>3, <2>2, UnreadStep DEF Unread
  <2> QED
    BY <1>3, <1>4, <2>1, <2>3 DEF Reading
<1>5. CASE SaveFails
  <2>1. seen' = Forget
    BY <1>5 DEF SaveFails
  <2>2. LoadInv'
    BY <1>0, <1>1, <1>3, <2>1, UnreadStep DEF Unread
  <2> QED
    BY <1>1, <1>3, <1>5, <2>1, <2>2 DEF Reading
<1>6. CASE FavCrash
  <2>1. PICK b \in SUBSET Comics : b = seen.stale \cup edit
    BY <1>t
  <2>2. seen' = [Forget EXCEPT !.stale = b]
    BY <1>1, <1>6, <2>1 DEF FavCrash
  <2>3. LoadInv' /\ seen'.stale = b
    BY <1>0, <1>2, <1>3, <2>2, UnreadStep DEF Unread
  <2> QED
    BY <1>3, <1>6, <2>1, <2>3 DEF Reading
<1> QED
  BY <1>4, <1>5, <1>6

-----------------------------------------------------------------------------
(* Favourites: the snapshot.                                               *)

\* The row and the list are left as they are, or the row is made older.
LEMMA SnapKept ==
  ASSUME SnapInv, UNCHANGED <<upstream, kind>>,
         snap' \in SnapType, snap.row => snap'.row,
         snap'.updated = "fresh" =>
            /\ snap.updated = "fresh" /\ snap'.items = snap.items
            /\ seen.stale \cup edit \subseteq seen'.stale \cup edit',
         caller' \in [Callers -> {"away", "waiting"}],
         edit' \subseteq Comics,
         load'.at \in {"login", "list", "relogin", "save"} => snap'.row,
         Reading' =>
            \/ load'.items = {}
            \/ Reading /\ load'.items \subseteq load.items \cup Listed(upstream)
  PROVE  SnapInv'
<1>1. LoadKnown'
  <2> SUFFICES ASSUME Reading', snap'.updated = "fresh"
               PROVE  load'.items \subseteq
                         Listed(upstream) \cup seen'.stale \cup edit'
    BY DEF LoadKnown
  <2>1. Reading => load.items \subseteq Listed(upstream) \cup seen.stale \cup edit
    BY DEF SnapInv, LoadKnown
  <2> QED
    BY <2>1
<1>2. FreshMeansCurrent'
  BY DEF SnapInv, FreshMeansCurrent, Apart
<1> QED
  BY <1>1, <1>2 DEF SnapInv

\* The list is changed by this server, or by another client.
LEMMA ChangeSnap ==
  ASSUME FavInv, NEW c \in Comics, Edit(c) \/ ChangeElsewhere(c)
  PROVE  FavInv'
<1>0. /\ LoadInv /\ SnapInv /\ UNCHANGED <<kind, load, snap, caller>>
      /\ upstream' = Toggled(c) /\ upstream \in Seq(Comics)
      /\ seen \in SeenType
  BY DEF FavInv, LoadInv, Edit, ChangeElsewhere
<1> DEFINE s == Followed(c)
           g == [s EXCEPT !.stale = @ \cup {c}]
<1>1. s \in SeenType /\ s.stale = seen.stale
  BY <1>0, FollowedType
<1> HIDE DEF s
<1>2. g \in SeenType /\ g.doubt = s.doubt /\ g.stale = s.stale \cup {c}
  BY <1>1 DEF SeenType
<1>4. \/ seen' = s /\ edit' = edit \cup {c}
      \/ seen' = g /\ edit' = edit
  BY DEF Edit, ChangeElsewhere, s
<1> HIDE DEF g
<1>5. /\ seen' \in SeenType /\ seen'.doubt = s.doubt
      /\ seen'.stale \cup edit' = seen.stale \cup edit \cup {c}
      /\ edit' \subseteq Comics
  BY <1>0, <1>1, <1>2, <1>4 DEF SnapInv
<1>6. LoadInv'
  BY <1>0, <1>5, ChangeStep DEF s
<1>7. /\ Listed(upstream) \subseteq Listed(upstream') \cup {c}
      /\ Listed(upstream') \subseteq Listed(upstream) \cup {c}
  BY <1>0, ToggledType
<1>8. LoadKnown' /\ FreshMeansCurrent'
  BY <1>0, <1>5, <1>7 DEF SnapInv, LoadKnown, FreshMeansCurrent, Apart, Reading
<1>9. SnapInv'
  BY <1>0, <1>5, <1>8 DEF SnapInv
<1> QED
  BY <1>6, <1>9 DEF FavInv

\* The change is told, or nobody tells it.
LEMMA TellSnap ==
  ASSUME FavInv, NEW c \in Comics, Invalidate(c) \/ Untold(c)
  PROVE  FavInv'
<1>0. /\ LoadInv /\ SnapInv /\ seen \in SeenType /\ snap \in SnapType
      /\ UNCHANGED <<upstream, kind, load, caller>> /\ edit' = edit \ {c}
      /\ edit \subseteq Comics
  BY DEF FavInv, LoadInv, SnapInv, Invalidate, Untold
<1>1. CASE Invalidate(c)
  <2> DEFINE g == [snap EXCEPT !.updated = "never", !.attempt = "never"]
  <2>1. g \in SnapType /\ g.updated = "never" /\ (g.row <=> snap.row)
    BY <1>0 DEF SnapType
  <2>2. snap' = IF snap.row THEN g ELSE snap
    BY <1>1 DEF Invalidate
  <2> HIDE DEF g
  <2>3. snap' \in SnapType /\ snap'.updated # "fresh" /\ (snap'.row <=> snap.row)
    BY <1>0, <2>1, <2>2 DEF SnapInv
  <2>4. seen' = seen
    BY <1>1 DEF Invalidate
  <2>5. LoadInv'
    BY <1>0, <2>4, SameLoad
  <2>6. SnapInv'
    BY <1>0, <2>3, <2>4, SnapKept DEF SnapInv, Reading
  <2> QED
    BY <2>5, <2>6 DEF FavInv
<1>2. CASE Untold(c)
  <2> DEFINE g == [seen EXCEPT !.stale = @ \cup {c}]
  <2>1. g \in SeenType /\ g.doubt = seen.doubt /\ g.stale = seen.stale \cup {c}
    BY <1>0 DEF SeenType
  <2>3. seen' = g /\ snap' = snap
    BY <1>2 DEF Untold
  <2> HIDE DEF g
  <2>4. LoadInv'
    BY <1>0, <2>1, <2>3, SameLoad
  <2>5. seen.stale \cup edit \subseteq seen'.stale \cup edit'
    BY <1>0, <2>1, <2>3
  <2>6. SnapInv'
    BY <1>0, <2>3, <2>5, SnapKept DEF SnapInv, Reading
  <2> QED
    BY <2>4, <2>6 DEF FavInv
<1> QED
  BY <1>1, <1>2

\* A load that is saved after nothing has changed shows the list.
LEMMA SaveSnap ==
  ASSUME FavInv, Save
  PROVE  SnapInv'
<1>0. /\ LoadInv /\ SnapInv /\ snap \in SnapType /\ load \in LoadType
      /\ load.at = "save" /\ Reading /\ snap.row
      /\ UNCHANGED <<upstream, kind, caller, edit>> /\ load'.at = "end"
  <2>1. load \in LoadType /\ load.at = "save" /\ load' = [load EXCEPT !.at = "end"]
    BY DEF FavInv, LoadInv, Save
  <2>2. load'.at = "end"
    BY <2>1 DEF LoadType
  <2> QED
    BY <2>1, <2>2 DEF FavInv, SnapInv, Save, Reading
<1>1. ~Reading'
  BY <1>0 DEF Reading
<1>2. seen'.stale = IF load.err THEN seen.stale ELSE seen.doubt
  <2>1. seen \in SeenType
    BY <1>0 DEF LoadInv
  <2>2. PICK b \in SUBSET Comics :
           b = IF load.err THEN seen.stale ELSE seen.doubt
    BY <2>1 DEF SeenType
  <2>3. Forget \in SeenType /\ Forget.stale = seen.stale
    BY <2>1, ForgetType
  <2>5. seen' = [Forget EXCEPT !.stale = b]
    BY <2>2, <2>3 DEF Save
  <2>6. seen'.stale = b
    BY <2>3, <2>5 DEF SeenType
  <2> QED
    BY <2>2, <2>6
<1>3. /\ load.items \subseteq Listed(upstream) \cup seen.doubt
      /\ ~load.err => Listed(upstream) \subseteq load.items \cup seen.doubt
      /\ snap.updated = "fresh" =>
            load.items \subseteq Listed(upstream) \cup seen.stale \cup edit
  BY <1>0 DEF LoadInv, SeenFine, AllRead, SnapInv, LoadKnown
<1>4. CASE load.err
  <2> DEFINE g == [snap EXCEPT !.items = @ \cup load.items]
  <2>1. /\ g \in SnapType /\ g.items = snap.items \cup load.items
        /\ g.updated = snap.updated /\ (g.row <=> snap.row)
    BY <1>0 DEF SnapType, LoadType
  <2>2. snap' = g
    BY <1>4 DEF Save, Saved
  <2> HIDE DEF g
  <2>3. FreshMeansCurrent'
    <3> SUFFICES ASSUME snap.updated = "fresh"
                 PROVE  Apart(g.items, Listed(upstream))
                           \subseteq seen.stale \cup edit
      BY <1>0, <1>2, <1>4, <2>1, <2>2 DEF FreshMeansCurrent
    <3>1. Apart(snap.items, Listed(upstream)) \subseteq seen.stale \cup edit
      BY <1>0 DEF SnapInv, FreshMeansCurrent
    <3> QED
      BY <1>3, <2>1, <3>1 DEF Apart
  <2> QED
    BY <1>0, <1>1, <2>1, <2>2, <2>3 DEF SnapInv, LoadKnown
<1>5. CASE ~load.err
  <2> DEFINE g == [snap EXCEPT !.items = load.items, !.updated = "fresh"]
  <2>1. /\ g \in SnapType /\ g.items = load.items /\ (g.row <=> snap.row)
    BY <1>0 DEF SnapType, LoadType
  <2>2. snap' = g
    BY <1>5 DEF Save, Saved
  <2> HIDE DEF g
  <2>3. FreshMeansCurrent'
    BY <1>0, <1>2, <1>3, <1>5, <2>1, <2>2 DEF FreshMeansCurrent, Apart
  <2> QED
    BY <1>0, <1>1, <2>1, <2>2, <2>3 DEF SnapInv, LoadKnown
<1> QED
  BY <1>4, <1>5

LEMMA FavStepInv == FavInv /\ [FavNext]_favVars => FavInv'
<1> SUFFICES ASSUME FavInv, [FavNext]_favVars PROVE FavInv'
  OBVIOUS
<1>0. /\ LoadInv /\ SnapInv /\ snap \in SnapType /\ seen \in SeenType
      /\ load \in LoadType /\ caller \in [Callers -> {"away", "waiting"}]
      /\ edit \subseteq Comics /\ LoadFine
  BY DEF FavInv, LoadInv, SnapInv
<1>1. ASSUME UNCHANGED <<upstream, kind, snap, edit, left, seen>>,
             load' = Loading, caller' \in [Callers -> {"away", "waiting"}]
      PROVE  FavInv'
  <2>1. /\ LoadInv' /\ (Reading' <=> Reading)
        /\ load'.at = load.at \/ load'.at = "begin"
        /\ Reading => load' = load
    BY <1>0, <1>1, LoadingStep
  <2>2. SnapInv'
    BY <1>0, <1>1, <2>1, SnapKept DEF SnapInv
  <2> QED
    BY <2>1, <2>2 DEF FavInv
<1>2. ASSUME NEW force \in BOOLEAN, View(force) PROVE FavInv'
  BY <1>0, <1>1, <1>2 DEF View
<1>3. ASSUME NEW w \in Callers, Call(w) PROVE FavInv'
  BY <1>0, <1>1, <1>3 DEF Call
<1>4. ASSUME NEW w \in Callers, CallerLeaves(w) PROVE FavInv'
  <2>1. LoadInv'
    BY <1>0, <1>4, SameLoad DEF CallerLeaves
  <2>2. SnapInv'
    BY <1>0, <1>4, SnapKept DEF CallerLeaves, SnapInv, Reading
  <2> QED
    BY <2>1, <2>2 DEF FavInv
<1>5. ASSUME NEW c \in Comics, Edit(c) \/ ChangeElsewhere(c) PROVE FavInv'
  BY <1>5, ChangeSnap
<1>6. ASSUME NEW c \in Comics, Invalidate(c) \/ EditFails(c) \/ InvalidateFails(c)
      PROVE  FavInv'
  BY <1>6, TellSnap DEF EditFails, InvalidateFails
<1>7. CASE Begin \/ BeginFails \/ Finish
  <2>1. LoadInv' /\ seen' = seen /\ ~Reading'
    BY <1>0, <1>7, OutsideStep
  <2>2. /\ snap' \in SnapType /\ snap'.items = snap.items
        /\ snap'.updated = snap.updated /\ (snap.row => snap'.row)
        /\ Begin => snap'.row
    <3>1. CASE Begin
      <4> DEFINE g == [snap EXCEPT !.row = TRUE, !.attempt = "recent"]
      <4>1. g \in SnapType /\ g.items = snap.items /\ g.updated = snap.updated
        BY <1>0 DEF SnapType
      <4>2. g.row
        BY <1>0 DEF SnapType
      <4>3. snap' = g
        BY <3>1 DEF Begin
      <4> HIDE DEF g
      <4> QED
        BY <4>1, <4>2, <4>3
    <3>2. CASE BeginFails \/ Finish
      <4>1. snap' = snap /\ ~(load.at = "begin" /\ load'.at = "login")
        <5>1. load'.at # "login"
          BY <1>0, <3>2, NoLoadType DEF BeginFails, Finish, LoadType
        <5> QED
          BY <3>2, <5>1 DEF BeginFails, Finish
      <4>2. ~Begin
        BY <1>0, <4>1 DEF Begin, LoadType
      <4> QED
        BY <1>0, <4>1, <4>2
    <3> QED
      BY <1>7, <3>1, <3>2
  <2>3. load'.at \in {"login", "list", "relogin", "save"} => Begin
    BY <1>0, <1>7, NoLoadType DEF BeginFails, Finish, LoadType
  <2>4. /\ UNCHANGED <<upstream, kind, edit>>
        /\ caller' \in [Callers -> {"away", "waiting"}]
    BY <1>0, <1>7 DEF Begin, BeginFails, Finish
  <2>5. SnapInv'
    BY <1>0, <2>1, <2>2, <2>3, <2>4, SnapKept
  <2> QED
    BY <2>1, <2>5 DEF FavInv
<1>8. CASE Login
  <2>1. /\ LoadInv' /\ load'.at = "list" /\ load'.items = {}
        /\ seen'.stale = seen.stale
    BY <1>0, <1>8, LoginStep
  <2>2. snap.row /\ UNCHANGED <<upstream, kind, snap, caller, edit>>
    BY <1>0, <1>8 DEF Login, SnapInv
  <2>3. SnapInv'
    BY <1>0, <2>1, <2>2, SnapKept
  <2> QED
    BY <2>1, <2>3 DEF FavInv
<1>9. CASE LoginFails \/ PageFails \/ PageUnauthorized
  <2>1. /\ LoadInv' /\ seen' = seen /\ load'.at \in {"save", "relogin"}
        /\ load.at \in {"login", "list", "relogin"}
        /\ load'.items = load.items
        /\ load.at = "login" => load.items = {}
    BY <1>0, <1>9, FailingStep
  <2>2. snap.row /\ UNCHANGED <<upstream, kind, snap, caller, edit>>
    BY <1>0, <1>9, <2>1 DEF LoginFails, PageFails, PageUnauthorized, SnapInv
  <2>3. load'.items = {} \/ (Reading /\ load'.items = load.items)
    BY <2>1 DEF Reading
  <2>4. SnapInv'
    BY <1>0, <2>1, <2>2, <2>3, SnapKept
  <2> QED
    BY <2>1, <2>4 DEF FavInv
<1>10. CASE ListPage
  <2>1. /\ LoadInv' /\ seen'.stale = seen.stale
        /\ load'.items \subseteq load.items \cup Listed(upstream)
    BY <1>0, <1>10, ListStep
  <2>2. /\ snap.row /\ Reading
        /\ UNCHANGED <<upstream, kind, snap, caller, edit>>
    BY <1>0, <1>10 DEF ListPage, SnapInv, Reading
  <2>3. SnapInv'
    BY <1>0, <2>1, <2>2, SnapKept
  <2> QED
    BY <2>1, <2>3 DEF FavInv
<1>11. CASE Save
  <2>1. LoadInv'
    BY <1>0, <1>11, OverStep
  <2>2. SnapInv'
    BY <1>11, SaveSnap
  <2> QED
    BY <2>1, <2>2 DEF FavInv
<1>12. CASE SaveFails \/ FavCrash
  <2>1. /\ LoadInv' /\ ~Reading' /\ load'.at \in {"none", "end"}
        /\ UNCHANGED <<upstream, kind, snap>>
    BY <1>0, <1>12, OverStep DEF SaveFails, FavCrash
  <2>2. /\ seen.stale \cup edit \subseteq seen'.stale \cup edit'
        /\ edit' \subseteq Comics
        /\ caller' \in [Callers -> {"away", "waiting"}]
    <3>1. Forget \in SeenType /\ Forget.stale = seen.stale
      BY <1>0, ForgetType
    <3>2. CASE SaveFails
      BY <1>0, <3>1, <3>2 DEF SaveFails
    <3>3. CASE FavCrash
      <4>1. seen'.stale = seen.stale \cup edit
        <5>1. seen' = [Forget EXCEPT !.stale = @ \cup edit]
          BY <3>3 DEF FavCrash
        <5> QED
          BY <3>1, <5>1 DEF SeenType
      <4> QED
        BY <1>0, <3>3, <4>1 DEF FavCrash
    <3> QED
      BY <1>12, <3>2, <3>3
  <2>3. SnapInv'
    BY <1>0, <2>1, <2>2, SnapKept
  <2> QED
    BY <2>1, <2>3 DEF FavInv
<1>13. CASE Age
  <2>1. LoadInv' /\ UNCHANGED <<upstream, kind, load, caller, edit, seen>>
    BY <1>0, <1>13, SameLoad DEF Age
  <2> DEFINE g == [snap EXCEPT !.updated = "old"]
             h == [snap EXCEPT !.attempt = "old"]
  <2>2. /\ g \in SnapType /\ g.updated = "old" /\ (g.row <=> snap.row)
        /\ h \in SnapType /\ h.updated = snap.updated /\ h.items = snap.items
    BY <1>0 DEF SnapType
  <2>3. h.row <=> snap.row
    BY <1>0 DEF SnapType
  <2>4. snap' = g \/ snap' = h
    BY <1>13 DEF Age
  <2> HIDE DEF g, h
  <2>5. /\ snap' \in SnapType /\ (snap'.row <=> snap.row)
        /\ snap'.updated = "fresh" =>
              snap.updated = "fresh" /\ snap'.items = snap.items
    BY <2>2, <2>3, <2>4
  <2>6. SnapInv'
    BY <1>0, <2>1, <2>5, SnapKept DEF SnapInv, Reading
  <2> QED
    BY <2>1, <2>6 DEF FavInv
<1>14. CASE UNCHANGED favVars
  <2>1. LoadInv'
    BY <1>0, <1>14, SameLoad DEF favVars
  <2>2. SnapInv'
    BY <1>0, <1>14, SnapKept DEF favVars, SnapInv, Reading
  <2> QED
    BY <2>1, <2>2 DEF FavInv
<1> QED
  BY <1>2, <1>3, <1>4, <1>5, <1>6, <1>7, <1>8, <1>9, <1>10, <1>11, <1>12,
     <1>13, <1>14
  DEF FavNext, LoadSteps

LEMMA FavInvariance == FavSpec => []FavInv
BY FavInitInv, FavStepInv, PTL DEF FavSpec

\* The load, the snapshot and those who wait keep their types: no page past
\* the last that may be asked for is asked for.
THEOREM FavTypeCorrect == FavSpec => []FavTypeOK
<1>1. FavInv => FavTypeOK
  BY DEF FavInv, LoadInv, SnapInv, FavTypeOK, Listed, SnapType, LoadType,
         SeenType
<1> QED
  BY FavInvariance, <1>1, PTL

\* SaveFavorites and InvalidateFavorites: a snapshot that counts as fresh shows
\* every change answered with ok; also when changes met the load that it comes
\* from it is wrong at most about these comics and those that stood behind one
\* that was taken out; for every list, page size and number of pages.
THEOREM FreshCurrent == FavSpec => []FreshMeansCurrent
<1>1. FavInv => FreshMeansCurrent
  BY DEF FavInv, SnapInv
<1> QED
  BY FavInvariance, <1>1, PTL

\* Only Save changes what is in the snapshot.  After an error it only adds what
\* is in the list or has just been taken out of it; otherwise what it writes is
\* the list, but for the comics whose place changed while the pages were read.
THEOREM SnapshotReplaced == FavSpec => SnapshotWhole
<1>1. FavInv /\ [FavNext]_favVars =>
        [snap'.items # snap.items =>
          IF load.err
          THEN /\ snap.items \subseteq snap'.items
               /\ snap'.items \ snap.items
                     \subseteq Listed(upstream) \cup seen.doubt
          ELSE Apart(snap'.items, Listed(upstream))
                  \subseteq seen.doubt]_favVars
  <2> SUFFICES ASSUME FavInv, FavNext, snap'.items # snap.items
               PROVE  IF load.err
                      THEN /\ snap.items \subseteq snap'.items
                           /\ snap'.items \ snap.items
                                 \subseteq Listed(upstream) \cup seen.doubt
                      ELSE Apart(snap'.items, Listed(upstream))
                              \subseteq seen.doubt
    OBVIOUS
  <2>0. snap \in SnapType
    BY DEF FavInv, SnapInv
  <2>1. ASSUME Begin \/ (\E c \in Comics : Invalidate(c)) \/ Age
        PROVE  snap'.items = snap.items
    BY <2>0, <2>1 DEF Begin, Invalidate, Age, SnapType
  <2>2. Save
    BY <2>1 DEF FavNext, LoadSteps, View, Call, CallerLeaves, Edit,
                ChangeElsewhere, InvalidateFails, EditFails, Untold,
                BeginFails, Login, LoginFails, ListPage, PageFails,
                PageUnauthorized, SaveFails, Finish, FavCrash
  <2>3. /\ load.at = "save"
        /\ load.items \subseteq Listed(upstream) \cup seen.doubt
        /\ ~load.err => Listed(upstream) \subseteq load.items \cup seen.doubt
    BY <2>2 DEF FavInv, LoadInv, SeenFine, AllRead, Save, Reading
  <2>4. snap'.items = IF load.err THEN snap.items \cup load.items
                                  ELSE load.items
    BY <2>0, <2>2 DEF Save, Saved, SnapType
  <2> QED
    BY <2>3, <2>4 DEF Apart
<1> QED
  BY FavInvariance, <1>1, PTL DEF FavSpec, SnapshotWhole

-----------------------------------------------------------------------------
(* Favourites: how long a load can take.  CallersAnswered needs fairness   *)
(* and is for TLC; that the load somebody waits for has only so many steps *)
(* to take needs none.                                                     *)

\* The steps that a load still has: pages, one Relogin that begins the list
\* anew, and the save.
LoadStage ==
    [none |-> 0, end |-> 1, save |-> 2, list |-> MaxPages + 3,
     login |-> MaxPages + 3, relogin |-> MaxPages + 3, begin |-> MaxPages + 4]

LoadRank(l) ==
    LoadStage[l.at] - (IF l.at = "list" THEN l.page ELSE 0)
        + (IF l.at = "none" \/ l.relogged THEN 0 ELSE MaxPages + 1)

\* Whoever waits for the list waits for a load that is there (RefreshFavorites)
\* and has at most the pages that may be asked for, twice, and five steps to go.
WaitBounded ==
    /\ \A w \in Callers : caller[w] = "waiting" => load.at # "none"
    /\ load.at # "none" => LoadRank(load) \in 1..(2 * MaxPages + 5)

\* Every step of the load leaves it fewer, whatever upstream answers; requests
\* that join it, changes of the list and of the snapshot leave it alone.
LoadAdvances ==
    [][load.at # "none" /\ load' # load => LoadRank(load') < LoadRank(load)]_favVars

LEMMA LoadRankRange ==
  ASSUME NEW l \in LoadType
  PROVE  /\ LoadRank(l) \in 0..(2 * MaxPages + 5)
         /\ l.at # "none" => LoadRank(l) >= 1
         /\ l.at = "none" => LoadRank(l) = 0
<1>1. /\ LoadStage["none"] = 0 /\ LoadStage["end"] = 1 /\ LoadStage["save"] = 2
      /\ LoadStage["list"] = MaxPages + 3 /\ LoadStage["login"] = MaxPages + 3
      /\ LoadStage["relogin"] = MaxPages + 3
      /\ LoadStage["begin"] = MaxPages + 4
  BY DEF LoadStage
<1>2. MaxPages \in Nat /\ l.page \in 1..MaxPages /\ l.relogged \in BOOLEAN
  BY FavAssumption DEF LoadType
<1>3. l.at \in {"none", "begin", "login", "list", "relogin", "save", "end"}
  BY DEF LoadType
<1> QED
  BY <1>1, <1>2, <1>3 DEF LoadRank

\* What the steps of a load do to where it is.
LEMMA LoadStepKinds ==
  ASSUME FavInv, LoadSteps
  PROVE  \/ load.at = "begin" /\ load'.at \in {"login", "end"}
            /\ load'.relogged = load.relogged
         \/ /\ load.at \in {"login", "relogin"}
            /\ load'.at \in {"list", "save"}
            /\ load'.relogged = load.relogged
         \/ /\ load.at = "list" /\ load'.at = "list"
            /\ load'.page = load.page + 1 /\ load'.relogged = load.relogged
         \/ /\ load.at = "list" /\ load'.at = "save"
            /\ load'.relogged = load.relogged
         \/ /\ load.at = "list" /\ load'.at = "relogin"
            /\ ~load.relogged /\ load'.relogged
         \/ /\ load.at = "save" /\ load'.at = "end"
            /\ load'.relogged = load.relogged
         \/ load.at = "end" /\ load'.at = "none"
<1>0. load \in LoadType
  BY DEF FavInv, LoadInv
<1>1. CASE Begin \/ BeginFails
  BY <1>0, <1>1 DEF Begin, BeginFails, LoadType
<1>2. CASE Login \/ LoginFails
  BY <1>0, <1>2 DEF Login, LoginFails, Opens, LoadType
<1>3. CASE ListPage
  BY <1>0, <1>3 DEF ListPage, LoadType
<1>4. CASE PageFails \/ PageUnauthorized
  BY <1>0, <1>4 DEF PageFails, PageUnauthorized, LoadType
<1>5. CASE Save \/ SaveFails
  BY <1>0, <1>5 DEF Save, SaveFails, LoadType
<1>6. CASE Finish
  BY <1>6 DEF Finish, NoLoad
<1> QED
  BY <1>1, <1>2, <1>3, <1>4, <1>5, <1>6 DEF LoadSteps

LEMMA LoadStepRank ==
  ASSUME FavInv, LoadSteps
  PROVE  LoadRank(load') < LoadRank(load)
<1>0. load \in LoadType /\ load' \in LoadType
  BY FavStepInv DEF FavInv, LoadInv, FavNext
<1>1. /\ LoadStage["none"] = 0 /\ LoadStage["end"] = 1 /\ LoadStage["save"] = 2
      /\ LoadStage["list"] = MaxPages + 3 /\ LoadStage["login"] = MaxPages + 3
      /\ LoadStage["relogin"] = MaxPages + 3
      /\ LoadStage["begin"] = MaxPages + 4
  BY DEF LoadStage
<1>2. /\ MaxPages \in Nat /\ load.page \in 1..MaxPages
      /\ load'.page \in 1..MaxPages
      /\ load.relogged \in BOOLEAN /\ load'.relogged \in BOOLEAN
  BY <1>0, FavAssumption DEF LoadType
<1>3. /\ LoadRank(load) \in Nat
      /\ load.at # "none" => LoadRank(load) >= 1
  BY <1>0, <1>2, LoadRankRange
<1>4. CASE load'.at = "none"
  <2>1. LoadRank(load') = 0 /\ load.at # "none"
    BY <1>0, <1>4, LoadRankRange, LoadStepKinds
  <2> QED
    BY <1>3, <2>1
<1>5. CASE load.at = "begin" /\ load'.at \in {"login", "end"}
           /\ load'.relogged = load.relogged
  BY <1>1, <1>2, <1>5 DEF LoadRank
<1>6. CASE load.at \in {"login", "relogin"} /\ load'.at \in {"list", "save"}
           /\ load'.relogged = load.relogged
  BY <1>1, <1>2, <1>6 DEF LoadRank
<1>7. CASE load.at = "list" /\ load'.at = "list" /\ load'.page = load.page + 1
           /\ load'.relogged = load.relogged
  BY <1>1, <1>2, <1>7 DEF LoadRank
<1>8. CASE load.at = "list" /\ load'.at = "save"
           /\ load'.relogged = load.relogged
  BY <1>1, <1>2, <1>8 DEF LoadRank
<1>9. CASE load.at = "list" /\ load'.at = "relogin" /\ ~load.relogged
           /\ load'.relogged
  BY <1>1, <1>2, <1>9 DEF LoadRank
<1>10. CASE load.at = "save" /\ load'.at = "end"
            /\ load'.relogged = load.relogged
  BY <1>1, <1>2, <1>10 DEF LoadRank
<1> QED
  BY <1>4, <1>5, <1>6, <1>7, <1>8, <1>9, <1>10, LoadStepKinds

LEMMA WaitingStep ==
  ASSUME FavInv, [FavNext]_favVars,
         \A w \in Callers : caller[w] = "waiting" => load.at # "none"
  PROVE  \A w \in Callers : caller'[w] = "waiting" => load'.at # "none"
<1>0. load \in LoadType /\ caller \in [Callers -> {"away", "waiting"}]
  BY DEF FavInv, LoadInv, SnapInv
<1>1. ASSUME NEW w \in Callers, Call(w) PROVE load'.at # "none"
  BY <1>1 DEF Call, Loading, NoLoad
<1>2. ASSUME NEW force \in BOOLEAN, View(force)
      PROVE  load'.at # "none"
  BY <1>2 DEF View, Loading, NoLoad
<1>3. CASE Finish \/ FavCrash
  BY <1>3 DEF Finish, FavCrash
<1>4. CASE LoadSteps /\ ~Finish
  <2>1. load'.at # "none"
    BY <1>0, <1>4 DEF LoadSteps, Begin, BeginFails, Login, LoginFails, Opens,
       ListPage, PageFails, PageUnauthorized, Save, SaveFails, LoadType
  <2> QED
    BY <2>1
<1>5. ASSUME NEW w \in Callers, CallerLeaves(w)
      PROVE  \A v \in Callers : caller'[v] = "waiting" => load'.at # "none"
  BY <1>0, <1>5 DEF CallerLeaves
<1>6. CASE UNCHANGED <<load, caller>>
  BY <1>6
<1> QED
  BY <1>1, <1>2, <1>3, <1>4, <1>5, <1>6
  DEF FavNext, Edit, ChangeElsewhere, Invalidate, InvalidateFails, EditFails,
      Untold, Age, favVars

\* A load takes at most 2 * MaxPages + 5 steps, also when the login is renewed
\* in the middle of the list and while the list grows: this is what
\* CallersAnswered rests on, beside the fairness that makes the steps happen.
THEOREM LoadIsBounded == FavSpec => []WaitBounded /\ LoadAdvances
<1> DEFINE Waits == \A w \in Callers : caller[w] = "waiting" => load.at # "none"
<1>1. FavInit => Waits
  BY DEF FavInit
<1>2. FavInv /\ Waits /\ [FavNext]_favVars => Waits'
  BY WaitingStep
<1>3. FavInv /\ Waits => WaitBounded
  <2> SUFFICES ASSUME FavInv, load.at # "none"
               PROVE  LoadRank(load) \in 1..(2 * MaxPages + 5)
    BY DEF WaitBounded
  <2>1. load \in LoadType
    BY DEF FavInv, LoadInv
  <2> QED
    BY <2>1, LoadRankRange, FavAssumption
<1>4. FavInv /\ [FavNext]_favVars
        => [load.at # "none" /\ load' # load
               => LoadRank(load') < LoadRank(load)]_favVars
  <2> SUFFICES ASSUME FavInv, FavNext, load.at # "none", load' # load
               PROVE  LoadRank(load') < LoadRank(load)
    OBVIOUS
  <2>1. CASE LoadSteps
    BY <2>1, LoadStepRank
  <2>2. CASE FavCrash
    <3>1. LoadRank(NoLoad) = 0 /\ load' = NoLoad
      BY <2>2, NoLoadType, LoadRankRange DEF FavCrash, NoLoad
    <3>2. LoadRank(load) >= 1 /\ LoadRank(load) \in Nat
      BY LoadRankRange DEF FavInv, LoadInv
    <3> QED
      BY <3>1, <3>2
  <2> QED
    BY <2>1, <2>2 DEF FavNext, View, Call, CallerLeaves, Loading, Edit,
       ChangeElsewhere, Invalidate, InvalidateFails, EditFails, Untold, Age
<1> HIDE DEF Waits
<1> QED
  BY <1>1, <1>2, <1>3, <1>4, FavInvariance, PTL DEF FavSpec, LoadAdvances

-----------------------------------------------------------------------------
(* The strips of a page.                                                   *)

\* Products of small numbers of strips with their height.
LEMMA StripSums ==
  ASSUME NEW i \in Nat, NEW n \in Nat, i < n, NEW step \in Nat
  PROVE  /\ (i + 1) * step = i * step + step
         /\ (n - 1) * step = n * step - step
         /\ (n - 1 - i) * step = n * step - step - i * step
         /\ i * step + step <= n * step
         /\ {i * step, n * step, (n - 1) * step, (n - 1 - i) * step} \subseteq Nat
<1>1. /\ (i + 1) * step = i * step + step /\ (n - 1) * step = n * step - step
      /\ (n - 1 - i) * step = n * step - step - i * step
      /\ i * step \in Nat /\ n * step \in Nat /\ (n - 1) * step \in Nat
  OBVIOUS
<1>2. (n - 1 - i) * step \in Nat
  <2>1. n - 1 - i \in Nat
    OBVIOUS
  <2> QED
    BY <2>1
<1> QED
  BY <1>1, <1>2

\* Division with remainder.
LEMMA Divided ==
  ASSUME NEW h \in Nat, NEW n \in Nat, n # 0
  PROVE  /\ h \div n \in Nat /\ h % n \in Nat
         /\ h = n * (h \div n) + (h % n) /\ h % n < n
BY Z3

\* The strip in which a row is, and the rows above it there.
LEMMA Quotient ==
  ASSUME NEW k \in Nat, NEW step \in Nat, step # 0, NEW r \in Nat, r < step
  PROVE  (k * step + r) \div step = k
BY Z3

\* A page of h rows is cut into n strips of these heights.
Sized(h, n, step, over) == step = h \div n /\ over = h % n

LEMMA SizedPage ==
  ASSUME NEW h \in Nat, NEW n \in Nat, n # 0
  PROVE  \E step \in Nat, over \in Nat :
            Sized(h, n, step, over) /\ h = n * step + over
BY Divided DEF Sized

\* A strip that fits is copied, all of it.
LEMMA Copied ==
  ASSUME NEW h \in Nat, NEW move \in Nat, NEW ySrc \in Nat, NEW yDst \in Nat,
         ySrc + move <= h, yDst + move <= h
  PROVE  /\ move # 0 =>
               /\ Copy(h, move, ySrc, yDst).rows = (yDst + 1)..(yDst + move)
               /\ Copy(h, move, ySrc, yDst).shift = ySrc - yDst
         /\ move = 0 => Copy(h, move, ySrc, yDst).rows = {}
BY DEF Copy

\* The rows that strip i has after its turn, and from where they are.
StripFacts(h, n, i, step, over) ==
    \E x \in Nat, y \in Nat, z \in Nat :
         /\ x = i * step /\ y = (n - 1) * step /\ z = (n - 1 - i) * step
         /\ h = y + step + over /\ z = y - x
         /\ i # 0 => x >= step
         /\ i = 0 => /\ Strip(h, n, i).rows = 1..(step + over)
                     /\ Strip(h, n, i).shift = y
         /\ i # 0 /\ step # 0 =>
               /\ Strip(h, n, i).rows = (x + over + 1)..(x + over + step)
               /\ Strip(h, n, i).shift = z - (x + over)
         /\ i # 0 /\ step = 0 => Strip(h, n, i).rows = {}

LEMMA StripIs ==
  ASSUME NEW h \in Nat, h # 0, NEW n \in Nat, NEW i \in Nat, i < n,
         NEW step \in Nat, NEW over \in Nat, Sized(h, n, step, over)
  PROVE  StripFacts(h, n, i, step, over)
<1>0. SUFFICES \E x \in Nat, y \in Nat, z \in Nat :
         /\ x = i * step /\ y = (n - 1) * step /\ z = (n - 1 - i) * step
         /\ h = y + step + over /\ z = y - x
         /\ i # 0 => x >= step
         /\ i = 0 => /\ Strip(h, n, i).rows = 1..(step + over)
                     /\ Strip(h, n, i).shift = y
         /\ i # 0 /\ step # 0 =>
               /\ Strip(h, n, i).rows = (x + over + 1)..(x + over + step)
               /\ Strip(h, n, i).shift = z - (x + over)
         /\ i # 0 /\ step = 0 => Strip(h, n, i).rows = {}
  BY DEF StripFacts
<1>1. h = n * step + over
  <2>1. n # 0
    OBVIOUS
  <2> QED
    BY <2>1, Divided DEF Sized
<1>2. PICK x \in Nat : x = i * step
  OBVIOUS
<1>3. PICK y \in Nat : y = (n - 1) * step /\ n * step = y + step
  BY StripSums
<1>4. PICK z \in Nat : z = (n - 1 - i) * step /\ z = y - x
  BY <1>2, <1>3, StripSums
<1>5. h = y + step + over /\ x <= y
  BY <1>1, <1>2, <1>3, <1>4
<1>6. step * i = x /\ step * (i + 1) = x + step /\ (i # 0 => x >= step)
  <2>1. step * i = i * step /\ step * (i + 1) = (i + 1) * step
    OBVIOUS
  <2>2. (i + 1) * step = i * step + step
    OBVIOUS
  <2>3. i # 0 => i * step >= step
    BY Z3
  <2> QED
    BY <1>2, <2>1, <2>2, <2>3
<1>7. /\ i = 0 => Strip(h, n, i) = Copy(h, step + over, h - (x + step) - over, 0)
      /\ i # 0 => Strip(h, n, i) = Copy(h, step, h - (x + step) - over, x + over)
  BY <1>6 DEF Strip, Sized
<1>8. h - (x + step) - over = z
  BY <1>4, <1>5
<1>9. i = 0 => x = 0
  BY <1>2
<1>10. i = 0 => /\ Strip(h, n, i).rows = 1..(step + over)
                /\ Strip(h, n, i).shift = y
  <2> SUFFICES ASSUME i = 0 PROVE /\ Strip(h, n, i).rows = 1..(step + over)
                                  /\ Strip(h, n, i).shift = y
    OBVIOUS
  <2>1. Strip(h, n, i) = Copy(h, step + over, y, 0)
    BY <1>4, <1>7, <1>8, <1>9
  <2>2. PICK move \in Nat : /\ move = step + over /\ move # 0
                            /\ y + move <= h /\ 0 + move <= h
    <3>1. step + over # 0
      <4>1. step = 0 => y = 0
        BY <1>3
      <4> QED
        BY <1>5, <4>1
    <3> QED
      BY <1>5, <3>1
  <2>3. /\ Copy(h, move, y, 0).rows = (0 + 1)..(0 + move)
        /\ Copy(h, move, y, 0).shift = y - 0
    BY <2>2 DEF Copy
  <2> QED
    BY <2>1, <2>2, <2>3
<1>11. ASSUME i # 0
       PROVE  /\ step # 0 =>
                     /\ Strip(h, n, i).rows = (x + over + 1)..(x + over + step)
                     /\ Strip(h, n, i).shift = z - (x + over)
              /\ step = 0 => Strip(h, n, i).rows = {}
  <2>1. PICK w \in Nat : w = x + over
    OBVIOUS
  <2>2. z + step <= h /\ w + step <= h
    BY <1>4, <1>5, <1>6, <1>11, <2>1
  <2>3. Strip(h, n, i) = Copy(h, step, z, w)
    BY <1>7, <1>8, <1>11, <2>1
  <2> QED
    <3>1. /\ step # 0 =>
                /\ Copy(h, step, z, w).rows = (w + 1)..(w + step)
                /\ Copy(h, step, z, w).shift = z - w
          /\ step = 0 => Copy(h, step, z, w).rows = {}
      BY <2>2, Copied
    <3> QED
      BY <2>1, <2>3, <3>1
<1> QED
  BY <1>2, <1>3, <1>4, <1>5, <1>6, <1>10, <1>11

\* jmDescramble copies only rows that are in their place afterwards.
LEMMA StripRight ==
  ASSUME NEW h \in Nat, h # 0, NEW n \in Nat, NEW i \in Nat, i < n,
         NEW r \in Int, r \in Strip(h, n, i).rows
  PROVE  /\ r \in 1..h
         /\ r + Strip(h, n, i).shift \in 1..h
         /\ Cut(h, n)[r + Strip(h, n, i).shift] = r
<1>0. PICK step \in Nat, over \in Nat : Sized(h, n, step, over)
  <2>1. n # 0
    OBVIOUS
  <2> QED
    BY <2>1, SizedPage
<1>1. ASSUME NEW q \in Int, q \in 1..h
      PROVE  Cut(h, n)[q] = IF q > (n - 1) * step THEN q - (n - 1) * step
                ELSE over + (n - 1 - ((q - 1) \div step)) * step
                     + (q - ((q - 1) \div step) * step)
  BY <1>0, <1>1 DEF Cut, Sized
<1>2. PICK x \in Nat, y \in Nat, z \in Nat :
         /\ x = i * step /\ y = (n - 1) * step /\ z = (n - 1 - i) * step
         /\ h = y + step + over /\ z = y - x
         /\ i # 0 => x >= step
         /\ i = 0 => /\ Strip(h, n, i).rows = 1..(step + over)
                     /\ Strip(h, n, i).shift = y
         /\ i # 0 /\ step # 0 =>
               /\ Strip(h, n, i).rows = (x + over + 1)..(x + over + step)
               /\ Strip(h, n, i).shift = z - (x + over)
         /\ i # 0 /\ step = 0 => Strip(h, n, i).rows = {}
  <2>1. StripFacts(h, n, i, step, over)
    BY <1>0, StripIs
  <2> QED
    BY <2>1 DEF StripFacts
<1>3. CASE i = 0
  <2>1. r \in 1..(step + over) /\ Strip(h, n, i).shift = y
    BY <1>2, <1>3
  <2>2. PICK q \in Int : q = r + y
    OBVIOUS
  <2>3. q \in 1..h /\ q > y /\ r \in 1..h /\ q - y = r
    BY <1>2, <2>1, <2>2
  <2>4. Cut(h, n)[q] = r
    BY <1>1, <1>2, <2>3
  <2> QED
    BY <2>1, <2>2, <2>3, <2>4
<1>4. CASE i # 0
  <2>1. /\ step # 0 /\ r \in (x + over + 1)..(x + over + step)
        /\ Strip(h, n, i).shift = z - (x + over)
    BY <1>2, <1>4
  <2>2. PICK a \in Nat : r = x + over + 1 + a /\ a < step
    <3>1. r - (x + over + 1) \in Nat /\ r - (x + over + 1) < step
      BY <2>1
    <3> QED
      BY <3>1
  <2>3. PICK q \in Int : q = z + a + 1
    OBVIOUS
  <2>4. /\ q = r + Strip(h, n, i).shift /\ q \in 1..h /\ r \in 1..h
        /\ q <= y /\ q - 1 = z + a
    BY <1>2, <1>4, <2>1, <2>2, <2>3
  <2>5. PICK k \in Nat : k = n - 1 - i /\ n - 1 - k = i
    OBVIOUS
  <2>6. (q - 1) \div step = k
    BY <1>2, <2>1, <2>2, <2>4, <2>5, Quotient
  <2>7. Cut(h, n)[q] = over + i * step + (q - k * step)
    <3>1. ~(q > (n - 1) * step)
      BY <1>2, <2>4
    <3> QED
      BY <1>1, <2>4, <2>5, <2>6, <3>1
  <2>8. Cut(h, n)[q] = r
    BY <1>2, <2>2, <2>3, <2>5, <2>7
  <2> QED
    BY <2>4, <2>8
<1> QED
  BY <1>3, <1>4

\* jmDescramble leaves no row blank.
LEMMA StripsCover ==
  ASSUME NEW h \in Nat, h # 0, NEW n \in Nat, n # 0, NEW r \in Int, r \in 1..h
  PROVE  \E i \in Nat : i < n /\ r \in Strip(h, n, i).rows
<1>0. PICK step \in Nat, over \in Nat :
         Sized(h, n, step, over) /\ h = n * step + over
  BY SizedPage
<1>1. CASE r <= step + over
  <2>1. 0 \in Nat /\ 0 < n
    OBVIOUS
  <2>2. Strip(h, n, 0).rows = 1..(step + over)
    <3>1. StripFacts(h, n, 0, step, over)
      BY <1>0, <2>1, StripIs
    <3> QED
      BY <3>1 DEF StripFacts
  <2> QED
    BY <1>1, <2>1, <2>2
<1>2. CASE r > step + over
  <2>0. PICK w \in Nat : w = n * step
    BY <1>0
  <2>1. step # 0
    <3>1. step = 0 => w = 0
      BY <2>0
    <3> QED
      BY <1>0, <1>2, <2>0, <3>1
  <2>2. PICK b \in Nat : r = b + over + 1 /\ b >= step /\ b < w
    <3>1. r - over - 1 \in Nat /\ r - over - 1 >= step /\ r - over - 1 < w
      BY <1>0, <1>2, <2>0
    <3> QED
      BY <3>1
  <2>3. PICK i \in Nat, c \in Nat : b = step * i + c /\ c < step
    BY <2>1, Divided
  <2>4. i # 0 /\ i < n
    <3>1. i = 0 => step * i = 0
      OBVIOUS
    <3>2. i >= n => step * i >= n * step
      BY Z3
    <3> QED
      BY <2>0, <2>2, <2>3, <3>1, <3>2
  <2>5. PICK x \in Nat : /\ x = i * step
                         /\ Strip(h, n, i).rows =
                               (x + over + 1)..(x + over + step)
    <3>1. StripFacts(h, n, i, step, over)
      BY <1>0, <2>4, StripIs
    <3> QED
      BY <2>1, <2>4, <3>1 DEF StripFacts
  <2>6. step * i = i * step
    OBVIOUS
  <2>7. r = x + over + 1 + c
    BY <2>2, <2>3, <2>5, <2>6
  <2>8. r \in (x + over + 1)..(x + over + step)
    BY <2>3, <2>7
  <2> QED
    BY <2>4, <2>5, <2>8
<1> QED
  BY <1>0, <1>1, <1>2

-----------------------------------------------------------------------------
(* The pages that are shown.                                               *)

\* Every number of strips that the code may choose restores the page.
LEMMA Restored ==
  ASSUME NEW h \in Nat, h # 0, NEW n \in Nat
  PROVE  Descrambled(Scrambled(h, n), n) = [r \in 1..h |-> r]
<1> DEFINE cut == Scrambled(h, n)
           rows == Descrambled(cut, n)
<1>1. cut = [r \in 1..h |-> cut[r]] /\ Len(cut) = h
  <2>1. CASE n = 0
    BY <2>1 DEF Scrambled
  <2>2. CASE n # 0
    BY <2>2 DEF Scrambled, Cut
  <2> QED
    BY <2>1, <2>2
<1>2. CASE n = 0
  BY <1>2 DEF Scrambled, Descrambled
<1>3. CASE n # 0
  <2> DEFINE turns == {Strip(h, n, i) : i \in 0..(n - 1)}
  <2>1. ASSUME NEW r \in 1..h
        PROVE  /\ \E t \in turns : r \in t.rows
               /\ \A t \in turns : r \in t.rows => cut[r + t.shift] = r
    <3>1. PICK i \in Nat : i < n /\ r \in Strip(h, n, i).rows
      BY <1>3, StripsCover
    <3>2. i \in 0..(n - 1)
      BY <3>1
    <3>3. \E t \in turns : r \in t.rows
      BY <3>1, <3>2
    <3>4. ASSUME NEW t \in turns, r \in t.rows
          PROVE  cut[r + t.shift] = r
      <4>1. PICK j \in 0..(n - 1) : t = Strip(h, n, j)
        OBVIOUS
      <4>2. j \in Nat /\ j < n
        OBVIOUS
      <4>3. Cut(h, n)[r + Strip(h, n, j).shift] = r
        BY <3>4, <4>1, <4>2, StripRight
      <4> QED
        BY <1>3, <4>1, <4>3 DEF Scrambled
    <3> QED
      BY <3>3, <3>4
  <2>2. rows = [r \in 1..h |->
                  IF \E t \in turns : r \in t.rows
                  THEN cut[r + (CHOOSE t \in turns : r \in t.rows).shift]
                  ELSE 0]
    <3> HIDE DEF cut
    <3> QED
      BY <1>1, <1>3 DEF Descrambled
  <2> HIDE DEF rows, cut, turns
  <2>3. ASSUME NEW r \in 1..h PROVE rows[r] = r
    <3>1. (CHOOSE t \in turns : r \in t.rows) \in turns
          /\ r \in (CHOOSE t \in turns : r \in t.rows).rows
      BY <2>1
    <3> QED
      BY <2>1, <2>2, <3>1
  <2>4. rows = [r \in 1..h |-> rows[r]]
    BY <2>2
  <2> QED
    BY <2>3, <2>4 DEF rows, cut
<1> QED
  BY <1>2, <1>3

\* The rows of a page are as many whatever the strips it is taken for.
LEMMA RowsKept ==
  ASSUME NEW h \in Nat, NEW n \in Nat, NEW m \in Nat
  PROVE  Len(Descrambled(Scrambled(h, m), n)) = h
<1> DEFINE cut == Scrambled(h, m)
<1>1. Len(cut) = h
  <2>1. CASE m = 0
    BY <2>1 DEF Scrambled
  <2>2. CASE m # 0
    BY <2>2 DEF Scrambled, Cut
  <2> QED
    BY <2>1, <2>2
<1> HIDE DEF cut
<1>2. Len(Descrambled(cut, n)) = h
  BY <1>1 DEF Descrambled
<1> QED
  BY <1>2 DEF cut

LEMMA SegType ==
  ASSUME NEW t \in Nat, NEW aid \in Nat, NEW digit \in HexDigits
  PROVE  SegNum(t, aid, digit) \in Nat
<1>1. digit \in Nat
  BY DEF HexDigits
<1>2. digit % 10 \in Nat /\ digit % 8 \in Nat
  BY <1>1
<1> QED
  BY <1>2 DEF SegNum, Wide, Ten

-----------------------------------------------------------------------------
(* The invariant.                                                          *)

ScrambleInv ==
    /\ chapter \in {NoChapter} \cup [aid : Aids, threshold : Thresholds]
    /\ cached \in {0, DefaultThreshold} \cup Thresholds
    /\ asker \in [Askers -> [at : {"idle", "asking", "knows"},
                             believed : {0, DefaultThreshold} \cup Thresholds]]
    /\ \A a \in Askers : asker[a].at # "idle" => chapter # NoChapter
    /\ shown # NoPage => chapter # NoChapter
    /\ Len(shown.rows) = shown.height
    /\ RowsRestored

LEMMA NoPageType == NoPage.height = 0 /\ NoPage.rows = <<>>
BY DEF NoPage

LEMMA ShowStep ==
  ASSUME ScrambleInv, NEW a \in Askers, NEW height \in Heights,
         NEW digit \in HexDigits, NEW gif \in BOOLEAN,
         Show(a, height, digit, gif)
  PROVE  ScrambleInv'
<1> DEFINE Cuts(t) == IF gif THEN 0 ELSE SegNum(t, chapter.aid, digit)
           t0 == asker[a].believed
           n == Cuts(t0)
           m == Cuts(chapter.threshold)
<1>1. /\ chapter \in [aid : Aids, threshold : Thresholds]
      /\ asker[a] \in [at : {"idle", "asking", "knows"},
                       believed : {0, DefaultThreshold} \cup Thresholds]
      /\ asker[a].at = "knows"
      /\ chapter' = chapter /\ cached' = cached
      /\ asker' = [asker EXCEPT ![a] = NoAsker]
  BY DEF ScrambleInv, Show
<1>2. /\ chapter.aid \in Nat /\ chapter.threshold \in Nat /\ t0 \in Nat
      /\ height \in Nat /\ height # 0
  <2>1. chapter.aid \in Aids /\ chapter.threshold \in Thresholds
    BY <1>1
  <2>2. t0 \in {0, DefaultThreshold} \cup Thresholds
    BY <1>1
  <2>3. Thresholds \subseteq Nat /\ Aids \subseteq Nat /\ DefaultThreshold \in Nat
    BY DescrambleAssumption DEF DefaultThreshold
  <2>4. t0 \in Nat
    <3> HIDE DEF t0
    <3> QED
      BY <2>2, <2>3
  <2>5. height \in Nat \ {0}
    BY DescrambleAssumption
  <2>6. chapter.aid \in Nat /\ chapter.threshold \in Nat
    BY <2>1, <2>3
  <2> QED
    BY <2>4, <2>5, <2>6
<1>3. n \in Nat /\ m \in Nat
  BY <1>2, SegType
<1>4. /\ shown'.height = height /\ shown'.believed = t0
      /\ shown'.rows = Descrambled(Scrambled(height, m), n)
  BY DEF Show
<1>5. Len(shown'.rows) = shown'.height
  BY <1>2, <1>3, <1>4, RowsKept
<1>6. shown'.believed = chapter.threshold =>
         shown'.rows = [r \in 1..height |-> r]
  <2> SUFFICES ASSUME t0 = chapter.threshold
               PROVE  shown'.rows = [r \in 1..height |-> r]
    BY <1>4
  <2>1. n = m
    OBVIOUS
  <2> HIDE DEF n, m
  <2> QED
    BY <1>2, <1>3, <1>4, <2>1, Restored
<1>7. RowsRestored'
  BY <1>1, <1>4, <1>6 DEF RowsRestored
<1>8. /\ asker' \in [Askers -> [at : {"idle", "asking", "knows"},
                        believed : {0, DefaultThreshold} \cup Thresholds]]
      /\ \A b \in Askers : asker'[b].at # "idle" => asker[b].at # "idle"
  <2>1. /\ NoAsker \in [at : {"idle", "asking", "knows"},
                        believed : {0, DefaultThreshold} \cup Thresholds]
        /\ NoAsker.at = "idle"
    BY DEF NoAsker
  <2> QED
    BY <1>1, <2>1 DEF ScrambleInv
<1>9. chapter # NoChapter
  BY <1>1 DEF ScrambleInv
<1> QED
  BY <1>1, <1>5, <1>7, <1>8, <1>9 DEF ScrambleInv

LEMMA ScrambleStep == ScrambleInv /\ [ScrambleNext]_scrambleVars => ScrambleInv'
<1> SUFFICES ASSUME ScrambleInv, [ScrambleNext]_scrambleVars
             PROVE  ScrambleInv'
  OBVIOUS
<1> DEFINE Asking == [at : {"idle", "asking", "knows"},
                      believed : {0, DefaultThreshold} \cup Thresholds]
<1>0. /\ asker \in [Askers -> Asking]
      /\ NoAsker \in Asking /\ NoAsker.at = "idle"
  BY DEF ScrambleInv, NoAsker
<1>1. CASE Sent
  BY <1>1, NoPageType DEF ScrambleInv, Sent, RowsRestored
<1>2. ASSUME NEW aid \in Aids, NEW t \in Thresholds, Open(aid, t)
      PROVE  ScrambleInv'
  <2>1. chapter' \in [aid : Aids, threshold : Thresholds] /\ chapter' # NoChapter
    BY <1>2, DescrambleAssumption DEF Open, NoChapter
  <2> QED
    BY <1>2, <2>1 DEF ScrambleInv, Open, RowsRestored
<1>3. ASSUME NEW a \in Askers, NEW c \in Asking,
             asker' = [asker EXCEPT ![a] = c],
             c.at # "idle" => chapter # NoChapter,
             cached' \in {0, DefaultThreshold} \cup Thresholds,
             UNCHANGED <<chapter, shown>>
      PROVE  ScrambleInv'
  BY <1>0, <1>3 DEF ScrambleInv, RowsRestored
<1>4. ASSUME NEW a \in Askers, AskThreshold(a) \/ Learn(a) \/ Spoilt(a)
      PROVE  ScrambleInv'
  <2>1. CASE AskThreshold(a)
    <3>1. PICK c \in Asking :
             asker' = [asker EXCEPT ![a] = c]
      <4>1. /\ [at |-> "knows", believed |-> cached] \in Asking
            /\ [at |-> "asking", believed |-> 0] \in Asking
        BY DEF ScrambleInv
      <4> QED
        BY <2>1, <4>1 DEF AskThreshold
    <3> QED
      BY <1>3, <2>1, <3>1 DEF AskThreshold, ScrambleInv
  <2>2. CASE Learn(a)
    <3>1. PICK t \in {chapter.threshold, DefaultThreshold} :
             /\ cached' = t
             /\ asker' = [asker EXCEPT ![a] =
                             [at |-> "knows", believed |-> t]]
      BY <2>2 DEF Learn
    <3>2. chapter # NoChapter
      BY <2>2 DEF Learn, ScrambleInv
    <3>3. t \in {DefaultThreshold} \cup Thresholds
      BY <3>1, <3>2 DEF ScrambleInv
    <3>4. [at |-> "knows", believed |-> t] \in Asking
      BY <3>3
    <3> QED
      BY <1>3, <2>2, <3>1, <3>2, <3>3, <3>4 DEF Learn
  <2>3. CASE Spoilt(a)
    BY <1>0, <1>3, <2>3 DEF Spoilt, ScrambleInv
  <2> QED
    BY <1>4, <2>1, <2>2, <2>3
<1>5. CASE UNCHANGED scrambleVars
  BY <1>5 DEF ScrambleInv, scrambleVars, RowsRestored
<1> QED
  BY <1>1, <1>2, <1>4, <1>5, ShowStep DEF ScrambleNext

LEMMA ScrambleInvariance == ScrambleSpec => []ScrambleInv
<1>1. ScrambleInit => ScrambleInv
  BY NoPageType DEF ScrambleInit, ScrambleInv, RowsRestored, NoAsker
<1> QED
  BY <1>1, ScrambleStep, PTL DEF ScrambleSpec

\* scrambleID and jmDescramble: every page that is shown is as high as the one
\* upstream has, whatever threshold it was restored by.
THEOREM ScrambleTypeCorrect == ScrambleSpec => []ScrambleTypeOK
<1>1. ScrambleInv => ScrambleTypeOK
  BY DEF ScrambleInv, ScrambleTypeOK
<1> QED
  BY ScrambleInvariance, <1>1, PTL

\* jmDescramble: for every chapter, every threshold and every height, a page
\* that was restored by the right threshold has all its rows in their places.
THEOREM PageRestored == ScrambleSpec => []RowsRestored
<1>1. ScrambleInv => RowsRestored
  BY DEF ScrambleInv
<1> QED
  BY ScrambleInvariance, <1>1, PTL
=============================================================================
