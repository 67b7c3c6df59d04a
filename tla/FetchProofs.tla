---------------------------- MODULE FetchProofs -----------------------------
(***************************************************************************)
(* Proofs about the fetches from upstream: the transfer slots of image     *)
(* downloads (ImageFetch), the flights that readers share (PageFlight),    *)
(* for every number of workers, slots, attempts, readers and pages, and    *)
(* the lists of images (PageList), for every number of images and size of  *)
(* the parts.                                                              *)
(***************************************************************************)
EXTENDS PageFlight, ImageFetch, PageList, TLAPS, FiniteSetTheorems,
        FunctionTheorems, WellFoundedInduction

-----------------------------------------------------------------------------
(* ImageFetch: an update of a fetch keeps it a fetch.                      *)

FetchType ==
    [at : {"idle", "guard", "attempt", "slot", "trip", "body", "pause"},
     attempt : 1..Attempts, host : 1..Hosts, fallback : BOOLEAN,
     last : Errors, over : BOOLEAN]

\* Where a worker is that has no slot.
Outside == {"idle", "guard", "attempt", "slot", "pause"}

LEMMA NoFetchType == NoFetch \in FetchType /\ NoFetch.at = "idle"
BY FetchAssumption DEF NoFetch, FetchType, Errors

LEMMA HostFailsType ==
  ASSUME NEW g \in FetchType, NEW e \in Errors
  PROVE  HostFails(g, e) \in FetchType /\ HostFails(g, e).at \in Outside
<1> DEFINE h == [g EXCEPT !.host = @ + 1, !.attempt = 1, !.at = "attempt"]
           k == [h EXCEPT !.fallback = FALSE, !.last = "none"]
<1>1. CASE HostFails(g, e) = NoFetch
  BY <1>1, NoFetchType DEF Outside
<1>2. CASE g.host < Hosts /\ HostFails(g, e) = k
  <2>1. g.host + 1 \in 1..Hosts /\ 1 \in 1..Attempts
    BY <1>2, FetchAssumption DEF FetchType
  <2>2. h \in FetchType /\ h.at = "attempt"
    BY <2>1 DEF FetchType
  <2>3. k \in FetchType /\ k.at = "attempt"
    <3> HIDE DEF h
    <3> QED
      BY <2>2 DEF FetchType, Errors
  <2> QED
    BY <1>2, <2>3 DEF Outside
<1>3. k = [g EXCEPT !.host = @ + 1, !.attempt = 1, !.at = "attempt",
                    !.fallback = FALSE, !.last = "none"]
  OBVIOUS
<1> HIDE DEF h, k
<1> QED
  BY <1>1, <1>2, <1>3 DEF HostFails

LEMMA RepeatsType ==
  ASSUME NEW g \in FetchType, NEW e \in Errors
  PROVE  Repeats(g, e) \in FetchType /\ Repeats(g, e).at \in Outside
<1>1. CASE g.attempt < Attempts
  <2>1. g.attempt + 1 \in 1..Attempts
    BY <1>1, FetchAssumption DEF FetchType
  <2> QED
    BY <1>1, <2>1 DEF Repeats, FetchType, Outside
<1>2. CASE ~(g.attempt < Attempts)
  BY <1>2, HostFailsType DEF Repeats
<1> QED
  BY <1>1, <1>2

LEMMA AfterStatusType ==
  ASSUME NEW g \in FetchType, NEW e \in Errors
  PROVE  AfterStatus(g, e) \in FetchType /\ AfterStatus(g, e).at \in Outside
<1>1. [g EXCEPT !.fallback = TRUE] \in FetchType
  BY DEF FetchType
<1> QED
  BY <1>1, RepeatsType, HostFailsType DEF AfterStatus

-----------------------------------------------------------------------------
(* ImageFetch: the slots.                                                  *)

FetchInv == FetchTypeOK /\ SlotsKept

\* A step of a worker that has no slot before it and none after it.
LEMMA StaysOutside ==
  ASSUME FetchTypeOK, SlotsKept, NEW w \in Workers, NEW g \in FetchType,
         fetch' = [fetch EXCEPT ![w] = g], taken' = taken, room' = room,
         fetch[w].at \in {"trip", "body"} <=> g.at \in {"trip", "body"}
  PROVE  FetchInv'
<1>1. Transferring' = Transferring
  BY DEF Transferring, FetchTypeOK
<1>2. FetchTypeOK'
  BY DEF FetchTypeOK, FetchType
<1> QED
  BY <1>1, <1>2 DEF FetchInv, SlotsKept

\* A step that gives the slot back.
LEMMA GivesBack ==
  ASSUME FetchTypeOK, SlotsKept, NEW w \in Workers, NEW g \in FetchType,
         Released(w, g), fetch[w].at \in {"trip", "body"}, g.at \in Outside
  PROVE  FetchInv'
<1>1. Transferring' = Transferring \ {w} /\ w \in Transferring
  BY DEF Transferring, FetchTypeOK, Released, Outside
<1>2. IsFiniteSet(Transferring)
  BY FetchAssumption, FS_Subset DEF Transferring
<1>3. /\ Cardinality(Transferring \ {w}) = Cardinality(Transferring) - 1
      /\ Cardinality(Transferring) \in Nat
  BY <1>1, <1>2, FS_RemoveElement, FS_CardinalityType
<1>4. FetchTypeOK'
  BY DEF FetchTypeOK, FetchType, Released
<1>5. taken' = taken - 1
  BY DEF Released
<1> QED
  BY <1>1, <1>3, <1>4, <1>5, FetchAssumption DEF FetchInv, SlotsKept

LEMMA FetchStepInv == FetchInv /\ [FetchNext]_fetchVars => FetchInv'
<1> SUFFICES ASSUME FetchInv, [FetchNext]_fetchVars PROVE FetchInv'
  OBVIOUS
<1>0. FetchTypeOK /\ SlotsKept /\ \A w \in Workers : fetch[w] \in FetchType
  BY DEF FetchInv, FetchTypeOK, FetchType
<1> DEFINE In(s) == s \in {"trip", "body"}
<1>a. ASSUME NEW w \in Workers, NEW s \in Outside, ~In(fetch[w].at),
             fetch' = [fetch EXCEPT ![w].at = s], taken' = taken, room' = room
      PROVE  FetchInv'
  <2>1. /\ [fetch[w] EXCEPT !.at = s] \in FetchType
        /\ [fetch[w] EXCEPT !.at = s].at = s
    BY <1>0 DEF FetchType, Outside
  <2>2. fetch' = [fetch EXCEPT ![w] = [fetch[w] EXCEPT !.at = s]]
    BY <1>a
  <2> QED
    BY <1>0, <1>a, <2>1, <2>2, StaysOutside DEF Outside
<1>1. ASSUME NEW w \in Workers, StartFetch(w) PROVE FetchInv'
  <2>1. /\ [NoFetch EXCEPT !.at = "guard"] \in FetchType
        /\ [NoFetch EXCEPT !.at = "guard"].at = "guard"
    BY NoFetchType DEF FetchType
  <2> QED
    BY <1>0, <1>1, <2>1, StaysOutside DEF StartFetch
<1>2. ASSUME NEW w \in Workers, Guarded(w) \/ Resume(w) PROVE FetchInv'
  BY <1>2, <1>a DEF Guarded, Resume, Outside
<1>3. ASSUME NEW w \in Workers, GuardCanceled(w) PROVE FetchInv'
  BY <1>0, <1>3, NoFetchType, StaysOutside DEF GuardCanceled
<1>4. ASSUME NEW w \in Workers, Attempt(w) PROVE FetchInv'
  <2>1. CASE fetch' = [fetch EXCEPT ![w] = NoFetch]
    BY <1>0, <1>4, <2>1, NoFetchType, StaysOutside DEF Attempt
  <2>2. CASE fetch' = [fetch EXCEPT ![w].at = "slot"]
    BY <1>4, <1>a, <2>2 DEF Attempt, Outside
  <2> QED
    BY <1>4, <2>1, <2>2 DEF Attempt
<1>5. ASSUME NEW w \in Workers, TakeTransfer(w) PROVE FetchInv'
  <2>1. Transferring' = Transferring \cup {w} /\ w \notin Transferring
    BY <1>0, <1>5 DEF Transferring, FetchTypeOK, FetchType, TakeTransfer
  <2>2. IsFiniteSet(Transferring)
    BY FetchAssumption, FS_Subset DEF Transferring
  <2>3. /\ Cardinality(Transferring \cup {w}) = Cardinality(Transferring) + 1
        /\ Cardinality(Transferring) \in Nat
    BY <2>1, <2>2, FS_AddElement, FS_CardinalityType
  <2>4. FetchTypeOK'
    BY <1>0, <1>5 DEF FetchTypeOK, FetchType, TakeTransfer
  <2>5. taken' = taken + 1 /\ taken < TransferSlots
    BY <1>5 DEF TakeTransfer
  <2> QED
    BY <1>0, <2>1, <2>3, <2>4, <2>5, FetchAssumption DEF FetchInv, SlotsKept
<1>6. ASSUME NEW w \in Workers, SlotCanceled(w) PROVE FetchInv'
  <2>1. /\ Repeats(fetch[w], "net") \in FetchType
        /\ Repeats(fetch[w], "net").at \in Outside
    BY <1>0, RepeatsType DEF Errors
  <2> QED
    BY <1>0, <1>6, <2>1, StaysOutside DEF SlotCanceled, Outside
<1>7. ASSUME NEW w \in Workers, TripFails(w) PROVE FetchInv'
  <2>1. /\ Repeats(fetch[w], "net") \in FetchType
        /\ Repeats(fetch[w], "net").at \in Outside
    BY <1>0, RepeatsType DEF Errors
  <2> QED
    BY <1>0, <1>7, <2>1, GivesBack DEF TripFails
<1>8. ASSUME NEW w \in Workers, NEW e \in Errors, Responds(w, e) PROVE FetchInv'
  BY <1>0, <1>8, AfterStatusType, GivesBack DEF Responds
<1>9. ASSUME NEW w \in Workers, RespondsOK(w) PROVE FetchInv'
  <2>1. /\ [fetch[w] EXCEPT !.at = "body"] \in FetchType
        /\ [fetch[w] EXCEPT !.at = "body"].at = "body"
    BY <1>0 DEF FetchType
  <2>2. fetch' = [fetch EXCEPT ![w] = [fetch[w] EXCEPT !.at = "body"]]
    BY <1>9 DEF RespondsOK
  <2> QED
    BY <1>0, <1>9, <2>1, <2>2, StaysOutside DEF RespondsOK
<1>10. ASSUME NEW w \in Workers, ReadImage(w) PROVE FetchInv'
  BY <1>0, <1>10, NoFetchType, GivesBack DEF ReadImage, Outside
<1>11. ASSUME NEW w \in Workers, NEW e \in Errors, ReadFails(w, e)
       PROVE  FetchInv'
  BY <1>0, <1>11, RepeatsType, HostFailsType, GivesBack DEF ReadFails
<1>12. ASSUME NEW w \in Workers, PauseEnds(w) PROVE FetchInv'
  <2>1. fetch[w].last \in Errors
    BY <1>0 DEF FetchType
  <2>2. /\ HostFails(fetch[w], fetch[w].last) \in FetchType
        /\ HostFails(fetch[w], fetch[w].last).at \in Outside
    BY <1>0, <2>1, HostFailsType
  <2> QED
    BY <1>0, <1>12, <2>2, NoFetchType, StaysOutside DEF PauseEnds, Outside
<1>13. ASSUME NEW w \in Workers, BudgetEnds(w) PROVE FetchInv'
  <2>1. /\ [fetch[w] EXCEPT !.over = TRUE] \in FetchType
        /\ [fetch[w] EXCEPT !.over = TRUE].at = fetch[w].at
    BY <1>0 DEF FetchType
  <2>2. fetch' = [fetch EXCEPT ![w] = [fetch[w] EXCEPT !.over = TRUE]]
    BY <1>13 DEF BudgetEnds
  <2> QED
    BY <1>0, <1>13, <2>1, <2>2, StaysOutside DEF BudgetEnds
<1>14. ASSUME DiskChanges \/ UNCHANGED fetchVars PROVE FetchInv'
  BY <1>0, <1>14
  DEF DiskChanges, fetchVars, FetchInv, FetchTypeOK, SlotsKept, Transferring
<1> QED
  BY <1>1, <1>2, <1>3, <1>4, <1>5, <1>6, <1>7, <1>8, <1>9, <1>10, <1>11, <1>12,
     <1>13, <1>14 DEF FetchNext, FetchStep

LEMMA FetchInitInv == FetchInit => FetchInv
<1> SUFFICES ASSUME FetchInit PROVE FetchInv
  OBVIOUS
<1>1. \A w \in Workers : fetch[w].at = "idle"
  BY NoFetchType DEF FetchInit
<1>2. Transferring = {}
  BY <1>1 DEF Transferring
<1>3. FetchTypeOK
  BY NoFetchType DEF FetchInit, FetchTypeOK, FetchType
<1> QED
  BY <1>2, <1>3, FS_EmptySet, FetchAssumption DEF FetchInit, FetchInv, SlotsKept

\* A slot is taken exactly for the requests whose body is not closed yet, on
\* every path of RoundTrip, fetchImageRetry and JM.fetchImage.
THEOREM SlotsAccounted == FetchSpec => []SlotsKept
<1>1. FetchInv => SlotsKept
  BY DEF FetchInv
<1> QED
  BY FetchInitInv, FetchStepInv, <1>1, PTL DEF FetchSpec

\* Every variable keeps its type: the attempts and hosts of a fetch stay in
\* their ranges.
THEOREM FetchTypeCorrect == FetchSpec => []FetchTypeOK
<1>1. FetchInv => FetchTypeOK
  BY DEF FetchInv
<1> QED
  BY FetchInitInv, FetchStepInv, <1>1, PTL DEF FetchSpec

-----------------------------------------------------------------------------
(* ImageFetch: how long a fetch can take.  FetchEnds needs fairness and is *)
(* for TLC; that a fetch has only so many steps to take needs none.        *)

\* A fetch that the guard has let pass.
UnderWay(g) == g.at \notin {"idle", "guard"}

\* What is left of an attempt, and how many attempts are left on all hosts.
FetchStage == [pause |-> 5, attempt |-> 4, slot |-> 3, trip |-> 2, body |-> 1]
TriesLeft(g) == (Hosts - g.host) * Attempts + (Attempts - g.attempt)

\* The steps that a fetch still has, with the end of its budget as one of them.
FetchRank(g) ==
    IF UnderWay(g)
    THEN 5 * TriesLeft(g) + FetchStage[g.at] + (IF g.over THEN 0 ELSE 1)
    ELSE 0

\* No fetch has more than five steps for every attempt at every host and the
\* end of its budget: retries, the second try after 403, pauses and the change
\* of the host are all among them (fetchImageRetry, JM.fetchImage).
FetchBounded ==
    \A w \in Workers :
        UnderWay(fetch[w]) => FetchRank(fetch[w]) \in 1..(5 * (Hosts * Attempts) + 1)

\* Every step of it, and the end of its budget, leaves it fewer; the steps of
\* other workers and of the disk leave it alone.
FetchAdvances ==
    [][\A w \in Workers :
          (UnderWay(fetch[w]) /\ fetch'[w] # fetch[w])
              => FetchRank(fetch'[w]) < FetchRank(fetch[w])]_fetchVars

LEMMA OneFactorLess ==
  \A x, y \in Int : (x - 1) * y = x * y - y
OBVIOUS

LEMMA ProductOfNaturals ==
  \A x, y \in Nat : x * y \in Nat
OBVIOUS

LEMMA FactorBound ==
  \A x, y, z \in Nat : x <= z => x * y <= z * y
OBVIOUS

LEMMA TriesNatural ==
  ASSUME NEW g \in FetchType
  PROVE  TriesLeft(g) \in Nat /\ TriesLeft(g) <= Hosts * Attempts - 1
<1>1. PICK x \in Nat, y \in Nat, z \in Nat :
        /\ x = Hosts - g.host /\ y = Attempts /\ z = Hosts
        /\ x <= z - 1 /\ g.attempt \in 1..y
  <2>1. g.host \in 1..Hosts /\ g.attempt \in 1..Attempts
    BY DEF FetchType
  <2> QED
    BY <2>1, FetchAssumption
<1>2. x * y \in Nat /\ z * y \in Nat
  BY ProductOfNaturals
<1>3. x * y <= (z - 1) * y
  <2>1. z - 1 \in Nat
    BY <1>1
  <2> QED
    BY <1>1, <2>1, FactorBound
<1>4. (z - 1) * y = z * y - y
  BY OneFactorLess
<1> QED
  BY <1>1, <1>2, <1>3, <1>4 DEF TriesLeft

LEMMA RankNatural ==
  ASSUME NEW g \in FetchType
  PROVE  /\ FetchRank(g) \in Nat
         /\ UnderWay(g) => /\ FetchRank(g) > 5 * TriesLeft(g)
                           /\ FetchRank(g) <= 5 * (Hosts * Attempts) + 1
<1>1. TriesLeft(g) \in Nat /\ TriesLeft(g) <= Hosts * Attempts - 1
  BY TriesNatural
<1>2. Hosts * Attempts \in Nat
  BY ProductOfNaturals, FetchAssumption
<1>3. UnderWay(g) => FetchStage[g.at] \in 1..5
  BY DEF UnderWay, FetchStage, FetchType
<1> QED
  BY <1>1, <1>2, <1>3 DEF FetchRank

\* The next host has fewer attempts left than this one had.
LEMMA HostFailsRank ==
  ASSUME NEW g \in FetchType, UnderWay(g), NEW e \in Errors
  PROVE  FetchRank(HostFails(g, e)) < FetchRank(g)
<1>1. FetchRank(g) \in Nat /\ FetchRank(g) > 5 * TriesLeft(g) /\ TriesLeft(g) \in Nat
  BY RankNatural, TriesNatural
<1>2. CASE HostFails(g, e) = NoFetch
  <2>1. FetchRank(NoFetch) = 0
    BY DEF FetchRank, UnderWay, NoFetch
  <2> QED
    BY <1>1, <1>2, <2>1
<1> DEFINE h == [g EXCEPT !.host = @ + 1, !.attempt = 1, !.at = "attempt"]
           k == [h EXCEPT !.fallback = FALSE, !.last = "none"]
<1>3. CASE HostFails(g, e) = k /\ ~g.over
  <2>1. /\ k.host = g.host + 1 /\ k.attempt = 1 /\ k.at = "attempt"
        /\ k.over = g.over
    BY DEF FetchType
  <2>2. TriesLeft(k) = (Hosts - (g.host + 1)) * Attempts + (Attempts - 1)
    BY <2>1 DEF TriesLeft
  <2> HIDE DEF k, h
  <2>3. TriesLeft(k) <= TriesLeft(g) - 1 /\ TriesLeft(k) \in Int
    <3>1. PICK x \in Int, y \in Nat, a \in Nat :
            /\ x = Hosts - g.host /\ y = Attempts /\ a = g.attempt
            /\ a >= 1 /\ a <= y
            /\ x - 1 = Hosts - (g.host + 1)
      BY FetchAssumption DEF FetchType
    <3>2. (x - 1) * y = x * y - y /\ x * y \in Int
      BY <3>1, OneFactorLess
    <3> QED
      BY <2>2, <3>1, <3>2 DEF TriesLeft
  <2>4. FetchRank(k) = 5 * TriesLeft(k) + 5
    BY <1>3, <2>1, <2>3 DEF FetchRank, UnderWay, FetchStage
  <2>5. FetchRank(g) >= 5 * TriesLeft(g) + 2
    BY <1>3, <1>1 DEF FetchRank, UnderWay, FetchStage, FetchType
  <2> QED
    BY <1>1, <1>3, <2>3, <2>4, <2>5
<1>4. k = [g EXCEPT !.host = @ + 1, !.attempt = 1, !.at = "attempt",
                    !.fallback = FALSE, !.last = "none"]
  OBVIOUS
<1> HIDE DEF h, k
<1> QED
  BY <1>2, <1>3, <1>4 DEF HostFails

\* The pause before the next attempt has one attempt less than what was before.
LEMMA RepeatsRank ==
  ASSUME NEW g \in FetchType, UnderWay(g), g.at # "pause", NEW e \in Errors
  PROVE  FetchRank(Repeats(g, e)) < FetchRank(g)
<1>1. CASE ~(g.attempt < Attempts)
  BY <1>1, HostFailsRank DEF Repeats
<1>2. CASE g.attempt < Attempts
  <2> DEFINE k == [g EXCEPT !.at = "pause", !.attempt = @ + 1, !.last = e]
  <2>1. /\ k.host = g.host /\ k.attempt = g.attempt + 1 /\ k.at = "pause"
        /\ k.over = g.over /\ Repeats(g, e) = k
    BY <1>2 DEF FetchType, Repeats
  <2> HIDE DEF k
  <2>2. TriesLeft(k) = TriesLeft(g) - 1
    <3> DEFINE x == (Hosts - g.host) * Attempts
    <3>1. x \in Int
      <4>1. Hosts - g.host \in Int /\ Attempts \in Int
        BY FetchAssumption DEF FetchType
      <4> QED
        BY <4>1, OneFactorLess
    <3>2. TriesLeft(k) = x + (Attempts - (g.attempt + 1))
      BY <2>1 DEF TriesLeft
    <3>3. TriesLeft(g) = x + (Attempts - g.attempt)
      BY DEF TriesLeft
    <3>4. Attempts \in Int /\ g.attempt \in Int
      BY FetchAssumption DEF FetchType
    <3> HIDE DEF x
    <3> QED
      BY <3>1, <3>2, <3>3, <3>4
  <2>3. TriesLeft(g) \in Nat
    BY TriesNatural
  <2>4. FetchRank(k) = 5 * TriesLeft(k) + 5 + (IF g.over THEN 0 ELSE 1)
    BY <2>1 DEF FetchRank, UnderWay, FetchStage
  <2>5. FetchRank(g) >= 5 * TriesLeft(g) + 1 + (IF g.over THEN 0 ELSE 1)
    BY <2>3 DEF FetchRank, UnderWay, FetchStage, FetchType
  <2>6. FetchRank(g) \in Nat
    BY RankNatural
  <2> QED
    BY <2>1, <2>2, <2>3, <2>4, <2>5, <2>6
<1> QED
  BY <1>1, <1>2 DEF FetchType

\* The fallback after 403 does not change what is left.
LEMMA AfterStatusRank ==
  ASSUME NEW g \in FetchType, UnderWay(g), g.at # "pause", NEW e \in Errors
  PROVE  FetchRank(AfterStatus(g, e)) < FetchRank(g)
<1> DEFINE k == [g EXCEPT !.fallback = TRUE]
<1>1. k \in FetchType /\ k.at = g.at
  BY DEF FetchType
<1>2. FetchRank(k) = FetchRank(g) /\ UnderWay(k)
  BY DEF FetchRank, UnderWay, TriesLeft, FetchType
<1> HIDE DEF k
<1>3. FetchRank(Repeats(k, e)) < FetchRank(g)
  BY <1>1, <1>2, RepeatsRank
<1> QED
  BY <1>3, RepeatsRank, HostFailsRank DEF AfterStatus, k

\* A step within an attempt goes to a later stage of it.
LEMMA StageRank ==
  ASSUME NEW g \in FetchType, UnderWay(g),
         NEW s \in {"attempt", "slot", "trip", "body"},
         FetchStage[s] < FetchStage[g.at]
  PROVE  FetchRank([g EXCEPT !.at = s]) < FetchRank(g)
<1> DEFINE k == [g EXCEPT !.at = s]
<1>1. k.at = s /\ k.over = g.over /\ TriesLeft(k) = TriesLeft(g)
  BY DEF FetchType, TriesLeft
<1> HIDE DEF k
<1>2. TriesLeft(g) \in Nat
  BY TriesNatural
<1>3. FetchStage[s] \in Nat /\ FetchStage[g.at] \in Nat
  BY DEF FetchStage, FetchType, UnderWay
<1>4. FetchRank(k) = 5 * TriesLeft(g) + FetchStage[s] + (IF g.over THEN 0 ELSE 1)
  BY <1>1 DEF FetchRank, UnderWay
<1>5. FetchRank(g) = 5 * TriesLeft(g) + FetchStage[g.at]
                        + (IF g.over THEN 0 ELSE 1)
  BY DEF FetchRank
<1> QED
  BY <1>2, <1>3, <1>4, <1>5 DEF k

LEMMA FetchStepRank ==
  ASSUME FetchInv, NEW w \in Workers, UnderWay(fetch[w]),
         FetchStep(w) \/ BudgetEnds(w)
  PROVE  /\ FetchRank(fetch'[w]) < FetchRank(fetch[w])
         /\ \A v \in Workers : v # w => fetch'[v] = fetch[v]
<1> DEFINE g == fetch[w]
<1>0. /\ g \in FetchType /\ fetch[w] = g
      /\ fetch = [v \in Workers |-> fetch[v]]
  BY DEF FetchInv, FetchTypeOK, FetchType
<1>1. FetchRank(g) \in Nat /\ FetchRank(g) > 5 * TriesLeft(g)
      /\ TriesLeft(g) \in Nat
  BY <1>0, RankNatural, TriesNatural
<1>2. FetchRank(NoFetch) < FetchRank(g)
  <2>1. FetchRank(NoFetch) = 0
    BY DEF FetchRank, UnderWay, NoFetch
  <2> QED
    BY <1>1, <2>1
<1> HIDE DEF g
<1> SUFFICES ASSUME NEW h, fetch' = [fetch EXCEPT ![w] = h]
             PROVE  FetchRank(h) < FetchRank(g)
  <2>1. \E h : fetch' = [fetch EXCEPT ![w] = h]
    BY DEF FetchStep, Attempt, TakeTransfer, SlotCanceled, TripFails, Responds,
           RespondsOK, ReadImage, ReadFails, Resume, PauseEnds, BudgetEnds,
           Released
  <2>2. PICK h : fetch' = [fetch EXCEPT ![w] = h]
    BY <2>1
  <2>3. fetch'[w] = h /\ \A v \in Workers : v # w => fetch'[v] = fetch[v]
    BY <1>0, <2>2
  <2> QED
    BY <1>0, <2>2, <2>3
<1>3. fetch'[w] = h
  BY <1>0
<1>4. ASSUME NEW s \in {"attempt", "slot", "trip", "body"},
             fetch' = [fetch EXCEPT ![w].at = s],
             FetchStage[s] < FetchStage[g.at]
      PROVE  FetchRank(h) < FetchRank(g)
  BY <1>0, <1>3, <1>4, StageRank
<1>a. /\ FetchStage["slot"] < FetchStage["attempt"]
      /\ FetchStage["trip"] < FetchStage["slot"]
      /\ FetchStage["body"] < FetchStage["trip"]
      /\ FetchStage["attempt"] < FetchStage["pause"]
  BY DEF FetchStage
<1>5. CASE Attempt(w)
  <2>1. g.at = "attempt"
    BY <1>0, <1>5 DEF Attempt
  <2>2. \/ fetch' = [fetch EXCEPT ![w] = NoFetch]
        \/ fetch' = [fetch EXCEPT ![w].at = "slot"]
    BY <1>5 DEF Attempt
  <2>3. CASE fetch' = [fetch EXCEPT ![w] = NoFetch]
    BY <1>0, <1>2, <1>3, <2>3
  <2>4. CASE fetch' = [fetch EXCEPT ![w].at = "slot"]
    BY <1>4, <1>a, <2>1, <2>4
  <2> QED
    BY <2>2, <2>3, <2>4
<1>6. CASE TakeTransfer(w)
  <2>1. g.at = "slot" /\ fetch' = [fetch EXCEPT ![w].at = "trip"]
    BY <1>0, <1>6 DEF TakeTransfer
  <2> QED
    BY <1>4, <1>a, <2>1
<1>7. CASE SlotCanceled(w)
  BY <1>0, <1>3, <1>7, RepeatsRank DEF SlotCanceled, Errors
<1>8. CASE TripFails(w)
  BY <1>0, <1>3, <1>8, RepeatsRank DEF TripFails, Released, Errors
<1>9. ASSUME NEW e \in Errors, Responds(w, e)
      PROVE  FetchRank(h) < FetchRank(g)
  BY <1>0, <1>3, <1>9, AfterStatusRank DEF Responds, Released
<1>10. CASE RespondsOK(w)
  <2>1. g.at = "trip" /\ fetch' = [fetch EXCEPT ![w].at = "body"]
    BY <1>0, <1>10 DEF RespondsOK
  <2> QED
    BY <1>4, <1>a, <2>1
<1>11. CASE ReadImage(w)
  BY <1>0, <1>2, <1>3, <1>11 DEF ReadImage, Released
<1>12. ASSUME NEW e \in Errors, ReadFails(w, e)
       PROVE  FetchRank(h) < FetchRank(g)
  BY <1>0, <1>3, <1>12, RepeatsRank, HostFailsRank DEF ReadFails, Released
<1>13. CASE Resume(w)
  <2>1. g.at = "pause" /\ fetch' = [fetch EXCEPT ![w].at = "attempt"]
    BY <1>0, <1>13 DEF Resume
  <2> QED
    BY <1>4, <1>a, <2>1
<1>14. CASE PauseEnds(w)
  <2>1. g.last \in Errors
    BY <1>0 DEF FetchType
  <2> QED
    BY <1>0, <1>2, <1>3, <1>14, <2>1, HostFailsRank DEF PauseEnds
<1>15. CASE BudgetEnds(w)
  <2>1. h = [g EXCEPT !.over = TRUE] /\ ~g.over
    BY <1>0, <1>3, <1>15 DEF BudgetEnds
  <2>2. h.at = g.at /\ h.over /\ TriesLeft(h) = TriesLeft(g)
    BY <1>0, <2>1 DEF FetchType, TriesLeft
  <2>3. FetchStage[g.at] \in Nat
    BY <1>0 DEF FetchStage, FetchType, UnderWay
  <2> QED
    BY <1>0, <1>1, <2>1, <2>2, <2>3 DEF FetchRank, UnderWay
<1> QED
  BY <1>5, <1>6, <1>7, <1>8, <1>9, <1>10, <1>11, <1>12, <1>13, <1>14, <1>15
  DEF FetchStep

\* A fetch takes at most 5 * Hosts * Attempts + 1 steps, whatever upstream
\* answers and whoever gets the slots: this is what FetchEnds rests on, beside
\* the fairness that makes the steps happen.
THEOREM FetchIsBounded == FetchSpec => []FetchBounded /\ FetchAdvances
<1>1. FetchInv => FetchBounded
  <2> SUFFICES ASSUME FetchInv, NEW w \in Workers, UnderWay(fetch[w])
               PROVE  FetchRank(fetch[w]) \in 1..(5 * (Hosts * Attempts) + 1)
    BY DEF FetchBounded
  <2>1. fetch[w] \in FetchType
    BY DEF FetchInv, FetchTypeOK, FetchType
  <2>2. TriesLeft(fetch[w]) \in Nat /\ Hosts * Attempts \in Nat
    BY <2>1, TriesNatural, ProductOfNaturals, FetchAssumption
  <2> QED
    BY <2>1, <2>2, RankNatural
<1>2. FetchInv /\ [FetchNext]_fetchVars
        => [\A w \in Workers :
               (UnderWay(fetch[w]) /\ fetch'[w] # fetch[w])
                   => FetchRank(fetch'[w]) < FetchRank(fetch[w])]_fetchVars
  <2> SUFFICES ASSUME FetchInv, FetchNext, NEW w \in Workers,
                      UnderWay(fetch[w]), fetch'[w] # fetch[w]
               PROVE  FetchRank(fetch'[w]) < FetchRank(fetch[w])
    OBVIOUS
  <2>1. ASSUME NEW v \in Workers,
               StartFetch(v) \/ Guarded(v) \/ GuardCanceled(v)
        PROVE  FALSE
    <3>1. v # w
      BY <2>1 DEF StartFetch, Guarded, GuardCanceled, UnderWay
    <3> QED
      BY <2>1, <3>1
      DEF StartFetch, Guarded, GuardCanceled, FetchInv, FetchTypeOK
  <2>2. ASSUME NEW v \in Workers, FetchStep(v) \/ BudgetEnds(v)
        PROVE  FetchRank(fetch'[w]) < FetchRank(fetch[w])
    <3>1. UnderWay(fetch[v])
      BY <2>2 DEF FetchStep, Attempt, TakeTransfer, SlotCanceled, TripFails,
                  Responds, RespondsOK, ReadImage, ReadFails, Resume,
                  PauseEnds, BudgetEnds, UnderWay
    <3> QED
      BY <2>2, <3>1, FetchStepRank
  <2> QED
    BY <2>1, <2>2 DEF FetchNext, DiskChanges
<1> QED
  BY FetchInitInv, FetchStepInv, <1>1, <1>2, PTL DEF FetchSpec, FetchAdvances

-----------------------------------------------------------------------------
(* PageFlight: the invariant.                                              *)

FlightType ==
    [key : Keys \cup {NoKey}, at : Stages, waiters : Nat, canceled : BOOLEAN,
     expired : BOOLEAN, result : Results]

ReaderType ==
    [at : {"away", "missed", "waiting", "leaving"}, key : Keys \cup {NoKey},
     flight : Flights \cup {NoFlight}, answer : Results]

\* The stages of a flight whose goroutine has not ended.
Live == {"queued", "loading", "returned"}

\* The counter of a flight counts the readers that hold it.
Counted == \A f \in Flights : flight[f].waiters = Cardinality(Holders(f))

\* A flight is canceled exactly when nobody holds it; only then it says so.
FlightFine(fl) ==
    IF fl.at = "free" THEN fl = Free
    ELSE /\ fl.key \in Keys
         /\ fl.canceled <=> fl.waiters = 0
         /\ fl.result = "canceled" => fl.canceled

\* A reader holds a flight for its own page while it waits and leaves, only.
ReaderFine(r) ==
    /\ reader[r].at = "away" => reader[r].flight = NoFlight
    /\ reader[r].at # "away" => reader[r].key \in Keys
    /\ reader[r].at = "missed" => reader[r].flight = NoFlight
    /\ reader[r].at \in {"waiting", "leaving"} =>
          /\ reader[r].flight \in Flights
          /\ flight[reader[r].flight].key = reader[r].key
    /\ reader[r].answer # "canceled"

\* The map offers the flights that are wanted and under way, and no others.
Offered ==
    /\ \A k \in Keys : pages[k] # NoFlight =>
          /\ flight[pages[k]].at \in Live /\ flight[pages[k]].key = k
          /\ ~flight[pages[k]].canceled
    /\ \A f \in Flights :
          flight[f].at \in Live /\ ~flight[f].canceled =>
              pages[flight[f].key] = f

FlightInv ==
    /\ FlightTypeOK
    /\ Counted
    /\ \A f \in Flights : FlightFine(flight[f])
    /\ \A r \in Readers : ReaderFine(r)
    /\ Offered

\* The types in a form that is easier to use.
LEMMA FlightTypes ==
  ASSUME FlightTypeOK
  PROVE  /\ flight \in [Flights -> FlightType]
         /\ reader \in [Readers -> ReaderType]
         /\ pages \in [Keys -> Flights \cup {NoFlight}]
BY DEF FlightTypeOK, FlightType, ReaderType

LEMMA FreeType ==
  /\ Free \in FlightType /\ Free.at = "free" /\ Free.waiters = 0
  /\ ~Free.canceled
  /\ Away \in ReaderType /\ Away.at = "away" /\ Away.flight = NoFlight
  /\ Away.answer = "none"
BY DEF Free, FlightType, Stages, Results, Away, ReaderType

LEMMA FlightInitInv == FlightInit => FlightInv
<1> SUFFICES ASSUME FlightInit PROVE FlightInv
  OBVIOUS
<1>1. FlightTypeOK
  BY FreeType DEF FlightInit, FlightTypeOK, FlightType, ReaderType
<1>2. \A f \in Flights : flight[f] = Free /\ Holders(f) = {}
  BY FreeType, FlightAssumption DEF FlightInit, Holders
<1>3. Counted
  BY <1>2, FreeType, FS_EmptySet DEF Counted
<1>4. \A f \in Flights : FlightFine(flight[f])
  BY <1>2, FreeType DEF FlightFine
<1>5. \A r \in Readers : ReaderFine(r)
  BY FreeType DEF FlightInit, ReaderFine
<1>6. Offered
  BY <1>2, FreeType DEF FlightInit, Offered, Live
<1> QED
  BY <1>1, <1>3, <1>4, <1>5, <1>6 DEF FlightInv

\* A reader takes hold of a flight, or lets go of one.
LEMMA HoldersCount ==
  ASSUME NEW S \in SUBSET Readers, NEW r \in Readers
  PROVE  /\ r \notin S => Cardinality(S \cup {r}) = Cardinality(S) + 1
         /\ r \in S => Cardinality(S \ {r}) = Cardinality(S) - 1
         /\ Cardinality(S) \in Nat
         /\ Cardinality(S) = 0 <=> S = {}
<1>1. IsFiniteSet(S)
  BY FlightAssumption, FS_Subset
<1> QED
  BY <1>1, FS_AddElement, FS_RemoveElement, FS_CardinalityType, FS_EmptySet

LEMMA HoldersWait ==
  ASSUME Counted, NEW f \in Flights
  PROVE  flight[f].waiters = 0 <=> Holders(f) = {}
<1>1. Holders(f) \in SUBSET Readers
  BY DEF Holders
<1>2. CASE \E r \in Readers : TRUE
  BY <1>1, <1>2, HoldersCount DEF Counted
<1>3. CASE Readers = {}
  BY <1>1, <1>3, FS_EmptySet DEF Counted
<1> QED
  BY <1>2, <1>3

\* A step of the goroutine of a flight, which stays wanted or unwanted.
LEMMA GoroutineStep ==
  ASSUME FlightInv, NEW f \in Flights, NEW g \in FlightType,
         flight' = [flight EXCEPT ![f] = g], reader' = reader, pages' = pages,
         flight[f].at \in Live, g.at \in Live,
         g.key = flight[f].key, g.waiters = flight[f].waiters,
         g.canceled = flight[f].canceled,
         g.result = "canceled" => g.canceled
  PROVE  FlightInv'
<1>0. /\ FlightTypeOK /\ Counted /\ Offered
      /\ flight \in [Flights -> FlightType]
      /\ FlightFine(flight[f])
  BY FlightTypes DEF FlightInv
<1>1. FlightTypeOK'
  BY <1>0 DEF FlightTypeOK, FlightType
<1>2. Counted'
  BY <1>0 DEF Counted, Holders
<1>3. \A e \in Flights : FlightFine(flight'[e])
  BY <1>0 DEF FlightInv, FlightFine, Live
<1>4. \A r \in Readers : ReaderFine(r)'
  BY <1>0 DEF FlightInv, ReaderFine
<1>5. Offered'
  BY <1>0 DEF Offered, FlightTypeOK
<1> QED
  BY <1>1, <1>2, <1>3, <1>4, <1>5 DEF FlightInv

LEMMA FetchingStep ==
  ASSUME FlightInv, NEW f \in Flights, Fetching(f) \/ Expire(f), ~Close(f)
  PROVE  FlightInv'
<1>0. /\ flight \in [Flights -> FlightType] /\ flight[f] \in FlightType
      /\ FlightFine(flight[f])
  BY FlightTypes DEF FlightInv
<1>1. ASSUME NEW from \in {"queued", "loading"}, NEW result \in Results,
             Return(f, from, result), result = "canceled" => flight[f].canceled
      PROVE  FlightInv'
  <2> DEFINE g == [flight[f] EXCEPT !.at = "returned", !.result = result]
  <2>1. /\ g \in FlightType /\ g.at = "returned" /\ g.result = result
        /\ g.key = flight[f].key /\ g.waiters = flight[f].waiters
    BY <1>0 DEF FlightType, Stages
  <2>2. g.canceled = flight[f].canceled
    BY <1>0 DEF FlightType
  <2>3. /\ flight' = [flight EXCEPT ![f] = g] /\ flight[f].at = from
        /\ reader' = reader /\ pages' = pages
    BY <1>1 DEF Return
  <2> HIDE DEF g
  <2> QED
    BY <1>1, <2>1, <2>2, <2>3, GoroutineStep DEF Live
<1>2. Reason(f) \in Results /\ (Reason(f) = "canceled" => flight[f].canceled)
  BY DEF Reason, Results
<1>3. CASE GiveUp(f) \/ LoadOver(f)
  BY <1>1, <1>2, <1>3 DEF GiveUp, LoadOver
<1>4. CASE Loaded(f) \/ LoadFails(f)
  BY <1>1, <1>4 DEF Loaded, LoadFails, Results
<1>5. CASE TakeSlot(f)
  <2> DEFINE g == [flight[f] EXCEPT !.at = "loading"]
  <2>1. /\ g \in FlightType /\ g.at = "loading" /\ g.result = flight[f].result
        /\ g.key = flight[f].key /\ g.waiters = flight[f].waiters
    BY <1>0 DEF FlightType, Stages
  <2>2. g.canceled = flight[f].canceled
    BY <1>0 DEF FlightType
  <2>3. /\ flight' = [flight EXCEPT ![f] = g] /\ flight[f].at = "queued"
        /\ reader' = reader /\ pages' = pages
    BY <1>5 DEF TakeSlot
  <2> HIDE DEF g
  <2> QED
    BY <1>0, <2>1, <2>2, <2>3, GoroutineStep DEF Live, FlightFine
<1>6. CASE Expire(f)
  <2> DEFINE g == [flight[f] EXCEPT !.expired = TRUE]
  <2>1. /\ g \in FlightType /\ g.at = flight[f].at
        /\ g.result = flight[f].result
        /\ g.key = flight[f].key /\ g.waiters = flight[f].waiters
    BY <1>0 DEF FlightType, Stages
  <2>2. g.canceled = flight[f].canceled
    BY <1>0 DEF FlightType
  <2>3. /\ flight' = [flight EXCEPT ![f] = g]
        /\ flight[f].at \in {"queued", "loading"}
        /\ reader' = reader /\ pages' = pages
    BY <1>6 DEF Expire
  <2> HIDE DEF g
  <2> QED
    BY <1>0, <2>1, <2>2, <2>3, GoroutineStep DEF Live, FlightFine
<1> QED
  BY <1>3, <1>4, <1>5, <1>6 DEF Fetching

\* The goroutine ends: its flight is not offered any more.
LEMMA CloseStep ==
  ASSUME FlightInv, NEW f \in Flights, Close(f)
  PROVE  FlightInv'
<1> USE FreeType
<1>0. /\ FlightTypeOK /\ Counted /\ Offered
      /\ flight \in [Flights -> FlightType] /\ flight[f] \in FlightType
      /\ FlightFine(flight[f]) /\ flight[f].at = "returned"
  BY FlightTypes DEF FlightInv, Close
<1> DEFINE h == [flight[f] EXCEPT !.at = "closed"]
           g == Collected(h)
<1>1. /\ h \in FlightType /\ h.at = "closed" /\ h.result = flight[f].result
      /\ h.key = flight[f].key /\ h.waiters = flight[f].waiters
  BY <1>0 DEF FlightType, Stages
<1>2. h.canceled = flight[f].canceled
  BY <1>0 DEF FlightType
<1> HIDE DEF h
<1>3. \/ h.waiters = 0 /\ g = Free
      \/ h.waiters # 0 /\ g = h
  BY <1>1 DEF Collected
<1> HIDE DEF g
<1>4. /\ g \in FlightType /\ FlightFine(g) /\ g.at \in {"free", "closed"}
      /\ g.waiters = flight[f].waiters
      /\ flight[f].waiters # 0 => g.key = flight[f].key
  BY <1>0, <1>1, <1>2, <1>3 DEF FlightFine
<1>5. flight' = [flight EXCEPT ![f] = g] /\ reader' = reader
  BY DEF Close, g, h
<1>6. pages' = Unlisted(f)
  BY DEF Close
<1>7. FlightTypeOK'
  BY <1>0, <1>4, <1>5, <1>6 DEF FlightTypeOK, FlightType, Unlisted
<1>8. Counted'
  BY <1>0, <1>4, <1>5 DEF Counted, Holders
<1>9. \A e \in Flights : FlightFine(flight'[e])
  BY <1>0, <1>4, <1>5 DEF FlightInv
<1>10. \A r \in Readers : ReaderFine(r)'
  <2> SUFFICES ASSUME NEW r \in Readers PROVE ReaderFine(r)'
    OBVIOUS
  <2>1. ReaderFine(r) /\ reader \in [Readers -> ReaderType]
    BY FlightTypes DEF FlightInv
  <2>2. reader[r].flight = f => flight[f].waiters # 0
    BY <1>0, HoldersWait DEF Holders
  <2> QED
    BY <1>0, <1>4, <1>5, <2>1, <2>2 DEF ReaderFine
<1>11. Offered'
  <2>1. \A e \in Flights : e # f => flight'[e] = flight[e]
    BY <1>5
  <2>2. \A k \in Keys : pages'[k] = IF pages[k] = f THEN NoFlight ELSE pages[k]
    BY <1>6 DEF Unlisted
  <2>3. flight'[f].at \notin Live
    BY <1>0, <1>4, <1>5 DEF Live
  <2>4. \A k \in Keys : pages[k] \in Flights \cup {NoFlight}
    BY <1>0 DEF FlightTypeOK
  <2>5. \A e \in Flights : flight[e].at \in Live => flight[e].key \in Keys
    BY FreeType DEF FlightInv, FlightFine, Live
  <2> QED
    BY <1>0, <2>1, <2>2, <2>3, <2>4, <2>5, FlightAssumption DEF Offered
<1> QED
  BY <1>7, <1>8, <1>9, <1>10, <1>11 DEF FlightInv

\* A step of a reader that leaves the flights as they are.
LEMMA ReaderStep ==
  ASSUME FlightInv, NEW r \in Readers, NEW g \in ReaderType,
         reader' = [reader EXCEPT ![r] = g], flight' = flight, pages' = pages,
         g.flight = reader[r].flight, g.at # "away", g.key \in Keys,
         g.at = "missed" <=> g.flight = NoFlight,
         g.flight # NoFlight => g.key = reader[r].key,
         g.answer # "canceled"
  PROVE  FlightInv'
<1>0. /\ FlightTypeOK /\ Counted /\ Offered
      /\ reader \in [Readers -> ReaderType]
  BY FlightTypes DEF FlightInv
<1>1. FlightTypeOK'
  BY <1>0 DEF FlightTypeOK, ReaderType
<1>2. \A f \in Flights : Holders(f)' = Holders(f)
  BY <1>0 DEF Holders
<1>3. Counted' /\ Offered'
  BY <1>0, <1>2 DEF Counted, Offered
<1>4. \A s \in Readers : ReaderFine(s)'
  <2> SUFFICES ASSUME NEW s \in Readers PROVE ReaderFine(s)'
    OBVIOUS
  <2>1. ReaderFine(s) /\ ReaderFine(r)
    BY DEF FlightInv
  <2>2. CASE s # r
    BY <1>0, <2>1, <2>2 DEF ReaderFine
  <2>3. g.at = "missed" => g.flight = NoFlight
    OBVIOUS
  <2>4. g.at # "missed" =>
           g.flight \in Flights /\ flight[g.flight].key = g.key
    BY <1>0, <2>1, FlightAssumption DEF ReaderFine, ReaderType
  <2>5. CASE s = r
    BY <1>0, <2>3, <2>4, <2>5 DEF ReaderFine
  <2> QED
    BY <2>2, <2>5
<1> QED
  BY <1>1, <1>3, <1>4 DEF FlightInv

LEMMA AskStep ==
  ASSUME FlightInv, NEW r \in Readers,
         HangUp(r) \/ Receive(r) \/ \E k \in Keys : Ask(r, k)
  PROVE  FlightInv'
<1>0. /\ reader \in [Readers -> ReaderType] /\ reader[r] \in ReaderType
      /\ flight \in [Flights -> FlightType] /\ Counted
      /\ ReaderFine(r)
  BY FlightTypes DEF FlightInv
<1>1. CASE HangUp(r)
  <2> DEFINE g == [reader[r] EXCEPT !.at = "leaving"]
  <2>1. /\ g \in ReaderType /\ g.at = "leaving" /\ g.key = reader[r].key
        /\ g.flight = reader[r].flight /\ g.answer = reader[r].answer
    BY <1>0 DEF ReaderType
  <2>2. /\ reader' = [reader EXCEPT ![r] = g] /\ reader[r].at = "waiting"
        /\ flight' = flight /\ pages' = pages
    BY <1>1 DEF HangUp
  <2> HIDE DEF g
  <2> QED
    BY <1>0, <2>1, <2>2, ReaderStep, FlightAssumption DEF ReaderFine
<1>2. CASE Receive(r)
  <2> DEFINE result == flight[reader[r].flight].result
             g == [reader[r] EXCEPT !.at = "leaving", !.answer = result]
  <2>1. /\ reader[r].at = "waiting" /\ reader[r].flight \in Flights
        /\ flight[reader[r].flight].at = "closed"
        /\ reader[r].key \in Keys
    BY <1>0, <1>2 DEF Receive, ReaderFine
  <2>2. flight[reader[r].flight].waiters # 0
    BY <1>0, <2>1, HoldersWait DEF Holders
  <2>3. result # "canceled"
    BY <2>1, <2>2 DEF FlightInv, FlightFine, Free
  <2>4. result \in Results
    BY <1>0, <2>1 DEF FlightType
  <2> HIDE DEF result
  <2>5. /\ g \in ReaderType /\ g.at = "leaving" /\ g.key = reader[r].key
        /\ g.flight = reader[r].flight /\ g.answer = result
    BY <1>0, <2>4 DEF ReaderType
  <2>6. /\ reader' = [reader EXCEPT ![r] = g]
        /\ flight' = flight /\ pages' = pages
    BY <1>2 DEF Receive, result
  <2> HIDE DEF g
  <2> QED
    BY <2>1, <2>3, <2>5, <2>6, ReaderStep, FlightAssumption
<1>3. ASSUME NEW k \in Keys, Ask(r, k) PROVE FlightInv'
  <2> DEFINE g == [reader[r] EXCEPT !.at = "missed", !.key = k]
  <2>1. /\ g \in ReaderType /\ g.at = "missed" /\ g.key = k
        /\ g.flight = reader[r].flight /\ g.answer = reader[r].answer
    BY <1>0 DEF ReaderType
  <2>2. /\ reader' = [reader EXCEPT ![r] = g] /\ reader[r].at = "away"
        /\ flight' = flight /\ pages' = pages
    BY <1>3 DEF Ask
  <2> HIDE DEF g
  <2> QED
    BY <1>0, <2>1, <2>2, ReaderStep, FlightAssumption DEF ReaderFine
<1> QED
  BY <1>1, <1>2, <1>3

\* A reader takes hold of a flight for its page, an old or a new one.
LEMMA HoldStep ==
  ASSUME FlightInv, NEW r \in Readers, NEW f \in Flights, NEW g \in FlightType,
         reader[r].at = "missed", Waits(r, f),
         flight' = [flight EXCEPT ![f] = g],
         pages' = [pages EXCEPT ![reader[r].key] = f],
         pages[reader[r].key] \in {f, NoFlight},
         flight[f] = Free \/ flight[f].key = reader[r].key,
         g.key = reader[r].key, g.at \in Live, ~g.canceled,
         g.waiters = flight[f].waiters + 1, g.result # "canceled"
  PROVE  FlightInv'
<1> DEFINE key == reader[r].key
           w == [reader[r] EXCEPT !.at = "waiting", !.flight = f]
<1>0. /\ FlightTypeOK /\ Counted /\ Offered
      /\ flight \in [Flights -> FlightType] /\ flight[f] \in FlightType
      /\ reader \in [Readers -> ReaderType] /\ reader[r] \in ReaderType
      /\ pages \in [Keys -> Flights \cup {NoFlight}]
  BY FlightTypes DEF FlightInv
<1>1. ReaderFine(r) /\ key \in Keys /\ reader[r].flight = NoFlight
  BY DEF FlightInv, ReaderFine
<1>2. /\ w \in ReaderType /\ w.at = "waiting" /\ w.flight = f
      /\ w.key = key /\ w.answer = reader[r].answer
  BY <1>0 DEF ReaderType
<1>3. reader' = [reader EXCEPT ![r] = w]
  BY DEF Waits
<1> HIDE DEF w
<1>4. FlightTypeOK'
  BY <1>0, <1>1, <1>2, <1>3 DEF FlightTypeOK, FlightType, ReaderType
<1>5. Counted'
  <2>1. \A e \in Flights : e # f => Holders(e)' = Holders(e)
    BY <1>0, <1>1, <1>2, <1>3, FlightAssumption DEF Holders
  <2>2. Holders(f)' = Holders(f) \cup {r} /\ r \notin Holders(f)
    BY <1>0, <1>1, <1>2, <1>3, FlightAssumption DEF Holders
  <2>3. Cardinality(Holders(f)') = Cardinality(Holders(f)) + 1
    <3>1. Holders(f) \in SUBSET Readers
      BY DEF Holders
    <3> QED
      BY <2>2, <3>1, HoldersCount
  <2> QED
    BY <1>0, <2>1, <2>3 DEF Counted
<1>6. \A e \in Flights : FlightFine(flight'[e])
  <2>1. flight[f].waiters \in Nat
    BY <1>0 DEF FlightType
  <2>2. FlightFine(g)
    BY <1>1, <2>1 DEF FlightFine, Live
  <2> QED
    BY <1>0, <2>2 DEF FlightInv
<1>7. \A s \in Readers : ReaderFine(s)'
  <2> SUFFICES ASSUME NEW s \in Readers PROVE ReaderFine(s)'
    OBVIOUS
  <2>1. ReaderFine(s)
    BY DEF FlightInv
  <2>2. CASE s = r
    BY <1>0, <1>1, <1>2, <1>3, <2>2 DEF ReaderFine
  <2>3. reader[s].flight = f => flight[f].key = g.key
    <3>1. reader[s].flight = f => flight[f].waiters # 0
      BY <1>0, HoldersWait DEF Holders
    <3> QED
      BY <3>1, FreeType
  <2>4. CASE s # r
    BY <1>0, <1>3, <2>1, <2>3, <2>4 DEF ReaderFine
  <2> QED
    BY <2>2, <2>4
<1>8. Offered'
  <2>1. \A k \in Keys : pages[k] = f => k = key
    BY <1>0, <1>1, FreeType, FlightAssumption DEF Offered, Live
  <2>2. \A k \in Keys : pages'[k] = IF k = key THEN f ELSE pages[k]
    BY <1>0
  <2>3. \A e \in Flights : flight'[e] = IF e = f THEN g ELSE flight[e]
    BY <1>0
  <2>4. \A e \in Flights : flight[e].at \in Live => flight[e].key \in Keys
    BY FreeType DEF FlightInv, FlightFine, Live
  <2>5. \A k \in Keys : pages'[k] # NoFlight =>
           /\ flight'[pages'[k]].at \in Live /\ flight'[pages'[k]].key = k
           /\ ~flight'[pages'[k]].canceled
    BY <1>0, <1>1, <2>1, <2>2, <2>3 DEF Offered
  <2>6. ASSUME NEW e \in Flights, flight'[e].at \in Live,
               ~flight'[e].canceled
        PROVE  pages'[flight'[e].key] = e
    <3>1. CASE e = f
      BY <1>1, <2>2, <2>3, <3>1
    <3>2. CASE e # f
      <4>1. pages[flight[e].key] = e /\ flight[e].key \in Keys
        BY <1>0, <2>3, <2>4, <2>6, <3>2 DEF Offered
      <4>2. e # NoFlight
        BY FlightAssumption
      <4> QED
        BY <2>2, <2>3, <3>2, <4>1, <4>2
    <3> QED
      BY <3>1, <3>2
  <2> QED
    BY <2>5, <2>6 DEF Offered
<1> QED
  BY <1>4, <1>5, <1>6, <1>7, <1>8 DEF FlightInv

LEMMA JoinStep ==
  ASSUME FlightInv, NEW r \in Readers, Join(r) \/ Launch(r)
  PROVE  FlightInv'
<1>0. /\ Offered /\ flight \in [Flights -> FlightType]
      /\ pages \in [Keys -> Flights \cup {NoFlight}]
      /\ reader[r].at = "missed" /\ reader[r].key \in Keys
  BY FlightTypes DEF FlightInv, ReaderFine, Join, Launch
<1>1. CASE Join(r)
  <2> DEFINE f == pages[reader[r].key]
             g == [flight[f] EXCEPT !.waiters = @ + 1]
  <2>1. /\ f \in Flights /\ f # NoFlight
        /\ flight' = [flight EXCEPT ![f] = g]
        /\ Waits(r, f) /\ pages' = pages
    BY <1>0, <1>1 DEF Join
  <2>2. /\ flight[f].at \in Live /\ flight[f].key = reader[r].key
        /\ ~flight[f].canceled /\ FlightFine(flight[f])
        /\ flight[f] \in FlightType
    BY <1>0, <2>1 DEF Offered, FlightInv
  <2>3. pages' = [pages EXCEPT ![reader[r].key] = f]
    BY <1>0, <2>1
  <2> HIDE DEF f
  <2>4. /\ g \in FlightType /\ g.key = flight[f].key /\ g.at = flight[f].at
        /\ g.waiters = flight[f].waiters + 1 /\ g.result = flight[f].result
    BY <2>2 DEF FlightType
  <2>5. ~g.canceled
    BY <2>2 DEF FlightType
  <2>6. g.result # "canceled"
    BY <2>2, <2>4, FreeType DEF FlightFine, Live
  <2>7. pages[reader[r].key] \in {f, NoFlight}
    BY DEF f
  <2> HIDE DEF g
  <2> QED
    BY <1>0, <2>1, <2>2, <2>3, <2>4, <2>5, <2>6, <2>7, HoldStep
<1>2. CASE Launch(r)
  <2>1. PICK f \in Flights :
           /\ flight[f] = Free
           /\ flight' = [flight EXCEPT ![f].key = reader[r].key,
                                       ![f].at = "queued", ![f].waiters = 1]
           /\ pages' = [pages EXCEPT ![reader[r].key] = f]
           /\ Waits(r, f)
    BY <1>2 DEF Launch
  <2> DEFINE g == [flight[f] EXCEPT !.key = reader[r].key, !.at = "queued",
                                    !.waiters = 1]
  <2>2. flight' = [flight EXCEPT ![f] = g]
    BY <2>1
  <2>3. /\ flight[f] \in FlightType /\ flight[f].waiters = 0
        /\ flight[f].result = "none"
    BY <1>0, <2>1, FreeType DEF Free
  <2>4. ~flight[f].canceled
    BY <2>1, FreeType
  <2>5. /\ g \in FlightType /\ g.key = reader[r].key /\ g.at = "queued"
        /\ g.waiters = 1 /\ g.result = flight[f].result
    BY <1>0, <2>3 DEF FlightType, Stages
  <2>6. ~g.canceled
    BY <2>3, <2>4 DEF FlightType
  <2>7. g.waiters = flight[f].waiters + 1
    BY <2>3, <2>5
  <2>8. pages[reader[r].key] = NoFlight
    BY <1>2 DEF Launch
  <2> HIDE DEF g
  <2> QED
    BY <1>0, <2>1, <2>2, <2>3, <2>5, <2>6, <2>7, <2>8, HoldStep DEF Live
<1> QED
  BY <1>1, <1>2

LEMMA LeaveStep ==
  ASSUME FlightInv, NEW r \in Readers, Leave(r)
  PROVE  FlightInv'
<1> USE FreeType
<1>0. /\ FlightTypeOK /\ Counted /\ Offered
      /\ flight \in [Flights -> FlightType]
      /\ reader \in [Readers -> ReaderType]
      /\ reader[r].at = "leaving"
  BY FlightTypes DEF FlightInv, Leave
<1>1. PICK f \in Flights : f = reader[r].flight
  BY <1>0 DEF FlightInv, ReaderFine
<1> DEFINE last == flight[f].waiters = 1
           h == [flight[f] EXCEPT !.waiters = @ - 1,
                                  !.canceled = @ \/ last]
           g == Collected(h)
<1>2. /\ flight[f] \in FlightType /\ FlightFine(flight[f])
      /\ flight[f].waiters # 0
  <2>1. r \in Holders(f)
    BY <1>1 DEF Holders
  <2> QED
    BY <1>0, <1>1, <2>1, HoldersWait DEF FlightInv
<1>3. /\ flight[f].at # "free" /\ flight[f].key \in Keys
      /\ flight[f].result # "canceled"
  BY <1>2 DEF FlightFine
<1>4. ~flight[f].canceled
  BY <1>2 DEF FlightFine
<1>5. /\ flight' = [flight EXCEPT ![f] = g]
      /\ pages' = IF last THEN Unlisted(f) ELSE pages
      /\ reader' = [reader EXCEPT ![r] = Away]
  BY <1>1 DEF Leave
<1>6. flight[f].waiters - 1 \in Nat /\ (last \in BOOLEAN)
  BY <1>2 DEF FlightType
<1>7. h \in FlightType
  <2>1. (flight[f].canceled \/ last) \in BOOLEAN
    OBVIOUS
  <2> HIDE DEF last
  <2> QED
    BY <1>2, <1>6, <2>1 DEF FlightType
<1>8. /\ h.waiters = flight[f].waiters - 1 /\ h.key = flight[f].key
      /\ h.at = flight[f].at /\ h.result = flight[f].result
  BY <1>2 DEF FlightType
<1>9. h.canceled <=> last
  BY <1>2, <1>4 DEF FlightType
<1>10. h.waiters = 0 <=> last
  BY <1>2, <1>8 DEF FlightType
<1> HIDE DEF h
<1>11. \/ g = Free /\ last /\ flight[f].at = "closed"
       \/ g = h /\ ~(last /\ flight[f].at = "closed")
  BY <1>8, <1>10 DEF Collected
<1> HIDE DEF g, last
<1>12. g \in FlightType /\ FlightFine(g)
  BY <1>3, <1>7, <1>8, <1>9, <1>10, <1>11 DEF FlightFine
<1>13. /\ g.waiters = flight[f].waiters - 1
       /\ ~last => g = h
  BY <1>8, <1>10, <1>11
<1>14. FlightTypeOK'
  <2>1. pages' \in [Keys -> Flights \cup {NoFlight}]
    BY <1>0, <1>5 DEF FlightTypeOK, Unlisted
  <2>2. flight' \in [Flights -> FlightType]
    BY <1>0, <1>5, <1>12
  <2>3. reader' \in [Readers -> ReaderType]
    BY <1>0, <1>5
  <2> QED
    BY <2>1, <2>2, <2>3 DEF FlightTypeOK, FlightType, ReaderType
<1>15. Counted'
  <2>1. \A e \in Flights : e # f => Holders(e)' = Holders(e)
    BY <1>0, <1>1, <1>5, FlightAssumption DEF Holders
  <2>2. Holders(f)' = Holders(f) \ {r} /\ r \in Holders(f)
    BY <1>0, <1>1, <1>5, FlightAssumption DEF Holders
  <2>3. Cardinality(Holders(f)') = Cardinality(Holders(f)) - 1
    <3>1. Holders(f) \in SUBSET Readers
      BY DEF Holders
    <3> QED
      BY <2>2, <3>1, HoldersCount
  <2> QED
    BY <1>0, <1>1, <1>5, <1>13, <2>1, <2>3 DEF Counted
<1>16. \A e \in Flights : FlightFine(flight'[e])
  BY <1>0, <1>5, <1>12 DEF FlightInv
<1>17. \A s \in Readers : ReaderFine(s)'
  <2> SUFFICES ASSUME NEW s \in Readers PROVE ReaderFine(s)'
    OBVIOUS
  <2>1. ReaderFine(s)
    BY DEF FlightInv
  <2>2. CASE s = r
    BY <1>0, <1>5, <2>2 DEF ReaderFine
  <2>3. CASE s # r /\ reader[s].flight = f
    <3>1. Holders(f)' # {}
      BY <1>0, <1>5, <2>3 DEF Holders
    <3>2. flight'[f].waiters # 0
      <4>1. Holders(f)' \in SUBSET Readers
        BY DEF Holders
      <4> QED
        BY <1>1, <1>15, <3>1, <4>1, HoldersCount DEF Counted
    <3>3. flight'[f].key = flight[f].key
      BY <1>0, <1>1, <1>5, <1>8, <1>11, <3>2
    <3> QED
      BY <1>0, <1>1, <1>5, <2>1, <2>3, <3>3 DEF ReaderFine
  <2>4. CASE s # r /\ reader[s].flight # f
    BY <1>0, <1>5, <2>1, <2>4 DEF ReaderFine
  <2> QED
    BY <2>2, <2>3, <2>4
<1>18. Offered'
  <2>1. \A e \in Flights : flight'[e] = IF e = f THEN g ELSE flight[e]
    BY <1>0, <1>5
  <2>2. CASE last
    <3>1. \A k \in Keys : pages'[k] = IF pages[k] = f THEN NoFlight ELSE pages[k]
      BY <1>5, <2>2 DEF Unlisted
    <3>2. g.at \notin Live \/ g.canceled
      BY <1>8, <1>9, <1>11, <2>2 DEF Live
    <3>3. \A k \in Keys : pages[k] \in Flights \cup {NoFlight}
      BY <1>0 DEF FlightTypeOK
    <3>4. \A e \in Flights : flight[e].at \in Live => flight[e].key \in Keys
      BY FreeType DEF FlightInv, FlightFine, Live
    <3> QED
      BY <1>0, <2>1, <3>1, <3>2, <3>3, <3>4, FlightAssumption DEF Offered
  <2>3. CASE ~last
    <3>1. pages' = pages /\ g.at = flight[f].at /\ g.key = flight[f].key
      BY <1>5, <1>8, <1>13, <2>3
    <3>2. ~g.canceled
      BY <1>9, <1>13, <2>3
    <3> QED
      BY <1>0, <1>1, <1>4, <2>1, <3>1, <3>2, FlightAssumption
      DEF Offered, FlightTypeOK
  <2> QED
    BY <2>2, <2>3
<1> QED
  BY <1>14, <1>15, <1>16, <1>17, <1>18 DEF FlightInv

LEMMA FlightStepInv == FlightInv /\ [FlightNext]_flightVars => FlightInv'
<1> SUFFICES ASSUME FlightInv, [FlightNext]_flightVars PROVE FlightInv'
  OBVIOUS
<1>1. ASSUME NEW r \in Readers,
             Answering(r) \/ HangUp(r) \/ \E k \in Keys : Ask(r, k)
      PROVE  FlightInv'
  BY <1>1, AskStep, JoinStep, LeaveStep DEF Answering
<1>2. ASSUME NEW f \in Flights, Fetching(f) \/ Expire(f) PROVE FlightInv'
  BY <1>2, FetchingStep, CloseStep
<1>3. CASE UNCHANGED flightVars
  BY <1>3
  DEF flightVars, FlightInv, FlightTypeOK, Counted, Holders, ReaderFine, Offered
<1> QED
  BY <1>1, <1>2, <1>3 DEF FlightNext

LEMMA FlightInvariance == FlightSpec => []FlightInv
BY FlightInitInv, FlightStepInv, PTL DEF FlightSpec

\* Flights, readers and the map of pages keep their types; the counter of the
\* readers of a flight does not go below zero.
THEOREM FlightTypeCorrect == FlightSpec => []FlightTypeOK
<1>1. FlightInv => FlightTypeOK
  BY DEF FlightInv
<1> QED
  BY FlightInvariance, <1>1, PTL

\* fetchPage: readers of a page share its flight, and nobody who waits is
\* left with a flight that was canceled, that the map does not offer, or that
\* is for another page; for every number of readers, pages and slots.
THEOREM FlightShared == FlightSpec => []FetchIsShared
<1>1. FlightInv => FetchIsShared
  <2> SUFFICES ASSUME FlightInv PROVE FetchIsShared
    OBVIOUS
  <2>1. ASSUME NEW f \in Flights, flight[f].at # "free"
        PROVE  /\ flight[f].canceled <=> Holders(f) = {}
               /\ flight[f].at # "closed" /\ ~flight[f].canceled =>
                     pages[flight[f].key] = f
    <3>1. flight[f].canceled <=> flight[f].waiters = 0
      BY <2>1 DEF FlightInv, FlightFine
    <3>2. flight[f].waiters = 0 <=> Holders(f) = {}
      BY HoldersWait DEF FlightInv
    <3>3. flight[f].at \in Stages
      BY FlightTypes DEF FlightInv, FlightType
    <3>4. flight[f].at # "closed" => flight[f].at \in Live
      BY <2>1, <3>3 DEF Stages, Live
    <3> QED
      BY <3>1, <3>2, <3>4 DEF FlightInv, Offered
  <2>2. ASSUME NEW r \in Readers, reader[r].flight # NoFlight
        PROVE  /\ flight[reader[r].flight].key = reader[r].key
               /\ reader[r].answer # "canceled"
    <3>1. ReaderFine(r) /\ reader[r] \in ReaderType
      BY FlightTypes DEF FlightInv
    <3> QED
      BY <2>2, <3>1 DEF ReaderFine, ReaderType
  <2> QED
    BY <2>1, <2>2 DEF FetchIsShared
<1> QED
  BY FlightInvariance, <1>1, PTL

-----------------------------------------------------------------------------
(* PageList: induction, and what FlattenSeq does.                          *)

\* A set of numbers that is not empty has a least one.
LEMMA LeastNat ==
  ASSUME NEW T, T \subseteq Nat, T # {}
  PROVE  \E m \in T : \A k \in T : m <= k
<1>1. PICK m \in T : \A k \in T : <<k, m>> \notin OpToRel(<, Nat)
  BY WFMin, NatLessThanWellFounded, Zenon
<1>2. ASSUME NEW k \in T PROVE ~(k < m)
  BY <1>1, Zenon DEF OpToRel
<1> QED
  BY <1>2

\* Natural induction, over a set.
LEMMA UpTo ==
  ASSUME NEW n \in Nat, NEW S, 0 \in S,
         \A k \in Nat : k < n /\ k \in S => k + 1 \in S
  PROVE  0..n \subseteq S
<1> DEFINE T == (0..n) \ S
<1>1. SUFFICES ASSUME T # {} PROVE FALSE
  OBVIOUS
<1>2. PICK m \in T : \A k \in T : m <= k
  <2>1. T \subseteq Nat
    OBVIOUS
  <2> HIDE DEF T
  <2> QED
    BY <1>1, <2>1, LeastNat
<1>3. m # 0 /\ m - 1 \in Nat /\ m - 1 < n /\ m - 1 \in 0..n /\ ~(m <= m - 1)
  BY <1>2
<1>4. m - 1 \in S
  BY <1>2, <1>3
<1>5. m \in S
  BY <1>2, <1>3, <1>4
<1> QED
  BY <1>5

\* What FlattenSeq computes, for every sequence of sequences: f has the first
\* i of them, one behind the other.
Joins(f, seqs, n) ==
    /\ FlattenSeq(seqs) = f[n]
    /\ f[1] = seqs[1]
    /\ \A i \in 1..(n - 1) : f[i + 1] = f[i] \o seqs[i + 1]

LEMMA Flattened ==
  ASSUME NEW n \in Nat, n # 0, NEW T, NEW seqs \in [1..n -> T]
  PROVE  \E f : Joins(f, seqs, n)
<1> DEFINE Rec(f, k) == f = [i \in 1..k |-> IF i = 1 THEN seqs[i]
                                          ELSE f[i - 1] \o seqs[i]]
           S == {k \in 0..n : \E f : Rec(f, k)}
<1>1. 0 \in S
  <2>1. \E f : Rec(f, 0)
    <3>1. Rec([i \in 1..0 |-> 0], 0)
      OBVIOUS
    <3> HIDE DEF Rec
    <3> QED
      BY <3>1
  <2> HIDE DEF Rec
  <2> QED
    BY <2>1
<1>2. ASSUME NEW k \in Nat, k < n, k \in S PROVE k + 1 \in S
  <2>1. PICK f : Rec(f, k)
    BY <1>2
  <2> DEFINE g == [i \in 1..(k + 1) |->
                     IF i = k + 1
                     THEN IF i = 1 THEN seqs[i] ELSE f[k] \o seqs[i]
                     ELSE f[i]]
  <2>2. Rec(g, k + 1)
    <3>1. ASSUME NEW i \in 1..(k + 1)
          PROVE  g[i] = IF i = 1 THEN seqs[i] ELSE g[i - 1] \o seqs[i]
      <4>1. CASE i = k + 1
        <5>1. k # 0 => g[k] = f[k] /\ k \in 1..(k + 1) /\ i - 1 = k
          BY <4>1
        <5> QED
          BY <4>1, <5>1
      <4>2. CASE i # k + 1
        <5>1. i \in 1..k /\ g[i] = f[i]
          BY <4>2
        <5>2. f[i] = IF i = 1 THEN seqs[i] ELSE f[i - 1] \o seqs[i]
          <6> HIDE DEF g
          <6> QED
            BY <2>1, <5>1
        <5>3. i # 1 => g[i - 1] = f[i - 1]
          BY <5>1
        <5> HIDE DEF g
        <5> QED
          BY <5>1, <5>2, <5>3
      <4> QED
        BY <4>1, <4>2
    <3>2. g = [i \in 1..(k + 1) |-> g[i]]
      OBVIOUS
    <3> HIDE DEF g
    <3> QED
      BY <3>1, <3>2
  <2>3. k + 1 \in 0..n
    BY <1>2
  <2> HIDE DEF Rec, g
  <2> QED
    BY <2>2, <2>3
<1>3. \E f : Rec(f, n)
  <2>1. n \in S
    <3> HIDE DEF S
    <3>1. 0..n \subseteq S
      BY <1>1, <1>2, UpTo, Zenon
    <3> QED
      BY <3>1
  <2> QED
    BY <2>1
<1> DEFINE f == CHOOSE f : Rec(f, n)
<1>4. Rec(f, n)
  <2> HIDE DEF Rec
  <2> QED
    BY <1>3
<1>5. FlattenSeq(seqs) = f[n]
  <2>1. Len(seqs) = n
    <3>1. seqs = [i \in 1..n |-> seqs[i]]
      OBVIOUS
    <3> QED
      BY <3>1
  <2> QED
    BY <2>1 DEF FlattenSeq
<1> HIDE DEF f
<1>6. f[1] = seqs[1] /\ \A i \in 1..(n - 1) : f[i + 1] = f[i] \o seqs[i + 1]
  <2>1. ASSUME NEW i \in 1..n
        PROVE  f[i] = IF i = 1 THEN seqs[i] ELSE f[i - 1] \o seqs[i]
    BY <1>4
  <2>2. ASSUME NEW i \in 1..(n - 1) PROVE f[i + 1] = f[i] \o seqs[i + 1]
    <3>1. i + 1 \in 1..n /\ i + 1 # 1 /\ (i + 1) - 1 = i
      OBVIOUS
    <3>2. f[i + 1] = f[(i + 1) - 1] \o seqs[i + 1]
      BY <2>1, <3>1
    <3> QED
      BY <3>1, <3>2
  <2>3. f[1] = seqs[1]
    BY <2>1
  <2> QED
    BY <2>2, <2>3
<1> QED
  BY <1>5, <1>6 DEF Joins
-----------------------------------------------------------------------------
(* The invariant.                                                          *)

Lists == Seq(Nat)
ListerType ==
    [at : {"idle", "resolving", "with", "without", "looking", "asking",
           "collecting", "keeping", "ok", "failed", "missing"},
     total : Nat, waiting : SUBSET Nat, reading : SUBSET (Nat \X Lists),
     parts : Seq(Nat \X Lists), failed : BOOLEAN, known : BOOLEAN,
     list : Lists \cup {NoList}, shown : SUBSET Nat]

\* The numbers of a list rise, but for those that are 0.
Climbs(list) ==
    \A i, j \in DOMAIN list :
        i < j /\ list[i] # 0 /\ list[j] # 0 => list[i] < list[j]

\* A part has images of its own, in their order.
PartFine(part) ==
    LET p == part[1]
        docs == part[2]
        before == (p - 1) * PartSize
    IN  /\ p \in Nat \ {0} /\ docs \in Lists
        /\ \A i \in DOMAIN docs :
              docs[i] # 0 => before < docs[i] /\ docs[i] <= before + PartSize
        /\ Climbs(docs)

\* So many parts have that many images.
PartsFor(n, total) ==
    /\ n \in Nat \ {0}
    /\ n = 1 \/ (n - 1) * PartSize < total
    /\ total <= n * PartSize

Numbers(parts) == {parts[i][1] : i \in DOMAIN parts}
NumbersOf(reading) == {part[1] : part \in reading}
Arrived(parts) == UNION {ToSet(parts[i][2]) : i \in DOMAIN parts}
Coming(reading) == UNION {ToSet(part[2]) : part \in reading}

(* Each part is waited for, read or there, once; and together they have    *)
(* what upstream answered.                                                 *)
Spread(c) ==
    /\ \A i \in DOMAIN c.parts : PartFine(c.parts[i])
    /\ \A part \in c.reading : PartFine(part)
    /\ \A i, j \in DOMAIN c.parts : c.parts[i][1] = c.parts[j][1] => i = j
    /\ \A a, b \in c.reading : a[1] = b[1] => a = b
    /\ Numbers(c.parts) \cap NumbersOf(c.reading) = {}
    /\ c.waiting \cap (Numbers(c.parts) \cup NumbersOf(c.reading)) = {}
    /\ \E n \in Nat \ {0} :
          c.waiting \cup Numbers(c.parts) \cup NumbersOf(c.reading) = 1..n
    /\ c.shown = Arrived(c.parts) \cup Coming(c.reading)

\* A list that may be served.
GoodList(list) ==
    /\ list \in Lists /\ Rising(list) /\ ToSet(list) \subseteq 1..images
    /\ service = "jm" => list # <<>>

ListerFine(c) ==
    /\ c \in ListerType
    /\ c.waiting \subseteq 2..MaxImages
    /\ IsFiniteSet(c.reading) /\ Cardinality(c.reading) <= PartSlots
    /\ c.known => published
    /\ c.at \in {"without", "missing"} => ~c.known
    /\ c.at \in {"keeping", "ok"} =>
          /\ GoodList(c.list) /\ c.shown = ToSet(c.list)
          /\ c.total > 0 => Len(c.list) = c.total
    /\ c.at = "collecting" =>
          /\ service = "pica" /\ c.shown \subseteq 0..images
          /\ c.failed \/ Spread(c)
    /\ c.at # "collecting" => c.waiting = {} /\ c.reading = {}

UpstreamFine ==
    /\ service \in {"pica", "jm"}
    /\ images \in 0..MaxImages
    /\ unready \subseteq 1..images /\ published \in BOOLEAN

KeptFine ==
    /\ chapters \in {"unknown", "with", "without"}
    /\ kept # NoList => GoodList(kept)

ListInv ==
    /\ UpstreamFine /\ KeptFine
    /\ lister = [l \in Listers |-> lister[l]]
    /\ \A l \in Listers : ListerFine(lister[l])

-----------------------------------------------------------------------------
(* The parts of a list.                                                    *)

LEMMA SizeType ==
  /\ PartSize \in Nat /\ PartSize # 0 /\ PartSlots \in Nat
  /\ MaxImages \in Nat /\ MaxImages # 0
BY ListAssumption

LEMMA TwoOf ==
  ASSUME NEW a \in Nat, NEW b \in Nat
  PROVE  /\ Min({a, b}) = IF a <= b THEN a ELSE b
         /\ Max({a, b}) = IF a <= b THEN b ELSE a
BY DEF Min, Max

LEMMA Quotients ==
  ASSUME NEW h \in Nat, NEW n \in Nat, n # 0
  PROVE  /\ h \div n \in Nat /\ h % n \in Nat
         /\ h = n * (h \div n) + (h % n) /\ h % n < n
BY Z3

LEMMA CountParts == UpstreamFine => PartsFor(PartCount, images)
<1> SUFFICES ASSUME UpstreamFine PROVE PartsFor(PartCount, images)
  OBVIOUS
<1>1. images \in Nat /\ PartSize \in Nat /\ PartSize # 0
  BY SizeType DEF UpstreamFine
<1>2. PICK q \in Nat : q = (images + PartSize - 1) \div PartSize
  BY <1>1, Quotients
<1>3. PICK w \in Nat : w = PartSize * q /\ images <= w /\ w < images + PartSize
  <2>1. PICK h \in Nat : h = images + PartSize - 1
    BY <1>1
  <2>2. PICK r \in Nat : h = PartSize * q + r /\ r < PartSize
    BY <1>1, <1>2, <2>1, Quotients
  <2>3. PartSize * q \in Nat
    BY <1>1
  <2> QED
    BY <1>1, <2>1, <2>2, <2>3
<1>4. PartCount = IF 1 <= q THEN q ELSE 1
  BY <1>2, TwoOf DEF PartCount
<1>5. CASE q = 0
  <2>1. w = 0
    BY <1>1, <1>3, <1>5
  <2>2. images = 0 /\ PartCount = 1
    BY <1>1, <1>3, <1>4, <1>5, <2>1
  <2> QED
    BY <1>1, <2>2 DEF PartsFor
<1>6. CASE q # 0
  <2>1. PartCount = q /\ q * PartSize = w /\ (q - 1) * PartSize = w - PartSize
    <3>1. q * PartSize = PartSize * q /\ (q - 1) * PartSize = q * PartSize - PartSize
      BY <1>1
    <3> QED
      BY <1>3, <1>4, <1>6, <3>1
  <2> QED
    BY <1>1, <1>3, <1>6, <2>1 DEF PartsFor
<1> QED
  BY <1>5, <1>6

\* No chapter has more parts than images.
LEMMA FewParts ==
  ASSUME NEW n \in Nat, NEW total \in Nat, PartsFor(n, total), n >= 2
  PROVE  n <= total
<1>1. (n - 1) * PartSize >= n - 1
  BY SizeType, Z3
<1>2. (n - 1) * PartSize < total /\ (n - 1) * PartSize \in Nat
  BY SizeType DEF PartsFor
<1> QED
  BY <1>1, <1>2

\* The images of a part lie between those of the parts around it.
LEMMA PartBounds ==
  ASSUME UpstreamFine, NEW p \in Nat, p # 0
  PROVE  /\ IsFiniteSet(ImagesOf(p)) /\ ImagesOf(p) \subseteq 1..images
         /\ \A x \in ImagesOf(p) : /\ x \in Nat /\ (p - 1) * PartSize < x
                                   /\ x <= (p - 1) * PartSize + PartSize
<1>1. images \in Nat /\ PartSize \in Nat
  BY SizeType DEF UpstreamFine
<1>2. PICK b \in Nat : b = (p - 1) * PartSize /\ p * PartSize = b + PartSize
  <2>1. (p - 1) * PartSize \in Nat
    BY <1>1
  <2>2. p * PartSize = (p - 1) * PartSize + PartSize
    BY <1>1
  <2> QED
    BY <2>1, <2>2
<1>3. PICK to \in Nat : /\ to = Min({p * PartSize, images})
                        /\ to <= b + PartSize /\ to <= images
  BY <1>1, <1>2, TwoOf
<1>4. ImagesOf(p) = (b + 1)..to
  BY <1>2, <1>3 DEF ImagesOf
<1>5. b + 1 \in Int /\ to \in Int
  BY <1>2, <1>3
<1>6. IsFiniteSet(ImagesOf(p))
  BY <1>4, <1>5, FS_Interval
<1>7. \A x \in ImagesOf(p) : /\ x \in Nat /\ b < x /\ x <= b + PartSize
                             /\ x \in 1..images
  BY <1>1, <1>2, <1>3, <1>4
<1> QED
  BY <1>2, <1>6, <1>7

\* What upstream answers for a part.
LEMMA PartGiven ==
  ASSUME UpstreamFine, NEW p \in Nat, p # 0, NEW docs \in Docs(p)
  PROVE  /\ Addressed(docs) \in Lists
         /\ PartFine(<<p, Addressed(docs)>>)
         /\ ToSet(Addressed(docs)) \subseteq 0..images
<1>1. PICK S \in SUBSET ImagesOf(p) : docs \in InTurn(S)
  BY DEF Docs
<1>2. PICK n \in Nat : docs \in [1..n -> S] /\ Rising(docs)
  <2>1. IsFiniteSet(S)
    BY PartBounds, FS_Subset
  <2>2. Cardinality(S) \in Nat
    BY <2>1, FS_CardinalityType
  <2> QED
    BY <1>1, <2>2 DEF InTurn
<1>3. PICK b \in Int : b = (p - 1) * PartSize
  BY SizeType
<1>4. \A i \in 1..n : /\ docs[i] \in Nat /\ docs[i] \in 1..images
                      /\ b < docs[i] /\ docs[i] <= b + PartSize
  BY <1>2, <1>3, PartBounds
<1> DEFINE e == Addressed(docs)
<1>5. e = [i \in 1..n |-> IF docs[i] \in unready THEN 0 ELSE docs[i]]
  BY <1>2 DEF Addressed
<1> HIDE DEF e
<1>6. DOMAIN e = 1..n /\ \A i \in 1..n : e[i] = 0 \/ e[i] = docs[i]
  BY <1>5
<1>7. e \in [1..n -> Nat]
  BY <1>4, <1>5
<1>8. e \in Lists
  BY <1>7 DEF Lists
<1>9. Climbs(e)
  BY <1>2, <1>4, <1>6 DEF Climbs, Rising
<1>10. \A i \in DOMAIN e : e[i] # 0 => b < e[i] /\ e[i] <= b + PartSize
  BY <1>4, <1>6
<1>11. PartFine(<<p, e>>)
  BY <1>3, <1>8, <1>9, <1>10 DEF PartFine
<1>12. ToSet(e) \subseteq 0..images
  <2>1. images \in Nat
    BY DEF UpstreamFine
  <2> QED
    BY <1>4, <1>6, <2>1 DEF ToSet
<1> QED
  BY <1>8, <1>11, <1>12 DEF e

-----------------------------------------------------------------------------
(* The parts, put together.                                                *)

\* Among parts with the numbers 1 to n, the place of a part is its number.
LEMMA PlaceIsNumber ==
  ASSUME NEW all, NEW n \in Nat,
         \A q \in all : q[1] \in 1..n,
         \A k \in 1..n : \E q \in all : q[1] = k,
         \A q, r \in all : q[1] = r[1] => q = r,
         NEW part \in all
  PROVE  Cardinality({q \in all : q[1] <= part[1]}) = part[1]
<1> DEFINE T == {q \in all : q[1] <= part[1]}
           g == [k \in 1..part[1] |-> CHOOSE q \in all : q[1] = k]
<1>1. part[1] \in Nat /\ part[1] <= n
  OBVIOUS
<1>2. ASSUME NEW k \in 1..part[1] PROVE g[k] \in T /\ g[k][1] = k
  <2>1. k \in 1..n
    BY <1>1
  <2>2. g[k] \in all /\ g[k][1] = k
    BY <2>1
  <2> QED
    BY <1>1, <2>2
<1>3. ASSUME NEW q \in T PROVE q[1] \in 1..part[1] /\ g[q[1]] = q
  <2>1. q \in all /\ q[1] \in 1..part[1]
    BY <1>1
  <2>2. g[q[1]] \in all /\ g[q[1]][1] = q[1]
    BY <2>1, <1>2
  <2> QED
    BY <2>1, <2>2
<1>4. g \in Bijection(1..part[1], T)
  <2>1. g \in [1..part[1] -> T]
    <3> g = [k \in 1..part[1] |-> g[k]]
      OBVIOUS
    <3> HIDE DEF g, T
    <3> QED
      BY <1>2
  <2> HIDE DEF g, T
  <2>2. IsInjective(g)
    BY <1>2, <2>1 DEF IsInjective
  <2>3. \A t \in T : \E k \in 1..part[1] : g[k] = t
    BY <1>3
  <2> QED
    BY <2>1, <2>2, <2>3 DEF Bijection, Injection, Surjection
<1>5. ExistsBijection(1..part[1], T)
  <2> HIDE DEF g, T
  <2> QED
    BY <1>4 DEF ExistsBijection
<1> HIDE DEF g, T
<1>6. Cardinality(T) = part[1]
  BY <1>1, <1>5, FS_CountingElements
<1> QED
  BY <1>6 DEF T

\* InOrder puts the parts 1 to n one behind the other.
LEMMA Ordered ==
  ASSUME NEW parts \in Seq(Nat \X Lists), NEW n \in Nat,
         Numbers(parts) = 1..n,
         \A i, j \in DOMAIN parts : parts[i][1] = parts[j][1] => i = j
  PROVE  \E docs : /\ docs = [k \in 1..n |-> docs[k]]
                   /\ InOrder(parts) = FlattenSeq(docs)
                   /\ \A k \in 1..n :
                         \E i \in DOMAIN parts : parts[i] = <<k, docs[k]>>
<1> DEFINE all == ToSet(parts)
           Place(part) == Cardinality({q \in all : q[1] <= part[1]})
           At(k) == CHOOSE part \in all : Place(part) = k
           docs == [k \in 1..n |-> At(k)[2]]
<1>1. all = {parts[i] : i \in DOMAIN parts}
  BY DEF ToSet
<1>2. \A q \in all : q[1] \in 1..n
  BY <1>1 DEF Numbers
<1>3. \A k \in 1..n : \E q \in all : q[1] = k
  BY <1>1 DEF Numbers
<1>4. \A q, r \in all : q[1] = r[1] => q = r
  BY <1>1
<1>5. \A q \in all : Place(q) = q[1]
  <2> HIDE DEF all
  <2> QED
    BY <1>2, <1>3, <1>4, PlaceIsNumber
<1> HIDE DEF Place
<1>6. ASSUME NEW k \in 1..n PROVE At(k) \in all /\ At(k)[1] = k
  <2>1. \E q \in all : Place(q) = k
    BY <1>3, <1>5
  <2>2. At(k) \in all /\ Place(At(k)) = k
    BY <2>1
  <2> QED
    BY <1>5, <2>2
<1>7. Len(parts) = n /\ DOMAIN parts = 1..n
  <2> DEFINE g == [i \in 1..Len(parts) |-> parts[i][1]]
  <2>1. Len(parts) \in Nat /\ DOMAIN parts = 1..Len(parts)
    OBVIOUS
  <2>2. g \in [1..Len(parts) -> 1..n]
    BY <2>1 DEF Numbers
  <2>3. IsInjective(g)
    BY <2>1 DEF IsInjective
  <2>4. \A k \in 1..n : \E i \in 1..Len(parts) : g[i] = k
    BY <2>1 DEF Numbers
  <2>5. g \in Bijection(1..Len(parts), 1..n)
    <3> HIDE DEF g
    <3> QED
      BY <2>2, <2>3, <2>4 DEF Bijection, Injection, Surjection
  <2>6. ExistsBijection(1..Len(parts), 1..n)
    <3> HIDE DEF g
    <3> QED
      BY <2>5 DEF ExistsBijection
  <2>7. ExistsBijection(1..n, 1..n)
    BY Fun_ExistsBijReflexive
  <2>8. Len(parts) = n
    BY <2>1, <2>6, <2>7, Fun_NatBijSame
  <2> QED
    BY <2>1, <2>8
<1>8. InOrder(parts) = FlattenSeq(docs)
  BY <1>7 DEF InOrder, Place
<1>9. ASSUME NEW k \in 1..n
      PROVE  \E i \in DOMAIN parts : parts[i] = <<k, docs[k]>>
  <2>1. PICK i \in DOMAIN parts : parts[i] = At(k)
    BY <1>1, <1>6
  <2>2. parts[i] \in Nat \X Lists
    OBVIOUS
  <2>3. parts[i] = <<parts[i][1], parts[i][2]>>
    BY <2>2
  <2>4. docs[k] = At(k)[2]
    OBVIOUS
  <2> HIDE DEF At, docs
  <2> QED
    BY <1>6, <2>1, <2>3, <2>4
<1>10. docs = [k \in 1..n |-> docs[k]]
  OBVIOUS
<1> HIDE DEF docs
<1> QED
  BY <1>8, <1>9, <1>10

(* The first k parts, put together: their images, in their order, and none *)
(* of a later part.                                                        *)
Put(docs, list, k) ==
    /\ list \in Lists /\ Climbs(list)
    /\ \A i \in DOMAIN list : list[i] # 0 => list[i] <= k * PartSize
    /\ ToSet(list) = UNION {ToSet(docs[j]) : j \in 1..k}

LEMMA NothingPut == ASSUME NEW docs PROVE Put(docs, <<>>, 0)
<1>1. <<>> \in Lists /\ DOMAIN <<>> = {}
  BY DEF Lists
<1>2. ToSet(<<>>) = {} /\ 1..0 = {}
  BY DEF ToSet
<1> QED
  BY <1>1, <1>2 DEF Put, Climbs

\* What two lists have, put one behind the other.
LEMMA ToSetOfBoth ==
  ASSUME NEW a \in Lists, NEW b \in Lists
  PROVE  /\ a \o b \in Lists
         /\ \A i \in DOMAIN (a \o b) :
               \/ i \in DOMAIN a /\ (a \o b)[i] = a[i]
               \/ /\ i - Len(a) \in DOMAIN b /\ i \notin DOMAIN a
                  /\ (a \o b)[i] = b[i - Len(a)]
         /\ ToSet(a \o b) = ToSet(a) \cup ToSet(b)
<1>1. PICK m \in Nat : m = Len(a) /\ DOMAIN a = 1..m
  BY DEF Lists
<1>2. PICK n \in Nat : n = Len(b) /\ DOMAIN b = 1..n
  BY DEF Lists
<1> DEFINE s == a \o b
<1>3. /\ s \in Lists /\ DOMAIN s = 1..(m + n)
      /\ \A i \in 1..(m + n) : s[i] = IF i <= m THEN a[i] ELSE b[i - m]
  BY <1>1, <1>2 DEF Lists
<1> HIDE DEF s
<1>4. ASSUME NEW i \in DOMAIN s
      PROVE  \/ i \in DOMAIN a /\ s[i] = a[i]
             \/ i - m \in DOMAIN b /\ i \notin DOMAIN a /\ s[i] = b[i - m]
  BY <1>1, <1>2, <1>3
<1>5. ASSUME NEW i \in DOMAIN a PROVE i \in DOMAIN s /\ s[i] = a[i]
  BY <1>1, <1>3
<1>6. ASSUME NEW i \in DOMAIN b PROVE i + m \in DOMAIN s /\ s[i + m] = b[i]
  BY <1>1, <1>2, <1>3
<1>7. ToSet(s) = ToSet(a) \cup ToSet(b)
  <2>1. ToSet(s) \subseteq ToSet(a) \cup ToSet(b)
    BY <1>4 DEF ToSet
  <2>2. ToSet(a) \subseteq ToSet(s) /\ ToSet(b) \subseteq ToSet(s)
    BY <1>5, <1>6 DEF ToSet
  <2> QED
    BY <2>1, <2>2
<1> QED
  BY <1>1, <1>3, <1>4, <1>7 DEF s

\* One more part.
LEMMA PutPart ==
  ASSUME NEW docs, NEW list, NEW k \in Nat, Put(docs, list, k),
         PartFine(<<k + 1, docs[k + 1]>>)
  PROVE  Put(docs, list \o docs[k + 1], k + 1)
<1> DEFINE next == docs[k + 1]
<1>1. PICK b \in Nat : b = k * PartSize /\ (k + 1) * PartSize = b + PartSize
  <2>1. k * PartSize \in Nat
    BY SizeType
  <2>2. (k + 1) * PartSize = k * PartSize + PartSize
    BY SizeType
  <2> QED
    BY <2>1, <2>2
<1>2. /\ next \in Lists /\ Climbs(next)
      /\ \A i \in DOMAIN next :
            next[i] # 0 => b < next[i] /\ next[i] <= b + PartSize
  <2>1. (k + 1) - 1 = k
    OBVIOUS
  <2> QED
    BY <1>1, <2>1 DEF PartFine
<1>3. /\ list \in Lists /\ Climbs(list)
      /\ \A i \in DOMAIN list : list[i] # 0 => list[i] <= b
      /\ ToSet(list) = UNION {ToSet(docs[j]) : j \in 1..k}
  BY <1>1 DEF Put
<1>4. ToSet(list) \cup ToSet(next) = UNION {ToSet(docs[j]) : j \in 1..(k + 1)}
  <2>1. 1..(k + 1) = (1..k) \cup {k + 1}
    OBVIOUS
  <2> QED
    BY <1>3, <2>1
<1> HIDE DEF next
<1> DEFINE s == list \o next
           m == Len(list)
<1>5. /\ s \in Lists /\ ToSet(s) = ToSet(list) \cup ToSet(next)
      /\ \A i \in DOMAIN s :
            \/ i \in DOMAIN list /\ s[i] = list[i]
            \/ i - m \in DOMAIN next /\ i \notin DOMAIN list /\ s[i] = next[i - m]
  BY <1>2, <1>3, ToSetOfBoth
<1>6. /\ m \in Nat /\ DOMAIN list = 1..m
      /\ DOMAIN s \subseteq Nat \ {0} /\ DOMAIN next \subseteq Nat
      /\ \A i \in DOMAIN list : list[i] \in Nat
      /\ \A i \in DOMAIN next : next[i] \in Nat
  BY <1>2, <1>3, <1>5 DEF Lists
<1> HIDE DEF s, m
<1>7. Climbs(s)
  <2> SUFFICES ASSUME NEW i \in DOMAIN s, NEW j \in DOMAIN s,
                      i < j, s[i] # 0, s[j] # 0
               PROVE  s[i] < s[j]
    BY DEF Climbs
  <2>1. CASE i \in DOMAIN list /\ j \in DOMAIN list
    BY <1>3, <1>5, <1>6, <2>1 DEF Climbs
  <2>2. CASE i \in DOMAIN list /\ j \notin DOMAIN list
    BY <1>1, <1>2, <1>3, <1>5, <1>6, <2>2
  <2>3. CASE i \notin DOMAIN list /\ j \in DOMAIN list
    BY <1>6, <2>3
  <2>4. CASE i \notin DOMAIN list /\ j \notin DOMAIN list
    <3>1. /\ i - m \in DOMAIN next /\ s[i] = next[i - m]
          /\ j - m \in DOMAIN next /\ s[j] = next[j - m]
          /\ i - m < j - m
      BY <1>5, <1>6, <2>4
    <3> QED
      BY <1>2, <3>1 DEF Climbs
  <2> QED
    BY <2>1, <2>2, <2>3, <2>4
<1>8. ASSUME NEW i \in DOMAIN s, s[i] # 0 PROVE s[i] <= b + PartSize
  <2>1. CASE i \in DOMAIN list /\ s[i] = list[i]
    <3>1. list[i] \in Nat /\ list[i] <= b
      BY <1>3, <1>6, <1>8, <2>1
    <3> QED
      BY <1>1, <2>1, <3>1, SizeType
  <2>2. CASE i - m \in DOMAIN next /\ s[i] = next[i - m]
    BY <1>2, <1>8, <2>2
  <2> QED
    BY <1>5, <2>1, <2>2
<1> QED
  BY <1>1, <1>4, <1>5, <1>7, <1>8 DEF Put, s, next

(* What PartsJoined relies on: when every part is there, the list has      *)
(* their images, in their order.                                           *)
LEMMA JoinedList ==
  ASSUME NEW parts \in Seq(Nat \X Lists), NEW n \in Nat, n # 0,
         Numbers(parts) = 1..n,
         \A i \in DOMAIN parts : PartFine(parts[i]),
         \A i, j \in DOMAIN parts : parts[i][1] = parts[j][1] => i = j
  PROVE  /\ InOrder(parts) \in Lists /\ Climbs(InOrder(parts))
         /\ ToSet(InOrder(parts)) = Arrived(parts)
<1>1. PICK docs : /\ docs = [k \in 1..n |-> docs[k]]
                  /\ InOrder(parts) = FlattenSeq(docs)
                  /\ \A k \in 1..n :
                        \E i \in DOMAIN parts : parts[i] = <<k, docs[k]>>
  BY Ordered
<1>2. ASSUME NEW k \in 1..n
      PROVE  docs[k] \in Seq(Nat) /\ PartFine(<<k, docs[k]>>)
  <2>1. PICK i \in DOMAIN parts : parts[i] = <<k, docs[k]>>
    BY <1>1
  <2>2. parts[i] \in Nat \X Lists
    OBVIOUS
  <2>3. PartFine(<<k, docs[k]>>)
    BY <2>1
  <2> QED
    BY <2>1, <2>2, <2>3 DEF Lists
<1>3. PICK f : Joins(f, docs, n)
  <2>1. docs \in [1..n -> Seq(Nat)]
    BY <1>1, <1>2
  <2>2. n \in Nat \ {0}
    OBVIOUS
  <2> QED
    BY <2>1, <2>2, Flattened
<1>4. /\ FlattenSeq(docs) = f[n]
      /\ f[1] = docs[1]
      /\ \A i \in 1..(n - 1) : f[i + 1] = f[i] \o docs[i + 1]
  BY <1>3 DEF Joins
<1> DEFINE Before(k) == IF k = 0 THEN <<>> ELSE f[k]
           S == {k \in Nat : Put(docs, Before(k), k)}
<1>5. ASSUME NEW k \in Nat, k < n
      PROVE  /\ PartFine(<<k + 1, docs[k + 1]>>)
             /\ Before(k + 1) = Before(k) \o docs[k + 1]
  <2>1. k + 1 \in 1..n
    BY <1>5
  <2>2. docs[k + 1] \in Seq(Nat) /\ PartFine(<<k + 1, docs[k + 1]>>)
    BY <1>2, <2>1
  <2>3. CASE k = 0
    <3>1. Before(k + 1) = docs[1] /\ Before(k) = <<>> /\ k + 1 = 1
      BY <1>4, <2>3
    <3>2. <<>> \o docs[1] = docs[1]
      BY <2>2, <3>1
    <3> QED
      BY <2>2, <3>1, <3>2
  <2>4. CASE k # 0
    <3>1. Before(k + 1) = f[k + 1] /\ Before(k) = f[k] /\ k \in 1..(n - 1)
      BY <1>5, <2>4
    <3> QED
      BY <1>4, <2>2, <3>1
  <2> QED
    BY <2>3, <2>4
<1>6. Before(0) = <<>> /\ Before(n) = f[n]
  OBVIOUS
<1>7. 0..n \subseteq S
  <2>1. 0 \in S
    BY <1>6, NothingPut
  <2>2. ASSUME NEW k \in Nat, k < n, k \in S PROVE k + 1 \in S
    <3>1. Put(docs, Before(k), k)
      BY <2>2
    <3> HIDE DEF Before
    <3>2. Put(docs, Before(k + 1), k + 1)
      BY <1>5, <2>2, <3>1, PutPart
    <3> QED
      BY <3>2
  <2> HIDE DEF S
  <2> QED
    BY <2>1, <2>2, UpTo
<1>8. Put(docs, f[n], n)
  <2>1. n \in S
    BY <1>7
  <2> QED
    BY <1>6, <2>1
<1>9. UNION {ToSet(docs[j]) : j \in 1..n} = Arrived(parts)
  <2>1. ASSUME NEW j \in 1..n PROVE ToSet(docs[j]) \subseteq Arrived(parts)
    <3>1. PICK i \in DOMAIN parts : parts[i] = <<j, docs[j]>>
      BY <1>1
    <3>2. parts[i][2] = docs[j]
      BY <3>1
    <3> QED
      BY <3>2 DEF Arrived
  <2>2. ASSUME NEW i \in DOMAIN parts
        PROVE  \E j \in 1..n : ToSet(parts[i][2]) = ToSet(docs[j])
    <3>1. PICK j \in 1..n : parts[i][1] = j
      BY DEF Numbers
    <3>2. PICK h \in DOMAIN parts : parts[h] = <<j, docs[j]>>
      BY <1>1
    <3>3. h = i
      BY <3>1, <3>2
    <3> QED
      BY <3>2, <3>3
  <2> QED
    BY <2>1, <2>2 DEF Arrived
<1> QED
  BY <1>1, <1>4, <1>8, <1>9 DEF Put

-----------------------------------------------------------------------------
(* The steps.                                                              *)

LEMMA NoListerFine == ListerFine(NoLister)
<1>1. IsFiniteSet({}) /\ Cardinality({}) = 0
  BY FS_EmptySet
<1>2. NoLister \in ListerType
  BY DEF NoLister, ListerType, Lists
<1> QED
  BY <1>1, <1>2, SizeType DEF ListerFine, NoLister

\* One request has moved on; upstream has not.
LEMMA OneLister ==
  ASSUME ListInv, UNCHANGED upstreamVars, NEW l \in Listers, NEW d,
         lister' = [lister EXCEPT ![l] = d], ListerFine(d), KeptFine'
  PROVE  ListInv'
<1>1. UNCHANGED <<service, images, unready, published>>
  BY DEF upstreamVars
<1>2. UpstreamFine'
  BY <1>1 DEF ListInv, UpstreamFine
<1>3. lister' = [k \in Listers |-> IF k = l THEN d ELSE lister[k]]
  BY DEF ListInv
<1>4. lister' = [k \in Listers |-> lister'[k]]
  BY <1>3
<1>5. ASSUME NEW k \in Listers PROVE ListerFine(lister[k])'
  <2>1. ListerFine(lister'[k])
    BY <1>3 DEF ListInv
  <2> QED
    BY <1>1, <2>1 DEF ListerFine, GoodList
<1> QED
  BY <1>2, <1>4, <1>5 DEF ListInv

\* A request outside the collecting of parts goes on to a place that
\* promises nothing.
LEMMA MovesOn ==
  ASSUME NEW c, ListerFine(c), c.at # "collecting",
         NEW at \in {"idle", "resolving", "with", "without", "looking",
                     "asking", "failed", "missing"},
         at \in {"without", "missing"} => ~c.known
  PROVE  ListerFine([c EXCEPT !.at = at])
<1> DEFINE d == [c EXCEPT !.at = at]
<1>1. c \in ListerType
  BY DEF ListerFine
<1>2. /\ d \in ListerType /\ d.at = at /\ d.known = c.known
      /\ d.waiting = c.waiting /\ d.reading = c.reading
  BY <1>1 DEF ListerType
<1> HIDE DEF d
<1>3. ListerFine(d)
  BY <1>2 DEF ListerFine
<1> QED
  BY <1>3 DEF d

\* The list that a request has gotten, or found.
LEMMA GetsList ==
  ASSUME NEW c, ListerFine(c), c.at # "collecting",
         NEW at \in {"keeping", "ok"}, NEW list, GoodList(list)
  PROVE  ListerFine([c EXCEPT !.at = at, !.list = list, !.total = Len(list),
                              !.shown = ToSet(list)])
<1>1. c \in ListerType
  BY DEF ListerFine
<1>2. PICK n \in Nat : n = Len(list)
  BY DEF GoodList, Lists
<1>3. PICK S \in SUBSET Nat : S = ToSet(list)
  BY DEF GoodList
<1>4. list \in Lists
  BY DEF GoodList
<1> DEFINE e == [c EXCEPT !.at = at, !.list = list]
           d == [e EXCEPT !.total = n, !.shown = S]
<1>5. /\ e \in ListerType /\ e.at = at /\ e.known = c.known /\ e.list = list
      /\ e.waiting = c.waiting /\ e.reading = c.reading
  BY <1>1, <1>4 DEF ListerType
<1>6. [c EXCEPT !.at = at, !.list = list, !.total = Len(list),
                !.shown = ToSet(list)] = d
  BY <1>1, <1>2, <1>3 DEF ListerType
<1> HIDE DEF e
<1>7. /\ d \in ListerType /\ d.at = at /\ d.known = c.known /\ d.list = list
      /\ d.waiting = c.waiting /\ d.reading = c.reading /\ d.total = n
      /\ d.shown = S
  BY <1>5 DEF ListerType
<1> HIDE DEF d
<1>8. ListerFine(d)
  BY <1>2, <1>3, <1>7 DEF ListerFine
<1> QED
  BY <1>6, <1>8

LEMMA ListFacts ==
  ASSUME ListInv, NEW l \in Listers
  PROVE  /\ UpstreamFine /\ KeptFine /\ ListerFine(lister[l])
         /\ lister[l] \in ListerType
         /\ l \in DOMAIN lister
BY DEF ListInv, ListerFine

LEMMA KeptStays ==
  ASSUME KeptFine, UNCHANGED <<chapters, kept, images, service>>
  PROVE  KeptFine'
BY DEF KeptFine, GoodList

LEMMA AskListStep ==
  ASSUME ListInv, NEW l \in Listers, AskList(l), UNCHANGED upstreamVars
  PROVE  ListInv'
<1> USE ListFacts
<1> DEFINE c == lister[l]
           at == IF service = "jm" THEN "resolving" ELSE "looking"
           d == [c EXCEPT !.at = at, !.known = published]
<1>1. lister' = [lister EXCEPT ![l] = d] /\ c.at = "idle"
  BY DEF AskList
<1>2. KeptFine'
  BY KeptStays DEF AskList, upstreamVars
<1>3. /\ d \in ListerType /\ d.at \in {"resolving", "looking"}
      /\ d.known = published
      /\ d.waiting = c.waiting /\ d.reading = c.reading
  BY DEF ListerType, UpstreamFine
<1>4. ListerFine(c)
  OBVIOUS
<1> HIDE DEF d, c
<1>5. ListerFine(d)
  BY <1>1, <1>3, <1>4 DEF ListerFine
<1> QED
  BY <1>1, <1>2, <1>5, OneLister

LEMMA ResolveStep ==
  ASSUME ListInv, NEW l \in Listers, UNCHANGED upstreamVars,
         Resolved(l) \/ AskDetail(l) \/ KeepDetail(l)
  PROVE  ListInv'
<1> USE ListFacts
<1>1. PICK at \in {"with", "without", "looking", "failed", "missing"} :
          /\ lister' = [lister EXCEPT ![l] = [lister[l] EXCEPT !.at = at]]
          /\ lister[l].at # "collecting"
          /\ at \in {"without", "missing"} => ~lister[l].known
  <2>1. CASE Resolved(l)
    BY <2>1 DEF Resolved, Goes
  <2>2. CASE AskDetail(l)
    <3>1. PICK at \in {IF published THEN "with" ELSE "without", "failed"} :
             Goes(l, at)
      BY <2>2 DEF AskDetail
    <3>2. lister[l].known => published
      BY DEF ListerFine
    <3> QED
      BY <2>2, <3>1, <3>2 DEF AskDetail, Goes
  <2>3. CASE KeepDetail(l)
    <3>1. lister[l].at = "without" => ~lister[l].known
      BY DEF ListerFine
    <3> QED
      BY <2>3, <3>1 DEF KeepDetail, Goes
  <2> QED
    BY <2>1, <2>2, <2>3
<1>2. ListerFine([lister[l] EXCEPT !.at = at])
  BY <1>1, MovesOn
<1>3. KeptFine'
  BY DEF Resolved, AskDetail, KeepDetail, KeptFine, GoodList, upstreamVars
<1> QED
  BY <1>1, <1>2, <1>3, OneLister

LEMMA LookUpStep ==
  ASSUME ListInv, NEW l \in Listers, LookUp(l), UNCHANGED upstreamVars
  PROVE  ListInv'
<1> USE ListFacts
<1> DEFINE c == lister[l]
<1>1. c.at = "looking" /\ KeptFine'
  BY KeptStays DEF LookUp, upstreamVars
<1>2. CASE kept # NoList
  <2>1. GoodList(kept)
    BY <1>2 DEF KeptFine
  <2> DEFINE d == [c EXCEPT !.at = "ok", !.list = kept, !.total = Len(kept),
                            !.shown = ToSet(kept)]
  <2>2. lister' = [lister EXCEPT ![l] = d]
    BY <1>2 DEF LookUp
  <2>3. ListerFine(d)
    BY <1>1, <2>1, GetsList
  <2> HIDE DEF d
  <2> QED
    BY <1>1, <2>2, <2>3, OneLister
<1>3. CASE ~(kept # NoList)
  <2> DEFINE d == [c EXCEPT !.at = "asking"]
  <2>1. lister' = [lister EXCEPT ![l] = d]
    BY <1>3 DEF LookUp
  <2>2. ListerFine(d)
    BY <1>1, MovesOn
  <2> HIDE DEF d
  <2> QED
    BY <1>1, <2>1, <2>2, OneLister
<1> QED
  BY <1>2, <1>3

LEMMA JmListStep ==
  ASSUME ListInv, NEW l \in Listers, JmList(l), UNCHANGED upstreamVars
  PROVE  ListInv'
<1> USE ListFacts
<1> DEFINE c == lister[l]
           S == (1..images) \ unready
<1>1. c.at = "asking" /\ KeptFine'
  BY KeptStays DEF JmList, upstreamVars
<1>2. PICK names \in InTurn(S) :
          lister' = [lister EXCEPT ![l] =
              IF names = <<>> THEN [@ EXCEPT !.at = "failed"]
              ELSE [@ EXCEPT !.at = "keeping", !.list = names,
                             !.total = Len(names), !.shown = ToSet(names)]]
  BY DEF JmList
<1>3. /\ names \in Lists /\ Rising(names)
      /\ ToSet(names) \subseteq 1..images
  <2>1. S \subseteq 1..images /\ S \subseteq Nat /\ images \in Nat
    BY DEF UpstreamFine
  <2>2. IsFiniteSet(S)
    <3>1. IsFiniteSet(1..images)
      BY <2>1, FS_Interval
    <3> QED
      BY <2>1, <3>1, FS_Subset
  <2> HIDE DEF S
  <2>3. Cardinality(S) \in Nat
    BY <2>2, FS_CardinalityType
  <2>4. PICK n \in Nat : names \in [1..n -> S] /\ Rising(names)
    BY <2>3 DEF InTurn
  <2>5. names \in [1..n -> Nat]
    BY <2>1, <2>4
  <2> QED
    BY <2>1, <2>4, <2>5 DEF Lists, ToSet
<1> DEFINE d == [c EXCEPT !.at = "keeping", !.list = names,
                          !.total = Len(names), !.shown = ToSet(names)]
           e == [c EXCEPT !.at = "failed"]
<1>4. CASE names = <<>>
  <2>1. lister' = [lister EXCEPT ![l] = e]
    BY <1>2, <1>4
  <2>2. ListerFine(e)
    BY <1>1, MovesOn
  <2> HIDE DEF e
  <2> QED
    BY <1>1, <2>1, <2>2, OneLister
<1>5. CASE names # <<>>
  <2>1. lister' = [lister EXCEPT ![l] = d]
    BY <1>2, <1>5
  <2>2. GoodList(names)
    BY <1>3, <1>5 DEF GoodList
  <2>3. ListerFine(d)
    BY <1>1, <2>2, GetsList
  <2> HIDE DEF d
  <2> QED
    BY <1>1, <2>1, <2>3, OneLister
<1> QED
  BY <1>4, <1>5

\* The first part is there; the others are waited for.
LEMMA FirstPartStep ==
  ASSUME ListInv, NEW l \in Listers, FirstPart(l), UNCHANGED upstreamVars
  PROVE  ListInv'
<1> USE ListFacts
<1> DEFINE c == lister[l]
<1>1. c.at = "asking" /\ service = "pica" /\ KeptFine'
  BY KeptStays DEF FirstPart, upstreamVars
<1>2. PICK docs \in Docs(1), total \in {images, 0} :
          lister' = [lister EXCEPT ![l] =
              [@ EXCEPT !.at = "collecting", !.total = total,
                        !.parts = <<<<1, Addressed(docs)>>>>,
                        !.shown = ToSet(Addressed(docs)),
                        !.waiting = 2..PartCount]]
  BY DEF FirstPart
<1>3. images \in Nat /\ images <= MaxImages /\ MaxImages \in Nat
      /\ total \in Nat
  BY SizeType DEF UpstreamFine
<1>4. PICK n \in Nat : n = PartCount /\ n # 0 /\ PartsFor(n, images)
  BY CountParts DEF PartsFor
<1>5. 2..n \subseteq 2..MaxImages
  BY <1>3, <1>4, FewParts
<1>6. PICK given \in Lists : /\ given = Addressed(docs)
                             /\ PartFine(<<1, given>>)
                             /\ ToSet(given) \subseteq 0..images
  BY PartGiven
<1>7. PICK parts \in Seq(Nat \X Lists) : /\ parts = <<<<1, given>>>>
                                          /\ DOMAIN parts = {1}
                                          /\ parts[1] = <<1, given>>
  <2> DEFINE T == Nat \X Lists
             one == <<1, given>>
  <2>1. one \in T
    OBVIOUS
  <2> HIDE DEF T, one
  <2>2. <<one>> \in Seq(T) /\ DOMAIN <<one>> = {1} /\ <<one>>[1] = one
    BY <2>1
  <2> QED
    BY <2>2, Zenon DEF T, one
<1>8. PICK rest \in SUBSET Nat : rest = 2..n
  OBVIOUS
<1>9. PICK shown \in SUBSET Nat : shown = ToSet(given) /\ shown \subseteq 0..images
  BY <1>6
<1> DEFINE e == [c EXCEPT !.at = "collecting", !.total = total]
           d == [e EXCEPT !.parts = parts, !.shown = shown, !.waiting = rest]
<1>10. lister' = [lister EXCEPT ![l] = d]
  <2>1. c \in ListerType
    OBVIOUS
  <2>2. [c EXCEPT !.at = "collecting", !.total = total, !.parts = parts,
                  !.shown = shown, !.waiting = rest] = d
    BY <2>1 DEF ListerType
  <2>3. lister' = [lister EXCEPT ![l] =
            [c EXCEPT !.at = "collecting", !.total = total, !.parts = parts,
                      !.shown = shown, !.waiting = rest]]
    BY <1>2, <1>4, <1>6, <1>7, <1>8, <1>9
  <2> QED
    BY <2>2, <2>3
<1>11. /\ e \in ListerType /\ e.at = "collecting" /\ e.total = total
       /\ e.known = c.known /\ e.reading = {}
  BY <1>1, <1>3 DEF ListerType, ListerFine
<1> HIDE DEF e
<1>12. /\ d \in ListerType /\ d.at = "collecting" /\ d.total = total
       /\ d.known = c.known /\ d.reading = {} /\ d.parts = parts
       /\ d.waiting = rest /\ d.shown = shown
  BY <1>11 DEF ListerType
<1> HIDE DEF d
<1>13. Numbers(d.parts) = {1} /\ NumbersOf(d.reading) = {}
  BY <1>7, <1>12 DEF Numbers, NumbersOf
<1>14. Spread(d)
  <2>1. d.waiting \cup Numbers(d.parts) \cup NumbersOf(d.reading) = 1..n
    BY <1>4, <1>8, <1>12, <1>13
  <2>2. d.waiting \cap (Numbers(d.parts) \cup NumbersOf(d.reading)) = {}
    BY <1>8, <1>12, <1>13
  <2>3. /\ \A i \in DOMAIN d.parts : PartFine(d.parts[i])
        /\ \A i, j \in DOMAIN d.parts : d.parts[i][1] = d.parts[j][1] => i = j
    BY <1>6, <1>7, <1>12
  <2>4. d.shown = Arrived(d.parts) \cup Coming(d.reading)
    <3>1. Coming(d.reading) = {}
      BY <1>12 DEF Coming
    <3>2. parts[1][2] = given
      BY <1>7
    <3>3. Arrived(parts) = ToSet(given)
      BY <1>7, <3>2 DEF Arrived
    <3> QED
      BY <1>9, <1>12, <3>1, <3>3
  <2> QED
    BY <1>4, <1>12, <1>13, <2>1, <2>2, <2>3, <2>4 DEF Spread
<1>15. IsFiniteSet(d.reading) /\ Cardinality(d.reading) <= PartSlots
  BY <1>12, FS_EmptySet, SizeType
<1>16. d.known => published
  BY <1>12 DEF ListerFine
<1>17. d.waiting \subseteq 2..MaxImages
  BY <1>5, <1>8, <1>12
<1>18. ListerFine(d)
  BY <1>1, <1>9, <1>12, <1>14, <1>15, <1>16, <1>17 DEF ListerFine
<1> QED
  BY <1>1, <1>10, <1>18, OneLister

\* A set that one element leaves, or joins, stays within its bound.
LEMMA OneLess ==
  ASSUME NEW S, IsFiniteSet(S), Cardinality(S) <= PartSlots, NEW x
  PROVE  IsFiniteSet(S \ {x}) /\ Cardinality(S \ {x}) <= PartSlots
<1>1. Cardinality(S) \in Nat
  BY FS_CardinalityType
<1>2. /\ IsFiniteSet(S \ {x})
      /\ Cardinality(S \ {x}) =
            IF x \in S THEN Cardinality(S) - 1 ELSE Cardinality(S)
  BY FS_RemoveElement
<1> QED
  BY <1>1, <1>2, SizeType

LEMMA OneMore ==
  ASSUME NEW S, IsFiniteSet(S), Cardinality(S) < PartSlots, NEW x
  PROVE  IsFiniteSet(S \cup {x}) /\ Cardinality(S \cup {x}) <= PartSlots
<1>1. Cardinality(S) \in Nat
  BY FS_CardinalityType
<1>2. /\ IsFiniteSet(S \cup {x})
      /\ Cardinality(S \cup {x}) =
            IF x \in S THEN Cardinality(S) ELSE Cardinality(S) + 1
  BY FS_AddElement
<1> QED
  BY <1>1, <1>2, SizeType

\* A part that is waited for is read.
LEMMA SpreadRead ==
  ASSUME NEW c \in ListerType, Spread(c), NEW p \in c.waiting, NEW docs,
         PartFine(<<p, docs>>),
         NEW d, d.parts = c.parts, d.shown = c.shown \cup ToSet(docs),
         d.waiting = c.waiting \ {p}, d.reading = c.reading \cup {<<p, docs>>}
  PROVE  Spread(d)
<1>1. p \notin Numbers(c.parts) /\ p \notin NumbersOf(c.reading)
  BY DEF Spread
<1>2. NumbersOf(d.reading) = NumbersOf(c.reading) \cup {p}
  BY DEF NumbersOf
<1>3. \A part \in d.reading : PartFine(part)
  BY DEF Spread
<1>4. ASSUME NEW a \in d.reading, NEW b \in d.reading, a[1] = b[1]
      PROVE  a = b
  <2>1. \A q \in c.reading : q[1] # p
    BY <1>1 DEF NumbersOf
  <2>2. a = <<p, docs>> <=> a[1] = p
    BY <2>1
  <2>3. b = <<p, docs>> <=> b[1] = p
    BY <2>1
  <2> QED
    BY <1>4, <2>2, <2>3 DEF Spread
<1>5. /\ Numbers(d.parts) \cap NumbersOf(d.reading) = {}
      /\ d.waiting \cap (Numbers(d.parts) \cup NumbersOf(d.reading)) = {}
  <2>1. /\ Numbers(c.parts) \cap NumbersOf(c.reading) = {}
        /\ c.waiting \cap (Numbers(c.parts) \cup NumbersOf(c.reading)) = {}
    BY DEF Spread
  <2> QED
    BY <1>1, <1>2, <2>1
<1>6. d.waiting \cup Numbers(d.parts) \cup NumbersOf(d.reading)
        = c.waiting \cup Numbers(c.parts) \cup NumbersOf(c.reading)
  BY <1>2
<1>7. d.shown = Arrived(d.parts) \cup Coming(d.reading)
  <2>1. Coming(d.reading) = Coming(c.reading) \cup ToSet(docs)
    BY DEF Coming
  <2> QED
    BY <2>1 DEF Spread
<1> QED
  BY <1>3, <1>4, <1>5, <1>6, <1>7 DEF Spread

\* A part that was read is there.
LEMMA SpreadArrives ==
  ASSUME NEW c \in ListerType, Spread(c), NEW part \in c.reading,
         NEW d, d.shown = c.shown, d.parts = Append(c.parts, part),
         d.waiting = c.waiting, d.reading = c.reading \ {part}
  PROVE  Spread(d)
<1> DEFINE k == Len(c.parts) + 1
<1>1. /\ c.parts \in Seq(Nat \X Lists) /\ k \in Nat
      /\ DOMAIN c.parts = 1..(k - 1)
  BY DEF ListerType
<1>2. /\ DOMAIN d.parts = 1..k
      /\ d.parts[k] = part
      /\ \A i \in 1..(k - 1) : d.parts[i] = c.parts[i]
  BY <1>1
<1> HIDE DEF k
<1>3. Numbers(d.parts) = Numbers(c.parts) \cup {part[1]}
  <2>1. 1..k = (1..(k - 1)) \cup {k}
    <3>1. k # 0
      BY <1>1 DEF k
    <3> QED
      BY <1>1, <3>1
  <2>2. ASSUME NEW i \in DOMAIN d.parts
        PROVE  d.parts[i][1] \in Numbers(c.parts) \cup {part[1]}
    <3>1. CASE i = k
      BY <1>2, <3>1
    <3>2. CASE i \in 1..(k - 1)
      BY <1>1, <1>2, <3>2 DEF Numbers
    <3> QED
      BY <1>2, <2>1, <3>1, <3>2
  <2>3. ASSUME NEW i \in DOMAIN c.parts
        PROVE  c.parts[i][1] \in Numbers(d.parts)
    <3>1. i \in DOMAIN d.parts /\ d.parts[i] = c.parts[i]
      BY <1>1, <1>2
    <3> QED
      BY <3>1 DEF Numbers
  <2>4. part[1] \in Numbers(d.parts)
    <3>1. k \in DOMAIN d.parts /\ d.parts[k] = part
      BY <1>2, <2>1
    <3> QED
      BY <3>1 DEF Numbers
  <2>5. Numbers(d.parts) \subseteq Numbers(c.parts) \cup {part[1]}
    BY <2>2 DEF Numbers
  <2>6. Numbers(c.parts) \subseteq Numbers(d.parts)
    BY <2>3 DEF Numbers
  <2> QED
    BY <2>4, <2>5, <2>6
<1>4. NumbersOf(d.reading) = NumbersOf(c.reading) \ {part[1]}
  BY DEF NumbersOf, Spread
<1>5. part[1] \in NumbersOf(c.reading)
  BY DEF NumbersOf
<1>6. part[1] \notin Numbers(c.parts)
  BY <1>5 DEF Spread
<1>7. \A i \in DOMAIN d.parts : PartFine(d.parts[i])
  BY <1>1, <1>2 DEF Spread
<1>8. ASSUME NEW i \in DOMAIN d.parts, NEW j \in DOMAIN d.parts,
             d.parts[i][1] = d.parts[j][1]
      PROVE  i = j
  <2>1. \A m \in 1..(k - 1) : d.parts[m][1] # part[1]
    BY <1>1, <1>2, <1>6 DEF Numbers
  <2>2. CASE i = k \/ j = k
    BY <1>1, <1>2, <1>8, <2>1, <2>2
  <2>3. CASE i # k /\ j # k
    <3>1. i \in 1..(k - 1) /\ j \in 1..(k - 1)
      BY <1>1, <1>2, <2>3
    <3>2. c.parts[i][1] = c.parts[j][1]
      BY <1>2, <1>8, <3>1
    <3> QED
      BY <1>1, <3>1, <3>2 DEF Spread
  <2> QED
    BY <2>2, <2>3
<1>9. /\ \A q \in d.reading : PartFine(q)
      /\ \A a, b \in d.reading : a[1] = b[1] => a = b
  BY DEF Spread
<1>10. /\ Numbers(d.parts) \cap NumbersOf(d.reading) = {}
       /\ d.waiting \cap (Numbers(d.parts) \cup NumbersOf(d.reading)) = {}
  <2>1. /\ Numbers(c.parts) \cap NumbersOf(c.reading) = {}
        /\ c.waiting \cap (Numbers(c.parts) \cup NumbersOf(c.reading)) = {}
    BY DEF Spread
  <2> QED
    BY <1>3, <1>4, <1>5, <2>1
<1>11. d.waiting \cup Numbers(d.parts) \cup NumbersOf(d.reading)
         = c.waiting \cup Numbers(c.parts) \cup NumbersOf(c.reading)
  BY <1>3, <1>4, <1>5
<1>12. d.shown = Arrived(d.parts) \cup Coming(d.reading)
  <2>1. Coming(c.reading) = Coming(d.reading) \cup ToSet(part[2])
    BY DEF Coming
  <2>2. Arrived(d.parts) = Arrived(c.parts) \cup ToSet(part[2])
    <3>1. k \in DOMAIN d.parts /\ \A i \in DOMAIN d.parts : i = k \/ i \in 1..(k - 1)
      <4>1. k # 0
        BY <1>1 DEF k
      <4> QED
        BY <1>1, <1>2, <4>1
    <3>2. Arrived(c.parts) \subseteq Arrived(d.parts)
      <4>1. \A i \in DOMAIN c.parts : i \in DOMAIN d.parts /\ d.parts[i] = c.parts[i]
        BY <1>1, <1>2
      <4> QED
        BY <4>1 DEF Arrived
    <3>3. ToSet(part[2]) \subseteq Arrived(d.parts)
      BY <1>2, <3>1 DEF Arrived
    <3>4. ASSUME NEW i \in DOMAIN d.parts
          PROVE  ToSet(d.parts[i][2]) \subseteq Arrived(c.parts) \cup ToSet(part[2])
      <4>1. CASE i = k
        BY <1>2, <4>1
      <4>2. CASE i \in 1..(k - 1)
        BY <1>1, <1>2, <4>2 DEF Arrived
      <4> QED
        BY <3>1, <4>1, <4>2
    <3>5. Arrived(d.parts) \subseteq Arrived(c.parts) \cup ToSet(part[2])
      BY <3>4 DEF Arrived
    <3> QED
      BY <3>2, <3>3, <3>5
  <2> QED
    BY <2>1, <2>2 DEF Spread
<1> QED
  BY <1>7, <1>8, <1>9, <1>10, <1>11, <1>12 DEF Spread

\* A request that collects goes on to collect.
LEMMA StillCollects ==
  ASSUME NEW c, ListerFine(c), NEW d \in ListerType,
         c.at = "collecting", d.at = "collecting",
         d.known = c.known, d.shown \subseteq 0..images,
         d.waiting \subseteq c.waiting,
         IsFiniteSet(d.reading), Cardinality(d.reading) <= PartSlots,
         d.failed \/ Spread(d)
  PROVE  ListerFine(d)
BY DEF ListerFine

LEMMA ReadPartStep ==
  ASSUME ListInv, NEW l \in Listers, NEW p \in lister[l].waiting,
         ReadPart(l, p), UNCHANGED upstreamVars
  PROVE  ListInv'
<1> USE ListFacts
<1> DEFINE c == lister[l]
<1>1. KeptFine'
  BY KeptStays DEF ReadPart, upstreamVars
<1>2. /\ c.at = "collecting" /\ (c.failed \/ Spread(c))
      /\ c.shown \subseteq 0..images
      /\ p \in Nat /\ p # 0
      /\ IsFiniteSet(c.reading) /\ Cardinality(c.reading) \in Nat
      /\ Cardinality(c.reading) < PartSlots
  <2>1. ListerFine(c) /\ c \in ListerType
    OBVIOUS
  <2> QED
    BY <2>1, SizeType, FS_CardinalityType DEF ListerFine, ListerType, ReadPart
<1>3. PICK docs \in Docs(p) : Gets(l, p, docs)
  BY DEF ReadPart
<1>4. PICK given \in Lists : /\ given = Addressed(docs)
                             /\ PartFine(<<p, given>>)
                             /\ ToSet(given) \subseteq 0..images
  BY <1>2, PartGiven
<1> DEFINE waiting == c.waiting \ {p}
           reading == c.reading \cup {<<p, given>>}
           shown == c.shown \cup ToSet(given)
           d == [c EXCEPT !.waiting = waiting, !.reading = reading,
                          !.shown = shown]
<1>5. lister' = [lister EXCEPT ![l] = d]
  BY <1>3, <1>4 DEF Gets
<1>6. IsFiniteSet(reading) /\ Cardinality(reading) <= PartSlots
  BY <1>2, OneMore
<1>7. waiting \in SUBSET Nat /\ reading \in SUBSET (Nat \X Lists)
  BY <1>2 DEF ListerType
<1>8. shown \in SUBSET Nat /\ shown \subseteq 0..images
  BY <1>2, <1>4 DEF UpstreamFine
<1>9. c \in ListerType
  OBVIOUS
<1> HIDE DEF waiting, reading, shown
<1>10. /\ d \in ListerType /\ d.at = c.at /\ d.known = c.known
       /\ d.parts = c.parts /\ d.failed = c.failed
       /\ d.waiting = waiting /\ d.reading = reading /\ d.shown = shown
  BY <1>7, <1>8, <1>9 DEF ListerType
<1> HIDE DEF d
<1>11. Spread(c) => Spread(d)
  BY <1>4, <1>10, SpreadRead DEF waiting, reading, shown
<1>12. ListerFine(d)
  <2>1. d.waiting \subseteq c.waiting /\ (d.failed \/ Spread(d))
    BY <1>2, <1>10, <1>11 DEF waiting
  <2> QED
    BY <1>2, <1>6, <1>8, <1>10, <2>1, StillCollects
<1> QED
  BY <1>1, <1>5, <1>12, OneLister

LEMMA ArrivalStep ==
  ASSUME ListInv, NEW l \in Listers, NEW part \in lister[l].reading,
         PartArrives(l, part), UNCHANGED upstreamVars
  PROVE  ListInv'
<1> USE ListFacts
<1> DEFINE c == lister[l]
           parts == Append(c.parts, part)
           reading == c.reading \ {part}
           d == [c EXCEPT !.reading = reading, !.parts = parts]
<1>1. KeptFine'
  BY KeptStays DEF PartArrives, upstreamVars
<1>2. /\ c.at = "collecting" /\ (c.failed \/ Spread(c))
      /\ c.shown \subseteq 0..images
      /\ IsFiniteSet(c.reading) /\ Cardinality(c.reading) <= PartSlots
      /\ part \in Nat \X Lists /\ c.parts \in Seq(Nat \X Lists)
      /\ c \in ListerType
  BY DEF ListerFine, ListerType
<1>3. lister' = [lister EXCEPT ![l] = d]
  BY DEF PartArrives
<1>4. IsFiniteSet(reading) /\ Cardinality(reading) <= PartSlots
  BY <1>2, OneLess
<1>5. parts \in Seq(Nat \X Lists) /\ reading \in SUBSET (Nat \X Lists)
  BY <1>2 DEF ListerType
<1> HIDE DEF parts, reading
<1>6. /\ d \in ListerType /\ d.at = c.at /\ d.known = c.known
      /\ d.shown = c.shown /\ d.parts = parts /\ d.failed = c.failed
      /\ d.waiting = c.waiting /\ d.reading = reading
  BY <1>5 DEF ListerType
<1> HIDE DEF d
<1>7. Spread(c) => Spread(d)
  BY <1>2, <1>6, SpreadArrives DEF parts, reading
<1>8. ListerFine(d)
  BY <1>2, <1>4, <1>6, <1>7, StillCollects
<1> QED
  BY <1>1, <1>3, <1>8, OneLister

\* A part that cannot be read, or is given up, fails the request.
LEMMA PartLostStep ==
  ASSUME ListInv, NEW l \in Listers, UNCHANGED upstreamVars,
         \/ \E part \in lister[l].reading : PartFails(l, part)
         \/ \E p \in lister[l].waiting : PartGivenUp(l, p)
  PROVE  ListInv'
<1> USE ListFacts
<1> DEFINE c == lister[l]
<1>1. KeptFine'
  BY KeptStays DEF PartFails, PartGivenUp, upstreamVars
<1>2. /\ c.at = "collecting" /\ IsFiniteSet(c.reading)
      /\ c.shown \subseteq 0..images
      /\ Cardinality(c.reading) <= PartSlots /\ c \in ListerType
  BY DEF ListerFine
<1>3. CASE \E part \in c.reading : PartFails(l, part)
  <2>1. PICK part \in c.reading : PartFails(l, part)
    BY <1>3
  <2> DEFINE reading == c.reading \ {part}
             d == [c EXCEPT !.reading = reading, !.failed = TRUE]
  <2>2. lister' = [lister EXCEPT ![l] = d]
    BY <2>1 DEF PartFails
  <2>3. IsFiniteSet(reading) /\ Cardinality(reading) <= PartSlots
    BY <1>2, OneLess
  <2>4. reading \in SUBSET (Nat \X Lists)
    BY DEF ListerType
  <2> HIDE DEF reading
  <2>5. /\ d \in ListerType /\ d.at = c.at /\ d.known = c.known
        /\ d.shown = c.shown /\ d.failed = TRUE
        /\ d.waiting = c.waiting /\ d.reading = reading
    BY <2>4 DEF ListerType
  <2> HIDE DEF d
  <2>6. ListerFine(d)
    BY <1>2, <2>3, <2>5, StillCollects
  <2> QED
    BY <1>1, <2>2, <2>6, OneLister
<1>4. CASE \E p \in c.waiting : PartGivenUp(l, p)
  <2>1. PICK p \in c.waiting : PartGivenUp(l, p)
    BY <1>4
  <2> DEFINE waiting == c.waiting \ {p}
             d == [c EXCEPT !.waiting = waiting, !.failed = TRUE]
  <2>2. lister' = [lister EXCEPT ![l] = d]
    BY <2>1 DEF PartGivenUp
  <2>3. waiting \in SUBSET Nat /\ waiting \subseteq c.waiting
    BY DEF ListerType
  <2> HIDE DEF waiting
  <2>4. /\ d \in ListerType /\ d.at = c.at /\ d.known = c.known
        /\ d.shown = c.shown /\ d.failed = TRUE
        /\ d.waiting = waiting /\ d.reading = c.reading
    BY <2>3 DEF ListerType
  <2> HIDE DEF d
  <2>5. ListerFine(d)
    BY <1>2, <2>3, <2>4, StillCollects
  <2> QED
    BY <1>1, <2>2, <2>5, OneLister
<1> QED
  BY <1>3, <1>4

LEMMA PartsJoinedStep ==
  ASSUME ListInv, NEW l \in Listers, PartsJoined(l), UNCHANGED upstreamVars
  PROVE  ListInv'
<1> USE ListFacts
<1> DEFINE c == lister[l]
           list == InOrder(c.parts)
           e == [c EXCEPT !.at = "failed"]
           d == [c EXCEPT !.at = "keeping", !.list = list]
<1>1. KeptFine'
  BY KeptStays DEF PartsJoined, upstreamVars
<1>2. /\ c.at = "collecting" /\ c.waiting = {} /\ c.reading = {}
      /\ lister' = [lister EXCEPT ![l] =
            IF c.failed \/ ~Complete(list, c.total) THEN e ELSE d]
  BY DEF PartsJoined
<1>3. /\ c \in ListerType /\ (c.failed \/ Spread(c))
      /\ c.shown \subseteq 0..images /\ service = "pica"
      /\ c.parts \in Seq(Nat \X Lists)
      /\ c.known => published
  BY <1>2 DEF ListerFine, ListerType
<1>4. IsFiniteSet({}) /\ Cardinality({}) <= PartSlots
  BY FS_EmptySet, SizeType
<1>5. ListerFine(e)
  <2>1. /\ e \in ListerType /\ e.at = "failed" /\ e.known = c.known
        /\ e.waiting = {} /\ e.reading = {}
    BY <1>2, <1>3 DEF ListerType
  <2> HIDE DEF e
  <2> QED
    BY <1>3, <1>4, <2>1 DEF ListerFine
<1>6. ASSUME ~c.failed, Complete(list, c.total) PROVE ListerFine(d)
  <2>1. Spread(c)
    BY <1>3, <1>6
  <2>2. NumbersOf(c.reading) = {} /\ Coming(c.reading) = {}
    BY <1>2 DEF NumbersOf, Coming
  <2>3. PICK n \in Nat \ {0} : Numbers(c.parts) = 1..n
    <3>1. PICK n \in Nat \ {0} :
             c.waiting \cup Numbers(c.parts) \cup NumbersOf(c.reading) = 1..n
      BY <2>1 DEF Spread
    <3> QED
      BY <1>2, <2>2, <3>1
  <2>4. /\ \A i \in DOMAIN c.parts : PartFine(c.parts[i])
        /\ \A i, j \in DOMAIN c.parts : c.parts[i][1] = c.parts[j][1] => i = j
        /\ c.shown = Arrived(c.parts)
    BY <2>1, <2>2 DEF Spread
  <2> DEFINE parts == c.parts
  <2>5. /\ InOrder(parts) \in Lists /\ Climbs(InOrder(parts))
        /\ ToSet(InOrder(parts)) = Arrived(parts)
    <3>1. /\ parts \in Seq(Nat \X Lists) /\ Numbers(parts) = 1..n
          /\ \A i \in DOMAIN parts : PartFine(parts[i])
          /\ \A i, j \in DOMAIN parts : parts[i][1] = parts[j][1] => i = j
      BY <1>3, <2>3, <2>4
    <3>2. n \in Nat /\ n # 0
      BY <2>3
    <3> HIDE DEF parts
    <3> QED
      BY <3>1, <3>2, JoinedList
  <2>6. list \in Lists /\ Climbs(list) /\ ToSet(list) = c.shown
    BY <2>4, <2>5
  <2> HIDE DEF list
  <2>7. 0 \notin ToSet(list) /\ (c.total > 0 => Len(list) = c.total)
    BY <1>6 DEF Complete
  <2>8. GoodList(list)
    <3>1. ToSet(list) \subseteq 1..images
      BY <1>3, <2>6, <2>7 DEF UpstreamFine
    <3>2. \A i \in DOMAIN list : list[i] # 0
      BY <2>7 DEF ToSet
    <3>3. Rising(list)
      BY <2>6, <3>2 DEF Climbs, Rising
    <3> QED
      BY <1>3, <2>6, <3>1, <3>3 DEF GoodList
  <2>9. /\ d \in ListerType /\ d.at = "keeping" /\ d.known = c.known
        /\ d.waiting = {} /\ d.reading = {} /\ d.list = list
        /\ d.total = c.total /\ d.shown = c.shown
    BY <1>2, <1>3, <2>6 DEF ListerType
  <2> HIDE DEF d
  <2> QED
    BY <1>3, <1>4, <2>6, <2>7, <2>8, <2>9 DEF ListerFine
<1>7. CASE ~c.failed /\ Complete(list, c.total)
  <2>1. lister' = [lister EXCEPT ![l] = d]
    BY <1>2, <1>7
  <2> HIDE DEF d
  <2> QED
    BY <1>1, <1>6, <1>7, <2>1, OneLister
<1>8. CASE c.failed \/ ~Complete(list, c.total)
  <2>1. lister' = [lister EXCEPT ![l] = e]
    BY <1>2, <1>8
  <2> HIDE DEF e
  <2> QED
    BY <1>1, <1>5, <2>1, OneLister
<1> QED
  BY <1>7, <1>8

LEMMA KeepStep ==
  ASSUME ListInv, NEW l \in Listers, Keep(l), UNCHANGED upstreamVars
  PROVE  ListInv'
<1> USE ListFacts
<1> DEFINE c == lister[l]
           d == [c EXCEPT !.at = "ok"]
<1>1. /\ lister' = [lister EXCEPT ![l] = d] /\ c.at = "keeping"
      /\ kept' = c.list /\ UNCHANGED chapters
  BY DEF Keep, Goes
<1>2. c \in ListerType /\ ListerFine(c)
  OBVIOUS
<1>3. /\ GoodList(c.list) /\ c.shown = ToSet(c.list)
      /\ c.total > 0 => Len(c.list) = c.total
  BY <1>1, <1>2 DEF ListerFine
<1>4. KeptFine'
  BY <1>1, <1>3 DEF KeptFine, GoodList, upstreamVars
<1>5. /\ d \in ListerType /\ d.at = "ok" /\ d.known = c.known
      /\ d.waiting = c.waiting /\ d.reading = c.reading
      /\ d.list = c.list /\ d.total = c.total /\ d.shown = c.shown
  BY <1>2 DEF ListerType
<1> HIDE DEF d, c
<1>6. ListerFine(d)
  BY <1>1, <1>2, <1>3, <1>5 DEF ListerFine
<1> QED
  BY <1>1, <1>4, <1>6, OneLister

LEMMA EndStep ==
  ASSUME ListInv, NEW l \in Listers, UNCHANGED upstreamVars,
         ListFails(l) \/ ListAnswered(l)
  PROVE  ListInv'
<1> USE ListFacts
<1>1. KeptFine'
  BY KeptStays DEF ListFails, ListAnswered, upstreamVars
<1>2. CASE ListFails(l)
  <2> DEFINE d == [lister[l] EXCEPT !.at = "failed"]
  <2>1. lister' = [lister EXCEPT ![l] = d]
    BY <1>2 DEF ListFails, Goes
  <2>2. ListerFine(d)
    BY <1>2, MovesOn DEF ListFails
  <2> HIDE DEF d
  <2> QED
    BY <1>1, <2>1, <2>2, OneLister
<1>3. CASE ListAnswered(l)
  <2>1. lister' = [lister EXCEPT ![l] = NoLister]
    BY <1>3 DEF ListAnswered
  <2> QED
    BY <1>1, <2>1, NoListerFine, OneLister
<1> QED
  BY <1>2, <1>3

\* Upstream only ever has more, and time makes what is kept unknown.
LEMMA UpstreamStep ==
  ASSUME ListInv, Publish \/ Grow \/ Readdress \/ KeptExpires
  PROVE  ListInv'
<1>1. /\ images \in Nat /\ images' \in Nat /\ images <= images'
      /\ lister' = lister /\ (published => published') /\ service' = service
  BY SizeType DEF ListInv, UpstreamFine, Publish, Grow, Readdress, KeptExpires
<1>2. 0..images \subseteq 0..images' /\ 1..images \subseteq 1..images'
  BY <1>1
<1>3. UpstreamFine'
  <2>1. CASE Grow
    BY <1>2, <2>1, SizeType DEF ListInv, UpstreamFine, Grow
  <2>2. CASE Publish
    BY <2>2 DEF ListInv, UpstreamFine, Publish
  <2>3. CASE KeptExpires
    BY <2>3 DEF ListInv, UpstreamFine, KeptExpires
  <2>4. CASE Readdress
    BY <2>4 DEF ListInv, UpstreamFine, Readdress
  <2> QED
    BY <2>1, <2>2, <2>3, <2>4
<1>4. KeptFine'
  <2>1. chapters' \in {"unknown", "with", "without"}
    BY DEF ListInv, KeptFine, Publish, Grow, Readdress, KeptExpires
  <2>2. kept' = kept \/ kept' = NoList
    BY DEF Publish, Grow, Readdress, KeptExpires
  <2>3. kept # NoList => GoodList(kept)
    BY DEF ListInv, KeptFine
  <2>4. (kept # NoList => GoodList(kept))'
    BY <1>1, <1>2, <2>2, <2>3 DEF GoodList, Rising
  <2> QED
    BY <2>1, <2>4 DEF KeptFine
<1>5. ASSUME NEW l \in Listers PROVE ListerFine(lister[l])'
  <2> DEFINE c == lister[l]
  <2>1. ListerFine(c) /\ c' = c /\ c \in ListerType
    BY <1>1 DEF ListInv, ListerFine
  <2> HIDE DEF c
  <2>2. c.at \in {"keeping", "ok"} => GoodList(c.list)'
    BY <1>1, <1>2, <2>1 DEF ListerFine, GoodList
  <2>3. c.at = "collecting" => c.shown \subseteq 0..images'
    BY <1>2, <2>1 DEF ListerFine
  <2>4. ListerFine(c)'
    BY <1>1, <2>1, <2>2, <2>3 DEF ListerFine
  <2> QED
    BY <2>4 DEF c
<1>6. (lister = [l \in Listers |-> lister[l]])'
  BY <1>1 DEF ListInv
<1> QED
  BY <1>3, <1>4, <1>5, <1>6 DEF ListInv

LEMMA ListStepInv == ListInv /\ [ListNext]_listVars => ListInv'
<1> SUFFICES ASSUME ListInv, [ListNext]_listVars PROVE ListInv'
  OBVIOUS
<1>1. ASSUME NEW l \in Listers, Listing(l) PROVE ListInv'
  <2>1. UNCHANGED upstreamVars
    BY <1>1 DEF Listing
  <2>2. CASE Resolved(l) \/ AskDetail(l) \/ KeepDetail(l)
    BY <2>1, <2>2, ResolveStep
  <2>3. CASE LookUp(l)
    BY <2>1, <2>3, LookUpStep
  <2>4. CASE JmList(l)
    BY <2>1, <2>4, JmListStep
  <2>5. CASE FirstPart(l)
    BY <2>1, <2>5, FirstPartStep
  <2>6. CASE \E p \in lister[l].waiting : ReadPart(l, p)
    BY <2>1, <2>6, ReadPartStep
  <2>7. CASE \E part \in lister[l].reading : PartArrives(l, part)
    BY <2>1, <2>7, ArrivalStep
  <2>8. CASE \/ \E part \in lister[l].reading : PartFails(l, part)
             \/ \E p \in lister[l].waiting : PartGivenUp(l, p)
    BY <2>1, <2>8, PartLostStep
  <2>9. CASE PartsJoined(l)
    BY <2>1, <2>9, PartsJoinedStep
  <2>10. CASE Keep(l)
    BY <2>1, <2>10, KeepStep
  <2>11. CASE ListFails(l) \/ ListAnswered(l)
    BY <2>1, <2>11, EndStep
  <2> QED
    BY <1>1, <2>2, <2>3, <2>4, <2>5, <2>6, <2>7, <2>8, <2>9, <2>10, <2>11
       DEF Listing
<1>2. CASE \E l \in Listers : AskList(l) /\ UNCHANGED upstreamVars
  BY <1>2, AskListStep
<1>3. CASE Publish \/ Grow \/ Readdress \/ KeptExpires
  BY <1>3, UpstreamStep
<1>4. CASE UNCHANGED listVars
  BY <1>4 DEF ListInv, UpstreamFine, KeptFine, ListerFine, GoodList, listVars
<1> QED
  BY <1>1, <1>2, <1>3, <1>4 DEF ListNext

LEMMA ListInitInv == ListInit => ListInv
<1> SUFFICES ASSUME ListInit PROVE ListInv
  OBVIOUS
<1>1. UpstreamFine
  <2>1. images \in 0..MaxImages
    BY SizeType DEF ListInit
  <2>2. /\ service \in {"pica", "jm"} /\ published \in BOOLEAN
        /\ unready = {}
    BY DEF ListInit
  <2> QED
    BY <2>1, <2>2 DEF UpstreamFine
<1>2. KeptFine
  BY DEF ListInit, KeptFine
<1>3. \A l \in Listers : lister[l] = NoLister
  BY DEF ListInit
<1>4. lister = [l \in Listers |-> lister[l]]
  BY DEF ListInit
<1> QED
  BY <1>1, <1>2, <1>3, <1>4, NoListerFine DEF ListInv

LEMMA ListInvariance == ListSpec => []ListInv
BY ListInitInv, ListStepInv, PTL DEF ListSpec

\* The states of the lists of images are well formed.
THEOREM ListTypeCorrect == ListSpec => []ListTypeOK
<1>1. ListInv => ListTypeOK
  <2> SUFFICES ASSUME ListInv PROVE ListTypeOK
    OBVIOUS
  <2>1. kept = NoList \/ kept \in Seq(1..MaxImages)
    <3> SUFFICES ASSUME kept # NoList PROVE kept \in Seq(1..MaxImages)
      OBVIOUS
    <3>1. kept \in Lists /\ ToSet(kept) \subseteq 1..images
      BY DEF ListInv, KeptFine, GoodList
    <3>2. 1..images \subseteq 1..MaxImages
      BY SizeType DEF ListInv, UpstreamFine
    <3>3. PICK n \in Nat : n = Len(kept) /\ DOMAIN kept = 1..n
      BY <3>1 DEF Lists
    <3> DEFINE T == 1..MaxImages
    <3>4. \A i \in 1..n : kept[i] \in T
      BY <3>1, <3>2, <3>3 DEF ToSet
    <3> HIDE DEF T
    <3>5. kept = [i \in 1..n |-> kept[i]]
      BY <3>1, <3>3 DEF Lists
    <3>6. kept \in Seq(T)
      <4>1. kept \in [1..n -> T]
        BY <3>4, <3>5
      <4> QED
        BY <3>3, <4>1
    <3> QED
      BY <3>6, Zenon DEF T
  <2>2. ASSUME NEW l \in Listers
        PROVE  /\ lister[l].at \in
                     {"idle", "resolving", "with", "without", "looking",
                      "asking", "collecting", "keeping", "ok", "failed",
                      "missing"}
               /\ lister[l].waiting \subseteq 2..MaxImages
               /\ Cardinality(lister[l].reading) <= PartSlots
    BY DEF ListInv, ListerFine, ListerType
  <2> QED
    BY <2>1, <2>2 DEF ListInv, UpstreamFine, KeptFine, ListTypeOK
<1> QED
  BY <1>1, ListInvariance, PTL

(* Whatever the number of images and the size of the parts: a list that is *)
(* served or kept has what upstream answered, in order, and no chapter     *)
(* that was there is said to be missing.                                   *)
THEOREM ListsTruthful == ListSpec => []ListTruthful
<1>1. ListInv => ListTruthful
  BY DEF ListInv, ListerFine, GoodList, ListTruthful
<1> QED
  BY <1>1, ListInvariance, PTL
=============================================================================
