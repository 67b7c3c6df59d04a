----------------------------- MODULE ImageFetch -----------------------------
(***************************************************************************)
(* Downloads of images by the workers of jobs: attempts, pauses and hosts  *)
(* within one budget of time, and the transfer slots that all workers      *)
(* share.  A slot is held from before the request until its body is        *)
(* closed.                                                                 *)
(***************************************************************************)
EXTENDS Integers, FiniteSets

CONSTANTS Workers,
          TransferSlots,  \* capacity of the transferPool
          Attempts,       \* attempts at one host (3 in the code)
          Hosts           \* image hosts of JM; Pica's images have one

ASSUME FetchAssumption ==
    /\ IsFiniteSet(Workers)
    /\ TransferSlots \in Nat \ {0}
    /\ Attempts \in Nat \ {0}
    /\ Hosts \in Nat \ {0}

VARIABLES
    room,       \* the disk has room for downloads
    taken,      \* tokens in pool.slots
    fetch       \* the image that each worker fetches

fetchVars == <<room, taken, fetch>>

(* Errors: net is everything without a status that counts, unauthorized is *)
(* 401, forbidden 403, limited 429, busy 5xx, refused another status,      *)
(* garbled a body that cannot be read or is no image, huge one that is too *)
(* long.                                                                   *)
Statuses == {"unauthorized", "forbidden", "limited", "busy", "refused"}
Errors == Statuses \cup {"none", "net", "garbled", "huge"}

NoFetch == [at |-> "idle", attempt |-> 1, host |-> 1, fallback |-> FALSE,
            last |-> "none", over |-> FALSE]

FetchInit ==
    /\ room = TRUE
    /\ taken = 0
    /\ fetch = [w \in Workers |-> NoFetch]

\* Pica and JM call fetchImage for the next page of a job.
StartFetch(w) ==
    /\ fetch[w].at = "idle"
    /\ fetch' = [fetch EXCEPT ![w] = [NoFetch EXCEPT !.at = "guard"]]
    /\ UNCHANGED <<room, taken>>

\* waitDownload: no budget is spent while the disk is full.
Guarded(w) ==
    /\ fetch[w].at = "guard"
    /\ room
    /\ fetch' = [fetch EXCEPT ![w].at = "attempt"]
    /\ UNCHANGED <<room, taken>>

\* ... unless the job ends.
GuardCanceled(w) ==
    /\ fetch[w].at = "guard"
    /\ fetch' = [fetch EXCEPT ![w] = NoFetch]
    /\ UNCHANGED <<room, taken>>

DiskChanges ==
    /\ room' = ~room
    /\ UNCHANGED <<taken, fetch>>

(***************************************************************************)
(* What follows an error.                                                  *)
(***************************************************************************)
\* fetchImageRetry returns the error; JM.fetchImage may ask the next host.
HostFails(g, error) ==
    IF /\ g.host < Hosts /\ ~g.over
       /\ error \notin {"unauthorized", "forbidden", "limited"}
    THEN [g EXCEPT !.host = @ + 1, !.attempt = 1, !.at = "attempt",
                   !.fallback = FALSE, !.last = "none"]
    ELSE NoFetch

\* The loop goes on with the next attempt, if there is one.
Repeats(g, error) ==
    IF g.attempt < Attempts
    THEN [g EXCEPT !.at = "pause", !.attempt = @ + 1, !.last = error]
    ELSE HostFails(g, error)

\* A status other than 200: 403 is tried once more with other headers.
AfterStatus(g, error) ==
    IF error = "forbidden" /\ ~g.fallback
    THEN Repeats([g EXCEPT !.fallback = TRUE], error)
    ELSE IF error \in {"limited", "busy"} THEN Repeats(g, error)
    ELSE HostFails(g, error)

\* Wrong variant of Released: an error without a response keeps its slot.
ReleasedLate(w, g) ==
    /\ fetch' = [fetch EXCEPT ![w] = g]
    /\ taken' = IF g.last = "net" THEN taken ELSE taken - 1
    /\ UNCHANGED room

\* The slot goes back, with the error of RoundTrip or when the body is closed.
Released(w, g) ==
    /\ fetch' = [fetch EXCEPT ![w] = g]
    /\ taken' = taken - 1
    /\ UNCHANGED room

(***************************************************************************)
(* The steps of an attempt.                                                *)
(***************************************************************************)
\* The head of the loop: the budget is looked at, and the request is made.
Attempt(w) ==
    /\ fetch[w].at = "attempt"
    /\ fetch' = [fetch EXCEPT ![w] = IF @.over THEN NoFetch
                                     ELSE [@ EXCEPT !.at = "slot"]]
    /\ UNCHANGED <<room, taken>>

\* RoundTrip: there is a slot.
TakeTransfer(w) ==
    /\ fetch[w].at = "slot"
    /\ taken < TransferSlots
    /\ taken' = taken + 1
    /\ fetch' = [fetch EXCEPT ![w].at = "trip"]
    /\ UNCHANGED room

\* Wrong variant of SlotCanceled: the wait for a slot has no end.
SlotNeverCanceled(w) == FALSE /\ UNCHANGED fetchVars

(* RoundTrip: the context of the request is done first.  It ends with the  *)
(* budget, but also when the client's own two minutes for one request are  *)
(* over (newHTTPClient); then there is budget left for the next attempt.   *)
SlotCanceled(w) ==
    /\ fetch[w].at = "slot"
    /\ fetch' = [fetch EXCEPT ![w] = Repeats(@, "net")]
    /\ UNCHANGED <<room, taken>>

\* No response: the network, a timeout of the client, or the budget.
TripFails(w) ==
    /\ fetch[w].at = "trip"
    /\ Released(w, Repeats(fetch[w], "net"))

\* A response; unless it is 200 its body is closed at once.
Responds(w, error) ==
    /\ fetch[w].at = "trip"
    /\ error \in Statuses
    /\ Released(w, AfterStatus(fetch[w], error))

RespondsOK(w) ==
    /\ fetch[w].at = "trip"
    /\ fetch' = [fetch EXCEPT ![w].at = "body"]
    /\ UNCHANGED <<room, taken>>

\* The body has been read and closed, and is an image.
ReadImage(w) ==
    /\ fetch[w].at = "body"
    /\ Released(w, NoFetch)

\* ... or cannot be read, is no image, or is too long.
ReadFails(w, error) ==
    /\ fetch[w].at = "body"
    /\ error \in {"garbled", "huge"}
    /\ Released(w, IF error = "huge" THEN HostFails(fetch[w], error)
                   ELSE Repeats(fetch[w], error))

\* retryImageWait is over.
Resume(w) ==
    /\ fetch[w].at = "pause"
    /\ fetch' = [fetch EXCEPT ![w].at = "attempt"]
    /\ UNCHANGED <<room, taken>>

\* The budget ends in the pause, or upstream asks for more than two minutes.
PauseEnds(w) ==
    /\ fetch[w].at = "pause"
    /\ fetch' = [fetch EXCEPT ![w] =
                    IF @.over THEN NoFetch ELSE HostFails(@, @.last)]
    /\ UNCHANGED <<room, taken>>

\* Three minutes since the guard let the fetch pass, or the job is canceled.
BudgetEnds(w) ==
    /\ fetch[w].at \notin {"idle", "guard"}
    /\ ~fetch[w].over
    /\ fetch' = [fetch EXCEPT ![w].over = TRUE]
    /\ UNCHANGED <<room, taken>>

FetchStep(w) ==
    \/ Attempt(w) \/ TakeTransfer(w) \/ SlotCanceled(w)
    \/ TripFails(w) \/ RespondsOK(w) \/ ReadImage(w)
    \/ \E e \in Errors : Responds(w, e) \/ ReadFails(w, e)
    \/ Resume(w) \/ PauseEnds(w)

FetchNext ==
    \/ \E w \in Workers :
          \/ StartFetch(w) \/ Guarded(w) \/ GuardCanceled(w)
          \/ FetchStep(w) \/ BudgetEnds(w)
    \/ DiskChanges

FetchSpec == FetchInit /\ [][FetchNext]_fetchVars

(* Goroutines are scheduled, requests end with their context, and time     *)
(* passes: the budget ends, and so does every request of the client, the   *)
(* wait for its slot included.  Nothing is said about who gets a slot.     *)
FetchFairness ==
    \A w \in Workers : WF_fetchVars(FetchStep(w)) /\ WF_fetchVars(BudgetEnds(w))

(***************************************************************************)
(* Properties.                                                             *)
(***************************************************************************)
FetchTypeOK ==
    /\ room \in BOOLEAN
    /\ taken \in Int
    /\ fetch \in [Workers ->
                     [at : {"idle", "guard", "attempt", "slot", "trip",
                            "body", "pause"},
                      attempt : 1..Attempts, host : 1..Hosts,
                      fallback : BOOLEAN, last : Errors, over : BOOLEAN]]

Transferring == {w \in Workers : fetch[w].at \in {"trip", "body"}}

(* A slot is taken exactly for the requests whose response is not yet      *)
(* closed: none is lost on an error path, none is given back twice, and no *)
(* worker keeps one while it pauses or waits for the disk.                 *)
SlotsKept ==
    /\ taken = Cardinality(Transferring)
    /\ taken <= TransferSlots

(* A fetch that the guard has let pass comes to an end, however the slots  *)
(* are dealt and whatever upstream answers.                                *)
FetchEnds ==
    \A w \in Workers :
        fetch[w].at \notin {"idle", "guard"} ~> fetch[w].at = "idle"
=============================================================================
