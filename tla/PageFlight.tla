----------------------------- MODULE PageFlight -----------------------------
(***************************************************************************)
(* Readers that ask for pages which are not on disk.  Readers of one page  *)
(* share one fetch from upstream (a flight); the last reader that leaves   *)
(* cancels it, and a later reader starts another one, perhaps while the    *)
(* goroutine of the first still runs.                                      *)
(***************************************************************************)
EXTENDS Integers, FiniteSets

CONSTANTS Readers,    \* requests that may be open at the same time
          Keys,       \* pages
          Flights,    \* bound on the flights that exist at the same time
          Slots,      \* capacity of readerSlots
          NoKey,
          NoFlight

ASSUME FlightAssumption ==
    /\ IsFiniteSet(Readers)
    /\ Slots \in Nat \ {0}
    /\ NoKey \notin Keys
    /\ NoFlight \notin Flights

VARIABLES
    pages,     \* Server.pages: the flight that a reader of the page joins
    flight,    \* the flights with the goroutine of each
    reader     \* where each request is

flightVars == <<pages, flight, reader>>

(* A goroutine waits for a slot (queued), holds one (loading),              *)
(* has given it back (returned), has closed done (closed).  A flight that  *)
(* is closed and has no waiters is garbage, and its name is free again.    *)
Stages == {"free", "queued", "loading", "returned", "closed"}
Results == {"none", "page", "failed", "canceled", "expired"}

Free == [key |-> NoKey, at |-> "free", waiters |-> 0, canceled |-> FALSE,
         expired |-> FALSE, result |-> "none"]

Away == [at |-> "away", key |-> NoKey, flight |-> NoFlight, answer |-> "none"]

\* A flight that has come to its end and that no reader holds.
Collected(fl) == IF fl.at = "closed" /\ fl.waiters = 0 THEN Free ELSE fl

Busy == {f \in Flights : flight[f].at = "loading"}

\* The context of the fetch is done.
Over(f) == flight[f].canceled \/ flight[f].expired

FlightInit ==
    /\ pages = [k \in Keys |-> NoFlight]
    /\ flight = [f \in Flights |-> Free]
    /\ reader = [r \in Readers |-> Away]

(***************************************************************************)
(* A request.                                                              *)
(***************************************************************************)
\* readerPage does not find the page on disk: it was never there, or trimmed.
Ask(r, k) ==
    /\ reader[r].at = "away"
    /\ reader' = [reader EXCEPT ![r].at = "missed", ![r].key = k]
    /\ UNCHANGED <<pages, flight>>

Waits(r, f) ==
    reader' = [reader EXCEPT ![r].at = "waiting", ![r].flight = f]

\* fetchPage: a flight for this page is there.
Join(r) ==
    LET f == pages[reader[r].key]
    IN  /\ reader[r].at = "missed"
        /\ f # NoFlight
        /\ flight' = [flight EXCEPT ![f].waiters = @ + 1]
        /\ Waits(r, f)
        /\ UNCHANGED pages

\* fetchPage: there is none, and the request starts one.
Launch(r) ==
    /\ reader[r].at = "missed"
    /\ pages[reader[r].key] = NoFlight
    /\ \E f \in Flights : flight[f] = Free
    /\ LET f == CHOOSE f \in Flights : flight[f] = Free
       IN  /\ flight' = [flight EXCEPT ![f].key = reader[r].key,
                                       ![f].at = "queued", ![f].waiters = 1]
           /\ pages' = [pages EXCEPT ![reader[r].key] = f]
           /\ Waits(r, f)

\* The select of fetchPage: the flight is done.
Receive(r) ==
    /\ reader[r].at = "waiting"
    /\ flight[reader[r].flight].at = "closed"
    /\ reader' = [reader EXCEPT ![r].at = "leaving",
                                ![r].answer = flight[reader[r].flight].result]
    /\ UNCHANGED <<pages, flight>>

\* The select of fetchPage: the client has gone.
HangUp(r) ==
    /\ reader[r].at = "waiting"
    /\ reader' = [reader EXCEPT ![r].at = "leaving"]
    /\ UNCHANGED <<pages, flight>>

\* Wrong variant of Unlisted: whatever flight is listed is taken out.
UnlistedAny(f) == [pages EXCEPT ![flight[f].key] = NoFlight]

\* Flight f is taken out of the map, if it is still there.
Unlisted(f) ==
    [k \in Keys |-> IF pages[k] = f THEN NoFlight ELSE pages[k]]

\* The deferred function of fetchPage; the last reader cancels the fetch.
Leave(r) ==
    LET f == reader[r].flight
        last == flight[f].waiters = 1
        left == [flight[f] EXCEPT !.waiters = @ - 1, !.canceled = @ \/ last]
    IN  /\ reader[r].at = "leaving"
        /\ flight' = [flight EXCEPT ![f] = Collected(left)]
        /\ pages' = IF last THEN Unlisted(f) ELSE pages
        /\ reader' = [reader EXCEPT ![r] = Away]

(***************************************************************************)
(* The goroutine of a flight.                                              *)
(***************************************************************************)
\* The goroutine has its result, and gives back the slot if it holds one.
Return(f, from, result) ==
    /\ flight[f].at = from
    /\ flight' = [flight EXCEPT ![f].at = "returned", ![f].result = result]
    /\ UNCHANGED <<pages, reader>>

TakeSlot(f) ==
    /\ Cardinality(Busy) < Slots
    /\ flight[f].at = "queued"
    /\ flight' = [flight EXCEPT ![f].at = "loading"]
    /\ UNCHANGED <<pages, reader>>

\* What the context of a fetch that is over reports.
Reason(f) == IF flight[f].canceled THEN "canceled" ELSE "expired"

\* Wrong variant of GiveUp: the two minutes do not cover the wait for a slot.
GiveUpUnexpired(f) ==
    /\ flight[f].canceled
    /\ Return(f, "queued", Reason(f))

\* The context is done before there was a slot.
GiveUp(f) ==
    /\ Over(f)
    /\ Return(f, "queued", Reason(f))

\* load finds the page on disk by now, or gets it from upstream and saves it.
Loaded(f) == Return(f, "loading", "page")

LoadFails(f) ==
    /\ ~Over(f)
    /\ Return(f, "loading", "failed")

LoadOver(f) ==
    /\ Over(f)
    /\ Return(f, "loading", Reason(f))

\* The goroutine takes its flight out of the map and wakes the readers.
Close(f) ==
    /\ flight[f].at = "returned"
    /\ pages' = Unlisted(f)
    /\ flight' = [flight EXCEPT ![f] = Collected([@ EXCEPT !.at = "closed"])]
    /\ UNCHANGED reader

\* Two minutes have passed.
Expire(f) ==
    /\ flight[f].at \in {"queued", "loading"}
    /\ ~flight[f].expired
    /\ flight' = [flight EXCEPT ![f].expired = TRUE]
    /\ UNCHANGED <<pages, reader>>

Fetching(f) ==
    \/ TakeSlot(f) \/ GiveUp(f)
    \/ Loaded(f) \/ LoadFails(f) \/ LoadOver(f) \/ Close(f)

Answering(r) == Join(r) \/ Launch(r) \/ Receive(r) \/ Leave(r)

FlightNext ==
    \/ \E r \in Readers :
        Answering(r) \/ HangUp(r) \/ \E k \in Keys : Ask(r, k)
    \/ \E f \in Flights : Fetching(f) \/ Expire(f)

FlightSpec == FlightInit /\ [][FlightNext]_flightVars

(* Goroutines are scheduled, requests to upstream come to an end, and time *)
(* passes.  Nothing is said about which goroutine gets a slot.             *)
FlightFairness ==
    /\ \A r \in Readers : WF_flightVars(Answering(r))
    /\ \A f \in Flights : WF_flightVars(Fetching(f) \/ Expire(f))

(***************************************************************************)
(* Properties.                                                             *)
(***************************************************************************)
FlightTypeOK ==
    /\ pages \in [Keys -> Flights \cup {NoFlight}]
    /\ flight \in [Flights -> [key : Keys \cup {NoKey}, at : Stages,
                               waiters : Nat, canceled : BOOLEAN,
                               expired : BOOLEAN, result : Results]]
    /\ reader \in [Readers -> [at : {"away", "missed", "waiting", "leaving"},
                               key : Keys \cup {NoKey},
                               flight : Flights \cup {NoFlight},
                               answer : Results]]

Holders(f) == {r \in Readers : reader[r].flight = f}

(* Readers share: as long as somebody waits for a fetch it is not canceled *)
(* and is the one that the map offers to the next reader, so a page is not *)
(* fetched twice for readers who could have shared, also when an old       *)
(* goroutine ends late; and the last reader who leaves cancels it.  A      *)
(* reader gets the page it asked for, and no answer meant for another one. *)
FetchIsShared ==
    /\ \A f \in Flights : flight[f].at # "free" =>
          /\ flight[f].canceled <=> Holders(f) = {}
          /\ flight[f].at # "closed" /\ ~flight[f].canceled =>
                pages[flight[f].key] = f
    /\ \A r \in Readers : reader[r].flight # NoFlight =>
          /\ flight[reader[r].flight].key = reader[r].key
          /\ reader[r].answer # "canceled"

(* Whoever waits is answered, even when the slots always go to others, and *)
(* the fetch that everybody has left comes to an end.                      *)
EveryoneAnswered ==
    /\ \A r \in Readers : reader[r].at = "waiting" ~> reader[r].at = "away"
    /\ \A f \in Flights : flight[f].canceled ~> flight[f].at = "free"
=============================================================================
