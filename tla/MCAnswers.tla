------------------------------ MODULE MCAnswers ------------------------------
(***************************************************************************)
(* An instance for TLC of the modules that promise an answer or an end.    *)
(* They share no state and never wait for each other, so a behaviour is    *)
(* one of one of them, while the others rest in their first state.  Two of *)
(* them are smaller here than in MCRecords, which checks their safety.     *)
(***************************************************************************)
EXTENDS PageFlight, ImageFetch, Favourites, Health

VARIABLE part

everything == <<flightVars, fetchVars, favVars, healthVars, part>>

\* A list of two comics, and what may happen to a load.
FirstLists == {<<1, 2>>}
FavFaults == {[change |-> 1, fault |-> 1], [change |-> 0, fault |-> 2]}

\* A run that is stopped, and another one.
HealthBounds == [run |-> 2, change |-> 0, repair |-> 1]

AnswersInit ==
    /\ FlightInit /\ FetchInit /\ FavInit /\ HealthInit
    /\ part \in {"flight", "fetch", "favourites", "health"}
    /\ part # "favourites" => kind = "pica" /\ left["fault"] = 1

AnswersNext ==
    /\ \/ /\ part = "flight" /\ FlightNext
          /\ UNCHANGED <<fetchVars, favVars, healthVars>>
       \/ /\ part = "fetch" /\ FetchNext
          /\ UNCHANGED <<flightVars, favVars, healthVars>>
       \/ /\ part = "favourites" /\ FavNext
          /\ UNCHANGED <<flightVars, fetchVars, healthVars>>
       \/ /\ part = "health" /\ HealthNext
          /\ UNCHANGED <<flightVars, fetchVars, favVars>>
    /\ UNCHANGED part

AnswersSpec ==
    /\ AnswersInit /\ [][AnswersNext]_everything
    /\ FlightFairness /\ FetchFairness /\ FavFairness /\ HealthFairness
=============================================================================
