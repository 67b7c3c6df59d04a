---------------------------- MODULE MCDailySync -----------------------------
(* Instances of DailySync for TLC: bounds on the events that may repeat.   *)
EXTENDS DailySync, TLC

\* A request and a timeout while two accounts compete for a slot.
AttemptLimits ==
    {[manual |-> 1, error |-> 0, timeout |-> 1, crash |-> 0, shutdown |-> 0,
      lostWrite |-> 0, list |-> 1, attempt |-> 1, day |-> 0]}

\* Only a crash: nothing else goes wrong.
QuietLimits ==
    {[manual |-> 0, error |-> 0, timeout |-> 0, crash |-> 1, shutdown |-> 0,
      lostWrite |-> 0, list |-> 1, attempt |-> 2, day |-> 1]}

(* Everything goes wrong once, in the two halves of the system that meet   *)
(* in launchSync: two requests of users while the scheduler rests; or the  *)
(* scheduler on two days, while nobody asks, no call fails and a favourite *)
(* is listed alone, with one end of the process, by a signal or a crash.   *)
UserLimits ==
    [manual |-> 2, error |-> 1, timeout |-> 1, crash |-> 1, shutdown |-> 1,
     lostWrite |-> 1, list |-> 2, attempt |-> 0, day |-> 0]

DayLimits(crashes) ==
    [manual |-> 0, error |-> 0, timeout |-> 1, crash |-> crashes,
     shutdown |-> 1 - crashes, lostWrite |-> 1, list |-> 1, attempt |-> 2,
     day |-> 1]

FaultLimits == {UserLimits, DayLimits(0), DayLimits(1)}

ComicSymmetry == Permutations(Comics)
=============================================================================
