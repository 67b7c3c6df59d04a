------------------------------ MODULE Reading -------------------------------
(***************************************************************************)
(* The reading position of one comic of one user.  Every device saves its  *)
(* position with the time of its own clock, keeps it, and sends it to the  *)
(* server without waiting for the answer; the positions arrive late, in    *)
(* any order, twice or never.  A device that resumes takes the newer of    *)
(* its own position and the server's.                                      *)
(***************************************************************************)
EXTENDS Integers

CONSTANTS Devices,
          Skew,         \* per device how much its clock is ahead, or behind
          Ahead,        \* the server refuses what is further in the future
          MaxTime       \* bound on the time

ASSUME ReadingAssumption ==
    /\ Skew \in [Devices -> Int]
    /\ Ahead \in Nat
    /\ MaxTime \in Nat \ {0}

VARIABLES
    time,       \* the server's clock
    local,      \* localStorage: the last position of each device
    sent,       \* positions on their way to the server
    row,        \* reading_progress
    accepted,   \* positions the server took (history)
    missed,     \* a position was lost, or refused (history)
    resumed     \* what a device has resumed from

readingVars == <<time, local, sent, row, accepted, missed, resumed>>

\* A position is its stamp, and the device it comes from: the page.
Nowhere == [stamp |-> 0, page |-> "start"]
Position(d) == [stamp |-> time + Skew[d], page |-> d]

ReadingInit ==
    /\ time = 1
    /\ local = [d \in Devices |-> Nowhere]
    /\ sent = {}
    /\ row = Nowhere
    /\ accepted = {}
    /\ missed = FALSE
    /\ resumed = [d \in Devices |-> Nowhere]

Advance ==
    /\ time < MaxTime
    /\ time' = time + 1
    /\ UNCHANGED <<local, sent, row, accepted, missed, resumed>>

\* saveProgress: the answer is not waited for.
SaveProgress(d) ==
    /\ sent' = sent \cup {Position(d)}
    /\ local' = [local EXCEPT ![d] = Position(d)]
    /\ resumed' = [resumed EXCEPT ![d] = Nowhere]
    /\ UNCHANGED <<time, row, accepted, missed>>

Valid(p) == p.stamp > 0 /\ p.stamp <= time + Ahead

\* Wrong variant of Newer: the last one to arrive wins.
NewerAlways(old, p) == p

\* The upsert: a row is only replaced by one with a later stamp.
Newer(old, p) == IF p.stamp > old.stamp THEN p ELSE old

\* A position arrives; it may arrive again later.
PutReading(p) ==
    /\ IF Valid(p)
       THEN /\ row' = Newer(row, p)
            /\ accepted' = accepted \cup {p}
            /\ UNCHANGED missed
       ELSE /\ missed' = TRUE
            /\ UNCHANGED <<row, accepted>>
    /\ UNCHANGED <<time, local, sent, resumed>>

\* No more copies of it are under way; it is lost if none has arrived.
Vanish(p) ==
    /\ sent' = sent \ {p}
    /\ missed' = (missed \/ p \notin accepted)
    /\ UNCHANGED <<time, local, row, accepted, resumed>>

\* initialize with resume=1: without the server the own position is taken.
ResumeReading(d) ==
    /\ \E remote \in {row, Nowhere} :
          resumed' = [resumed EXCEPT ![d] = Newer(local[d], remote)]
    /\ UNCHANGED <<time, local, sent, row, accepted, missed>>

ReadingNext ==
    \/ Advance
    \/ \E d \in Devices : SaveProgress(d) \/ ResumeReading(d)
    \/ \E p \in sent : PutReading(p) \/ Vanish(p)

ReadingSpec == ReadingInit /\ [][ReadingNext]_readingVars

(***************************************************************************)
(* Properties.                                                             *)
(***************************************************************************)
ReadingTypeOK ==
    /\ time \in 1..MaxTime
    /\ row.stamp \in Int
    /\ row \in accepted \cup {Nowhere}
    /\ missed \in BOOLEAN

\* The stamp of the newest position that any device has saved.
NewestSaved(p) == \A d \in Devices : local[d].stamp <= p.stamp

(* The server has the newest of the positions it took, in whatever order   *)
(* and however often they arrived.  So when all have arrived and none was  *)
(* lost or refused, whoever asks it is where the newest position is, also  *)
(* with clocks that differ.                                                *)
NewestPositionWins ==
    /\ \A p \in accepted : p.stamp <= row.stamp
    /\ sent = {} /\ ~missed => NewestSaved(row)
=============================================================================
