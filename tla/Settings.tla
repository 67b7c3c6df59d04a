------------------------------ MODULE Settings ------------------------------
(***************************************************************************)
(* The settings: config.json, the copy in memory that every part reads,    *)
(* the changes administrators make at the same time, each of some fields,  *)
(* and the clients of the sources that are rebuilt from them.              *)
(***************************************************************************)
EXTENDS Integers, FiniteSets

CONSTANTS SourceCallers,  \* whoever asks for the client of a source
          MaxUpdates,     \* bound on the changes
          SettingsStops   \* bound on crashes

ASSUME SettingsAssumption == {MaxUpdates, SettingsStops} \subseteq Nat

VARIABLES
    mem,        \* Manager.s
    disk,       \* config.json
    update,     \* who holds Manager.mu, with the settings to be written
    asked,      \* per field the last value that was accepted (history)
    client,     \* Engine.srcs and srcKeys: the settings the client is for
    taker,      \* whoever asks for the client
    drop,       \* a change has ended, and InvalidateSources is to come
    updates,    \* changes so far
    stops       \* crashes so far

settingsVars ==
    <<mem, disk, update, asked, client, taker, drop, updates, stops>>
clientVars == <<client, taker, drop>>

(* Two fields stand for all: a number, where 0 means that it is not given, *)
(* and a proxy, where 0 means none.  A number above MaxWorkers is lowered  *)
(* to it, and a proxy field with value 2 stands for settings that are      *)
(* refused.                                                                *)
MaxWorkers == 2
Fields == {"workers", "proxy"}
Patches == {p \in UNION {[s -> 0..3] : s \in SUBSET Fields} :
               "proxy" \in DOMAIN p => p["proxy"] <= 2}

DefaultSettings == [workers |-> 1, proxy |-> 0]
Refused(s) == s.proxy = 2
NoUpdate == [at |-> "none", patch |-> <<>>, new |-> DefaultSettings]
NoClient == [workers |-> 0, proxy |-> 0]
NoCaller == [at |-> "idle", saw |-> NoClient, since |-> {}, got |-> NoClient]

Least(a, b) == IF a < b THEN a ELSE b

\* Update, mergeSettings: only what is given changes.
Merged(s, p) ==
    [workers |-> IF "workers" \in DOMAIN p /\ p["workers"] > 0
                 THEN Least(p["workers"], MaxWorkers) ELSE s.workers,
     proxy |-> IF "proxy" \in DOMAIN p THEN p["proxy"] ELSE s.proxy]

(* What was accepted, field by field.                                      *)
Accepted(old, p) ==
    [f \in Fields |->
        IF f \notin DOMAIN p \/ (f = "workers" /\ p[f] = 0) THEN old[f]
        ELSE IF f = "workers" THEN Least(p[f], MaxWorkers)
        ELSE p[f]]

SettingsInit ==
    /\ mem = DefaultSettings
    /\ disk = DefaultSettings
    /\ update = NoUpdate
    /\ asked = DefaultSettings
    /\ client = NoClient
    /\ taker = [c \in SourceCallers |-> NoCaller]
    /\ drop = FALSE
    /\ updates = 0
    /\ stops = 0

(***************************************************************************)
(* Update, which holds Manager.mu from beginning to end.                   *)
(***************************************************************************)
\* Wrong variant of BeginUpdate: config.json itself is written, not a copy.
BeginUpdateInPlace(p) ==
    /\ update = NoUpdate
    /\ updates < MaxUpdates
    /\ ~Refused(Merged(mem, p))
    /\ updates' = updates + 1
    /\ update' = [at |-> "writing", patch |-> p, new |-> Merged(mem, p)]
    /\ disk' = DefaultSettings      \* what Load makes of half a file
    /\ UNCHANGED <<mem, asked, clientVars, stops>>

\* A change that is refused changes nothing; another one is written.
BeginUpdate(p) ==
    /\ update = NoUpdate
    /\ updates < MaxUpdates
    /\ ~Refused(Merged(mem, p))
    /\ updates' = updates + 1
    /\ update' = [at |-> "writing", patch |-> p, new |-> Merged(mem, p)]
    /\ UNCHANGED <<mem, disk, asked, clientVars, stops>>

\* A directory, the temporary file or the rename fails.
UpdateFails ==
    /\ update.at = "writing"
    /\ update' = NoUpdate
    /\ UNCHANGED <<mem, disk, asked, clientVars, updates, stops>>

RenameSettings ==
    /\ update.at = "writing"
    /\ disk' = update.new
    /\ update' = [update EXCEPT !.at = "renamed"]
    /\ UNCHANGED <<mem, asked, clientVars, updates, stops>>

\* The callers that are at it have seen one more version of the settings.
EndUpdate ==
    /\ update.at = "renamed"
    /\ mem' = update.new
    /\ asked' = Accepted(asked, update.patch)
    /\ taker' = [c \in SourceCallers |->
                    IF taker[c].at = "idle" THEN taker[c]
                    ELSE [taker[c] EXCEPT !.since = @ \cup {update.new}]]
    /\ update' = NoUpdate
    /\ drop' = TRUE
    /\ UNCHANGED <<disk, client, updates, stops>>

\* putSettings: the clients are dropped after Update has returned.
InvalidateSources ==
    /\ drop
    /\ drop' = FALSE
    /\ client' = NoClient
    /\ UNCHANGED <<mem, disk, update, asked, taker, updates, stops>>

\* The process ends, and Load reads what is there; a change whose file is in
\* place has happened.
RestartSettings ==
    /\ stops < SettingsStops
    /\ stops' = stops + 1
    /\ mem' = disk
    /\ asked' = IF update.at = "renamed" THEN Accepted(asked, update.patch)
                ELSE asked
    /\ update' = NoUpdate
    /\ client' = NoClient
    /\ taker' = [c \in SourceCallers |-> NoCaller]
    /\ drop' = FALSE
    /\ UNCHANGED <<disk, updates>>

(***************************************************************************)
(* SourceFor.                                                              *)
(***************************************************************************)
\* It reads the settings, for which it waits until no change is under way,
ReadSettings(c) ==
    /\ taker[c].at = "idle"
    /\ update = NoUpdate
    /\ taker' = [taker EXCEPT ![c] =
                     [at |-> "read", saw |-> mem, since |-> {mem},
                      got |-> NoClient]]
    /\ UNCHANGED <<mem, disk, update, asked, client, drop, updates, stops>>

\* Wrong variant of TakeClient: a client that is there is taken.
TakeClientAny(c) ==
    LET new == IF client # NoClient THEN client ELSE taker[c].saw
    IN  /\ taker[c].at = "read"
        /\ client' = new
        /\ taker' = [taker EXCEPT ![c].at = "has", ![c].got = new]
        /\ UNCHANGED <<mem, disk, update, asked, drop, updates, stops>>

\* and takes the client if it is for these settings, or makes one and keeps
\* it: either way it is for what it read.
TakeClient(c) ==
    /\ taker[c].at = "read"
    /\ client' = taker[c].saw
    /\ taker' = [taker EXCEPT ![c].at = "has", ![c].got = taker[c].saw]
    /\ UNCHANGED <<mem, disk, update, asked, drop, updates, stops>>

LeaveClient(c) ==
    /\ taker[c].at = "has"
    /\ taker' = [taker EXCEPT ![c] = NoCaller]
    /\ UNCHANGED <<mem, disk, update, asked, client, drop, updates, stops>>

SettingsNext ==
    \/ \E p \in Patches : BeginUpdate(p)
    \/ UpdateFails \/ RenameSettings \/ EndUpdate \/ InvalidateSources
    \/ RestartSettings
    \/ \E c \in SourceCallers :
          ReadSettings(c) \/ TakeClient(c) \/ LeaveClient(c)

SettingsSpec == SettingsInit /\ [][SettingsNext]_settingsVars

(***************************************************************************)
(* Properties.                                                             *)
(***************************************************************************)
SettingsType == [workers : 1..MaxWorkers, proxy : 0..1]

SettingsTypeOK ==
    /\ {mem, disk, update.new, asked} \subseteq SettingsType
    /\ update.at \in {"none", "writing", "renamed"}
    /\ client \in SettingsType \cup {NoClient}
    /\ taker \in [SourceCallers ->
                     [at : {"idle", "read", "has"}, since : SUBSET SettingsType,
                      saw : SettingsType \cup {NoClient},
                      got : SettingsType \cup {NoClient}]]

(* A change that was accepted stays in every field that no later change    *)
(* gave, in memory and in the file, whoever changed another field at the   *)
(* same time, whatever failed, and over a crash at any moment.             *)
ChangesKept ==
    /\ mem = asked
    /\ disk = IF update.at = "renamed" THEN Accepted(asked, update.patch)
              ELSE asked

(* Whoever asks for a client gets one for settings that were in force      *)
(* after it asked, although clients are made and dropped meanwhile.        *)
ClientsFollow ==
    \A c \in SourceCallers :
        taker[c].at = "has" => taker[c].got \in taker[c].since
=============================================================================
