------------------------------ MODULE MCRecords ------------------------------
(***************************************************************************)
(* An instance for TLC of the modules about what the server keeps, and     *)
(* about what it tells of upstream.  They share no state and never wait    *)
(* for each other, so a behaviour is one of one of them, while the others  *)
(* rest in their first state.                                              *)
(***************************************************************************)
EXTENDS Favourites, ToggleCall, PageList, Descramble,
        Health, Vault, Settings, Reading, TLC

VARIABLE part

upstreamParts == <<favVars, toggleVars, listVars, scrambleVars>>
serverParts == <<healthVars, vaultVars, settingsVars, readingVars>>
everything == <<upstreamParts, serverParts, part>>

\* A list of two comics, so that one can be removed while it is read.
FirstLists == {<<1, 2>>}

\* Changes that undo each other; and a login that is renewed and refused again.
FavFaults == {[change |-> 2, fault |-> 1], [change |-> 1, fault |-> 2]}

\* On both sides of every threshold of the number of strips.
SomeAids == {220979, 220980, 268849, 268850, 421925, 421926}
SomeThresholds == {220980, 268850}

\* Heights that strips divide, that they do not, and less than the strips.
SomeHeights == {1, 3, 7, 16, 19, 23}

\* A run that is stopped and another one; an entry is repaired twice.
HealthBounds == [run |-> 2, change |-> 1, repair |-> 2]

\* The key is lost and replaced, around two stops and a backup; and the key
\* file of a restore is put there and changed.
VaultBounds == [stop |-> 2, operator |-> 2, backup |-> 1, spare |-> 2]

Clocks == {"phone", "desk"}
PhoneAhead == [d \in Clocks |-> IF d = "phone" THEN 2 ELSE 0]

(* Bounds on the lists: several requests list the chapter at a time only   *)
(* while it fits into one part, and with a third part all have addresses.  *)
ListBounds ==
    /\ Cardinality({l \in Listers : lister[l].at # "idle"}) > 1
          => images <= PartSize
    /\ images > 2 * PartSize => unready = {}

RecordsInit ==
    /\ FavInit /\ ToggleInit /\ ListInit /\ ScrambleInit
    /\ HealthInit /\ VaultInit /\ SettingsInit /\ ReadingInit
    /\ part \in {"favourites", "toggle", "list", "scramble",
                 "health", "vault", "settings", "reading"}
    /\ part # "favourites" => kind = "pica" /\ left["fault"] = 1
    /\ part # "toggle" => source = "pica" /\ favourite
    /\ part # "list" => service = "pica" /\ images = 0

UpstreamNext ==
    \/ /\ part = "favourites" /\ FavNext
       /\ UNCHANGED <<toggleVars, listVars, scrambleVars>>
    \/ /\ part = "toggle" /\ ToggleNext
       /\ UNCHANGED <<favVars, listVars, scrambleVars>>
    \/ /\ part = "list" /\ ListNext /\ ListBounds'
       /\ UNCHANGED <<favVars, toggleVars, scrambleVars>>
    \/ /\ part = "scramble" /\ ScrambleNext
       /\ UNCHANGED <<favVars, toggleVars, listVars>>

ServerNext ==
    \/ /\ part = "health" /\ HealthNext
       /\ UNCHANGED <<vaultVars, settingsVars, readingVars>>
    \/ /\ part = "vault" /\ VaultNext
       /\ UNCHANGED <<healthVars, settingsVars, readingVars>>
    \/ /\ part = "settings" /\ SettingsNext
       /\ UNCHANGED <<healthVars, vaultVars, readingVars>>
    \/ /\ part = "reading" /\ ReadingNext
       /\ UNCHANGED <<healthVars, vaultVars, settingsVars>>

RecordsNext ==
    /\ \/ UpstreamNext /\ UNCHANGED serverParts
       \/ ServerNext /\ UNCHANGED upstreamParts
    /\ UNCHANGED part

RecordsSpec == RecordsInit /\ [][RecordsNext]_everything

\* The type invariants of the modules.
RecordsTypeOK ==
    /\ FavTypeOK /\ ToggleTypeOK /\ ListTypeOK /\ ScrambleTypeOK
    /\ HealthTypeOK /\ VaultTypeOK /\ SettingsTypeOK /\ ReadingTypeOK
=============================================================================
