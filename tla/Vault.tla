------------------------------- MODULE Vault --------------------------------
(***************************************************************************)
(* The key that encrypts the passwords and tokens of the accounts, and     *)
(* the commands that back the data directory up and restore it.  The key   *)
(* is a file next to the database; the two are written one after the       *)
(* other, and may be lost, swapped or copied apart.                        *)
(***************************************************************************)
EXTENDS Integers, FiniteSets

CONSTANTS Logins,       \* accounts, from a version without encryption
          MaxKeys,      \* bound on the keys that this program makes
          VaultLimits   \* bounds: stops of a process, and what an operator does

VaultEvents == {"stop", "operator", "backup", "spare"}

ASSUME VaultAssumption ==
    /\ MaxKeys \in Nat
    /\ VaultLimits \in [VaultEvents -> Nat]

VARIABLES
    cipher,     \* per account what its row is encrypted with, or Plain
    keyFile,    \* secrets.key: a key, Empty, or Missing
    made,       \* keys that were made here (history)
    strayed,    \* an operator put keyFile there, and no row needs it (history)
    vault,      \* Store.vault of the server: the key it works with
    vaultAt,    \* how far Open has come
    spare,      \* the key file that a restore is given
    copying,    \* the command that backs up or restores, and its stage
    backup,     \* the backup that is published
    restored,   \* the directory that was restored
    vaultUsed   \* events spent, against VaultLimits

vaultVars == <<cipher, keyFile, made, strayed, vault, vaultAt, spare, copying,
               backup, restored, vaultUsed>>
dataVars == <<cipher, keyFile, made, strayed, vault, vaultAt>>
copyVars == <<spare, copying, backup, restored>>

Plain == 0
Missing == 0
Empty == -1
Foreign == MaxKeys + 1      \* the key of another installation

Rows == [Logins -> 0..Foreign]
Encrypted(rows) == {rows[a] : a \in Logins} \ {Plain}

\* decrypt works for every row.
Unlocks(key, rows) == Encrypted(rows) \subseteq {key}

(* A stage, and what comes of it: the key that its manifest names, and the  *)
(* key file that is put beside the rows when they are restored.  Swapped is *)
(* a history: spare was changed between its two readings.                   *)
NoCopy == [at |-> "none", rows |-> [a \in Logins |-> Plain], key |-> Missing,
           file |-> Missing, sessions |-> TRUE, swapped |-> FALSE]

VaultSpend(e) ==
    /\ vaultUsed[e] < VaultLimits[e]
    /\ vaultUsed' = [vaultUsed EXCEPT ![e] = @ + 1]

VaultInit ==
    /\ cipher = [a \in Logins |-> Plain]
    /\ keyFile = Missing
    /\ made = {}
    /\ strayed = FALSE
    /\ vault = 0
    /\ vaultAt = "closed"
    /\ spare = Missing
    /\ copying = NoCopy
    /\ backup = NoCopy
    /\ restored = NoCopy
    /\ vaultUsed = [e \in VaultEvents |-> 0]

(***************************************************************************)
(* Store.Open and initVault; a start that is refused changes nothing.      *)
(***************************************************************************)
\* Wrong variant of CreateKey: rows that need the lost key do not prevent it.
CreateKeyAnew ==
    /\ vaultAt = "closed"
    /\ keyFile = Missing
    /\ keyFile' = Empty
    /\ vaultAt' = "creating"
    /\ UNCHANGED <<cipher, made, strayed, vault, copyVars, vaultUsed>>

\* There is no key, and no row needs one: the file is created.
CreateKey ==
    /\ vaultAt = "closed"
    /\ keyFile = Missing
    /\ Encrypted(cipher) = {}
    /\ keyFile' = Empty
    /\ vaultAt' = "creating"
    /\ UNCHANGED <<cipher, made, strayed, vault, copyVars, vaultUsed>>

\* It is written; made names a key that nobody else has.
WriteKey ==
    /\ vaultAt = "creating"
    /\ \E k \in (1..MaxKeys) \ made :
          /\ \A j \in (1..MaxKeys) \ made : k <= j
          /\ keyFile' = k
          /\ made' = made \cup {k}
          /\ vault' = k
    /\ strayed' = FALSE
    /\ vaultAt' = "loaded"
    /\ UNCHANGED <<cipher, copyVars, vaultUsed>>

\* The key is there, and has its 32 bytes.
LoadKey ==
    /\ vaultAt = "closed"
    /\ keyFile > 0
    /\ vault' = keyFile
    /\ vaultAt' = "loaded"
    /\ UNCHANGED <<cipher, keyFile, made, strayed, copyVars, vaultUsed>>

\* Every row can be decrypted, and those that are plain are encrypted in one
\* transaction.
Encrypt ==
    /\ vaultAt = "loaded"
    /\ Unlocks(vault, cipher)
    /\ cipher' = [a \in Logins |-> vault]
    /\ vaultAt' = "open"
    /\ UNCHANGED <<keyFile, made, strayed, vault, copyVars, vaultUsed>>

\* A new password or token.
SaveSecret(a) ==
    /\ vaultAt = "open"
    /\ cipher' = [cipher EXCEPT ![a] = vault]
    /\ UNCHANGED <<keyFile, made, strayed, vault, vaultAt, copyVars, vaultUsed>>

\* The server stops or crashes, or a step of Open fails.
StopServer ==
    /\ vaultAt # "closed"
    /\ VaultSpend("stop")
    /\ vault' = 0
    /\ vaultAt' = "closed"
    /\ UNCHANGED <<cipher, keyFile, made, strayed, copyVars>>

(***************************************************************************)
(* The operator.                                                           *)
(***************************************************************************)
\* The key is lost, or a key is put there: the right one or another.
TouchKey(key) ==
    /\ VaultSpend("operator")
    /\ keyFile' = key
    /\ strayed' = (key \notin Encrypted(cipher))
    /\ UNCHANGED <<cipher, made, vault, vaultAt, copyVars>>

\* Another key file is put where a restore is told to find it.
TouchSpare(key) ==
    /\ key # spare
    /\ VaultSpend("spare")
    /\ spare' = key
    /\ copying' = IF copying.at = "verified"
                  THEN [copying EXCEPT !.swapped = TRUE] ELSE copying
    /\ UNCHANGED <<dataVars, backup, restored>>

\* The server is switched to the restored directory.
SwitchOver ==
    /\ vaultAt = "closed"
    /\ restored # NoCopy
    /\ cipher' = restored.rows
    /\ keyFile' = restored.file
    /\ strayed' = restored.swapped
    /\ restored' = NoCopy
    /\ UNCHANGED <<made, vault, vaultAt, spare, copying, backup, vaultUsed>>

(***************************************************************************)
(* Backup: everything is gathered in a stage, verified, and renamed.       *)
(***************************************************************************)
\* VACUUM INTO: a snapshot of the rows, while the server goes on.
Snapshot ==
    /\ copying = NoCopy /\ backup = NoCopy
    /\ VaultSpend("backup")
    /\ copying' = [NoCopy EXCEPT !.at = "snapshot", !.rows = cipher]
    /\ UNCHANGED <<dataVars, spare, backup, restored>>

\* The manifest names the key by its hash, if there is a file.
HashKey ==
    /\ copying.at = "snapshot"
    /\ copying' = [copying EXCEPT !.at = "manifest", !.key = keyFile]
    /\ UNCHANGED <<dataVars, spare, backup, restored, vaultUsed>>

\* VerifyBackup of the stage with a key file.
Verified(stage, key) ==
    /\ stage.key # Missing => key = stage.key
    /\ Unlocks(stage.key, stage.rows)

\* Wrong variant of PublishBackup: it is not verified.
PublishBackupUnverified ==
    /\ copying.at = "manifest"
    /\ backup' = [copying EXCEPT !.at = "published"]
    /\ copying' = NoCopy
    /\ UNCHANGED <<dataVars, spare, restored, vaultUsed>>

PublishBackup ==
    /\ copying.at = "manifest"
    /\ Verified(copying, keyFile)
    /\ backup' = [copying EXCEPT !.at = "published"]
    /\ copying' = NoCopy
    /\ UNCHANGED <<dataVars, spare, restored, vaultUsed>>

(***************************************************************************)
(* RestoreBackup, with a key file from wherever the operator keeps it.     *)
(***************************************************************************)
VerifyForRestore ==
    /\ copying = NoCopy /\ restored = NoCopy
    /\ backup # NoCopy
    /\ Verified(backup, spare)
    /\ copying' = [backup EXCEPT !.at = "verified"]
    /\ UNCHANGED <<dataVars, spare, backup, restored, vaultUsed>>

\* The key file is read again and copied, if the manifest names a key.
CopyKey ==
    /\ copying.at = "verified"
    /\ copying.key # Missing => spare # Missing
    /\ copying' = [copying EXCEPT
          !.at = "restoring",
          !.file = IF copying.key = Missing THEN Missing ELSE spare]
    /\ UNCHANGED <<dataVars, spare, backup, restored, vaultUsed>>

EndSessions ==
    /\ copying.at = "restoring"
    /\ copying' = [copying EXCEPT !.at = "cleared", !.sessions = FALSE]
    /\ UNCHANGED <<dataVars, spare, backup, restored, vaultUsed>>

PublishRestored ==
    /\ copying.at = "cleared"
    /\ restored' = [copying EXCEPT !.at = "published"]
    /\ copying' = NoCopy
    /\ UNCHANGED <<dataVars, spare, backup, vaultUsed>>

\* A command fails or crashes: its stage is removed, or left unused.
CopyFails ==
    /\ copying # NoCopy
    /\ copying' = NoCopy
    /\ UNCHANGED <<dataVars, spare, backup, restored, vaultUsed>>

VaultNext ==
    \/ CreateKey \/ WriteKey \/ LoadKey \/ Encrypt \/ StopServer
    \/ \E a \in Logins : SaveSecret(a)
    \/ \E key \in {Missing, Foreign} \cup made \cup Encrypted(cipher) :
          TouchKey(key)
    \/ \E key \in {Empty, Missing, Foreign} \cup made : TouchSpare(key)
    \/ SwitchOver
    \/ Snapshot \/ HashKey \/ PublishBackup
    \/ VerifyForRestore \/ CopyKey \/ EndSessions
    \/ PublishRestored \/ CopyFails

VaultSpec == VaultInit /\ [][VaultNext]_vaultVars

(***************************************************************************)
(* Properties.                                                             *)
(***************************************************************************)
VaultTypeOK ==
    /\ cipher \in Rows
    /\ {keyFile, spare} \subseteq {Empty, Missing} \cup 1..Foreign
    /\ vault \in 0..Foreign
    /\ vaultAt \in {"closed", "creating", "loaded", "open"}
    /\ copying.at \in {"none", "snapshot", "manifest", "verified",
                       "restoring", "cleared"}

(* Whatever stops between the writes of the key and of the rows, and       *)
(* whatever an operator does to the key: one key opens every row, and a    *)
(* key that was made here is never in the place of the one that the rows   *)
(* need, unless an operator put it there.  So the right key, put back,     *)
(* makes every row readable.                                               *)
OneKeyOpensAll ==
    /\ Cardinality(Encrypted(cipher)) <= 1
    /\ ~strayed /\ keyFile \in made /\ Encrypted(cipher) # {} =>
          keyFile \in Encrypted(cipher)

(* A backup that is published can be read with the key that it names,      *)
(* although rows and key were not read at the same moment.  What is        *)
(* restored from it can be read with that key too, has it beside the rows  *)
(* unless the key file was changed between its verification and its copy,  *)
(* and has no sessions of old browsers.                                    *)
CopiesOpen ==
    /\ backup # NoCopy => Unlocks(backup.key, backup.rows)
    /\ restored # NoCopy =>
          /\ Unlocks(restored.key, restored.rows)
          /\ ~restored.swapped => Unlocks(restored.file, restored.rows)
          /\ ~restored.sessions
=============================================================================
