---------------------------- MODULE StoreProofs -----------------------------
(***************************************************************************)
(* Proofs about what the server keeps: reading positions (Reading), the    *)
(* settings and the clients made from them (Settings), the key of the      *)
(* passwords and the backups (Vault), the reports of the health check and  *)
(* what is repaired after them (Health).  They hold for every number of    *)
(* devices, callers, accounts, comics and chapters, for every skew of the  *)
(* clocks, and for every bound.                                            *)
(***************************************************************************)
EXTENDS Reading, Settings, Vault, Health, TLAPS, FiniteSetTheorems

-----------------------------------------------------------------------------
(* Reading.                                                                *)

Positions == [stamp : Int, page : Devices \cup {"start"}]

\* Every position a device has saved is under way, or was taken, or missed.
Accounted ==
    ~missed => \A d \in Devices : local[d] \in sent \cup accepted \cup {Nowhere}

ReadingInv ==
    /\ ReadingTypeOK
    /\ local \in [Devices -> Positions]
    /\ {sent, accepted} \subseteq SUBSET Positions
    /\ row \in Positions /\ row.stamp >= 0
    /\ \A p \in accepted : p.stamp <= row.stamp
    /\ Accounted

LEMMA NowhereType == Nowhere \in Positions /\ Nowhere.stamp = 0
BY DEF Nowhere, Positions

LEMMA PositionType ==
  ASSUME ReadingInv, NEW d \in Devices
  PROVE  Position(d) \in Positions
BY ReadingAssumption DEF Position, Positions, ReadingInv, ReadingTypeOK

LEMMA ReadingInitInv == ReadingInit => ReadingInv
<1> SUFFICES ASSUME ReadingInit PROVE ReadingInv
  OBVIOUS
<1>1. time \in 1..MaxTime
  BY ReadingAssumption DEF ReadingInit
<1>2. row.stamp = 0 /\ row \in accepted \cup {Nowhere}
  BY NowhereType DEF ReadingInit
<1>3. missed \in BOOLEAN
  BY DEF ReadingInit
<1>4. ReadingTypeOK
  BY <1>1, <1>2, <1>3 DEF ReadingTypeOK
<1> QED
  BY <1>2, <1>4, NowhereType DEF ReadingInit, ReadingInv, Accounted

LEMMA ReadingStepInv == ReadingInv /\ [ReadingNext]_readingVars => ReadingInv'
<1> SUFFICES ASSUME ReadingInv, [ReadingNext]_readingVars PROVE ReadingInv'
  OBVIOUS
<1> USE NowhereType
<1>1. CASE Advance
  BY <1>1, ReadingAssumption
  DEF Advance, ReadingInv, ReadingTypeOK, Accounted
<1>2. ASSUME NEW d \in Devices, SaveProgress(d) PROVE ReadingInv'
  <2>1. Position(d) \in Positions
    BY PositionType
  <2>2. local' \in [Devices -> Positions] /\ sent' \subseteq Positions
    BY <1>2, <2>1 DEF SaveProgress, ReadingInv
  <2>3. Accounted'
    BY <1>2 DEF SaveProgress, ReadingInv, Accounted
  <2> QED
    BY <1>2, <2>2, <2>3 DEF SaveProgress, ReadingInv, ReadingTypeOK
<1>3. ASSUME NEW d \in Devices, ResumeReading(d) PROVE ReadingInv'
  BY <1>3 DEF ResumeReading, ReadingInv, ReadingTypeOK, Accounted
<1>4. ASSUME NEW p \in sent, PutReading(p) PROVE ReadingInv'
  <2>1. p \in Positions /\ p.stamp \in Int /\ row.stamp \in Int
    BY DEF ReadingInv, Positions
  <2>2. CASE Valid(p)
    <3>1. /\ row' \in {row, p} /\ row'.stamp >= 0
          /\ p.stamp <= row'.stamp /\ row.stamp <= row'.stamp
      BY <1>4, <2>1, <2>2 DEF PutReading, Newer, Valid, ReadingInv
    <3>2. \A q \in accepted : q.stamp <= row'.stamp
      BY <2>1, <3>1 DEF ReadingInv, Positions
    <3> QED
      BY <1>4, <2>1, <2>2, <3>1, <3>2
      DEF PutReading, ReadingInv, ReadingTypeOK, Accounted, Positions
  <2>3. CASE ~Valid(p)
    BY <1>4, <2>3 DEF PutReading, ReadingInv, ReadingTypeOK, Accounted
  <2> QED
    BY <2>2, <2>3
<1>5. ASSUME NEW p \in sent, Vanish(p) PROVE ReadingInv'
  <2>1. missed' \in BOOLEAN
    BY <1>5 DEF Vanish, ReadingInv, ReadingTypeOK
  <2>2. Accounted'
    BY <1>5 DEF Vanish, ReadingInv, Accounted
  <2> QED
    BY <1>5, <2>1, <2>2 DEF Vanish, ReadingInv, ReadingTypeOK
<1>6. CASE UNCHANGED readingVars
  BY <1>6 DEF readingVars, ReadingInv, ReadingTypeOK, Accounted
<1> QED
  BY <1>1, <1>2, <1>3, <1>4, <1>5, <1>6 DEF ReadingNext

\* The reading positions keep their types.
THEOREM ReadingTypeCorrect == ReadingSpec => []ReadingTypeOK
<1>1. ReadingInv => ReadingTypeOK
  BY DEF ReadingInv
<1> QED
  BY ReadingInitInv, ReadingStepInv, <1>1, PTL DEF ReadingSpec

\* The newest of the positions that the upsert of reading_progress took is
\* the one it keeps, in whatever order they arrive; when nothing is under way
\* and none was lost or refused, it is the newest one of all devices.
THEOREM NewestKept == ReadingSpec => []NewestPositionWins
<1>1. ReadingInv => NewestPositionWins
  BY NowhereType
  DEF ReadingInv, NewestPositionWins, NewestSaved, Accounted
<1> QED
  BY ReadingInitInv, ReadingStepInv, <1>1, PTL DEF ReadingSpec

-----------------------------------------------------------------------------
(* Settings: what a change makes of settings.                              *)

(* A change leaves settings, if it is not refused; what was accepted is    *)
(* what it made.                                                           *)

LEMMA MergedType ==
  ASSUME NEW s \in SettingsType, NEW p \in Patches, ~Refused(Merged(s, p))
  PROVE  Merged(s, p) \in SettingsType
<1>1. s.workers \in 1..MaxWorkers /\ s.proxy \in 0..1
  BY DEF SettingsType
<1>2. \A f \in DOMAIN p : p[f] \in 0..3
  BY DEF Patches
<1>3. "proxy" \in DOMAIN p => p["proxy"] <= 2
  BY DEF Patches
<1>4. Merged(s, p).workers \in 1..MaxWorkers
  BY <1>1, <1>2 DEF Merged, Least, MaxWorkers
<1>5. Merged(s, p).proxy \in 0..2 /\ Merged(s, p).proxy # 2
  BY <1>1, <1>2, <1>3 DEF Merged, Refused
<1>6. Merged(s, p).proxy \in 0..1
  BY <1>5
<1> QED
  BY <1>4, <1>6 DEF Merged, SettingsType

LEMMA MergedAccepted ==
  ASSUME NEW s \in SettingsType, NEW p \in Patches
  PROVE  Accepted(s, p) = Merged(s, p)
<1>1. \A f \in DOMAIN p : p[f] \in 0..3
  BY DEF Patches
<1>2. /\ Accepted(s, p)["workers"] = Merged(s, p)["workers"]
      /\ Accepted(s, p)["proxy"] = Merged(s, p)["proxy"]
  BY <1>1 DEF Accepted, Merged, Fields, SettingsType
<1>3. Accepted(s, p) = [f \in Fields |-> Accepted(s, p)[f]]
  BY DEF Accepted
<1>4. Merged(s, p) = [f \in Fields |-> Merged(s, p)[f]]
  BY DEF Merged, Fields
<1> QED
  BY <1>2, <1>3, <1>4 DEF Fields

-----------------------------------------------------------------------------
(* Settings: the invariant.                                                *)

UpdateType ==
    [at : {"none", "writing", "renamed"}, patch : Patches \cup {<<>>},
     new : SettingsType]

CallerType ==
    [at : {"idle", "read", "has"}, saw : SettingsType \cup {NoClient},
     since : SUBSET SettingsType, got : SettingsType \cup {NoClient}]

\* A change under way makes the new settings from those in force.
ChangeMerges ==
    update.at # "none" =>
        update.patch \in Patches /\ update.new = Merged(mem, update.patch)

\* A caller that has read the settings has seen them in force.
SawInForce ==
    \A c \in SourceCallers :
        taker[c].at = "read" =>
            taker[c].saw \in SettingsType /\ taker[c].saw \in taker[c].since

SettingsInv ==
    /\ SettingsTypeOK
    /\ update \in UpdateType
    /\ ChangeMerges
    /\ ChangesKept
    /\ SawInForce
    /\ ClientsFollow

LEMMA DefaultsType ==
  /\ DefaultSettings \in SettingsType
  /\ NoUpdate \in UpdateType /\ NoUpdate.at = "none"
  /\ NoUpdate.new = DefaultSettings
  /\ NoCaller \in CallerType /\ NoCaller.at = "idle"
<1>1. DefaultSettings \in SettingsType
  BY DEF DefaultSettings, SettingsType, MaxWorkers
<1> QED
  BY <1>1 DEF NoUpdate, UpdateType, NoCaller, CallerType

LEMMA SettingsInitInv == SettingsInit => SettingsInv
<1> SUFFICES ASSUME SettingsInit PROVE SettingsInv
  OBVIOUS
<1>1. taker \in [SourceCallers -> CallerType]
  BY DefaultsType DEF SettingsInit
<1>2. SettingsTypeOK
  BY <1>1, DefaultsType DEF SettingsInit, SettingsTypeOK, CallerType
<1>3. ChangeMerges /\ ChangesKept
  BY DefaultsType DEF SettingsInit, ChangeMerges, ChangesKept
<1>4. SawInForce /\ ClientsFollow
  BY DefaultsType DEF SettingsInit, SawInForce, ClientsFollow
<1> QED
  BY <1>2, <1>3, <1>4, DefaultsType DEF SettingsInit, SettingsInv

\* The part of the invariant about the settings, and the one about callers.
KeptInv ==
    /\ {mem, disk, update.new, asked} \subseteq SettingsType
    /\ update \in UpdateType
    /\ ChangeMerges
    /\ ChangesKept

CallerInv ==
    /\ taker \in [SourceCallers -> CallerType]
    /\ client \in SettingsType \cup {NoClient}
    /\ SawInForce
    /\ ClientsFollow

LEMMA SettingsInvParts == SettingsInv <=> KeptInv /\ CallerInv
BY DEF SettingsInv, SettingsTypeOK, KeptInv, CallerInv, CallerType, UpdateType

LEMMA KeptStep == SettingsInv /\ [SettingsNext]_settingsVars => KeptInv'
<1> SUFFICES ASSUME SettingsInv, [SettingsNext]_settingsVars PROVE KeptInv'
  OBVIOUS
<1>0. KeptInv
  BY SettingsInvParts
<1>1. ASSUME NEW p \in Patches, BeginUpdate(p) PROVE KeptInv'
  <2>1. Merged(mem, p) \in SettingsType
    BY <1>0, <1>1, MergedType DEF BeginUpdate, KeptInv
  <2>2. /\ update' \in UpdateType /\ update'.at = "writing"
        /\ update'.patch = p /\ update'.new = Merged(mem, p)
    BY <1>1, <2>1 DEF BeginUpdate, UpdateType
  <2>3. disk = asked
    BY <1>0, <1>1, DefaultsType DEF BeginUpdate, KeptInv, ChangesKept
  <2> QED
    BY <1>0, <1>1, <2>1, <2>2, <2>3
    DEF BeginUpdate, KeptInv, ChangeMerges, ChangesKept
<1>2. CASE UpdateFails
  BY <1>0, <1>2, DefaultsType
  DEF UpdateFails, KeptInv, ChangeMerges, ChangesKept
<1>3. CASE RenameSettings
  <2>1. /\ update' \in UpdateType /\ update'.at = "renamed"
        /\ update'.patch = update.patch /\ update'.new = update.new
    BY <1>0, <1>3 DEF RenameSettings, KeptInv, UpdateType
  <2>2. Accepted(asked, update.patch) = update.new
    BY <1>0, <1>3, MergedAccepted
    DEF RenameSettings, KeptInv, ChangeMerges, ChangesKept
  <2> QED
    BY <1>0, <1>3, <2>1, <2>2
    DEF RenameSettings, KeptInv, ChangeMerges, ChangesKept
<1>4. CASE EndUpdate
  <2>1. Accepted(asked, update.patch) = update.new
    BY <1>0, <1>4, MergedAccepted
    DEF EndUpdate, KeptInv, ChangeMerges, ChangesKept
  <2> QED
    BY <1>0, <1>4, <2>1, DefaultsType
    DEF EndUpdate, KeptInv, ChangeMerges, ChangesKept
<1>5. CASE RestartSettings
  BY <1>0, <1>5, DefaultsType
  DEF RestartSettings, KeptInv, ChangeMerges, ChangesKept
<1>6. CASE UNCHANGED <<mem, disk, update, asked>>
  BY <1>0, <1>6 DEF KeptInv, ChangeMerges, ChangesKept
<1>7. ASSUME NEW c \in SourceCallers,
             ReadSettings(c) \/ TakeClient(c) \/ LeaveClient(c)
      PROVE  KeptInv'
  BY <1>6, <1>7 DEF ReadSettings, TakeClient, LeaveClient
<1>8. CASE InvalidateSources \/ UNCHANGED settingsVars
  BY <1>6, <1>8 DEF InvalidateSources, settingsVars
<1> QED
  BY <1>1, <1>2, <1>3, <1>4, <1>5, <1>7, <1>8 DEF SettingsNext

LEMMA CallerStep == SettingsInv /\ [SettingsNext]_settingsVars => CallerInv'
<1> SUFFICES ASSUME SettingsInv, [SettingsNext]_settingsVars PROVE CallerInv'
  OBVIOUS
<1>0. CallerInv /\ KeptInv
  BY SettingsInvParts
<1>1. CASE /\ UNCHANGED taker
           /\ client' \in {client, NoClient}
  BY <1>0, <1>1 DEF CallerInv, SawInForce, ClientsFollow
<1>2. ASSUME NEW p \in Patches, BeginUpdate(p) PROVE CallerInv'
  BY <1>1, <1>2 DEF BeginUpdate, clientVars
<1>3. CASE UpdateFails \/ RenameSettings \/ InvalidateSources
           \/ UNCHANGED settingsVars
  BY <1>1, <1>3
  DEF UpdateFails, RenameSettings, InvalidateSources, settingsVars, clientVars
<1>4. CASE EndUpdate
  <2> DEFINE seen(c) == [taker[c] EXCEPT !.since = @ \cup {update.new}]
  <2>1. \A c \in SourceCallers :
           /\ taker'[c] = taker[c] \/ taker'[c] = seen(c)
           /\ taker[c] \in CallerType
    BY <1>0, <1>4 DEF EndUpdate, CallerInv
  <2>2. update.new \in SettingsType
    BY <1>0 DEF KeptInv
  <2>3. \A c \in SourceCallers :
           /\ taker'[c] \in CallerType
           /\ taker'[c].at = taker[c].at
           /\ taker'[c].saw = taker[c].saw /\ taker'[c].got = taker[c].got
           /\ taker[c].since \subseteq taker'[c].since
    <3> TAKE c \in SourceCallers
    <3>1. taker[c].since \cup {update.new} \in SUBSET SettingsType
      BY <2>1, <2>2 DEF CallerType
    <3>2. /\ seen(c) \in CallerType
          /\ seen(c).at = taker[c].at /\ seen(c).saw = taker[c].saw
          /\ seen(c).got = taker[c].got
          /\ seen(c).since = taker[c].since \cup {update.new}
      BY <2>1, <3>1 DEF CallerType
    <3> HIDE DEF seen
    <3> QED
      BY <2>1, <3>2
  <2>4. taker' \in [SourceCallers -> CallerType]
    BY <1>4, <2>3 DEF EndUpdate
  <2> QED
    BY <1>0, <1>4, <2>3, <2>4
    DEF EndUpdate, CallerInv, SawInForce, ClientsFollow
<1>5. CASE RestartSettings
  BY <1>5, DefaultsType DEF RestartSettings, CallerInv, SawInForce, ClientsFollow
<1>6. ASSUME NEW c \in SourceCallers, NEW g \in CallerType,
             taker' = [taker EXCEPT ![c] = g],
             g.at = "read" => g.saw \in SettingsType /\ g.saw \in g.since,
             g.at = "has" => g.got \in g.since,
             client' \in SettingsType \cup {NoClient}
      PROVE  CallerInv'
  BY <1>0, <1>6 DEF CallerInv, SawInForce, ClientsFollow
<1>7. ASSUME NEW c \in SourceCallers, ReadSettings(c) PROVE CallerInv'
  <2> DEFINE g == [at |-> "read", saw |-> mem, since |-> {mem},
                   got |-> NoClient]
  <2>1. mem \in SettingsType
    BY <1>0 DEF KeptInv
  <2>2. g \in CallerType /\ g.at = "read" /\ g.saw = mem /\ g.since = {mem}
    BY <2>1 DEF CallerType
  <2>3. taker' = [taker EXCEPT ![c] = g] /\ client' = client
    BY <1>7 DEF ReadSettings
  <2> HIDE DEF g
  <2> QED
    BY <1>0, <1>6, <2>1, <2>2, <2>3 DEF CallerInv
<1>8. ASSUME NEW c \in SourceCallers, TakeClient(c) PROVE CallerInv'
  <2> DEFINE g == [taker[c] EXCEPT !.at = "has", !.got = taker[c].saw]
  <2>1. /\ taker[c] \in CallerType
        /\ taker[c].saw \in SettingsType /\ taker[c].saw \in taker[c].since
    BY <1>0, <1>8 DEF TakeClient, CallerInv, SawInForce
  <2>2. g \in CallerType /\ g.at = "has" /\ g.got \in g.since
    BY <2>1 DEF CallerType
  <2>3. taker' = [taker EXCEPT ![c] = g] /\ client' = taker[c].saw
    BY <1>8 DEF TakeClient
  <2> HIDE DEF g
  <2> QED
    BY <1>6, <2>1, <2>2, <2>3
<1>9. ASSUME NEW c \in SourceCallers, LeaveClient(c) PROVE CallerInv'
  BY <1>0, <1>6, <1>9, DefaultsType DEF LeaveClient, CallerInv
<1> QED
  BY <1>2, <1>3, <1>4, <1>5, <1>7, <1>8, <1>9 DEF SettingsNext

LEMMA SettingsStepInv == SettingsInv /\ [SettingsNext]_settingsVars => SettingsInv'
<1> SUFFICES ASSUME SettingsInv, [SettingsNext]_settingsVars PROVE SettingsInv'
  OBVIOUS
<1>1. KeptInv' /\ CallerInv'
  BY KeptStep, CallerStep
<1> QED
  BY <1>1
  DEF SettingsInv, SettingsTypeOK, KeptInv, CallerInv, CallerType, UpdateType

\* The settings, the change under way and the callers keep their types: no
\* merge of changes leaves settings that validate would refuse.
THEOREM SettingsTypeCorrect == SettingsSpec => []SettingsTypeOK
<1>1. SettingsInv => SettingsTypeOK
  BY DEF SettingsInv
<1> QED
  BY SettingsInitInv, SettingsStepInv, <1>1, PTL DEF SettingsSpec

\* Manager.Update: what was accepted is in memory and in config.json, field
\* by field, whoever else made changes, whatever failed, and over a crash.
THEOREM NoChangeLost == SettingsSpec => []ChangesKept
<1>1. SettingsInv => ChangesKept
  BY DEF SettingsInv
<1> QED
  BY SettingsInitInv, SettingsStepInv, <1>1, PTL DEF SettingsSpec

\* Engine.SourceFor: the client it returns is for settings that were in force
\* after it was called.
THEOREM ClientsCurrent == SettingsSpec => []ClientsFollow
<1>1. SettingsInv => ClientsFollow
  BY DEF SettingsInv
<1> QED
  BY SettingsInitInv, SettingsStepInv, <1>1, PTL DEF SettingsSpec

-----------------------------------------------------------------------------
(* Vault: the rows, the key file and the key of the server.                *)

FileKeys == {Empty, Missing} \cup 1..Foreign

CopyType ==
    [at : {"none", "snapshot", "manifest", "verified", "restoring",
           "cleared", "published"},
     rows : Rows, key : FileKeys, file : FileKeys, sessions : BOOLEAN,
     swapped : BOOLEAN]

DataType ==
    /\ cipher \in Rows
    /\ keyFile \in FileKeys
    /\ vault \in 0..Foreign
    /\ vaultAt \in {"closed", "creating", "loaded", "open"}
    /\ made \subseteq 1..MaxKeys
    /\ strayed \in BOOLEAN

\* All rows that are encrypted are encrypted with the same key.
OneKey == \A k, l \in Encrypted(cipher) : k = l

\* A key that was made here does not take the place of the one needed.
RightKey ==
    ~strayed /\ keyFile \in made /\ Encrypted(cipher) # {} => keyFile \in Encrypted(cipher)

\* A key is only made when no row needs one.
NoneNeeded == vaultAt = "creating" => Encrypted(cipher) = {}

\* The key that the server works with is the one in the file, unless an
\* operator has put another there; it opens the rows once the server is open.
WorksWith ==
    vaultAt \in {"loaded", "open"} =>
        /\ vault > 0
        /\ ~strayed /\ Unlocks(vault, cipher) /\ keyFile \in made =>
              keyFile = vault
        /\ vaultAt = "open" => Unlocks(vault, cipher)

CopyInv ==
    /\ spare \in FileKeys
    /\ {copying, backup, restored} \subseteq CopyType
    /\ copying.at # "published"
    /\ copying.at \in {"none", "snapshot", "manifest"} => ~copying.swapped
    /\ ~backup.swapped
    /\ copying.at \in {"verified", "restoring", "cleared"} =>
          Unlocks(copying.key, copying.rows)
    /\ copying.at = "verified" =>
          copying.swapped \/ copying.key \in {Missing, spare}
    /\ copying.at \in {"restoring", "cleared"} =>
          copying.swapped \/ copying.file = copying.key
    /\ copying.at = "cleared" => ~copying.sessions
    /\ CopiesOpen

DataInv == DataType /\ OneKey /\ RightKey /\ NoneNeeded /\ WorksWith

LEMMA ForeignKey == MaxKeys \in Nat /\ Foreign \in Nat /\ Foreign = MaxKeys + 1
BY VaultAssumption DEF Foreign

LEMMA NoCopyType ==
  /\ NoCopy \in CopyType /\ NoCopy.at = "none" /\ ~NoCopy.swapped
  /\ Missing \in FileKeys
BY ForeignKey DEF NoCopy, CopyType, Rows, FileKeys, Plain, Missing

LEMMA VaultInitInv == VaultInit => DataInv /\ CopyInv
<1> SUFFICES ASSUME VaultInit PROVE DataInv /\ CopyInv
  OBVIOUS
<1>1. Encrypted(cipher) = {}
  BY DEF VaultInit, Encrypted
<1>2. DataType
  <2>1. strayed \in BOOLEAN
    BY DEF VaultInit
  <2> QED
    BY <2>1, ForeignKey DEF VaultInit, DataType, Rows, FileKeys, Plain, Missing
<1>3. DataInv
  BY <1>1, <1>2
  DEF VaultInit, DataInv, OneKey, RightKey, NoneNeeded, WorksWith
<1>4. CopyInv
  BY NoCopyType DEF VaultInit, CopyInv, CopiesOpen
<1> QED
  BY <1>3, <1>4

LEMMA DataStep == DataInv /\ CopyInv /\ [VaultNext]_vaultVars => DataInv'
<1> SUFFICES ASSUME DataInv, CopyInv, [VaultNext]_vaultVars PROVE DataInv'
  OBVIOUS
<1> USE ForeignKey
<1>0. DataType
  BY DEF DataInv
<1>1. CASE CreateKey
  BY <1>0, <1>1
  DEF CreateKey, DataInv, DataType, OneKey, RightKey, NoneNeeded, WorksWith,
      FileKeys, Missing, Empty
<1>2. CASE WriteKey
  <2>1. PICK k \in (1..MaxKeys) \ made :
           keyFile' = k /\ made' = made \cup {k} /\ vault' = k
    BY <1>2 DEF WriteKey
  <2>2. Encrypted(cipher) = {} /\ cipher' = cipher /\ vaultAt' = "loaded"
    BY <1>2 DEF WriteKey, DataInv, NoneNeeded
  <2>3. DataType'
    <3>1. strayed' \in BOOLEAN
      BY <1>2 DEF WriteKey
    <3>2. /\ cipher' \in Rows /\ keyFile' \in FileKeys /\ vault' \in 0..Foreign
          /\ made' \subseteq 1..MaxKeys
      BY <1>0, <2>1, <2>2 DEF DataType, FileKeys
    <3> QED
      BY <2>2, <3>1, <3>2 DEF DataType
  <2> QED
    BY <2>1, <2>2, <2>3
    DEF DataInv, OneKey, RightKey, NoneNeeded, WorksWith
<1>3. CASE LoadKey
  <2>1. DataType' /\ vault' > 0
    BY <1>0, <1>3 DEF LoadKey, DataType, FileKeys, Missing, Empty
  <2> QED
    BY <1>3, <2>1
    DEF LoadKey, DataInv, OneKey, RightKey, NoneNeeded, WorksWith
<1>4. CASE Encrypt
  <2>1. vault > 0 /\ (~strayed /\ keyFile \in made => keyFile = vault)
    BY <1>4 DEF Encrypt, DataInv, WorksWith
  <2>2. DataType'
    BY <1>0, <1>4 DEF Encrypt, DataType, Rows
  <2>3. Encrypted(cipher') \subseteq {vault}
    BY <1>4 DEF Encrypt, Encrypted
  <2> QED
    BY <1>4, <2>1, <2>2, <2>3
    DEF Encrypt, DataInv, OneKey, RightKey, NoneNeeded, WorksWith, Unlocks
<1>5. ASSUME NEW a \in Logins, SaveSecret(a) PROVE DataInv'
  <2>1. /\ vault > 0 /\ (~strayed /\ keyFile \in made => keyFile = vault)
        /\ Encrypted(cipher) \subseteq {vault}
    BY <1>5 DEF SaveSecret, DataInv, WorksWith, Unlocks
  <2>2. DataType'
    BY <1>0, <1>5 DEF SaveSecret, DataType, Rows
  <2>3. Encrypted(cipher') \subseteq {vault}
    BY <1>0, <1>5, <2>1 DEF SaveSecret, Encrypted, DataType, Rows
  <2> QED
    BY <1>5, <2>1, <2>2, <2>3
    DEF SaveSecret, DataInv, OneKey, RightKey, NoneNeeded, WorksWith, Unlocks
<1>6. CASE StopServer
  BY <1>0, <1>6
  DEF StopServer, DataInv, DataType, OneKey, RightKey, NoneNeeded, WorksWith
<1>7. ASSUME NEW key \in {Missing, Foreign} \cup made \cup Encrypted(cipher),
             TouchKey(key)
      PROVE  DataInv'
  <2>1. key \in FileKeys
    BY <1>0 DEF DataType, FileKeys, Missing, Encrypted, Rows, Plain
  <2>2. /\ UNCHANGED <<cipher, made, vault, vaultAt>> /\ keyFile' = key
        /\ strayed' = (key \notin Encrypted(cipher))
    BY <1>7 DEF TouchKey
  <2>3. DataType'
    BY <1>0, <2>1, <2>2 DEF DataType
  <2> QED
    BY <2>1, <2>2, <2>3
    DEF DataInv, OneKey, RightKey, NoneNeeded, WorksWith, Unlocks
<1>8. CASE SwitchOver
  <2>1. /\ restored \in CopyType
        /\ Encrypted(restored.rows) \subseteq {restored.key}
        /\ ~restored.swapped => Encrypted(restored.rows) \subseteq {restored.file}
    BY <1>8 DEF SwitchOver, CopyInv, CopiesOpen, Unlocks
  <2>2. DataType'
    BY <1>0, <1>8, <2>1 DEF SwitchOver, DataType, CopyType
  <2>3. /\ \A k, l \in Encrypted(cipher') : k = l
        /\ ~strayed' => Encrypted(cipher') \subseteq {keyFile'}
        /\ vaultAt' = "closed"
    BY <1>8, <2>1 DEF SwitchOver
  <2> QED
    BY <2>2, <2>3 DEF DataInv, OneKey, RightKey, NoneNeeded, WorksWith
<1>9. CASE UNCHANGED dataVars
  BY <1>0, <1>9
  DEF dataVars, DataInv, DataType, OneKey, RightKey, NoneNeeded, WorksWith
<1>10. ASSUME NEW key, TouchSpare(key) PROVE DataInv'
  BY <1>9, <1>10 DEF TouchSpare
<1>11. CASE \/ Snapshot \/ HashKey \/ PublishBackup \/ VerifyForRestore
            \/ CopyKey \/ EndSessions \/ PublishRestored \/ CopyFails
  BY <1>9, <1>11
  DEF Snapshot, HashKey, PublishBackup, VerifyForRestore, CopyKey, EndSessions,
      PublishRestored, CopyFails
<1>12. CASE UNCHANGED vaultVars
  BY <1>9, <1>12 DEF vaultVars, dataVars
<1> QED
  BY <1>1, <1>2, <1>3, <1>4, <1>5, <1>6, <1>7, <1>8, <1>10, <1>11, <1>12
  DEF VaultNext

\* Backups and restores.
LEMMA CopyStep == DataInv /\ CopyInv /\ [VaultNext]_vaultVars => CopyInv'
<1> SUFFICES ASSUME DataInv, CopyInv, [VaultNext]_vaultVars PROVE CopyInv'
  OBVIOUS
<1> USE NoCopyType
<1>0. /\ copying \in CopyType /\ backup \in CopyType /\ restored \in CopyType
      /\ cipher \in Rows /\ keyFile \in FileKeys /\ spare \in FileKeys
  BY DEF CopyInv, DataInv, DataType
<1>1. CASE UNCHANGED copyVars
  BY <1>1 DEF copyVars, CopyInv, CopiesOpen
<1>2. CASE SwitchOver \/ CopyFails
  BY <1>2 DEF SwitchOver, CopyFails, CopyInv, CopiesOpen
<1>3. CASE Snapshot
  <2>1. /\ copying' \in CopyType /\ copying'.at = "snapshot"
        /\ ~copying'.swapped
    BY <1>0, <1>3 DEF Snapshot, CopyType
  <2> QED
    BY <1>3, <2>1 DEF Snapshot, CopyInv, CopiesOpen
<1>4. CASE HashKey
  <2>1. /\ copying' \in CopyType /\ copying'.at = "manifest"
        /\ copying'.swapped = copying.swapped /\ ~copying.swapped
    BY <1>0, <1>4 DEF HashKey, CopyType, CopyInv
  <2> QED
    BY <1>4, <2>1 DEF HashKey, CopyInv, CopiesOpen
<1>5. CASE PublishBackup
  <2>1. /\ backup' \in CopyType /\ backup'.swapped = copying.swapped
        /\ backup'.rows = copying.rows /\ backup'.key = copying.key
    BY <1>0, <1>5 DEF PublishBackup, CopyType
  <2>2. ~copying.swapped
    BY <1>5 DEF PublishBackup, CopyInv
  <2> QED
    BY <1>5, <2>1, <2>2 DEF PublishBackup, Verified, CopyInv, CopiesOpen
<1>6. CASE VerifyForRestore
  <2>1. /\ copying' \in CopyType /\ copying'.at = "verified"
        /\ copying'.rows = backup.rows /\ copying'.key = backup.key
    BY <1>0, <1>6 DEF VerifyForRestore, CopyType
  <2>2. backup.key \in {Missing, spare} /\ Unlocks(backup.key, backup.rows)
    BY <1>6 DEF VerifyForRestore, Verified
  <2> QED
    BY <1>6, <2>1, <2>2 DEF VerifyForRestore, CopyInv, CopiesOpen
<1>7. CASE CopyKey
  <2>1. PICK beside \in FileKeys :
           beside = IF copying.key = Missing THEN Missing ELSE spare
    BY <1>0
  <2>2. copying' = [copying EXCEPT !.at = "restoring", !.file = beside]
    BY <1>7, <2>1 DEF CopyKey
  <2>3. /\ copying' \in CopyType /\ copying'.at = "restoring"
        /\ copying'.rows = copying.rows /\ copying'.key = copying.key
        /\ copying'.file = beside /\ copying'.swapped = copying.swapped
    BY <1>0, <2>2 DEF CopyType
  <2>4. /\ Unlocks(copying.key, copying.rows)
        /\ copying.swapped \/ beside = copying.key
    BY <1>7, <2>1 DEF CopyKey, CopyInv
  <2> QED
    BY <1>7, <2>3, <2>4 DEF CopyKey, CopyInv, CopiesOpen
<1>8. CASE EndSessions
  <2>1. /\ copying' \in CopyType /\ copying'.at = "cleared"
        /\ copying'.rows = copying.rows /\ copying'.key = copying.key
        /\ copying'.file = copying.file /\ copying'.swapped = copying.swapped
        /\ ~copying'.sessions
    BY <1>0, <1>8 DEF EndSessions, CopyType
  <2> QED
    BY <1>8, <2>1 DEF EndSessions, CopyInv, CopiesOpen
<1>9. CASE PublishRestored
  <2>1. /\ restored' \in CopyType
        /\ restored'.rows = copying.rows /\ restored'.key = copying.key
        /\ restored'.file = copying.file /\ restored'.swapped = copying.swapped
        /\ restored'.sessions = copying.sessions
    BY <1>0, <1>9 DEF PublishRestored, CopyType
  <2> QED
    BY <1>9, <2>1 DEF PublishRestored, CopyInv, CopiesOpen
<1>10. ASSUME NEW key \in {Empty, Missing, Foreign} \cup made, TouchSpare(key)
       PROVE  CopyInv'
  <2>1. spare' \in FileKeys
    <3>1. spare' = key
      BY <1>10 DEF TouchSpare
    <3>2. key \in FileKeys
      BY ForeignKey DEF DataInv, DataType, FileKeys, Missing, Empty
    <3> QED
      BY <3>1, <3>2
  <2>2. CASE copying.at = "verified"
    <3>1. /\ copying' \in CopyType /\ copying'.at = copying.at
          /\ copying'.rows = copying.rows /\ copying'.key = copying.key
          /\ copying'.swapped
      BY <1>0, <1>10, <2>2 DEF TouchSpare, CopyType
    <3> QED
      BY <1>10, <2>1, <2>2, <3>1 DEF TouchSpare, CopyInv, CopiesOpen
  <2>3. CASE copying.at # "verified"
    BY <1>10, <2>1, <2>3 DEF TouchSpare, CopyInv, CopiesOpen
  <2> QED
    BY <2>2, <2>3
<1>11. ASSUME NEW a, SaveSecret(a) \/ TouchKey(a) PROVE CopyInv'
  BY <1>1, <1>11 DEF SaveSecret, TouchKey
<1>12. CASE CreateKey \/ WriteKey \/ LoadKey \/ Encrypt \/ StopServer
            \/ UNCHANGED vaultVars
  BY <1>1, <1>12
  DEF CreateKey, WriteKey, LoadKey, Encrypt, StopServer, vaultVars, copyVars
<1> QED
  BY <1>2, <1>3, <1>4, <1>5, <1>6, <1>7, <1>8, <1>9, <1>10, <1>11, <1>12
  DEF VaultNext

LEMMA VaultInvariance == VaultSpec => [](DataInv /\ CopyInv)
BY VaultInitInv, DataStep, CopyStep, PTL DEF VaultSpec

\* Rows, key file, key and the stage of a copy keep their types.
THEOREM VaultTypeCorrect == VaultSpec => []VaultTypeOK
<1>1. DataInv /\ CopyInv => VaultTypeOK
  BY DEF DataInv, DataType, CopyInv, CopyType, VaultTypeOK, FileKeys
<1> QED
  BY VaultInvariance, <1>1, PTL

\* initVault: one key opens all rows, and it is not replaced by a new one,
\* wherever the program stops and whatever happens to the key file.
THEOREM OneKeyForAll == VaultSpec => []OneKeyOpensAll
<1>1. DataInv => OneKeyOpensAll
  <2> SUFFICES ASSUME DataInv PROVE OneKeyOpensAll
    OBVIOUS
  <2>1. CASE Encrypted(cipher) = {}
    BY <2>1, FS_EmptySet DEF OneKeyOpensAll
  <2>2. ASSUME NEW k \in Encrypted(cipher)
        PROVE  Cardinality(Encrypted(cipher)) = 1
    <3>1. Encrypted(cipher) = {k}
      BY <2>2 DEF DataInv, OneKey
    <3> QED
      BY <3>1, FS_Singleton
  <2> QED
    BY <2>1, <2>2 DEF DataInv, RightKey, OneKeyOpensAll
<1> QED
  BY VaultInvariance, <1>1, PTL

\* Backup and RestoreBackup: what is published opens with the key it names,
\* although rows and key are read one after the other; a restored directory
\* has that key, unless it was changed between its two readings.
THEOREM CopiesReadable == VaultSpec => []CopiesOpen
<1>1. CopyInv => CopiesOpen
  BY DEF CopyInv
<1> QED
  BY VaultInvariance, <1>1, PTL

-----------------------------------------------------------------------------
(* Health: the invariant.                                                  *)

InRun == {"print", "look", "release", "append"}
HealthResults ==
    {"none", "skipped", "error", "canceled", "stale", "issues", "checked"}

EntryType ==
    [comic : Books, status : HealthResults, from : Nat,
     chapters : ChapterSets, jobs : {0, 1}]

CheckType ==
    [at : {"idle", "next"} \cup InRun, left : SUBSET Books,
     comic : SUBSET Books, from : Nat, next : 1..(Chapters + 1),
     found : ChapterSets, result : HealthResults]

\* Version v of the files of comic b has exactly this damage.
Whole(b, v, damage) == v \in 1..Version(b) /\ damage = file[b][v]

FilesFine ==
    \A b \in Books :
        /\ file[b] \in Seq(ChapterSets) /\ Version(b) > 0
        /\ job[b] \in [at : {"none", "queued"}, chapters : ChapterSets]

\* What the goroutine has found of the comic it examines, as long as the
\* files have not changed under it, and in the end only if they have not.
CheckFine ==
    /\ check \in CheckType
    /\ check.at \in InRun => \E b \in Books : check.comic = {b}
    /\ check.at \in {"next", "print"} =>
          check.found = {} /\ check.next = 1 /\ check.result = "none"
    /\ \A b \in Books : check.comic = {b} =>
          /\ check.at = "look" =>
                /\ check.from \in 1..Version(b)
                /\ Version(b) = check.from =>
                      check.found = Damage(b) \cap (1..(check.next - 1))
          /\ check.at \in {"release", "append"} /\ check.result = "issues" =>
                Whole(b, check.from, check.found)

EntryFine(r) ==
    /\ r \in EntryType
    /\ r.status = "issues" => Whole(r.comic, r.from, r.chapters)
    /\ r.jobs > 0 => r.status = "issues"

ReportFine ==
    /\ report \in [id : Nat, status : {"none", "running", "done", "canceled"},
                   results : Seq(EntryType)]
    /\ \A i \in DOMAIN report.results : EntryFine(report.results[i])

\* While a repair is under way the report is as it was when it began.
RepairFine ==
    /\ repair \in [entry : Nat, seen : Nat]
    /\ Held =>
          /\ repair.entry \in DOMAIN report.results
          /\ Entry.status = "issues" /\ Entry.jobs = 0
          /\ Whole(Entry.comic, repair.seen, Entry.chapters)

IdleWhenOver == check.at = "idle" <=> report.status # "running"

HealthInv ==
    FilesFine /\ CheckFine /\ ReportFine /\ RepairFine /\ IdleWhenOver

LEMMA NothingYet ==
  /\ NoJob \in [at : {"none", "queued"}, chapters : ChapterSets]
  /\ NoCheck \in CheckType /\ NoCheck.at = "idle" /\ NoCheck.comic = {}
  /\ NoCheck.found = {} /\ NoCheck.next = 1 /\ NoCheck.result = "none"
  /\ NoRepair \in [entry : Nat, seen : Nat] /\ NoRepair.entry = 0
<1>1. Chapters \in Nat /\ 1 \in 1..(Chapters + 1)
  BY HealthAssumption
<1> QED
  BY <1>1
  DEF NoJob, NoCheck, NoRepair, CheckType, ChapterSets, InRun, HealthResults

LEMMA HealthInitInv == HealthInit => HealthInv
<1> SUFFICES ASSUME HealthInit PROVE HealthInv
  OBVIOUS
<1> USE NothingYet
<1>1. {1} \in ChapterSets
  BY HealthAssumption DEF ChapterSets
<1>2. FilesFine
  BY <1>1 DEF HealthInit, FilesFine, Version
<1>3. CheckFine
  BY DEF HealthInit, CheckFine, InRun
<1>4. ReportFine
  BY DEF HealthInit, ReportFine
<1>5. RepairFine /\ IdleWhenOver
  BY DEF HealthInit, RepairFine, Held, IdleWhenOver
<1> QED
  BY <1>2, <1>3, <1>4, <1>5 DEF HealthInv

-----------------------------------------------------------------------------
(* Health: versions of the files are added, and the older ones stay.       *)

FilesKept ==
    \A b \in Books :
        \/ file'[b] = file[b]
        \/ /\ Len(file'[b]) = Len(file[b]) + 1
           /\ \A v \in 1..Len(file[b]) : file'[b][v] = file[b][v]

LEMMA ChangedKeeps ==
  ASSUME FilesFine, NEW b \in Books, NEW d \in ChapterSets, Changed(b, d)
  PROVE  /\ FilesKept
         /\ \A c \in Books : file'[c] \in Seq(ChapterSets) /\ Len(file'[c]) > 0
<1>1. \A c \in Books : file[c] \in Seq(ChapterSets) /\ Len(file[c]) > 0
  BY DEF FilesFine, Version
<1>2. \A c \in Books :
         file'[c] = file[c] \/ (c = b /\ file'[c] = Append(file[b], d))
  BY DEF Changed
<1> DEFINE new == Append(file[b], d)
<1>3. /\ new \in Seq(ChapterSets) /\ Len(new) = Len(file[b]) + 1
      /\ \A v \in 1..Len(file[b]) : new[v] = file[b][v]
  BY <1>1
<1>4. Len(file[b]) \in Nat
  BY <1>1
<1> HIDE DEF new
<1>5. \A c \in Books : file'[c] = file[c] \/ (c = b /\ file'[c] = new)
  BY <1>2 DEF new
<1>6. FilesKept
  BY <1>3, <1>5 DEF FilesKept
<1>7. \A c \in Books : file'[c] \in Seq(ChapterSets) /\ Len(file'[c]) > 0
  BY <1>1, <1>3, <1>4, <1>5
<1> QED
  BY <1>6, <1>7

LEMMA WholeStays ==
  ASSUME FilesFine, FilesKept, NEW b \in Books, NEW v, NEW d, Whole(b, v, d)
  PROVE  Whole(b, v, d)'
<1>1. Len(file[b]) \in Nat
  BY DEF FilesFine
<1> QED
  BY <1>1 DEF FilesKept, Whole, Version

\* A step that changes files only, and perhaps a download.
LEMMA FilesStep ==
  ASSUME HealthInv, FilesKept, UNCHANGED <<report, check, repair>>
  PROVE  CheckFine' /\ ReportFine' /\ RepairFine' /\ IdleWhenOver'
<1>0. FilesFine /\ CheckFine /\ ReportFine /\ RepairFine /\ IdleWhenOver
  BY DEF HealthInv
<1>1. CheckFine'
  <2> SUFFICES ASSUME NEW b \in Books, check.comic = {b}
               PROVE  /\ check.at = "look" =>
                            /\ check.from \in 1..Version(b)'
                            /\ Version(b)' = check.from =>
                                  check.found =
                                      Damage(b)' \cap (1..(check.next - 1))
                      /\ check.at \in {"release", "append"}
                         /\ check.result = "issues" =>
                            Whole(b, check.from, check.found)'
    BY <1>0 DEF CheckFine
  <2>1. CASE check.at = "look"
    <3>1. /\ check.from \in 1..Version(b) /\ Version(b) \in Nat
          /\ Version(b) = check.from =>
                check.found = Damage(b) \cap (1..(check.next - 1))
      BY <1>0, <2>1 DEF CheckFine, FilesFine, Version
    <3>2. \/ file'[b] = file[b]
          \/ Len(file'[b]) = Len(file[b]) + 1
      BY DEF FilesKept
    <3> QED
      BY <2>1, <3>1, <3>2 DEF Version, Damage
  <2>2. CASE check.at \in {"release", "append"} /\ check.result = "issues"
    <3>1. Whole(b, check.from, check.found)
      BY <1>0, <2>2 DEF CheckFine
    <3> QED
      BY <1>0, <2>2, <3>1, WholeStays
  <2> QED
    BY <2>1, <2>2
<1>2. ReportFine'
  <2> SUFFICES ASSUME NEW i \in DOMAIN report.results
               PROVE  EntryFine(report.results[i])'
    BY <1>0 DEF ReportFine
  <2>1. EntryFine(report.results[i])
    BY <1>0 DEF ReportFine
  <2> QED
    BY <1>0, <2>1, WholeStays DEF EntryFine, EntryType
<1>3. RepairFine'
  <2>1. CASE Held
    <3>1. Entry \in EntryType
      BY <1>0, <2>1 DEF RepairFine, ReportFine, EntryFine, Entry
    <3>2. Entry' = Entry /\ Held' = Held
      BY DEF Entry, Held
    <3>3. Entry.comic \in Books /\ Whole(Entry.comic, repair.seen, Entry.chapters)
      BY <1>0, <2>1, <3>1 DEF RepairFine, EntryType
    <3>4. Whole(Entry.comic, repair.seen, Entry.chapters)'
      BY <1>0, <3>2, <3>3, WholeStays
    <3> QED
      BY <1>0, <3>2, <3>4 DEF RepairFine
  <2>2. CASE ~Held
    BY <1>0, <2>2 DEF RepairFine, Held
  <2> QED
    BY <2>1, <2>2
<1>4. IdleWhenOver'
  BY <1>0 DEF IdleWhenOver
<1> QED
  BY <1>1, <1>2, <1>3, <1>4

-----------------------------------------------------------------------------
(* Health: the goroutine of a run.                                         *)

\* A step of it that examines: files, report and repairs are left alone.
LEMMA ExamineStep ==
  ASSUME HealthInv, UNCHANGED <<file, job, report, repair>>, CheckFine',
         check.at # "idle", check'.at # "idle"
  PROVE  HealthInv'
<1>1. FilesFine' /\ ReportFine' /\ RepairFine'
  BY DEF HealthInv, FilesFine, ReportFine, RepairFine, EntryFine, Whole,
         Version, Held, Entry
<1>2. IdleWhenOver'
  BY DEF HealthInv, IdleWhenOver
<1> QED
  BY <1>1, <1>2 DEF HealthInv

LEMMA BookIs ==
  ASSUME NEW b \in Books, check.comic = {b}
  PROVE  Book = b
BY DEF Book

LEMMA InRunBook ==
  ASSUME CheckFine, check.at \in InRun
  PROVE  Book \in Books /\ check.comic = {Book}
BY BookIs DEF CheckFine

LEMMA ReserveStep ==
  ASSUME HealthInv, NEW b \in Books, Reserve(b)
  PROVE  HealthInv'
<1>0. CheckFine /\ check \in CheckType
  BY DEF HealthInv, CheckFine
<1>1. check.at = "next" /\ check.found = {} /\ check.next = 1
      /\ check.result = "none"
  BY <1>0 DEF Reserve, CheckFine
<1> DEFINE g == [check EXCEPT !.at = "append", !.left = @ \ {b},
                              !.comic = {b}, !.result = "skipped"]
           h == [check EXCEPT !.at = "print", !.left = @ \ {b}, !.comic = {b}]
<1>2. /\ h \in CheckType /\ h.at = "print" /\ h.comic = {b}
      /\ h.found = {} /\ h.next = 1 /\ h.result = "none"
  BY <1>0, <1>1 DEF CheckType, InRun
<1> DEFINE k == [check EXCEPT !.at = "append", !.left = @ \ {b}, !.comic = {b}]
<1>3. /\ k \in CheckType /\ k.at = "append" /\ k.comic = {b}
  BY <1>0, <1>1 DEF CheckType, InRun
<1>4. g = [k EXCEPT !.result = "skipped"]
  BY <1>0 DEF CheckType
<1> HIDE DEF k
<1>5. /\ g \in CheckType /\ g.at = "append" /\ g.comic = {b}
      /\ g.result = "skipped"
  <2> HIDE DEF g
  <2> QED
    BY <1>3, <1>4 DEF CheckType, HealthResults
<1>6. check' \in {g, h}
  BY DEF Reserve
<1> HIDE DEF g, h
<1>7. CheckFine'
  BY <1>2, <1>5, <1>6 DEF CheckFine, InRun
<1> QED
  BY <1>1, <1>2, <1>5, <1>6, <1>7, ExamineStep DEF Reserve

LEMMA FingerprintStep ==
  ASSUME HealthInv, Fingerprint
  PROVE  HealthInv'
<1>0. /\ CheckFine /\ check \in CheckType /\ check.at = "print"
      /\ check.found = {} /\ check.next = 1
  BY DEF HealthInv, CheckFine, Fingerprint
<1>1. Book \in Books /\ check.comic = {Book}
  BY <1>0, InRunBook DEF InRun
<1>2. Version(Book) \in Nat /\ Version(Book) > 0
  BY <1>1 DEF HealthInv, FilesFine, Version
<1>3. PICK b \in Books : b = Book
  BY <1>1
<1> DEFINE g == [check EXCEPT !.at = "look", !.from = Version(b)]
           h == [check EXCEPT !.at = "release", !.result = "error"]
<1>4. /\ g \in CheckType /\ g.at = "look" /\ g.comic = {b}
      /\ g.from = Version(b) /\ g.found = {} /\ g.next = 1
  BY <1>0, <1>1, <1>2, <1>3 DEF CheckType, InRun
<1>5. /\ h \in CheckType /\ h.at = "release" /\ h.comic = {b}
      /\ h.result = "error"
  BY <1>0, <1>1, <1>3 DEF CheckType, InRun, HealthResults
<1>6. check' \in {g, h} /\ UNCHANGED file
  BY <1>3 DEF Fingerprint
<1> HIDE DEF g, h
<1>7. CheckFine'
  <2>1. CASE check' = g
    BY <1>2, <1>3, <1>4, <1>6, <2>1 DEF CheckFine, InRun, Version
  <2>2. CASE check' = h
    BY <1>5, <2>2 DEF CheckFine, InRun
  <2> QED
    BY <1>6, <2>1, <2>2
<1> QED
  BY <1>0, <1>4, <1>5, <1>6, <1>7, ExamineStep DEF Fingerprint

LEMMA ChapterStep ==
  ASSUME HealthInv, Examine
  PROVE  HealthInv'
<1>0. /\ CheckFine /\ check \in CheckType /\ check.at = "look"
      /\ check.next <= Chapters
  BY DEF HealthInv, CheckFine, Examine
<1>1. PICK b \in Books : b = Book /\ check.comic = {b}
  BY <1>0, InRunBook DEF InRun
<1>2. /\ Version(b) = check.from =>
             check.found = Damage(b) \cap (1..(check.next - 1))
      /\ check.from \in 1..Version(b)
  BY <1>0, <1>1 DEF CheckFine
<1>3. /\ check.next \in 1..(Chapters + 1) /\ check.found \in ChapterSets
      /\ check.next + 1 \in 1..(Chapters + 1)
  BY <1>0, HealthAssumption DEF CheckType
<1> DEFINE found == check.found \cup (Damage(b) \cap {check.next})
           g == [check EXCEPT !.at = "release", !.result = "canceled"]
           h == [check EXCEPT !.next = @ + 1, !.found = found]
<1>4. found \in ChapterSets
  BY <1>0, <1>3, HealthAssumption DEF ChapterSets
<1>5. /\ g \in CheckType /\ g.at = "release" /\ g.comic = {b}
      /\ g.result = "canceled"
  BY <1>0, <1>1 DEF CheckType, InRun, HealthResults
<1>6. /\ h \in CheckType /\ h.at = "look" /\ h.comic = {b}
      /\ h.from = check.from /\ h.next = check.next + 1 /\ h.found = found
  <2> HIDE DEF found
  <2> QED
    BY <1>0, <1>1, <1>3, <1>4 DEF CheckType
<1>7. check' \in {g, h} /\ UNCHANGED file
  BY <1>1 DEF Examine
<1>8. Version(b) = check.from =>
         h.found = Damage(b) \cap (1..(h.next - 1))
  <2> HIDE DEF h
  <2> QED
    BY <1>2, <1>3, <1>6
<1> HIDE DEF g, h, found
<1>9. CheckFine'
  <2>1. CASE check' = g
    BY <1>5, <2>1 DEF CheckFine, InRun
  <2>2. CASE check' = h
    <3>0. Version(b)' = Version(b) /\ Damage(b)' = Damage(b)
      BY <1>7 DEF Version, Damage
    <3>1. /\ check' \in CheckType /\ check'.at = "look" /\ check'.comic = {b}
          /\ check'.from \in 1..Version(b)'
          /\ Version(b)' = check'.from =>
                check'.found = Damage(b)' \cap (1..(check'.next - 1))
      BY <1>2, <1>6, <1>8, <2>2, <3>0
    <3>2. \A c \in Books : check'.comic = {c} => c = b
      BY <3>1
    <3> QED
      BY <3>1, <3>2 DEF CheckFine
  <2> QED
    BY <1>7, <2>1, <2>2
<1> QED
  BY <1>0, <1>5, <1>6, <1>7, <1>9, ExamineStep DEF Examine

LEMMA CompareStep ==
  ASSUME HealthInv, Compare
  PROVE  HealthInv'
<1>0. /\ CheckFine /\ check \in CheckType /\ check.at = "look"
      /\ check.next > Chapters
  BY DEF HealthInv, CheckFine, Compare
<1>1. PICK b \in Books : b = Book /\ check.comic = {b}
  BY <1>0, InRunBook DEF InRun
<1>2. /\ Version(b) = check.from =>
             check.found = Damage(b) \cap (1..(check.next - 1))
      /\ check.from \in 1..Version(b)
  BY <1>0, <1>1 DEF CheckFine
<1>3. check.next - 1 = Chapters
  BY <1>0, HealthAssumption DEF CheckType
<1>4. Damage(b) \subseteq 1..Chapters
  BY <1>1, <1>2 DEF HealthInv, FilesFine, Damage, Version, ChapterSets
<1>5. Version(b) = check.from => check.found = file[b][check.from]
  BY <1>2, <1>3, <1>4 DEF Damage
<1> DEFINE result == IF stop THEN "canceled"
                     ELSE IF Version(b) # check.from THEN "stale"
                     ELSE IF check.found # {} THEN "issues"
                     ELSE "checked"
           g == [check EXCEPT !.at = "release", !.result = result]
<1>6. result \in HealthResults /\ (result = "issues" => Version(b) = check.from)
  BY DEF HealthResults
<1>7. check' = g /\ UNCHANGED file
  BY <1>1 DEF Compare
<1> HIDE DEF result
<1>8. /\ g \in CheckType /\ g.at = "release" /\ g.comic = {b}
      /\ g.result = result /\ g.from = check.from /\ g.found = check.found
  BY <1>0, <1>1, <1>6 DEF CheckType, InRun
<1> HIDE DEF g
<1>9. CheckFine'
  BY <1>2, <1>5, <1>6, <1>7, <1>8 DEF CheckFine, InRun, Whole, Version
<1> QED
  BY <1>0, <1>7, <1>8, <1>9, ExamineStep DEF Compare

LEMMA ReleaseStep ==
  ASSUME HealthInv, Release
  PROVE  HealthInv'
<1>0. CheckFine /\ check \in CheckType /\ check.at = "release"
  BY DEF HealthInv, CheckFine, Release
<1> DEFINE g == [check EXCEPT !.at = "append"]
<1>1. /\ g \in CheckType /\ g.at = "append" /\ g.comic = check.comic
      /\ g.result = check.result /\ g.from = check.from
      /\ g.found = check.found
  BY <1>0 DEF CheckType, InRun
<1>2. check' = g /\ UNCHANGED file
  BY DEF Release
<1> HIDE DEF g
<1>3. CheckFine'
  BY <1>0, <1>1, <1>2 DEF CheckFine, InRun, Whole, Version
<1> QED
  BY <1>0, <1>1, <1>2, <1>3, ExamineStep DEF Release

\* A step of the goroutine that changes the report; no repair is under way.
LEMMA ReportStep ==
  ASSUME HealthInv, ~Held, UNCHANGED <<file, job, repair>>, ReportFine',
         check' \in CheckType, check'.at \in {"idle", "next"},
         check'.found = {}, check'.next = 1, check'.result = "none",
         check'.at = "idle" <=> report'.status # "running"
  PROVE  HealthInv'
<1>1. FilesFine'
  BY DEF HealthInv, FilesFine, Version
<1>2. CheckFine'
  BY DEF CheckFine, InRun
<1>3. RepairFine' /\ IdleWhenOver'
  BY DEF HealthInv, RepairFine, Held, IdleWhenOver
<1> QED
  BY <1>1, <1>2, <1>3 DEF HealthInv

LEMMA StartStep ==
  ASSUME HealthInv, NEW books \in SUBSET Books, StartHealth(books)
  PROVE  HealthInv'
<1>1. /\ [NoCheck EXCEPT !.at = "next", !.left = books] \in CheckType
      /\ [NoCheck EXCEPT !.at = "next", !.left = books].at = "next"
      /\ [NoCheck EXCEPT !.at = "next", !.left = books].found = {}
      /\ [NoCheck EXCEPT !.at = "next", !.left = books].next = 1
      /\ [NoCheck EXCEPT !.at = "next", !.left = books].result = "none"
  BY NothingYet DEF CheckType
<1>2. check' = [NoCheck EXCEPT !.at = "next", !.left = books]
  BY DEF StartHealth
<1>3. report'.status = "running" /\ report'.results = <<>>
  BY DEF StartHealth
<1>4. ReportFine'
  <2>1. report.id + 1 \in Nat
    BY DEF HealthInv, ReportFine
  <2> QED
    BY <2>1 DEF StartHealth, ReportFine
<1> QED
  BY <1>1, <1>2, <1>3, <1>4, ReportStep DEF StartHealth

LEMMA RunOverStep ==
  ASSUME HealthInv, HealthOver
  PROVE  HealthInv'
<1> DEFINE status == IF stop THEN "canceled" ELSE "done"
<1>1. ReportFine /\ status \in {"canceled", "done"}
  BY DEF HealthInv
<1>2. report' = [report EXCEPT !.status = status] /\ file' = file
  BY DEF HealthOver
<1> HIDE DEF status
<1>3. /\ report' \in [id : Nat,
                      status : {"none", "running", "done", "canceled"},
                      results : Seq(EntryType)]
      /\ report'.results = report.results /\ report'.status = status
  BY <1>1, <1>2 DEF ReportFine
<1>4. ReportFine'
  BY <1>1, <1>2, <1>3 DEF ReportFine, EntryFine, Whole, Version
<1> QED
  BY <1>1, <1>3, <1>4, NothingYet, ReportStep DEF HealthOver

LEMMA AppendStep ==
  ASSUME HealthInv, AppendResult
  PROVE  HealthInv'
<1>0. /\ CheckFine /\ check \in CheckType /\ check.at = "append"
      /\ ReportFine
  BY DEF HealthInv, CheckFine, AppendResult
<1>1. PICK b \in Books : b = Book /\ check.comic = {b}
  BY <1>0, InRunBook DEF InRun
<1>a. PICK r : r = [comic |-> b, status |-> check.result,
                    from |-> check.from, chapters |-> check.found, jobs |-> 0]
  OBVIOUS
<1>b. PICK results : results = Append(report.results, r)
  OBVIOUS
<1> DEFINE g == [NoCheck EXCEPT !.at = "next", !.left = check.left]
<1>2. EntryFine(r)
  BY <1>0, <1>1, <1>a DEF EntryFine, EntryType, CheckType, CheckFine
<1>3. r \in EntryType
  BY <1>2 DEF EntryFine
<1>4. /\ report' = [report EXCEPT !.results = results]
      /\ check' = g /\ file' = file
  BY <1>1, <1>a, <1>b DEF AppendResult
<1>5. /\ report.results \in Seq(EntryType) /\ results \in Seq(EntryType)
      /\ \A i \in DOMAIN results :
            results[i] = r \/ (i \in DOMAIN report.results
                               /\ results[i] = report.results[i])
  BY <1>0, <1>3, <1>b DEF ReportFine
<1>6. /\ report' \in [id : Nat,
                      status : {"none", "running", "done", "canceled"},
                      results : Seq(EntryType)]
      /\ report'.results = results /\ report'.status = report.status
  BY <1>0, <1>4, <1>5 DEF ReportFine
<1>7. ReportFine'
  <2>1. \A i \in DOMAIN results : EntryFine(results[i])
    BY <1>0, <1>2, <1>5 DEF ReportFine
  <2>2. \A i \in DOMAIN results : EntryFine(results[i])'
    BY <1>4, <1>6, <2>1 DEF EntryFine, Whole, Version
  <2> QED
    BY <1>6, <2>2 DEF ReportFine
<1>8. check.left \in SUBSET Books
  BY <1>0 DEF CheckType
<1>9. /\ g \in CheckType /\ g.at = "next" /\ g.found = {} /\ g.next = 1
      /\ g.result = "none"
  BY <1>8, NothingYet DEF CheckType
<1> HIDE DEF g
<1>10. report.status = "running"
  BY <1>0 DEF HealthInv, IdleWhenOver
<1> QED
  BY <1>4, <1>6, <1>7, <1>9, <1>10, ReportStep DEF AppendResult

-----------------------------------------------------------------------------
(* Health: downloads, and repairs.                                         *)

JobType == [at : {"none", "queued"}, chapters : ChapterSets]

\* A step that leaves files, report, goroutine and repair alone.
LEMMA JobStep ==
  ASSUME HealthInv, UNCHANGED <<file, report, check, repair>>,
         \A b \in Books : job'[b] \in JobType
  PROVE  HealthInv'
<1>1. FilesFine'
  BY DEF HealthInv, FilesFine, Version, JobType
<1>2. FilesKept
  BY DEF FilesKept
<1> QED
  BY <1>1, <1>2, FilesStep DEF HealthInv

\* What is asked of job in the type invariant: its entries, one by one.
LEMMA JobUpdate ==
  ASSUME FilesFine, NEW b \in Books, NEW j \in JobType,
         job' = [job EXCEPT ![b] = j]
  PROVE  \A c \in Books : job'[c] \in JobType
<1>1. \A c \in Books : job'[c] = job[c] \/ job'[c] = j
  OBVIOUS
<1> QED
  BY <1>1 DEF FilesFine, JobType

LEMMA DownloadStep ==
  ASSUME HealthInv, NEW b \in Books,
         \/ Download(b) \/ DownloadEnds(b)
         \/ \E damage \in ChapterSets : FilesChange(b, damage)
  PROVE  HealthInv'
<1>0. FilesFine /\ \A c \in Books : job[c] \in JobType
  BY DEF HealthInv, FilesFine, JobType
<1>1. CASE Download(b)
  <2>1. [at |-> "queued", chapters |-> 1..Chapters] \in JobType
    BY DEF JobType, ChapterSets
  <2> QED
    BY <1>0, <1>1, <2>1, JobUpdate, JobStep DEF Download
<1>2. ASSUME NEW d \in ChapterSets, Changed(b, d),
             UNCHANGED <<report, check, repair>>,
             \A c \in Books : job'[c] \in JobType
      PROVE  HealthInv'
  <2>1. /\ FilesKept
        /\ \A c \in Books : file'[c] \in Seq(ChapterSets) /\ Len(file'[c]) > 0
    BY <1>0, <1>2, ChangedKeeps
  <2>2. FilesFine'
    BY <1>2, <2>1 DEF FilesFine, Version, JobType
  <2> QED
    BY <1>2, <2>1, <2>2, FilesStep DEF HealthInv
<1>3. CASE DownloadEnds(b)
  <2>1. \A c \in Books : job'[c] \in JobType
    BY <1>0, <1>3, NothingYet, JobUpdate DEF DownloadEnds, JobType
  <2>2. Damage(b) \in ChapterSets
    BY <1>0 DEF FilesFine, Damage, Version
  <2>3. Damage(b) \ job[b].chapters \in ChapterSets
    BY <2>2 DEF ChapterSets
  <2>4. CASE file' = file
    BY <1>3, <2>1, <2>4, JobStep DEF DownloadEnds
  <2>5. CASE Changed(b, Damage(b) \ job[b].chapters)
    BY <1>2, <1>3, <2>1, <2>3, <2>5 DEF DownloadEnds
  <2> QED
    BY <1>3, <2>4, <2>5 DEF DownloadEnds
<1>4. ASSUME NEW d \in ChapterSets, FilesChange(b, d) PROVE HealthInv'
  BY <1>0, <1>2, <1>4 DEF FilesChange
<1> QED
  BY <1>1, <1>3, <1>4

LEMMA BeginsStep ==
  ASSUME HealthInv, NEW i \in DOMAIN report.results, RepairBegins(i)
  PROVE  HealthInv'
<1>0. FilesFine /\ CheckFine /\ ReportFine /\ IdleWhenOver
  BY DEF HealthInv
<1>1. /\ report.results[i] \in EntryType
      /\ report.results[i].jobs = 0 /\ report.results[i].status = "issues"
      /\ Whole(report.results[i].comic, report.results[i].from,
               report.results[i].chapters)
      /\ Version(report.results[i].comic) = report.results[i].from
      /\ i \in Nat
  BY <1>0 DEF RepairBegins, ReportFine, EntryFine
<1>2. /\ repair' = [entry |-> i, seen |-> Version(report.results[i].comic)]
      /\ UNCHANGED <<file, job, report, check>>
  BY DEF RepairBegins
<1>3. /\ repair' \in [entry : Nat, seen : Nat] /\ repair'.entry = i
      /\ repair'.seen = report.results[i].from
  BY <1>1, <1>2 DEF EntryType
<1>4. Entry' = report.results[i]
  BY <1>2, <1>3 DEF Entry
<1>5. Whole(Entry.comic, repair.seen, Entry.chapters)'
  BY <1>1, <1>2, <1>3, <1>4 DEF Whole, Version
<1>6. RepairFine'
  BY <1>1, <1>2, <1>3, <1>4, <1>5 DEF RepairFine
<1>7. FilesFine' /\ CheckFine' /\ ReportFine' /\ IdleWhenOver'
  BY <1>0, <1>2
  DEF FilesFine, CheckFine, ReportFine, IdleWhenOver, EntryFine, Whole,
      Version, Damage
<1> QED
  BY <1>6, <1>7 DEF HealthInv

LEMMA FailsStep ==
  ASSUME HealthInv, RepairFails
  PROVE  HealthInv'
<1>1. repair' = NoRepair /\ UNCHANGED <<file, job, report, check>>
  BY DEF RepairFails
<1>2. RepairFine'
  BY <1>1, NothingYet DEF RepairFine, Held
<1>3. FilesFine' /\ CheckFine' /\ ReportFine' /\ IdleWhenOver'
  BY <1>1
  DEF HealthInv, FilesFine, CheckFine, ReportFine, IdleWhenOver, EntryFine,
      Whole, Version, Damage
<1> QED
  BY <1>2, <1>3 DEF HealthInv

LEMMA QueuesStep ==
  ASSUME HealthInv, RepairQueues
  PROVE  HealthInv'
<1>0. /\ FilesFine /\ CheckFine /\ ReportFine /\ IdleWhenOver /\ RepairFine
      /\ Held
  BY DEF HealthInv, RepairQueues
<1>1. PICK i : i = repair.entry
  OBVIOUS
<1>2. /\ i \in DOMAIN report.results /\ EntryFine(report.results[i])
      /\ report.results[i].status = "issues" /\ report.results[i].jobs = 0
      /\ Entry = report.results[i]
  BY <1>0, <1>1 DEF RepairFine, ReportFine, Entry
<1>3. PICK r : r = [report.results[i] EXCEPT !.jobs = @ + 1]
  OBVIOUS
<1>4. /\ r \in EntryType /\ r.status = "issues"
      /\ r.comic = report.results[i].comic /\ r.from = report.results[i].from
      /\ r.chapters = report.results[i].chapters
  BY <1>2, <1>3 DEF EntryFine, EntryType
<1>5. EntryFine(r)
  BY <1>2, <1>4 DEF EntryFine
<1>6. PICK results : results = [report.results EXCEPT ![i] = r]
  OBVIOUS
<1>7. /\ results \in Seq(EntryType) /\ DOMAIN results = DOMAIN report.results
      /\ \A j \in DOMAIN results :
            results[j] = IF j = i THEN r ELSE report.results[j]
  BY <1>0, <1>2, <1>4, <1>6 DEF ReportFine
<1>8. report' = [report EXCEPT !.results = results]
  BY <1>1, <1>3, <1>6 DEF RepairQueues
<1>9. /\ report' \in [id : Nat,
                      status : {"none", "running", "done", "canceled"},
                      results : Seq(EntryType)]
      /\ report'.results = results /\ report'.status = report.status
  BY <1>0, <1>7, <1>8 DEF ReportFine
<1>10. UNCHANGED <<file, check>> /\ repair' = NoRepair
  BY DEF RepairQueues
<1>11. ReportFine'
  <2>1. \A j \in DOMAIN results : EntryFine(results[j])
    BY <1>0, <1>5, <1>7 DEF ReportFine
  <2>2. \A j \in DOMAIN results : EntryFine(results[j])'
    BY <1>10, <2>1 DEF EntryFine, Whole, Version
  <2> QED
    BY <1>9, <2>2 DEF ReportFine
<1>12. FilesFine'
  <2>1. [at |-> "queued", chapters |-> Entry.chapters] \in JobType
    BY <1>2 DEF EntryFine, EntryType, JobType
  <2>2. Entry.comic \in Books
    BY <1>2 DEF EntryFine, EntryType
  <2>3. \A b \in Books : job'[b] \in JobType
    BY <1>0, <2>1, <2>2, JobUpdate DEF RepairQueues
  <2> QED
    BY <1>0, <1>10, <2>3 DEF FilesFine, Version, JobType
<1>13. CheckFine' /\ IdleWhenOver'
  BY <1>0, <1>9, <1>10 DEF CheckFine, IdleWhenOver, Whole, Version, Damage
<1>14. RepairFine'
  BY <1>10, NothingYet DEF RepairFine, Held
<1> QED
  BY <1>11, <1>12, <1>13, <1>14 DEF HealthInv

LEMMA HealthStepInv == HealthInv /\ [HealthNext]_healthVars => HealthInv'
<1> SUFFICES ASSUME HealthInv, [HealthNext]_healthVars PROVE HealthInv'
  OBVIOUS
<1>1. CASE CheckStep
  BY <1>1, ReserveStep, FingerprintStep, ChapterStep, CompareStep, ReleaseStep,
     AppendStep, RunOverStep DEF CheckStep
<1>2. ASSUME NEW books \in {Books} \cup {{b} : b \in Books}, StartHealth(books)
      PROVE  HealthInv'
  <2>1. books \in SUBSET Books
    OBVIOUS
  <2> QED
    BY <1>2, <2>1, StartStep
<1>3. CASE StopHealth \/ UNCHANGED healthVars
  <2>1. \A b \in Books : job'[b] \in JobType
    BY <1>3 DEF HealthInv, FilesFine, JobType, StopHealth, healthVars
  <2> QED
    BY <1>3, <2>1, JobStep DEF StopHealth, healthVars
<1> QED
  BY <1>1, <1>2, <1>3, DownloadStep, BeginsStep, QueuesStep, FailsStep
  DEF HealthNext

LEMMA HealthInvariance == HealthSpec => []HealthInv
BY HealthInitInv, HealthStepInv, PTL DEF HealthSpec

\* Files, downloads, report, run and repair keep their types; there is a
\* goroutine exactly while the report says that the run goes on.
THEOREM HealthTypeCorrect == HealthSpec => []HealthTypeOK
<1>1. HealthInv => HealthTypeOK
  <2> SUFFICES ASSUME HealthInv PROVE HealthTypeOK
    OBVIOUS
  <2>1. repair.entry \in 0..Len(report.results)
    <3>1. report.results \in Seq(EntryType)
      BY DEF HealthInv, ReportFine
    <3>2. CASE Held
      BY <3>1, <3>2 DEF HealthInv, RepairFine
    <3>3. CASE ~Held
      BY <3>1, <3>3, NothingYet DEF Held
    <3> QED
      BY <3>2, <3>3
  <2> QED
    BY <2>1
    DEF HealthInv, FilesFine, CheckFine, CheckType, InRun, ReportFine,
        IdleWhenOver, HealthTypeOK
<1> QED
  BY HealthInvariance, <1>1, PTL

\* checkComic and RepairHealth: a report never calls damaged what was not
\* damaged all at once, and a repair replaces what is damaged when it begins,
\* once; for every library and every interleaving of the two.
THEOREM RepairsJustified == HealthSpec => []RepairJustified
<1>1. HealthInv => RepairJustified
  <2> SUFFICES ASSUME HealthInv PROVE RepairJustified
    OBVIOUS
  <2>1. ASSUME NEW i \in DOMAIN report.results
        PROVE  LET r == report.results[i]
               IN  /\ r.status = "issues" => r.chapters = file[r.comic][r.from]
                   /\ r.jobs > 0 => r.status = "issues" /\ r.jobs = 1
    BY DEF HealthInv, ReportFine, EntryFine, EntryType, Whole
  <2>2. Held => Entry.chapters = file[Entry.comic][repair.seen]
    BY DEF HealthInv, RepairFine, Whole
  <2> QED
    BY <2>1, <2>2 DEF RepairJustified
<1> QED
  BY HealthInvariance, <1>1, PTL

-----------------------------------------------------------------------------
(* Health: the steps a run has left.                                       *)

CheckStage == [print |-> Chapters + 5, release |-> 3, append |-> 2, next |-> 1]

\* Steps of the goroutine until it takes up the next comic.
BookRank(c) ==
    IF c.at = "look" THEN Chapters + 5 - c.next ELSE CheckStage[c.at]

CheckRank(c) ==
    IF c.at = "idle" THEN 0
    ELSE (Chapters + 5) * Cardinality(c.left) + BookRank(c)

(* While a run is under way, its goroutine is too (health.go), with at     *)
(* most as many steps to go as the comics and their chapters allow.        *)
CheckBounded ==
    report.status = "running" =>
        CheckRank(check) \in 1..((Chapters + 5) * Cardinality(Books) + Chapters + 5)

(* Every step of the goroutine leaves it fewer, whatever it finds; what    *)
(* downloads, changes of files, repairs and a stop do leaves it alone.     *)
CheckAdvances ==
    [][check.at # "idle" /\ check' # check
          => CheckRank(check') < CheckRank(check)]_healthVars

LEMMA StageValues ==
  /\ CheckStage["print"] = Chapters + 5 /\ CheckStage["release"] = 3
  /\ CheckStage["append"] = 2 /\ CheckStage["next"] = 1
BY DEF CheckStage

LEMMA BookRankRange ==
  ASSUME NEW c \in CheckType, c.at # "idle"
  PROVE  BookRank(c) \in 1..(Chapters + 5)
<1>1. c.at \in {"next", "print", "look", "release", "append"}
      /\ c.next \in 1..(Chapters + 1)
  BY DEF CheckType, InRun
<1> QED
  BY <1>1, StageValues, HealthAssumption DEF BookRank

LEMMA LeftFinite ==
  ASSUME IsFiniteSet(Books), NEW S \in SUBSET Books
  PROVE  /\ IsFiniteSet(S) /\ Cardinality(S) \in Nat
         /\ Cardinality(Books) \in Nat /\ Cardinality(S) <= Cardinality(Books)
         /\ \A b \in S : Cardinality(S \ {b}) = Cardinality(S) - 1
<1>1. IsFiniteSet(S) /\ Cardinality(S) <= Cardinality(Books)
  BY FS_Subset
<1>2. Cardinality(S) \in Nat /\ Cardinality(Books) \in Nat
  BY <1>1, FS_CardinalityType
<1>3. \A b \in S : Cardinality(S \ {b}) = Cardinality(S) - 1
  BY <1>1, FS_RemoveElement
<1> QED
  BY <1>1, <1>2, <1>3

\* The product in the rank: one comic fewer is worth a whole comic's steps.
LEMMA ComicsLeft ==
  ASSUME NEW k \in Nat, NEW m \in Nat, NEW n \in Nat, m <= n
  PROVE  /\ k * m \in Nat /\ k * m <= k * n
         /\ n > 0 => k * (n - 1) = k * n - k
<1>1. k * m \in Nat /\ k * n \in Nat /\ k * (n - m) \in Nat
  OBVIOUS
<1>2. k * (n - m) = k * n - k * m /\ k * (n - 1) = k * n - k
  OBVIOUS
<1> QED
  BY <1>1, <1>2

LEMMA CheckRankRange ==
  ASSUME IsFiniteSet(Books), NEW c \in CheckType
  PROVE  /\ CheckRank(c) \in 0..((Chapters + 5) * Cardinality(Books) + Chapters + 5)
         /\ c.at = "idle" => CheckRank(c) = 0
         /\ c.at # "idle" => CheckRank(c) >= 1
<1>1. PICK k \in Nat : k = Chapters + 5
  BY HealthAssumption
<1>2. c.left \in SUBSET Books
  BY DEF CheckType
<1>3. PICK m \in Nat, n \in Nat :
         m = Cardinality(c.left) /\ n = Cardinality(Books) /\ m <= n
  BY <1>2, LeftFinite
<1>4. k * m \in Nat /\ k * n \in Nat /\ k * m <= k * n
  BY <1>3, ComicsLeft
<1>5. CASE c.at = "idle"
  BY <1>1, <1>3, <1>4, <1>5, HealthAssumption DEF CheckRank
<1>6. CASE c.at # "idle"
  <2>1. BookRank(c) \in 1..k
    BY <1>1, <1>6, BookRankRange
  <2>2. CheckRank(c) = k * m + BookRank(c)
    BY <1>1, <1>3, <1>6 DEF CheckRank
  <2>3. (Chapters + 5) * Cardinality(Books) + Chapters + 5 = k * n + k
    BY <1>1, <1>3, <1>4, HealthAssumption
  <2> QED
    BY <1>4, <1>6, <2>1, <2>2, <2>3
<1> QED
  BY <1>5, <1>6

\* What the steps of the goroutine do to where it is.
LEMMA CheckStepKinds ==
  ASSUME HealthInv, CheckStep
  PROVE  \/ /\ check.at = "next" /\ check'.at \in {"append", "print"}
            /\ \E b \in check.left : check'.left = check.left \ {b}
         \/ /\ check.at = "print" /\ check'.at = "look" /\ check'.next = 1
            /\ check'.left = check.left
         \/ /\ check.at \in {"print", "look"} /\ check'.at = "release"
            /\ check'.left = check.left
         \/ /\ check.at = "look" /\ check'.at = "look"
            /\ check'.next = check.next + 1 /\ check'.left = check.left
         \/ /\ check.at = "release" /\ check'.at = "append"
            /\ check'.left = check.left
         \/ /\ check.at = "append" /\ check'.at = "next"
            /\ check'.left = check.left
         \/ check.at = "next" /\ check'.at = "idle"
<1>0. CheckFine /\ check \in CheckType
  BY DEF HealthInv, CheckFine
<1>1. ASSUME NEW b \in Books, Reserve(b)
      PROVE  /\ check.at = "next" /\ check'.at \in {"append", "print"}
             /\ \E d \in check.left : check'.left = check.left \ {d}
  BY <1>0, <1>1 DEF Reserve, CheckType
<1>2. CASE Fingerprint
  <2>1. check.at = "print" /\ check.next = 1
    BY <1>0, <1>2 DEF Fingerprint, CheckFine
  <2> QED
    BY <1>0, <1>2, <2>1 DEF Fingerprint, CheckType
<1>3. CASE Examine
  BY <1>0, <1>3 DEF Examine, CheckType
<1>4. CASE Compare
  BY <1>0, <1>4 DEF Compare, CheckType
<1>5. CASE Release
  BY <1>0, <1>5 DEF Release, CheckType
<1>6. CASE AppendResult
  BY <1>0, <1>6 DEF AppendResult, NoCheck
<1>7. CASE HealthOver
  BY <1>7 DEF HealthOver, NoCheck
<1> QED
  BY <1>1, <1>2, <1>3, <1>4, <1>5, <1>6, <1>7 DEF CheckStep

LEMMA CheckStepRank ==
  ASSUME IsFiniteSet(Books), HealthInv, CheckStep
  PROVE  CheckRank(check') < CheckRank(check)
<1>0. check \in CheckType /\ check' \in CheckType
  BY HealthStepInv DEF HealthInv, CheckFine, HealthNext
<1>1. PICK k \in Nat : k = Chapters + 5
  BY HealthAssumption
<1>2. check.left \in SUBSET Books /\ check'.left \in SUBSET Books
      /\ check.next \in Nat /\ check'.next \in 1..(Chapters + 1)
  BY <1>0, HealthAssumption DEF CheckType
<1>3. PICK n \in Nat : n = Cardinality(check.left)
  BY <1>2, LeftFinite
<1>4. k * n \in Nat
  BY ComicsLeft
<1>5. check.at # "idle"
      => CheckRank(check) = k * n + BookRank(check) /\ BookRank(check) \in Nat
         /\ CheckRank(check) >= 1
  BY <1>0, <1>1, <1>3, BookRankRange, CheckRankRange DEF CheckRank
<1>6. CASE /\ check.at = "next" /\ check'.at \in {"append", "print"}
           /\ \E b \in check.left : check'.left = check.left \ {b}
  <2>1. n > 0 /\ Cardinality(check'.left) = n - 1
    <3>1. PICK b \in check.left : check'.left = check.left \ {b}
      BY <1>6
    <3>2. Cardinality(check'.left) = n - 1 /\ Cardinality(check'.left) \in Nat
      BY <1>2, <1>3, <3>1, LeftFinite
    <3> QED
      BY <3>2
  <2>2. CheckRank(check') = k * (n - 1) + BookRank(check')
        /\ BookRank(check') \in 1..k
    BY <1>0, <1>1, <1>6, <2>1, BookRankRange DEF CheckRank
  <2>3. k * (n - 1) = k * n - k
    BY <2>1, ComicsLeft
  <2>4. CheckRank(check) = k * n + 1
    BY <1>5, <1>6, StageValues DEF BookRank
  <2> QED
    BY <1>4, <2>2, <2>3, <2>4
<1>7. CASE check.at # "idle" /\ check'.at = "idle"
  BY <1>0, <1>5, <1>7, CheckRankRange
<1>8. ASSUME check.at # "idle", check'.at # "idle", check'.left = check.left,
             BookRank(check') < BookRank(check)
      PROVE  CheckRank(check') < CheckRank(check)
  <2>1. CheckRank(check') = k * n + BookRank(check')
        /\ BookRank(check') \in Nat
    BY <1>0, <1>1, <1>3, <1>8, BookRankRange DEF CheckRank
  <2> QED
    BY <1>4, <1>5, <1>8, <2>1
<1>9. CASE /\ check.at = "print" /\ check'.at = "look" /\ check'.next = 1
           /\ check'.left = check.left
  BY <1>8, <1>9, StageValues, HealthAssumption DEF BookRank
<1>10. CASE /\ check.at \in {"print", "look"} /\ check'.at = "release"
            /\ check'.left = check.left
  <2>1. check.next <= Chapters + 1
    BY <1>0, HealthAssumption DEF CheckType
  <2> QED
    BY <1>2, <1>8, <1>10, <2>1, StageValues, HealthAssumption DEF BookRank
<1>11. CASE /\ check.at = "look" /\ check'.at = "look"
            /\ check'.next = check.next + 1 /\ check'.left = check.left
  BY <1>2, <1>8, <1>11, HealthAssumption DEF BookRank
<1>12. CASE /\ check.at = "release" /\ check'.at = "append"
            /\ check'.left = check.left
  BY <1>8, <1>12, StageValues DEF BookRank
<1>13. CASE /\ check.at = "append" /\ check'.at = "next"
            /\ check'.left = check.left
  BY <1>8, <1>13, StageValues DEF BookRank
<1> QED
  BY <1>6, <1>7, <1>9, <1>10, <1>11, <1>12, <1>13, CheckStepKinds

(* A run of the health check has a bounded number of steps left at any     *)
(* moment, at least one while it is under way, and every step of it takes  *)
(* one away (health.go, the goroutine of StartHealth): it can only stand   *)
(* still, and that is what the fairness of HealthEnds rules out.           *)
THEOREM CheckIsBounded ==
  ASSUME IsFiniteSet(Books)
  PROVE  HealthSpec => []CheckBounded /\ CheckAdvances
<1>1. HealthInv => CheckBounded
  <2> SUFFICES ASSUME HealthInv, report.status = "running"
               PROVE  CheckRank(check) \in
                        1..((Chapters + 5) * Cardinality(Books) + Chapters + 5)
    BY DEF CheckBounded
  <2>1. check \in CheckType /\ check.at # "idle"
    BY DEF HealthInv, CheckFine, IdleWhenOver
  <2> QED
    BY <2>1, CheckRankRange
<1>2. HealthInv /\ [HealthNext]_healthVars
      => [check.at # "idle" /\ check' # check
             => CheckRank(check') < CheckRank(check)]_healthVars
  <2> SUFFICES ASSUME HealthInv, HealthNext, check.at # "idle", check' # check
               PROVE  CheckRank(check') < CheckRank(check)
    OBVIOUS
  <2>1. CASE CheckStep
    BY <2>1, CheckStepRank
  <2>2. ASSUME NEW books \in SUBSET Books, StartHealth(books)
        PROVE  FALSE
    BY <2>2 DEF StartHealth, HealthInv, IdleWhenOver
  <2>3. ASSUME NEW b \in Books,
               Download(b) \/ DownloadEnds(b)
               \/ \E damage \in ChapterSets : FilesChange(b, damage)
        PROVE  FALSE
    BY <2>3 DEF Download, DownloadEnds, FilesChange
  <2>4. CASE StopHealth \/ RepairQueues \/ RepairFails
             \/ \E i \in DOMAIN report.results : RepairBegins(i)
    BY <2>4 DEF StopHealth, RepairQueues, RepairFails, RepairBegins
  <2>5. \A books \in {Books} \cup {{b} : b \in Books} : books \in SUBSET Books
    OBVIOUS
  <2> QED
    BY <2>1, <2>2, <2>3, <2>4, <2>5 DEF HealthNext
<1>3. HealthSpec => []HealthInv
  BY HealthInvariance
<1> QED
  BY <1>1, <1>2, <1>3, PTL DEF HealthSpec, CheckAdvances
=============================================================================
