--------------------------- MODULE RecordsProofs ---------------------------
(***************************************************************************)
(* Composition.  MCRecords runs eight modules side by side.  A behaviour   *)
(* of it is a behaviour of each of them, so what is proved of one alone    *)
(* holds of all together, for every value of the constants and not only    *)
(* for those that MCRecords gives them.                                    *)
(***************************************************************************)
EXTENDS MCRecords, FetchProofs, UpstreamProofs, StoreProofs

LEMMA FirstRecords ==
  RecordsInit => /\ FavInit /\ ToggleInit /\ ListInit /\ ScrambleInit
                 /\ HealthInit /\ VaultInit /\ SettingsInit /\ ReadingInit
BY DEF RecordsInit

\* A step of the run is a step of one of the modules; the others rest.
LEMMA UpstreamPartsStep ==
  ASSUME [RecordsNext]_everything
  PROVE  /\ [FavNext]_favVars
         /\ [ToggleNext]_toggleVars
         /\ [ListNext]_listVars
         /\ [ScrambleNext]_scrambleVars
<1>1. UpstreamNext \/ UNCHANGED <<favVars, toggleVars, listVars, scrambleVars>>
  BY DEF RecordsNext, everything, upstreamParts
<1> QED
  BY <1>1 DEF UpstreamNext

LEMMA ServerPartsStep ==
  ASSUME [RecordsNext]_everything
  PROVE  /\ [HealthNext]_healthVars
         /\ [VaultNext]_vaultVars
         /\ [SettingsNext]_settingsVars
         /\ [ReadingNext]_readingVars
<1>1. ServerNext \/ UNCHANGED <<healthVars, vaultVars, settingsVars, readingVars>>
  BY DEF RecordsNext, everything, serverParts
<1> QED
  BY <1>1 DEF ServerNext

\* Whatever the run does, each module behaves as its own specification says.
THEOREM RecordsCompose ==
  RecordsSpec => /\ FavSpec /\ ToggleSpec /\ ListSpec /\ ScrambleSpec
                 /\ HealthSpec /\ VaultSpec /\ SettingsSpec /\ ReadingSpec
<1>1. RecordsSpec => FavSpec /\ ToggleSpec
  BY FirstRecords, UpstreamPartsStep, PTL DEF RecordsSpec, FavSpec, ToggleSpec
<1>2. RecordsSpec => ListSpec /\ ScrambleSpec
  BY FirstRecords, UpstreamPartsStep, PTL DEF RecordsSpec, ListSpec, ScrambleSpec
<1>3. RecordsSpec => HealthSpec /\ VaultSpec
  BY FirstRecords, ServerPartsStep, PTL DEF RecordsSpec, HealthSpec, VaultSpec
<1>4. RecordsSpec => SettingsSpec /\ ReadingSpec
  BY FirstRecords, ServerPartsStep, PTL DEF RecordsSpec, SettingsSpec, ReadingSpec
<1> QED
  BY <1>1, <1>2, <1>3, <1>4

\* The types of all eight modules, together.
THEOREM RecordsTypeCorrect == RecordsSpec => []RecordsTypeOK
<1>1. /\ FavTypeOK /\ ToggleTypeOK /\ ListTypeOK /\ ScrambleTypeOK
      /\ HealthTypeOK /\ VaultTypeOK /\ SettingsTypeOK /\ ReadingTypeOK
      => RecordsTypeOK
  BY DEF RecordsTypeOK
<1> QED
  BY <1>1, RecordsCompose, FavTypeCorrect, ToggleTypeCorrect, ListTypeCorrect,
     ScrambleTypeCorrect, HealthTypeCorrect, VaultTypeCorrect,
     SettingsTypeCorrect, ReadingTypeCorrect, PTL

\* What the run Records checks on its instance, as one fact about all of them.
THEOREM RecordsTrue ==
  RecordsSpec => /\ SnapshotWhole
                 /\ [](/\ FreshMeansCurrent /\ ToggleHonest /\ ListTruthful
                       /\ RowsRestored /\ RepairJustified /\ OneKeyOpensAll
                       /\ CopiesOpen /\ ChangesKept /\ ClientsFollow
                       /\ NewestPositionWins)
BY RecordsCompose, SnapshotReplaced, FreshCurrent, TogglesHonest, ListsTruthful,
   PageRestored, RepairsJustified, OneKeyForAll, CopiesReadable, NoChangeLost,
   ClientsCurrent, NewestKept, PTL
=============================================================================
