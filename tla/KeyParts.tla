------------------------------ MODULE KeyParts ------------------------------
(***************************************************************************)
(* The keys (custody of a folder's master key, an app's key, a plugin's    *)
(* root) and the values sealed under them, side by side: parts that share  *)
(* no state, each a behavior of its own (PartVars).                        *)
(*                                                                         *)
(* A part's constants are named as its module names them where no other    *)
(* part has one of that name. No part is bounded by another.               *)
(***************************************************************************)
EXTENDS PartVars, Naturals

CONSTANTS
  \* KeyCustody
  CustodyKeys, Procs, CustodyEnvKey, Bundles, Folders, MAX_RETIRED_KEYS,
  MaxFaults, MaxCustodyRuns,
  \* AppKey
  AppKeys, AppEnvKey, MaxAppRuns,
  \* PluginRoot
  PluginKeys, Masters, CoreKey, PluginProcs, Mains, MaxPluginRuns,
  \* SealedValues
  ValueStores, ValueProcs, ValueTexts, ValueIds, MaxValueKey, MaxValueWrites

Custody == INSTANCE KeyCustody WITH
  env <- v1, keychain <- v2, reachable <- v3, allowFile <- v4, file <- v5,
  memory <- v6, chained <- v7, filed <- v8, index <- v9, recorded <- v10,
  at <- v11, hold <- v12, todo <- v13, used <- v14, gone <- v15,
  forgotten <- v16, raced <- v17, minted <- v18, faults <- v19,
  runs <- v20,
  Keys <- CustodyKeys, EnvKey <- CustodyEnvKey,
  MaxRuns <- MaxCustodyRuns

App == INSTANCE AppKey WITH
  env <- v1, keychain <- v2, reachable <- v3, allowFile <- v4, file <- v5,
  recorded <- v6, sealedFile <- v7, app <- v8, used <- v9, gone <- v10,
  runs <- v11,
  Keys <- AppKeys, EnvKey <- AppEnvKey, MaxRuns <- MaxAppRuns

Root == INSTANCE PluginRoot WITH
  env <- v1, root <- v2, pinned <- v3, at <- v4, hold <- v5, seen <- v6,
  used <- v7, runs <- v8,
  Keys <- PluginKeys, Procs <- PluginProcs, MaxRuns <- MaxPluginRuns

Value == INSTANCE SealedValues WITH
  store <- v1, cell <- v2, truth <- v3, sealedYet <- v4, key <- v5,
  reach <- v6, draft <- v7, writes <- v8,
  Stores <- ValueStores, Procs <- ValueProcs, Texts <- ValueTexts,
  Ids <- ValueIds, MaxKey <- MaxValueKey, MaxWrites <- MaxValueWrites

ASSUME KeyPartsAssumption ==
  /\ Custody!KeyCustodyAssumption
  /\ App!AppKeyAssumption
  /\ Root!PluginRootAssumption
  /\ Value!SealedValuesAssumption

-----------------------------------------------------------------------------
KeyInit ==
  \/ part = "custody" /\ Custody!Init
  \/ part = "app key" /\ App!Init /\ Unused11
  \/ part = "plugin root" /\ Root!Init /\ Unused8
  \/ part = "value" /\ Value!Init /\ Unused8

KeyCustodyStep == part = "custody" /\ Custody!Next /\ UNCHANGED part
AppKeyStep == part = "app key" /\ App!Next /\ UNCHANGED <<part, Rest11>>
PluginRootStep == part = "plugin root" /\ Root!Next /\ UNCHANGED <<part, Rest8>>
SealedValuesStep == part = "value" /\ Value!Next /\ UNCHANGED <<part, Rest8>>

KeyNext ==
  \/ KeyCustodyStep \/ AppKeyStep \/ PluginRootStep \/ SealedValuesStep

KeySpec == KeyInit /\ [][KeyNext]_vars

-----------------------------------------------------------------------------
(* What each part keeps, stated and explained in its module.               *)

\* Every part's variables are what its module says they are.
KeyTypeOK ==
  /\ part = "custody" => Custody!TypeOK
  /\ part = "app key" => App!TypeOK
  /\ part = "plugin root" => Root!TypeOK
  /\ part = "value" => Value!TypeOK

\* custody.rs: keys that sealed something are kept, but for the ways named, and
\* the recorded fingerprint is of a key that is stored.
MasterKeysAreKept ==
  part = "custody" => Custody!UsedKeysAreKeptBut /\ Custody!RecordNamesAStoredKey

\* app_key.rs: an app's keys are kept, and used to open what they sealed.
AppKeysAreKept == part = "app key" => App!AppKeysAreKept /\ App!OpensWhatIsInSight

\* plugin_keys/files.rs: the processes of a folder seal under one key, which
\* a later one can still get.
OneKeySealsThePluginsData ==
  part = "plugin root" => Root!OneKeySealsThePluginsData /\ Root!PinnedKeyStaysReachable

\* sealed.rs, secret_file.rs, lib.rs ciphers: a sealed value is the value that
\* was stored, sealed once, and told apart from plaintext.
SealedValueIsSound == part = "value" => Value!SealedValueIsSound

=============================================================================
