----------------------------- MODULE PartsProofs -----------------------------
(***************************************************************************)
(* That Parts is its groups side by side, and what its variables are.      *)
(***************************************************************************)
EXTENDS Parts, KeyProofs, StoreProofs, SealedProofs, AppProofs, TLAPS

KeyPart == part \in {"custody", "app key", "plugin root", "value"}
StorePart == part \in {"content", "compaction", "log", "file", "vectors"}
AppPart == part \in {"stream", "call", "translation", "cues", "audio", "settings"}

LEMMA GroupStarts ==
  ASSUME Init
  PROVE  (KeyPart /\ KeyInit) \/ (StorePart /\ StoreInit) \/ (AppPart /\ AppInit)
BY DEF Init, KeyInit, StoreInit, AppInit, KeyPart, StorePart, AppPart

\* Each step is one of the part that was there before.
LEMMA GroupMoves ==
  ASSUME [Next]_vars
  PROVE  /\ KeyPart => KeyPart' /\ [KeyNext]_vars
         /\ StorePart => StorePart' /\ [StoreNext]_vars
         /\ AppPart => AppPart' /\ [AppNext]_vars
<1> USE DEF KeyPart, StorePart, AppPart
<1>1. CASE KeyNext
  BY <1>1 DEF KeyNext, KeyCustodyStep, AppKeyStep, PluginRootStep, SealedValuesStep
<1>2. CASE StoreNext
  BY <1>2 DEF StoreNext, ContentStoreStep, CompactionStep, SealedLogStep, SealedFileStep,
    VectorIndexStep
<1>3. CASE AppNext
  BY <1>3 DEF AppNext, ModelStreamStep, HostCallsStep, TranslationStep, CuesStep,
    ResamplerStep, SettingsStep
<1>4. CASE UNCHANGED vars
  BY <1>4 DEF vars
<1> QED
  BY <1>1, <1>2, <1>3, <1>4 DEF Next

\* A behavior stays in the group that it began in.
LEMMA GroupStays ==
  Spec => \/ KeySpec /\ []KeyPart
          \/ StoreSpec /\ []StorePart
          \/ AppSpec /\ []AppPart
<1>1. Init => (KeyPart /\ KeyInit) \/ (StorePart /\ StoreInit) \/ (AppPart /\ AppInit)
  BY GroupStarts
<1>2. KeyPart /\ [Next]_vars => KeyPart' /\ [KeyNext]_vars
  BY GroupMoves
<1>3. StorePart /\ [Next]_vars => StorePart' /\ [StoreNext]_vars
  BY GroupMoves
<1>4. AppPart /\ [Next]_vars => AppPart' /\ [AppNext]_vars
  BY GroupMoves
<1> QED
  BY <1>1, <1>2, <1>3, <1>4, PTL DEF Spec, KeySpec, StoreSpec, AppSpec

\* A behavior of the parts side by side is one of their groups alone, so that
\* what is proved of a group's specification holds of the one that is checked.
THEOREM PartsAreSeparate == Spec => KeySpec \/ StoreSpec \/ AppSpec
BY GroupStays, PTL

\* A group that does not run has no part that does.
LEMMA OthersRest ==
  /\ ~KeyPart => KeyTypeOK
  /\ ~StorePart => StoreTypeOK
  /\ ~AppPart => AppTypeOK
BY Zenon DEF KeyPart, StorePart, AppPart, KeyTypeOK, StoreTypeOK, AppTypeOK

\* The variables of the part that runs are what its module says they are, for
\* every value of every part's constants.
THEOREM TypesCorrect == Spec => []TypeOK
<1>1. KeyPart => ~StorePart /\ ~AppPart
  BY DEF KeyPart, StorePart, AppPart
<1>2. StorePart => ~KeyPart /\ ~AppPart
  BY DEF KeyPart, StorePart, AppPart
<1>3. AppPart => ~KeyPart /\ ~StorePart
  BY DEF KeyPart, StorePart, AppPart
<1>4. KeyPart /\ KeyTypeOK => TypeOK
  BY <1>1, OthersRest DEF TypeOK
<1>5. AppPart /\ AppTypeOK => TypeOK
  BY <1>3, OthersRest DEF TypeOK
<1> DEFINE Others == /\ part = "content" => Store!TypeOK
                     /\ part = "compaction" => Queue!TypeOK
                     /\ part = "vectors" => Vectors!TypeOK
           Files == /\ part = "file" => Sealed!TypeOK
                    /\ part = "log" => Log!TypeOK
<1>6. StorePart /\ Others /\ Files => TypeOK
  <2>1. Others /\ Files => StoreTypeOK
    BY Zenon DEF StoreTypeOK
  <2> QED
    BY <1>2, <2>1, OthersRest DEF TypeOK
<1>7. StoreSpec => []Others
  BY StoreTypesCorrect
<1>8. StoreSpec => []Files
  BY SealedTypesCorrect
<1> HIDE DEF Others, Files
<1>9. KeySpec => []KeyTypeOK
  BY KeyTypesCorrect
<1>10. AppSpec => []AppTypeOK
  BY AppTypesCorrect
<1> QED
  BY <1>4, <1>5, <1>6, <1>7, <1>8, <1>9, <1>10, GroupStays, PTL

=============================================================================
