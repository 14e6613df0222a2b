------------------------------ MODULE KeyProofs ------------------------------
(***************************************************************************)
(* Proofs about KeyParts: that a behavior stays with the part it began,    *)
(* which keys are kept, and what a sealed value opens to.                  *)
(***************************************************************************)
EXTENDS KeyParts, Sequences, FiniteSetTheorems, TLAPS

-----------------------------------------------------------------------------
\* A behavior starts as one of its part.
LEMMA KeyPartStarts ==
  ASSUME KeyInit
  PROVE  /\ part = "custody" => Custody!Init
         /\ part = "app key" => App!Init
         /\ part = "plugin root" => Root!Init
         /\ part = "value" => Value!Init
BY DEF KeyInit

\* And goes on as one.
LEMMA KeyPartMoves ==
  ASSUME [KeyNext]_vars
  PROVE  /\ part' = part
         /\ part = "custody" => [Custody!Next]_(Custody!vars)
         /\ part = "app key" => [App!Next]_(App!vars)
         /\ part = "plugin root" => [Root!Next]_(Root!vars)
         /\ part = "value" => [Value!Next]_(Value!vars)
<1>1. CASE KeyNext
  BY <1>1 DEF KeyNext, KeyCustodyStep, AppKeyStep, PluginRootStep, SealedValuesStep
<1>2. CASE UNCHANGED vars
  BY <1>2 DEF vars, Rest5, Rest6, Rest7, Rest8, Rest9, Rest10, Rest11, Rest15,
    Custody!vars, Custody!slots, Custody!vault, Custody!setting, Custody!ghosts,
    Custody!losses, Custody!counts, App!vars, Root!vars, Value!vars
<1> QED
  BY <1>1, <1>2

-----------------------------------------------------------------------------
(* The root key of a plugin's folder: v1 is env, v2 root, v3 pinned, v4 at, *)
(* v5 hold, v6 seen, v7 used.                                              *)

LEMMA RootInit ==
  ASSUME Root!PluginRootAssumption, Root!Init
  PROVE  Root!RootInv
BY DEF Root!PluginRootAssumption, Root!Init, Root!RootInv, Root!TypeOK, Root!Possible, Root!Launches, 
  Root!FilesAreForStandalone, Root!OneFills, Root!OneKeyToPin, Root!NoKey, Root!NoFile, Root!Empty,
  Root!OneKeySealsThePluginsData, Root!PinnedKeyStaysReachable

LEMMA RootStays ==
  ASSUME Root!PluginRootAssumption, Root!RootInv, [Root!Next]_(Root!vars)
  PROVE  Root!RootInv'
<1> USE DEF Root!PluginRootAssumption, Root!RootInv, Root!TypeOK, Root!Possible, Root!TheKey,
  Root!FilesAreForStandalone, Root!OneFills, Root!OneKeyToPin, Root!NoKey, Root!NoFile, Root!Empty,
  Root!OneKeySealsThePluginsData, Root!PinnedKeyStaysReachable, Root!Keep, Root!Go, Root!Holds
<1>1. ASSUME NEW p \in PluginProcs, Root!Resolve(p)
      PROVE  Root!RootInv'
  <2>1. UNCHANGED <<v1, v2, v3, v6, v7>>
    BY <1>1 DEF Root!Resolve
  <2>2. v1.master \in Masters \cup {Root!NoKey} /\ v1.underCore \in BOOLEAN
    BY DEF Root!Launches
  <2>3. CASE Root!Holds(p, Root!NoKey) /\ Root!Go(p, "up")
    BY ZenonT(60), <2>1, <2>3
  <2>4. CASE v1.delivered = "own" /\ Root!Holds(p, CoreKey) /\ Root!Go(p, "up")
    BY <2>1, <2>4
  <2>5. CASE Root!Holds(p, Root!NoKey) /\ Root!Go(p, "failed")
    BY ZenonT(60), <2>1, <2>5
  <2>6. CASE v1.underCore /\ Root!Holds(p, v1.master) /\ Root!Go(p, "up")
    BY <2>1, <2>2, <2>6
  <2>7. CASE /\ v1.delivered = "none" /\ v1.master # Root!NoKey /\ ~v1.underCore
             /\ Root!Holds(p, v1.master)
             /\ Root!Go(p, IF v2 # Root!NoFile THEN "failed" ELSE "pin")
    BY ZenonT(60), <2>1, <2>2, <2>7
  <2>8. CASE /\ v1.delivered = "none" /\ v1.master = Root!NoKey /\ ~v1.underCore
             /\ UNCHANGED v5 /\ Root!Go(p, "load")
    BY ZenonT(60), <2>1, <2>8
  <2> QED
    BY <1>1, <2>3, <2>4, <2>5, <2>6, <2>7, <2>8 DEF Root!Resolve, Root!Compat, Root!Refused
<1>2. ASSUME NEW p \in PluginProcs, Root!LoadRoot(p)
      PROVE  Root!RootInv'
  <2>1. v4[p] = "load" /\ UNCHANGED <<v1, v2, v3, v6, v7>>
    BY <1>2 DEF Root!LoadRoot
  <2>2. CASE v2 \in PluginKeys /\ Root!Holds(p, v2) /\ Root!Go(p, "pin")
    BY <2>1, <2>2
  <2>3. CASE Root!Go(p, "failed") /\ UNCHANGED v5
    BY <2>1, <2>3
  <2>4. CASE Root!Go(p, "generate") /\ UNCHANGED v5
    BY <2>1, <2>4
  <2> QED
    BY <1>2, <2>2, <2>3, <2>4 DEF Root!LoadRoot
<1>3. ASSUME NEW p \in PluginProcs, Root!GenerateRoot(p)
      PROVE  Root!RootInv'
  BY <1>3 DEF Root!GenerateRoot
<1>4. ASSUME NEW p \in PluginProcs, Root!CreateRoot(p)
      PROVE  Root!RootInv'
  BY ZenonT(60), <1>4 DEF Root!CreateRoot
<1>5. ASSUME NEW p \in PluginProcs, Root!FillRoot(p)
      PROVE  Root!RootInv'
  <2>1. PICK k \in PluginKeys \ (v7 \cup Masters \cup {CoreKey}) :
          v2' = k /\ v5' = [v5 EXCEPT ![p] = k]
    BY <1>5 DEF Root!FillRoot
  <2>2. /\ v4[p] = "fill" /\ v2 = Root!Empty /\ v1.master = Root!NoKey
        /\ v4' = [v4 EXCEPT ![p] = "pin"]
        /\ UNCHANGED <<v1, v3, v6, v7>>
    BY <1>5 DEF Root!FillRoot
  <2>3. v3 = Root!NoKey /\ v7 = {}
    BY ZenonT(60), <2>2
  <2>4. \A q \in PluginProcs : v4[q] \notin {"pin", "write pin"}
    BY <2>2
  <2>5. Root!OneKeyToPin'
    BY <2>1, <2>2, <2>3, <2>4
  <2>6. Root!TypeOK'
    BY <2>1, <2>2
  <2>7. Root!FilesAreForStandalone' /\ Root!OneFills'
    BY <2>1, <2>2
  <2>8. Root!OneKeySealsThePluginsData' /\ Root!PinnedKeyStaysReachable'
    BY <2>2, <2>3
  <2> HIDE DEF Root!TypeOK, Root!FilesAreForStandalone, Root!OneFills, Root!OneKeyToPin,
    Root!OneKeySealsThePluginsData, Root!PinnedKeyStaysReachable
  <2> QED
    BY <2>2, <2>5, <2>6, <2>7, <2>8
<1>6. ASSUME NEW p \in PluginProcs, Root!ReadPin(p)
      PROVE  Root!RootInv'
  BY ZenonT(60), <1>6 DEF Root!ReadPin
<1>7. ASSUME NEW p \in PluginProcs, Root!WritePin(p)
      PROVE  Root!RootInv'
  <2>1. /\ v4[p] = "write pin" /\ v3' = v5[p]
        /\ v4' = [v4 EXCEPT ![p] = "up"]
        /\ UNCHANGED <<v1, v2, v5, v6, v7>>
    BY <1>7 DEF Root!WritePin
  <2>2. v5[p] = Root!TheKey /\ v5[p] \in PluginKeys
    BY <2>1
  <2>3. Root!OneKeyToPin'
    BY <2>1, <2>2
  <2>4. Root!PinnedKeyStaysReachable'
    <3>1. v1.master \in Masters \cup {Root!NoKey}
      BY DEF Root!Launches
    <3> QED
      BY <2>1, <2>2, <3>1
  <2>5. Root!OneKeySealsThePluginsData'
    BY <2>1
  <2>6. Root!TypeOK'
    BY <2>1, <2>2
  <2>7. Root!FilesAreForStandalone' /\ Root!OneFills'
    BY ZenonT(60), <2>1, <2>2
  <2> HIDE DEF Root!TypeOK, Root!FilesAreForStandalone, Root!OneFills, Root!OneKeyToPin,
    Root!OneKeySealsThePluginsData, Root!PinnedKeyStaysReachable
  <2> QED
    BY <2>1, <2>3, <2>4, <2>5, <2>6, <2>7
<1>8. ASSUME NEW p \in PluginProcs, Root!Seal(p)
      PROVE  Root!RootInv'
  BY ZenonT(60), <1>8 DEF Root!Seal
<1>9. ASSUME NEW p \in PluginProcs, Root!Stop(p)
      PROVE  Root!RootInv'
  BY ZenonT(60), <1>9 DEF Root!Stop
<1>10. CASE Root!NextLaunch
  BY <1>10 DEF Root!NextLaunch, Root!Launches
<1>11. CASE UNCHANGED Root!vars
  BY <1>11 DEF Root!vars
<1> QED
  BY <1>1, <1>2, <1>3, <1>4, <1>5, <1>6, <1>7, <1>8, <1>9, <1>10, <1>11 DEF Root!Next

\* The processes of a plugin's folder seal under one key and a later one can
\* still get it (plugin_keys/files.rs), for any number of processes and keys.
THEOREM PluginRootCorrect == KeySpec => []OneKeySealsThePluginsData
<1> DEFINE Inv == part = "plugin root" => Root!RootInv
<1>1. KeyInit => Inv
  BY KeyPartsAssumption, KeyPartStarts, RootInit
<1>2. Inv /\ [KeyNext]_vars => Inv'
  BY KeyPartsAssumption, KeyPartMoves, RootStays
<1>3. Inv => OneKeySealsThePluginsData
  BY DEF OneKeySealsThePluginsData, Root!RootInv
<1> HIDE DEF Inv
<1> QED
  BY <1>1, <1>2, <1>3, PTL DEF KeySpec

-----------------------------------------------------------------------------
(* The key of an app: v1 is env, v2 keychain, v3 reachable, v4 allowFile,  *)
(* v5 file, v6 recorded, v8 app, v9 used and v10 gone.                     *)

LEMMA AppKeyInit ==
  ASSUME App!AppKeyAssumption, App!Init
  PROVE  App!KeptInv
BY DEF App!AppKeyAssumption, App!Init, App!KeptInv, App!TypeOK, App!AppKeyOf, App!Held,
  App!NoKey, App!Unavailable, App!AppKeysAreKept, App!OpensWhatIsInSight

\* What the ladder ends with: a key it found in its place, and no slot or file
\* that lost the only copy of one.
LadderIsSafe(l) ==
  /\ l.key \in AppKeys
  /\ l.keychain \in AppKeys \cup {App!NoKey} /\ l.file \in AppKeys \cup {App!NoKey}
  /\ l.key \in {AppEnvKey} \cup App!Held(l.keychain) \cup App!Held(l.file)
  /\ App!Held(v2) \cup App!Held(v5) \subseteq App!Held(l.keychain) \cup App!Held(l.file)

LEMMA LadderKeeps ==
  ASSUME App!AppKeyAssumption, App!KeptInv, NEW l \in App!Ladder
  PROVE  LadderIsSafe(l)
<1>1. /\ {v1, v2, v5} \subseteq AppKeys \cup {App!NoKey} /\ v1 \in {App!NoKey, AppEnvKey}
      /\ App!NoKey \notin AppKeys /\ App!Unavailable \notin AppKeys
      /\ App!NoKey # App!Unavailable /\ AppEnvKey \in AppKeys
      /\ v3 \in BOOLEAN /\ App!Keychain = IF v3 THEN v2 ELSE App!Unavailable
  BY DEF App!AppKeyAssumption, App!KeptInv, App!TypeOK, App!NoKey, App!Unavailable,
    App!Keychain
<1>2. /\ App!Fresh \subseteq AppKeys
      /\ \A k : App!WithoutCopy(k) = IF v5 = k THEN App!NoKey ELSE v5
      /\ \A k : App!Held(k) = {k} \cap AppKeys
  BY DEF App!Fresh, App!WithoutCopy, App!Held
<1>3. ASSUME NEW k, NEW source, NEW kc, NEW f, l = App!Found(k, source, kc, f)
      PROVE  l.key = k /\ l.keychain = kc /\ l.file = f
  BY <1>3 DEF App!Found
<1>4. CASE v1 \in AppKeys
  <2>1. l = App!Found(v1, "env", v2, v5)
    BY <1>1, <1>4 DEF App!Ladder
  <2> QED
    BY <1>1, <1>2, <1>3, <1>4, <2>1 DEF LadderIsSafe
<1>5. CASE v1 = App!NoKey /\ App!Keychain \in AppKeys
  <2>1. l = App!Found(v2, "keychain", v2, App!WithoutCopy(v2))
    BY <1>1, <1>5 DEF App!Ladder
  <2> QED
    BY <1>1, <1>2, <1>3, <1>5, <2>1 DEF LadderIsSafe
<1>6. CASE v1 = App!NoKey /\ App!Keychain = App!NoKey
  <2>1. PICK k \in IF v5 \in AppKeys THEN {v5} ELSE App!Fresh :
          \/ l = App!Found(k, "keychain", k, App!WithoutCopy(k))
          \/ l = App!Found(k, "file", v2, k)
    BY <1>1, <1>6 DEF App!Ladder
  <2>2. v2 = App!NoKey /\ k \in AppKeys /\ (v5 \in AppKeys => k = v5)
    BY <1>1, <1>2, <1>6
  <2>3. CASE l = App!Found(k, "keychain", k, App!WithoutCopy(k))
    BY <1>1, <1>2, <1>3, <2>2, <2>3 DEF LadderIsSafe
  <2>4. CASE l = App!Found(k, "file", v2, k)
    BY <1>1, <1>2, <1>3, <2>2, <2>4 DEF LadderIsSafe
  <2> QED
    BY <2>1, <2>3, <2>4
<1>7. CASE v1 = App!NoKey /\ App!Keychain = App!Unavailable
  <2>1. PICK k \in IF v5 \in AppKeys THEN {v5} ELSE App!Fresh :
          l = App!Found(k, "file", v2, k)
    <3>1. App!Ladder = IF ~v4 THEN {}
                       ELSE {App!Found(k, "file", v2, k) :
                               k \in IF v5 \in AppKeys THEN {v5}
                                     ELSE {n \in App!Fresh : ~App!Evidence}}
      BY <1>1, <1>7 DEF App!Ladder
    <3> QED
      BY <3>1
  <2>2. k \in AppKeys /\ (v5 \in AppKeys => k = v5)
    BY <1>2
  <2> QED
    BY <1>1, <1>2, <1>3, <2>1, <2>2 DEF LadderIsSafe
<1> QED
  BY <1>1, <1>4, <1>5, <1>6, <1>7

LEMMA AppKeyStays ==
  ASSUME App!AppKeyAssumption, App!KeptInv, [App!Next]_(App!vars)
  PROVE  App!KeptInv'
<1> USE DEF App!AppKeyAssumption, App!KeptInv, App!TypeOK, App!NoKey, App!Unavailable,
      App!Held, App!AppKeyOf, App!AppKeysAreKept, App!OpensWhatIsInSight, App!Keychain
<1>1. CASE App!ResolveAppKey
  <2>1. PICK l \in App!Ladder :
          /\ v2' = l.keychain /\ v5' = l.file
          /\ \/ \E k \in App!Current(l) :
                  /\ v8' = App!AppKeyOf(k, App!CandidateKeys(l) \ {k})
                  /\ v6' \in {v6, k}
             \/ UNCHANGED <<v8, v6>>
    BY <1>1 DEF App!ResolveAppKey
  <2>2. LadderIsSafe(l)
    BY LadderKeeps
  <2>3. v8.key = App!NoKey /\ UNCHANGED <<v1, v3, v4, v7, v9, v10>>
    BY <1>1 DEF App!ResolveAppKey
  <2>4. App!AppKeysAreKept'
    BY <2>1, <2>2, <2>3 DEF LadderIsSafe
  <2>5. CASE UNCHANGED <<v8, v6>>
    BY ZenonT(60), <2>1, <2>2, <2>3, <2>4, <2>5 DEF LadderIsSafe
  <2>6. ASSUME NEW k \in App!Current(l),
               v8' = App!AppKeyOf(k, App!CandidateKeys(l) \ {k}), v6' \in {v6, k}
        PROVE  App!KeptInv'
    <3>1. App!CandidateKeys(l) \subseteq AppKeys
      BY ZenonT(60), <2>2 DEF App!CandidateKeys, LadderIsSafe
    <3>2. k \in AppKeys /\ k \in {AppEnvKey} \cup App!Held(l.keychain) \cup App!Held(l.file)
      <4>1. App!CandidateKeys(l) \subseteq
              {AppEnvKey} \cup App!Held(l.keychain) \cup App!Held(l.file)
        BY ZenonT(60), <2>2 DEF App!CandidateKeys, LadderIsSafe
      <4>2. App!Current(l) \subseteq App!CandidateKeys(l)
        BY DEF App!Current, App!CandidateKeys
      <4> QED
        BY <2>6, <3>1, <4>1, <4>2
    <3>3. App!OpensWhatIsInSight'
      BY ZenonT(60), <2>1, <2>3, <2>6 DEF App!CandidateKeys
    <3>4. v8'.key = k /\ v8'.retired = App!CandidateKeys(l) \ {k}
      BY <2>6
    <3>5. App!TypeOK'
      <4>1. {v2', v5', v6'} \subseteq AppKeys \cup {App!NoKey}
        BY ZenonT(60), <2>1, <2>2, <2>6, <3>2 DEF LadderIsSafe
      <4>2. v1' \in AppKeys \cup {App!NoKey} /\ v9' \in SUBSET AppKeys /\ v10' \in SUBSET AppKeys
        BY <2>3
      <4> QED
        BY <3>1, <3>2, <3>4, <4>1, <4>2
    <3> QED
      BY <2>1, <2>3, <2>4, <3>2, <3>3, <3>4, <3>5
  <2> QED
    BY <2>1, <2>5, <2>6
<1>2. CASE App!Seal
  BY <1>2 DEF App!Seal
<1>3. CASE App!Stop
  BY <1>3 DEF App!Stop
<1>4. CASE App!Surroundings
  BY <1>4 DEF App!Surroundings
<1>5. CASE UNCHANGED App!vars
  BY <1>5 DEF App!vars
<1> QED
  BY <1>1, <1>2, <1>3, <1>4, <1>5 DEF App!Next

\* No start of an app costs a key that sealed something, and one that got its
\* key opens what any key in its sight sealed (app_key.rs).
THEOREM AppKeyCorrect == KeySpec => []AppKeysAreKept
<1> DEFINE Inv == part = "app key" => App!KeptInv
<1>1. KeyInit => Inv
  BY KeyPartsAssumption, KeyPartStarts, AppKeyInit
<1>2. Inv /\ [KeyNext]_vars => Inv'
  BY KeyPartsAssumption, KeyPartMoves, AppKeyStays
<1>3. Inv => AppKeysAreKept
  BY DEF AppKeysAreKept, App!KeptInv
<1> HIDE DEF Inv
<1> QED
  BY <1>1, <1>2, <1>3, PTL DEF KeySpec

-----------------------------------------------------------------------------
(* Sealed values.                                                          *)

\* Each sealer has an envelope, and no plaintext has none.
LEMMA Prefixes ==
  ASSUME NEW kind \in {"field", "plugin", "component", "tenant"}
  PROVE  /\ Value!PrefixOf(kind) \in Value!Envelopes /\ Value!PrefixOf(kind) # "plain"
         /\ Value!PrefixOf(kind) = "enc:v1:" <=> kind = "field"
         /\ \A other \in {"field", "plugin", "component", "tenant"} :
              Value!PrefixOf(other) = Value!PrefixOf(kind) => other = kind
BY DEF Value!PrefixOf, Value!Envelopes

\* A value in an envelope looks like it.
LEMMA LooksSealed ==
  ASSUME NEW v, v.scheme \in Value!Envelopes
  PROVE  Value!LooksLike(v) = v.scheme /\ v.scheme # "plain"
<1>1. v.scheme # "plain"
  BY DEF Value!Envelopes
<1>2. Value!StoredText(v) = <<v.scheme, "ciphertext">>
  BY <1>1 DEF Value!StoredText
<1>3. Value!StoredText(v) # <<>> /\ Head(Value!StoredText(v)) = v.scheme
  BY <1>2
<1> QED
  BY <1>1, <1>3 DEF Value!LooksLike

\* A cipher opens what is in its envelope, whoever asks it to.
LEMMA EnvelopeOpens ==
  ASSUME NEW c, NEW v, Value!LooksLike(v) = Value!Prefix(c), Value!LooksLike(v) # "plain"
  PROVE  /\ Value!SecretOpen(c, v) = Value!OpenBody(c, v)
         /\ Value!LooksLike(v) # "enc:v1:" => Value!OpenAllowingLegacy(c, v) = Value!OpenBody(c, v)
<1>1. Value!CipherOpen(c, v) = Value!OpenBody(c, v)
  BY Zenon DEF Value!CipherOpen
<1>2. Value!SecretOpen(c, v) = Value!OpenBody(c, v)
  BY <1>1, Zenon DEF Value!SecretOpen
<1>3. ASSUME Value!LooksLike(v) # "enc:v1:"
      PROVE  Value!OpenAllowingLegacy(c, v) = Value!OpenBody(c, v)
  BY <1>1, <1>3, Zenon DEF Value!OpenAllowingLegacy
<1> QED
  BY <1>2, <1>3

\* A cipher opens plaintext as it is, or not at all.
LEMMA PlainOpens ==
  ASSUME NEW c, c.kind \in {"field", "plugin", "component", "tenant"}, NEW t
  PROVE  Value!CipherOpen(c, Value!Plain(t)).ok => Value!CipherOpen(c, Value!Plain(t)).text = t
<1> DEFINE v == Value!Plain(t)
<1>1. v.scheme = "plain" /\ Value!StoredText(v) = t
  BY DEF Value!Plain, Value!StoredText
<1>2. Value!Prefix(c) # "plain"
  BY Prefixes DEF Value!Prefix
<1>3. Value!OpenBody(c, v) = Value!Failed
  BY <1>1, <1>2 DEF Value!OpenBody
<1>4. \A b : Value!Opened(t, b).text = t
  BY DEF Value!Opened
<1>5. Value!Failed.ok = FALSE
  BY DEF Value!Failed
<1> HIDE DEF v
<1>6. \/ Value!CipherOpen(c, v) = Value!OpenBody(c, v)
      \/ Value!CipherOpen(c, v) = Value!Failed
      \/ Value!CipherOpen(c, v) = Value!Opened(Value!StoredText(v), Value!StoredText(v) # <<>>)
  BY DEF Value!CipherOpen
<1>7. Value!Opened(Value!StoredText(v), Value!StoredText(v) # <<>>).text = t
  BY <1>1 DEF Value!Opened
<1> QED
  BY <1>3, <1>5, <1>6, <1>7 DEF v

\* What a store opens of a value in an envelope is under its own envelope, id
\* and keys, and of its own record if that is bound; a tenant's also takes a
\* field's.
LEMMA SealedOpens ==
  ASSUME Value!SealedValuesAssumption, NEW s \in ValueStores, NEW k \in Nat, NEW v,
         v.scheme \in Value!Envelopes, Value!OpenVia(s, k, v).ok
  PROVE  /\ Value!OpenVia(s, k, v).text = v.text
         /\ \/ /\ v.scheme = Value!PrefixOf(s.kind) /\ v.id = s.id
               /\ s.kind = "tenant" => v.home = "here"
            \/ s.kind = "tenant" /\ v.scheme = "enc:v1:"
<1> DEFINE c == Value!Sealer(s, k)
<1>1. Value!LooksLike(v) = v.scheme /\ v.scheme # "plain"
  BY LooksSealed
<1>2. Value!Failed.ok = FALSE
  BY DEF Value!Failed
<1>3. c.kind = s.kind /\ c.id = s.id
  BY DEF Value!Sealer
<1>4. \A b : Value!Opened(v.text, b).text = v.text
  BY DEF Value!Opened
<1> HIDE DEF c
<1>5. ASSUME Value!OpenBody(c, v).ok
      PROVE  /\ Value!OpenBody(c, v).text = v.text
             /\ v.scheme = Value!Prefix(c) /\ v.id = c.id
             /\ c.kind = "tenant" => v.home = "here"
  <2>1. /\ v.scheme = Value!Prefix(c) /\ v.id = c.id /\ Value!Opens(c, v.key)
        /\ c.kind = "tenant" => v.home = "here"
    BY <1>2, <1>5, Zenon DEF Value!OpenBody
  <2>2. Value!OpenBody(c, v) = Value!Opened(v.text, c.kind = "field" /\ v.key # c.key)
    BY <2>1, Zenon DEF Value!OpenBody
  <2>3. Value!OpenBody(c, v).text = v.text
    BY <2>2 DEF Value!Opened
  <2> QED
    BY <2>1, <2>3
<1>6. k # 0
  BY <1>1, <1>2 DEF Value!OpenVia
<1>7. CASE s.kind # "tenant"
  <2>1. Value!OpenVia(s, k, v) = Value!SecretOpen(c, v)
    BY <1>6, <1>7, Zenon DEF Value!OpenVia, c
  <2>2. Value!LooksLike(v) = Value!Prefix(c)
    BY <1>1, <1>2, <2>1 DEF Value!SecretOpen
  <2>3. Value!OpenVia(s, k, v) = Value!OpenBody(c, v)
    BY <1>1, <2>1, <2>2, EnvelopeOpens
  <2> QED
    BY <1>3, <1>5, <2>3 DEF Value!Prefix
<1>8. CASE s.kind = "tenant"
  <2>1. Value!OpenVia(s, k, v) = Value!OpenAllowingLegacy(c, v)
    BY <1>6, <1>8, Zenon DEF Value!OpenVia, c
  <2>2. CASE v.scheme = "enc:v1:"
    <3>1. Value!OpenVia(s, k, v) = Value!Opened(v.text, TRUE)
      BY <1>1, <1>2, <2>1, <2>2, Zenon DEF Value!OpenAllowingLegacy
    <3> QED
      BY <1>4, <1>8, <2>2, <3>1
  <2>3. CASE v.scheme # "enc:v1:"
    <3>1. Value!OpenVia(s, k, v) = Value!CipherOpen(c, v)
      BY <1>1, <2>1, <2>3 DEF Value!OpenAllowingLegacy
    <3>2. Value!OpenVia(s, k, v) = Value!OpenBody(c, v)
      BY <1>2, <1>3, <1>8, <3>1 DEF Value!CipherOpen
    <3> QED
      BY <1>3, <1>5, <3>2 DEF Value!Prefix
  <2> QED
    BY <2>2, <2>3
<1> QED
  BY <1>7, <1>8

\* A plaintext is opened as it is, or not at all.
LEMMA PlainOpensVia ==
  ASSUME Value!SealedValuesAssumption, NEW s \in ValueStores, NEW k \in Nat, NEW t,
         Value!OpenVia(s, k, Value!Plain(t)).ok
  PROVE  Value!OpenVia(s, k, Value!Plain(t)).text = t
<1> DEFINE v == Value!Plain(t)
           c == Value!Sealer(s, k)
<1>0. s.kind \in {"field", "plugin", "component", "tenant"}
  BY DEF Value!SealedValuesAssumption
<1>1. Value!StoredText(v) = t /\ v.scheme # "enc:v1:"
  BY DEF Value!Plain, Value!StoredText
<1>2. Value!Failed.ok = FALSE
  BY DEF Value!Failed
<1>3. c.kind \in {"field", "plugin", "component", "tenant"}
  BY <1>0 DEF Value!Sealer
<1>4. Value!Opened(Value!StoredText(v), Value!StoredText(v) # <<>>).text = t
  BY <1>1 DEF Value!Opened
<1> HIDE DEF v, c
<1>5. Value!CipherOpen(c, v).ok => Value!CipherOpen(c, v).text = t
  BY <1>3, PlainOpens DEF v
<1>6. \/ Value!OpenVia(s, k, v) = Value!Opened(Value!StoredText(v), Value!StoredText(v) # <<>>)
      \/ Value!OpenVia(s, k, v) = Value!Failed
      \/ Value!OpenVia(s, k, v) = Value!CipherOpen(c, v)
  BY <1>1, Zenon DEF Value!OpenVia, Value!OpenAllowingLegacy, Value!SecretOpen, c
<1> QED
  BY <1>2, <1>4, <1>5, <1>6 DEF v

\* What another store or record holds is sealed, and opens here only if it lies
\* under a key that both have.
LEMMA ForeignOpens ==
  ASSUME Value!SealedValuesAssumption, NEW s \in ValueStores, NEW k \in Nat,
         NEW v \in Value!Foreign(s)
  PROVE  /\ v.scheme \in Value!Envelopes /\ v.key \in 1 .. v5
         /\ Value!OpenVia(s, k, v).ok => v.text = <<"planted">>
<1>0. s.kind \in {"field", "plugin", "component", "tenant"}
  BY DEF Value!SealedValuesAssumption
<1>1. PICK w \in Value!Owners, n \in 1 .. v5 :
        v = Value!Sealed(Value!PrefixOf(w.kind), w.id, "elsewhere", n,
                         IF Value!SharesKey(s, w) THEN <<"planted">> ELSE <<"foreign">>)
  BY SMT DEF Value!Foreign
<1>2. w.kind \in {"field", "plugin", "component", "tenant"}
  BY DEF Value!Owners
<1>3. /\ v.scheme = Value!PrefixOf(w.kind) /\ v.id = w.id /\ v.key = n
      /\ v.home # "here"
      /\ Value!SharesKey(s, w) => v.text = <<"planted">>
  BY <1>1 DEF Value!Sealed
<1>4. v.scheme \in Value!Envelopes
  BY <1>2, <1>3, Prefixes
<1>5. ASSUME Value!OpenVia(s, k, v).ok
      PROVE  Value!SharesKey(s, w)
  <2>1. CASE s.kind # "tenant" /\ v.scheme = Value!PrefixOf(s.kind) /\ v.id = s.id
    BY <1>0, <1>2, <1>3, <2>1, Prefixes DEF Value!SharesKey
  <2>2. CASE s.kind = "tenant" /\ v.scheme = "enc:v1:"
    BY <1>2, <1>3, <2>2, Prefixes DEF Value!SharesKey
  <2> QED
    BY <1>3, <1>4, <1>5, <2>1, <2>2, SealedOpens
<1> QED
  BY <1>3, <1>4, <1>5

\* A value of the store's own that is not plaintext is in an envelope, with its text.
LEMMA OwnSealed ==
  ASSUME Value!SealedValuesAssumption, v1 \in ValueStores, NEW v, NEW t, Value!Own(v, t),
         v # Value!Plain(t)
  PROVE  v.scheme \in Value!Envelopes /\ v.text = t /\ v.key \in 1 .. v5
<1>1. v1.kind \in {"field", "plugin", "component", "tenant"}
  BY DEF Value!SealedValuesAssumption
<1>2. ASSUME NEW n \in 1 .. v5,
             v = Value!Sealed(Value!PrefixOf(v1.kind), v1.id, "here", n, t)
      PROVE  v.scheme \in Value!Envelopes /\ v.text = t /\ v.key \in 1 .. v5
  <2>1. v.scheme = Value!PrefixOf(v1.kind) /\ v.text = t /\ v.key = n
    BY <1>2 DEF Value!Sealed
  <2> QED
    BY <1>1, <2>1, Prefixes
<1>3. ASSUME NEW n \in 1 .. v5, v = Value!Sealed("enc:v1:", "", "here", n, t)
      PROVE  v.scheme \in Value!Envelopes /\ v.text = t /\ v.key \in 1 .. v5
  BY <1>3 DEF Value!Sealed, Value!Envelopes
<1> QED
  BY <1>2, <1>3 DEF Value!Own

\* Every process opens the value to what was stored last, or not at all.
LEMMA OpensTruly ==
  ASSUME Value!SealedValuesAssumption, Value!ValueInv, NEW k \in Nat,
         Value!OpenVia(v1, k, v2).ok
  PROVE  Value!OpenVia(v1, k, v2).text = v3 /\ v3 \in Value!Readable
<1>0. v1 \in ValueStores
  BY DEF Value!ValueInv
<1>1. CASE v2 = Value!Plain(v3) /\ v3 \in Value!Readable
  BY <1>0, <1>1, PlainOpensVia
<1>2. CASE v2 # Value!Plain(v3) /\ v3 \in Value!Readable /\ Value!Own(v2, v3)
  <2>1. v2.scheme \in Value!Envelopes /\ v2.text = v3
    BY <1>0, <1>2, OwnSealed
  <2> QED
    BY <1>0, <1>2, <2>1, SealedOpens
<1>3. CASE v2 \in Value!Foreign(v1) /\ v3 = v2.text
  <2>1. v2.scheme \in Value!Envelopes /\ v3 = <<"planted">>
    BY <1>0, <1>3, ForeignOpens
  <2> QED
    BY <1>0, <1>3, <2>1, SealedOpens DEF Value!Readable
<1> QED
  BY <1>1, <1>2, <1>3 DEF Value!ValueInv

\* ValueInv is enough.
LEMMA ValueSound ==
  ASSUME Value!SealedValuesAssumption, Value!ValueInv
  PROVE  Value!SealedValueIsSound
<1>0. v1 \in ValueStores /\ \A p \in ValueProcs : v6[p] \in Nat
  BY DEF Value!ValueInv
<1>1. ASSUME NEW p \in ValueProcs, Value!OpenVia(v1, v6[p], v2).ok
      PROVE  Value!OpenVia(v1, v6[p], v2).text = v3 /\ v3 # <<"foreign">>
  <2>1. Value!OpenVia(v1, v6[p], v2).text = v3 /\ v3 \in Value!Readable
    BY <1>0, <1>1, OpensTruly
  <2>2. <<"planted">> # <<"foreign">>
    OBVIOUS
  <2> QED
    BY <2>1, <2>2 DEF Value!SealedValuesAssumption, Value!Readable
<1>2. ASSUME NEW p \in ValueProcs, v2.scheme = Value!PrefixOf(v1.kind), v2.id = v1.id,
             v2.home = "here", v2.key > 0, Value!Opens(Value!Sealer(v1, v6[p]), v2.key)
      PROVE  Value!OpenVia(v1, v6[p], v2).ok
  <2> DEFINE c == Value!Sealer(v1, v6[p])
  <2>1. c.kind = v1.kind /\ c.id = v1.id /\ c.key = v6[p]
    BY DEF Value!Sealer
  <2>2. v1.kind \in {"field", "plugin", "component", "tenant"}
    BY <1>0 DEF Value!SealedValuesAssumption
  <2>3. Value!LooksLike(v2) = v2.scheme /\ v2.scheme # "plain"
    BY <1>2, <2>2, Prefixes, LooksSealed
  <2>4. Value!Prefix(c) = v2.scheme
    BY <1>2, <2>1 DEF Value!Prefix
  <2> HIDE DEF c
  <2>5. Value!OpenBody(c, v2) = Value!Opened(v2.text, c.kind = "field" /\ v2.key # c.key)
    BY <1>2, <2>1, <2>4, Zenon DEF Value!OpenBody, c
  <2>6. Value!OpenBody(c, v2).ok = TRUE
    BY <2>5 DEF Value!Opened
  <2>7. v6[p] # 0
    <3>1. v2.key > 0 /\ v6[p] \in Nat
      BY <1>0, <1>2
    <3>2. v2.key \in Nat
      <4>1. CASE v2 \in Value!Foreign(v1)
        BY <1>0, <4>1, ForeignOpens
      <4>2. CASE v2 = Value!Plain(v3)
        BY <4>2 DEF Value!Plain
      <4>3. CASE v2 # Value!Plain(v3) /\ Value!Own(v2, v3)
        BY <1>0, <4>3, OwnSealed
      <4> QED
        BY <4>1, <4>2, <4>3 DEF Value!ValueInv
    <3>3. v2.key = c.key \/ v2.key <= c.key
      BY <1>2 DEF Value!Opens, c
    <3> QED
      BY <2>1, <3>1, <3>2, <3>3
  <2>8. CASE v1.kind = "tenant"
    <3>1. v2.scheme # "enc:v1:"
      BY <1>2, <2>2, <2>8, Prefixes
    <3>2. Value!OpenVia(v1, v6[p], v2) = Value!OpenAllowingLegacy(c, v2)
      BY <2>7, <2>8, Zenon DEF Value!OpenVia, c
    <3>3. Value!OpenVia(v1, v6[p], v2) = Value!OpenBody(c, v2)
      BY <2>3, <2>4, <3>1, <3>2, EnvelopeOpens
    <3> QED
      BY <2>6, <3>3
  <2>9. CASE v1.kind # "tenant"
    <3>1. Value!OpenVia(v1, v6[p], v2) = Value!SecretOpen(c, v2)
      BY <2>7, <2>9, Zenon DEF Value!OpenVia, c
    <3>2. Value!OpenVia(v1, v6[p], v2) = Value!OpenBody(c, v2)
      BY <2>3, <2>4, <3>1, EnvelopeOpens
    <3> QED
      BY <2>6, <3>2
  <2> QED
    BY <2>8, <2>9
<1>3. Value!OpensToTheTruth
  BY <1>1, Zenon DEF Value!OpensToTheTruth
<1>4. Value!OwnValuesOpen
  BY <1>2 DEF Value!OwnValuesOpen
<1> QED
  BY <1>3, <1>4 DEF Value!SealedValueIsSound, Value!ValueInv

\* A value is a user's plaintext at first, or a tenant's in the fields' envelope.
LEMMA ValueInit ==
  ASSUME Value!SealedValuesAssumption, Value!Init
  PROVE  Value!ValueInv
<1>1. Value!Own(v2, v3)
  <2>1. CASE v2 = Value!Plain(v3)
    BY <2>1 DEF Value!Own
  <2>2. CASE v1.kind = "tenant" /\ v2 = Value!Sealed("enc:v1:", "", "here", 1, v3)
    <3>1. v5 = 1
      BY Zenon DEF Value!Init
    <3>2. 1 \in 1 .. v5
      BY <3>1
    <3> QED
      BY <2>2, <3>2, Zenon DEF Value!Own
  <2> QED
    BY <2>1, <2>2 DEF Value!Init
<1>2. Value!StaysSealed
  <2>1. v4 <=> v2.scheme # "plain"
    BY DEF Value!Init
  <2> QED
    BY <2>1, Zenon DEF Value!StaysSealed
<1>3. /\ v1 \in ValueStores /\ v5 = 1 /\ v3 \in ValueTexts
      /\ v6 = [p \in ValueProcs |-> 0] /\ v7 = [p \in ValueProcs |-> <<>>]
  BY Zenon DEF Value!Init
<1> QED
  BY <1>1, <1>2, <1>3 DEF Value!ValueInv, Value!Readable

\* What a process stores is its own text, sealed if it can be.
LEMMA StoresTruly ==
  ASSUME Value!SealedValuesAssumption, Value!ValueInv, NEW p \in ValueProcs, NEW t,
         NEW v \in Value!StoreVia(v1, v6[p], t)
  PROVE  /\ Value!Own(v, t)
         /\ v.scheme = "plain" => v.text = <<>>
<1>1. v1 \in ValueStores /\ v6[p] \in 0 .. v5 /\ v5 \in Nat
  BY DEF Value!ValueInv
<1>2. CASE v = Value!Plain(<<>>) /\ t = <<>>
  BY <1>2 DEF Value!Own, Value!Plain
<1>3. CASE v6[p] # 0 /\ v = Value!Seal(Value!Sealer(v1, v6[p]), t)
  <2>1. v = Value!Sealed(Value!PrefixOf(v1.kind), v1.id, "here", v6[p], t)
    BY <1>3 DEF Value!Seal, Value!Sealer, Value!Prefix
  <2>2. v6[p] \in 1 .. v5
    BY <1>1, <1>3
  <2>3. v1.kind \in {"field", "plugin", "component", "tenant"}
    BY <1>1 DEF Value!SealedValuesAssumption
  <2>4. v.scheme # "plain"
    BY <2>1, <2>3, Prefixes DEF Value!Sealed
  <2> QED
    BY <2>1, <2>2, <2>4 DEF Value!Own
<1> QED
  BY <1>2, <1>3 DEF Value!StoreVia

LEMMA ValueStays ==
  ASSUME Value!SealedValuesAssumption, Value!ValueInv, [Value!Next]_(Value!vars)
  PROVE  Value!ValueInv'
<1>0. /\ v1 \in ValueStores /\ v5 \in Nat \ {0} /\ v6 \in [ValueProcs -> 0 .. v5]
      /\ \/ v3 \in Value!Readable /\ Value!Own(v2, v3)
         \/ v2 \in Value!Foreign(v1) /\ v3 = v2.text
      /\ v7 \in [ValueProcs -> {<<>>} \cup {<<t>> : t \in Value!Readable}]
      /\ Value!StaysSealed
  BY DEF Value!ValueInv
\* The value is replaced by one of the store's own.
<1>p. ASSUME NEW v, NEW t \in Value!Readable, Value!Own(v, t), v.scheme = "plain" => v.text = <<>>,
             Value!Put(v, t), v7' = v7
      PROVE  Value!ValueInv'
  <2>1. v2' = v /\ v3' = t /\ UNCHANGED <<v1, v5, v6>>
    BY <1>p DEF Value!Put
  <2>2. Value!Own(v2, v3)'
    BY <1>p, <2>1 DEF Value!Own
  <2>3. Value!StaysSealed'
    BY <1>p, <2>1 DEF Value!StaysSealed
  <2> QED
    BY <1>0, <1>p, <2>1, <2>2, <2>3 DEF Value!ValueInv, Value!Readable
\* The value stays.
<1>s. ASSUME UNCHANGED <<v1, v2, v3, v4, v5>>, v6' \in [ValueProcs -> 0 .. v5],
             v7' \in [ValueProcs -> {<<>>} \cup {<<t>> : t \in Value!Readable}]
      PROVE  Value!ValueInv'
  <2>2. v1' = v1 /\ v2' = v2 /\ v3' = v3 /\ v5' = v5
    BY <1>s
  <2>3. Value!Own(v2, v3)' <=> Value!Own(v2, v3)
    BY <2>2 DEF Value!Own
  <2>4. Value!Foreign(v1)' = Value!Foreign(v1)
    BY <2>2 DEF Value!Foreign
  <2>1. \/ v3' \in Value!Readable /\ Value!Own(v2, v3)'
        \/ v2' \in Value!Foreign(v1)' /\ v3' = v2'.text
    BY <1>0, <2>2, <2>3, <2>4
  <2> QED
    BY <1>0, <1>s, <2>1 DEF Value!ValueInv, Value!StaysSealed, Value!Readable
<1>1. ASSUME NEW p \in ValueProcs, Value!Boot(p) \/ Value!BootKeyless(p)
      PROVE  Value!ValueInv'
  <2>1. v6' \in [ValueProcs -> 0 .. v5]
    BY <1>0, <1>1 DEF Value!Boot, Value!BootKeyless
  <2>2. v7' \in [ValueProcs -> {<<>>} \cup {<<t>> : t \in Value!Readable}]
    BY <1>0, <1>1 DEF Value!Boot, Value!BootKeyless
  <2> QED
    BY <1>1, <1>s, <2>1, <2>2 DEF Value!Boot, Value!BootKeyless
<1>2. ASSUME NEW p \in ValueProcs, Value!Load(p)
      PROVE  Value!ValueInv'
  <2>1. v6[p] \in Nat
    BY <1>0
  <2>2. Value!OpenVia(v1, v6[p], v2).text \in Value!Readable
    BY <1>2, <2>1, OpensTruly DEF Value!Load
  <2>3. v7' = [v7 EXCEPT ![p] = <<Value!OpenVia(v1, v6[p], v2).text>>]
    BY <1>2 DEF Value!Load
  <2>4. v7' \in [ValueProcs -> {<<>>} \cup {<<t>> : t \in Value!Readable}]
    BY <1>0, <2>2, <2>3
  <2> QED
    BY <1>0, <1>2, <1>s, <2>4 DEF Value!Load
<1>3. ASSUME NEW p \in ValueProcs, Value!Save(p)
      PROVE  Value!ValueInv'
  <2>1. PICK t \in Value!Readable : v7[p] = <<t>>
    BY <1>0, <1>3 DEF Value!Save
  <2>2. Head(v7[p]) = t
    BY <2>1
  <2>3. PICK v \in Value!StoreVia(v1, v6[p], t) : Value!Put(v, t)
    BY <1>3, <2>2 DEF Value!Save
  <2>4. v7' = v7
    BY <1>3 DEF Value!Save
  <2> QED
    BY <1>p, <2>3, <2>4, StoresTruly
<1>4. ASSUME NEW p \in ValueProcs, NEW t \in ValueTexts, Value!Write(p, t)
      PROVE  Value!ValueInv'
  <2>1. PICK v \in Value!StoreVia(v1, v6[p], t) : Value!Put(v, t)
    BY <1>4 DEF Value!Write
  <2>2. v7' = v7 /\ t \in Value!Readable
    BY <1>4 DEF Value!Write, Value!Readable
  <2> QED
    BY <1>p, <2>1, <2>2, StoresTruly
<1>5. ASSUME NEW p \in ValueProcs, Value!Reseal(p)
      PROVE  Value!ValueInv'
  <2>1. v6[p] \in Nat /\ v6[p] > 0 /\ Value!OpenVia(v1, v6[p], v2).ok /\ v1.via # "string"
    BY <1>0, <1>5 DEF Value!Reseal
  <2>2. Value!OpenVia(v1, v6[p], v2).text = v3 /\ v3 \in Value!Readable
    BY <2>1, OpensTruly
  <2> DEFINE v == Value!Seal(Value!Sealer(v1, v6[p]), v3)
  <2>3. Value!Put(v, v3) /\ v7' = v7
    BY <1>5, <2>2 DEF Value!Reseal
  <2>4. v \in Value!StoreVia(v1, v6[p], v3)
    BY <2>1 DEF Value!StoreVia
  <2> HIDE DEF v
  <2>5. Value!Own(v, v3) /\ (v.scheme = "plain" => v.text = <<>>)
    BY <2>2, <2>4, StoresTruly
  <2> QED
    BY <1>p, <2>2, <2>3, <2>5
<1>6. CASE Value!ReplaceMasterKey
  <2>1. v5' = v5 + 1 /\ UNCHANGED <<v1, v2, v3, v4, v6, v7>>
    BY <1>6 DEF Value!ReplaceMasterKey
  <2>2. 1 .. v5 \subseteq 1 .. v5' /\ 0 .. v5 \subseteq 0 .. v5'
    BY <1>0, <2>1
  <2>3. Value!Own(v2, v3) => Value!Own(v2, v3)'
    BY <2>1, <2>2 DEF Value!Own
  <2>4. v6' \in [ValueProcs -> 0 .. v5'] /\ v5' \in Nat \ {0}
    BY <1>0, <2>1, <2>2
  <2>5. v2 \in Value!Foreign(v1) => v2 \in Value!Foreign(v1)'
    BY <2>1, <2>2 DEF Value!Foreign
  <2>6. \/ v3' \in Value!Readable /\ Value!Own(v2, v3)'
        \/ v2' \in Value!Foreign(v1)' /\ v3' = v2'.text
    BY <1>0, <2>1, <2>3, <2>5
  <2> QED
    BY <1>0, <2>1, <2>4, <2>6 DEF Value!ValueInv, Value!StaysSealed, Value!Readable
<1>7. CASE Value!CopyIn
  <2>1. PICK v \in Value!Foreign(v1) : Value!Put(v, v.text)
    BY <1>7 DEF Value!CopyIn
  <2>2. v7' = v7 /\ v2' = v /\ v3' = v.text /\ UNCHANGED <<v1, v5, v6>>
    BY <1>7, <2>1 DEF Value!CopyIn, Value!Put
  <2>3. v.scheme # "plain"
    BY <1>0, ForeignOpens, LooksSealed
  <2>4. Value!StaysSealed'
    BY <2>2, <2>3 DEF Value!StaysSealed
  <2>5. Value!Foreign(v1)' = Value!Foreign(v1)
    BY <2>2 DEF Value!Foreign
  <2> QED
    BY <1>0, <2>2, <2>4, <2>5 DEF Value!ValueInv, Value!Readable
<1>8. CASE UNCHANGED Value!vars
  BY <1>0, <1>8, <1>s DEF Value!vars
<1> QED
  BY <1>1, <1>2, <1>3, <1>4, <1>5, <1>6, <1>7, <1>8 DEF Value!Next

\* A stored secret opens, for whoever opens it, to what was last stored there;
\* it opens for everyone who has its key, and is never replaced by a plaintext
\* once it was sealed (sealed.rs, secret_file.rs).
THEOREM ValueCorrect == KeySpec => []SealedValueIsSound
<1> DEFINE Inv == part = "value" => Value!ValueInv
<1>1. KeyInit => Inv
  BY KeyPartsAssumption, KeyPartStarts, ValueInit DEF KeyPartsAssumption
<1>2. Inv /\ [KeyNext]_vars => Inv'
  BY KeyPartsAssumption, KeyPartMoves, ValueStays DEF KeyPartsAssumption
<1>3. Inv => SealedValueIsSound
  BY KeyPartsAssumption, ValueSound DEF KeyPartsAssumption, SealedValueIsSound
<1> HIDE DEF Inv
<1> QED
  BY <1>1, <1>2, <1>3, PTL DEF KeySpec

-----------------------------------------------------------------------------
(* Custody of the master key: v1 is env, v2 keychain, v3 reachable, v4     *)
(* allowFile, v5 file, v6 memory, v7 chained, v8 filed, v9 index, v10      *)
(* recorded, v11 at, v12 hold, v13 todo, v14 used, v15 gone, v16 forgotten *)
(* and v17 raced.                                                          *)

LEMMA SameFinite ==
  ASSUME NEW S
  PROVE  /\ Custody!IsFiniteSet(S) <=> IsFiniteSet(S)
         /\ Custody!Cardinality(S) = Cardinality(S)
BY Zenon DEF IsFiniteSet, Custody!IsFiniteSet, Cardinality, Custody!Cardinality

\* A finite set's list has its elements, and no others.
LEMMA ListIsOfTheSet ==
  ASSUME NEW S, IsFiniteSet(S)
  PROVE  /\ Cardinality(S) \in Nat
         /\ \A i \in 1 .. Cardinality(S) : Custody!Listed(S)[i] \in S
         /\ \A x \in S : \E i \in 1 .. Cardinality(S) : Custody!Listed(S)[i] = x
<1>1. Cardinality(S) \in Nat /\ ExistsBijection(1 .. Cardinality(S), S)
  BY FS_CardinalityType
<1>2. PICK f \in Bijection(1 .. Cardinality(S), S) : TRUE
  BY <1>1 DEF ExistsBijection
<1>3. /\ f \in [1 .. Cardinality(S) -> S]
      /\ \A x \in S : \E i \in 1 .. Cardinality(S) : f[i] = x
  BY <1>2 DEF Bijection, Injection, Surjection, IsInjective
<1> DEFINE IsList(list) == \A x \in S : \E i \in 1 .. Cardinality(S) : list[i] = x
<1>4. Custody!Listed(S) = CHOOSE list \in [1 .. Cardinality(S) -> S] : IsList(list)
  <2>1. Custody!Cardinality(S) = Cardinality(S)
    BY SameFinite
  <2>2. Custody!Listed(S) = CHOOSE list \in [1 .. Custody!Cardinality(S) -> S] :
          \A x \in S : \E i \in 1 .. Custody!Cardinality(S) : list[i] = x
    BY Zenon DEF Custody!Listed
  <2> QED
    BY <2>1, <2>2, Zenon
<1>5. IsList(f)
  BY <1>3
<1> HIDE DEF IsList
<1>6. Custody!Listed(S) \in [1 .. Cardinality(S) -> S] /\ IsList(Custody!Listed(S))
  BY <1>3, <1>4, <1>5
<1> QED
  BY <1>1, <1>6 DEF IsList

\* A sequence of writes, one for each key.
AreOfTheKeys(s, where, ks) ==
  /\ s \in Seq(Custody!Writes)
  /\ \A i \in 1 .. Len(s) : s[i].to = where /\ s[i].key \in ks
  /\ \A k \in ks : \E i \in 1 .. Len(s) : s[i].key = k

LEMMA EachIsOfTheKeys ==
  ASSUME NEW ks \in SUBSET CustodyKeys, IsFiniteSet(CustodyKeys), NEW c \in Custody!Custodies,
         NEW where \in {"retire", "data"}
  PROVE  AreOfTheKeys(Custody!WriteEach(where, ks, c), where, ks)
<1>1. IsFiniteSet(ks)
  BY FS_Subset
<1> DEFINE n == Cardinality(ks)
           L == Custody!Listed(ks)
           s == Custody!WriteEach(where, ks, c)
<1>2. /\ n \in Nat
      /\ \A i \in 1 .. n : L[i] \in ks
      /\ \A x \in ks : \E i \in 1 .. n : L[i] = x
  BY <1>1, ListIsOfTheSet
<1>3. s = [i \in 1 .. n |-> [to |-> where, key |-> L[i], custody |-> c]]
  BY SameFinite DEF Custody!WriteEach, Custody!WriteTo
<1> HIDE DEF n, L, s
<1>4. \A i \in 1 .. n : s[i] \in Custody!Writes /\ s[i].to = where /\ s[i].key = L[i]
  BY <1>2, <1>3 DEF Custody!Writes
<1>5. s \in Seq(Custody!Writes) /\ Len(s) = n
  <2>1. s \in [1 .. n -> Custody!Writes]
    BY <1>3, <1>4
  <2> QED
    BY <1>2, <2>1
<1> QED
  <2>1. AreOfTheKeys(s, where, ks)
    BY <1>2, <1>4, <1>5 DEF AreOfTheKeys
  <2> QED
    BY <2>1 DEF s

LEMMA WritesAreOfTheKeys ==
  ASSUME NEW ks \in SUBSET CustodyKeys, IsFiniteSet(CustodyKeys), NEW c \in Custody!Custodies,
         NEW where \in {"retire", "data"}
  PROVE  LET s == Custody!WriteEach(where, ks, c) IN
           /\ s \in Seq(Custody!Writes)
           /\ \A i \in 1 .. Len(s) : s[i].to = where /\ s[i].key \in ks
           /\ \A k \in ks : \E i \in 1 .. Len(s) : s[i].key = k
<1> DEFINE s == Custody!WriteEach(where, ks, c)
<1>1. AreOfTheKeys(s, where, ks)
  BY EachIsOfTheKeys
<1> HIDE DEF s
<1>2. /\ s \in Seq(Custody!Writes)
      /\ \A i \in 1 .. Len(s) : s[i].to = where /\ s[i].key \in ks
      /\ \A k \in ks : \E i \in 1 .. Len(s) : s[i].key = k
  BY <1>1 DEF AreOfTheKeys
<1> QED
  BY <1>2 DEF s

-----------------------------------------------------------------------------
LEMMA StoredIs ==
  ASSUME NEW k
  PROVE  /\ k \in Custody!Stored <=>
              \/ k \in CustodyKeys /\ k \in {v2, v5, v6}
              \/ \E e \in v9 : e.kcv = k /\ k \in IF e.custody = "file" THEN v8 ELSE v7
         /\ k \in Custody!Stored' <=>
              \/ k \in CustodyKeys /\ k \in {v2', v5', v6'}
              \/ \E e \in v9' : e.kcv = k /\ k \in IF e.custody = "file" THEN v8' ELSE v7'
BY DEF Custody!Stored, Custody!Held

\* A key that the index lists is stored, or the keychain lost it.
LEMMA IndexedIsSafe ==
  ASSUME \A e \in v9 : Custody!Kept(e), NEW k, Custody!Indexed(k)
  PROVE  k \in Custody!Stored \cup v16 /\ k \in Custody!Safe
BY StoredIs DEF Custody!Kept, Custody!Indexed, Custody!Safe

LEMMA IndexedWillBeSafe ==
  ASSUME \A e \in v9' : Custody!Kept(e)', NEW k, Custody!Indexed(k)'
  PROVE  k \in Custody!Safe'
BY StoredIs DEF Custody!Kept, Custody!Indexed, Custody!Safe

\* What can be loaded, and every candidate, is stored or the environment's.
LEMMA CandidatesAreSafe ==
  ASSUME Custody!KeyCustodyAssumption, Custody!Types
  PROVE  /\ Custody!Candidates \subseteq Custody!Accounted
         /\ Custody!Candidates \subseteq CustodyKeys
         /\ Custody!Loaded \subseteq CustodyKeys
         /\ Custody!Loaded \subseteq Custody!Stored
<1>1. Custody!Loaded \subseteq Custody!Stored /\ Custody!Loaded \subseteq CustodyKeys
  BY StoredIs DEF Custody!Loaded, Custody!Types, Custody!Entries
<1>2. Custody!LiveKeys \subseteq {CustodyEnvKey} \cup Custody!Stored
  BY StoredIs DEF Custody!KeyCustodyAssumption, Custody!Types, Custody!LiveKeys, Custody!Held,
    Custody!Keychain
<1>3. Custody!LiveKeys \subseteq CustodyKeys
  BY DEF Custody!LiveKeys, Custody!Held
<1> QED
  BY <1>1, <1>2, <1>3 DEF Custody!Candidates, Custody!Accounted, Custody!Safe

\* What stands in a list of writes.
LEMMA WritesAre ==
  ASSUME NEW s \in Seq(Custody!Writes)
  PROVE  \A i \in 1 .. Len(s) : s[i].key \in CustodyKeys /\ s[i].custody \in Custody!Custodies
<1>1. ASSUME NEW i \in 1 .. Len(s)
      PROVE  s[i] \in Custody!Writes
  OBVIOUS
<1> QED
  BY <1>1 DEF Custody!Writes

LEMMA ToolsWrites ==
  ASSUME Custody!Types
  PROVE  /\ v13["tool"] \in Seq(Custody!Writes)
         /\ \A i \in 1 .. Len(v13["tool"]) : v13["tool"][i].key \in CustodyKeys
<1>1. "tool" \in Custody!Actors
  BY DEF Custody!Actors
<1>2. v13["tool"] \in Seq(Custody!Writes)
  BY <1>1 DEF Custody!Types
<1> QED
  BY <1>2, WritesAre

\* A process that takes no part in a step keeps its part of the invariant.
LEMMA OtherProcessStays ==
  ASSUME NEW p \in Procs, Custody!ProcessInv(p), Custody!Safe \subseteq Custody!Safe',
         \A e : Custody!Kept(e) => Custody!Kept(e)',
         v11'[p] = v11[p], v12'[p] = v12[p], v13'[p] = v13[p]
  PROVE  Custody!ProcessInv(p)'
BY DEF Custody!ProcessInv, Custody!VaultIsKept, Custody!Accounted

\* And so does the tool, unless the index forgets or a slot is filled.
LEMMA ToolStays ==
  ASSUME Custody!Types, Custody!ToolInv, Custody!Safe \subseteq Custody!Safe',
         \A e : Custody!Kept(e) => Custody!Kept(e)',
         \A k : Custody!Indexed(k) => Custody!Indexed(k)' \/ k \in v17',
         v17 \subseteq v17', v5 \in CustodyKeys => v5' = v5, v6' \in {v6, Custody!NoKey},
         v11'["tool"] = v11["tool"], v12'["tool"] = v12["tool"], v13'["tool"] = v13["tool"]
  PROVE  Custody!ToolInv'
<1>1. Custody!VaultIsKept("tool")'
  BY DEF Custody!ToolInv, Custody!VaultIsKept
<1>2. ASSUME NEW i \in 1 .. Len(v13["tool"])
      PROVE  Custody!WriteInv(i)'
  <2>1. v13["tool"] \in Seq(Custody!Writes) /\ v13["tool"][i].key \in CustodyKeys
    BY ToolsWrites
  <2>2. Custody!WriteInv(i)
    BY DEF Custody!ToolInv
  <2>3. ASSUME NEW k, Custody!SeenIsPutAway(i, k)
        PROVE  Custody!SeenIsPutAway(i, k)'
    BY <2>3 DEF Custody!SeenIsPutAway, Custody!Before
  <2>4. \A k, tos : Custody!Before(i, k, tos) => Custody!Before(i, k, tos)'
    BY DEF Custody!Before
  <2> DEFINE w == v13["tool"][i]
  <2>5. /\ w.to = "keychain" => Custody!SeenIsPutAway(i, v12["tool"].key)
        /\ w.to = "file" => Custody!SeenIsPutAway(i, v12["tool"].seen)
        /\ w.to \in {"record", "data"} =>
             w.key \in Custody!Accounted
               \/ Custody!Before(i, w.key, Custody!PutsAway \cup Custody!Custodies)
        /\ w.to = "drop file" =>
             /\ v5 = w.key /\ i = Len(v13["tool"])
             /\ \A j \in 1 .. i : v13["tool"][j].to # "file"
        /\ w.to = "drop memory" => v6 \in {w.key, Custody!NoKey}
    BY <2>2 DEF Custody!WriteInv
  <2>6. w.to = "keychain" => Custody!SeenIsPutAway(i, v12["tool"].key)'
    BY <2>3, <2>5
  <2>7. w.to = "file" => Custody!SeenIsPutAway(i, v12["tool"].seen)'
    BY <2>3, <2>5
  <2>8. w.to \in {"record", "data"} =>
          w.key \in Custody!Accounted'
            \/ Custody!Before(i, w.key, Custody!PutsAway \cup Custody!Custodies)'
    <3>1. Custody!Accounted \subseteq Custody!Accounted'
      BY DEF Custody!Accounted
    <3> QED
      BY <2>4, <2>5, <3>1
  <2>9. w' = w
    OBVIOUS
  <2>10. w.to = "drop file" =>
             /\ v5' = w.key /\ i = Len(v13["tool"]')
             /\ \A j \in 1 .. i : (v13["tool"][j].to # "file")'
    BY <2>1, <2>5
  <2>11. w.to = "drop memory" => v6' \in {w.key, Custody!NoKey}
    BY <2>5
  <2> QED
    BY <2>6, <2>7, <2>8, <2>9, <2>10, <2>11, Zenon DEF Custody!WriteInv
<1> QED
  BY <1>1, <1>2 DEF Custody!ToolInv

-----------------------------------------------------------------------------
\* Nothing is lost where nothing is replaced, and the index keeps its entries.
LEMMA Quiet ==
  ASSUME UNCHANGED <<v2, v5, v6, v7, v8, v9, v15, v16, v17>>
  PROVE  /\ Custody!Stored' = Custody!Stored /\ Custody!Safe' = Custody!Safe
         /\ Custody!Accounted' = Custody!Accounted
         /\ \A e : Custody!Kept(e)' <=> Custody!Kept(e)
         /\ \A k : Custody!Indexed(k)' <=> Custody!Indexed(k)
<1>1. Custody!Stored' = Custody!Stored
  BY DEF Custody!Stored, Custody!Held
<1> QED
  BY <1>1 DEF Custody!Safe, Custody!Accounted, Custody!Kept, Custody!Indexed

\* What no step may do to what others rely on.
Undisturbed(a) ==
  /\ Custody!Safe \subseteq Custody!Safe'
  /\ \A e : Custody!Kept(e) => Custody!Kept(e)'
  /\ \A k : Custody!Indexed(k) => Custody!Indexed(k)' \/ k \in v17'
  /\ v17 \subseteq v17'
  /\ \A e \in v9' : Custody!Kept(e)'
  /\ a # "tool" => (v5 \in CustodyKeys => v5' = v5) /\ v6' \in {v6, Custody!NoKey}
  /\ \A b \in Custody!Actors \ {a} :
       v11'[b] = v11[b] /\ v12'[b] = v12[b] /\ v13'[b] = v13[b]

\* So a step of an actor keeps the invariant if it keeps its own part of it.
LEMMA StepOf ==
  ASSUME Custody!KeyCustodyAssumption, Custody!CustodyInv, NEW a \in Custody!Actors,
         Undisturbed(a), Custody!Types',
         a \in Procs => Custody!ProcessInv(a)', a = "tool" => Custody!ToolInv',
         Custody!UsedKeysAreKeptBut', Custody!RecordNamesAStoredKey'
  PROVE  Custody!CustodyInv'
<1>1. ASSUME NEW p \in Procs
      PROVE  Custody!ProcessInv(p)'
  <2>1. CASE p = a
    BY <2>1
  <2>2. CASE p # a
    <3>1. Custody!ProcessInv(p) /\ p \in Custody!Actors
      BY DEF Custody!CustodyInv, Custody!Actors
    <3> QED
      BY <2>2, <3>1, OtherProcessStays DEF Undisturbed
  <2> QED
    BY <2>1, <2>2
<1>2. Custody!ToolInv'
  <2>1. CASE a # "tool"
    <3>1. Custody!ToolInv /\ Custody!Types /\ "tool" \in Custody!Actors
      BY DEF Custody!CustodyInv, Custody!Actors
    <3> QED
      BY <2>1, <3>1, ToolStays DEF Undisturbed
  <2> QED
    BY <2>1
<1>3. \A e \in v9' : Custody!Kept(e)'
  BY DEF Undisturbed
<1> QED
  BY <1>1, <1>2, <1>3 DEF Custody!CustodyInv

\* What sealed and what is recorded stay where they are.
LEMMA KeptOn ==
  ASSUME Custody!CustodyInv, Custody!Safe \subseteq Custody!Safe',
         v10' \in {v10, Custody!NoKey} \cup Custody!Accounted',
         v14'["core"] \subseteq v14["core"] \cup Custody!Accounted'
  PROVE  Custody!UsedKeysAreKeptBut' /\ Custody!RecordNamesAStoredKey'
<1>1. Custody!UsedKeysAreKeptBut'
  BY DEF Custody!CustodyInv, Custody!UsedKeysAreKeptBut, Custody!Safe, Custody!Accounted
<1>2. Custody!RecordNamesAStoredKey'
  BY DEF Custody!CustodyInv, Custody!RecordNamesAStoredKey, Custody!Safe, Custody!Accounted
<1> QED
  BY <1>1, <1>2

\* A process with nothing to write.
LEMMA ProcessWithoutWrites ==
  ASSUME NEW p \in Procs, v13'[p] = <<>>, \A e \in v12'[p].index : Custody!Kept(e)',
         v11'[p] \in {"store", "verify", "publish"} => v12'[p].key \in CustodyKeys,
         v11'[p] \in {"settle", "write", "up"} => v12'[p].key \in Custody!Accounted'
  PROVE  Custody!ProcessInv(p)'
BY DEF Custody!ProcessInv, Custody!VaultIsKept

LEMMA Unmoved ==
  ASSUME NEW a, UNCHANGED <<v2, v5, v6, v7, v8, v9, v15, v16, v17>>, Custody!CustodyInv,
         \A b \in Custody!Actors \ {a} :
           v11'[b] = v11[b] /\ v12'[b] = v12[b] /\ v13'[b] = v13[b]
  PROVE  Undisturbed(a)
BY Quiet DEF Undisturbed, Custody!CustodyInv

-----------------------------------------------------------------------------
LEMMA ActorsAre ==
  ASSUME Custody!KeyCustodyAssumption
  PROVE  /\ Procs \subseteq Custody!Actors /\ "tool" \in Custody!Actors
         /\ \A p \in Procs : p # "tool"
         /\ \A a \in Custody!Actors : a \in Procs \/ a = "tool"
BY DEF Custody!KeyCustodyAssumption, Custody!Actors

\* What an actor goes over to, and what it takes along.
LEMMA HoldsTyped ==
  ASSUME Custody!Types, NEW a \in Custody!Actors, NEW k \in Custody!Slot,
         NEW from \in {"env", "keychain", "file"}, Custody!Take(a, k, from)
  PROVE  /\ v12' \in [Custody!Actors ->
                        [key : Custody!Slot \cup {Custody!Unavailable},
                         source : {"env", "keychain", "file"},
                         seen : Custody!Slot, retired : SUBSET CustodyKeys,
                         index : SUBSET Custody!Entries]]
         /\ v12'[a].key = k /\ v12'[a].index = {}
         /\ \A b \in Custody!Actors \ {a} : v12'[b] = v12[b]
<1> DEFINE h == [key |-> k, source |-> from, seen |-> v10, retired |-> {}, index |-> {}]
           H == [key : Custody!Slot \cup {Custody!Unavailable},
                 source : {"env", "keychain", "file"},
                 seen : Custody!Slot, retired : SUBSET CustodyKeys,
                 index : SUBSET Custody!Entries]
<1>2. v12 \in [Custody!Actors -> H] /\ v10 \in Custody!Slot
  BY DEF Custody!Types
<1>3. h \in H /\ h.key = k /\ h.index = {}
  BY <1>2
<1>4. v12' = [v12 EXCEPT ![a] = h]
  BY DEF Custody!Take, Custody!Resolution
<1> HIDE DEF h, H
<1>5. v12' \in [Custody!Actors -> H] /\ v12'[a] = h
      /\ \A b \in Custody!Actors \ {a} : v12'[b] = v12[b]
  BY <1>2, <1>3, <1>4
<1> QED
  BY <1>3, <1>5 DEF H

LEMMA GoTyped ==
  ASSUME Custody!Types, NEW a \in Custody!Actors, NEW place \in Custody!Places,
         Custody!Go(a, place)
  PROVE  /\ v11' \in [Custody!Actors -> Custody!Places] /\ v11'[a] = place
         /\ \A b \in Custody!Actors \ {a} : v11'[b] = v11[b]
BY DEF Custody!Types, Custody!Go

\* load_master_key_guarded begins.
LEMMA ProcessBegins ==
  ASSUME Custody!KeyCustodyAssumption, Custody!CustodyInv, NEW p \in Procs,
         NEW k \in CustodyKeys, NEW from \in {"env", "keychain", "file"},
         NEW place \in {"settle", "store", "publish"},
         v11[p] = "down", Custody!Take(p, k, from), Custody!Go(p, place),
         place = "settle" => k \in Custody!Accounted,
         (v6' = Custody!NoKey /\ v2 = v6) \/ v6' = v6,
         v18' \in SUBSET CustodyKeys,
         UNCHANGED <<v1, v2, v3, v4, v5, v7, v8, v9, v10, v13, v14, v15, v16, v17>>
  PROVE  Custody!CustodyInv'
<1>1. Custody!Types /\ p \in Custody!Actors /\ p # "tool" /\ Custody!NoKey \in Custody!Slot
      /\ k \in Custody!Slot /\ place \in Custody!Places
  BY ActorsAre DEF Custody!CustodyInv, Custody!Slot, Custody!Places
<1>2. /\ v12' \in [Custody!Actors ->
                        [key : Custody!Slot \cup {Custody!Unavailable},
                         source : {"env", "keychain", "file"},
                         seen : Custody!Slot, retired : SUBSET CustodyKeys,
                         index : SUBSET Custody!Entries]]
      /\ v12'[p].key = k /\ v12'[p].index = {}
      /\ \A b \in Custody!Actors \ {p} : v12'[b] = v12[b]
  BY <1>1, HoldsTyped
<1>3. /\ v11' \in [Custody!Actors -> Custody!Places] /\ v11'[p] = place
      /\ \A b \in Custody!Actors \ {p} : v11'[b] = v11[b]
  BY <1>1, GoTyped
<1>4. Custody!Types'
  BY <1>1, <1>2, <1>3 DEF Custody!Types
<1>5. Custody!Stored' = Custody!Stored
  <2>1. Custody!NoKey \notin CustodyKeys
    BY DEF Custody!KeyCustodyAssumption
  <2>2. \A x : x \in Custody!Stored' <=> x \in Custody!Stored
    BY <2>1, StoredIs
  <2> QED
    BY <2>2
<1>6. Custody!Safe' = Custody!Safe /\ Custody!Accounted' = Custody!Accounted
  BY <1>5 DEF Custody!Safe, Custody!Accounted
<1>7. Undisturbed(p)
  BY <1>2, <1>3, <1>6 DEF Undisturbed, Custody!CustodyInv, Custody!Kept, Custody!Indexed
<1>8. Custody!ProcessInv(p)'
  <2>1. v13[p] = <<>>
    BY DEF Custody!CustodyInv, Custody!ProcessInv, Custody!VaultIsKept
  <2> QED
    BY <1>2, <1>3, <1>6, <2>1, ProcessWithoutWrites
<1>9. Custody!UsedKeysAreKeptBut' /\ Custody!RecordNamesAStoredKey'
  BY <1>6, KeptOn
<1> QED
  BY <1>1, <1>4, <1>7, <1>8, <1>9, StepOf

LEMMA StoredSlots ==
  ASSUME NEW k \in CustodyKeys, k \in {v2, v5, v6}
  PROVE  k \in Custody!Accounted
BY StoredIs DEF Custody!Accounted, Custody!Safe

LEMMA AccountedAreKeys ==
  ASSUME Custody!KeyCustodyAssumption, Custody!Types
  PROVE  Custody!Accounted \subseteq CustodyKeys
BY StoredIs DEF Custody!Accounted, Custody!Safe, Custody!Types, Custody!Entries,
  Custody!KeyCustodyAssumption

LEMMA FromEnvKeeps ==
  ASSUME Custody!KeyCustodyAssumption, Custody!CustodyInv, NEW p \in Procs, Custody!FromEnv(p)
  PROVE  Custody!CustodyInv'
<1>1. /\ v1 \in CustodyKeys /\ v11[p] = "down"
      /\ Custody!Take(p, v1, "env") /\ Custody!Go(p, "settle")
      /\ UNCHANGED <<v1, v2, v3, v4, v5, v6, v7, v8, v9, v10, v13, v14, v15, v16, v17, v18>>
  BY DEF Custody!FromEnv, Custody!Start, Custody!slots, Custody!vault, Custody!setting,
    Custody!ghosts, Custody!losses
<1>2. v1 \in Custody!Accounted /\ v18 \in SUBSET CustodyKeys
  BY <1>1 DEF Custody!KeyCustodyAssumption, Custody!CustodyInv, Custody!Types, Custody!Accounted
<1> QED
  BY <1>1, <1>2, ProcessBegins

LEMMA FromKeychainKeeps ==
  ASSUME Custody!KeyCustodyAssumption, Custody!CustodyInv, NEW p \in Procs,
         Custody!FromKeychain(p)
  PROVE  Custody!CustodyInv'
<1>1. /\ v2 \in CustodyKeys /\ v11[p] = "down"
      /\ Custody!Take(p, v2, "keychain") /\ Custody!Go(p, "settle")
      /\ v6' = IF v6 = v2 THEN Custody!NoKey ELSE v6
      /\ UNCHANGED <<v1, v2, v3, v4, v5, v7, v8, v9, v10, v13, v14, v15, v16, v17, v18>>
  BY DEF Custody!FromKeychain, Custody!Start, Custody!slots, Custody!vault, Custody!setting,
    Custody!ghosts, Custody!losses, Custody!Keychain, Custody!RetireMatchingLegacy,
    Custody!KeyCustodyAssumption
<1>2. v2 \in Custody!Accounted /\ v18 \in SUBSET CustodyKeys
  BY <1>1, StoredSlots DEF Custody!CustodyInv, Custody!Types
<1>3. (v6' = Custody!NoKey /\ v2 = v6) \/ v6' = v6
  BY <1>1
<1> QED
  BY <1>1, <1>2, <1>3, ProcessBegins

LEMMA FromFileKeeps ==
  ASSUME Custody!KeyCustodyAssumption, Custody!CustodyInv, NEW p \in Procs, Custody!FromFile(p)
  PROVE  Custody!CustodyInv'
<1>1. /\ v5 \in CustodyKeys /\ v11[p] = "down"
      /\ Custody!Take(p, v5, "file") /\ Custody!Go(p, "settle")
      /\ UNCHANGED <<v1, v2, v3, v4, v5, v6, v7, v8, v9, v10, v13, v14, v15, v16, v17, v18>>
  BY DEF Custody!FromFile, Custody!Start, Custody!slots, Custody!vault, Custody!setting,
    Custody!ghosts, Custody!losses
<1>2. v5 \in Custody!Accounted /\ v18 \in SUBSET CustodyKeys
  BY <1>1, StoredSlots DEF Custody!CustodyInv, Custody!Types
<1> QED
  BY <1>1, <1>2, ProcessBegins

LEMMA SeedKeeps ==
  ASSUME Custody!KeyCustodyAssumption, Custody!CustodyInv, NEW p \in Procs, Custody!Seed(p)
  PROVE  Custody!CustodyInv'
<1> DEFINE place == IF Custody!Keychain = Custody!NoKey THEN "store" ELSE "publish"
<1>1. /\ v11[p] = "down" /\ Custody!Go(p, place)
      /\ UNCHANGED <<v1, v2, v3, v4, v5, v6, v7, v8, v9, v10, v13, v14, v15, v16, v17>>
  BY DEF Custody!Seed, Custody!Start, Custody!slots, Custody!vault, Custody!setting,
    Custody!losses
<1>2. PICK k \in CustodyKeys :
        Custody!Take(p, k, "keychain") /\ (v18' = v18 \/ v18' = v18 \cup {k})
  BY DEF Custody!Seed
<1>3. v18' \in SUBSET CustodyKeys
  BY <1>2 DEF Custody!CustodyInv, Custody!Types
<1>4. place \in {"settle", "store", "publish"} /\ place # "settle"
  OBVIOUS
<1> HIDE DEF place
<1> QED
  BY <1>1, <1>2, <1>3, <1>4, ProcessBegins

\* A step of a process that has begun, with the key it goes on with.
LEMMA ProcessGoesOn ==
  ASSUME Custody!KeyCustodyAssumption, Custody!CustodyInv, NEW p \in Procs,
         Custody!Types', Undisturbed(p), v10' = v10, v14' = v14,
         v13'[p] = <<>>, v12'[p].index \subseteq v12[p].index,
         v11'[p] \in {"store", "verify", "publish"} => v12'[p].key \in CustodyKeys,
         v11'[p] \in {"settle", "write", "up"} => v12'[p].key \in Custody!Accounted'
  PROVE  Custody!CustodyInv'
<1>1. \A e \in v12'[p].index : Custody!Kept(e)'
  BY DEF Undisturbed, Custody!CustodyInv, Custody!ProcessInv, Custody!VaultIsKept
<1>2. Custody!ProcessInv(p)'
  BY <1>1, ProcessWithoutWrites
<1>3. Custody!UsedKeysAreKeptBut' /\ Custody!RecordNamesAStoredKey'
  BY KeptOn DEF Undisturbed
<1> QED
  BY <1>2, <1>3, StepOf, ActorsAre

Holds == [key : Custody!Slot \cup {Custody!Unavailable}, source : {"env", "keychain", "file"},
          seen : Custody!Slot, retired : SUBSET CustodyKeys, index : SUBSET Custody!Entries]

LEMMA HoldsAre ==
  ASSUME Custody!Types
  PROVE  v12 \in [Custody!Actors -> Holds]
BY DEF Custody!Types, Holds

LEMMA TakesUp ==
  ASSUME Custody!KeyCustodyAssumption, Custody!Types, NEW p \in Custody!Actors, NEW k \in CustodyKeys,
         NEW also \in SUBSET CustodyKeys, Custody!Up(p, k, also)
  PROVE  /\ v12' \in [Custody!Actors -> Holds]
         /\ v12'[p].key = k /\ v12'[p].index = {}
         /\ \A b \in Custody!Actors \ {p} : v12'[b] = v12[b]
<1> DEFINE R == (Custody!Loaded \cup also) \ {k}
<1>1. R \in SUBSET CustodyKeys
  BY CandidatesAreSafe
<1>2. v12' = [v12 EXCEPT ![p] = [key |-> k, source |-> v12[p].source, seen |-> v12[p].seen,
                                 retired |-> R, index |-> {}]]
  BY DEF Custody!Up, Custody!Resolution
<1> HIDE DEF R
<1>3. v12 \in [Custody!Actors -> Holds] /\ k \in Custody!Slot
  BY HoldsAre DEF Custody!Slot
<1> QED
  BY <1>1, <1>2, <1>3 DEF Holds

LEMMA StoreKeyKeeps ==
  ASSUME Custody!KeyCustodyAssumption, Custody!CustodyInv, NEW p \in Procs, Custody!StoreKey(p)
  PROVE  Custody!CustodyInv'
<1>1. PICK place \in {"verify", "publish", "down"} :
        /\ Custody!Go(p, place)
        /\ v2' \in {v2, v12[p].key}
        /\ v17' = v17 \cup (Custody!Held(v2) \ Custody!Held(v2'))
  BY DEF Custody!StoreKey
<1>2. /\ v11[p] = "store"
      /\ UNCHANGED <<v1, v3, v4, v5, v6, v7, v8, v9, v10, v12, v13, v14, v15, v16, v18>>
  BY DEF Custody!StoreKey, Custody!vault, Custody!setting
<1>3. /\ Custody!Types /\ p \in Custody!Actors /\ v12[p].key \in CustodyKeys /\ v13[p] = <<>>
      /\ place \in Custody!Places
  BY <1>2, ActorsAre DEF Custody!CustodyInv, Custody!ProcessInv, Custody!VaultIsKept,
    Custody!Places
<1>4. /\ v11' \in [Custody!Actors -> Custody!Places] /\ v11'[p] = place
      /\ \A b \in Custody!Actors \ {p} : v11'[b] = v11[b]
  BY <1>1, <1>3, GoTyped
<1>5. Custody!Types'
  BY <1>1, <1>2, <1>3, <1>4 DEF Custody!Types, Custody!Slot, Custody!Held
<1>6. Custody!Safe \subseteq Custody!Safe'
  BY <1>1, <1>2, StoredIs DEF Custody!Safe, Custody!Held
<1>7. Undisturbed(p)
  BY <1>1, <1>2, <1>4, <1>6 DEF Undisturbed, Custody!CustodyInv, Custody!Kept, Custody!Indexed
<1> QED
  BY <1>2, <1>3, <1>4, <1>5, <1>7, ProcessGoesOn

LEMMA ReadBackKeeps ==
  ASSUME Custody!KeyCustodyAssumption, Custody!CustodyInv, NEW p \in Procs, Custody!ReadBack(p)
  PROVE  Custody!CustodyInv'
<1>1. /\ v11[p] = "verify"
      /\ UNCHANGED <<v1, v2, v3, v4, v5, v7, v8, v9, v10, v12, v13, v14, v15, v16, v17, v18>>
  BY DEF Custody!ReadBack, Custody!vault, Custody!setting, Custody!ghosts, Custody!losses
<1>2. /\ Custody!Types /\ p \in Custody!Actors /\ v12[p].key \in CustodyKeys /\ v13[p] = <<>>
      /\ Custody!NoKey \in Custody!Slot
  BY <1>1, ActorsAre DEF Custody!CustodyInv, Custody!ProcessInv, Custody!VaultIsKept, Custody!Slot
<1>3. PICK place \in {"settle", "down"} :
        /\ Custody!Go(p, place)
        /\ place = "settle" => v2 = v12[p].key
        /\ v6' = v6 \/ (v6' = Custody!NoKey /\ v2 = v6)
  <2>1. Custody!Unavailable \notin CustodyKeys
    BY DEF Custody!KeyCustodyAssumption
  <2> QED
    BY <1>2, <2>1 DEF Custody!ReadBack, Custody!Keychain, Custody!RetireMatchingLegacy
<1>4. /\ v11' \in [Custody!Actors -> Custody!Places] /\ v11'[p] = place
      /\ \A b \in Custody!Actors \ {p} : v11'[b] = v11[b]
  <2>1. place \in Custody!Places
    BY DEF Custody!Places
  <2> QED
    BY <1>2, <1>3, <2>1, GoTyped
<1>5. Custody!Types'
  BY <1>1, <1>2, <1>3, <1>4 DEF Custody!Types
<1>6. Custody!Safe' = Custody!Safe /\ Custody!Accounted' = Custody!Accounted
  <2>1. Custody!NoKey \notin CustodyKeys
    BY DEF Custody!KeyCustodyAssumption
  <2>2. \A x : x \in Custody!Stored' <=> x \in Custody!Stored
    BY <1>1, <1>3, <2>1, StoredIs
  <2> QED
    BY <1>1, <2>2 DEF Custody!Safe, Custody!Accounted
<1>7. Undisturbed(p)
  BY <1>1, <1>3, <1>4, <1>6 DEF Undisturbed, Custody!CustodyInv, Custody!Kept, Custody!Indexed
<1>8. place = "settle" => v12[p].key \in Custody!Accounted'
  BY <1>2, <1>3, <1>6, StoredSlots
<1> QED
  BY <1>1, <1>2, <1>4, <1>5, <1>7, <1>8, ProcessGoesOn

LEMMA PublishFileKeeps ==
  ASSUME Custody!KeyCustodyAssumption, Custody!CustodyInv, NEW p \in Procs,
         Custody!PublishFile(p)
  PROVE  Custody!CustodyInv'
<1>1. /\ v11[p] = "publish"
      /\ v5' = IF v5 \in CustodyKeys THEN v5 ELSE v12[p].key
      /\ v12' = [v12 EXCEPT ![p].key = v5', ![p].source = "file"]
      /\ Custody!Go(p, "settle")
      /\ UNCHANGED <<v1, v2, v3, v4, v6, v7, v8, v9, v10, v13, v14, v15, v16, v17, v18>>
  BY DEF Custody!PublishFile, Custody!vault, Custody!setting, Custody!ghosts, Custody!losses
<1>2. /\ Custody!Types /\ p \in Custody!Actors /\ v12[p].key \in CustodyKeys /\ v13[p] = <<>>
      /\ Custody!Slot = CustodyKeys \cup {Custody!NoKey}
  BY <1>1, ActorsAre DEF Custody!CustodyInv, Custody!ProcessInv, Custody!VaultIsKept, Custody!Slot
<1>3. v5' \in CustodyKeys /\ v5' \in Custody!Slot
  BY <1>1, <1>2
<1>4. /\ v11' \in [Custody!Actors -> Custody!Places] /\ v11'[p] = "settle"
      /\ \A b \in Custody!Actors \ {p} : v11'[b] = v11[b]
  BY <1>1, <1>2, GoTyped DEF Custody!Places
<1>5. /\ v12' \in [Custody!Actors -> Holds] /\ v12'[p].key = v5' /\ v12'[p].index = v12[p].index
      /\ \A b \in Custody!Actors \ {p} : v12'[b] = v12[b]
  <2> DEFINE k == v5'
             h == [v12[p] EXCEPT !.key = k, !.source = "file"]
  <2>1. v12 \in [Custody!Actors -> Holds] /\ v12[p] \in Holds
    BY <1>2, HoldsAre
  <2>2. k \in Custody!Slot /\ v12' = [v12 EXCEPT ![p] = h]
    BY <1>1, <1>3
  <2>3. k \in Custody!Slot \cup {Custody!Unavailable}
    BY <2>2
  <2> HIDE DEF k
  <2>4. h \in Holds /\ h.key = k /\ h.index = v12[p].index
    BY <2>1, <2>3 DEF Holds
  <2> HIDE DEF h
  <2>5. /\ v12' \in [Custody!Actors -> Holds] /\ v12'[p] = h
        /\ \A b \in Custody!Actors \ {p} : v12'[b] = v12[b]
    BY <1>2, <2>1, <2>2, <2>4
  <2> QED
    BY <2>4, <2>5 DEF k
<1>6. Custody!Types'
  BY <1>1, <1>2, <1>3, <1>4, <1>5 DEF Custody!Types, Holds
<1>7. Custody!Safe \subseteq Custody!Safe'
  BY <1>1, StoredIs DEF Custody!Safe
<1>8. Undisturbed(p)
  BY <1>1, <1>4, <1>5, <1>7 DEF Undisturbed, Custody!CustodyInv, Custody!Kept, Custody!Indexed
<1>9. v12'[p].key \in Custody!Accounted'
  BY <1>3, <1>5, StoredIs DEF Custody!Accounted, Custody!Safe
<1> QED
  BY <1>1, <1>2, <1>4, <1>5, <1>6, <1>8, <1>9, ProcessGoesOn

LEMMA MismatchKeeps ==
  ASSUME Custody!KeyCustodyAssumption, Custody!CustodyInv, NEW p \in Procs, Custody!Mismatch(p)
  PROVE  Custody!CustodyInv'
<1>1. /\ v11[p] = "settle" /\ Custody!Go(p, "down")
      /\ UNCHANGED <<v1, v2, v3, v4, v5, v6, v7, v8, v9, v10, v12, v13, v14, v15, v16, v17, v18>>
  BY DEF Custody!Mismatch, Custody!slots, Custody!vault, Custody!setting, Custody!ghosts,
    Custody!losses
<1>2. Custody!Types /\ p \in Custody!Actors /\ v13[p] = <<>>
  BY <1>1, ActorsAre DEF Custody!CustodyInv, Custody!ProcessInv, Custody!VaultIsKept
<1>3. /\ v11' \in [Custody!Actors -> Custody!Places] /\ v11'[p] = "down"
      /\ \A b \in Custody!Actors \ {p} : v11'[b] = v11[b]
  BY <1>1, <1>2, GoTyped DEF Custody!Places
<1>4. Custody!Types'
  BY <1>1, <1>2, <1>3 DEF Custody!Types
<1>5. Undisturbed(p)
  BY <1>1, <1>3, Unmoved
<1> QED
  BY <1>1, <1>2, <1>3, <1>4, <1>5, ProcessGoesOn

\* A process seals with the key it resolved.
LEMMA SealKeeps ==
  ASSUME Custody!KeyCustodyAssumption, Custody!CustodyInv, NEW p \in Procs, Custody!Seal(p)
  PROVE  Custody!CustodyInv'
<1>1. /\ v11[p] = "up" /\ v14' = [v14 EXCEPT ![p] = @ \cup {v12[p].key}]
      /\ UNCHANGED <<v1, v2, v3, v4, v5, v6, v7, v8, v9, v10, v11, v12, v13, v15, v16, v17, v18>>
  BY DEF Custody!Seal, Custody!slots, Custody!vault, Custody!setting, Custody!ghosts,
    Custody!losses
<1>2. Custody!Types /\ p \in Custody!Actors
  BY ActorsAre DEF Custody!CustodyInv
<1>3. Custody!Accounted' = Custody!Accounted /\ Custody!Safe' = Custody!Safe
  BY <1>1, Quiet
<1>4. v12[p].key \in Custody!Accounted
  BY <1>1 DEF Custody!CustodyInv, Custody!ProcessInv
<1>5. v12[p].key \in CustodyKeys
  BY <1>2, <1>4, AccountedAreKeys
<1>6. Custody!Types'
  BY <1>1, <1>2, <1>5 DEF Custody!Types
<1>7. Undisturbed(p)
  BY <1>1, Unmoved
<1>8. Custody!ProcessInv(p)'
  BY <1>1, <1>3, OtherProcessStays, Quiet DEF Custody!CustodyInv
<1>9. Custody!UsedKeysAreKeptBut' /\ Custody!RecordNamesAStoredKey'
  <2>1. v14'["core"] \subseteq v14["core"] \cup {v12[p].key}
    BY <1>1, <1>2 DEF Custody!Types, Custody!KeyCustodyAssumption
  <2> QED
    BY <1>1, <1>3, <1>4, <2>1, KeptOn
<1> QED
  BY <1>2, <1>6, <1>7, <1>8, <1>9, StepOf, ActorsAre

\* What a process sets out to write.
ProcessWrites(writes) ==
  /\ writes \in Seq(Custody!Writes)
  /\ \A i \in 1 .. Len(writes) :
       /\ writes[i].to \in {"retire", "record"}
       /\ writes[i].to = "record" => writes[i].key \in Custody!Accounted

LEMMA TodoTyped ==
  ASSUME Custody!Types, NEW a \in Custody!Actors, NEW t \in Seq(Custody!Writes),
         v13' = [v13 EXCEPT ![a] = t]
  PROVE  /\ v13' \in [Custody!Actors -> Seq(Custody!Writes)] /\ v13'[a] = t
         /\ \A b \in Custody!Actors \ {a} : v13'[b] = v13[b]
<1>1. v13 \in [Custody!Actors -> Seq(Custody!Writes)]
  BY DEF Custody!Types
<1> QED
  BY <1>1

LEMMA SettlesWith ==
  ASSUME Custody!KeyCustodyAssumption, Custody!CustodyInv, NEW p \in Procs,
         NEW k \in CustodyKeys, k \in Custody!Accounted, NEW writes, ProcessWrites(writes),
         v11[p] = "settle", Custody!Settle(p, k, writes)
  PROVE  Custody!CustodyInv'
<1>1. /\ Custody!Up(p, k, {v12[p].key}) /\ v13' = [v13 EXCEPT ![p] = writes]
      /\ Custody!Go(p, "write")
      /\ UNCHANGED <<v1, v2, v3, v4, v5, v6, v7, v8, v9, v10, v14, v15, v16, v17, v18>>
  BY DEF Custody!Settle, Custody!slots, Custody!vault, Custody!setting, Custody!ghosts,
    Custody!losses
<1>2. Custody!Types /\ p \in Custody!Actors
  BY ActorsAre DEF Custody!CustodyInv
<1>3. v12[p].key \in CustodyKeys
  <2>1. v12[p].key \in Custody!Accounted
    BY DEF Custody!CustodyInv, Custody!ProcessInv
  <2> QED
    BY <1>2, <2>1, AccountedAreKeys
<1>4. /\ v11' \in [Custody!Actors -> Custody!Places] /\ v11'[p] = "write"
      /\ \A b \in Custody!Actors \ {p} : v11'[b] = v11[b]
  BY <1>1, <1>2, GoTyped DEF Custody!Places
<1>5. /\ v12' \in [Custody!Actors -> Holds] /\ v12'[p].key = k /\ v12'[p].index = {}
      /\ \A b \in Custody!Actors \ {p} : v12'[b] = v12[b]
  <2>1. {v12[p].key} \in SUBSET CustodyKeys
    BY <1>3
  <2> QED
    BY <1>1, <1>2, <2>1, TakesUp
<1>6. /\ v13' \in [Custody!Actors -> Seq(Custody!Writes)] /\ v13'[p] = writes
      /\ \A b \in Custody!Actors \ {p} : v13'[b] = v13[b]
  BY <1>1, <1>2, TodoTyped DEF ProcessWrites
<1>7. Custody!Types'
  BY <1>1, <1>2, <1>4, <1>5, <1>6 DEF Custody!Types, Holds
<1>8. Undisturbed(p)
  BY <1>1, <1>4, <1>5, <1>6, Unmoved
<1>9. Custody!Accounted' = Custody!Accounted /\ Custody!Safe' = Custody!Safe
  BY <1>1, Quiet
<1>10. Custody!ProcessInv(p)'
  <2>1. v13[p]' = writes /\ v11[p]' = "write" /\ v12[p].key' = k /\ v12[p].index' = {}
    BY <1>4, <1>5, <1>6
  <2>2. Custody!VaultIsKept(p)'
    BY <2>1 DEF Custody!VaultIsKept, ProcessWrites
  <2> QED
    BY <1>9, <2>1, <2>2 DEF Custody!ProcessInv, ProcessWrites
<1>11. Custody!UsedKeysAreKeptBut' /\ Custody!RecordNamesAStoredKey'
  BY <1>1, <1>9, KeptOn
<1> QED
  BY <1>2, <1>7, <1>8, <1>10, <1>11, StepOf, ActorsAre

\* RecoverRefused and the four ways to settle.
LEMMA RecoverRefusedKeeps ==
  ASSUME Custody!KeyCustodyAssumption, Custody!CustodyInv, NEW p \in Procs,
         Custody!RecoverRefused(p)
  PROVE  Custody!CustodyInv'
<1>1. /\ v11[p] = "down" /\ Custody!Go(p, "up") /\ Custody!Up(p, v10, {})
      /\ v10 \in Custody!Candidates
      /\ UNCHANGED <<v1, v2, v3, v4, v5, v6, v7, v8, v9, v10, v13, v14, v15, v16, v17, v18>>
  BY DEF Custody!RecoverRefused, Custody!Start, Custody!slots, Custody!vault, Custody!setting,
    Custody!ghosts, Custody!losses
<1>2. Custody!Types /\ p \in Custody!Actors /\ v13[p] = <<>>
  BY <1>1, ActorsAre DEF Custody!CustodyInv, Custody!ProcessInv, Custody!VaultIsKept
<1>3. v10 \in Custody!Accounted /\ v10 \in CustodyKeys
  BY <1>1, <1>2, CandidatesAreSafe
<1>4. /\ v11' \in [Custody!Actors -> Custody!Places] /\ v11'[p] = "up"
      /\ \A b \in Custody!Actors \ {p} : v11'[b] = v11[b]
  BY <1>1, <1>2, GoTyped DEF Custody!Places
<1>5. /\ v12' \in [Custody!Actors -> Holds] /\ v12'[p].key = v10 /\ v12'[p].index = {}
      /\ \A b \in Custody!Actors \ {p} : v12'[b] = v12[b]
  BY <1>1, <1>2, <1>3, TakesUp
<1>6. Custody!Types'
  BY <1>1, <1>2, <1>4, <1>5 DEF Custody!Types, Holds
<1>7. Undisturbed(p)
  BY <1>1, <1>4, <1>5, Unmoved
<1>8. Custody!Accounted' = Custody!Accounted
  BY <1>1, Quiet
<1> QED
  BY <1>1, <1>2, <1>3, <1>4, <1>5, <1>6, <1>7, <1>8, ProcessGoesOn

LEMMA WritesJoined ==
  ASSUME NEW s, NEW t, ProcessWrites(s), ProcessWrites(t)
  PROVE  ProcessWrites(s \o t)
<1>1. s \in Seq(Custody!Writes) /\ t \in Seq(Custody!Writes)
  BY DEF ProcessWrites
<1>2. s \o t \in Seq(Custody!Writes) /\ Len(s \o t) = Len(s) + Len(t)
  BY <1>1
<1>3. ASSUME NEW i \in 1 .. Len(s \o t)
      PROVE  (s \o t)[i].to \in {"retire", "record"}
             /\ ((s \o t)[i].to = "record" => (s \o t)[i].key \in Custody!Accounted)
  <2>1. CASE i <= Len(s)
    <3>1. (s \o t)[i] = s[i] /\ i \in 1 .. Len(s)
      BY <1>1, <1>2, <2>1
    <3> QED
      BY <3>1 DEF ProcessWrites
  <2>2. CASE ~(i <= Len(s))
    <3>1. (s \o t)[i] = t[i - Len(s)] /\ i - Len(s) \in 1 .. Len(t)
      BY <1>1, <1>2, <2>2
    <3> QED
      BY <3>1 DEF ProcessWrites
  <2> QED
    BY <2>1, <2>2
<1> QED
  BY <1>2, <1>3 DEF ProcessWrites

LEMMA RecordWrite ==
  ASSUME NEW k \in CustodyKeys, k \in Custody!Accounted
  PROVE  ProcessWrites(<<Custody!WriteTo("record", k, "file")>>)
<1> DEFINE w == Custody!WriteTo("record", k, "file")
<1>1. w \in Custody!Writes /\ w.to = "record" /\ w.key = k
  BY DEF Custody!WriteTo, Custody!Writes, Custody!Custodies
<1> HIDE DEF w
<1>2. <<w>> \in Seq(Custody!Writes) /\ Len(<<w>>) = 1 /\ <<w>>[1] = w
  BY <1>1
<1>3. ProcessWrites(<<w>>)
  BY <1>1, <1>2 DEF ProcessWrites
<1> QED
  BY <1>3 DEF w

LEMMA PutAwayWrites ==
  ASSUME Custody!KeyCustodyAssumption, NEW p \in Procs, v12[p].key \in CustodyKeys,
         NEW c \in Custody!Custodies
  PROVE  ProcessWrites(Custody!PutAway(p, c))
<1> DEFINE ks == IF v12[p].source = "env" THEN {} ELSE {v12[p].key}
<1>1. ks \in SUBSET CustodyKeys /\ IsFiniteSet(CustodyKeys)
  BY SameFinite DEF Custody!KeyCustodyAssumption
<1>2. Custody!PutAway(p, c) = Custody!WriteEach("retire", ks, c)
  BY DEF Custody!PutAway, Custody!RetireAll
<1> HIDE DEF ks
<1> DEFINE s == Custody!WriteEach("retire", ks, c)
<1>3. AreOfTheKeys(s, "retire", ks)
  BY <1>1, EachIsOfTheKeys
<1> HIDE DEF s
<1>4. ProcessWrites(s)
  BY <1>3 DEF ProcessWrites, AreOfTheKeys
<1> QED
  BY <1>2, <1>4 DEF s

LEMMA SettleKeeps ==
  ASSUME Custody!KeyCustodyAssumption, Custody!CustodyInv, NEW p \in Procs,
         Custody!SettleRecorded(p) \/ Custody!SettleMismatch(p) \/ Custody!SettleUnrecorded(p)
  PROVE  Custody!CustodyInv'
<1>1. v11[p] = "settle" /\ Custody!Types
  BY DEF Custody!SettleRecorded, Custody!SettleMismatch, Custody!SettleUnrecorded,
    Custody!CustodyInv
<1>2. v12[p].key \in Custody!Accounted /\ v12[p].key \in CustodyKeys
  <2>1. v12[p].key \in Custody!Accounted
    BY <1>1 DEF Custody!CustodyInv, Custody!ProcessInv
  <2> QED
    BY <1>1, <2>1, AccountedAreKeys
<1>3. Custody!Candidates \subseteq Custody!Accounted /\ Custody!Candidates \subseteq CustodyKeys
  BY <1>1, CandidatesAreSafe
<1>4. ProcessWrites(<<>>)
  BY DEF ProcessWrites
<1>5. \A prefer : Custody!VaultCustody(prefer) \subseteq Custody!Custodies
  BY DEF Custody!VaultCustody, Custody!Custodies
<1>6. CASE Custody!SettleRecorded(p)
  BY <1>1, <1>2, <1>4, <1>6, SettlesWith DEF Custody!SettleRecorded
<1>7. CASE Custody!SettleMismatch(p)
  <2>1. PICK c \in Custody!Custodies :
          Custody!Settle(p, v12[p].seen, Custody!PutAway(p, c))
    BY <1>5, <1>7 DEF Custody!SettleMismatch
  <2>2. v12[p].seen \in Custody!Candidates
    BY <1>7 DEF Custody!SettleMismatch
  <2>3. ProcessWrites(Custody!PutAway(p, c))
    BY <1>2, PutAwayWrites
  <2> QED
    BY <1>1, <1>3, <2>1, <2>2, <2>3, SettlesWith
<1>8. CASE Custody!SettleUnrecorded(p)
  <2>1. CASE Custody!Settle(p, v12[p].key, <<>>)
    BY <1>1, <1>2, <1>4, <2>1, SettlesWith
  <2>2. CASE Custody!Settle(p, v12[p].key, <<Custody!WriteTo("record", v12[p].key, "file")>>)
    BY <1>1, <1>2, <2>2, RecordWrite, SettlesWith
  <2>3. ASSUME NEW k \in Custody!Candidates, NEW c \in Custody!Custodies,
               Custody!Settle(p, k,
                 Custody!PutAway(p, c) \o <<Custody!WriteTo("record", k, "file")>>)
        PROVE  Custody!CustodyInv'
    <3>1. ProcessWrites(Custody!PutAway(p, c))
      BY <1>2, PutAwayWrites
    <3>2. k \in CustodyKeys /\ k \in Custody!Accounted
      BY <1>3
    <3>3. ProcessWrites(<<Custody!WriteTo("record", k, "file")>>)
      BY <3>2, RecordWrite
    <3>4. ProcessWrites(Custody!PutAway(p, c) \o <<Custody!WriteTo("record", k, "file")>>)
      BY <3>1, <3>3, WritesJoined
    <3> QED
      BY <1>1, <2>3, <3>2, <3>4, SettlesWith
  <2> QED
    BY <1>5, <1>8, <2>1, <2>2, <2>3 DEF Custody!SettleUnrecorded
<1> QED
  BY <1>6, <1>7, <1>8

\* Whatever a process does to get its key, and with it.
LEMMA ResolveKeeps ==
  ASSUME Custody!KeyCustodyAssumption, Custody!CustodyInv, NEW p \in Procs, Custody!Resolve(p)
  PROVE  Custody!CustodyInv'
BY FromEnvKeeps, FromKeychainKeeps, FromFileKeeps, SeedKeeps, RecoverRefusedKeeps, StoreKeyKeeps,
  ReadBackKeeps, PublishFileKeeps, SettleKeeps, MismatchKeeps, SealKeeps DEF Custody!Resolve

-----------------------------------------------------------------------------
\* What the tool may set out to write: t, when it saw kc in the keychain and f
\* in the file.
PutEarlier(t, i, k, tos) == \E j \in 1 .. i - 1 : t[j].to \in tos /\ t[j].key = k
ToolWrite(t, i, kc, f) ==
  /\ t[i].to # "index"
  /\ t[i].to = "keychain" /\ kc \in CustodyKeys /\ kc # t[i].key => PutEarlier(t, i, kc, {"retire"})
  /\ t[i].to = "file" /\ f \in CustodyKeys /\ f # t[i].key => PutEarlier(t, i, f, {"retire"})
  /\ t[i].to \in {"record", "data"} =>
       t[i].key \in Custody!Accounted
         \/ PutEarlier(t, i, t[i].key, {"retire", "keychain", "file"})
  /\ t[i].to = "drop file" =>
       v5 = t[i].key /\ i = Len(t) /\ \A j \in 1 .. i : t[j].to # "file"
  /\ t[i].to = "drop memory" => v6 \in {t[i].key, Custody!NoKey}
ToolPlan(t, kc, f) ==
  t \in Seq(Custody!Writes) /\ \A i \in 1 .. Len(t) : ToolWrite(t, i, kc, f)

LEMMA PlanIsKept ==
  ASSUME NEW t, NEW kc, NEW f, ToolPlan(t, kc, f),
         UNCHANGED <<v2, v5, v6, v7, v8, v9, v15, v16, v17>>,
         v13'["tool"] = t, v12'["tool"].key = kc, v12'["tool"].seen = f,
         v11'["tool"] = "write",
         \A e \in v12'["tool"].index : Custody!Kept(e)'
  PROVE  Custody!ToolInv'
<1>0. v13["tool"]' = t /\ v12["tool"].key' = kc /\ v12["tool"].seen' = f
      /\ v11["tool"]' = "write"
  OBVIOUS
<1>1. Custody!VaultIsKept("tool")'
  BY <1>0 DEF Custody!VaultIsKept, ToolPlan, ToolWrite
<1>2. ASSUME NEW i \in 1 .. Len(t)
      PROVE  Custody!WriteInv(i)'
  <2>1. ToolWrite(t, i, kc, f)
    BY DEF ToolPlan
  <2>2. Custody!Accounted' = Custody!Accounted
    BY Quiet
  <2>3. ASSUME NEW k, NEW tos, NEW more, PutEarlier(t, i, k, tos), tos \subseteq more
        PROVE  Custody!Before(i, k, more)'
    BY <1>0, <2>3 DEF Custody!Before, PutEarlier
  <2>4. ASSUME NEW k, k \in CustodyKeys /\ k # t[i].key => PutEarlier(t, i, k, {"retire"})
        PROVE  Custody!SeenIsPutAway(i, k)'
    <3>1. k \in CustodyKeys /\ k # t[i].key => Custody!Before(i, k, Custody!PutsAway)'
      BY <2>3, <2>4 DEF Custody!PutsAway
    <3> QED
      BY <1>0, <3>1 DEF Custody!SeenIsPutAway
  <2>5. ASSUME t[i].to = "keychain"
        PROVE  Custody!SeenIsPutAway(i, kc)'
    <3>1. kc \in CustodyKeys /\ kc # t[i].key => PutEarlier(t, i, kc, {"retire"})
      BY <2>1, <2>5 DEF ToolWrite
    <3> QED
      BY <2>4, <3>1
  <2>6. ASSUME t[i].to = "file"
        PROVE  Custody!SeenIsPutAway(i, f)'
    <3>1. f \in CustodyKeys /\ f # t[i].key => PutEarlier(t, i, f, {"retire"})
      BY <2>1, <2>6 DEF ToolWrite
    <3> QED
      BY <2>4, <3>1
  <2>7. t[i].to \in {"record", "data"} =>
          t[i].key \in Custody!Accounted'
            \/ Custody!Before(i, t[i].key, Custody!PutsAway \cup Custody!Custodies)'
    <3>1. {"retire", "keychain", "file"} \subseteq Custody!PutsAway \cup Custody!Custodies
      BY DEF Custody!PutsAway, Custody!Custodies
    <3> QED
      BY <2>1, <2>2, <2>3, <3>1 DEF ToolWrite
  <2>8. t[i].to = "drop file" =>
          v5' = t[i].key /\ i = Len(t) /\ \A j \in 1 .. i : t[j].to # "file"
    BY <2>1 DEF ToolWrite
  <2>9. t[i].to = "drop memory" => v6' \in {t[i].key, Custody!NoKey}
    BY <2>1 DEF ToolWrite
  <2>10. /\ t[i].to = "keychain" => Custody!SeenIsPutAway(i, v12["tool"].key)'
         /\ t[i].to = "file" => Custody!SeenIsPutAway(i, v12["tool"].seen)'
    BY <1>0, <2>5, <2>6 DEF Custody!SeenIsPutAway
  <2> DEFINE w == v13["tool"][i]
  <2>a. (w.to = "keychain" => Custody!SeenIsPutAway(i, v12["tool"].key))'
    BY <1>0, <2>10
  <2>b. (w.to = "file" => Custody!SeenIsPutAway(i, v12["tool"].seen))'
    BY <1>0, <2>10
  <2>c. (w.to \in {"record", "data"} =>
          w.key \in Custody!Accounted
            \/ Custody!Before(i, w.key, Custody!PutsAway \cup Custody!Custodies))'
    BY <1>0, <2>7 DEF Custody!Before
  <2>d. (w.to = "drop file" =>
          /\ v5 = w.key /\ i = Len(v13["tool"])
          /\ \A j \in 1 .. i : v13["tool"][j].to # "file")'
    BY <1>0, <2>8
  <2>e. (w.to = "drop memory" => v6 \in {w.key, Custody!NoKey})'
    BY <1>0, <2>9
  <2> QED
    BY <2>a, <2>b, <2>c, <2>d, <2>e, Zenon DEF Custody!WriteInv
<1> QED
  BY <1>0, <1>1, <1>2 DEF Custody!ToolInv

\* The tool sets out.
LEMMA PlanKeeps ==
  ASSUME Custody!KeyCustodyAssumption, Custody!CustodyInv, NEW t,
         ToolPlan(t, Custody!Keychain, Custody!FileSeen), Custody!Plan(t)
  PROVE  Custody!CustodyInv'
<1>1. /\ v13' = [v13 EXCEPT !["tool"] = t]
      /\ v12' = [v12 EXCEPT !["tool"] =
           [key |-> Custody!Keychain, source |-> v12["tool"].source, seen |-> Custody!FileSeen,
            retired |-> {}, index |-> {}]]
      /\ Custody!Go("tool", "write")
      /\ UNCHANGED <<v1, v2, v3, v4, v5, v6, v7, v8, v9, v10, v14, v15, v16, v17, v18>>
  BY DEF Custody!Plan, Custody!Resolution, Custody!slots, Custody!vault, Custody!setting, Custody!ghosts,
    Custody!losses
<1>2. Custody!Types /\ "tool" \in Custody!Actors
  BY ActorsAre DEF Custody!CustodyInv
<1>3. PICK kc, f : /\ kc = Custody!Keychain /\ f = Custody!FileSeen
                   /\ kc \in Custody!Slot \cup {Custody!Unavailable} /\ f \in Custody!Slot
  BY <1>2 DEF Custody!Keychain, Custody!FileSeen, Custody!Types, Custody!Slot
<1>4. /\ v11' \in [Custody!Actors -> Custody!Places] /\ v11'["tool"] = "write"
      /\ \A b \in Custody!Actors \ {"tool"} : v11'[b] = v11[b]
  BY <1>1, <1>2, GoTyped DEF Custody!Places
<1>5. /\ v12' \in [Custody!Actors -> Holds]
      /\ v12'["tool"].key = kc /\ v12'["tool"].seen = f
      /\ v12'["tool"].index = {}
      /\ \A b \in Custody!Actors \ {"tool"} : v12'[b] = v12[b]
  <2>1. v12' = [v12 EXCEPT !["tool"] =
                  [key |-> kc, source |-> v12["tool"].source, seen |-> f,
                   retired |-> {}, index |-> {}]]
    BY <1>1, <1>3
  <2>2. v12 \in [Custody!Actors -> Holds]
    BY <1>2, HoldsAre
  <2> QED
    BY <1>2, <1>3, <2>1, <2>2 DEF Holds
<1>6. /\ v13' \in [Custody!Actors -> Seq(Custody!Writes)] /\ v13'["tool"] = t
      /\ \A b \in Custody!Actors \ {"tool"} : v13'[b] = v13[b]
  BY <1>1, <1>2, TodoTyped DEF ToolPlan
<1>7. Custody!Types'
  BY <1>1, <1>2, <1>4, <1>5, <1>6 DEF Custody!Types, Holds
<1>8. Undisturbed("tool")
  BY <1>1, <1>4, <1>5, <1>6, Unmoved
<1>9. \A e \in v12'["tool"].index : Custody!Kept(e)'
  BY <1>5
<1>10. Custody!ToolInv'
  BY <1>1, <1>3, <1>4, <1>5, <1>6, <1>9, PlanIsKept
<1>11. Custody!UsedKeysAreKeptBut' /\ Custody!RecordNamesAStoredKey'
  BY <1>1, <1>8, KeptOn DEF Undisturbed
<1> QED
  BY <1>2, <1>7, <1>8, <1>10, <1>11, StepOf, ActorsAre

\* What follows once the keys ks are put away.
TailWrite(t, i, ks, kc, f) ==
  /\ t[i].to # "index"
  /\ t[i].to = "keychain" /\ kc \in CustodyKeys /\ kc # t[i].key => kc \in ks
  /\ t[i].to = "file" /\ f \in CustodyKeys /\ f # t[i].key => f \in ks
  /\ t[i].to \in {"record", "data"} =>
       t[i].key \in Custody!Accounted \/ t[i].key \in ks
         \/ PutEarlier(t, i, t[i].key, {"keychain", "file"})
  /\ t[i].to = "drop file" =>
       v5 = t[i].key /\ i = Len(t) /\ \A j \in 1 .. i : t[j].to # "file"
  /\ t[i].to = "drop memory" => v6 \in {t[i].key, Custody!NoKey}
TailPlan(t, ks, kc, f) ==
  t \in Seq(Custody!Writes) /\ \A i \in 1 .. Len(t) : TailWrite(t, i, ks, kc, f)

LEMMA PlanFollows ==
  ASSUME Custody!KeyCustodyAssumption, NEW ks \in SUBSET CustodyKeys, NEW c \in Custody!Custodies,
         NEW t, NEW kc, NEW f, TailPlan(t, ks, kc, f)
  PROVE  ToolPlan(Custody!RetireAll(ks, c) \o t, kc, f)
<1> DEFINE r == Custody!RetireAll(ks, c)
           s == r \o t
<1>1. IsFiniteSet(CustodyKeys)
  BY SameFinite DEF Custody!KeyCustodyAssumption
<1>2. /\ r \in Seq(Custody!Writes)
      /\ \A i \in 1 .. Len(r) : r[i].to = "retire" /\ r[i].key \in ks
      /\ \A k \in ks : \E i \in 1 .. Len(r) : r[i].key = k
  BY <1>1, WritesAreOfTheKeys DEF Custody!RetireAll
<1>3. t \in Seq(Custody!Writes)
  BY DEF TailPlan
<1> HIDE DEF r
<1>4. /\ s \in Seq(Custody!Writes) /\ Len(s) = Len(r) + Len(t)
      /\ Len(r) \in Nat /\ Len(t) \in Nat
      /\ \A i \in 1 .. Len(r) : s[i] = r[i]
      /\ \A i \in 1 .. Len(t) : s[Len(r) + i] = t[i]
  BY <1>2, <1>3
<1> HIDE DEF s
<1>5. ASSUME NEW i \in 1 .. Len(s), i <= Len(r)
      PROVE  ToolWrite(s, i, kc, f)
  <2>1. s[i].to = "retire"
    BY <1>2, <1>4, <1>5
  <2> QED
    BY <2>1 DEF ToolWrite
<1>6. ASSUME NEW n \in 1 .. Len(t)
      PROVE  ToolWrite(s, Len(r) + n, kc, f)
  <2> DEFINE i == Len(r) + n
  <2>1. TailWrite(t, n, ks, kc, f) /\ s[i] = t[n] /\ i \in Nat
    BY <1>4 DEF TailPlan
  <2>2. ASSUME NEW k \in ks
        PROVE  PutEarlier(s, i, k, {"retire"})
    <3>1. PICK j \in 1 .. Len(r) : r[j].key = k
      BY <1>2
    <3>2. s[j].to = "retire" /\ s[j].key = k /\ j \in 1 .. i - 1
      BY <1>2, <1>4, <3>1
    <3> QED
      BY <3>2 DEF PutEarlier
  <2>3. ASSUME NEW k, PutEarlier(t, n, k, {"keychain", "file"})
        PROVE  PutEarlier(s, i, k, {"retire", "keychain", "file"})
    <3>1. PICK j \in 1 .. n - 1 : t[j].to \in {"keychain", "file"} /\ t[j].key = k
      BY <2>3 DEF PutEarlier
    <3>2. s[Len(r) + j] = t[j] /\ Len(r) + j \in 1 .. i - 1
      BY <1>4, <3>1
    <3> QED
      BY <3>1, <3>2 DEF PutEarlier
  <2>4. \A k : PutEarlier(s, i, k, {"retire"}) => PutEarlier(s, i, k, {"retire", "keychain", "file"})
    BY DEF PutEarlier
  <2>5. ASSUME s[i].to = "drop file"
        PROVE  v5 = s[i].key /\ i = Len(s) /\ \A j \in 1 .. i : s[j].to # "file"
    <3>1. v5 = t[n].key /\ n = Len(t) /\ \A j \in 1 .. n : t[j].to # "file"
      BY <2>1, <2>5 DEF TailWrite
    <3>2. i = Len(s)
      BY <1>4, <3>1
    <3>3. ASSUME NEW j \in 1 .. i
          PROVE  s[j].to # "file"
      <4>1. CASE j <= Len(r)
        BY <1>2, <1>4, <4>1
      <4>2. CASE ~(j <= Len(r))
        <5>1. Len(r) \in Nat /\ j \in Nat /\ j <= Len(r) + n
          BY <1>4
        <5>2. PICK m \in 1 .. n : j = Len(r) + m
          BY SMTT(30), <4>2, <5>1
        <5>3. m \in 1 .. Len(t) /\ s[j] = t[m]
          BY <1>4, <3>1, <5>2
        <5> QED
          BY <3>1, <5>2, <5>3
      <4> QED
        BY <4>1, <4>2
    <3> QED
      BY <2>1, <3>1, <3>2, <3>3
  <2> HIDE DEF i
  <2>6. ToolWrite(s, i, kc, f)
    <3>1. s[i].to # "index"
      BY <2>1 DEF TailWrite
    <3>2. s[i].to = "keychain" /\ kc \in CustodyKeys /\ kc # s[i].key => PutEarlier(s, i, kc, {"retire"})
      BY <2>1, <2>2 DEF TailWrite
    <3>3. s[i].to = "file" /\ f \in CustodyKeys /\ f # s[i].key => PutEarlier(s, i, f, {"retire"})
      BY <2>1, <2>2 DEF TailWrite
    <3>4. s[i].to \in {"record", "data"} =>
            s[i].key \in Custody!Accounted
              \/ PutEarlier(s, i, s[i].key, {"retire", "keychain", "file"})
      BY <2>1, <2>2, <2>3, <2>4 DEF TailWrite
    <3>5. s[i].to = "drop memory" => v6 \in {s[i].key, Custody!NoKey}
      BY <2>1 DEF TailWrite
    <3> QED
      BY <2>5, <3>1, <3>2, <3>3, <3>4, <3>5 DEF ToolWrite
  <2> QED
    BY <2>6 DEF i
<1>7. ASSUME NEW i \in 1 .. Len(s)
      PROVE  ToolWrite(s, i, kc, f)
  <2>1. CASE i <= Len(r)
    BY <1>5, <2>1
  <2>2. CASE ~(i <= Len(r))
    <3>1. i - Len(r) \in 1 .. Len(t) /\ Len(r) + (i - Len(r)) = i
      BY <1>4, <2>2
    <3>2. ToolWrite(s, Len(r) + (i - Len(r)), kc, f)
      BY <1>6, <3>1
    <3> QED
      BY <3>1, <3>2
  <2> QED
    BY <2>1, <2>2
<1>8. ToolPlan(s, kc, f)
  BY <1>4, <1>7 DEF ToolPlan
<1> QED
  BY <1>8 DEF s, r

\* install_current: store, record, and what came with the bundle.
LEMMA StoreFollows ==
  ASSUME Custody!KeyCustodyAssumption, NEW k \in CustodyKeys, NEW custody \in Custody!Custodies,
         NEW ks \in SUBSET CustodyKeys, NEW data \in SUBSET CustodyKeys,
         data \subseteq {k} \cup ks, NEW kc, NEW f,
         kc \in CustodyKeys /\ kc # k => kc \in ks,
         f \in CustodyKeys /\ f # k => f \in ks
  PROVE  TailPlan(Custody!StoreWrites(k, custody, data), ks, kc, f)
<1>1. CASE Custody!StoreWrites(k, custody, data) = <<>>
  BY <1>1 DEF TailPlan
<1>2. CASE Custody!StoreWrites(k, custody, data) # <<>>
  <2> DEFINE w1 == Custody!WriteTo(custody, k, custody)
             w2 == Custody!WriteTo("record", k, custody)
             d == Custody!Data(data)
             t == <<w1, w2>> \o d
  <2>1. Custody!StoreWrites(k, custody, data) = t
    BY <1>2 DEF Custody!StoreWrites
  <2>2. IsFiniteSet(CustodyKeys) /\ "file" \in Custody!Custodies
    BY SameFinite DEF Custody!KeyCustodyAssumption, Custody!Custodies
  <2>3. d \in Seq(Custody!Writes) /\ \A i \in 1 .. Len(d) : d[i].to = "data" /\ d[i].key \in data
    BY <2>2, WritesAreOfTheKeys DEF Custody!Data
  <2>4. /\ w1 \in Custody!Writes /\ w2 \in Custody!Writes
        /\ w1.to = custody /\ w1.key = k /\ w2.to = "record" /\ w2.key = k
        /\ custody \in {"keychain", "file"}
    BY DEF Custody!WriteTo, Custody!Writes, Custody!Custodies
  <2> HIDE DEF w1, w2, d
  <2>5. /\ t \in Seq(Custody!Writes) /\ Len(t) = 2 + Len(d) /\ Len(d) \in Nat
        /\ t[1] = w1 /\ t[2] = w2
        /\ \A i \in 3 .. Len(t) : t[i] = d[i - 2] /\ i - 2 \in 1 .. Len(d)
    BY <2>3, <2>4
  <2> HIDE DEF t
  <2>6. ASSUME NEW i \in 2 .. Len(t)
        PROVE  PutEarlier(t, i, k, {"keychain", "file"})
    BY <2>4, <2>5 DEF PutEarlier
  <2>7. TailWrite(t, 1, ks, kc, f)
    BY <2>4, <2>5 DEF TailWrite
  <2>8. TailWrite(t, 2, ks, kc, f)
    <3>1. PutEarlier(t, 2, k, {"keychain", "file"})
      BY <2>5, <2>6
    <3> QED
      BY <2>4, <2>5, <3>1 DEF TailWrite
  <2>9. ASSUME NEW i \in 3 .. Len(t)
        PROVE  TailWrite(t, i, ks, kc, f)
    <3>1. t[i].to = "data" /\ t[i].key \in {k} \cup ks
      BY <2>3, <2>5
    <3>2. PutEarlier(t, i, k, {"keychain", "file"})
      BY <2>5, <2>6
    <3> QED
      BY <3>1, <3>2 DEF TailWrite
  <2>10. \A i \in 1 .. Len(t) : i = 1 \/ i = 2 \/ i \in 3 .. Len(t)
    BY <2>5
  <2>11. TailPlan(t, ks, kc, f)
    BY <2>5, <2>7, <2>8, <2>9, <2>10 DEF TailPlan
  <2> QED
    BY <2>1, <2>11
<1> QED
  BY <1>1, <1>2

\* The key a look at the slots finds goes into the vault.
LEMMA SeenIsDisplaced ==
  ASSUME Custody!KeyCustodyAssumption, Custody!Types, NEW k \in CustodyKeys,
         NEW extra \in SUBSET CustodyKeys
  PROVE  /\ Custody!Displaced(k, extra) \in SUBSET CustodyKeys
         /\ Custody!Keychain \in CustodyKeys /\ Custody!Keychain # k =>
              Custody!Keychain \in Custody!Displaced(k, extra)
         /\ Custody!FileSeen \in CustodyKeys /\ Custody!FileSeen # k =>
              Custody!FileSeen \in Custody!Displaced(k, extra)
         /\ extra \subseteq {k} \cup Custody!Displaced(k, extra)
<1>1. Custody!LiveKeys \subseteq CustodyKeys
  BY DEF Custody!LiveKeys, Custody!Held
<1>2. Custody!Displaced(k, extra) \in SUBSET CustodyKeys
  BY <1>1 DEF Custody!Displaced, Custody!Held, Custody!RecordedCurrent
<1>3. ASSUME Custody!Keychain \in CustodyKeys, Custody!Keychain # k
      PROVE  Custody!Keychain \in Custody!Displaced(k, extra)
  BY <1>3 DEF Custody!Displaced, Custody!Held, Custody!Persistent
<1>4. ASSUME Custody!FileSeen \in CustodyKeys, Custody!FileSeen # k
      PROVE  Custody!FileSeen \in Custody!Displaced(k, extra)
  <2>1. Custody!NoKey \notin CustodyKeys
    BY DEF Custody!KeyCustodyAssumption
  <2>2. CASE Custody!Keychain \in CustodyKeys
    <3>1. Custody!FileSeen = v5 /\ v5 = v10
      BY <1>4, <2>1, <2>2 DEF Custody!FileSeen
    <3>2. v5 \in Custody!LiveKeys
      BY <1>4, <3>1 DEF Custody!LiveKeys, Custody!Held
    <3> QED
      BY <1>4, <3>1, <3>2 DEF Custody!Displaced, Custody!RecordedCurrent
  <2>3. CASE Custody!Keychain \notin CustodyKeys
    BY <1>4, <2>3 DEF Custody!FileSeen, Custody!Displaced, Custody!Held, Custody!Persistent
  <2> QED
    BY <2>2, <2>3
<1> QED
  BY <1>2, <1>3, <1>4 DEF Custody!Displaced

\* A write to the keychain may go before the others.
LEMMA TriedFirst ==
  ASSUME NEW k \in CustodyKeys, NEW ks \in SUBSET CustodyKeys, NEW t, NEW kc, NEW f,
         NEW custody \in Custody!Custodies,
         kc \in CustodyKeys /\ kc # k => kc \in ks,
         TailPlan(t, ks, kc, f), NEW tried \in Custody!Tried(k, custody)
  PROVE  TailPlan(tried \o t, ks, kc, f)
<1>1. t \in Seq(Custody!Writes) /\ \A i \in 1 .. Len(t) : TailWrite(t, i, ks, kc, f)
  BY DEF TailPlan
<1>2. CASE tried = <<>>
  BY <1>1, <1>2 DEF TailPlan
<1>3. CASE tried # <<>>
  <2>1. PICK w \in Custody!Writes : tried = <<w>> /\ w.to = "keychain" /\ w.key = k
    <3>1. PICK c \in {custody} \ {"keychain"} :
            tried = <<Custody!WriteTo("keychain", k, c)>>
      BY <1>3, Zenon DEF Custody!Tried
    <3>2. PICK w : w = Custody!WriteTo("keychain", k, c)
      OBVIOUS
    <3>3. w \in Custody!Writes /\ w.to = "keychain" /\ w.key = k
      BY <3>2 DEF Custody!WriteTo, Custody!Writes, Custody!Custodies
    <3> QED
      BY <3>1, <3>2, <3>3
  <2> DEFINE s == <<w>> \o t
  <2>2. /\ s \in Seq(Custody!Writes) /\ Len(s) = 1 + Len(t) /\ Len(t) \in Nat /\ s[1] = w
        /\ \A i \in 1 .. Len(t) : s[1 + i] = t[i]
    BY <1>1
  <2> HIDE DEF s
  <2>3. TailWrite(s, 1, ks, kc, f)
    BY <2>1, <2>2 DEF TailWrite
  <2>4. ASSUME NEW n \in 1 .. Len(t)
        PROVE  TailWrite(s, 1 + n, ks, kc, f)
    <3>1. /\ TailWrite(t, n, ks, kc, f) /\ s[1 + n] = t[n] /\ n \in Nat /\ 1 + n \in Nat
          /\ 1 + n = Len(s) <=> n = Len(t)
      BY <1>1, <2>2
    <3>2. ASSUME NEW x, PutEarlier(t, n, x, {"keychain", "file"})
          PROVE  PutEarlier(s, 1 + n, x, {"keychain", "file"})
      <4>1. PICK j \in 1 .. n - 1 : t[j].to \in {"keychain", "file"} /\ t[j].key = x
        BY <3>2 DEF PutEarlier
      <4>2. s[1 + j] = t[j] /\ 1 + j \in 1 .. (1 + n) - 1
        BY <2>2, <3>1, <4>1
      <4> QED
        BY <4>1, <4>2 DEF PutEarlier
    <3>3. (\A j \in 1 .. n : t[j].to # "file") => \A j \in 1 .. 1 + n : s[j].to # "file"
      <4>1. SUFFICES ASSUME \A j \in 1 .. n : t[j].to # "file", NEW j \in 1 .. 1 + n
                     PROVE  s[j].to # "file"
        OBVIOUS
      <4>2. CASE j = 1
        BY <2>1, <2>2, <4>2
      <4>3. CASE j # 1
        <5>1. PICK m \in 1 .. n : j = 1 + m
          BY <3>1, <4>3
        <5>2. s[1 + m] = t[m]
          BY <2>2, <3>1
        <5> QED
          BY <4>1, <5>1, <5>2
      <4> QED
        BY <4>2, <4>3
    <3> QED
      BY <3>1, <3>2, <3>3 DEF TailWrite
  <2>5. \A i \in 1 .. Len(s) : TailWrite(s, i, ks, kc, f)
    <3>1. \A i \in 1 .. Len(s) : i = 1 \/ \E n \in 1 .. Len(t) : i = 1 + n
      <4>1. ASSUME NEW i \in 1 .. Len(s), i # 1
            PROVE  i - 1 \in 1 .. Len(t) /\ i = 1 + (i - 1)
        BY <2>2, <4>1
      <4> QED
        BY <4>1
    <3> QED
      BY <2>3, <2>4, <3>1
  <2>6. TailPlan(s, ks, kc, f)
    BY <2>2, <2>5 DEF TailPlan
  <2> QED
    BY <2>1, <2>6 DEF s
<1> QED
  BY <1>2, <1>3

LEMMA InstallKeeps ==
  ASSUME Custody!KeyCustodyAssumption, Custody!CustodyInv, NEW k \in CustodyKeys,
         NEW extra \in SUBSET CustodyKeys, NEW data \in SUBSET CustodyKeys,
         data \subseteq {k} \cup extra, Custody!InstallCurrent(k, extra, data)
  PROVE  Custody!CustodyInv'
<1>1. PICK c \in Custody!Custodies, custody \in Custody!Custodies :
        \E tried \in Custody!Tried(k, custody) :
          Custody!Plan(Custody!InstallWrites(k, extra, data, c, tried, custody))
  BY DEF Custody!InstallCurrent, Custody!VaultCustody, Custody!Custodies
<1>2. PICK tried \in Custody!Tried(k, custody) :
        Custody!Plan(Custody!InstallWrites(k, extra, data, c, tried, custody))
  BY <1>1
<1> DEFINE ks == Custody!Displaced(k, extra)
           t == Custody!StoreWrites(k, custody, data)
<1>3. Custody!Types
  BY DEF Custody!CustodyInv
<1>4. /\ ks \in SUBSET CustodyKeys /\ data \subseteq {k} \cup ks
      /\ Custody!Keychain \in CustodyKeys /\ Custody!Keychain # k => Custody!Keychain \in ks
      /\ Custody!FileSeen \in CustodyKeys /\ Custody!FileSeen # k => Custody!FileSeen \in ks
  BY <1>3, SeenIsDisplaced
<1>5. Custody!InstallWrites(k, extra, data, c, tried, custody)
        = Custody!RetireAll(ks, c) \o (tried \o t)
  BY DEF Custody!InstallWrites
<1> HIDE DEF ks
<1>6. TailPlan(t, ks, Custody!Keychain, Custody!FileSeen)
  BY <1>4, StoreFollows
<1> HIDE DEF t
<1>7. TailPlan(tried \o t, ks, Custody!Keychain, Custody!FileSeen)
  BY <1>4, <1>6, TriedFirst
<1>8. ToolPlan(Custody!RetireAll(ks, c) \o (tried \o t), Custody!Keychain, Custody!FileSeen)
  BY <1>4, <1>7, PlanFollows
<1> QED
  BY <1>2, <1>5, <1>8, PlanKeeps

LEMMA AdoptKeeps ==
  ASSUME Custody!KeyCustodyAssumption, Custody!CustodyInv, Custody!Adopt
  PROVE  Custody!CustodyInv'
<1>1. Custody!Loaded \subseteq CustodyKeys
  BY CandidatesAreSafe DEF Custody!CustodyInv
<1>2. PICK k \in CustodyKeys : Custody!InstallCurrent(k, {}, {})
  BY <1>1 DEF Custody!Adopt, Custody!Held
<1> QED
  BY <1>2, InstallKeeps

\* One write of the tool's, after what it puts away.
LEMMA NothingFollows ==
  ASSUME NEW ks, NEW kc, NEW f
  PROVE  TailPlan(<<>>, ks, kc, f)
BY DEF TailPlan

LEMMA OneWrite ==
  ASSUME NEW w \in Custody!Writes
  PROVE  <<w>> \in Seq(Custody!Writes) /\ Len(<<w>>) = 1 /\ <<w>>[1] = w
OBVIOUS

DropsOne(w) ==
  \/ w.to = "drop file" /\ v5 = w.key
  \/ w.to = "drop memory" /\ v6 = w.key

LEMMA DropIsAllowed ==
  ASSUME NEW w \in Custody!Writes, NEW ks, NEW kc, NEW f, DropsOne(w)
  PROVE  TailPlan(<<w>>, ks, kc, f)
<1>1. <<w>> \in Seq(Custody!Writes) /\ Len(<<w>>) = 1 /\ <<w>>[1] = w
  BY OneWrite
<1> DEFINE s == <<w>>
<1>2. s \in Seq(Custody!Writes) /\ Len(s) = 1 /\ s[1] = w
  BY <1>1
<1> HIDE DEF s
<1>3. TailWrite(s, 1, ks, kc, f)
  <2>1. 1 .. 1 = {1}
    OBVIOUS
  <2>2. CASE w.to = "drop file" /\ v5 = w.key
    BY <1>2, <2>1, <2>2 DEF TailWrite
  <2>3. CASE w.to = "drop memory" /\ v6 = w.key
    BY <1>2, <2>3 DEF TailWrite
  <2> QED
    BY <2>2, <2>3 DEF DropsOne
<1>4. TailPlan(s, ks, kc, f)
  BY <1>2, <1>3 DEF TailPlan
<1> QED
  BY <1>4 DEF s

LEMMA DropFileFollows ==
  ASSUME NEW k \in CustodyKeys, NEW c \in Custody!Custodies, NEW ks, NEW kc, NEW f, v5 = k
  PROVE  TailPlan(<<Custody!WriteTo("drop file", k, c)>>, ks, kc, f)
<1> DEFINE w == Custody!WriteTo("drop file", k, c)
<1>1. w \in Custody!Writes /\ w.to = "drop file" /\ w.key = k
  BY DEF Custody!WriteTo, Custody!Writes
<1>2. DropsOne(w)
  BY <1>1 DEF DropsOne
<1> HIDE DEF w
<1>3. TailPlan(<<w>>, ks, kc, f)
  BY <1>1, <1>2, DropIsAllowed
<1> QED
  BY <1>3 DEF w

LEMMA DropMemoryFollows ==
  ASSUME NEW k \in CustodyKeys, NEW c \in Custody!Custodies, NEW ks, NEW kc, NEW f, v6 = k
  PROVE  TailPlan(<<Custody!WriteTo("drop memory", k, c)>>, ks, kc, f)
<1> DEFINE w == Custody!WriteTo("drop memory", k, c)
<1>1. w \in Custody!Writes /\ w.to = "drop memory" /\ w.key = k
  BY DEF Custody!WriteTo, Custody!Writes
<1>2. DropsOne(w)
  BY <1>1 DEF DropsOne
<1> HIDE DEF w
<1>3. TailPlan(<<w>>, ks, kc, f)
  BY <1>1, <1>2, DropIsAllowed
<1> QED
  BY <1>3 DEF w

LEMMA RetireKeyKeeps ==
  ASSUME Custody!KeyCustodyAssumption, Custody!CustodyInv, Custody!RetireKey
  PROVE  Custody!CustodyInv'
<1>1. PICK k \in Custody!LiveKeys \ {v10} :
        /\ k = v1 \/ k # Custody!Keychain
        /\ \E c \in Custody!VaultCustody(TRUE) :
             Custody!Plan(Custody!RetireAll({k}, c) \o
               (CASE k = v1 -> <<>>
                  [] k # v1 /\ k = v5 -> <<Custody!WriteTo("drop file", k, c)>>
                  [] OTHER -> <<Custody!WriteTo("drop memory", k, c)>>))
  BY Zenon DEF Custody!RetireKey
<1>2. PICK c \in Custody!Custodies :
        Custody!Plan(Custody!RetireAll({k}, c) \o
          (CASE k = v1 -> <<>>
             [] k # v1 /\ k = v5 -> <<Custody!WriteTo("drop file", k, c)>>
             [] OTHER -> <<Custody!WriteTo("drop memory", k, c)>>))
  <2>1. Custody!VaultCustody(TRUE) \subseteq Custody!Custodies
    BY DEF Custody!VaultCustody
  <2> QED
    BY <1>1, <2>1, Zenon
<1>3. k \in CustodyKeys /\ (k # v1 /\ k # v5 => k = v6)
  BY <1>1 DEF Custody!LiveKeys, Custody!Held
<1> DEFINE t == CASE k = v1 -> <<>>
                  [] k # v1 /\ k = v5 -> <<Custody!WriteTo("drop file", k, c)>>
                  [] OTHER -> <<Custody!WriteTo("drop memory", k, c)>>
<1>4. TailPlan(t, {k}, Custody!Keychain, Custody!FileSeen)
  <2>1. CASE k = v1
    <3>1. t = <<>>
      BY <2>1
    <3> QED
      BY <3>1, NothingFollows
  <2>2. CASE k # v1 /\ k = v5
    <3>1. t = <<Custody!WriteTo("drop file", k, c)>>
      BY <2>2
    <3>2. v5 = k
      BY <1>3, <2>2
    <3>3. TailPlan(<<Custody!WriteTo("drop file", k, c)>>, {k}, Custody!Keychain, Custody!FileSeen)
      BY <1>3, <3>2, DropFileFollows
    <3> QED
      BY <3>1, <3>3, Zenon
  <2>3. CASE k # v1 /\ k # v5
    <3>1. t = <<Custody!WriteTo("drop memory", k, c)>>
      BY <2>3
    <3>2. v6 = k
      BY <1>3, <2>3
    <3>3. TailPlan(<<Custody!WriteTo("drop memory", k, c)>>, {k}, Custody!Keychain, Custody!FileSeen)
      BY <1>3, <3>2, DropMemoryFollows
    <3> QED
      BY <3>1, <3>3, Zenon
  <2> QED
    BY <2>1, <2>2, <2>3
<1>5. Custody!Plan(Custody!RetireAll({k}, c) \o t)
  BY <1>2
<1> HIDE DEF t
<1>6. ToolPlan(Custody!RetireAll({k}, c) \o t, Custody!Keychain, Custody!FileSeen)
  BY <1>3, <1>4, PlanFollows
<1> QED
  BY <1>5, <1>6, PlanKeeps

LEMMA ImportKeeps ==
  ASSUME Custody!KeyCustodyAssumption, Custody!CustodyInv, Custody!Import
  PROVE  Custody!CustodyInv'
<1>1. PICK b \in Bundles :
        \/ /\ v10 = b.current
           /\ b.current \in Custody!Held(v1) \cup Custody!Held(Custody!Keychain)
                              \cup Custody!Held(v5)
           /\ \E c \in Custody!VaultCustody(TRUE) :
                Custody!Plan(Custody!RetireAll(b.retired \ {b.current}, c)
                               \o Custody!Data(Custody!BundleKeys(b)))
        \/ Custody!InstallCurrent(b.current, b.retired, Custody!BundleKeys(b))
  BY DEF Custody!Import
<1>2. /\ b.current \in CustodyKeys /\ b.retired \in SUBSET CustodyKeys
      /\ Custody!BundleKeys(b) \in SUBSET CustodyKeys
      /\ Custody!BundleKeys(b) = {b.current} \cup b.retired
  BY DEF Custody!KeyCustodyAssumption, Custody!BundleKeys
<1>3. CASE Custody!InstallCurrent(b.current, b.retired, Custody!BundleKeys(b))
  BY <1>2, <1>3, InstallKeeps
<1>4. ASSUME b.current \in Custody!Held(v1) \cup Custody!Held(Custody!Keychain)
                             \cup Custody!Held(v5),
             NEW c \in Custody!Custodies,
             Custody!Plan(Custody!RetireAll(b.retired \ {b.current}, c)
                            \o Custody!Data(Custody!BundleKeys(b)))
      PROVE  Custody!CustodyInv'
  <2> DEFINE ks == b.retired \ {b.current}
             d == Custody!Data(Custody!BundleKeys(b))
  <2>1. b.current \in Custody!Accounted
    <3>1. Custody!LiveKeys \subseteq Custody!Accounted
      BY CandidatesAreSafe DEF Custody!CustodyInv, Custody!Candidates
    <3> QED
      BY <1>4, <3>1 DEF Custody!LiveKeys
  <2>2. IsFiniteSet(CustodyKeys) /\ "file" \in Custody!Custodies
    BY SameFinite DEF Custody!KeyCustodyAssumption, Custody!Custodies
  <2>3. /\ d \in Seq(Custody!Writes)
        /\ \A i \in 1 .. Len(d) : d[i].to = "data" /\ d[i].key \in Custody!BundleKeys(b)
    BY <1>2, <2>2, WritesAreOfTheKeys DEF Custody!Data
  <2>4. Custody!BundleKeys(b) \subseteq Custody!Accounted \cup ks /\ ks \in SUBSET CustodyKeys
    BY <1>2, <2>1
  <2> HIDE DEF d, ks
  <2>5. TailPlan(d, ks, Custody!Keychain, Custody!FileSeen)
    BY <2>3, <2>4 DEF TailPlan, TailWrite
  <2>6. ToolPlan(Custody!RetireAll(ks, c) \o d, Custody!Keychain, Custody!FileSeen)
    BY <2>4, <2>5, PlanFollows
  <2> QED
    BY <1>4, <2>6, PlanKeeps DEF ks, d
<1>5. Custody!VaultCustody(TRUE) \subseteq Custody!Custodies
  BY DEF Custody!VaultCustody
<1> QED
  BY <1>1, <1>3, <1>4, <1>5

-----------------------------------------------------------------------------
\* What the tool has done with its first write.
HeadIsDone(w) ==
  /\ w.to \in Custody!PutsAway => Custody!Indexed(w.key)' \/ w.key \in v17'
  /\ w.to \in Custody!PutsAway \cup Custody!Custodies => w.key \in Custody!Safe'
  /\ w.to \notin {"file", "drop file"} => v5' = v5
  /\ v6' \in {v6, Custody!NoKey}

\* The writes that are left, one place further ahead.
LEMMA ToolAdvances ==
  ASSUME Custody!Types, Custody!ToolInv, NEW t, HeadIsDone(t[1]), t = v13["tool"],
         t # <<>>, v13'["tool"] = Tail(t),
         v12'["tool"].key = v12["tool"].key, v12'["tool"].seen = v12["tool"].seen,
         Custody!Safe \subseteq Custody!Safe',
         \A k : Custody!Indexed(k) => Custody!Indexed(k)' \/ k \in v17',
         v17 \subseteq v17',
         NEW i \in 1 .. Len(t) - 1
  PROVE  Custody!WriteInv(i)'
<1>1. /\ t \in Seq(Custody!Writes) /\ Len(t) \in Nat /\ i + 1 \in 1 .. Len(t)
      /\ t[i + 1].key \in CustodyKeys
  <2>1. t \in Seq(Custody!Writes)
    BY ToolsWrites
  <2>2. Len(t) \in Nat /\ i + 1 \in 1 .. Len(t)
    BY <2>1
  <2> QED
    BY <2>1, <2>2, WritesAre
<1>2. /\ Len(Tail(t)) = Len(t) - 1 /\ \A j \in 1 .. Len(t) - 1 : Tail(t)[j] = t[j + 1]
  BY <1>1
<1>h. /\ t[1].to \in Custody!PutsAway => Custody!Indexed(t[1].key)' \/ t[1].key \in v17'
      /\ t[1].to \in Custody!PutsAway \cup Custody!Custodies => t[1].key \in Custody!Safe'
      /\ t[1].to \notin {"file", "drop file"} => v5' = v5
      /\ v6' \in {v6, Custody!NoKey}
  BY DEF HeadIsDone
<1>i. i \in Nat /\ i >= 1 /\ i + 1 # 1
  BY <1>1
<1> DEFINE u == t[i + 1]
<1>3. Custody!WriteInv(i + 1)
  BY <1>1 DEF Custody!ToolInv
<1>4. /\ u.to = "keychain" => Custody!SeenIsPutAway(i + 1, v12["tool"].key)
      /\ u.to = "file" => Custody!SeenIsPutAway(i + 1, v12["tool"].seen)
      /\ u.to \in {"record", "data"} =>
           u.key \in Custody!Accounted
             \/ Custody!Before(i + 1, u.key, Custody!PutsAway \cup Custody!Custodies)
      /\ u.to = "drop file" =>
           /\ v5 = u.key /\ i + 1 = Len(t)
           /\ \A j \in 1 .. i + 1 : t[j].to # "file"
      /\ u.to = "drop memory" => v6 \in {u.key, Custody!NoKey}
  BY <1>3, Zenon DEF Custody!WriteInv
<1>5. ASSUME NEW k, NEW tos, Custody!Before(i + 1, k, tos)
      PROVE  \/ Custody!Before(i, k, tos)'
             \/ t[1].to \in tos /\ t[1].key = k
  <2>1. PICK j \in 1 .. i : t[j].to \in tos /\ t[j].key = k
    BY <1>1, <1>5 DEF Custody!Before
  <2>2. CASE j = 1
    BY <2>1, <2>2
  <2>3. CASE j # 1
    <3>1. j - 1 \in 1 .. i - 1 /\ j - 1 \in 1 .. Len(t) - 1 /\ j - 1 + 1 = j
      BY <2>3
    <3>2. Tail(t)[j - 1] = t[j]
      BY <1>2, <3>1
    <3> QED
      BY <2>1, <3>1, <3>2 DEF Custody!Before
  <2> QED
    BY <2>2, <2>3
<1>6. ASSUME NEW k, Custody!SeenIsPutAway(i + 1, k)
      PROVE  Custody!SeenIsPutAway(i, k)'
  <2>1. SUFFICES ASSUME k \in CustodyKeys, k # u.key
                 PROVE  Custody!Indexed(k)' \/ k \in v17' \/ Custody!Before(i, k, Custody!PutsAway)'
    BY <1>2 DEF Custody!SeenIsPutAway
  <2>2. Custody!Indexed(k) \/ k \in v17 \/ Custody!Before(i + 1, k, Custody!PutsAway)
    BY <1>6, <2>1 DEF Custody!SeenIsPutAway
  <2> QED
    BY <1>5, <1>h, <2>2
<1>7. (v13["tool"][i])' = u /\ (Len(v13["tool"]))' = Len(t) - 1
  BY <1>2
<1> DEFINE w == v13["tool"][i]
<1>a. (w.to = "keychain" => Custody!SeenIsPutAway(i, v12["tool"].key))'
  <2>1. u.to = "keychain" => Custody!SeenIsPutAway(i, v12["tool"].key)'
    BY <1>4, <1>6 DEF Custody!SeenIsPutAway
  <2> QED
    BY <1>7, <2>1
<1>b. (w.to = "file" => Custody!SeenIsPutAway(i, v12["tool"].seen))'
  <2>1. u.to = "file" => Custody!SeenIsPutAway(i, v12["tool"].seen)'
    BY <1>4, <1>6 DEF Custody!SeenIsPutAway
  <2> QED
    BY <1>7, <2>1
<1>c. (w.to \in {"record", "data"} =>
        w.key \in Custody!Accounted
          \/ Custody!Before(i, w.key, Custody!PutsAway \cup Custody!Custodies))'
  <2>1. ASSUME u.to \in {"record", "data"}
        PROVE  u.key \in Custody!Accounted'
                 \/ Custody!Before(i, u.key, Custody!PutsAway \cup Custody!Custodies)'
    BY <1>4, <1>5, <1>h, <2>1 DEF Custody!Accounted
  <2> QED
    BY <1>7, <2>1 DEF Custody!Before
<1>d. (w.to = "drop file" =>
        /\ v5 = w.key /\ i = Len(v13["tool"])
        /\ \A j \in 1 .. i : v13["tool"][j].to # "file")'
  <2>1. ASSUME u.to = "drop file"
        PROVE  v5' = u.key /\ i = Len(t) - 1 /\ \A j \in 1 .. i : t[j + 1].to # "file"
    <3>1. v5 = u.key /\ i + 1 = Len(t) /\ \A j \in 1 .. i + 1 : t[j].to # "file"
      BY <1>4, <2>1
    <3>2. t[1].to # "drop file"
      <4>1. Custody!WriteInv(1) /\ 1 \in 1 .. Len(t)
        BY <1>1 DEF Custody!ToolInv
      <4>2. t[1].to = "drop file" => 1 = Len(t)
        BY <4>1, Zenon DEF Custody!WriteInv
      <4> QED
        BY <1>i, <3>1, <4>2
    <3>3. v5' = v5
      <4>1. 1 \in 1 .. i + 1
        BY <1>i
      <4> QED
        BY <1>h, <3>1, <3>2, <4>1
    <3> QED
      BY <3>1, <3>3
  <2>2. \A j \in 1 .. i : (v13["tool"][j])' = t[j + 1]
    BY <1>2
  <2> QED
    BY <1>7, <2>1, <2>2
<1>e. (w.to = "drop memory" => v6 \in {w.key, Custody!NoKey})'
  BY <1>4, <1>7, <1>h
<1> QED
  BY <1>a, <1>b, <1>c, <1>d, <1>e, Zenon DEF Custody!WriteInv

\* The two things StoreRetired may do with the first write, w, of an actor.
Skips(a, w) ==
  /\ v13' = [v13 EXCEPT ![a] = IF a = "tool" /\ ~Custody!Indexed(w.key) THEN <<>> ELSE Tail(@)]
  /\ UNCHANGED <<v7, v8, v12>>
Stores(a, w) ==
  /\ v7' = IF w.custody = "keychain" THEN v7 \cup {w.key} ELSE v7
  /\ v8' = IF w.custody = "file" THEN v8 \cup {w.key} ELSE v8
  /\ v12' = [v12 EXCEPT ![a].index = v9]
  /\ v13' = [v13 EXCEPT ![a] = <<Custody!WriteTo("index", w.key, w.custody)>> \o Tail(@)]

LEMMA StoreRetiredIs ==
  ASSUME NEW a, Custody!StoreRetired(a)
  PROVE  /\ v11[a] = "write" /\ v13[a] # <<>> /\ Head(v13[a]).to = "retire"
         /\ UNCHANGED <<v1, v2, v3, v4, v5, v6, v9, v10, v11, v14, v15, v16, v17, v18>>
         /\ Skips(a, Head(v13[a])) \/ Stores(a, Head(v13[a]))
<1>1. /\ v11[a] = "write" /\ v13[a] # <<>> /\ Head(v13[a]).to = "retire"
      /\ UNCHANGED <<v1, v2, v3, v4, v5, v6, v9, v10, v11, v14, v15, v16, v17, v18>>
  BY DEF Custody!StoreRetired, Custody!slots, Custody!setting, Custody!ghosts, Custody!losses
<1>2. Skips(a, Head(v13[a])) \/ Stores(a, Head(v13[a]))
  BY Zenon DEF Custody!StoreRetired, Skips, Stores
<1> QED
  BY <1>1, <1>2

LEMMA TodoIs ==
  ASSUME Custody!Types, NEW a \in Custody!Actors, v13[a] # <<>>
  PROVE  /\ v13[a] \in Seq(Custody!Writes) /\ Len(v13[a]) \in Nat /\ 1 \in 1 .. Len(v13[a])
         /\ Head(v13[a]) = v13[a][1] /\ Head(v13[a]) \in Custody!Writes
         /\ Head(v13[a]).key \in CustodyKeys /\ Head(v13[a]).custody \in Custody!Custodies
         /\ Tail(v13[a]) \in Seq(Custody!Writes) /\ Len(Tail(v13[a])) = Len(v13[a]) - 1
         /\ \A i \in 1 .. Len(v13[a]) - 1 :
              Tail(v13[a])[i] = v13[a][i + 1] /\ i + 1 \in 1 .. Len(v13[a])
<1>1. v13[a] \in Seq(Custody!Writes)
  BY DEF Custody!Types
<1>2. /\ Len(v13[a]) \in Nat /\ 1 \in 1 .. Len(v13[a])
      /\ Head(v13[a]) = v13[a][1] /\ Head(v13[a]) \in Custody!Writes
      /\ Tail(v13[a]) \in Seq(Custody!Writes) /\ Len(Tail(v13[a])) = Len(v13[a]) - 1
      /\ \A i \in 1 .. Len(v13[a]) - 1 :
           Tail(v13[a])[i] = v13[a][i + 1] /\ i + 1 \in 1 .. Len(v13[a])
  BY <1>1
<1>3. Head(v13[a]).key \in CustodyKeys /\ Head(v13[a]).custody \in Custody!Custodies
  BY <1>2 DEF Custody!Writes
<1> QED
  BY <1>1, <1>2, <1>3

\* A process does not mind which of its writes it is at.
LEMMA ProcessAdvances ==
  ASSUME Custody!Types, NEW p \in Procs, p \in Custody!Actors, Custody!ProcessInv(p),
         v13[p] # <<>>, v13'[p] = Tail(v13[p]), v11'[p] = v11[p], v12'[p].key = v12[p].key,
         v11[p] = "write",
         Custody!Safe \subseteq Custody!Safe', \A e : Custody!Kept(e) => Custody!Kept(e)',
         \A e \in v12'[p].index : Custody!Kept(e)'
  PROVE  Custody!ProcessInv(p)'
<1>1. /\ Len(v13'[p]) = Len(v13[p]) - 1
      /\ \A i \in 1 .. Len(v13[p]) - 1 : v13'[p][i] = v13[p][i + 1] /\ i + 1 \in 1 .. Len(v13[p])
  BY TodoIs
<1>2. Custody!VaultIsKept(p)'
  BY <1>1 DEF Custody!ProcessInv, Custody!VaultIsKept
<1>3. v12'[p].key \in Custody!Accounted'
  BY DEF Custody!ProcessInv, Custody!Accounted
<1>4. ASSUME NEW i \in 1 .. Len(v13'[p])
      PROVE  /\ v13'[p][i].to \in {"retire", "index", "record"}
             /\ v13'[p][i].to = "record" => v13'[p][i].key \in Custody!Accounted'
  BY <1>1 DEF Custody!ProcessInv, Custody!Accounted
<1> QED
  BY <1>2, <1>3, <1>4 DEF Custody!ProcessInv

\* A list with nothing left in it asks for nothing.
LEMMA NothingLeft ==
  ASSUME Custody!ToolInv, v13'["tool"] = <<>>, v12'["tool"] = v12["tool"],
         \A e : Custody!Kept(e) => Custody!Kept(e)'
  PROVE  Custody!ToolInv'
BY DEF Custody!ToolInv, Custody!VaultIsKept

\* The first write is done, and the tool goes on to the next.
LEMMA ToolGoesOn ==
  ASSUME Custody!Types, Custody!ToolInv, v13["tool"] # <<>>,
         NEW w, w = Head(v13["tool"]), HeadIsDone(w),
         "tool" \in Custody!Actors, v11["tool"] = "write",
         v13'["tool"] = Tail(v13["tool"]), v11'["tool"] = v11["tool"],
         v12'["tool"].key = v12["tool"].key, v12'["tool"].seen = v12["tool"].seen,
         \A e \in v12'["tool"].index : Custody!Kept(e)',
         Custody!Safe \subseteq Custody!Safe', \A e : Custody!Kept(e) => Custody!Kept(e)',
         \A k : Custody!Indexed(k) => Custody!Indexed(k)' \/ k \in v17',
         v17 \subseteq v17'
  PROVE  Custody!ToolInv'
<1>1. PICK t : t = v13["tool"]
  OBVIOUS
<1>2. /\ t \in Seq(Custody!Writes) /\ Len(t) \in Nat /\ w = t[1]
      /\ Len(Tail(t)) = Len(t) - 1
      /\ \A i \in 1 .. Len(t) - 1 : Tail(t)[i] = t[i + 1] /\ i + 1 \in 1 .. Len(t)
  BY <1>1, TodoIs
<1>3. ASSUME NEW i \in 1 .. Len(t) - 1
      PROVE  Custody!WriteInv(i)'
  <2>1. t # <<>> /\ v13'["tool"] = Tail(t)
    BY <1>1
  <2> QED
    BY <1>1, <1>2, <2>1, ToolAdvances
<1>4. /\ Len(v13'["tool"]) = Len(v13["tool"]) - 1
      /\ \A i \in 1 .. Len(v13["tool"]) - 1 :
           v13'["tool"][i] = v13["tool"][i + 1] /\ i + 1 \in 1 .. Len(v13["tool"])
  BY <1>1, <1>2
<1>5. Custody!VaultIsKept("tool")'
  BY <1>4 DEF Custody!ToolInv, Custody!VaultIsKept
<1> QED
  BY <1>1, <1>3, <1>4, <1>5 DEF Custody!ToolInv

LEMMA SkipKeeps ==
  ASSUME Custody!KeyCustodyAssumption, Custody!CustodyInv, NEW a \in Custody!Actors,
         v11[a] = "write", v13[a] # <<>>, Head(v13[a]).to = "retire",
         UNCHANGED <<v1, v2, v3, v4, v5, v6, v9, v10, v11, v14, v15, v16, v17, v18>>,
         Skips(a, Head(v13[a]))
  PROVE  Custody!CustodyInv'
<1>0. PICK w : w = Head(v13[a])
  OBVIOUS
<1>1. Custody!Types /\ Custody!ToolInv
  BY DEF Custody!CustodyInv
<1>2. PICK nt \in {<<>>, Tail(v13[a])} :
        /\ v13' = [v13 EXCEPT ![a] = nt]
        /\ a # "tool" => nt = Tail(v13[a])
        /\ nt = <<>> \/ a # "tool" \/ Custody!Indexed(w.key)
  BY <1>0 DEF Skips
<1>3. UNCHANGED <<v7, v8, v12>>
  BY DEF Skips
<1>4. nt \in Seq(Custody!Writes)
  <2>1. Tail(v13[a]) \in Seq(Custody!Writes)
    BY <1>1, TodoIs
  <2>2. <<>> \in Seq(Custody!Writes)
    OBVIOUS
  <2>3. nt = <<>> \/ nt = Tail(v13[a])
    OBVIOUS
  <2> QED
    BY <2>1, <2>2, <2>3, Zenon
<1>5. /\ v13' \in [Custody!Actors -> Seq(Custody!Writes)] /\ v13'[a] = nt
      /\ \A b \in Custody!Actors \ {a} : v13'[b] = v13[b]
  BY <1>1, <1>2, <1>4, TodoTyped
<1>6. Custody!Types'
  BY <1>1, <1>3, <1>5 DEF Custody!Types
<1>7. Undisturbed(a)
  BY <1>3, <1>5, Unmoved
<1>8. /\ Custody!Safe' = Custody!Safe /\ Custody!Accounted' = Custody!Accounted
      /\ \A e : Custody!Kept(e)' <=> Custody!Kept(e)
      /\ \A k : Custody!Indexed(k)' <=> Custody!Indexed(k)
  BY <1>3, Quiet
<1>9. ASSUME a \in Procs
      PROVE  Custody!ProcessInv(a)'
  <2>1. nt = Tail(v13[a]) /\ Custody!ProcessInv(a)
    BY <1>2, <1>9, ActorsAre DEF Custody!CustodyInv
  <2>2. \A e \in v12'[a].index : Custody!Kept(e)'
    BY <1>3, <1>8, <2>1 DEF Custody!ProcessInv, Custody!VaultIsKept
  <2> QED
    BY <1>1, <1>3, <1>5, <1>8, <1>9, <2>1, <2>2, ProcessAdvances
<1>10. ASSUME a = "tool"
       PROVE  Custody!ToolInv'
  <2>1. CASE nt = <<>>
    BY <1>1, <1>3, <1>5, <1>8, <1>10, <2>1, NothingLeft
  <2>2. CASE nt = Tail(v13[a]) /\ Custody!Indexed(w.key)
    <3>1. w.key \in Custody!Safe
      BY <2>2, IndexedIsSafe DEF Custody!CustodyInv
    <3>2. HeadIsDone(w)
      BY <1>8, <2>2, <3>1 DEF HeadIsDone
    <3>3. \A e \in v12'["tool"].index : Custody!Kept(e)'
      BY <1>1, <1>3, <1>8 DEF Custody!ToolInv, Custody!VaultIsKept
    <3> QED
      BY <1>0, <1>1, <1>3, <1>5, <1>8, <1>10, <2>2, <3>2, <3>3, ToolGoesOn
  <2> QED
    BY <1>2, <1>10, <2>1, <2>2
<1>11. Custody!UsedKeysAreKeptBut' /\ Custody!RecordNamesAStoredKey'
  BY <1>8, KeptOn
<1> QED
  BY <1>6, <1>7, <1>9, <1>10, <1>11, StepOf

LEMMA StoresAre ==
  ASSUME Custody!KeyCustodyAssumption, Custody!Types, NEW a \in Custody!Actors,
         v13[a] # <<>>, NEW w, w = Head(v13[a]), Stores(a, w)
  PROVE  /\ w \in Custody!Writes /\ w.key \in CustodyKeys /\ w.custody \in Custody!Custodies
         /\ v7 \subseteq v7' /\ v7' \in SUBSET CustodyKeys
         /\ v8 \subseteq v8' /\ v8' \in SUBSET CustodyKeys
         /\ w.key \in IF w.custody = "file" THEN v8' ELSE v7'
         /\ v12' \in [Custody!Actors -> Holds] /\ v12'[a].index = v9
         /\ v12'[a].key = v12[a].key /\ v12'[a].seen = v12[a].seen
         /\ \A b \in Custody!Actors \ {a} : v12'[b] = v12[b]
<1>1. w \in Custody!Writes /\ w.key \in CustodyKeys /\ w.custody \in Custody!Custodies
  BY TodoIs
<1>2. v7 \in SUBSET CustodyKeys /\ v8 \in SUBSET CustodyKeys /\ v9 \in SUBSET Custody!Entries
  BY DEF Custody!Types
<1>3. /\ v7 \subseteq v7' /\ v7' \in SUBSET CustodyKeys
      /\ v8 \subseteq v8' /\ v8' \in SUBSET CustodyKeys
      /\ w.key \in IF w.custody = "file" THEN v8' ELSE v7'
  BY <1>1, <1>2 DEF Stores, Custody!Custodies
<1>4. v12' = [v12 EXCEPT ![a].index = v9]
  BY Zenon DEF Stores
<1>5. v12 \in [Custody!Actors -> Holds]
  BY HoldsAre
<1>6. /\ v12' \in [Custody!Actors -> Holds] /\ v12'[a].index = v9
      /\ v12'[a].key = v12[a].key /\ v12'[a].seen = v12[a].seen
      /\ \A b \in Custody!Actors \ {a} : v12'[b] = v12[b]
  BY <1>2, <1>4, <1>5 DEF Holds
<1> QED
  BY <1>1, <1>3, <1>6

\* The head of the list becomes the entry it makes in the index.
LEMMA StoresTodo ==
  ASSUME Custody!Types, NEW a \in Custody!Actors,
         v13[a] # <<>>, NEW w, w = Head(v13[a]), Stores(a, w)
  PROVE  /\ v13' \in [Custody!Actors -> Seq(Custody!Writes)]
         /\ Len(v13'[a]) = Len(v13[a]) /\ Len(v13[a]) \in Nat
         /\ v13[a][1] = w
         /\ v13'[a][1] = [to |-> "index", key |-> w.key, custody |-> w.custody]
         /\ \A i \in 1 .. Len(v13[a]) : i # 1 => v13'[a][i] = v13[a][i]
         /\ \A b \in Custody!Actors \ {a} : v13'[b] = v13[b]
<1> DEFINE h == [to |-> "index", key |-> w.key, custody |-> w.custody]
           nt == <<h>> \o Tail(v13[a])
<1>1. w \in Custody!Writes /\ w.key \in CustodyKeys /\ w.custody \in Custody!Custodies
  BY TodoIs
<1>2. h \in Custody!Writes
  BY <1>1 DEF Custody!Writes
<1>3. v13' = [v13 EXCEPT ![a] = <<Custody!WriteTo("index", w.key, w.custody)>> \o Tail(@)]
  BY Zenon DEF Stores
<1>4. v13' = [v13 EXCEPT ![a] = nt]
  BY <1>3 DEF Custody!WriteTo
<1> HIDE DEF h
<1>5. /\ v13[a] \in Seq(Custody!Writes) /\ Len(v13[a]) \in Nat /\ Len(v13[a]) >= 1
      /\ Head(v13[a]) = v13[a][1]
      /\ Tail(v13[a]) \in Seq(Custody!Writes) /\ Len(Tail(v13[a])) = Len(v13[a]) - 1
      /\ \A i \in 1 .. Len(v13[a]) - 1 : Tail(v13[a])[i] = v13[a][i + 1]
  BY TodoIs
<1>6. <<h>> \in Seq(Custody!Writes) /\ Len(<<h>>) = 1 /\ <<h>>[1] = h
  BY <1>2
<1>7. /\ nt \in Seq(Custody!Writes) /\ Len(nt) = Len(v13[a]) /\ nt[1] = h
      /\ \A i \in 1 .. Len(v13[a]) : i # 1 => nt[i] = v13[a][i]
  <2>1. nt \in Seq(Custody!Writes) /\ Len(nt) = Len(v13[a]) /\ nt[1] = h
    BY <1>5, <1>6
  <2>2. ASSUME NEW i \in 1 .. Len(v13[a]), i # 1
        PROVE  nt[i] = v13[a][i]
    <3>1. i - 1 \in 1 .. Len(v13[a]) - 1 /\ i - 1 + 1 = i
      BY <1>5, <2>2
    <3>2. nt[i] = Tail(v13[a])[i - 1]
      BY <1>5, <1>6, <2>2
    <3> QED
      BY <1>5, <3>1, <3>2
  <2> QED
    BY <2>1, <2>2
<1> HIDE DEF nt
<1>8. /\ v13' \in [Custody!Actors -> Seq(Custody!Writes)] /\ v13'[a] = nt
      /\ \A b \in Custody!Actors \ {a} : v13'[b] = v13[b]
  BY <1>4, <1>7, TodoTyped
<1> QED
  BY <1>5, <1>7, <1>8 DEF h

\* So the tool's later writes find it put away as before.
LEMMA StoresForTheTool ==
  ASSUME Custody!Types, Custody!ToolInv, NEW t, t = v13["tool"], NEW t2, t2 = v13'["tool"],
         Len(t) \in Nat, Len(t2) = Len(t), t2[1].to = "index", t[1].to = "retire",
         t2[1].key = t[1].key, \A i \in 1 .. Len(t) : i # 1 => t2[i] = t[i],
         v12'["tool"].key = v12["tool"].key, v12'["tool"].seen = v12["tool"].seen,
         UNCHANGED <<v5, v6, v9, v17>>, Custody!Safe \subseteq Custody!Safe',
         NEW i \in 1 .. Len(t)
  PROVE  Custody!WriteInv(i)'
<1>1. /\ \A j \in 1 .. Len(t) : t2[j].key = t[j].key
      /\ \A j \in 1 .. Len(t) : t2[j] = t[j] \/ (t2[j].to = "index" /\ t[j].to = "retire")
  OBVIOUS
<1> DEFINE w == t2[i]
<1>2. ASSUME NEW k, NEW tos, Custody!Before(i, k, tos), "retire" \in tos => "index" \in tos
      PROVE  Custody!Before(i, k, tos)'
  <2>1. PICK j \in 1 .. i - 1 : t[j].to \in tos /\ t[j].key = k
    BY <1>2 DEF Custody!Before
  <2>2. j \in 1 .. Len(t)
    OBVIOUS
  <2>3. t2[j].to \in tos /\ t2[j].key = k
    BY <1>1, <1>2, <2>1, <2>2
  <2> QED
    BY <2>3 DEF Custody!Before
<1>3. ASSUME NEW k, Custody!SeenIsPutAway(i, k)
      PROVE  Custody!SeenIsPutAway(i, k)'
  <2>1. k \in CustodyKeys /\ k # t[i].key =>
          Custody!Indexed(k) \/ k \in v17 \/ Custody!Before(i, k, Custody!PutsAway)
    BY <1>3 DEF Custody!SeenIsPutAway
  <2>2. Custody!Before(i, k, Custody!PutsAway) => Custody!Before(i, k, Custody!PutsAway)'
    BY <1>2 DEF Custody!PutsAway
  <2>3. Custody!Indexed(k)' <=> Custody!Indexed(k)
    BY DEF Custody!Indexed
  <2>4. t2[i].key = t[i].key
    BY <1>1
  <2> QED
    BY <2>1, <2>2, <2>3, <2>4 DEF Custody!SeenIsPutAway
<1>4. Custody!WriteInv(i)
  BY DEF Custody!ToolInv
<1>5. CASE t2[i] = t[i]
  <2>1. /\ w.to = "keychain" => Custody!SeenIsPutAway(i, v12["tool"].key)
        /\ w.to = "file" => Custody!SeenIsPutAway(i, v12["tool"].seen)
        /\ w.to \in {"record", "data"} =>
             w.key \in Custody!Accounted
               \/ Custody!Before(i, w.key, Custody!PutsAway \cup Custody!Custodies)
        /\ w.to = "drop file" =>
             /\ v5 = w.key /\ i = Len(t)
             /\ \A j \in 1 .. i : t[j].to # "file"
        /\ w.to = "drop memory" => v6 \in {w.key, Custody!NoKey}
    <3>1. v13["tool"] = t /\ v13["tool"][i] = w
      BY <1>5
    <3> QED
      BY <1>4, <3>1, Zenon DEF Custody!WriteInv
  <2>2. v13["tool"]' = t2 /\ v13["tool"][i]' = w
    OBVIOUS
  <2> DEFINE z == v13["tool"][i]
  <2>a. (z.to = "keychain" => Custody!SeenIsPutAway(i, v12["tool"].key))'
    BY <1>3, <2>1, <2>2 DEF Custody!SeenIsPutAway
  <2>b. (z.to = "file" => Custody!SeenIsPutAway(i, v12["tool"].seen))'
    BY <1>3, <2>1, <2>2 DEF Custody!SeenIsPutAway
  <2>c. (z.to \in {"record", "data"} =>
          z.key \in Custody!Accounted
            \/ Custody!Before(i, z.key, Custody!PutsAway \cup Custody!Custodies))'
    <3>1. Custody!Before(i, w.key, Custody!PutsAway \cup Custody!Custodies) =>
            Custody!Before(i, w.key, Custody!PutsAway \cup Custody!Custodies)'
      BY <1>2 DEF Custody!PutsAway, Custody!Before
    <3>2. Custody!Accounted \subseteq Custody!Accounted'
      BY DEF Custody!Accounted
    <3> QED
      BY <2>1, <2>2, <3>1, <3>2 DEF Custody!Before
  <2>d. (z.to = "drop file" =>
          /\ v5 = z.key /\ i = Len(v13["tool"])
          /\ \A j \in 1 .. i : v13["tool"][j].to # "file")'
    <3>1. \A j \in 1 .. i : t[j].to # "file" => t2[j].to # "file"
      BY <1>1
    <3> QED
      BY <2>1, <2>2, <3>1
  <2>e. (z.to = "drop memory" => v6 \in {z.key, Custody!NoKey})'
    BY <2>1, <2>2
  <2> QED
    BY <2>a, <2>b, <2>c, <2>d, <2>e, Zenon DEF Custody!WriteInv
<1>6. CASE t2[i].to = "index"
  <2>1. v13["tool"][i]'.to = "index"
    BY <1>6
  <2> QED
    BY <2>1 DEF Custody!WriteInv
<1> QED
  BY <1>1, <1>5, <1>6

LEMMA StoresKeeps ==
  ASSUME Custody!KeyCustodyAssumption, Custody!CustodyInv, NEW a \in Custody!Actors,
         v11[a] = "write", v13[a] # <<>>, NEW w, w = Head(v13[a]), w.to = "retire",
         UNCHANGED <<v1, v2, v3, v4, v5, v6, v9, v10, v11, v14, v15, v16, v17, v18>>,
         Stores(a, w)
  PROVE  Custody!CustodyInv'
<1>1. Custody!Types /\ Custody!ToolInv /\ \A e \in v9 : Custody!Kept(e)
  BY DEF Custody!CustodyInv
<1>2. /\ w \in Custody!Writes /\ w.key \in CustodyKeys /\ w.custody \in Custody!Custodies
      /\ v7 \subseteq v7' /\ v7' \in SUBSET CustodyKeys
      /\ v8 \subseteq v8' /\ v8' \in SUBSET CustodyKeys
      /\ w.key \in IF w.custody = "file" THEN v8' ELSE v7'
      /\ v12' \in [Custody!Actors -> Holds] /\ v12'[a].index = v9
      /\ v12'[a].key = v12[a].key /\ v12'[a].seen = v12[a].seen
      /\ \A b \in Custody!Actors \ {a} : v12'[b] = v12[b]
  BY <1>1, StoresAre
<1>3. /\ v13' \in [Custody!Actors -> Seq(Custody!Writes)]
      /\ Len(v13'[a]) = Len(v13[a]) /\ Len(v13[a]) \in Nat
      /\ v13[a][1] = w
      /\ v13'[a][1] = [to |-> "index", key |-> w.key, custody |-> w.custody]
      /\ \A i \in 1 .. Len(v13[a]) : i # 1 => v13'[a][i] = v13[a][i]
      /\ \A b \in Custody!Actors \ {a} : v13'[b] = v13[b]
  BY <1>1, StoresTodo
<1>4. Custody!Types'
  BY <1>1, <1>2, <1>3 DEF Custody!Types, Holds
<1>5. \A e : Custody!Kept(e) => Custody!Kept(e)'
  BY <1>2 DEF Custody!Kept
<1>6. Custody!Safe \subseteq Custody!Safe'
  <2>1. \A k : k \in Custody!Stored => k \in Custody!Stored'
    BY <1>2, StoredIs
  <2> QED
    BY <2>1 DEF Custody!Safe
<1>7. Custody!Kept([kcv |-> w.key, custody |-> w.custody])'
  BY <1>2 DEF Custody!Kept
<1>8. Undisturbed(a)
  BY <1>1, <1>2, <1>3, <1>5, <1>6 DEF Undisturbed, Custody!Indexed
<1>9. Custody!VaultIsKept(a)
  BY <1>1, ActorsAre DEF Custody!CustodyInv, Custody!ProcessInv, Custody!ToolInv
<1>10. Custody!VaultIsKept(a)'
  <2>1. \A e \in v12'[a].index : Custody!Kept(e)'
    BY <1>1, <1>2, <1>5
  <2>2. ASSUME NEW i \in 1 .. Len(v13'[a]), v13'[a][i].to = "index"
        PROVE  Custody!Kept([kcv |-> v13[a][i].key, custody |-> v13[a][i].custody])'
    <3>1. CASE i = 1
      <4>1. v13'[a][i].key = w.key /\ v13'[a][i].custody = w.custody
        BY <1>3, <3>1
      <4> QED
        BY <1>7, <4>1
    <3>2. CASE i # 1
      <4>1. v13'[a][i] = v13[a][i] /\ i \in 1 .. Len(v13[a])
        BY <1>3, <3>2
      <4>2. Custody!Kept([kcv |-> v13[a][i].key, custody |-> v13[a][i].custody])
        BY <1>9, <2>2, <4>1 DEF Custody!VaultIsKept
      <4> QED
        BY <1>5, <4>1, <4>2
    <3> QED
      BY <3>1, <3>2
  <2> QED
    BY <2>1, <2>2 DEF Custody!VaultIsKept
<1>11. ASSUME a \in Procs
       PROVE  Custody!ProcessInv(a)'
  <2>1. Custody!ProcessInv(a)
    BY <1>11 DEF Custody!CustodyInv
  <2>2. Custody!Accounted \subseteq Custody!Accounted'
    BY <1>6 DEF Custody!Accounted
  <2>3. v12'[a].key \in Custody!Accounted'
    BY <1>2, <2>1, <2>2 DEF Custody!ProcessInv
  <2>4. ASSUME NEW i \in 1 .. Len(v13'[a])
        PROVE  /\ v13'[a][i].to \in {"retire", "index", "record"}
               /\ v13'[a][i].to = "record" => v13'[a][i].key \in Custody!Accounted'
    <3>1. CASE i = 1
      BY <1>3, <3>1
    <3>2. CASE i # 1
      <4>1. v13'[a][i] = v13[a][i] /\ i \in 1 .. Len(v13[a])
        BY <1>3, <3>2
      <4> QED
        BY <2>1, <2>2, <4>1 DEF Custody!ProcessInv
    <3> QED
      BY <3>1, <3>2
  <2> QED
    BY <1>10, <2>3, <2>4 DEF Custody!ProcessInv
<1>12. ASSUME a = "tool"
       PROVE  Custody!ToolInv'
  <2>1. PICK t : t = v13["tool"]
    OBVIOUS
  <2>2. PICK t2 : t2 = v13'["tool"]
    OBVIOUS
  <2>3. /\ Len(t) \in Nat /\ Len(t2) = Len(t) /\ t2[1].to = "index" /\ t[1].to = "retire"
        /\ t2[1].key = t[1].key /\ \A i \in 1 .. Len(t) : i # 1 => t2[i] = t[i]
        /\ v12'["tool"].key = v12["tool"].key /\ v12'["tool"].seen = v12["tool"].seen
    BY <1>2, <1>3, <1>12, <2>1, <2>2
  <2>4. \A i \in 1 .. Len(t) : Custody!WriteInv(i)'
    BY <1>1, <1>6, <2>1, <2>2, <2>3, StoresForTheTool
  <2> QED
    BY <1>10, <1>12, <2>2, <2>3, <2>4 DEF Custody!ToolInv
<1>13. Custody!UsedKeysAreKeptBut' /\ Custody!RecordNamesAStoredKey'
  BY <1>6, KeptOn
<1> QED
  BY <1>4, <1>8, <1>11, <1>12, <1>13, StepOf

LEMMA StoreRetiredKeeps ==
  ASSUME Custody!KeyCustodyAssumption, Custody!CustodyInv, NEW a \in Custody!Actors,
         Custody!StoreRetired(a)
  PROVE  Custody!CustodyInv'
<1>1. PICK w : w = Head(v13[a])
  OBVIOUS
<1>2. /\ v11[a] = "write" /\ v13[a] # <<>> /\ Head(v13[a]).to = "retire"
      /\ UNCHANGED <<v1, v2, v3, v4, v5, v6, v9, v10, v11, v14, v15, v16, v17, v18>>
      /\ Skips(a, Head(v13[a])) \/ Stores(a, w)
  BY <1>1, StoreRetiredIs
<1>3. CASE Skips(a, Head(v13[a]))
  BY <1>2, <1>3, SkipKeeps
<1>4. CASE Stores(a, w)
  BY <1>1, <1>2, <1>4, StoresKeeps
<1> QED
  BY <1>2, <1>3, <1>4

-----------------------------------------------------------------------------
\* What an actor's first write finds done before it.
WriteIsDue(a, w) ==
  /\ \A e \in v12[a].index : Custody!Kept(e)
  /\ w.to = "index" => Custody!Kept([kcv |-> w.key, custody |-> w.custody])
  /\ \A k \in CustodyKeys :
       (w.to = "keychain" /\ k = v12[a].key) \/ (w.to = "file" /\ k = v12[a].seen) =>
         k = w.key \/ Custody!Indexed(k) \/ k \in v17
  /\ w.to \in {"record", "data"} => w.key \in Custody!Accounted
  /\ w.to = "drop file" => v5 = w.key
  /\ w.to = "drop memory" => v6 \in {w.key, Custody!NoKey}
  /\ a # "tool" => w.to \in {"retire", "index", "record"}

LEMMA ToolsWriteIsDue ==
  ASSUME Custody!Types, Custody!ToolInv, v13["tool"] # <<>>, "tool" \in Custody!Actors,
         NEW w, w = Head(v13["tool"])
  PROVE  WriteIsDue("tool", w)
<1>1. 1 \in 1 .. Len(v13["tool"]) /\ w = v13["tool"][1]
  BY TodoIs
<1>2. Custody!WriteInv(1) /\ Custody!VaultIsKept("tool")
  BY <1>1 DEF Custody!ToolInv
<1>3. /\ w.to = "keychain" => Custody!SeenIsPutAway(1, v12["tool"].key)
      /\ w.to = "file" => Custody!SeenIsPutAway(1, v12["tool"].seen)
      /\ w.to \in {"record", "data"} =>
           w.key \in Custody!Accounted
             \/ Custody!Before(1, w.key, Custody!PutsAway \cup Custody!Custodies)
      /\ w.to = "drop file" =>
           /\ v5 = w.key /\ 1 = Len(v13["tool"])
           /\ \A j \in 1 .. 1 : v13["tool"][j].to # "file"
      /\ w.to = "drop memory" => v6 \in {w.key, Custody!NoKey}
  BY <1>1, <1>2, Zenon DEF Custody!WriteInv
<1>4. \A k, tos : ~Custody!Before(1, k, tos)
  BY DEF Custody!Before
<1>5. ASSUME NEW k \in CustodyKeys, Custody!SeenIsPutAway(1, k)
      PROVE  k = w.key \/ Custody!Indexed(k) \/ k \in v17
  BY <1>1, <1>4, <1>5 DEF Custody!SeenIsPutAway
<1>6. /\ \A e \in v12["tool"].index : Custody!Kept(e)
      /\ w.to = "index" => Custody!Kept([kcv |-> w.key, custody |-> w.custody])
  BY <1>1, <1>2 DEF Custody!VaultIsKept
<1> QED
  BY <1>3, <1>4, <1>5, <1>6 DEF WriteIsDue

LEMMA ProcessesWriteIsDue ==
  ASSUME Custody!Types, NEW p \in Procs, Custody!ProcessInv(p), v13[p] # <<>>,
         p \in Custody!Actors, NEW w, w = Head(v13[p])
  PROVE  WriteIsDue(p, w)
<1>1. 1 \in 1 .. Len(v13[p]) /\ w = v13[p][1]
  BY TodoIs
<1>2. Custody!VaultIsKept(p)
  BY DEF Custody!ProcessInv
<1>3. w.to \in {"retire", "index", "record"} /\ (w.to = "record" => w.key \in Custody!Accounted)
  BY <1>1 DEF Custody!ProcessInv
<1>4. /\ \A e \in v12[p].index : Custody!Kept(e)
      /\ w.to = "index" => Custody!Kept([kcv |-> w.key, custody |-> w.custody])
  BY <1>1, <1>2 DEF Custody!VaultIsKept
<1> QED
  BY <1>3, <1>4 DEF WriteIsDue

\* One write, as Perform says it.
Performed(a, w) ==
  /\ v9' = IF w.to = "index"
           THEN v12[a].index \cup {[kcv |-> w.key, custody |-> w.custody]} ELSE v9
  /\ v2' = IF w.to = "keychain" THEN w.key ELSE v2
  /\ w.to = "file" => v5' = w.key
  /\ w.to # "file" => v5' = v5 \/ (v5' = Custody!NoKey /\ w.to = "drop file" /\ w.key \in Custody!Loaded)
  /\ v6' = v6 \/ (v6' = Custody!NoKey /\ w.to = "drop memory" /\ w.key \in Custody!Loaded)
  /\ v10' = IF w.to = "record" THEN w.key ELSE v10
  /\ v14' = [v14 EXCEPT !["core"] = @ \cup {k \in {w.key} : w.to = "data"}]
  /\ v15' = v15 \ {k \in {w.key} : w.to \in Custody!Custodies}

LEMMA WriteIs ==
  ASSUME NEW a, Custody!Write(a), NEW w, w = Head(v13[a])
  PROVE  /\ v11[a] = "write" /\ v13[a] # <<>> /\ w.to # "retire"
         /\ Performed(a, w)
         /\ v17' = v17 \cup Custody!Replaces(a)
         /\ v12' = [v12 EXCEPT ![a].index = {}]
         /\ v13' = [v13 EXCEPT ![a] = Tail(@)]
         /\ UNCHANGED <<v1, v3, v4, v7, v8, v11, v16, v18>>
<1>1. /\ v11[a] = "write" /\ v13[a] # <<>> /\ w.to # "retire"
      /\ v17' = v17 \cup Custody!Replaces(a)
      /\ v12' = [v12 EXCEPT ![a].index = {}]
      /\ v13' = [v13 EXCEPT ![a] = Tail(@)]
      /\ UNCHANGED <<v1, v3, v4, v7, v8, v11, v16, v18>>
  BY DEF Custody!Write, Custody!setting
<1>2. Custody!Perform(a, w)
  BY DEF Custody!Write
<1>3. /\ v9' = IF w.to = "index"
               THEN v12[a].index \cup {[kcv |-> w.key, custody |-> w.custody]} ELSE v9
      /\ v2' = IF w.to = "keychain" THEN w.key ELSE v2
      /\ v10' = IF w.to = "record" THEN w.key ELSE v10
      /\ v14' = [v14 EXCEPT !["core"] = @ \cup {k \in {w.key} : w.to = "data"}]
      /\ v15' = v15 \ {k \in {w.key} : w.to \in Custody!Custodies}
  BY <1>2, Zenon DEF Custody!Perform
<1>4. v6' = IF w.to = "drop memory" /\ w.key \in Custody!Loaded THEN Custody!NoKey ELSE v6
  BY <1>2, Zenon DEF Custody!Perform
<1>5. v5' = CASE w.to = "file" -> w.key
              [] w.to = "drop file" /\ w.key \in Custody!Loaded -> Custody!NoKey
              [] OTHER -> v5
  BY <1>2, Zenon DEF Custody!Perform
<1>6. /\ w.to = "file" => v5' = w.key
      /\ w.to # "file" =>
           v5' = v5 \/ (v5' = Custody!NoKey /\ w.to = "drop file" /\ w.key \in Custody!Loaded)
  BY <1>5
<1>7. v6' = v6 \/ (v6' = Custody!NoKey /\ w.to = "drop memory" /\ w.key \in Custody!Loaded)
  BY <1>4
<1> QED
  BY <1>1, <1>3, <1>6, <1>7, Zenon DEF Performed

\* What the write puts into the index is kept, and what it takes out is raced.
LEMMA WriteKeepsTheIndex ==
  ASSUME Custody!Types, \A e \in v9 : Custody!Kept(e), NEW a, NEW w,
         WriteIsDue(a, w), Performed(a, w), v17' = v17 \cup Custody!Replaces(a),
         UNCHANGED <<v7, v8, v16>>
  PROVE  /\ \A e : Custody!Kept(e)' <=> Custody!Kept(e)
         /\ \A e \in v9' : Custody!Kept(e)'
         /\ \A k : Custody!Indexed(k) => Custody!Indexed(k)' \/ k \in v17'
         /\ w.to = "index" => Custody!Indexed(w.key)'
         /\ w.to # "index" => v9' = v9
<1>1. \A e : Custody!Kept(e)' <=> Custody!Kept(e)
  BY DEF Custody!Kept
<1>2. v9' = IF w.to = "index"
            THEN v12[a].index \cup {[kcv |-> w.key, custody |-> w.custody]} ELSE v9
  BY DEF Performed
<1>3. \A e \in v9' : Custody!Kept(e)'
  <2>1. /\ \A e \in v12[a].index : Custody!Kept(e)
        /\ w.to = "index" => Custody!Kept([kcv |-> w.key, custody |-> w.custody])
    BY DEF WriteIsDue
  <2> QED
    BY <1>1, <1>2, <2>1
<1>4. \A k : Custody!Indexed(k) => Custody!Indexed(k)' \/ k \in v17'
  BY DEF Custody!Indexed, Custody!Replaces
<1>5. w.to = "index" => Custody!Indexed(w.key)'
  <2>1. SUFFICES ASSUME w.to = "index"
                 PROVE  \E e \in v9' : e.kcv = w.key
    BY DEF Custody!Indexed
  <2>2. PICK e : e = [kcv |-> w.key, custody |-> w.custody]
    OBVIOUS
  <2>3. e \in v9' /\ e.kcv = w.key
    BY <1>2, <2>1, <2>2
  <2> QED
    BY <2>3
<1> QED
  BY <1>1, <1>2, <1>3, <1>4, <1>5

\* What a slot loses is in the index, or raced.
LEMMA WriteKeepsTheSlots ==
  ASSUME Custody!KeyCustodyAssumption, Custody!Types, \A e \in v9 : Custody!Kept(e), NEW a, NEW w,
         WriteIsDue(a, w), Performed(a, w), v17' = v17 \cup Custody!Replaces(a),
         UNCHANGED <<v7, v8, v16>>, NEW k \in CustodyKeys, k \in {v2, v5, v6}
  PROVE  k \in Custody!Safe'
<1>1. /\ \A e \in v9' : Custody!Kept(e)'
      /\ \A x : Custody!Indexed(x) => Custody!Indexed(x)' \/ x \in v17'
      /\ w.to # "index" => v9' = v9
  BY WriteKeepsTheIndex
<1>2. \A x : Custody!Indexed(x) => x \in Custody!Safe'
  <2>1. \A x : x \in v17' => x \in Custody!Safe'
    BY DEF Custody!Safe
  <2> QED
    BY <1>1, <2>1, IndexedWillBeSafe
<1>3. k \in {v2', v5', v6'} => k \in Custody!Safe'
  BY StoredIs DEF Custody!Safe
<1>4. v17' \subseteq Custody!Safe' /\ v17 \subseteq v17'
  BY DEF Custody!Safe
<1>5. ASSUME NEW x \in CustodyKeys, x \in Custody!Loaded
      PROVE  x \in Custody!Safe'
  <2>1. Custody!Indexed(x)
    BY <1>5 DEF Custody!Loaded, Custody!Indexed
  <2> QED
    BY <1>2, <2>1
<1>6. CASE k = v2 /\ v2' # k
  <2>1. w.to = "keychain" /\ v2' = w.key
    BY <1>6 DEF Performed
  <2>2. k \in v17' \/ k = v12[a].key
    BY <1>6 DEF Custody!Replaces, Custody!Held
  <2>3. CASE k = v12[a].key
    <3>1. Custody!Indexed(k) \/ k \in v17
      BY <1>6, <2>1, <2>3 DEF WriteIsDue
    <3> QED
      BY <1>2, <1>4, <3>1
  <2> QED
    BY <1>4, <2>2, <2>3
<1>7. CASE k = v5 /\ v5' # k
  <2>1. CASE w.to = "file"
    <3>1. v5' = w.key
      BY <2>1 DEF Performed
    <3>2. k \in v17' \/ k = v12[a].seen
      BY <1>7 DEF Custody!Replaces, Custody!Held
    <3>3. CASE k = v12[a].seen
      <4>1. Custody!Indexed(k) \/ k \in v17
        BY <1>7, <2>1, <3>1, <3>3 DEF WriteIsDue
      <4> QED
        BY <1>2, <1>4, <4>1
    <3> QED
      BY <1>4, <3>2, <3>3
  <2>2. CASE w.to # "file"
    <3>1. w.to = "drop file" /\ w.key \in Custody!Loaded
      BY <1>7, <2>2 DEF Performed
    <3>2. w.key = k
      BY <1>7, <3>1 DEF WriteIsDue
    <3> QED
      BY <1>5, <3>1, <3>2
  <2> QED
    BY <2>1, <2>2
<1>8. CASE k = v6 /\ v6' # k
  <2>1. w.to = "drop memory" /\ w.key \in Custody!Loaded
    BY <1>8 DEF Performed
  <2>2. w.key = k
    BY <1>8, <2>1 DEF WriteIsDue, Custody!KeyCustodyAssumption
  <2> QED
    BY <1>5, <2>1, <2>2
<1> QED
  BY <1>3, <1>6, <1>7, <1>8

\* No write costs a key.
LEMMA WriteIsSafe ==
  ASSUME Custody!KeyCustodyAssumption, Custody!Types, \A e \in v9 : Custody!Kept(e), NEW a, NEW w,
         w.key \in CustodyKeys,
         WriteIsDue(a, w), Performed(a, w), v17' = v17 \cup Custody!Replaces(a),
         UNCHANGED <<v7, v8, v16>>
  PROVE  /\ Custody!Safe \subseteq Custody!Safe'
         /\ w.to \in Custody!PutsAway \cup Custody!Custodies /\ w.to # "retire" =>
              w.key \in Custody!Safe'
<1>1. /\ \A e \in v9' : Custody!Kept(e)'
      /\ \A x : Custody!Indexed(x) => Custody!Indexed(x)' \/ x \in v17'
      /\ w.to = "index" => Custody!Indexed(w.key)'
  BY WriteKeepsTheIndex
<1>2. w.to \in Custody!Custodies => w.key \in Custody!Safe'
  <2>1. w.to = "keychain" => v2' = w.key
    BY DEF Performed
  <2>2. w.to = "file" => v5' = w.key
    BY DEF Performed
  <2> QED
    BY <2>1, <2>2, StoredIs DEF Custody!Safe, Custody!Custodies
<1>3. w.to = "index" => w.key \in Custody!Safe'
  BY <1>1, IndexedWillBeSafe
<1>4. ASSUME NEW k \in Custody!Safe
      PROVE  k \in Custody!Safe'
  <2>1. CASE k \in v15
    <3>1. v15' = v15 \ {x \in {w.key} : w.to \in Custody!Custodies}
      BY DEF Performed
    <3>2. k \in v15' \/ (k = w.key /\ w.to \in Custody!Custodies)
      BY <2>1, <3>1
    <3> QED
      BY <1>2, <3>2 DEF Custody!Safe
  <2>2. CASE k \in v16 \cup v17
    BY <2>2 DEF Custody!Safe
  <2>3. CASE k \in Custody!Stored
    <3>1. CASE k \in CustodyKeys /\ k \in {v2, v5, v6}
      BY <3>1, WriteKeepsTheSlots
    <3>2. CASE Custody!Indexed(k)
      <4>1. Custody!Indexed(k)' \/ k \in v17'
        BY <1>1, <3>2
      <4> QED
        BY <1>1, <4>1, IndexedWillBeSafe DEF Custody!Safe
    <3> QED
      BY <2>3, <3>1, <3>2, StoredIs DEF Custody!Indexed
  <2> QED
    BY <2>1, <2>2, <2>3 DEF Custody!Safe
<1> QED
  BY <1>2, <1>3, <1>4 DEF Custody!PutsAway

LEMMA WriteTyped ==
  ASSUME Custody!KeyCustodyAssumption, Custody!Types, NEW a \in Custody!Actors, v13[a] # <<>>,
         NEW w, w = Head(v13[a]), Performed(a, w),
         v17' = v17 \cup Custody!Replaces(a),
         v12' = [v12 EXCEPT ![a].index = {}], v13' = [v13 EXCEPT ![a] = Tail(@)],
         UNCHANGED <<v1, v3, v4, v7, v8, v11, v16, v18>>
  PROVE  /\ Custody!Types'
         /\ v12'[a].index = {} /\ v12'[a].key = v12[a].key /\ v12'[a].seen = v12[a].seen
         /\ v13'[a] = Tail(v13[a])
         /\ \A b \in Custody!Actors \ {a} :
              v11'[b] = v11[b] /\ v12'[b] = v12[b] /\ v13'[b] = v13[b]
         /\ v14'["core"] \subseteq v14["core"] \cup {w.key}
         /\ w.to # "data" => v14'["core"] = v14["core"]
<1>1. w.key \in CustodyKeys /\ w.custody \in Custody!Custodies /\ w.key \in Custody!Slot
      /\ Custody!NoKey \in Custody!Slot /\ Tail(v13[a]) \in Seq(Custody!Writes)
  BY TodoIs DEF Custody!Slot
<1>2. v12 \in [Custody!Actors -> Holds]
  BY HoldsAre
<1>3. /\ v12' \in [Custody!Actors -> Holds]
      /\ v12'[a].index = {} /\ v12'[a].key = v12[a].key /\ v12'[a].seen = v12[a].seen
      /\ \A b \in Custody!Actors \ {a} : v12'[b] = v12[b]
  BY <1>2 DEF Holds
<1>4. v12[a].index \in SUBSET Custody!Entries
  BY <1>2 DEF Holds
<1>5. v9' \in SUBSET Custody!Entries
  <2>1. [kcv |-> w.key, custody |-> w.custody] \in Custody!Entries
    BY <1>1 DEF Custody!Entries
  <2> QED
    BY <1>4, <2>1 DEF Performed, Custody!Types
<1>6. v2' \in Custody!Slot /\ v5' \in Custody!Slot /\ v6' \in Custody!Slot /\ v10' \in Custody!Slot
  BY <1>1 DEF Performed, Custody!Types
<1>7. /\ v14' \in [Procs -> SUBSET CustodyKeys]
      /\ v14'["core"] \subseteq v14["core"] \cup {w.key}
      /\ w.to # "data" => v14'["core"] = v14["core"]
  <2>1. v14 \in [Procs -> SUBSET CustodyKeys] /\ "core" \in Procs
    BY DEF Custody!Types, Custody!KeyCustodyAssumption
  <2>2. v14' = [v14 EXCEPT !["core"] = @ \cup {k \in {w.key} : w.to = "data"}]
    BY DEF Performed
  <2> QED
    BY <1>1, <2>1, <2>2
<1>8. v15' \in SUBSET CustodyKeys
  BY DEF Performed, Custody!Types
<1>9. v17' \in SUBSET CustodyKeys
  BY DEF Custody!Replaces, Custody!Types, Custody!Held, Custody!Entries
<1>10. /\ v13' \in [Custody!Actors -> Seq(Custody!Writes)] /\ v13'[a] = Tail(v13[a])
       /\ \A b \in Custody!Actors \ {a} : v13'[b] = v13[b]
  BY <1>1, TodoTyped
<1>11. Custody!Types'
  BY <1>3, <1>5, <1>6, <1>7, <1>8, <1>9, <1>10 DEF Custody!Types, Holds
<1> QED
  BY <1>3, <1>7, <1>10, <1>11

LEMMA WriteKeeps ==
  ASSUME Custody!KeyCustodyAssumption, Custody!CustodyInv, NEW a \in Custody!Actors,
         Custody!Write(a)
  PROVE  Custody!CustodyInv'
<1>1. PICK w : w = Head(v13[a])
  OBVIOUS
<1>2. /\ v11[a] = "write" /\ v13[a] # <<>> /\ w.to # "retire"
      /\ Performed(a, w)
      /\ v17' = v17 \cup Custody!Replaces(a)
      /\ v12' = [v12 EXCEPT ![a].index = {}]
      /\ v13' = [v13 EXCEPT ![a] = Tail(@)]
      /\ UNCHANGED <<v1, v3, v4, v7, v8, v11, v16, v18>>
  BY <1>1, WriteIs
<1>3. Custody!Types /\ Custody!ToolInv /\ \A e \in v9 : Custody!Kept(e)
  BY DEF Custody!CustodyInv
<1>4. w.key \in CustodyKeys
  BY <1>1, <1>2, <1>3, TodoIs
<1>5. /\ Custody!Types'
      /\ v12'[a].index = {} /\ v12'[a].key = v12[a].key /\ v12'[a].seen = v12[a].seen
      /\ v13'[a] = Tail(v13[a])
      /\ \A b \in Custody!Actors \ {a} :
           v11'[b] = v11[b] /\ v12'[b] = v12[b] /\ v13'[b] = v13[b]
      /\ v14'["core"] \subseteq v14["core"] \cup {w.key}
      /\ w.to # "data" => v14'["core"] = v14["core"]
  BY <1>1, <1>2, <1>3, WriteTyped
<1>6. WriteIsDue(a, w)
  <2>1. CASE a \in Procs
    BY <1>1, <1>2, <1>3, <2>1, ProcessesWriteIsDue DEF Custody!CustodyInv
  <2>2. CASE a = "tool"
    BY <1>1, <1>2, <1>3, <2>2, ToolsWriteIsDue
  <2> QED
    BY <2>1, <2>2, ActorsAre
<1>7. /\ \A e : Custody!Kept(e)' <=> Custody!Kept(e)
      /\ \A e \in v9' : Custody!Kept(e)'
      /\ \A k : Custody!Indexed(k) => Custody!Indexed(k)' \/ k \in v17'
      /\ w.to = "index" => Custody!Indexed(w.key)'
  BY <1>2, <1>3, <1>6, WriteKeepsTheIndex
<1>8. /\ Custody!Safe \subseteq Custody!Safe'
      /\ w.to \in Custody!PutsAway \cup Custody!Custodies /\ w.to # "retire" =>
           w.key \in Custody!Safe'
  BY <1>2, <1>3, <1>4, <1>6, WriteIsSafe
<1>9. Custody!Accounted \subseteq Custody!Accounted'
  BY <1>8 DEF Custody!Accounted
<1>10. v17 \subseteq v17'
  BY <1>2
<1>11. /\ w.to \notin {"file", "drop file"} => v5' = v5
       /\ v6' \in {v6, Custody!NoKey}
  BY <1>2 DEF Performed
<1>12. a # "tool" => v5' = v5
  BY <1>6, <1>11 DEF WriteIsDue
<1>13. Undisturbed(a)
  BY <1>5, <1>7, <1>8, <1>10, <1>11, <1>12 DEF Undisturbed
<1>14. ASSUME a \in Procs
       PROVE  Custody!ProcessInv(a)'
  <2>1. Custody!ProcessInv(a)
    BY <1>14 DEF Custody!CustodyInv
  <2>2. /\ v11'[a] = v11[a] /\ \A e \in v12'[a].index : Custody!Kept(e)'
        /\ \A e : Custody!Kept(e) => Custody!Kept(e)'
    BY <1>2, <1>5, <1>7
  <2> QED
    BY <1>2, <1>3, <1>5, <1>8, <1>14, <2>1, <2>2, ProcessAdvances
<1>15. ASSUME a = "tool"
       PROVE  Custody!ToolInv'
  <2>1. HeadIsDone(w)
    BY <1>2, <1>7, <1>8, <1>11 DEF HeadIsDone, Custody!PutsAway
  <2>2. /\ v11'["tool"] = v11["tool"] /\ \A e \in v12'["tool"].index : Custody!Kept(e)'
        /\ \A e : Custody!Kept(e) => Custody!Kept(e)'
    BY <1>2, <1>5, <1>7, <1>15
  <2> QED
    BY <1>1, <1>2, <1>3, <1>5, <1>7, <1>8, <1>10, <1>15, <2>1, <2>2, ToolGoesOn
<1>16. Custody!UsedKeysAreKeptBut' /\ Custody!RecordNamesAStoredKey'
  <2>1. v10' \in {v10, Custody!NoKey} \cup Custody!Accounted'
    <3>1. v10' = IF w.to = "record" THEN w.key ELSE v10
      BY <1>2 DEF Performed
    <3>2. w.to = "record" => w.key \in Custody!Accounted'
      BY <1>6, <1>9 DEF WriteIsDue
    <3> QED
      BY <3>1, <3>2
  <2>2. v14'["core"] \subseteq v14["core"] \cup Custody!Accounted'
    <3>1. w.to = "data" => w.key \in Custody!Accounted'
      BY <1>6, <1>9 DEF WriteIsDue
    <3> QED
      BY <1>5, <3>1
  <2> QED
    BY <1>8, <2>1, <2>2, KeptOn
<1> QED
  BY <1>5, <1>13, <1>14, <1>15, <1>16, StepOf

-----------------------------------------------------------------------------
\* An actor is done, or stops.
LEMMA RestTyped ==
  ASSUME Custody!Types, NEW a \in Custody!Actors, NEW place \in Custody!Places,
         Custody!Go(a, place), v13' = [v13 EXCEPT ![a] = <<>>],
         v12' = v12 \/ v12' = [v12 EXCEPT ![a] = Custody!Nothing],
         UNCHANGED <<v1, v2, v3, v4, v5, v6, v7, v8, v9, v10, v14, v15, v16, v17, v18>>
  PROVE  /\ Custody!Types'
         /\ v11'[a] = place /\ v13'[a] = <<>>
         /\ v12'[a] = v12[a] \/ v12'[a].index = {}
         /\ \A b \in Custody!Actors \ {a} :
              v11'[b] = v11[b] /\ v12'[b] = v12[b] /\ v13'[b] = v13[b]
<1>1. /\ v11' \in [Custody!Actors -> Custody!Places] /\ v11'[a] = place
      /\ \A b \in Custody!Actors \ {a} : v11'[b] = v11[b]
  BY GoTyped
<1>2. <<>> \in Seq(Custody!Writes)
  OBVIOUS
<1>3. /\ v13' \in [Custody!Actors -> Seq(Custody!Writes)] /\ v13'[a] = <<>>
      /\ \A b \in Custody!Actors \ {a} : v13'[b] = v13[b]
  BY <1>2, TodoTyped
<1>4. Custody!Nothing \in Holds /\ Custody!Nothing.index = {}
  BY DEF Custody!Nothing, Custody!Resolution, Holds, Custody!Slot
<1>5. v12 \in [Custody!Actors -> Holds]
  BY HoldsAre
<1>6. /\ v12' \in [Custody!Actors -> Holds]
      /\ v12'[a] = v12[a] \/ v12'[a].index = {}
      /\ \A b \in Custody!Actors \ {a} : v12'[b] = v12[b]
  <2>1. CASE v12' = v12
    BY <1>5, <2>1
  <2>2. CASE v12' = [v12 EXCEPT ![a] = Custody!Nothing]
    BY <1>4, <1>5, <2>2
  <2> QED
    BY <2>1, <2>2
<1>7. Custody!Types'
  BY <1>1, <1>3, <1>6 DEF Custody!Types, Holds
<1> QED
  BY <1>1, <1>3, <1>6, <1>7

LEMMA RestKeeps ==
  ASSUME Custody!KeyCustodyAssumption, Custody!CustodyInv, NEW a \in Custody!Actors,
         NEW place \in {"down", "up"}, Custody!Go(a, place), v13' = [v13 EXCEPT ![a] = <<>>],
         v12' = v12 \/ v12' = [v12 EXCEPT ![a] = Custody!Nothing],
         place = "up" => v12' = v12 /\ v11[a] = "write",
         UNCHANGED <<v1, v2, v3, v4, v5, v6, v7, v8, v9, v10, v14, v15, v16, v17, v18>>
  PROVE  Custody!CustodyInv'
<1>1. Custody!Types /\ place \in Custody!Places
  BY DEF Custody!CustodyInv, Custody!Places
<1>2. /\ Custody!Types'
      /\ v11'[a] = place /\ v13'[a] = <<>>
      /\ v12'[a] = v12[a] \/ v12'[a].index = {}
      /\ \A b \in Custody!Actors \ {a} :
           v11'[b] = v11[b] /\ v12'[b] = v12[b] /\ v13'[b] = v13[b]
  BY <1>1, RestTyped
<1>3. /\ Custody!Safe' = Custody!Safe /\ Custody!Accounted' = Custody!Accounted
      /\ \A e : Custody!Kept(e)' <=> Custody!Kept(e)
  BY Quiet
<1>4. Undisturbed(a)
  BY <1>2, Unmoved
<1>5. \A e \in v12'[a].index : Custody!Kept(e)'
  BY <1>2, <1>3, ActorsAre DEF Custody!CustodyInv, Custody!ProcessInv, Custody!ToolInv,
    Custody!VaultIsKept
<1>6. ASSUME a \in Procs
      PROVE  Custody!ProcessInv(a)'
  <2>1. place = "up" => v12'[a].key \in Custody!Accounted'
    BY <1>3, <1>6 DEF Custody!CustodyInv, Custody!ProcessInv
  <2> QED
    BY <1>2, <1>5, <1>6, <2>1, ProcessWithoutWrites
<1>7. ASSUME a = "tool"
      PROVE  Custody!ToolInv'
  <2>1. v13'["tool"] = <<>> /\ \A e \in v12'["tool"].index : Custody!Kept(e)'
    BY <1>2, <1>5, <1>7
  <2> QED
    BY <2>1 DEF Custody!ToolInv, Custody!VaultIsKept
<1>8. Custody!UsedKeysAreKeptBut' /\ Custody!RecordNamesAStoredKey'
  BY <1>3, KeptOn
<1> QED
  BY <1>2, <1>4, <1>6, <1>7, <1>8, StepOf

LEMMA WrittenKeeps ==
  ASSUME Custody!KeyCustodyAssumption, Custody!CustodyInv, NEW a \in Custody!Actors,
         Custody!Written(a)
  PROVE  Custody!CustodyInv'
<1>1. PICK place \in {"down", "up"} : Custody!Go(a, place)
  BY DEF Custody!Written
<1>2. /\ v11[a] = "write" /\ v13[a] = <<>>
      /\ UNCHANGED <<v1, v2, v3, v4, v5, v6, v7, v8, v9, v10, v12, v13, v14, v15, v16, v17, v18>>
  BY DEF Custody!Written, Custody!slots, Custody!vault, Custody!setting, Custody!ghosts,
    Custody!losses
<1>3. v13' = [v13 EXCEPT ![a] = <<>>]
  BY <1>2 DEF Custody!CustodyInv, Custody!Types
<1> QED
  BY <1>1, <1>2, <1>3, RestKeeps

LEMMA StopKeeps ==
  ASSUME Custody!KeyCustodyAssumption, Custody!CustodyInv, NEW a \in Custody!Actors,
         Custody!Stop(a)
  PROVE  Custody!CustodyInv'
<1>1. /\ Custody!Go(a, "down") /\ v12' = [v12 EXCEPT ![a] = Custody!Nothing]
      /\ v13' = [v13 EXCEPT ![a] = <<>>]
      /\ UNCHANGED <<v1, v2, v3, v4, v5, v6, v7, v8, v9, v10, v14, v15, v16, v17, v18>>
  BY DEF Custody!Stop, Custody!slots, Custody!vault, Custody!setting, Custody!ghosts,
    Custody!losses
<1> QED
  BY <1>1, RestKeeps

-----------------------------------------------------------------------------
\* The surroundings do nothing to what the actors are at.
LEMMA SurroundingsKeep ==
  ASSUME Custody!KeyCustodyAssumption, Custody!CustodyInv, Custody!Types',
         Custody!Safe \subseteq Custody!Safe', \A e : Custody!Kept(e) => Custody!Kept(e)',
         UNCHANGED <<v5, v6, v9, v10, v11, v12, v13, v14, v17>>
  PROVE  Custody!CustodyInv'
<1>1. \A p \in Procs : Custody!ProcessInv(p)'
  BY OtherProcessStays DEF Custody!CustodyInv
<1>2. Custody!ToolInv'
  <2>1. /\ \A k : Custody!Indexed(k) => Custody!Indexed(k)' \/ k \in v17'
        /\ v6' \in {v6, Custody!NoKey}
    BY DEF Custody!Indexed
  <2> QED
    BY <2>1, ToolStays DEF Custody!CustodyInv
<1>3. \A e \in v9' : Custody!Kept(e)'
  BY DEF Custody!CustodyInv
<1>4. Custody!UsedKeysAreKeptBut' /\ Custody!RecordNamesAStoredKey'
  BY KeptOn
<1> QED
  BY <1>1, <1>2, <1>3, <1>4 DEF Custody!CustodyInv

LEMMA KeychainLosesKeeps ==
  ASSUME Custody!KeyCustodyAssumption, Custody!CustodyInv, Custody!KeychainLoses
  PROVE  Custody!CustodyInv'
<1>1. /\ v2' \in {v2, Custody!NoKey} /\ v7' \in {v7, {}}
      /\ v15' = v15 \cup (Custody!Stored \ Custody!Stored') /\ v16' = v16 \cup (v7 \ v7')
      /\ UNCHANGED <<v1, v3, v4, v5, v6, v8, v9, v10, v11, v12, v13, v14, v17, v18>>
  BY DEF Custody!KeychainLoses, Custody!setting
<1>2. Custody!Types
  BY DEF Custody!CustodyInv
<1>3. Custody!Stored \subseteq CustodyKeys
  BY StoredIs, <1>2 DEF Custody!Types, Custody!Entries
<1>4. Custody!Types'
  BY <1>1, <1>2, <1>3 DEF Custody!Types, Custody!Slot
<1>5. Custody!Safe \subseteq Custody!Safe'
  BY <1>1 DEF Custody!Safe
<1>6. \A e : Custody!Kept(e) => Custody!Kept(e)'
  BY <1>1 DEF Custody!Kept
<1> QED
  BY <1>1, <1>4, <1>5, <1>6, SurroundingsKeep

\* SetEnv, Lock, and no step at all.
LEMMA NothingChanges ==
  ASSUME Custody!KeyCustodyAssumption, Custody!CustodyInv,
         v1' \in {Custody!NoKey, CustodyEnvKey}, v3' \in BOOLEAN,
         UNCHANGED <<v2, v4, v5, v6, v7, v8, v9, v10, v11, v12, v13, v14, v15, v16, v17, v18>>
  PROVE  Custody!CustodyInv'
<1>1. Custody!Types'
  BY DEF Custody!CustodyInv, Custody!Types
<1>2. Custody!Safe' = Custody!Safe /\ \A e : Custody!Kept(e)' <=> Custody!Kept(e)
  BY Quiet
<1> QED
  BY <1>1, <1>2, SurroundingsKeep

LEMMA CustodyStays ==
  ASSUME Custody!KeyCustodyAssumption, Custody!CustodyInv, [Custody!Next]_(Custody!vars)
  PROVE  Custody!CustodyInv'
<1>1. CASE \E p \in Procs : Custody!Resolve(p)
  BY <1>1, ResolveKeeps
<1>2. CASE Custody!Adopt
  BY <1>2, AdoptKeeps
<1>3. CASE Custody!RetireKey
  BY <1>3, RetireKeyKeeps
<1>4. CASE Custody!Import
  BY <1>4, ImportKeeps
<1>5. CASE \E a \in Custody!Actors : Custody!StoreRetired(a)
  BY <1>5, StoreRetiredKeeps
<1>6. CASE \E a \in Custody!Actors : Custody!Write(a)
  BY <1>6, WriteKeeps
<1>7. CASE \E a \in Custody!Actors : Custody!Written(a)
  BY <1>7, WrittenKeeps
<1>8. CASE \E a \in Custody!Actors : Custody!Stop(a)
  BY <1>8, StopKeeps
<1>9. CASE Custody!SetEnv
  <2>1. /\ v1' \in {Custody!NoKey, CustodyEnvKey} /\ v3' \in BOOLEAN
        /\ UNCHANGED <<v2, v4, v5, v6, v7, v8, v9, v10, v11, v12, v13, v14, v15, v16, v17, v18>>
    BY <1>9 DEF Custody!SetEnv, Custody!slots, Custody!vault, Custody!ghosts, Custody!losses,
      Custody!CustodyInv, Custody!Types
  <2> QED
    BY <2>1, NothingChanges
<1>10. CASE Custody!Lock
  <2>1. /\ v1' \in {Custody!NoKey, CustodyEnvKey} /\ v3' \in BOOLEAN
        /\ UNCHANGED <<v2, v4, v5, v6, v7, v8, v9, v10, v11, v12, v13, v14, v15, v16, v17, v18>>
    BY <1>10 DEF Custody!Lock, Custody!slots, Custody!vault, Custody!ghosts, Custody!losses,
      Custody!CustodyInv, Custody!Types
  <2> QED
    BY <2>1, NothingChanges
<1>11. CASE Custody!KeychainLoses
  BY <1>11, KeychainLosesKeeps
<1>12. CASE UNCHANGED Custody!vars
  <2>1. /\ v1' \in {Custody!NoKey, CustodyEnvKey} /\ v3' \in BOOLEAN
        /\ UNCHANGED <<v2, v4, v5, v6, v7, v8, v9, v10, v11, v12, v13, v14, v15, v16, v17, v18>>
    BY <1>12 DEF Custody!vars, Custody!slots, Custody!vault, Custody!setting, Custody!ghosts,
      Custody!losses, Custody!CustodyInv, Custody!Types
  <2> QED
    BY <2>1, NothingChanges
<1> QED
  BY <1>1, <1>2, <1>3, <1>4, <1>5, <1>6, <1>7, <1>8, <1>9, <1>10, <1>11, <1>12, Zenon
  DEF Custody!Next

LEMMA CustodyInit ==
  ASSUME Custody!KeyCustodyAssumption, Custody!Init
  PROVE  Custody!CustodyInv
<1>1. PICK f \in Folders :
        /\ v2 = f.keychain /\ v5 = f.file /\ v6 = f.memory
        /\ v14 = [p \in Procs |-> IF p = "core" THEN f.used ELSE {}]
  BY DEF Custody!Init
<1>2. /\ v1 \in {Custody!NoKey, CustodyEnvKey} /\ v3 \in BOOLEAN /\ v4 \in BOOLEAN
      /\ v7 = {} /\ v8 = {} /\ v9 = {} /\ v10 = Custody!NoKey
      /\ v11 = [a \in Custody!Actors |-> "down"]
      /\ v12 = [a \in Custody!Actors |-> Custody!Nothing]
      /\ v13 = [a \in Custody!Actors |-> <<>>]
      /\ v15 = {} /\ v16 = {} /\ v17 = {} /\ v18 = {}
  BY DEF Custody!Init
<1>3. /\ f \in [keychain : Custody!Slot, file : Custody!Slot, memory : Custody!Slot,
                used : SUBSET CustodyKeys]
      /\ f.used \subseteq {f.keychain, f.file, f.memory}
  BY DEF Custody!KeyCustodyAssumption
<1>4. v14 \in [Procs -> SUBSET CustodyKeys] /\ v14["core"] = f.used
  BY <1>1, <1>3 DEF Custody!KeyCustodyAssumption
<1>5. Custody!Nothing \in Holds /\ Custody!Nothing.index = {}
  BY DEF Custody!Nothing, Custody!Resolution, Holds, Custody!Slot
<1>6. v12 \in [Custody!Actors -> Holds] /\ \A a \in Custody!Actors : v12[a].index = {}
  BY <1>2, <1>5
<1>7. /\ v13 \in [Custody!Actors -> Seq(Custody!Writes)]
      /\ \A a \in Custody!Actors : v13[a] = <<>> /\ v11[a] = "down"
  BY <1>2
<1>8. Custody!Types
  BY <1>1, <1>2, <1>3, <1>4, <1>6, <1>7 DEF Custody!Types, Custody!Slot, Custody!Places, Holds
<1>9. \A p \in Procs : Custody!ProcessInv(p)
  BY <1>6, <1>7, ActorsAre DEF Custody!ProcessInv, Custody!VaultIsKept
<1>10. Custody!ToolInv
  BY <1>6, <1>7, ActorsAre DEF Custody!ToolInv, Custody!VaultIsKept
<1>11. Custody!UsedKeysAreKeptBut
  <2>1. \A k \in f.used : k \in Custody!Stored
    BY <1>1, <1>3, StoredIs
  <2> QED
    BY <1>4, <2>1 DEF Custody!UsedKeysAreKeptBut
<1>12. Custody!RecordNamesAStoredKey
  BY <1>2 DEF Custody!RecordNamesAStoredKey
<1> QED
  BY <1>2, <1>8, <1>9, <1>10, <1>11, <1>12 DEF Custody!CustodyInv

\* Keys that sealed data of Core are kept, but for the ways named, and the
\* record names a key that is: whatever the operators' commands, the processes
\* that resolve a key beside them, the crashes and the keychain do.
THEOREM CustodyCorrect == KeySpec => []MasterKeysAreKept
<1> DEFINE Inv == part = "custody" => Custody!CustodyInv
<1>1. KeyInit => Inv
  BY KeyPartsAssumption, KeyPartStarts, CustodyInit
<1>2. Inv /\ [KeyNext]_vars => Inv'
  BY KeyPartsAssumption, KeyPartMoves, CustodyStays
<1>3. Inv => MasterKeysAreKept
  BY DEF MasterKeysAreKept, Custody!CustodyInv
<1> HIDE DEF Inv
<1> QED
  BY <1>1, <1>2, <1>3, PTL DEF KeySpec

-----------------------------------------------------------------------------
(* What every part's variables are. Of the custody that is RoomInv         *)
(* (KeyCustody), and CustodyInv.                                           *)

\* What is stored and read of a value is what its types say.
LEMMA ValueTyped ==
  ASSUME Value!SealedValuesAssumption, Value!ValueInv, v5 <= MaxValueKey, v4 \in BOOLEAN
  PROVE  Value!TypeOK
<1>1. /\ v1 \in ValueStores /\ v5 \in Nat \ {0} /\ v6 \in [ValueProcs -> 0 .. v5]
      /\ \/ v3 \in Value!Readable /\ Value!Own(v2, v3)
         \/ v2 \in Value!Foreign(v1) /\ v3 = v2.text
      /\ v7 \in [ValueProcs -> {<<>>} \cup {<<t>> : t \in Value!Readable}]
  BY DEF Value!ValueInv
<1>2. MaxValueKey \in Nat
  BY DEF Value!SealedValuesAssumption
<1>3. v2.scheme \in Value!Envelopes \cup {"plain"} /\ v2.key \in 0 .. v5
  <2>1. CASE v2 = Value!Plain(v3)
    <3>1. v2.scheme = "plain" /\ v2.key = 0
      BY <2>1 DEF Value!Plain
    <3>2. v5 \in Nat
      BY <1>1
    <3> QED
      BY <3>1, <3>2
  <2>2. CASE v2 # Value!Plain(v3) /\ Value!Own(v2, v3)
    BY <1>1, <2>2, OwnSealed
  <2>3. CASE v2 \in Value!Foreign(v1)
    BY <1>1, <2>3, ForeignOpens
  <2>4. v2.key \in 1 .. v5 => v2.key \in 0 .. v5
    BY <1>1
  <2> QED
    BY <1>1, <2>1, <2>2, <2>3, <2>4
<1>4. \A p \in ValueProcs : Len(v7[p]) <= 1
  <2> SUFFICES ASSUME NEW p \in ValueProcs
               PROVE  Len(v7[p]) <= 1
    OBVIOUS
  <2>1. v7[p] \in {<<>>} \cup {<<t>> : t \in Value!Readable}
    BY <1>1
  <2>2. CASE v7[p] = <<>>
    BY <2>2
  <2>3. ASSUME NEW t, v7[p] = <<t>>
        PROVE  Len(v7[p]) <= 1
    BY <2>3
  <2> QED
    BY <2>1, <2>2, <2>3
<1>5. v6 \in [ValueProcs -> 0 .. MaxValueKey] /\ v5 \in 1 .. MaxValueKey
      /\ v2.key \in 0 .. MaxValueKey
  <2>1. 0 .. v5 \subseteq 0 .. MaxValueKey /\ v5 \in 1 .. MaxValueKey
    BY <1>1, <1>2
  <2> QED
    BY <1>1, <1>3, <2>1
<1> QED
  BY <1>1, <1>3, <1>4, <1>5, Zenon DEF Value!TypeOK

\* Keys are added up to the bound, and a store keeps its kind.
LEMMA ValueBounds ==
  /\ Value!SealedValuesAssumption /\ Value!Init => v5 <= MaxValueKey /\ v4 \in BOOLEAN
  /\ Value!SealedValuesAssumption /\ Value!ValueInv /\ v5 <= MaxValueKey /\ v4 \in BOOLEAN
       /\ [Value!Next]_(Value!vars)
     => v5' <= MaxValueKey /\ v4' \in BOOLEAN
<1>1. ASSUME Value!SealedValuesAssumption, Value!Init
      PROVE  v5 <= MaxValueKey /\ v4 \in BOOLEAN
  <2>0. v5 = 1 /\ v4 = (v2.scheme # "plain") /\ MaxValueKey \in Nat \ {0}
    BY <1>1, Zenon DEF Value!Init, Value!SealedValuesAssumption
  <2>1. v4 \in BOOLEAN
    BY <2>0, SMT
  <2>2. v5 <= MaxValueKey
    BY <2>0
  <2> QED
    BY <2>1, <2>2, Zenon
<1>2. ASSUME Value!SealedValuesAssumption, Value!ValueInv, v5 <= MaxValueKey, v4 \in BOOLEAN,
             [Value!Next]_(Value!vars)
      PROVE  v5' <= MaxValueKey /\ v4' \in BOOLEAN
  <2>1. v5 \in Nat /\ MaxValueKey \in Nat
    BY <1>2 DEF Value!ValueInv, Value!SealedValuesAssumption
  <2>2. v5' = v5 \/ (v5 < MaxValueKey /\ v5' = v5 + 1)
    BY <1>2, Zenon DEF Value!Next, Value!vars, Value!Boot, Value!BootKeyless, Value!Load,
      Value!Save, Value!Reseal, Value!Write, Value!CopyIn, Value!ReplaceMasterKey, Value!Put
  <2>3. v5' <= MaxValueKey
    BY <1>2, <2>1, <2>2
  <2>4. \/ v4' = v4
        \/ \E v : v4' = (v4 \/ v.scheme # "plain")
    BY <1>2, Zenon DEF Value!Next, Value!vars, Value!Boot, Value!BootKeyless, Value!Load,
      Value!Save, Value!Reseal, Value!Write, Value!CopyIn, Value!ReplaceMasterKey, Value!Put
  <2>5. v4' \in BOOLEAN
    BY <1>2, <2>4, Zenon
  <2> QED
    BY <2>3, <2>5
<1> QED
  BY <1>1, <1>2, Zenon

-----------------------------------------------------------------------------
\* An operation's writes do not name the index: a retirement comes to.
Indexless(t) == t \in Seq(Custody!Writes) /\ \A i \in 1 .. Len(t) : t[i].to # "index"

\* Nor do two of them one after the other.
LEMMA IndexlessJoined ==
  ASSUME NEW s, NEW t, Indexless(s), Indexless(t)
  PROVE  Indexless(s \o t)
<1>1. s \in Seq(Custody!Writes) /\ t \in Seq(Custody!Writes)
  BY DEF Indexless
<1>2. s \o t \in Seq(Custody!Writes) /\ Len(s \o t) = Len(s) + Len(t)
  BY <1>1
<1>3. ASSUME NEW i \in 1 .. Len(s \o t)
      PROVE  (s \o t)[i].to # "index"
  <2>1. CASE i <= Len(s)
    <3>1. (s \o t)[i] = s[i] /\ i \in 1 .. Len(s)
      BY <1>1, <1>2, <2>1
    <3> QED
      BY <3>1 DEF Indexless
  <2>2. CASE ~(i <= Len(s))
    <3>1. (s \o t)[i] = t[i - Len(s)] /\ i - Len(s) \in 1 .. Len(t)
      BY <1>1, <1>2, <2>2
    <3> QED
      BY <3>1 DEF Indexless
  <2> QED
    BY <2>1, <2>2
<1> QED
  BY <1>2, <1>3 DEF Indexless

\* Keys that are retired, or rows, one after another.
LEMMA IndexlessEach ==
  ASSUME Custody!KeyCustodyAssumption, NEW ks \in SUBSET CustodyKeys, NEW c \in Custody!Custodies,
         NEW where \in {"retire", "data"}
  PROVE  Indexless(Custody!WriteEach(where, ks, c))
<1>1. IsFiniteSet(CustodyKeys)
  BY SameFinite DEF Custody!KeyCustodyAssumption
<1> DEFINE s == Custody!WriteEach(where, ks, c)
<1>2. AreOfTheKeys(s, where, ks)
  BY <1>1, EachIsOfTheKeys
<1>a. where # "index"
  <2>1. CASE where = "retire"
    BY <2>1
  <2>2. CASE where = "data"
    BY <2>2
  <2> QED
    BY <2>1, <2>2
<1> HIDE DEF s
<1>3. Indexless(s)
  BY <1>a, <1>2 DEF Indexless, AreOfTheKeys
<1> QED
  BY <1>3 DEF s

\* One write.
LEMMA IndexlessSingle ==
  ASSUME NEW w \in Custody!Writes, w.to # "index"
  PROVE  Indexless(<<w>>)
<1> DEFINE s == <<w>>
<1>1. s \in Seq(Custody!Writes) /\ Len(s) = 1 /\ s[1] = w
  BY OneWrite
<1>2. 1 .. 1 = {1}
  OBVIOUS
<1> HIDE DEF s
<1>3. \A i \in 1 .. Len(s) : s[i].to # "index"
  BY <1>1, <1>2
<1>4. Indexless(s)
  BY <1>1, <1>3 DEF Indexless
<1> QED
  BY <1>4 DEF s

\* One that an operation makes.
LEMMA IndexlessOne ==
  ASSUME NEW k \in CustodyKeys, NEW c \in Custody!Custodies,
         NEW where \in {"record", "keychain", "file", "drop file", "drop memory"}
  PROVE  Indexless(<<Custody!WriteTo(where, k, c)>>)
<1> DEFINE w == Custody!WriteTo(where, k, c)
<1>1. w \in Custody!Writes /\ w.to = where /\ where # "index"
  BY DEF Custody!WriteTo, Custody!Writes, Custody!Custodies
<1> HIDE DEF w
<1>2. Indexless(<<w>>)
  BY <1>1, IndexlessSingle
<1> QED
  BY <1>2 DEF w

\* What a key is installed with.
LEMMA IndexlessInstall ==
  ASSUME Custody!KeyCustodyAssumption, Custody!Types, NEW k \in CustodyKeys,
         NEW extra \in SUBSET CustodyKeys, NEW data \in SUBSET CustodyKeys,
         NEW c \in Custody!Custodies, NEW custody \in Custody!Custodies,
         NEW tried \in Custody!Tried(k, custody)
  PROVE  Indexless(Custody!InstallWrites(k, extra, data, c, tried, custody))
<1> DEFINE r == Custody!RetireAll(Custody!Displaced(k, extra), c)
           t == Custody!StoreWrites(k, custody, data)
<1>1. Indexless(r)
  BY SeenIsDisplaced, IndexlessEach DEF Custody!RetireAll
<1>2. Indexless(<<>>)
  BY DEF Indexless
<1>3. Indexless(t)
  <2>1. CASE t = <<>>
    BY <1>2, <2>1
  <2>2. CASE t # <<>>
    <3> DEFINE a == <<Custody!WriteTo(custody, k, custody)>>
               b == <<Custody!WriteTo("record", k, custody)>>
               d == Custody!Data(data)
    <3>1. Indexless(a) /\ Indexless(b)
      BY IndexlessOne DEF Custody!Custodies
    <3>2. Indexless(d)
      BY IndexlessEach DEF Custody!Data, Custody!Custodies
    <3>3. t = (a \o b) \o d
      BY <2>2 DEF Custody!StoreWrites
    <3> HIDE DEF a, b, d, t
    <3> QED
      BY <3>1, <3>2, <3>3, IndexlessJoined
  <2> QED
    BY <2>1, <2>2
<1>4. Indexless(tried)
  <2>1. CASE tried = <<>>
    BY <1>2, <2>1
  <2>2. ASSUME NEW x \in {custody} \ {"keychain"},
               tried = <<Custody!WriteTo("keychain", k, x)>>
        PROVE  Indexless(tried)
    BY <2>2, IndexlessOne
  <2> QED
    BY <2>1, <2>2, Zenon DEF Custody!Tried
<1>5. Custody!InstallWrites(k, extra, data, c, tried, custody) = r \o (tried \o t)
  BY DEF Custody!InstallWrites
<1> HIDE DEF r, t
<1> QED
  BY <1>1, <1>3, <1>4, <1>5, IndexlessJoined

\* What the tool sets out to write.
LEMMA PlanIsIndexless ==
  ASSUME Custody!KeyCustodyAssumption, Custody!Types,
         Custody!Adopt \/ Custody!RetireKey \/ Custody!Import
  PROVE  \E t : Indexless(t) /\ Custody!Plan(t)
<1>1. ASSUME NEW k \in CustodyKeys, NEW extra \in SUBSET CustodyKeys,
             NEW data \in SUBSET CustodyKeys, Custody!InstallCurrent(k, extra, data)
      PROVE  \E t : Indexless(t) /\ Custody!Plan(t)
  <2>1. PICK c \in Custody!Custodies, custody \in Custody!Custodies :
          \E tried \in Custody!Tried(k, custody) :
            Custody!Plan(Custody!InstallWrites(k, extra, data, c, tried, custody))
    BY <1>1 DEF Custody!InstallCurrent, Custody!VaultCustody, Custody!Custodies
  <2>2. PICK tried \in Custody!Tried(k, custody) :
          Custody!Plan(Custody!InstallWrites(k, extra, data, c, tried, custody))
    BY <2>1
  <2>3. Indexless(Custody!InstallWrites(k, extra, data, c, tried, custody))
    BY IndexlessInstall
  <2> QED
    BY <2>2, <2>3
<1>2. Custody!VaultCustody(TRUE) \subseteq Custody!Custodies
  BY DEF Custody!VaultCustody
<1>3. CASE Custody!Adopt
  <2>1. PICK k \in CustodyKeys : Custody!InstallCurrent(k, {}, {})
    BY <1>3, CandidatesAreSafe DEF Custody!Adopt, Custody!Held
  <2> QED
    BY <1>1, <2>1
<1>4. CASE Custody!RetireKey
  <2>1. PICK k \in CustodyKeys : \E c \in Custody!VaultCustody(TRUE) :
             Custody!Plan(Custody!RetireAll({k}, c) \o
               (CASE k = v1 -> <<>>
                  [] k # v1 /\ k = v5 -> <<Custody!WriteTo("drop file", k, c)>>
                  [] OTHER -> <<Custody!WriteTo("drop memory", k, c)>>))
    <3>1. Custody!LiveKeys \subseteq CustodyKeys
      BY DEF Custody!LiveKeys, Custody!Held
    <3> QED
      BY <1>4, <3>1, Zenon DEF Custody!RetireKey
  <2>2. PICK c \in Custody!VaultCustody(TRUE) :
             Custody!Plan(Custody!RetireAll({k}, c) \o
               (CASE k = v1 -> <<>>
                  [] k # v1 /\ k = v5 -> <<Custody!WriteTo("drop file", k, c)>>
                  [] OTHER -> <<Custody!WriteTo("drop memory", k, c)>>))
    BY <2>1
  <2> DEFINE t == CASE k = v1 -> <<>>
                    [] k # v1 /\ k = v5 -> <<Custody!WriteTo("drop file", k, c)>>
                    [] OTHER -> <<Custody!WriteTo("drop memory", k, c)>>
  <2>3. c \in Custody!Custodies
    BY <1>2
  <2>4. t \in {<<>>, <<Custody!WriteTo("drop file", k, c)>>,
               <<Custody!WriteTo("drop memory", k, c)>>}
    OBVIOUS
  <2>5. Custody!Plan(Custody!RetireAll({k}, c) \o t)
    BY <2>2
  <2> HIDE DEF t
  <2>6. Indexless(t)
    <3>1. Indexless(<<>>)
      BY DEF Indexless
    <3>2. /\ Indexless(<<Custody!WriteTo("drop file", k, c)>>)
          /\ Indexless(<<Custody!WriteTo("drop memory", k, c)>>)
      BY <2>3, IndexlessOne
    <3> QED
      BY <2>4, <3>1, <3>2, Zenon
  <2>7. Indexless(Custody!RetireAll({k}, c))
    BY <2>3, IndexlessEach DEF Custody!RetireAll
  <2> QED
    BY <2>5, <2>6, <2>7, IndexlessJoined
<1>5. CASE Custody!Import
  <2>1. PICK b \in Bundles :
        \/ \E c \in Custody!VaultCustody(TRUE) :
             Custody!Plan(Custody!RetireAll(b.retired \ {b.current}, c)
                            \o Custody!Data(Custody!BundleKeys(b)))
        \/ Custody!InstallCurrent(b.current, b.retired, Custody!BundleKeys(b))
    BY <1>5 DEF Custody!Import
  <2>2. /\ b.current \in CustodyKeys /\ b.retired \in SUBSET CustodyKeys
        /\ Custody!BundleKeys(b) \in SUBSET CustodyKeys
    BY DEF Custody!KeyCustodyAssumption, Custody!BundleKeys
  <2>3. CASE Custody!InstallCurrent(b.current, b.retired, Custody!BundleKeys(b))
    BY <1>1, <2>2, <2>3
  <2>4. ASSUME NEW c \in Custody!Custodies,
               Custody!Plan(Custody!RetireAll(b.retired \ {b.current}, c)
                              \o Custody!Data(Custody!BundleKeys(b)))
        PROVE  \E t : Indexless(t) /\ Custody!Plan(t)
    <3>1. Indexless(Custody!RetireAll(b.retired \ {b.current}, c))
      BY <2>2, IndexlessEach DEF Custody!RetireAll
    <3>2. Indexless(Custody!Data(Custody!BundleKeys(b)))
      BY <2>2, IndexlessEach DEF Custody!Data, Custody!Custodies
    <3> QED
      BY <2>4, <3>1, <3>2, IndexlessJoined
  <2> QED
    BY <1>2, <2>1, <2>3, <2>4
<1> QED
  BY <1>3, <1>4, <1>5

\* The writes of one actor are replaced by ones that do not name the index.
LEMMA RoomStays ==
  ASSUME Custody!RoomInv, v9' = v9, NEW a \in Custody!Actors,
         \A b \in Custody!Actors \ {a} : v12'[b] = v12[b] /\ v13'[b] = v13[b],
         Indexless(v13'[a])
  PROVE  Custody!RoomInv'
<1>1. ASSUME NEW b \in Custody!Actors
      PROVE  Custody!RoomFollows(b)'
  <2>1. CASE b = a
    BY <2>1 DEF Custody!RoomFollows, Indexless
  <2>2. CASE b # a
    BY <2>2 DEF Custody!RoomInv, Custody!RoomFollows
  <2> QED
    BY <2>1, <2>2
<1> QED
  BY <1>1 DEF Custody!RoomInv

\* Or nobody's are.
LEMMA RoomKept ==
  ASSUME Custody!Types, Custody!RoomInv, v9' = v9, v13' = v13,
         \A b \in Custody!Actors : v12'[b].index = v12[b].index \/ v13[b] = <<>>
  PROVE  Custody!RoomInv'
<1>1. ASSUME NEW b \in Custody!Actors
      PROVE  Custody!RoomFollows(b)'
  <2>1. CASE v13[b] = <<>>
    BY <2>1 DEF Custody!RoomFollows
  <2>2. CASE v12'[b].index = v12[b].index
    BY <2>2 DEF Custody!RoomInv, Custody!RoomFollows
  <2> QED
    BY <2>1, <2>2
<1> QED
  BY <1>1 DEF Custody!RoomInv

\* A process that resolves reads no index before it retires a key.
LEMMA ResolveHasRoom ==
  ASSUME Custody!KeyCustodyAssumption, Custody!CustodyInv, Custody!RoomInv, NEW p \in Procs,
         Custody!Resolve(p)
  PROVE  Custody!RoomInv'
<1>1. Custody!Types /\ p \in Custody!Actors
      /\ (v11[p] # "write" => v13[p] = <<>>)
  BY ActorsAre DEF Custody!CustodyInv, Custody!ProcessInv, Custody!VaultIsKept
<1>2. v12 \in [Custody!Actors -> Holds]
  BY <1>1, HoldsAre
\* Its first steps, before it has anything to write.
<1>3. ASSUME v11[p] \in {"down", "publish"}, v9' = v9, v13' = v13,
             NEW h, v12' = [v12 EXCEPT ![p] = h]
      PROVE  Custody!RoomInv'
  <2>1. v13[p] = <<>> /\ \A b \in Custody!Actors \ {p} : v12'[b] = v12[b]
    BY <1>1, <1>2, <1>3
  <2> QED
    BY <1>1, <1>3, <2>1, RoomKept
<1>4. ASSUME v9' = v9, v13' = v13, v12' = v12
      PROVE  Custody!RoomInv'
  BY <1>1, <1>4, RoomKept
<1>5. CASE Custody!FromEnv(p) \/ Custody!FromKeychain(p) \/ Custody!FromFile(p) \/ Custody!Seed(p)
  <2>1. /\ v11[p] = "down" /\ v9' = v9 /\ v13' = v13
        /\ \E k, from : Custody!Take(p, k, from)
    BY <1>5, Zenon DEF Custody!FromEnv, Custody!FromKeychain, Custody!FromFile, Custody!Seed,
      Custody!Start, Custody!vault
  <2> QED
    BY <1>3, <2>1 DEF Custody!Take
<1>6. CASE Custody!RecoverRefused(p)
  <2>1. v11[p] = "down" /\ v9' = v9 /\ v13' = v13 /\ Custody!Up(p, v10, {})
    BY <1>6, Zenon DEF Custody!RecoverRefused, Custody!Start, Custody!vault
  <2> QED
    BY <1>3, <2>1 DEF Custody!Up
<1>7. CASE Custody!PublishFile(p)
  <2>1. v11[p] = "publish" /\ v9' = v9 /\ v13' = v13
    BY <1>7 DEF Custody!PublishFile, Custody!vault
  <2>2. \E h : v12' = [v12 EXCEPT ![p] = h]
    BY <1>7 DEF Custody!PublishFile
  <2> QED
    BY <1>3, <2>1, <2>2
<1>8. CASE Custody!StoreKey(p) \/ Custody!ReadBack(p) \/ Custody!Mismatch(p) \/ Custody!Seal(p)
  <2>1. v9' = v9 /\ v12' = v12 /\ v13' = v13
    BY <1>8 DEF Custody!StoreKey, Custody!ReadBack, Custody!Mismatch, Custody!Seal, Custody!vault
  <2> QED
    BY <1>4, <2>1
<1>9. CASE Custody!SettleRecorded(p) \/ Custody!SettleMismatch(p) \/ Custody!SettleUnrecorded(p)
  <2>1. v11[p] = "settle"
    BY <1>9 DEF Custody!SettleRecorded, Custody!SettleMismatch, Custody!SettleUnrecorded
  <2>2. v12[p].key \in Custody!Accounted /\ v12[p].key \in CustodyKeys
    BY <1>1, <2>1, AccountedAreKeys DEF Custody!CustodyInv, Custody!ProcessInv
  <2>3. Custody!Candidates \subseteq CustodyKeys /\ Custody!VaultCustody(v12[p].source = "keychain")
          \subseteq Custody!Custodies
    BY <1>1, CandidatesAreSafe DEF Custody!VaultCustody, Custody!Custodies
  <2>4. ASSUME NEW c \in Custody!Custodies
        PROVE  Indexless(Custody!PutAway(p, c))
    <3> DEFINE ks == IF v12[p].source = "env" THEN {} ELSE {v12[p].key}
    <3>1. ks \in SUBSET CustodyKeys
      BY <2>2
    <3>2. Custody!PutAway(p, c) = Custody!WriteEach("retire", ks, c)
      BY DEF Custody!PutAway, Custody!RetireAll
    <3> HIDE DEF ks
    <3> QED
      BY <3>1, <3>2, IndexlessEach
  <2>5. ASSUME NEW k \in CustodyKeys
        PROVE  Indexless(<<Custody!WriteTo("record", k, "file")>>)
    BY IndexlessOne DEF Custody!Custodies
  <2>6. Indexless(<<>>)
    BY DEF Indexless
  <2>7. PICK k, t : Indexless(t) /\ Custody!Settle(p, k, t)
    <3>1. CASE Custody!SettleRecorded(p)
      BY <2>6, <3>1 DEF Custody!SettleRecorded
    <3>2. CASE Custody!SettleMismatch(p)
      BY <2>3, <2>4, <3>2 DEF Custody!SettleMismatch
    <3>3. CASE Custody!SettleUnrecorded(p)
      <4>1. CASE Custody!Settle(p, v12[p].key, <<>>)
        BY <2>6, <4>1
      <4>2. CASE Custody!Settle(p, v12[p].key, <<Custody!WriteTo("record", v12[p].key, "file")>>)
        BY <2>2, <2>5, <4>2
      <4>3. ASSUME NEW k \in Custody!Candidates, NEW c \in Custody!Custodies,
                   Custody!Settle(p, k,
                     Custody!PutAway(p, c) \o <<Custody!WriteTo("record", k, "file")>>)
            PROVE  \E l, t : Indexless(t) /\ Custody!Settle(p, l, t)
        BY <2>3, <2>4, <2>5, <4>3, IndexlessJoined
      <4> QED
        BY <2>3, <3>3, <4>1, <4>2, <4>3 DEF Custody!SettleUnrecorded
    <3> QED
      BY <1>9, <3>1, <3>2, <3>3
  <2>8. v9' = v9 /\ v13' = [v13 EXCEPT ![p] = t] /\ Custody!Up(p, k, {v12[p].key})
    BY <2>7 DEF Custody!Settle, Custody!vault
  <2>9. /\ v13'[p] = t
        /\ \A b \in Custody!Actors \ {p} : v12'[b] = v12[b] /\ v13'[b] = v13[b]
    BY <1>1, <1>2, <2>8 DEF Custody!Types, Custody!Up
  <2> QED
    BY <1>1, <2>7, <2>8, <2>9, RoomStays
<1> QED
  BY <1>5, <1>6, <1>7, <1>8, <1>9 DEF Custody!Resolve

\* The index, and what an actor has read of it, are of the keys there are.
LEMMA IndexIsFinite ==
  ASSUME Custody!KeyCustodyAssumption, Custody!Types
  PROVE  /\ IsFiniteSet(v9) /\ Custody!Cardinality(v9) \in Nat
         /\ \A a \in Custody!Actors : IsFiniteSet(v12[a].index)
<1>1. IsFiniteSet(CustodyKeys)
  BY SameFinite DEF Custody!KeyCustodyAssumption
<1>2. IsFiniteSet(Custody!Custodies)
  <2>1. IsFiniteSet({"keychain"}) /\ IsFiniteSet({"file"})
    BY FS_Singleton
  <2>2. Custody!Custodies = {"keychain"} \cup {"file"}
    BY DEF Custody!Custodies
  <2> QED
    BY <2>1, <2>2, FS_Union
<1>3. IsFiniteSet(Custody!Entries)
  <2>1. IsFiniteSet(CustodyKeys \X Custody!Custodies)
    BY <1>1, <1>2, FS_Product
  <2> DEFINE f == [x \in CustodyKeys \X Custody!Custodies |-> [kcv |-> x[1], custody |-> x[2]]]
  <2>2. f \in Surjection(CustodyKeys \X Custody!Custodies, Custody!Entries)
    <3>1. f \in [CustodyKeys \X Custody!Custodies -> Custody!Entries]
      BY DEF Custody!Entries
    <3>2. ASSUME NEW e \in Custody!Entries
          PROVE  \E x \in CustodyKeys \X Custody!Custodies : f[x] = e
      <4>1. e.kcv \in CustodyKeys /\ e.custody \in Custody!Custodies
            /\ e = [kcv |-> e.kcv, custody |-> e.custody]
        BY DEF Custody!Entries
      <4>2. <<e.kcv, e.custody>> \in CustodyKeys \X Custody!Custodies
        BY <4>1
      <4>3. f[<<e.kcv, e.custody>>] = e
        BY <4>1, <4>2
      <4> QED
        BY <4>2, <4>3
    <3> QED
      BY <3>1, <3>2, Zenon DEF Surjection
  <2> HIDE DEF f
  <2> QED
    BY <2>1, <2>2, FS_Surjection
<1>4. v9 \subseteq Custody!Entries /\ \A a \in Custody!Actors : v12[a].index \subseteq Custody!Entries
  BY HoldsAre DEF Custody!Types, Holds
<1>5. IsFiniteSet(v9) /\ \A a \in Custody!Actors : IsFiniteSet(v12[a].index)
  BY <1>3, <1>4, FS_Subset
<1>6. Custody!Cardinality(v9) \in Nat
  BY <1>5, SameFinite, FS_CardinalityType
<1> QED
  BY <1>5, <1>6

\* retire reads the index it has room in.
LEMMA StoreRetiredHasRoom ==
  ASSUME Custody!KeyCustodyAssumption, Custody!Types, Custody!RoomInv, NEW a \in Custody!Actors,
         Custody!StoreRetired(a)
  PROVE  Custody!RoomInv'
<1> DEFINE w == Head(v13[a])
<1>1. /\ v13[a] # <<>> /\ w.to = "retire" /\ v9' = v9
      /\ Skips(a, w) \/ (Stores(a, w) /\ ~Custody!Full)
  <2>1. Skips(a, w) \/ (Stores(a, w) /\ ~Custody!Full)
    BY Zenon DEF Custody!StoreRetired, Skips, Stores
  <2> QED
    BY <2>1, StoreRetiredIs
<1> HIDE DEF w
<1>2. /\ v13[a] \in Seq(Custody!Writes) /\ Len(v13[a]) \in Nat
      /\ Tail(v13[a]) \in Seq(Custody!Writes) /\ Len(Tail(v13[a])) = Len(v13[a]) - 1
      /\ \A i \in 1 .. Len(v13[a]) - 1 :
           Tail(v13[a])[i] = v13[a][i + 1] /\ i + 1 \in 1 .. Len(v13[a])
      /\ w = v13[a][1] /\ w.key \in CustodyKeys /\ w.custody \in Custody!Custodies
  BY <1>1, TodoIs DEF w
<1>3. Indexless(Tail(v13[a])) /\ Indexless(<<>>)
  <2>1. ASSUME NEW i \in 1 .. Len(Tail(v13[a]))
        PROVE  Tail(v13[a])[i].to # "index"
    <3>1. Tail(v13[a])[i] = v13[a][i + 1] /\ i + 1 \in 1 .. Len(v13[a]) /\ i + 1 # 1
      BY <1>2
    <3>2. Custody!RoomFollows(a)
      BY DEF Custody!RoomInv
    <3> QED
      BY <3>1, <3>2 DEF Custody!RoomFollows
  <2> QED
    BY <1>2, <2>1 DEF Indexless
<1>4. v13 \in [Custody!Actors -> Seq(Custody!Writes)] /\ v12 \in [Custody!Actors -> Holds]
  BY HoldsAre DEF Custody!Types
<1>5. CASE Skips(a, w)
  <2>1. v12' = v12 /\ v13' = [v13 EXCEPT ![a] =
          IF a = "tool" /\ ~Custody!Indexed(w.key) THEN <<>> ELSE Tail(@)]
    BY <1>5 DEF Skips
  <2>2. v13'[a] \in {<<>>, Tail(v13[a])}
        /\ \A b \in Custody!Actors \ {a} : v12'[b] = v12[b] /\ v13'[b] = v13[b]
    BY <1>4, <2>1
  <2> QED
    BY <1>1, <1>3, <2>2, RoomStays
<1>6. CASE Stores(a, w) /\ ~Custody!Full
  <2> DEFINE x == Custody!WriteTo("index", w.key, w.custody)
             t == <<x>> \o Tail(v13[a])
  <2>1. /\ ~Custody!Full /\ v12' = [v12 EXCEPT ![a].index = v9] /\ v13' = [v13 EXCEPT ![a] = t]
    BY <1>6, Zenon DEF Stores
  <2>2. x \in Custody!Writes
    BY <1>2 DEF Custody!WriteTo, Custody!Writes
  <2> HIDE DEF x
  <2>3. \A i \in 1 .. Len(t) : i # 1 => t[i] = Tail(v13[a])[i - 1] /\ i - 1 \in 1 .. Len(Tail(v13[a]))
    BY <1>2, <2>2
  <2> HIDE DEF t
  <2>4. /\ v13'[a] = t /\ v12'[a].index = v9
        /\ \A b \in Custody!Actors \ {a} : v12'[b] = v12[b] /\ v13'[b] = v13[b]
    BY <1>4, <2>1 DEF Holds
  <2>5. Custody!Cardinality(v9) < MAX_RETIRED_KEYS
    <3>1. Custody!Cardinality(v9) \in Nat /\ MAX_RETIRED_KEYS \in Nat
      BY IndexIsFinite DEF Custody!KeyCustodyAssumption
    <3> QED
      BY <2>1, <3>1 DEF Custody!Full
  <2>6. ASSUME NEW b \in Custody!Actors
        PROVE  Custody!RoomFollows(b)'
    <3>1. CASE b = a
      <4>1. \A i \in 1 .. Len(t) : t[i].to = "index" => i = 1
        BY <1>3, <2>3 DEF Indexless
      <4> QED
        BY <2>4, <2>5, <3>1, <4>1 DEF Custody!RoomFollows
    <3>2. CASE b # a
      BY <2>4, <3>2 DEF Custody!RoomInv, Custody!RoomFollows
    <3> QED
      BY <3>1, <3>2
  <2> QED
    BY <1>1, <2>6 DEF Custody!RoomInv
<1> QED
  BY <1>1, <1>5, <1>6

\* The index is written as it was read, with one entry more.
LEMMA WriteHasRoom ==
  ASSUME Custody!KeyCustodyAssumption, Custody!Types, Custody!RoomInv, NEW a \in Custody!Actors,
         Custody!Write(a)
  PROVE  Custody!RoomInv'
<1> DEFINE w == Head(v13[a])
<1>1. /\ v13[a] # <<>> /\ Performed(a, w)
      /\ v12' = [v12 EXCEPT ![a].index = {}] /\ v13' = [v13 EXCEPT ![a] = Tail(@)]
  BY WriteIs
<1> HIDE DEF w
<1>2. /\ v13[a] \in Seq(Custody!Writes) /\ Len(v13[a]) \in Nat /\ 1 \in 1 .. Len(v13[a])
      /\ Tail(v13[a]) \in Seq(Custody!Writes) /\ Len(Tail(v13[a])) = Len(v13[a]) - 1
      /\ \A i \in 1 .. Len(v13[a]) - 1 :
           Tail(v13[a])[i] = v13[a][i + 1] /\ i + 1 \in 1 .. Len(v13[a])
      /\ w = v13[a][1]
  BY <1>1, TodoIs DEF w
<1>3. Custody!RoomFollows(a)
  BY DEF Custody!RoomInv
<1>4. Indexless(Tail(v13[a]))
  <2>1. ASSUME NEW i \in 1 .. Len(Tail(v13[a]))
        PROVE  Tail(v13[a])[i].to # "index"
    <3>1. Tail(v13[a])[i] = v13[a][i + 1] /\ i + 1 \in 1 .. Len(v13[a]) /\ i + 1 # 1
      BY <1>2
    <3> QED
      BY <1>3, <3>1 DEF Custody!RoomFollows
  <2> QED
    BY <1>2, <2>1 DEF Indexless
<1>5. v13 \in [Custody!Actors -> Seq(Custody!Writes)] /\ v12 \in [Custody!Actors -> Holds]
  BY HoldsAre DEF Custody!Types
<1>6. v13'[a] = Tail(v13[a])
      /\ \A b \in Custody!Actors \ {a} : v12'[b] = v12[b] /\ v13'[b] = v13[b]
  BY <1>1, <1>5
<1>7. Custody!Cardinality(v9') <= MAX_RETIRED_KEYS
  <2>1. v9' = IF w.to = "index"
              THEN v12[a].index \cup {[kcv |-> w.key, custody |-> w.custody]} ELSE v9
    BY <1>1 DEF Performed
  <2>2. CASE w.to # "index"
    BY <2>1, <2>2 DEF Custody!RoomInv
  <2>3. CASE w.to = "index"
    <3> DEFINE e == [kcv |-> w.key, custody |-> w.custody]
    <3>1. Custody!Cardinality(v12[a].index) < MAX_RETIRED_KEYS
      BY <1>2, <1>3, <2>3 DEF Custody!RoomFollows
    <3>2. v9' = v12[a].index \cup {e}
      BY <2>1, <2>3
    <3> HIDE DEF e
    <3>3. IsFiniteSet(v12[a].index)
      BY IndexIsFinite
    <3>4. Cardinality(v12[a].index) \in Nat
          /\ Cardinality(v9') \in {Cardinality(v12[a].index), Cardinality(v12[a].index) + 1}
      BY <3>2, <3>3, FS_AddElement, FS_CardinalityType
    <3>5. Custody!Cardinality(v12[a].index) = Cardinality(v12[a].index)
          /\ Custody!Cardinality(v9') = Cardinality(v9') /\ MAX_RETIRED_KEYS \in Nat
      BY SameFinite DEF Custody!KeyCustodyAssumption
    <3> QED
      BY <3>1, <3>4, <3>5
  <2> QED
    BY <2>2, <2>3
<1>8. ASSUME NEW b \in Custody!Actors
      PROVE  Custody!RoomFollows(b)'
  <2>1. CASE b = a
    BY <1>4, <1>6, <2>1 DEF Custody!RoomFollows, Indexless
  <2>2. CASE b # a
    BY <1>6, <2>2 DEF Custody!RoomInv, Custody!RoomFollows
  <2> QED
    BY <2>1, <2>2
<1> QED
  BY <1>7, <1>8 DEF Custody!RoomInv

\* There is room at first.
LEMMA RoomAtFirst ==
  ASSUME Custody!KeyCustodyAssumption, Custody!Init
  PROVE  Custody!RoomInv
<1>1. v9 = {} /\ v13 = [a \in Custody!Actors |-> <<>>]
  BY DEF Custody!Init
<1>2. Custody!Cardinality(v9) = 0 /\ MAX_RETIRED_KEYS \in Nat
  BY <1>1, SameFinite, FS_EmptySet DEF Custody!KeyCustodyAssumption
<1>3. \A a \in Custody!Actors : Custody!RoomFollows(a)
  BY <1>1 DEF Custody!RoomFollows
<1> QED
  BY <1>2, <1>3 DEF Custody!RoomInv

\* And after every step.
LEMMA CustodyHasRoom ==
  ASSUME Custody!KeyCustodyAssumption, Custody!CustodyInv, Custody!RoomInv,
         [Custody!Next]_(Custody!vars)
  PROVE  Custody!RoomInv'
<1>1. Custody!Types /\ "tool" \in Custody!Actors /\ v13 \in [Custody!Actors -> Seq(Custody!Writes)]
      /\ v12 \in [Custody!Actors -> Holds]
  BY ActorsAre, HoldsAre DEF Custody!CustodyInv, Custody!Types
<1>2. CASE \E p \in Procs : Custody!Resolve(p)
  BY <1>2, ResolveHasRoom
<1>3. CASE Custody!Adopt \/ Custody!RetireKey \/ Custody!Import
  <2>1. PICK t : Indexless(t) /\ Custody!Plan(t)
    BY <1>1, <1>3, PlanIsIndexless
  <2>2. v9' = v9 /\ v13' = [v13 EXCEPT !["tool"] = t] /\ \E h : v12' = [v12 EXCEPT !["tool"] = h]
    BY <2>1 DEF Custody!Plan, Custody!vault
  <2>3. v13'["tool"] = t
        /\ \A b \in Custody!Actors \ {"tool"} : v12'[b] = v12[b] /\ v13'[b] = v13[b]
    BY <1>1, <2>2
  <2> QED
    BY <1>1, <2>1, <2>2, <2>3, RoomStays
<1>4. CASE \E a \in Custody!Actors : Custody!StoreRetired(a)
  BY <1>1, <1>4, StoreRetiredHasRoom
<1>5. CASE \E a \in Custody!Actors : Custody!Write(a)
  BY <1>1, <1>5, WriteHasRoom
<1>6. CASE \E a \in Custody!Actors : Custody!Stop(a)
  <2>1. PICK a \in Custody!Actors : Custody!Stop(a)
    BY <1>6
  <2>2. v9' = v9 /\ v12' = [v12 EXCEPT ![a] = Custody!Nothing] /\ v13' = [v13 EXCEPT ![a] = <<>>]
    BY <2>1 DEF Custody!Stop, Custody!vault
  <2>3. /\ v13'[a] = <<>>
        /\ \A b \in Custody!Actors \ {a} : v12'[b] = v12[b] /\ v13'[b] = v13[b]
    BY <1>1, <2>2
  <2>4. Indexless(<<>>)
    BY DEF Indexless
  <2> QED
    BY <2>2, <2>3, <2>4, RoomStays
<1>7. CASE \/ \E a \in Custody!Actors : Custody!Written(a)
           \/ Custody!SetEnv \/ Custody!Lock \/ Custody!KeychainLoses
           \/ UNCHANGED Custody!vars
  <2>1. v9' = v9 /\ v12' = v12 /\ v13' = v13
    BY <1>7 DEF Custody!Written, Custody!SetEnv, Custody!Lock, Custody!KeychainLoses,
      Custody!vars, Custody!vault
  <2> QED
    BY <1>1, <2>1, RoomKept
<1> QED
  BY <1>2, <1>3, <1>4, <1>5, <1>6, <1>7, Zenon DEF Custody!Next

\* The variables of every part are what its module says they are, and the index
\* of the retired keys is no longer than the limit, whoever writes it
\* (custody.rs MAX_RETIRED_KEYS).
THEOREM KeyTypesCorrect == KeySpec => []KeyTypeOK
<1> DEFINE Inv == /\ part = "custody" => Custody!CustodyInv /\ Custody!RoomInv
                  /\ part = "app key" => App!KeptInv
                  /\ part = "plugin root" => Root!RootInv
                  /\ part = "value" => Value!ValueInv /\ v5 <= MaxValueKey /\ v4 \in BOOLEAN
<1>0. /\ Custody!KeyCustodyAssumption /\ App!AppKeyAssumption /\ Root!PluginRootAssumption
      /\ Value!SealedValuesAssumption
  BY KeyPartsAssumption
<1>1. KeyInit => Inv
  BY <1>0, KeyPartStarts, CustodyInit, RoomAtFirst, AppKeyInit, RootInit, ValueInit, ValueBounds
<1>2. Inv /\ [KeyNext]_vars => Inv'
  BY <1>0, KeyPartMoves, CustodyStays, CustodyHasRoom, AppKeyStays, RootStays, ValueStays, ValueBounds
<1>3. Inv => KeyTypeOK
  <2>1. Custody!CustodyInv /\ Custody!RoomInv => Custody!TypeOK
    BY DEF Custody!CustodyInv, Custody!RoomInv, Custody!TypeOK
  <2>2. App!KeptInv => App!TypeOK
    BY DEF App!KeptInv
  <2>3. Root!RootInv => Root!TypeOK
    BY DEF Root!RootInv
  <2>4. Value!ValueInv /\ v5 <= MaxValueKey /\ v4 \in BOOLEAN => Value!TypeOK
    BY <1>0, ValueTyped
  <2> QED
    BY <2>1, <2>2, <2>3, <2>4, Zenon DEF KeyTypeOK
<1> HIDE DEF Inv
<1> QED
  BY <1>1, <1>2, <1>3, PTL DEF KeySpec

=============================================================================
