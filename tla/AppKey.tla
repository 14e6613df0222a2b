--------------------------------- MODULE AppKey ---------------------------------
(***************************************************************************)
(* The key of one process of its own, the desktop shell (crypto/           *)
(* app_key.rs): the ladder of the master key on a keychain slot and a key  *)
(* file of its own, where the file is the ladder's legacy key too, and a   *)
(* recorded key check value that pins which of two keys is current.        *)
(***************************************************************************)
EXTENDS Naturals, FiniteSets

CONSTANTS
  Keys,
  EnvKey,     \* the key RYU_MASTER_KEY may hold
  MaxRuns     \* bound: how often the process starts

NoKey == "no key"
Unavailable == "unavailable"

AppKeyAssumption ==
  Keys \cap {NoKey, Unavailable} = {} /\ EnvKey \in Keys /\ MaxRuns \in Nat

VARIABLES
  env, keychain, reachable, allowFile, file,
  recorded,    \* state/<slot>.kcv.json
  sealedFile,  \* whether secrets/ holds a sealed file of the slot
  app,         \* the resolved key and the retired ones; no key: not running
  used,        \* keys that sealed something
  gone,        \* keys the keychain lost, and those of them generated over
  runs

vars == <<env, keychain, reachable, allowFile, file, recorded, sealedFile, app, used, gone, runs>>

Held(s) == {s} \cap Keys
Keychain == IF reachable THEN keychain ELSE Unavailable

AppKeyOf(k, retired) == [key |-> k, retired |-> retired]

Init ==
  /\ env \in {NoKey, EnvKey} /\ reachable \in BOOLEAN /\ allowFile \in BOOLEAN
  /\ \/ keychain = NoKey /\ used = {}
     \/ keychain \in Keys \ {EnvKey} /\ used = {keychain}
  /\ sealedFile = (used # {})
  /\ file = NoKey /\ recorded = NoKey
  /\ app = AppKeyOf(NoKey, {})
  /\ gone = {} /\ runs = 0

-----------------------------------------------------------------------------
\* resolve_app_key: evidence counts only while the keychain cannot be read.
Evidence == Keychain = Unavailable /\ (recorded # NoKey \/ sealedFile)

Fresh == Keys \ (used \cup {EnvKey} \cup Held(keychain) \cup Held(file))

Found(k, source, kc, f) == [key |-> k, source |-> source, keychain |-> kc, file |-> f]

\* Mutant: the file goes once the keychain holds a key.
WithoutFile(k) == NoKey

\* The legacy file goes once the keychain is known to hold the same key.
WithoutCopy(k) == IF file = k THEN NoKey ELSE file

\* load_master_key_guarded with the slot's paths: what it may end with.
Ladder ==
  CASE env \in Keys -> {Found(env, "env", keychain, file)}
    [] env = NoKey /\ Keychain \in Keys ->
         {Found(keychain, "keychain", keychain, WithoutCopy(keychain))}
    [] env = NoKey /\ Keychain = NoKey ->
         LET seeds == IF file \in Keys THEN {file} ELSE Fresh
         IN {Found(k, "keychain", k, WithoutCopy(k)) : k \in seeds} \cup
            {Found(k, "file", keychain, k) : k \in {s \in seeds : allowFile}}
    [] OTHER ->
         IF ~allowFile THEN {}
         ELSE {Found(k, "file", keychain, k) :
                 k \in IF file \in Keys THEN {file} ELSE {n \in Fresh : ~Evidence}}

\* Every key in sight, tried on what the current one does not open.
CandidateKeys(l) ==
  {l.key} \cup Held(env)
  \cup (IF env = NoKey /\ reachable THEN Held(l.keychain) ELSE {})
  \cup (IF allowFile THEN Held(l.file) ELSE {})

Disagrees(l) == recorded \notin {NoKey, l.key} /\ l.source # "env"

\* The recorded key is current where there is a copy of it. Without one, a
\* file key is refused while the keychain might hold the recorded key.
Current(l) ==
  IF ~Disagrees(l) THEN {l.key}
  ELSE IF recorded \in CandidateKeys(l) THEN {recorded}
  ELSE IF l.source = "file" /\ Keychain = Unavailable THEN {}
  ELSE {l.key}

ResolveAppKey ==
  /\ app.key = NoKey
  /\ runs < MaxRuns
  /\ runs' = runs + 1
  /\ \E l \in Ladder :
       /\ keychain' = l.keychain /\ file' = l.file
       /\ \/ \E k \in Current(l) :
               /\ app' = AppKeyOf(k, CandidateKeys(l) \ {k})
               /\ recorded' \in {recorded, k}
          \/ UNCHANGED <<app, recorded>>       \* refused, or a crash
  /\ UNCHANGED <<env, reachable, allowFile, sealedFile, used, gone>>

Seal ==
  /\ app.key # NoKey
  /\ used' = used \cup {app.key}
  /\ sealedFile' \in {sealedFile, TRUE}
  /\ UNCHANGED <<env, keychain, reachable, allowFile, file, recorded, app, gone, runs>>

Stop ==
  /\ app.key # NoKey
  /\ app' = AppKeyOf(NoKey, {})
  /\ UNCHANGED <<env, keychain, reachable, allowFile, file, recorded, sealedFile, used, gone,
                 runs>>

\* The operator's environment, and the keychain's lock and losses.
Surroundings ==
  /\ app.key = NoKey
  /\ \/ env' \in {NoKey, EnvKey} \ {env} /\ UNCHANGED <<reachable, keychain, gone>>
     \/ reachable' = ~reachable /\ UNCHANGED <<env, keychain, gone>>
     \/ /\ keychain' = NoKey /\ gone' = gone \cup Held(keychain)
        /\ UNCHANGED <<env, reachable>>
  /\ UNCHANGED <<allowFile, file, recorded, sealedFile, app, used, runs>>

Next == ResolveAppKey \/ Seal \/ Stop \/ Surroundings

Spec == Init /\ [][Next]_vars

-----------------------------------------------------------------------------
TypeOK ==
  /\ {env, keychain, file, recorded, app.key} \subseteq Keys \cup {NoKey}
  /\ app.retired \in SUBSET Keys /\ used \in SUBSET Keys /\ gone \in SUBSET Keys
  /\ app.key \notin app.retired

\* No start costs a key that sealed something: it is in the slot or the file
\* still, unless the keychain lost it or it is the operator's.
AppKeysAreKept ==
  used \ {EnvKey} \subseteq Held(keychain) \cup Held(file) \cup gone

\* A process that got its key opens what any key in its sight sealed.
OpensWhatIsInSight ==
  app.key # NoKey =>
    used \cap (Held(env) \cup (IF env = NoKey THEN Held(Keychain) ELSE {})
               \cup (IF allowFile THEN Held(file) ELSE {}))
      \subseteq {app.key} \cup app.retired

-----------------------------------------------------------------------------
\* The inductive invariant behind both: a process runs with a key that is kept.
KeptInv ==
  /\ TypeOK
  /\ env \in {NoKey, EnvKey} /\ reachable \in BOOLEAN /\ allowFile \in BOOLEAN
  /\ app.key # NoKey => app.key \in {EnvKey} \cup Held(keychain) \cup Held(file)
  /\ AppKeysAreKept /\ OpensWhatIsInSight

=============================================================================
