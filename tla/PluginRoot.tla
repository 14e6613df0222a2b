------------------------------ MODULE PluginRoot ------------------------------
(***************************************************************************)
(* The root key of one plugin's data folder (crypto/plugin_keys and the    *)
(* key delivery of crypto/process_keys.rs): delivered by Core, derived     *)
(* from RYU_MASTER_KEY, or kept in secrets/standalone-root.key when the    *)
(* plugin runs on its own, with its key check value pinned beside it.      *)
(*                                                                         *)
(* A process resolves its key once. The file steps of two processes that   *)
(* start at the same time interleave, and a process may crash in any.      *)
(***************************************************************************)
EXTENDS Naturals, FiniteSets

CONSTANTS
  Keys,
  Masters,     \* the plugin's subkeys of what RYU_MASTER_KEY may hold
  CoreKey,     \* the plugin's subkey of Core's master key
  Procs,
  Mains,       \* the processes that resolve; the others only resolve_existing
  MaxRuns      \* bound: how many processes start

NoKey == "no key"
NoFile == "no file"
Empty == "empty"

PluginRootAssumption ==
  /\ Keys \cap {NoKey, NoFile, Empty} = {}
  /\ Masters \subseteq Keys /\ CoreKey \in Keys \ Masters
  /\ Mains \subseteq Procs /\ MaxRuns \in Nat

\* What the environment of a start holds: PLUGIN_DATA_DIR, RYU_MASTER_KEY, and
\* the delivered subkey with the scope it was delivered for.
Launches == [underCore : BOOLEAN, master : Masters \cup {NoKey},
             delivered : {"none", "own", "other"}]

VARIABLES
  env,       \* the environment of the processes of the folder
  root,      \* standalone-root.key: absent, created and empty, or a key
  pinned,    \* standalone-root.kcv.json
  at, hold,  \* each process: where it stands, the key it has
  seen,      \* the pin it read
  used,      \* keys that sealed standalone data
  runs

vars == <<env, root, pinned, at, hold, seen, used, runs>>

Possible(e) == e.delivered # "none" => e.underCore

Init ==
  /\ env \in {e \in Launches : Possible(e)}
  /\ root = NoFile /\ pinned = NoKey
  /\ at = [p \in Procs |-> "down"]
  /\ hold = [p \in Procs |-> NoKey] /\ seen = [p \in Procs |-> NoKey]
  /\ used = {} /\ runs = 0

Go(p, place) == at' = [at EXCEPT ![p] = place]
Holds(p, k) == hold' = [hold EXCEPT ![p] = k]
Keep == UNCHANGED <<env, used, runs>>

-----------------------------------------------------------------------------
\* resolve_existing: a second process does not come to generate a root.
Compat(p) ==
  \/ p \notin Mains /\ env.delivered = "none" /\ env.master = NoKey /\ root = NoFile
  \/ env.delivered = "none" /\ env.master = NoKey /\ env.underCore

\* subkey_from: the delivered key is for this scope, or it is refused.
Refused == env.delivered = "other"

Resolve(p) ==
  /\ at[p] = "down"
  /\ runs < MaxRuns
  /\ runs' = runs + 1
  /\ \/ Compat(p) /\ Holds(p, NoKey) /\ Go(p, "up")
     \/ env.delivered = "own" /\ Holds(p, CoreKey) /\ Go(p, "up")
     \/ Refused /\ Holds(p, NoKey) /\ Go(p, "failed")
     \/ /\ env.delivered = "none" /\ env.master # NoKey /\ env.underCore
        /\ Holds(p, env.master) /\ Go(p, "up")
     \/ /\ env.delivered = "none" /\ env.master # NoKey /\ ~env.underCore
        /\ Holds(p, env.master)
        /\ Go(p, IF root # NoFile THEN "failed" ELSE "pin")
     \/ /\ env.delivered = "none" /\ env.master = NoKey /\ ~env.underCore /\ ~Compat(p)
        /\ UNCHANGED hold /\ Go(p, "load")
  /\ UNCHANGED <<env, root, pinned, seen, used>>

\* load_or_create_standalone_root.
LoadRoot(p) ==
  /\ at[p] = "load"
  /\ \/ root \in Keys /\ Holds(p, root) /\ Go(p, "pin")
     \/ root = Empty /\ Go(p, "failed") /\ UNCHANGED hold
     \/ root = NoFile /\ Go(p, "generate") /\ UNCHANGED hold
  /\ Keep /\ UNCHANGED <<root, pinned, seen>>

GenerateRoot(p) ==
  /\ at[p] = "generate"
  /\ Go(p, IF pinned # NoKey THEN "failed" ELSE "create")
  /\ Keep /\ UNCHANGED <<root, pinned, hold, seen>>

\* Mutant: the file is opened to be overwritten.
CreateOver(p) ==
  /\ at[p] = "create"
  /\ root' = Empty
  /\ Go(p, "fill")
  /\ Keep /\ UNCHANGED <<pinned, hold, seen>>

\* write_new_private_file: create_new, then the bytes.
CreateRoot(p) ==
  /\ at[p] = "create"
  /\ root' = IF root = NoFile THEN Empty ELSE root
  /\ Go(p, IF root = NoFile THEN "fill" ELSE "failed")
  /\ Keep /\ UNCHANGED <<pinned, hold, seen>>

FillRoot(p) ==
  /\ at[p] = "fill"
  /\ \E k \in Keys \ (used \cup Masters \cup {CoreKey}) :
       root' = k /\ Holds(p, k)
  /\ Go(p, "pin")
  /\ Keep /\ UNCHANGED <<pinned, seen>>

\* pin_standalone_kcv: read, then write where there was none.
ReadPin(p) ==
  /\ at[p] = "pin"
  /\ seen' = [seen EXCEPT ![p] = pinned]
  /\ Go(p, CASE pinned = NoKey -> "write pin"
             [] pinned # NoKey /\ pinned = hold[p] -> "up"
             [] OTHER -> "failed")
  /\ Keep /\ UNCHANGED <<root, pinned, hold>>

\* write_private_file renames over whatever is there by now.
WritePin(p) ==
  /\ at[p] = "write pin"
  /\ pinned' = hold[p]
  /\ Go(p, "up")
  /\ Keep /\ UNCHANGED <<root, hold, seen>>

\* The standalone data of the folder; Core's plugins keep theirs elsewhere.
Seal(p) ==
  /\ at[p] = "up" /\ hold[p] # NoKey
  /\ ~env.underCore
  /\ used' = used \cup {hold[p]}
  /\ UNCHANGED <<env, root, pinned, at, hold, seen, runs>>

Stop(p) ==
  /\ at[p] # "down"
  /\ Go(p, "down") /\ Holds(p, NoKey)
  /\ Keep /\ UNCHANGED <<root, pinned, seen>>

\* The next start finds another environment once no process is left.
NextLaunch ==
  /\ \A p \in Procs : at[p] = "down"
  /\ env' \in {e \in Launches : Possible(e)} \ {env}
  /\ UNCHANGED <<root, pinned, at, hold, seen, used, runs>>

Next ==
  \/ \E p \in Procs :
       \/ Resolve(p) \/ LoadRoot(p) \/ GenerateRoot(p) \/ CreateRoot(p) \/ FillRoot(p)
       \/ ReadPin(p) \/ WritePin(p) \/ Seal(p) \/ Stop(p)
  \/ NextLaunch

Spec == Init /\ [][Next]_vars

-----------------------------------------------------------------------------
TypeOK ==
  /\ env \in Launches
  /\ root \in Keys \cup {NoFile, Empty}
  /\ pinned \in Keys \cup {NoKey}
  /\ at \in [Procs -> {"down", "load", "generate", "create", "fill", "pin", "write pin",
                       "up", "failed"}]
  /\ hold \in [Procs -> Keys \cup {NoKey}] /\ seen \in [Procs -> Keys \cup {NoKey}]
  /\ used \in SUBSET Keys
  /\ \A p \in Procs : at[p] \in {"pin", "write pin"} => hold[p] # NoKey

\* However the runs of a plugin on its own crash, meet each other, or change
\* between the root file and RYU_MASTER_KEY, one key sealed its data and the
\* pin names it.
OneKeySealsThePluginsData ==
  \A k \in used :
    used = {k} /\ pinned = k

\* Where a key is pinned, the next run finds that very key: a folder that
\* RYU_MASTER_KEY sealed gets no root file, which would lock its owner out.
PinnedKeyStaysReachable ==
  pinned # NoKey => root = IF pinned \in Masters THEN NoFile ELSE pinned

-----------------------------------------------------------------------------
(* The inductive invariant behind both.                                    *)

\* Only a process on its own comes to the files, and to make a root only where
\* there is no RYU_MASTER_KEY.
FilesAreForStandalone ==
  \A p \in Procs :
    /\ at[p] \in {"load", "generate", "create", "fill", "pin", "write pin"}
         => ~env.underCore /\ env.delivered = "none"
    /\ at[p] \in {"load", "generate", "create", "fill"} => env.master = NoKey

\* A process about to create the root finds no pin, unless it comes too late;
\* and only the process that created the file fills it.
OneFills ==
  /\ \A p \in Procs : at[p] = "create" /\ root = NoFile => pinned = NoKey
  /\ \A p \in Procs : at[p] = "fill" => root = Empty
  /\ \A p, q \in Procs : at[p] = "fill" /\ at[q] = "fill" => p = q

\* The processes that get to the pin have one key.
TheKey == IF env.master # NoKey THEN env.master ELSE root
OneKeyToPin ==
  /\ \A p \in Procs : at[p] \in {"pin", "write pin"} =>
       hold[p] = TheKey /\ (env.master # NoKey => root = NoFile)
  /\ \A p \in Procs : at[p] = "write pin" => pinned \in {NoKey, hold[p]}
  /\ \A p \in Procs : at[p] = "up" /\ hold[p] # NoKey /\ ~env.underCore => pinned = hold[p]
  /\ root \in Keys => root \notin Masters

RootInv ==
  /\ TypeOK /\ Possible(env)
  /\ FilesAreForStandalone /\ OneFills /\ OneKeyToPin
  /\ OneKeySealsThePluginsData /\ PinnedKeyStaysReachable

=============================================================================
