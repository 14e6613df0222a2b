------------------------------- MODULE KeyCustody -------------------------------
(***************************************************************************)
(* Custody of the master key of a data folder (crypto/custody.rs and the   *)
(* ladder of crypto/lib.rs): the environment, the OS keychain, the file    *)
(* secrets/master.key, the legacy secrets/memory.key, the vault of retired *)
(* keys, and the recorded key check value that says which key is current.  *)
(*                                                                         *)
(* A key check value is as good as the key: it is the key here. What an    *)
(* operation reads it reads at once, but for the index of retired keys,    *)
(* which it reads before each key it retires; what it writes it writes one *)
(* file or keychain entry at a time, and may crash before any of them.     *)
(*                                                                         *)
(* Core owns the record; a peer (desktop shell, gateway) only checks it.   *)
(* The tool is the `keys` command, run with Core stopped.                  *)
(***************************************************************************)
EXTENDS Naturals, FiniteSets, Sequences

CONSTANTS
  Keys,
  Procs,              \* the processes of the folder: "core", "peer"
  EnvKey,             \* the key the operator may put in RYU_MASTER_KEY
  Bundles,            \* the key bundles there are: [current, retired]
  Folders,            \* what the folder may hold at first: [keychain, file, memory, used]
  MAX_RETIRED_KEYS,
  MaxFaults,          \* bound: how often the keychain loses an entry
  MaxRuns             \* bound: how many operations start

NoKey == "no key"
Unavailable == "unavailable"
Slot == Keys \cup {NoKey}

\* What sealed data of a folder is there when custody begins, and a bundle is
\* all its keys.
KeyCustodyAssumption ==
  /\ MAX_RETIRED_KEYS \in Nat /\ MaxFaults \in Nat /\ MaxRuns \in Nat
  /\ IsFiniteSet(Keys) /\ NoKey \notin Keys /\ Unavailable \notin Keys
  /\ EnvKey \in Keys /\ "core" \in Procs /\ "tool" \notin Procs
  /\ \A f \in Folders :
       /\ f \in [keychain : Slot, file : Slot, memory : Slot, used : SUBSET Keys]
       /\ f.used \subseteq {f.keychain, f.file, f.memory}
  /\ Bundles \subseteq [current : Keys, retired : SUBSET Keys]

Actors == Procs \cup {"tool"}
Custodies == {"keychain", "file"}

VARIABLES
  env, keychain, reachable, allowFile, file, memory,
  chained,   \* retired keys the keychain holds
  filed,     \* retired keys with a file under secrets/retired
  index,     \* state/retired-keys.json
  recorded,  \* state/master-key.kcv
  at, hold,  \* each actor: where it stands, what it has resolved
  todo,      \* what it still has to write
  used,      \* keys that sealed data of the folder, by the process
  gone,      \* keys whose last copy the keychain lost
  forgotten, \* retired keys the keychain lost and the index still lists
  raced,     \* keys that a write replaced whose writer had not seen them
  minted,    \* keys generated
  faults, runs

slots == <<keychain, file, memory>>
vault == <<chained, filed, index>>
setting == <<env, reachable, allowFile>>
counts == <<faults, runs>>
losses == <<gone, forgotten, raced>>
ghosts == <<losses, minted>>
vars == <<slots, vault, setting, recorded, at, hold, todo, used, ghosts, counts>>

-----------------------------------------------------------------------------
\* What an operation can see.

Held(s) == IF s \in Keys THEN {s} ELSE {}

Keychain == IF reachable THEN keychain ELSE Unavailable

Indexed(k) == \E e \in index : e.kcv = k

\* RetiredVault::load_all: the entries whose key can be read.
Loaded ==
  {e.kcv : e \in {f \in index :
     IF f.custody = "file" THEN f.kcv \in filed ELSE reachable /\ f.kcv \in chained}}

LiveKeys == UNION {Held(env), Held(Keychain), Held(file), Held(memory)}

Candidates == LiveKeys \cup Loaded

\* The key in persistent custody, and the recorded one if a live slot holds it.
Persistent == IF Keychain \in Keys THEN Keychain ELSE file
RecordedCurrent == LiveKeys \cap {recorded}

\* host_sealed_evidence: the host's own answer, which is Core's only, or
\* retired keys in the index. A recorded key is evidence by itself. A content
\* store's record is evidence too; it could only add a refusal, which writes
\* nothing and costs nothing.
SealedEvidence(p) ==
  \/ recorded # NoKey
  \/ p = "core" /\ used["core"] # {}
  \/ index # {}

\* The host's probe opens up to three sealed messages with the key.
Probe(k) ==
  {r \in {"passed", "none", "failed"} :
     CASE r = "passed" -> k \in used["core"]
       [] r = "none"   -> used["core"] = {}
       [] r = "failed" -> used["core"] \ {k} # {}}

-----------------------------------------------------------------------------
\* What it writes.

WriteTo(where, k, custody) == [to |-> where, key |-> k, custody |-> custody]

\* The keychain may open, lock or fail between the look and the write.
VaultCustody(prefer) == IF prefer THEN Custodies ELSE {"file"}

\* A sequence of the set's elements.
Listed(S) ==
  CHOOSE list \in [1 .. Cardinality(S) -> S] :
    \A x \in S : \E i \in 1 .. Cardinality(S) : list[i] = x

WriteEach(where, ks, custody) ==
  [i \in 1 .. Cardinality(ks) |-> WriteTo(where, Listed(ks)[i], custody)]

\* The keys RetiredVault::retire puts away, one after the other (StoreRetired).
RetireAll(ks, custody) == WriteEach("retire", ks, custody)

Resolution(k, from, record, olds) ==
  [key |-> k, source |-> from, seen |-> record, retired |-> olds, index |-> {}]
Nothing == Resolution(NoKey, "file", NoKey, {})

Init ==
  /\ env \in {NoKey, EnvKey}
  /\ reachable \in BOOLEAN
  /\ allowFile \in BOOLEAN
  /\ \E f \in Folders :
       /\ keychain = f.keychain /\ file = f.file /\ memory = f.memory
       /\ used = [p \in Procs |-> IF p = "core" THEN f.used ELSE {}]
  /\ chained = {} /\ filed = {} /\ index = {}
  /\ recorded = NoKey
  /\ at = [a \in Actors |-> "down"]
  /\ hold = [a \in Actors |-> Nothing]
  /\ todo = [a \in Actors |-> <<>>]
  /\ gone = {} /\ forgotten = {} /\ raced = {} /\ minted = {}
  /\ faults = 0 /\ runs = 0

Go(a, place) == at' = [at EXCEPT ![a] = place]
Take(p, k, from) == hold' = [hold EXCEPT ![p] = Resolution(k, from, recorded, {})]
\* Core and the tool keep out of each other's way; a peer does not.
Start(a) ==
  /\ at[a] = "down"
  /\ a \notin {"core", "tool"} \/ (at["core"] = "down" /\ at["tool"] = "down")
  /\ runs < MaxRuns
  /\ runs' = runs + 1

-----------------------------------------------------------------------------
\* load_master_key_guarded: env, keychain, file, and only then a new key.

\* A raw memory.key the keychain is known to hold as well goes.
RetireMatchingLegacy(k) == memory' = IF memory = k THEN NoKey ELSE memory

FromEnv(p) ==
  /\ Start(p)
  /\ env \in Keys
  /\ Take(p, env, "env") /\ Go(p, "settle")
  /\ UNCHANGED <<slots, vault, setting, recorded, todo, used, ghosts, faults>>

FromKeychain(p) ==
  /\ Start(p)
  /\ env = NoKey /\ Keychain \in Keys
  /\ RetireMatchingLegacy(keychain)
  /\ Take(p, keychain, "keychain") /\ Go(p, "settle")
  /\ UNCHANGED <<keychain, file, vault, setting, recorded, todo, used, ghosts, faults>>

FromFile(p) ==
  /\ Start(p)
  /\ env = NoKey /\ Keychain = Unavailable
  /\ allowFile /\ file \in Keys
  /\ Take(p, file, "file") /\ Go(p, "settle")
  /\ UNCHANGED <<slots, vault, setting, recorded, todo, used, ghosts, faults>>

\* The key to seed the slot with: one the folder has, before a new one.
Existing == IF allowFile /\ file \in Keys THEN file ELSE memory
MayGenerate(p) == ~SealedEvidence(p)

Seed(p) ==
  /\ Start(p)
  /\ env = NoKey /\ Keychain \in {NoKey, Unavailable}
  /\ Keychain = NoKey \/ (allowFile /\ file = NoKey)
  /\ \/ Existing \in Keys /\ Take(p, Existing, "keychain") /\ UNCHANGED minted
     \/ /\ Existing = NoKey /\ MayGenerate(p)
        /\ \E k \in Keys \ (minted \cup used["core"] \cup {EnvKey}) :
             Take(p, k, "keychain") /\ minted' = minted \cup {k}
  /\ Go(p, IF Keychain = NoKey THEN "store" ELSE "publish")
  /\ UNCHANGED <<slots, vault, setting, recorded, todo, used, losses, faults>>

\* Keychain::store replaces whatever the slot holds by now.
StoreKey(p) ==
  /\ at[p] = "store"
  /\ \/ reachable /\ keychain' = hold[p].key /\ Go(p, "verify")
     \/ allowFile /\ Go(p, "publish") /\ UNCHANGED keychain
     \/ ~allowFile /\ Go(p, "down") /\ UNCHANGED keychain
  /\ raced' = raced \cup (Held(keychain) \ Held(keychain'))
  /\ UNCHANGED <<file, memory, vault, setting, recorded, hold, todo, used, gone, forgotten,
                 minted, counts>>

ReadBack(p) ==
  /\ at[p] = "verify"
  /\ IF Keychain = hold[p].key
     THEN RetireMatchingLegacy(keychain) /\ Go(p, "settle")
     ELSE UNCHANGED memory /\ Go(p, "down")
  /\ UNCHANGED <<keychain, file, vault, setting, recorded, hold, todo, used, ghosts, counts>>

\* write_key_file: the first to publish wins, the others take its key.
PublishFile(p) ==
  /\ at[p] = "publish"
  /\ file' = IF file \in Keys THEN file ELSE hold[p].key
  /\ hold' = [hold EXCEPT ![p].key = file', ![p].source = "file"]
  /\ Go(p, "settle")
  /\ UNCHANGED <<keychain, memory, vault, setting, recorded, todo, used, ghosts, counts>>

\* resolve: the ladder refused, and another candidate is the recorded key.
LadderRefuses(p) ==
  /\ env = NoKey
  /\ \/ Keychain = Unavailable /\ (~allowFile \/ Existing = NoKey)
     \/ Keychain = NoKey /\ Existing = NoKey
  /\ ~(MayGenerate(p) /\ (Keychain = NoKey \/ allowFile))

Up(p, k, also) ==
  hold' = [hold EXCEPT ![p] = Resolution(k, @.source, @.seen, (Loaded \cup also) \ {k})]

RecoverRefused(p) ==
  /\ Start(p)
  /\ LadderRefuses(p)
  /\ recorded \in Candidates
  /\ Up(p, recorded, {}) /\ Go(p, "up")
  /\ UNCHANGED <<slots, vault, setting, recorded, todo, used, ghosts, faults>>

-----------------------------------------------------------------------------
\* resolve: the key the ladder found against the recorded one.

\* The writes that put the mismatched primary away; a failure is only logged.
PutAway(p, custody) ==
  RetireAll(IF hold[p].source = "env" THEN {} ELSE {hold[p].key}, custody)

Settle(p, k, writes) ==
  /\ Up(p, k, {hold[p].key})
  /\ todo' = [todo EXCEPT ![p] = writes]
  /\ Go(p, "write")
  /\ UNCHANGED <<slots, vault, setting, recorded, used, ghosts, counts>>

SettleRecorded(p) ==
  /\ at[p] = "settle"
  /\ hold[p].seen = hold[p].key
  /\ Settle(p, hold[p].key, <<>>)

SettleMismatch(p) ==
  /\ at[p] = "settle"
  /\ hold[p].seen \notin {NoKey, hold[p].key}
  /\ hold[p].source = "env" => hold[p].key \in Loaded
  /\ hold[p].seen \in Candidates
  /\ \E c \in VaultCustody(hold[p].source = "keychain") :
       Settle(p, hold[p].seen, PutAway(p, c))

SettleUnrecorded(p) ==
  /\ at[p] = "settle"
  /\ hold[p].seen = NoKey
  /\ \/ p # "core" /\ Settle(p, hold[p].key, <<>>)
     \/ /\ p = "core"
        /\ \E r \in Probe(hold[p].key) \ {"failed"} :
             Settle(p, hold[p].key, <<WriteTo("record", hold[p].key, "file")>>)
     \/ /\ p = "core" /\ "failed" \in Probe(hold[p].key)
        /\ \E k \in Candidates \ {hold[p].key}, c \in VaultCustody(hold[p].source = "keychain") :
             /\ "passed" \in Probe(k)
             /\ Settle(p, k, PutAway(p, c) \o <<WriteTo("record", k, "file")>>)

\* KeyMismatch: nothing is written, the process does without a key.
Mismatch(p) ==
  /\ at[p] = "settle"
  /\ \/ /\ hold[p].seen \notin {NoKey, hold[p].key}
        /\ hold[p].seen \in Candidates => hold[p].source = "env" /\ hold[p].key \notin Loaded
     \/ /\ p = "core" /\ hold[p].seen = NoKey /\ "failed" \in Probe(hold[p].key)
        /\ \A k \in Candidates \ {hold[p].key} : Probe(k) # {"passed"}
  /\ Go(p, "down")
  /\ UNCHANGED <<slots, vault, setting, recorded, hold, todo, used, ghosts, counts>>

-----------------------------------------------------------------------------
\* The `keys` command.

\* The file's key, if an installation looks at it: with a key in the keychain it
\* does so only for the recorded one.
FileSeen == IF Keychain \in Keys /\ file # recorded THEN NoKey ELSE file

Plan(writes) ==
  /\ todo' = [todo EXCEPT !["tool"] = writes]
  /\ hold' = [hold EXCEPT !["tool"] = Resolution(Keychain, @.source, FileSeen, {})]
  /\ Go("tool", "write")
  /\ UNCHANGED <<slots, vault, setting, recorded, used, ghosts, faults>>

\* The keys install_current puts into the vault before it replaces anything.
Displaced(k, extra) == (Held(Persistent) \cup RecordedCurrent \cup extra) \ {k}

\* The data that comes with a bundle is sealed under its keys.
Data(ks) == WriteEach("data", ks, "file")

\* Mutant: the record goes first.
RecordFirst(k, custody, data) ==
  IF custody = "file" /\ ~allowFile THEN <<>>
  ELSE <<WriteTo("record", k, custody), WriteTo(custody, k, custody)>> \o Data(data)

StoreWrites(k, custody, data) ==
  IF custody = "file" /\ ~allowFile THEN <<>>
  ELSE <<WriteTo(custody, k, custody), WriteTo("record", k, custody)>> \o Data(data)

\* A keychain that took the key and did not give it back keeps it: the key goes
\* to the file as well.
Tried(k, custody) ==
  {<<>>} \cup {<<WriteTo("keychain", k, c)>> : c \in {custody} \ {"keychain"}}

\* Mutant: what is replaced is put away afterwards.
RetireLast(k, extra, data, c, tried, custody) ==
  tried \o StoreWrites(k, custody, data) \o RetireAll(Displaced(k, extra), c)

InstallWrites(k, extra, data, c, tried, custody) ==
  RetireAll(Displaced(k, extra), c) \o (tried \o StoreWrites(k, custody, data))

\* Mutant: full when past the limit.
FullPast == Cardinality(index) > MAX_RETIRED_KEYS

Full == Cardinality(index) >= MAX_RETIRED_KEYS

RoomFor(ks) == Cardinality(index) + Cardinality({k \in ks : ~Indexed(k)}) <= MAX_RETIRED_KEYS

InstallCurrent(k, extra, data) ==
  /\ RoomFor(Displaced(k, extra))
  /\ \E c \in VaultCustody(TRUE), custody \in VaultCustody(TRUE) :
       \E tried \in Tried(k, custody) : Plan(InstallWrites(k, extra, data, c, tried, custody))

\* adopt_with: any candidate but the legacy key; one the probe rejects with
\* --accept-unreadable.
Adopt ==
  /\ Start("tool")
  /\ \E k \in Held(env) \cup Held(Keychain) \cup Held(file) \cup Loaded : InstallCurrent(k, {}, {})

\* retire_with: not the recorded key, nor the one the keychain slot holds.
RetireKey ==
  /\ Start("tool")
  /\ \E k \in LiveKeys \ {recorded} :
       /\ k = env \/ k # Keychain
       /\ \E c \in VaultCustody(TRUE) :
            Plan(RetireAll({k}, c) \o
                 (CASE k = env  -> <<>>
                    [] k # env /\ k = file -> <<WriteTo("drop file", k, c)>>
                    [] OTHER    -> <<WriteTo("drop memory", k, c)>>))

BundleKeys(b) == {b.current} \cup b.retired

\* import_with: nothing to install when the key is recorded and live already.
Import ==
  /\ Start("tool")
  /\ \E b \in Bundles :
       /\ env \in {NoKey} \cup BundleKeys(b)
       /\ \/ /\ recorded = b.current /\ b.current \in Held(env) \cup Held(Keychain) \cup Held(file)
             /\ \E c \in VaultCustody(TRUE) :
                  Plan(RetireAll(b.retired \ {b.current}, c) \o Data(BundleKeys(b)))
          \/ /\ ~(recorded = b.current
                  /\ b.current \in Held(env) \cup Held(Keychain) \cup Held(file))
             /\ (reachable \/ allowFile)
             /\ InstallCurrent(b.current, b.retired, BundleKeys(b))

-----------------------------------------------------------------------------
\* retire reads the index and stores the key; what it has read goes back with
\* the new entry. A key that is listed is done with; a full index ends the
\* command, and is only logged by a process.
StoreRetired(a) ==
  /\ at[a] = "write"
  /\ todo[a] # <<>> /\ Head(todo[a]).to = "retire"
  /\ LET w == Head(todo[a])
     IN \/ /\ Indexed(w.key) \/ Full
           /\ todo' = [todo EXCEPT ![a] = IF a = "tool" /\ ~Indexed(w.key) THEN <<>> ELSE Tail(@)]
           /\ UNCHANGED <<chained, filed, hold>>
        \/ /\ ~Indexed(w.key) /\ ~Full
           /\ chained' = IF w.custody = "keychain" THEN chained \cup {w.key} ELSE chained
           /\ filed' = IF w.custody = "file" THEN filed \cup {w.key} ELSE filed
           /\ hold' = [hold EXCEPT ![a].index = index]
           /\ todo' = [todo EXCEPT ![a] = <<WriteTo("index", w.key, w.custody)>> \o Tail(@)]
  /\ UNCHANGED <<slots, index, setting, recorded, at, used, ghosts, counts>>

\* One write, one step.
Perform(a, w) ==
  /\ index' = IF w.to = "index"
              THEN hold[a].index \cup {[kcv |-> w.key, custody |-> w.custody]} ELSE index
  /\ keychain' = IF w.to = "keychain" THEN w.key ELSE keychain
  /\ file' = CASE w.to = "file" -> w.key
               [] w.to = "drop file" /\ w.key \in Loaded -> NoKey
               [] OTHER -> file
  /\ memory' = IF w.to = "drop memory" /\ w.key \in Loaded THEN NoKey ELSE memory
  /\ recorded' = IF w.to = "record" THEN w.key ELSE recorded
  /\ used' = [used EXCEPT !["core"] = @ \cup {k \in {w.key} : w.to = "data"}]
  /\ gone' = gone \ {k \in {w.key} : w.to \in Custodies}

\* What an actor replaces that it has not seen.
Replaces(a) ==
  (Held(keychain) \ (Held(keychain') \cup {hold[a].key}))
  \cup (Held(file) \ (Held(file') \cup {hold[a].seen}))
  \cup ({e.kcv : e \in index} \ {e.kcv : e \in index'})

Write(a) ==
  /\ at[a] = "write"
  /\ todo[a] # <<>> /\ Head(todo[a]).to # "retire"
  /\ Perform(a, Head(todo[a]))
  /\ raced' = raced \cup Replaces(a)
  /\ hold' = [hold EXCEPT ![a].index = {}]
  /\ todo' = [todo EXCEPT ![a] = Tail(@)]
  /\ UNCHANGED <<chained, filed, setting, at, forgotten, minted, counts>>

Written(a) ==
  /\ at[a] = "write"
  /\ todo[a] = <<>>
  /\ Go(a, IF a = "tool" THEN "down" ELSE "up")
  /\ UNCHANGED <<slots, vault, setting, recorded, hold, todo, used, ghosts, counts>>

\* A process that has its key seals with it.
Seal(p) ==
  /\ at[p] = "up"
  /\ used' = [used EXCEPT ![p] = @ \cup {hold[p].key}]
  /\ UNCHANGED <<slots, vault, setting, recorded, at, hold, todo, ghosts, counts>>

\* It stops, or crashes wherever it stands; so does the tool.
Stop(a) ==
  /\ at[a] # "down"
  /\ Go(a, "down")
  /\ hold' = [hold EXCEPT ![a] = Nothing]
  /\ todo' = [todo EXCEPT ![a] = <<>>]
  /\ UNCHANGED <<slots, vault, setting, recorded, used, ghosts, counts>>

-----------------------------------------------------------------------------
\* The surroundings: the operator and the keychain.

Idle == \A a \in Actors : at[a] = "down"

SetEnv ==
  /\ Idle
  /\ env' \in {NoKey, EnvKey} \ {env}
  /\ UNCHANGED <<slots, vault, reachable, allowFile, recorded, at, hold, todo, used, ghosts,
                 counts>>

Lock ==
  /\ reachable' = ~reachable
  /\ UNCHANGED <<slots, vault, env, allowFile, recorded, at, hold, todo, used, ghosts, counts>>

\* What is stored, wherever it is.
Stored ==
  Held(keychain) \cup Held(file) \cup Held(memory) \cup
  {e.kcv : e \in {f \in index : f.kcv \in IF f.custody = "file" THEN filed ELSE chained}}

KeychainLoses ==
  /\ Idle
  /\ faults < MaxFaults
  /\ faults' = faults + 1
  /\ \/ keychain \in Keys /\ keychain' = NoKey /\ UNCHANGED chained
     \/ chained # {} /\ chained' = {} /\ UNCHANGED keychain
  /\ UNCHANGED <<file, memory, filed, index, setting, recorded, at, hold, todo, used, raced,
                 minted, runs>>
  /\ gone' = gone \cup (Stored \ Stored')
  /\ forgotten' = forgotten \cup (chained \ chained')

Resolve(p) ==
  \/ FromEnv(p) \/ FromKeychain(p) \/ FromFile(p) \/ Seed(p) \/ RecoverRefused(p)
  \/ StoreKey(p) \/ ReadBack(p) \/ PublishFile(p)
  \/ SettleRecorded(p) \/ SettleMismatch(p) \/ SettleUnrecorded(p) \/ Mismatch(p)
  \/ Seal(p)

Next ==
  \/ \E p \in Procs : Resolve(p)
  \/ Adopt \/ RetireKey \/ Import
  \/ \E a \in Actors : StoreRetired(a) \/ Write(a) \/ Written(a) \/ Stop(a)
  \/ SetEnv \/ Lock \/ KeychainLoses

Spec == Init /\ [][Next]_vars

-----------------------------------------------------------------------------
Places == {"down", "store", "verify", "publish", "settle", "write", "up"}
Entries == [kcv : Keys, custody : Custodies]
Writes ==
  [to : {"retire", "index", "record", "data", "drop file", "drop memory"} \cup Custodies,
   key : Keys, custody : Custodies]

Types ==
  /\ env \in {NoKey, EnvKey} /\ reachable \in BOOLEAN /\ allowFile \in BOOLEAN
  /\ keychain \in Slot /\ file \in Slot /\ memory \in Slot /\ recorded \in Slot
  /\ chained \in SUBSET Keys /\ filed \in SUBSET Keys /\ index \in SUBSET Entries
  /\ at \in [Actors -> Places]
  /\ hold \in [Actors -> [key : Slot \cup {Unavailable}, source : {"env", "keychain", "file"},
                          seen : Slot, retired : SUBSET Keys, index : SUBSET Entries]]
  /\ todo \in [Actors -> Seq(Writes)]
  /\ used \in [Procs -> SUBSET Keys]
  /\ gone \in SUBSET Keys /\ forgotten \in SUBSET Keys /\ raced \in SUBSET Keys
  /\ minted \in SUBSET Keys

\* The types, and the bound the vault keeps.
TypeOK == Types /\ Cardinality(index) <= MAX_RETIRED_KEYS

\* No operation, and no crash in the middle of one, costs the last copy of a
\* key that sealed data of Core: only the keychain's own losses do. The
\* operator keeps the key of the environment, which nothing needs to store.
UsedKeysAreKept == used["core"] \ {EnvKey} \subseteq Stored \cup gone

\* It does, but in two cases: a retired key the keychain lost is not stored
\* again, for the index still lists it; and what a writer has not seen it
\* replaces unseen. That is what another process stored in the keychain slot or
\* the index since it looked, as when two processes start at once on an empty
\* keychain and both store a new key, or a key file beside a keychain that had
\* a key when it looked and does not take the new one (FileSeen).
UsedKeysAreKeptBut ==
  used["core"] \ {EnvKey} \subseteq Stored \cup gone \cup forgotten \cup raced

\* The record of the current key never names a key that is stored nowhere,
\* wherever an operation was interrupted.
RecordNamesAStoredKey ==
  recorded \in {NoKey, EnvKey} \cup Stored \cup gone \cup forgotten \cup raced

-----------------------------------------------------------------------------
(* The invariant the proofs are by.                                        *)

\* Where a key is, or how it was lost: no step takes a key out of it. The
\* operator keeps the environment's.
Safe == Stored \cup gone \cup forgotten \cup raced
Accounted == {EnvKey} \cup Safe

\* The key of an index entry is stored, unless the keychain lost it.
Kept(e) == e.kcv \in forgotten \cup (IF e.custody = "file" THEN filed ELSE chained)

\* So it is of an entry that an actor read or is about to add.
VaultIsKept(a) ==
  /\ \A e \in hold[a].index : Kept(e)
  /\ \A i \in 1 .. Len(todo[a]) :
       todo[a][i].to = "index" => Kept([kcv |-> todo[a][i].key, custody |-> todo[a][i].custody])
  /\ at[a] # "write" => todo[a] = <<>>

\* A process has a key that is somewhere, replaces none and records one.
ProcessInv(p) ==
  /\ VaultIsKept(p)
  /\ at[p] \in {"store", "verify", "publish"} => hold[p].key \in Keys
  /\ at[p] \in {"settle", "write", "up"} => hold[p].key \in Accounted
  /\ \A i \in 1 .. Len(todo[p]) :
       /\ todo[p][i].to \in {"retire", "index", "record"}
       /\ todo[p][i].to = "record" => todo[p][i].key \in Accounted

\* An earlier write of the tool's is of the key.
Before(i, k, tos) ==
  \E j \in 1 .. i - 1 : todo["tool"][j].to \in tos /\ todo["tool"][j].key = k
PutsAway == {"retire", "index"}

\* What it saw in a slot goes into the index before it is replaced.
SeenIsPutAway(i, k) ==
  k \in Keys /\ k # todo["tool"][i].key => Indexed(k) \/ k \in raced \/ Before(i, k, PutsAway)

\* And a key is recorded, or has sealed what is imported, once it is somewhere;
\* what is dropped is what was seen.
WriteInv(i) ==
  LET w == todo["tool"][i] IN
    /\ w.to = "keychain" => SeenIsPutAway(i, hold["tool"].key)
    /\ w.to = "file" => SeenIsPutAway(i, hold["tool"].seen)
    /\ w.to \in {"record", "data"} =>
         w.key \in Accounted \/ Before(i, w.key, PutsAway \cup Custodies)
    /\ w.to = "drop file" =>
         /\ file = w.key /\ i = Len(todo["tool"])
         /\ \A j \in 1 .. i : todo["tool"][j].to # "file"
    /\ w.to = "drop memory" => memory \in {w.key, NoKey}
ToolInv == VaultIsKept("tool") /\ \A i \in 1 .. Len(todo["tool"]) : WriteInv(i)

CustodyInv ==
  /\ Types
  /\ \A e \in index : Kept(e)
  /\ \A p \in Procs : ProcessInv(p)
  /\ ToolInv
  /\ UsedKeysAreKeptBut /\ RecordNamesAStoredKey

\* And the index has room for the entry that is next to be written, whoever
\* else wrote it since it was read.
RoomFollows(a) ==
  \A i \in 1 .. Len(todo[a]) :
    todo[a][i].to = "index" => i = 1 /\ Cardinality(hold[a].index) < MAX_RETIRED_KEYS
RoomInv ==
  Cardinality(index) <= MAX_RETIRED_KEYS /\ \A a \in Actors : RoomFollows(a)

=============================================================================
