# Verification of ryu-subtitles

TLA+ models of the subtitles sidecar in `src/backend` and of the parts of
`src/crates/core` it stands on, the TLC runs that check them on small instances
and the theorems TLAPS proves for every instance. `PROJECT.json` holds the tables:
components, runs, the mutants each property is tested against, the source lines
behind every definition, the hazards, the findings and the theorems.

## 1. The system

A user asks for the subtitles of a video. The process keeps a table of jobs; one
worker takes the oldest queued job, decodes the audio into windows of about thirty
seconds, has a speech engine transcribe each, has a model translate the lines in
batches of twenty-five, stores the cues and writes a file beside the video. An HTTP
interface creates, lists, cancels, retries, deletes and downloads jobs while the
worker runs. All text columns are sealed under a key the process is handed.

| Part (source) | State | Operations that change it | Hard behaviour | What makes it correct |
|---|---|---|---|---|
| job store (`store.rs`) | table `jobs`, settings, the key state fixed at open | create, compare-and-set of the status, progress, cues, output path, options, requeue, delete, reset at boot | each call is atomic, nothing is across two calls | a terminal row is frozen; the completion stamp means finished |
| job worker (`engine.rs`) | the loop, the locals of `run_job`, detached progress tasks, the `Notify` permit | pick up, claim, transcribe, translate, commit, publish, announce, fail | some twenty awaits between which the row may change; calls that fail; a crash anywhere | no late result overwrites, one job at a time, every job ends, no lost wake-up |
| HTTP interface (`api.rs`) | requests under way | create, retry, cancel, delete, download, put settings | check in one store call, act in another | retry only what is finished, cancel stops the run |
| process (`main.rs`) | which tasks live | start, stop, crash | everything but the database and the files is lost | rows do not claim to run after a restart |
| decoder (`media.rs`) | resampler carry, samples and frame energies of the window under construction, staged windows, bounded channel | push a sample, cut, hand over | a blocking sender, a consumer that leaves | no sample lost or twice, every task ends |
| translation (`translate.rs`) | replies by line number | batch, single-line retries, apply | answers out of order or misnumbered | a line gets what came for it: numbered so, or asked for alone |
| cues (`cues.rs`) | none | segments to cues, normalize, split, render | millisecond boundaries | in order, apart unless they start in the same millisecond; what is dropped is named |
| settings (`api.rs`, `store.rs`) | one row | a request reads all, changes what it names, saves all | a read that fails, two requests at once | a field nobody names keeps its value |
| sealed store (`crypto/content_sqlite.rs`, `content.rs`, `plugin_keys/`) | cells, migration items, key record, debts of scrubbing | open, migrate in batches, move the record, scrub, vacuum, defer a compaction | crash between two commits, a second process without the key, a retired key | no plaintext is served or left behind, no store holds values no one key opens |
| custody (`crypto/custody.rs`, `lib.rs`, `app_key.rs`) | environment, keychain, key files, vault of retired keys and its index, record of the current key | find, create, install, adopt, retire, import | crash between two writes, a locked keychain, two processes | a key that sealed something is kept, and found |
| plugin root (`plugin_keys/files.rs`, `process_keys.rs`) | root file and its pin | create, fill, pin | two processes that start at once, a crash | one key seals the plugin's data |
| sealed values (`sealed.rs`, `secret_file.rs`, ciphers of `lib.rs`) | one stored string | save, load, reseal | values that look sealed, old keys, copied values | a value is what was stored, sealed once |
| sealed log and file (`sealed_log.rs`, `sealed_file.rs`) | a file of frames, a file of chunks | create, append, sync, recover, compact; seal in place, read | torn tail, failed write, crash between steps | what was synced is read back; a file is whole |
| vector index (`vector_index.rs`) | vectors by partition, one budget | hydrate, upsert, remove, drop, search | eviction, rows read before the lock | memory is the store's, and counted |
| app events (`app-events`) | a stream half read, a call under way | receive, cut, close; send, time out, read the answer | chunk boundaries, an answer that races a timeout | every frame once, one end; no call reported refused that was taken |
| library, speech engines, sidecar runtime, languages | none, or a cache | | | section 6 |

How they interact: the handlers and the worker share the store (one async mutex,
one statement per call) and one `Notify`; the worker starts the decoder on a
blocking thread and reads windows from a channel of capacity two; progress is
written by separate tasks nobody waits for; events are handed to an emitter.

The sealing and custody of keys is a library below all this: the store opens its columns
through it, and a process of this plugin meets its key in one of the ways `PluginRoot`
lists. The log, the file, the vector index and the calls to Core are other users' parts of
the same crates.

The hazards in `PROJECT.json` are what a test of this code would hardly reach; each names
the properties that cover it, or says why none does.

## 2. Modules

| Module | Models |
|---|---|
| `JobStore` | `store.rs`: each method as a function from the row it addresses to the row it leaves |
| `Engine` | `engine.rs` and the loop of `translate.rs`: the worker, one action per await |
| `Api` | `api.rs`: the handlers that change a job, one action per store call |
| `Sidecar` | `main.rs`: worker and handlers over one store, crash and restart; all properties |
| `JobLifecycle` | abstract: what a user is promised about a job |
| `WindowCutter` | the `WindowAccumulator` of `media.rs`: samples in, windows out; operators on a record |
| `Transcription` | `decode_windows` on its thread, the bounded channel, the progress task, the loop of `run_job` that takes the windows; all properties |
| `Translation` | `translate_cues`: batches, numbered replies, single-line retries |
| `Cues` | `cues.rs`: placing, splitting, normalizing |
| `Resampler` | the `Resampler` of `media.rs`, with exact positions |
| `Settings` | `put_settings` under concurrent requests and failing calls |
| `ContentSeal` | `content.rs`, `store_seal.rs`, `reseal_value`: one value sealed, opened, migrated; operators |
| `ContentStore` | `open_store`: key record, reopening, migration, scrub and vacuum, transaction by transaction; reads and writes of the open store, a second process without the key, crashes |
| `Compaction` | the queue of deferred compactions and its thread |
| `KeyCustody` | `custody.rs` and the ladder of `lib.rs`: where the master key is, for two processes |
| `AppKey` | `app_key.rs`: the same ladder for one app's own key |
| `PluginRoot` | `plugin_keys/files.rs`, `process_keys.rs`: the root key of a plugin's folder |
| `SealedValues` | four ciphers of single values and three ways to store them |
| `SealedLog`, `SealedFile` | the file formats, their writers, readers and crashes |
| `VectorIndex` | partitions, budget, hydration, eviction |
| `ModelStream`, `HostCalls` | `app-events`: the stream client and the calls to Core |
| `KeyParts`, `StoreParts`, `AppParts` | the fifteen modules above that have a state, in three groups, side by side, with their constants, specifications and properties |
| `PartVars`, `Parts` | the variables the groups share, and the three groups side by side; their run |
| `MCSidecar`, `MCTranscription`, `MCParts` | symmetry, the packets, and the keys and files, for TLC |
| `MCContentStore`, `StoreFiles`, `SpokenSegments` | the stores, and what an engine answers, that the runs start from |
| `SidecarProofs` | theorems about `Sidecar`: of all clients, of patient clients |
| `TranscriptionProofs` | theorems about the cut and about the decoder |
| `KeyProofs`, `StoreProofs`, `AppProofs` | theorems about the three groups |
| `SealedProofs` | those about the two parts of the second group that are sealed in a file of their own |
| `PartsProofs` | that `Parts` is its groups, and the types of all of them |
| `LeastNumbers` | two lemmas several of them use |

`Sidecar` composes `JobStore`, `Engine` and `Api` over one store. `Transcription` looks
inside three steps of `Engine`: what is there a window, an error or the end of the
windows is here the decoder, the channel and the samples. `ContentStore` is built on the
operators of `ContentSeal`.

`Parts` composes modules that share no state: a behavior of it is a behavior of one of
them, chosen at the start. Each is an `INSTANCE` over the variables of `PartVars` with its
own bounds, and the run looks at them all; nothing is claimed about two of them at a time.
The three groups between exist for the proofs: a theorem about `KeySpec` is one about
`Spec` too, since a behavior of `Spec` is one of a single group (`PartsAreSeparate`), and
the prover is spared what the other groups define.

### State and actions

`rows[j]` is a row of the table. `status`, `progress`, `cues`, `error`, `stamped`
(completed_at is set), `output`, `opts` (format and layout) and `created` are
columns, their data cut down to what the properties distinguish: the cues are
absent, a transcript or translated; the progress is one of the values the code
writes, in order. `attempt` and `cuesOf` are not columns: `attempt` counts
create and requeue, so that a property can say *which* run did something, and no
guard of the code's actions depends on them. A row that does not exist is
`absent`, and an id is never used twice (ids are random UUIDs).

A store method holds the connection's mutex for one statement, so it is one step.
The status guard `status NOT IN (terminal)` is `Active`; the methods that carry it
(`set_status_if_active`, `cancel_if_active`, `complete_if_active`, `set_progress`,
`set_cues`) leave a row that is not active as it is, and those that do not
(`requeue`, `set_output_path`, `set_render_options`) do not.

`pc` is the await at which the worker stands and `run` the locals of `run_job`.
Each action of `Engine` is the code from one await to the next, with its branches:
for example `WindowCheck` is the cancellation check between two windows, with
`drop(rx)` and the abort of the progress task where it leaves. Calls to things
outside the process (the source file, the decoder, the speech engine, the
model, the disk) are choices over their outcomes. `writes` holds the progress writes that were spawned and
have not run: they may run at any later time, in any order. `wake` is the permit of
`Notify`, which `notify_one` leaves behind when nobody waits. `StoreError` is a
failing store call of the worker, at any await that makes one, followed along `?`,
the `unwrap_or(false)` of the Err arm or the `Err(_) => true` of `is_canceled`.

In `Api`, `req[c]` is what the request of client `c` has still to do, so a handler
that reads the row and then writes is two actions with everything else in between.
`canceled` records the cancellations that were accepted.

`Restart` is a crash or a shutdown and the next start: the table, the written files
and the emitted events stay, all else is gone. At a restart the process may find
itself with a key that does not open the store (`KeyStates`): it then serves reads
that need no key, refuses the rest and hands the worker nothing.

`Patient` restricts the *clients*: they retry a job only while no run holds it and no
other retry of it is under way. Progress writes an earlier run has detached may still be
outstanding, and land on the row after the retry (`late_progress`, section 4). The code does
not enforce any of this. The properties of the run `patient` need it: two of the findings,
`retry_while_running` and `two_retries`, show what happens without.

`JobLifecycle` has a phase and an attempt per job and six moves. `Sidecar!L` maps
the two running statuses to one phase; the process implements it for patient
clients and a store that does not fail.

### The decoder

A sample is its energy, a natural number: neither the cut nor any property looks at
anything else, and equal energies let TLC tell speech from silence. A packet is a
short sequence of samples, already resampled; `decoded` is a history variable, every
sample pushed so far, and `closedAt` how many there were when the receiver was dropped.
No guard reads either but the bound on the length of a file.

The decoder pushes the samples of a packet (`PushSample`), then hands over what became
ready (`DrainReady`, `Send`), then reads on. `Send` is `blocking_send`: it waits for room
and returns an error once the receiver is gone (`SendRefused`). `StreamError` ends the
stream where the code returns an error, which travels as the last message. A packet that does not
decode is skipped by the code with no trace and so is no step of the model. The consumer
receives, checks for cancellation, transcribes. `Stop` drops the receiver and then
waits for the decoder, `TranscriptionFailed` and `ReceiveError` leave through `?` and wait
for nobody. The resampler and the container are outside the module.

### Translation, cues, audio, settings

The model answers anything: a reply is a set of numbers, right or wrong, and an answer is
known by the number the model gave it and the line it was asked for alone, so that a cue with
another's text shows. A line asked for alone takes the reply's first line as it stands,
whatever number that carries. A text of `Cues` is the number of its characters, 0 for a
silence marker, and where `split_text` breaks it is left open within the budget. `dropped`
counts the text of the windows whose segments were all silence markers. A position of `Resampler` is counted in parts of a source sample, so it
is exact; the code's are floating point. Each request of `Settings` reads, then saves;
either may fail, and a failed read is the defaults.

### Sealing

Where a value's text decides anything it is by what it starts with: a text is a short
sequence of tokens, some of which are envelopes. A root key is a number; a value sealed
under a root at a place opens there and nowhere else. That is the assumption on the
ciphers, and nothing about cryptography is claimed beyond it.

A step of `ContentStore` is one SQLite transaction, or one of the file's maintenance
commands; a crash keeps what was committed. `cells` are the rows of the migrated columns,
`items` the state and cursor of a column's migration, `rec` the key record, `residue` the
plaintext the file still holds in its log, on free pages and inside used ones. `guest` is a
process without the key that opened the same file, which writes plaintext or refuses.
`wrote`, `writes`, `replaced` and `late` are history: what a user stored, what a migration
replaced, and which plaintext came in behind the cursor.

A value of `SealedValues` carries what it really has: its envelope, the id of the key it lies
under (none for a field, whose key is the master key itself) and, as `home`, whether it was
sealed for this record, which only a tenant's envelope covers. `CopyIn` puts here a value of
another store or record; where that lies under a key this store opens (`SharesKey`), it opens
here too, and is the *planted* text.

In `KeyCustody` an operation reads in one step and then writes one file or keychain entry
at a time (`todo`), and may stop before any of them; a key that is put away reads the index
first, stores the key, and then writes back the index it has read with the new entry
(`StoreRetired`, `hold.index`). `used` are the keys that sealed
something, `gone` those the keychain lost, `forgotten` and `raced` the two ways of section
4 in which the code itself loses one. `AppKey` resolves in one step, for there is one
process. In `PluginRoot` the steps on the two files of several processes interleave.

`SealedLog` keeps the file as a header and pieces, where a torn frame is short, blank or
zeros; `durable` is what was synced, `carried` what compactions made of it, `careless` that
a writer went on after a failed append. `SealedFile` seals a copy chunk by chunk, with several
sealers and crashes. A sealer looks whether the file is sealed (`CheckPlain`) and opens it again
by its name later (`OpenSource`), so what it reads (`source`) may be what another has put there
meanwhile, and is then sealed a second time; a file is a sequence of units, each with the chunk it belongs to, so that
a slice at the wrong place shows. The last chunk is written (`Finish`) and the file synced
(`SyncCopy`) in two steps, and until the second a crash may cut the copy anywhere. `VectorIndex` has the rows of the store beside what is in memory: a hydration reads
the rows (`ReadRows`), builds a partition and stamps it (`Build`), and then takes the lock
(`Hydrate`); a change is stored first and told later. The clock that `last_used` stands for is
replaced by what it decides: of each partition in memory, which ones were used before it
(`recency`), and which ones since a hydration under way got its stamp (`newer`).

### Core

The wire of `ModelStream` is a sequence of lines; a chunk ends after any of them. The
grammar of frames is stated again by `Events`, which reads the whole body at once, and the
client that cuts chunk by chunk is compared with it. `HostCalls` is one call of any of the
seven kinds, from the refusals before it is sent to the answer, the timeout and what the
app is told.

## 3. Runs

| Run | Instance | Question |
|---|---|---|
| `races` | 2 arbitrary clients, 1 job, 2 attempts, 1 failing store call, 1 restart with or without the key, fairness | Whatever clients do, does a late write or event contradict the row? Is a wake-up lost? Is a running row owned, is a queued job served, does every job end? |
| `patient` | 2 patient clients, 1 job, 2 attempts, 1 restart, 2 windows, 2 batches, 2 calls per batch | Is a completed job its own work, does a cancellation stop the run and its publication, is every outcome announced, is it a `JobLifecycle`? |
| `queue` | 2 jobs, 1 client, fairness | Does the worker serve the queue, one job at a time, as `JobLifecycle!FairSpec` says? |
| `retry_while_running` | 1 client, 2 attempts | violation: section 4 |
| `two_retries` | 2 clients, 3 attempts | violation: section 4 |
| `late_progress` | 1 patient client, 2 attempts | violation: section 4 |
| `stuck` | 1 failing store call | violation: section 4 |
| `windows` | packets of 4 spoken and 3 silent samples, files of up to 30, frames of 4, band 4 to 12, fairness | Does the engine hear the file, in bounded memory, and does every task end on every path? |
| `silence` | packets of 4, files of up to 32, frames of 2, band 4 to 12 | violation: section 4 |
| `parts` | fifteen modules, bounds below | Are stored values sealed and read back, keys kept, logs and files whole after a crash, vectors counted, streams heard, subtitles in their place? |
| `content_store_retired` | 2 columns, 2 rows, a store under a retired root | violation: section 4 |
| `wrong_number` | 3 lines in batches of 2 | violation: section 4 |

Deadlock is checked in every run of the process: the re-poll timer keeps the worker from
ever having no step. `Transcription` is one run of one job and stops when its tasks
have ended; that they do is `EveryTaskEnds`, which a deadlock would violate. A part of `Parts`
stops at its bounds, so deadlock is not checked there; in `Compaction`, whose thread is the
only thing that could wait, a job left behind is what `QueuedJobsHaveAWorker` forbids.

**Bounds.** Every bound is a constant with a comment. One job is enough where a
property speaks of one row: jobs interact only through the worker, which `queue`
looks at with two. Two attempts are the least for a write of an earlier attempt to
meet a later one, three for the second of two retries to find the first one
running. Two clients are the least for two handlers to interleave; a third would have
to act between two actions of the others, which the same client can do after its
reply. Two windows, batches and calls (`patient`) are the least for "the next window, batch or
call does not happen". A format is one value in the runs, since no property asks which was
chosen. One failure and one restart: the proofs cover any number of all these.

For the decoder: 30 samples make at least three windows and a remainder, so that the
channel of two fills and the sender waits; a frame of 4 and packets of 3 and 4 let a
packet end inside a frame and a cut fall inside a packet; a band of two frames holds a
choice of the quietest frame and, after a cut that leaves no measured frame in it, the
nominal cut. A millisecond is two samples, so that an offset could be lost to rounding.

For the parts, the bounds are in `Parts.cfg`. *Store:* two columns (text and bytes) of two rows,
batches of one, so that a crash falls between two batches and two items; one write of each
writer behind or before the cursor; three roots (current, retired, foreign). *Custody:* three
keys, two processes, two runs, one fault, a vault of two, which fills. *App key* and *plugin
root:* four runs, so that a key set aside can be met again. *Values:* two master keys, two
processes, two writes; three ids, so that there are another plugin, component and tenant.
*Queue:* two stores, three deferrals, so that one meets a worker about to end. *Log:* three records, two crashes, one key change. *File:* three
units in chunks of two, so that the last chunk is partial or full; three sealers, so that one
seals what the second has put in place while the third interferes; one crash. *Vectors:* two
partitions and room for one. *Stream:* four lines, enough for a frame cut anywhere and one
after the end. *Translation:* three cues in batches of two, the last one short. *Cues:* two
windows, since only neighbours meet. *Resampler:* rates below, at and above the target, six
samples. *Settings:* two requests.

**Fairness.** Weak fairness of the worker's own steps (`WorkerStep`): the runtime
schedules the task, the engine, the model and the disk answer or time out, the
decoder reaches the end of the file, and waiting for the permit ends if it is there.
Weak fairness of `NotifyOne`: between the statement that queues a job and
`notify_one` a handler has no await. None is assumed of the five-second timer, so
`QueuedIsServed` shows that the permit alone suffices; none of the spawned progress
writes; none of clients, failures or restarts. In `Transcription`, weak fairness of each of
the three tasks: the thread and the tasks are scheduled, the file ends, the engine answers. None of a
particular outcome: whether a run is canceled or fails is left open. The parts are checked for
safety only.

**What a step may never do.** `TerminalIsFrozen` and `ForeignStoreIsKept`, and of the findings
`RetryOnlyTerminal` and `RecordMovesWhenResealed`, are properties of steps; all others are
invariants, liveness or refinement. Some properties of `Parts` are the conjunction of two that belong together
(`MasterKeysAreKept`, `AppKeysAreKept`, `OneKeySealsThePluginsData`, `SealedFileIsWhole`,
`VectorsAreAccounted`; in the other runs `CancelIsObeyed` and `DecoderIsBounded`) or
that concern one another's inputs (`SubtitlesAreInPlace`); the
modules state and explain each by itself. Every
property is tested against a mutant: a plausible bug (a dropped status guard,
a missing reset of a column, a permit given only to a worker that waits) with which
TLC must find the property violated. The mutants stand next to the definitions they
replace and are part of no specification.

## 4. What the code does not keep

* **Retry while the run is still on its way out** (`retry_while_running`).
  `is_canceled` (engine.rs:424) asks whether the status *is* canceled. Cancel and
  retry between two checks and the canceled run does not notice: it goes on in the
  row of the new attempt, whose cues `requeue` has just wiped, and may complete it
  with none. The retried run never happens.
* **Two retries** (`two_retries`). `retry_job` reads the status in one call and
  re-queues in another that has no status guard (store.rs:566). The second of two
  retries re-queues a running job, although api.rs:492 promises 409.
* **Progress of an attempt that is over** (`late_progress`). Progress is written by tasks nobody
  waits for: those of translation (engine.rs:320), and the one that follows the decoder
  (engine.rs:222), which an error of the engine or the decoder leaves running (the returns of
  engine.rs:248 and 267 come before the abort at 277). `set_progress` (store.rs:501) spares
  terminal rows only, so once a retry has queued the job again such a write lands on it, and a
  queued job shows progress, although `requeue` is to clear "its previous outcome"
  (store.rs:563). Waiting until the run is over does not prevent it.
* **One failed read** (`stuck`). When the read in `is_canceled` fails the run stops as
  though canceled, and the row goes on claiming to run until the next restart;
  retry answers 409. `RunningIsOwnedOrFaulted` shows that nothing else causes it.

* **The quietest frame** (`silence`). `cut` clears the frame energies and keeps the
  samples after the cut (media.rs:437). Frame *i* of the next window is then measured over
  samples that lie as far behind as the kept tail is long, while `quietest_cut` reads it
  as the frame at *i*. From the second window on the cut can fall in speech although the
  band holds a silence of two frames. Nothing is lost: `windows` and the theorems show
  that the windows are the audio wherever the cuts fall.

* **The key record moves too early** (`content_store_retired`). content_sqlite.rs:707 says that a
  store under a retired root is to be reset with `reset_items` and then migrated. `open_store`
  (plugin_keys/sql.rs:228) migrates without the reset: finished items stay finished, and one
  item that is new or reopened makes "all items sealed" true and moves the record to the
  current root while the values of the others are under the retired one. Whether a value
  stayed unreadable is counted per call as well, so a crash after one has the same effect.
* **A line numbered for another** (`wrong_number`). When the reply to a line asked for alone
  lacks that line's number, `single_line_fallback` (translate.rs:159, 222) takes its first line
  as it stands. translate.rs:220 calls this the first line "of a reply that carries no
  numbering at all", but nothing looks for a marker: a line numbered for another cue becomes
  this one's translation, marker included, against "a visibly untranslated line rather than a
  wrong one" (translate.rs:25-27). A batch's answers are held to their numbers:
  `TranslationsAreInPlace` shows that this is the only way.

What a property excuses, each by a named set or history variable, is a way the code loses
something:

* `UsedKeysAreKeptBut` (custody): a retired key the keychain lost is not stored again, because
  the index still lists it (`forgotten`, custody.rs:416); a key is replaced by a writer that had
  not seen it (`raced`): two processes that start at once on an empty keychain both store a new
  key, an installing one replaces what a starting one put in the slot meanwhile
  (custody.rs:1000), and of two that retire keys at once the later writes back the index
  without the other's (custody.rs:420). An installation that finds a key in the keychain does
  not look at the key file (custody.rs:928) unless the file's key is the recorded one: if the
  keychain then does not take the new key, the file is overwritten with it, and what key it
  had is in no vault.
* `SyncedRecordsAreKept` (log): a writer that goes on after an append that failed half way
  appends behind the torn frame (`careless`, sealed_log.rs:405).
* `SealedFileIsWhole` (file): two sealers share the name of the copy, and one may rename the
  other's unverified (`overtaken`, sealed_file.rs:556). And a file may be sealed twice: the
  check (sealed_file.rs:542) and the reading (sealed_file.rs:562) each open it by its name, and
  a sealer that was overtaken in between seals the sealed file, verifies that copy and renames
  it, although sealed_file.rs:536 says "Idempotent". The property allows it: each of the two
  reads back to all of what it was made from, so nothing is lost, but a reader of the file gets
  the bytes of a sealed file.
* `SubtitlesAreInPlace` (cues): two cues that start in the same millisecond are on screen together
  for one, because each is shown for a millisecond at least (cues.rs:202), although the pass is
  to "stop them overlapping" (cues.rs:181). The text of a window whose segments were all
  silence markers is not used (`dropped`): cues.rs:145-148 speaks of that case as one that gets
  the text of the window as a cue, but the test is for no segments at all.
* `SealedValueIsSound` (values): that a value was sealed *here* shows only where the envelope binds
  it. All fields lie under the master key and `enc:v1:` has no id, so a field's value opens in
  every other store of fields; those of a plugin or component open in all its records; and a
  tenant's migration opens any field's value, the plant lib.rs:947-949 warns of. What the
  property excludes is a value under another key, and one of another record of a tenant.
* `QueuedJobsHaveAWorker` (queue): a worker thread that cannot be started leaves its job to the next
  deferral or to maintenance (`unstarted`, content_sqlite.rs:1307).
* `ServedSealed` (store): plaintext written behind the cursor while a column is migrated stays
  until the next open (`late`), and cells of a BLOB column are never reopened.
* `MemoryIsTheStore` (vectors): a row that changes while its partition is on the way to memory
  is stale there until the next hydration, and so is an insert told after its partition was
  dropped and hydrated again (`raced`).
* `UnnamedIsKept` (settings): a failed read saves the defaults over every field (`misread`,
  api.rs:208). Of two requests that name the same field, or different ones, the last to save
  may undo the other: the property says only that what nobody names is kept. The source
  promises no more.

Smaller observations without a run: `requeue` says it clears the previous outcome
and keeps `output_path`; `set_render_options` says "on a finished job" and `download`
calls it as soon as there are cues; after a store failure in `set_output_path` a
completed job is never announced, nor after a crash between the commit and the event
(`OutcomeIsAnnounced` is stated for no failure and no crash); `split_long` means to split a cue
that stays for longer than `MAX_CUE_MS` (cues.rs:209), but splits text, by length, so that a
short text is one part and stays; the offset of a window counts decoded
samples (media.rs:224), so after a skipped packet it is no longer the place in the file
media.rs:70 speaks of. A crash between creating and filling `standalone-root.key` leaves an
empty file that every later start refuses (plugin_keys/files.rs:74). `check_store_key` reads and
records in two statements. A store without a key refuses bytes that begin with one of Ryu's
magics only where it is `RYU-CB01`, though its comment says "a Ryu envelope header".
lib.rs:1351 says a differing `memory.key` "stays a retired key", but resolution takes retired
keys from the vault alone. A log under a retired key whose tail is torn can neither be appended
to nor compacted, and one whose first frame is torn does not recover. An upsert into the only partition goes past the vector budget. The stream client ends a frame at
`\n\n` only, so a body with CRLF has none; it does not look at an event's request id; and a last
frame without an empty line is a stream without an end. A 2xx whose body cannot be read is
reported as a failure of transport though Core took the call.

## 5. Proofs

`SidecarProofs` proves for any set of jobs and clients and any bounds, with failures
and restarts, from the named assumptions on the constants:

| Theorem | Property |
|---|---|
| `TypeCorrect` | `TypeOK` |
| `StampCorrect` | `StampMeansFinished` |
| `FrozenCorrect` | `TerminalIsFrozen` |
| `PublishedCorrect` | `PublishedMatchesRow` |
| `OwnedCorrect` | `RunningIsOwnedOrFaulted` |
| `WakeCorrect` | `NoLostWakeUp` |

*Rows once, worker after.* `RowMove(j)` says what a step may do to row `j`: one of the
statements of the store, and those only the worker makes only at their await and on
the job in hand. `RowsStep` proves that every step is a `RowMove` of every row, by one
case per action that writes the table. What a statement preserves (`RowStepType`,
`RowStepStamp`, `RowStepFrozen`, `OutsideStepStatus`) is then a question about
one row and no longer about forty actions.

*Types.* `TypeOK` is not inductive: a counter of the run stays in range because of the
await the worker stands at. `RunInv` adds that, and `HasAttempt` that a row which exists
has entered the queue. `StampMeansFinished` and `TerminalIsFrozen` follow from the row
lemmas and this.

*Published.* An event and a file come after the commit, and the row may be re-queued in
between. `Settled(table, j, a, k)` says that row `j`, while `a` is its attempt, has
outcome `k` or was deleted; a row that is settled stays so, whatever statement runs
(`SettledStep`). `PublishedInv` adds to the property that the run's own attempt is
settled at the awaits after the commit, and that no attempt is ahead of its row.

*Owned.* `OwnedInv` adds that after the commit, or the failure's own write, the row does
not claim to run. Only claiming a job and starting its translation make a row running
(`NotStarted`), both on the job in hand; and a run that is left leaves a row that is not
running (`LeftBehind`), because every return follows a check that saw it so, or a failed
compare-and-set, or a failing store call, which `errs` counts.

*Wake-up.* `WakeInv` states the property of "some job is queued" rather than of what
`next_queued` would hand out, and so is inductive: a row that becomes queued has a request
that still has to notify. That a worker which got nothing from `next_queued` saw no queued
job needs a least creation stamp (`QueueHasHead`), by the well-founded order of the
naturals (`LeastNumber`).

`TranscriptionProofs` proves, for every length of frame, band, packet
and file and every capacity of the channel that the two assumptions allow:

| Theorem | Property |
|---|---|
| `CutPlace` | a cut lies in the band, at a whole millisecond |
| `PushCut` | the push that fills a window stages its head and keeps exactly the rest |
| `TranscriptionTypes` | `TypeOK` |
| `WindowsFaithful` | `WindowsAreTheAudio` |
| `WindowsBounded` | `WindowBounds` |
| `AllIsHeard` | `NothingIsLost` |
| `DecoderBounded` | `DecoderIsBounded` |

*The cut.* `CutterAssumption` is what the code's constants have in common: a frame is an
even number of milliseconds, the band is made of whole frames, the nominal cut is a whole
millisecond. From it `CutPlace` follows whatever the energies are; that a band which is
not empty has a quietest frame needs `LeastNumber` twice.

*The line.* A window is staged, then in the decoder's hand, then in the channel, then
taken. `Flow` is the concatenation of the four. `Transfers` proves that handing a window
on leaves `Flow` as it is, so a claim about `Flow` is disturbed only by a cut (`PushFlow`)
and by the remainder (`LastWindowFlow`), which append a window that begins where the line
ends (`ChainAppend`). `FlowInv` says that the line is a chain of adjacent, faithful windows
and ends where the accumulator begins, `AccInv` that the accumulator holds the audio from
there on. Once the receiver is gone the line breaks, and what was taken, a prefix of
it, remains a chain (`TakenInv`, `ChainPrefix`).

*The rest.* `BufferInv` counts the staged windows: after a cut the tail and the rest of the
packet are too short for a second one. `StopInv` measures how far the decoder comes after
the receiver is dropped: while nothing is staged it is no further than the window under construction is
long, and the next window it sends is refused. `SliverInv` says what a decoder that is
through has left, and ties the receiver to where the consumer stands. All of them were
run as invariants on the instance of `windows` before they were proved.

`SidecarProofs` also proves, under the hypothesis `Patient` (clients retry a job while no run holds
it, section 2), for any number of jobs, clients, retries, failing store calls and restarts:

| Theorem | Property |
|---|---|
| `CompletedCorrect` | `CompletedIsItsOwnWork` |
| `CancelCorrect` | `CancelIsObeyed` |
| `AnnouncedCorrect` | `OutcomeIsAnnounced` |
| `LifecycleCorrect` | `Lifecycle`, where no store call fails (`MaxStoreErrors = 0`) |

*One attempt at a time.* `PatientInv` is what patience buys: a request that will re-queue a
job finds it terminal and unheld (`RequeueInv`); so the job in hand is in the attempt it was
picked up in (`HoldInv`). Of the progress writes of earlier runs it says nothing: they land
whenever they do, and what follows does not depend on them. On it rest `CuesInv` (from its
transcript on, an active row in hand has the run's own cues), `CanceledInv` (an accepted
cancellation is settled as the outcome of its attempt, which is not the one about to be
announced) and `LateInv` (a run that made a call for a canceled job cannot make a second:
every way to the next call passes a look at the row). `retry_while_running` and `two_retries` of
section 4 are the counterexamples without the hypothesis.

*Refinement.* `LifecycleCorrect` maps each step of the process to a move of `JobLifecycle` or a
stutter. It needs `OneRunning`, at most one row claims to run, which a failing store call
breaks (`stuck`, section 4): hence the second hypothesis, under which the run checks it too.

`StoreProofs` and `SealedProofs` prove of `StoreSpec`, for any columns, rows, batch sizes,
ciphers, values, records, keys, sizes of chunk and file, sealers and crashes:

| Theorem | Property |
|---|---|
| `ServedCorrect` | `ServedSealed` |
| `ReadsCorrect` | `ReadsBack` |
| `CipherCorrect` | `OneCipherOpensAll` |
| `ScrubCorrect` | `OkMeansScrubbed` |
| `ForeignCorrect` | `ForeignStoreIsKept` |
| `QueueCorrect` | `QueuedJobsHaveAWorker` |
| `VectorsCorrect` | `VectorsAreAccounted` |
| `LogCorrect` (`SealedProofs`) | `SyncedRecordsAreKept` |
| `FileCorrect` (`SealedProofs`) | `SealedFileIsWhole` |

*The database.* `StoreInv` is inductive as a whole; each part is preserved on the ground of some
others. `KeyChecked`: who has come past the key check seals with its cipher or serves
unhealthy, and a newer build's store is not come past. `RootsFollow`: a cipher that knows the
recorded root, and was not replaced, knows the root of every cell; the process that seals
has one. `ScrubIsOwed`: the debt is on disk before the first cell is replaced, and struck off
only when no page holds plaintext. `CellsAreWhatWasWritten`: a cell is what was last written
at its place, as it is, escaped, or `Sealed` there. `WalkIsInOrder`: behind the cursor of an
item that is being sealed nothing is plain but what came late, and an item is finished with
nothing left before it; that the cursor ends where the batch ended is the counting lemma
about a batch's rows. Reading back what was written then needs only what seal, open, escape
and strip do to one value.

*Assumptions.* `ContentStoreAssumption` says of the ciphers of a folder that they follow one another:
of two that share a root, one's current root is known to the other, and with it all the
other's roots. That is what custody establishes when it retires the key it replaces. Of a
store from before it says that each cell is a plaintext or sealed where it is.

*The log.* `LogInv` speaks of the pieces before a torn end (`Whole`): they are records of one key,
numbered from nothing on, in the order of the appends, and the synced ones are the first of them
and out of a crash's reach. `OpenedAre` shows that every key that opens the log reads exactly
those, so a reader loses nothing and a writer goes on right behind them; a crash only cuts
and tears behind what was synced (`CrashCuts`).

*The index.* The counted bytes are the cardinality of the set of vectors held, so that evicting
or replacing a partition is a disjoint union. `VectorInv` adds to `BudgetIsKept` that "used
before" is a linear order of what is in memory and that what was used since a stamp is last in
it (`OrderIsTotal`, `NewerAreLast`), and to `MemoryIsTheStore` what memory lacks while a change
is not told yet (`MemoryFollows`). The loop of `make_room` is one set, those whose
successors and the new one do not fit; `VictimsMakeRoom` shows from the order that this is a
prefix of it, and that afterwards either the budget holds or only the partition that is kept is
left.

*The queue.* A worker leaves only at `WorkerChecks`, and a job comes only under the same lock: that
the flag says `worker` just when the thread is there (`QueueInv`) carries over every step, and
then a job that is queued either meets a worker that will look again or starts one.

*The file.* A plaintext of `len` units has one sealed form, `Image(len)`, what
`seal_file_bytes` returns. `CopiesGrow` says that every copy is a beginning of it, and of one
that is being written, which: whole chunks, with the rest of what was read in the buffer. A
chunk that is written makes the beginning longer (`ChunkGrows`), a crash makes it shorter
(`CutGrows`). To open, a beginning must hold at its end the last chunk, sealed as the last, at
its index and of its length; from that `OpensWhole` concludes that it is all of `Image(len)`, so
that what verifies is whole, and `ReadsAll` that every range reads as it was written. `Published`
carries this over the rename: what stands at it was verified or is another's copy. What a copy is
made from may itself be a copy put in place, so `Published` also says that every `source` is
the original or was put in place (`Placed`), and that a sealer past its copying has read all of
it: from the original on, each form of the file holds the one before it. The assumption asks that a chunk and a tag have a length, and that no sealer is named as the
original.

`KeyProofs` proves of `KeySpec`:

| Theorem | Property |
|---|---|
| `PluginRootCorrect` | `OneKeySealsThePluginsData` |
| `AppKeyCorrect` | `AppKeysAreKept` |
| `ValueCorrect` | `SealedValueIsSound` |
| `CustodyCorrect` | `MasterKeysAreKept` |

*The master key.* `Safe` is where a key can be: stored, or lost in one of the named ways.
Each step but the few that replace something leaves it alone, and those that replace are shown
to let it only grow (`WriteIsSafe`), for what they replace is in the index or nobody had seen
it. That needs to be known of writes still to come, so `CustodyInv` speaks of the whole list an
actor has before it. `WriteInv(i)`: what the tool saw in a slot that its write number i replaces
is in the index, or a write before it puts it there; what is recorded is somewhere by then; what
is dropped is what was seen. `VaultIsKept`: an entry of the index that someone has read, or is
about to add, has its key in the vault. Then it is enough to show once that a plan is sound when
it is made (`PlanFollows`, `StoreFollows`, whatever keys there are to put away) and that it stays
sound when its first write is done (`ToolAdvances`), whatever a process does beside it
(`ToolStays`). A process replaces nothing with what it writes, so its part is small
(`ProcessInv`). `StepOf` puts the parts together, and each action has a lemma. Proving it
corrected the model: an action had put a key away and listed it in one step with an index read
at the start of the command, and the file's key counted as seen where no one looks at it.

*The plugin's root.* `RootInv` says who may stand where: only a process on its own comes to the two
files (`FilesAreForStandalone`), one process at most has created the root file and fills it
(`OneFills`), and those that get to the pin hold one key, the file's or the
environment's (`OneKeyToPin`). *The app's key.* `KeptInv` adds to the property that
a resolved key is the environment's or is stored. *The value.* `ValueInv` says that a cell is a
copy from elsewhere, of which what is meant is its text, or a seal of what was last meant
(`Own`), whichever cipher made it; and that what a process has loaded did not lie under another
store's key (`Readable`), so that no seal of such a thing is ever made here. That opening returns
what was meant holds for every cipher, way of storing and key number.

`AppProofs` proves of `AppSpec`:

| Theorem | Property |
|---|---|
| `CallCorrect` | `AnswersAreHonest` |
| `SettingsCorrect` | `UnnamedIsKept` |
| `TranslationCorrect` | `TranslationsAreInPlace` |
| `StreamCorrect` | `StreamIsWhole` |
| `SubtitlesCorrect` | `SubtitlesAreInPlace` |

for answers of any length, cut anywhere, any number of cues, windows and samples. Of a call
`HonestInv` ties what is told to what Core did and to the clock; of the settings `UnnamedInv`
says that the table and every draft agree with the first settings on what nobody names; of a
translation `InPlaceInv` says of the answers of the batch in hand what the property says of those
applied, that each came for its line (`CameFor`), and takes the count of translated lines as the
cardinality of the set of them, whole batches before the cursor and none behind.

*The stream.* The client cuts frames off a buffer as chunks come; `Events` reads the whole body
line by line. `CutIsRead` joins the two: what was cut off so far, the line reader has read to the
same items and with no frame open, and the buffer is what follows. A frame taken from the buffer
carries the reader on by that frame and no further, because there is no blank line within it; a
chunk that arrives moves no line. Where the reader stands after so many lines is a function on the
lines, and its equations are used a line at a time, from the first line for which a claim fails
(`LeastNumber`).

*The cues.* What a window adds, the split of a long cue, the sort and the separation each keep the
sum of the characters. The sum and the sort are functions over the positions of a sequence: that
they exist is `Recursion`, what they add up to is counted on from one position to the next
(`CountsOn`), both from `LeastNumber`. Sorting puts a cue before the first later one, so what is
in order stays in order; `Apart` then looks at neighbours alone, and order carries what it says of
neighbours to any two cues. `CuesInv` adds that the cues are not normal before the last window.
What is not in the cues is in `dropped`, which only a window of silence markers adds to.

*The resampler.* `CarryIsInPlace` is an equation between products: the samples dropped since the
box was last started, times the target rate, and the position in the carry are as many steps of
the source rate as samples were given. From it the span of the next output sample is the one
`OutputDoesNotDrift` asks for, by what quotients and remainders are.

`PartsProofs` proves of `Parts` as it is run:

| Theorem | Property |
|---|---|
| `PartsAreSeparate` | that a behavior is one of `KeySpec`, `StoreSpec` or `AppSpec` |
| `TypesCorrect` | `TypeOK` |

so that the theorems of the groups hold of the specification the run checks. The types are mostly a
part of what is proved already. Of three parts they need more. *Custody:* the index of the retired
keys is no longer than `MAX_RETIRED_KEYS`, although between reading it and writing it back others
write it: `RoomInv` says that an entry that is next to be written goes to an index that was
read with room, and that no other entry comes later in the list. *The log:* a record has an index that
some append had, also when the writer was careless and the synced records are no longer kept
(`IndexesAreUsed`), since what an opening takes for the end was read at such an index. *The queue:*
that a job is where a runner runs needs that the worker is there only when the queue says so.

The inductive invariants were run with TLC as well. Proving found definitions that meant nothing
in some state: where the arms of a `CASE` overlapped (`SealedValues!CipherOpen`,
`HostCalls!Outcome`; TLC takes the first arm that holds, as the code does, the language leaves the
choice open: they are now `IF`s in the order of the code), and where `SortSeq` sorted two cues of
equal times and different text, for which its definition has no value (`Cues!Sorted`, now a stable
insertion, as `sort_by_key` is stable).

Only model-checked: what needs fairness (`QueuedIsServed`, `EveryJobEnds`, `EveryTaskEnds`,
`FairLifecycle`), which is beyond the prover. Every other property of a run that passes is a
theorem.


## 6. Not modelled

* Data: the text of lines, languages, titles, paths, timestamps other than the creation
  stamp, list and read-only handlers, the token check.
* A failing store call of a *handler*: the handler answers 500 and has done nothing.
* A panic of the decoder: `run_job` reads a closed channel as the end of the audio and ignores how
  the task ended (engine.rs:278, `decoder.await.ok()`), so the job would complete with what was
  heard so far. `NothingIsLost` speaks of a decoder that ends or reports its error.
* A compaction job that panics: it takes the worker thread with it and leaves the flag set
  (content_sqlite.rs:1293-1307), so that what is queued from then on waits for maintenance.
* A row whose own values do not open in a store that is otherwise readable: it is
  skipped by `next_queued` and answered with an error; it is left out of the table.
* `next_queued` failing: the loop sleeps ten seconds and asks again.
* A rename that a crash undoes, where the directory was not synced yet: the name then leads to
  the file it led to before, which `SealedFileIsWhole` speaks of as well.
* Containers and codecs: a packet of `Transcription` is what comes out of them and of the
  resampler. Amplitudes: a sample is its energy, or in `Resampler` its number. The rounding of
  the resampler's floating-point positions.
* The steps of a log's compaction: `Compact` writes its copy and renames it at once, which
  `SealedFile` looks at step by step for a file. Several frames torn by one crash. Processes of a
  plugin that were started with different environments (`PluginRoot` has one for all).
* What Core means by its answers: `HostCalls` assumes that an error status is a refusal, and that
  a call with a time of its own is answered in that time, the answer being under way for less than
  the margin (`MustAnswer`).
* Which format and layout a job remembers: that of the last download whose write lands (api.rs:466).
  The write is modelled, and no property is about it.
* Output copies of older versions, which `remove_data_output` deletes.
* Cryptography: a cipher opens what it sealed, at its place, and nothing else. Nonces and the
  encoding of keys.
* Wrapping and rendering of cues; the prompt and the HTTP call of the translation.
* In custody: `install_file_custody` and `copy_retired_keys_between_profiles`, which move keys
  between two installations by hand, the data-format marker, and the report.
* `blind_index.rs`: a keyed hash of normalized words without state; its tokens use the current
  root alone, so a search after a key change misses what was indexed before. Ranking and
  similarity in the vector index.
* `library.rs`: file-system reads. (`sidecar_output_path` gives `Film.mkv` and `Film.mp4` the same
  subtitle file.) The speech engines: one call, and a cached model. The sidecar runtime: path
  layout, wire types, and a handoff file no code of this process writes. Languages, messages
  and the text of notifications. Release scripts.
* The parts of `PROJECT.json` with status `not_modelled`.

## 7. Plan

Done: the job store, worker and interface; the decoder, channel and windows; the fifteen
parts; the proofs of section 5. What is left is what section 5 names as only model-checked,
and what section 6 leaves out.
