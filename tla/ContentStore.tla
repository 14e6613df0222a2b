---------------------------- MODULE ContentStore ----------------------------
(***************************************************************************)
(* One sealed SQLite store: open_store (plugin_keys/sql.rs) over the       *)
(* migration and the scrub of content_sqlite.rs, the SQL functions the     *)
(* open store writes and reads through, and a second process without a key *)
(* that writes to the same file.                                           *)
(*                                                                         *)
(* A step of the process is one SQLite transaction: a crash keeps what was *)
(* committed and loses the rest.  Every migration transaction holds the    *)
(* write lock, so no other write falls inside one.  The rows of a table    *)
(* are all there from the start: one that is not inserted yet is NULL.     *)
(* residue is the plaintext that was freed before the first migration, or  *)
(* that a migration replaced, and that the file still holds: in the        *)
(* write-ahead log, on free pages, inside pages in use.                    *)
(***************************************************************************)
EXTENDS ContentSeal, FiniteSets, FiniteSetsExt, SequencesExt

CONSTANTS
  Plans,        \* the column plans: a sequence of kinds, "text" or "blob"
  NumRows,      \* rows of a table, keyed 1..NumRows
  BATCH_SIZE,   \* rows of a migration transaction
  Ciphers,      \* what a process may be given to seal with
  Words,        \* what a text may be made of, beside what envelopes start with
  Texts,        \* what users write
  MaxWrites,    \* bound: writes, of the process and of the guest
  Legacy        \* the stores there are before the first open

Items == DOMAIN Plans
Rows == 1 .. NumRows

Tokens == Words \cup {V1, V2, RAW, CB01, SF01}
Values == [root : Int, at : {Nowhere} \cup (Items \X Rows), text : Seq(Tokens)]
ItemRows == [state : {"none", "pending", "sealing", "sealed"}, cursor : 0 .. NumRows]
StoreRows == [state : {"none", "ok", "vacuum_pending"}, scrubbed : BOOLEAN,
              tried : BOOLEAN, kcv : Nat, minReader : Nat]

\* Plain text that a process with the key reads or leaves: no envelope, no escape.
Walked(i, v) ==
  v.root = 0 /\ v.text # <<>>
    => StartsWith(v.text, Envelope(Plans[i]) \cup OtherVersion(Plans[i]))

\* What a store holds that no process has opened yet. The escape is younger
\* than the plaintext of a store from before sealing; a value is sealed under
\* the root of the record, where the cell is; a started migration owes a scrub.
LegacyStore(l) ==
  /\ l.cells \in [Items -> [Rows -> Values]]
  /\ l.items \in [Items -> ItemRows]
  /\ l.rec \in StoreRows
  /\ \A i \in Items, r \in Rows :
       LET v == l.cells[i][r]
       IN  \/ v = Null
           \/ v.root > 0 /\ v.root = l.rec.kcv /\ v.at = At(i, r)
           \/ v = Plain(v.text) /\ (Plans[i] = "text" => ~StartsWith(v.text, {RAW}))
  /\ l.rec.kcv # 0 => \E c \in Ciphers : l.rec.kcv \in Roots(c)
  /\ \A i \in Items :
       /\ l.items[i].state # "sealing" => l.items[i].cursor = 0
       /\ l.items[i].state \in {"sealing", "sealed"} => l.rec.state = "vacuum_pending"
       /\ \A r \in Rows :
            \/ l.items[i].state = "sealing" /\ r <= l.items[i].cursor
            \/ l.items[i].state = "sealed" /\ Plans[i] = "blob"
            => Walked(i, l.cells[i][r])
  /\ ~l.rec.scrubbed
  /\ l.rec.tried => l.rec.state = "vacuum_pending"

\* The roots of a folder follow one another, and who has the current root of
\* another has its retired ones too; another folder's roots are its own.
ContentStoreAssumption ==
  /\ Plans \in Seq({"text", "blob"}) /\ Plans # <<>>
  /\ NumRows \in Nat \ {0}
  /\ BATCH_SIZE \in Nat \ {0}
  /\ Ciphers # {}
  /\ \A c \in Ciphers :
       /\ c = Cipher(c.current, c.retired)
       /\ c.current \in Nat \ {0}
       /\ c.retired \subseteq Nat \ {0}
  /\ \A c, d \in Ciphers :
       /\ Roots(c) \cap Roots(d) # {} => c.current \in Roots(d) \/ d.current \in Roots(c)
       /\ c.current \in Roots(d) => Roots(c) \subseteq Roots(d)
  /\ Texts \subseteq Seq(Tokens) \ {<<>>}
  /\ MaxWrites \in Nat
  /\ \A l \in Legacy : LegacyStore(l)

VARIABLES
  cells,      \* cells[item][row]: the stored value
  items,      \* the state table's item rows: [state, cursor]
  rec,        \* and its store row
  residue,    \* where plaintext that was replaced is left
  pc,         \* where the process that opens the store stands
  cipher,     \* what it was replaced
  seal,       \* the StoreSeal it found
  plan,       \* the plan it is at
  retired,    \* was_retired of its migration
  report,     \* the counters of its migration that are read: as conditions
  guest,      \* the StoreSeal of a process without a key, or no process
  wrote,      \* history: what a user last wrote to a cell
  writes,     \* how many writes there were, for the bound
  replaced,   \* history: the roots that were retired for a process
  late        \* history: cells the guest wrote where this open may miss them

diskVars == <<cells, items, rec, residue>>
procVars == <<pc, cipher, seal, plan, retired, report>>
vars == <<diskVars, procVars, guest, wrote, writes, replaced, late>>

NoProcess == StoreSeal("none", NoCipher)
NoReport == [sealed |-> FALSE, unreadable |-> FALSE]

Pending == Item("pending", 0)

TypeOK ==
  /\ cells \in [Items -> [Rows -> Values]]
  /\ items \in [Items -> ItemRows]
  /\ \A i \in Items : items[i].state # "sealing" => items[i].cursor = 0
  /\ rec \in StoreRows
  /\ rec.scrubbed \/ rec.tried => rec.state = "vacuum_pending"
  /\ residue \in [wal : BOOLEAN, free : BOOLEAN, inUse : BOOLEAN]
  /\ pc \in {"closed", "key", "pending", "pendingScrub", "pendingVacuum", "reopen",
             "migrate", "item", "batch", "itemDone", "finish", "finishScrub",
             "finishVacuum", "serving"}
  /\ cipher \in Ciphers \cup {NoCipher}
  /\ plan \in 1 .. Len(Plans) + 1
  /\ guest.mode \in {"none", "compat", "unhealthy"}

Init ==
  /\ \E l \in Legacy : cells = l.cells /\ items = l.items /\ rec = l.rec
  /\ residue = [wal |-> TRUE, free |-> TRUE, inUse |-> TRUE]
  /\ pc = "closed"
  /\ cipher = NoCipher
  /\ seal = NoProcess
  /\ plan = 1
  /\ retired = FALSE
  /\ report = NoReport
  /\ guest = NoProcess
  /\ wrote = [i \in Items |-> [r \in Rows |-> cells[i][r].text]]
  /\ writes = 0
  /\ replaced = {}
  /\ late = {}

Goto(p) == pc' = p /\ UNCHANGED <<cipher, seal, retired, report>>

-----------------------------------------------------------------------------
\* The store's key record.

\* check_store_key of a record this build can read.
KeyState(c) ==
  IF rec.kcv = 0 THEN "Recorded"
  ELSE IF MatchKcv(c, rec.kcv) = "Unknown" THEN "Mismatch"
  ELSE MatchKcv(c, rec.kcv)

\* set_pending.
OwesVacuum(record, scrubbed, tried) ==
  [record EXCEPT !.state = "vacuum_pending", !.scrubbed = scrubbed, !.tried = tried]

\* mark_scrub_owed: a finished scrub is forgotten, a last attempt is not.
ScrubOwed(record) ==
  OwesVacuum(record, FALSE, record.state = "vacuum_pending" /\ record.tried)

Compacted(record) ==
  [record EXCEPT !.state = "ok", !.scrubbed = FALSE, !.tried = FALSE]

-----------------------------------------------------------------------------
\* open_store: the process starts and finds how the store stands to its key.

\* A key that was replaced is not given again.
Boot(c) ==
  /\ pc = "closed"
  /\ c.current \notin replaced
  /\ replaced' = replaced \cup c.retired
  /\ pc' = "key"
  /\ cipher' = c
  /\ seal' = NoProcess
  /\ plan' = 1
  /\ retired' = FALSE
  /\ report' = NoReport
  /\ UNCHANGED <<diskVars, guest, wrote, writes, late>>

\* Mutant: the reader format is not looked at.
CheckStoreKeyAnyFormat ==
  /\ pc = "key"
  /\ IF KeyState(cipher) = "Mismatch"
     THEN pc' = "serving" /\ seal' = Unhealthy /\ UNCHANGED rec
     ELSE /\ pc' = "pending"
          /\ seal' = Sealing(cipher)
          /\ rec' = IF rec.kcv = 0 THEN RecordKcv(rec, cipher.current) ELSE rec
  /\ UNCHANGED <<cells, items, residue, cipher, plan, retired, report, guest, wrote,
                 writes, replaced, late>>

\* Mutant: the process records its key whatever the record says.
CheckStoreKeyRecording ==
  /\ pc = "key"
  /\ IF rec.minReader > SUPPORTED_MIN_READER
     THEN pc' = "closed" /\ UNCHANGED <<seal, rec>>
     ELSE IF KeyState(cipher) = "Mismatch"
     THEN pc' = "serving" /\ seal' = Unhealthy /\ rec' = RecordKcv(rec, cipher.current)
     ELSE /\ pc' = "pending"
          /\ seal' = Sealing(cipher)
          /\ rec' = RecordKcv(rec, cipher.current)
  /\ UNCHANGED <<cells, items, residue, cipher, plan, retired, report, guest, wrote,
                 writes, replaced, late>>

\* A store of a newer format is refused, one under another key opens unhealthy.
CheckStoreKey ==
  /\ pc = "key"
  /\ IF rec.minReader > SUPPORTED_MIN_READER
     THEN pc' = "closed" /\ UNCHANGED <<seal, rec>>
     ELSE IF KeyState(cipher) = "Mismatch"
     THEN pc' = "serving" /\ seal' = Unhealthy /\ UNCHANGED rec
     ELSE /\ pc' = "pending"
          /\ seal' = Sealing(cipher)
          /\ rec' = IF rec.kcv = 0 THEN RecordKcv(rec, cipher.current) ELSE rec
  /\ UNCHANGED <<cells, items, residue, cipher, plan, retired, report, guest, wrote,
                 writes, replaced, late>>

-----------------------------------------------------------------------------
\* run_pending_vacuum: what an earlier migration left to scrub and compact.

\* A reader of another connection blocks the truncation of the log.
CheckpointBlocked == guest # NoProcess

NothingPending ==
  /\ pc = "pending"
  /\ rec.state # "vacuum_pending" \/ rec.tried
  /\ Goto("reopen")
  /\ UNCHANGED <<diskVars, plan, guest, wrote, writes, replaced, late>>

PendingCheckpoint ==
  /\ pc = "pending"
  /\ rec.state = "vacuum_pending" /\ ~rec.tried
  /\ \/ /\ residue' = [residue EXCEPT !.wal = FALSE]
        /\ Goto(IF rec.scrubbed THEN "pendingVacuum" ELSE "pendingScrub")
     \/ CheckpointBlocked /\ Goto("reopen") /\ UNCHANGED residue
  /\ UNCHANGED <<cells, items, rec, plan, guest, wrote, writes, replaced, late>>

\* scrub_freelist, then the record that it is done; or no room for a chunk.
PendingScrub ==
  /\ pc = "pendingScrub"
  /\ \/ /\ residue' = [residue EXCEPT !.wal = FALSE, !.free = FALSE]
        /\ rec' = OwesVacuum(rec, TRUE, FALSE)
        /\ Goto("pendingVacuum")
     \/ rec' = OwesVacuum(rec, FALSE, TRUE) /\ Goto("reopen") /\ UNCHANGED residue
     \/ CheckpointBlocked /\ Goto("reopen") /\ UNCHANGED <<rec, residue>>
  /\ UNCHANGED <<cells, items, plan, guest, wrote, writes, replaced, late>>

\* VACUUM and a last checkpoint; or no room, or the checkpoint is blocked.
PendingVacuum ==
  /\ pc = "pendingVacuum"
  /\ \/ /\ residue' = [wal |-> FALSE, free |-> FALSE, inUse |-> FALSE]
        /\ rec' = Compacted(rec)
     \/ rec' = OwesVacuum(rec, rec.scrubbed, TRUE) /\ UNCHANGED residue
     \/ CheckpointBlocked /\ UNCHANGED <<rec, residue>>
  /\ Goto("reopen")
  /\ UNCHANGED <<cells, items, plan, guest, wrote, writes, replaced, late>>

\* A day after a refusal for want of room the attempt is made again.
DayPasses ==
  /\ rec.tried
  /\ rec' = [rec EXCEPT !.tried = FALSE]
  /\ UNCHANGED <<cells, items, residue, procVars, guest, wrote, writes, replaced, late>>

-----------------------------------------------------------------------------
\* Mutant: a finished item is never walked again.
ReopenNothing ==
  /\ pc = "reopen"
  /\ late' = {c \in late : Plans[c[1]] = "blob" \/ items[c[1]].state = "sealing"}
  /\ Goto("migrate")
  /\ UNCHANGED <<diskVars, plan, guest, wrote, writes, replaced>>

\* reopen_plaintext_items: a finished TEXT item that holds plaintext again.
\* An item the last process did not finish goes on from its cursor.

HoldsPlaintext(i) ==
  \E r \in Rows : LET v == cells[i][r]
                  IN  v # Null /\ v.text # <<>> /\ ~IsSealed("text", v)

ReopenPlaintextItems ==
  /\ pc = "reopen"
  /\ items' = [i \in Items |->
                 IF Plans[i] = "text" /\ items[i].state = "sealed" /\ HoldsPlaintext(i)
                 THEN Pending ELSE items[i]]
  /\ late' = {c \in late : Plans[c[1]] = "blob" \/ items[c[1]].state = "sealing"}
  /\ Goto("migrate")
  /\ UNCHANGED <<cells, rec, residue, plan, guest, wrote, writes, replaced>>

-----------------------------------------------------------------------------
\* migrate_columns.

Migrate ==
  /\ pc = "migrate"
  /\ pc' = "item"
  /\ plan' = 1
  /\ retired' = (KeyState(cipher) = "Retired")
  /\ report' = NoReport
  /\ UNCHANGED <<diskVars, cipher, seal, guest, wrote, writes, replaced, late>>

SkipItem ==
  /\ pc = "item" /\ plan \in Items
  /\ items[plan].state = "sealed"
  /\ plan' = plan + 1
  /\ Goto("item")
  /\ UNCHANGED <<diskVars, guest, wrote, writes, replaced, late>>

\* Mutant: the debt is recorded by finish_store alone.
StartItemWithoutDebt ==
  /\ pc = "item" /\ plan \in Items
  /\ items[plan].state # "sealed"
  /\ items' = [items EXCEPT ![plan].state = "sealing"]
  /\ Goto("batch")
  /\ UNCHANGED <<cells, rec, residue, plan, guest, wrote, writes, replaced, late>>

\* The scrub is owed from the transaction on that starts the item.
StartItem ==
  /\ pc = "item" /\ plan \in Items
  /\ items[plan].state # "sealed"
  /\ rec' = ScrubOwed(rec)
  /\ items' = [items EXCEPT ![plan].state = "sealing"]
  /\ Goto("batch")
  /\ UNCHANGED <<cells, residue, plan, guest, wrote, writes, replaced, late>>

BatchRows(cursor) ==
  LET after == {r \in Rows : r > cursor}
  IN  {r \in after : Cardinality({s \in after : s < r}) < BATCH_SIZE}

Batch ==
  /\ pc = "batch"
  /\ LET rows == BatchRows(items[plan].cursor)
         Of(r) == Reseal(cipher, Plans[plan], cells[plan][r], At(plan, r))
         Had(outcome) == \E r \in rows : Of(r).outcome = outcome
     IN  /\ cells' = [cells EXCEPT ![plan] =
                        [r \in Rows |-> IF r \in rows THEN Of(r).value ELSE @[r]]]
         /\ items' = [items EXCEPT ![plan].cursor = Max(rows \cup {@})]
         /\ residue' = [residue EXCEPT !.wal = @ \/ Had("Sealed")]
         /\ report' = [sealed |-> report.sealed \/ Had("Sealed"),
                       unreadable |-> report.unreadable \/ Had("Unreadable")]
         /\ pc' = IF Cardinality(rows) < BATCH_SIZE THEN "itemDone" ELSE "batch"
  /\ UNCHANGED <<rec, plan, cipher, seal, retired, guest, wrote, writes, replaced, late>>

AllItemsSealed(of) == \A i \in Items : of[i].state \in {"none", "sealed"}

\* Mutant: the cursor of a finished item stays.
ItemDoneKeepingCursor ==
  /\ pc = "itemDone"
  /\ items' = [items EXCEPT ![plan].state = "sealed"]
  /\ rec' = IF retired /\ ~report.unreadable /\ AllItemsSealed(items')
            THEN RecordKcv(rec, cipher.current) ELSE rec
  /\ plan' = plan + 1
  /\ Goto("item")
  /\ UNCHANGED <<cells, residue, guest, wrote, writes, replaced, late>>

ItemDone ==
  /\ pc = "itemDone"
  /\ items' = [items EXCEPT ![plan] = Item("sealed", 0)]
  /\ rec' = IF retired /\ ~report.unreadable /\ AllItemsSealed(items')
            THEN RecordKcv(rec, cipher.current) ELSE rec
  /\ plan' = plan + 1
  /\ Goto("item")
  /\ UNCHANGED <<cells, residue, guest, wrote, writes, replaced, late>>

Migrated ==
  /\ pc = "item" /\ plan \notin Items
  /\ Goto(IF report.sealed THEN "finish" ELSE "serving")
  /\ UNCHANGED <<diskVars, plan, guest, wrote, writes, replaced, late>>

-----------------------------------------------------------------------------
\* finish_store; whatever fails leaves the store "vacuum_pending".

FinishFails ==
  /\ CheckpointBlocked
  /\ rec' = OwesVacuum(rec, FALSE, FALSE)
  /\ Goto("serving")
  /\ UNCHANGED residue

FinishCheckpoint ==
  /\ pc = "finish"
  /\ \/ /\ residue' = [residue EXCEPT !.wal = FALSE]
        /\ Goto(IF rec.state = "vacuum_pending" /\ rec.scrubbed
                THEN "finishVacuum" ELSE "finishScrub")
        /\ UNCHANGED rec
     \/ FinishFails
  /\ UNCHANGED <<cells, items, plan, guest, wrote, writes, replaced, late>>

FinishScrub ==
  /\ pc = "finishScrub"
  /\ \/ /\ residue' = [residue EXCEPT !.wal = FALSE, !.free = FALSE]
        /\ Goto("finishVacuum")
        /\ UNCHANGED rec
     \/ rec' = OwesVacuum(rec, FALSE, FALSE) /\ Goto("serving") /\ UNCHANGED residue
     \/ FinishFails
  /\ UNCHANGED <<cells, items, plan, guest, wrote, writes, replaced, late>>

\* Small enough and room for it, or the compaction is left to the next start.
FinishVacuum ==
  /\ pc = "finishVacuum"
  /\ \/ /\ residue' = [wal |-> FALSE, free |-> FALSE, inUse |-> FALSE]
        /\ rec' = Compacted(rec)
        /\ Goto("serving")
     \/ rec' = OwesVacuum(rec, TRUE, FALSE) /\ Goto("serving") /\ UNCHANGED residue
     \/ FinishFails
  /\ UNCHANGED <<cells, items, plan, guest, wrote, writes, replaced, late>>

-----------------------------------------------------------------------------
\* The open store, and the end of the process wherever it stands.

\* A statement that wraps its value in ryu_seal.
Write(i, r, text) ==
  /\ pc = "serving"
  /\ Accepts(seal, Plans[i], text)
  /\ cells' = [cells EXCEPT ![i][r] = SealValue(seal, Plans[i], text, At(i, r))]
  /\ writes < MaxWrites
  /\ writes' = writes + 1
  /\ wrote' = [wrote EXCEPT ![i][r] = text]
  /\ late' = late \ {At(i, r)}
  /\ UNCHANGED <<items, rec, residue, procVars, guest, replaced>>

Crash ==
  /\ pc # "closed"
  /\ pc' = "closed"
  /\ cipher' = NoCipher
  /\ seal' = NoProcess
  /\ plan' = 1
  /\ retired' = FALSE
  /\ report' = NoReport
  /\ UNCHANGED <<diskVars, guest, wrote, writes, replaced, late>>

-----------------------------------------------------------------------------
\* A process without a key.

GuestOpens ==
  /\ guest = NoProcess
  /\ guest' = StoreState(NoCipher, rec.kcv, FALSE)
  /\ UNCHANGED <<diskVars, procVars, wrote, writes, replaced, late>>

\* It took the store for one that was never sealed, and writes as before.
GuestWrites(i, r, text) ==
  /\ Accepts(guest, Plans[i], text)
  /\ cells' = [cells EXCEPT ![i][r] = SealValue(guest, Plans[i], text, At(i, r))]
  /\ writes < MaxWrites
  /\ writes' = writes + 1
  /\ wrote' = [wrote EXCEPT ![i][r] = text]
  /\ late' = late \cup {At(i, r)}
  /\ UNCHANGED <<items, rec, residue, procVars, guest, replaced>>

\* refresh_compat.
GuestRefreshes ==
  /\ guest = Compat
  /\ rec.kcv # 0
  /\ guest' = Unhealthy
  /\ UNCHANGED <<diskVars, procVars, wrote, writes, replaced, late>>

GuestCloses ==
  /\ guest # NoProcess
  /\ guest' = NoProcess
  /\ UNCHANGED <<diskVars, procVars, wrote, writes, replaced, late>>

-----------------------------------------------------------------------------
open_store ==
  \/ CheckStoreKey
  \/ NothingPending \/ PendingCheckpoint \/ PendingScrub \/ PendingVacuum
  \/ ReopenPlaintextItems
  \/ Migrate \/ SkipItem \/ StartItem \/ Batch \/ ItemDone \/ Migrated
  \/ FinishCheckpoint \/ FinishScrub \/ FinishVacuum

Next ==
  \/ \E c \in Ciphers : Boot(c)
  \/ open_store
  \/ Crash
  \/ DayPasses
  \/ GuestOpens \/ GuestRefreshes \/ GuestCloses
  \/ \E i \in Items, r \in Rows, t \in Texts : Write(i, r, t) \/ GuestWrites(i, r, t)

Spec == Init /\ [][Next]_vars

-----------------------------------------------------------------------------
(***************************************************************************)
(* Properties                                                              *)
(***************************************************************************)

\* A process that serves a store it seals leaves no plaintext behind, except
\* what a keyless process wrote to a column that is not walked again: a BLOB
\* column, or one whose migration was under way (content_sqlite.rs:538).
ServedSealed ==
  pc = "serving" /\ seal.mode = "sealing" =>
    \A i \in Items, r \in Rows :
      cells[i][r].root = 0 /\ cells[i][r].text # <<>>
        => At(i, r) \in late \/ ~Open(cipher, Plans[i], cells[i][r], At(i, r)).ok

\* Whatever mode it was written in and however far a migration got, a value a
\* process holds the key of reads back as what was last written; a value is
\* unreadable only if it looked like an envelope before there were any.
ReadsBack ==
  seal.mode = "sealing" =>
    \A i \in Items, r \in Rows :
      LET v == cells[i][r]
          opened == OpenValue(seal, Plans[i], v, At(i, r))
      IN  IF opened.ok THEN opened.text = wrote[i][r]
          ELSE /\ v = Plain(wrote[i][r])
               /\ StartsWith(v.text, Envelope(Plans[i]) \cup OtherVersion(Plans[i]))

\* A store is never sealed under keys no single process holds: the key check
\* refuses a foreign key before anything is written under it.
OneCipherOpensAll ==
  \E c \in Ciphers :
    /\ rec.kcv \in {0} \cup Roots(c)
    /\ \A i \in Items, r \in Rows : cells[i][r].root > 0 => cells[i][r].root \in Roots(c)

\* Once a migration has touched the store, "ok" says that no plaintext it
\* replaced is left in the file, wherever the process was killed; and a scrub
\* recorded as finished has left none on free pages.
OkMeansScrubbed ==
  /\ rec.state = "ok" /\ (\E i \in Items : items[i].state \in {"sealing", "sealed"})
       => residue = [wal |-> FALSE, free |-> FALSE, inUse |-> FALSE]
  /\ rec.scrubbed => ~residue.free

\* A store written by a newer build, or sealed under a key this process does
\* not hold, is left as it was by everything but a keyless process that came
\* before the record.
KeepsForeignStore ==
  (rec.minReader > SUPPORTED_MIN_READER \/ (rec.kcv # 0 /\ seal = Unhealthy))
  /\ guest.mode # "compat" => UNCHANGED <<cells, items>>

ForeignStoreIsKept == [][KeepsForeignStore]_vars

\* The record moves to another root only when every value opens under it
\* (content_sqlite.rs:475-479 and :565).
RecordMovesWhenResealed ==
  [][ rec.kcv # 0 /\ rec'.kcv # rec.kcv =>
        \A i \in Items, r \in Rows : cells'[i][r].root > 0
                                       => cells'[i][r].root = rec'.kcv ]_vars

-----------------------------------------------------------------------------
(* What the properties rest on: together with TypeOK, an inductive         *)
(* invariant.                                                              *)

Migrating == {"item", "batch", "itemDone"}
Finishing == {"finish", "finishScrub", "finishVacuum"}
Opening == {"pending", "pendingScrub", "pendingVacuum", "reopen", "migrate"} \cup Migrating
           \cup Finishing

\* Who has come past the key check seals with its cipher, or serves unhealthy;
\* a store of a newer build is not come past.
KeyChecked ==
  /\ pc \in {"closed", "key"} => seal = NoProcess
  /\ pc \in Opening => seal = Sealing(cipher)
  /\ pc = "serving" => seal \in {Sealing(cipher), Unhealthy}
  /\ pc # "closed" => cipher \in Ciphers
  /\ pc \notin {"closed", "key"} => rec.minReader <= SUPPORTED_MIN_READER
  /\ guest \in {NoProcess, Compat, Unhealthy}

\* Who holds the recorded root and has not been replaced opens every value,
\* and the process that seals is one of them.
RootsFollow ==
  /\ \A i \in Items, r \in Rows : cells[i][r].root > 0 => rec.kcv # 0
  /\ \A c \in Ciphers : c.current \notin replaced /\ rec.kcv \in Roots(c) =>
       \A i \in Items, r \in Rows : cells[i][r].root > 0 => cells[i][r].root \in Roots(c)
  /\ pc # "closed" => cipher.current \notin replaced /\ cipher.retired \subseteq replaced
  /\ seal.mode = "sealing" => rec.kcv \in Roots(cipher)

\* A migration owes the scrub before it replaces anything.
ScrubIsOwed ==
  /\ rec.state = "none" => \A i \in Items : items[i].state \in {"none", "pending"}
  /\ pc \in {"batch", "itemDone"} => rec.state = "vacuum_pending"
  /\ pc = "pendingVacuum" \/ pc = "finishVacuum" => ~residue.free
  /\ pc \in {"pendingScrub", "pendingVacuum"} => rec.state = "vacuum_pending" /\ ~rec.tried

\* A cell is sealed in its place, or plain, with the escape of a keyless process
\* where that wrote what looks like an envelope or an escape.
Means(i, r, v, w) ==
  \/ v.root > 0 /\ v = Sealed(v.root, At(i, r), w)
  \/ v = Null /\ w = <<>>
  \/ v = Plain(w) /\ (Plans[i] = "text" => ~StartsWith(w, {RAW}))
  \/ /\ Plans[i] = "text" /\ StartsWith(w, {V1, V2, RAW})
     /\ v = Plain(<<RAW>> \o w)

CellsAreWhatWasWritten ==
  /\ wrote \in [Items -> [Rows -> Seq(Tokens)]]
  /\ \A i \in Items, r \in Rows : Means(i, r, cells[i][r], wrote[i][r])

\* What the cursor has passed is walked, but for what the guest wrote since; a
\* finished TEXT item may hold plaintext until it is looked at for that.
Looked ==
  \/ pc \in {"migrate"} \cup Migrating \cup Finishing
  \/ pc = "serving" /\ seal.mode = "sealing"

Passed(i, r) ==
  \/ items[i].state = "sealing" /\ r <= items[i].cursor
  \/ items[i].state = "sealed" /\ (Plans[i] = "blob" \/ Looked)

WalkIsInOrder ==
  /\ \A i \in Items, r \in Rows : Passed(i, r) => At(i, r) \in late \/ Walked(i, cells[i][r])
  /\ pc \in {"batch", "itemDone"} => plan \in Items /\ items[plan].state = "sealing"
  /\ pc = "itemDone" =>
       \A r \in Rows : At(plan, r) \in late \/ Walked(plan, cells[plan][r])
  /\ pc \in Migrating => \A i \in Items : i < plan => items[i].state = "sealed"
  /\ pc \in Finishing \/ (pc = "serving" /\ seal.mode = "sealing") =>
       \A i \in Items : items[i].state = "sealed"

StoreInv ==
  /\ TypeOK /\ KeyChecked /\ RootsFollow /\ OneCipherOpensAll
  /\ ScrubIsOwed /\ OkMeansScrubbed /\ CellsAreWhatWasWritten /\ WalkIsInOrder

=============================================================================
