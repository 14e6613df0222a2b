----------------------------- MODULE StoreParts -----------------------------
(***************************************************************************)
(* What is stored sealed (a database's values and its queue of             *)
(* compactions, a log, a file, an index of vectors), side by side: parts   *)
(* that share no state, each a behavior of its own (PartVars).             *)
(*                                                                         *)
(* A part's constants are named as its module names them where no other    *)
(* part has one of that name. No part is bounded by another.               *)
(***************************************************************************)
EXTENDS PartVars, Naturals

CONSTANTS
  \* ContentStore
  Plans, NumRows, BATCH_SIZE, Ciphers, Words, Texts, MaxWrites, Legacy,
  \* Compaction
  CompactedStores, MaxDefers,
  \* SealedLog
  MaxRecords, MaxKey, MaxLogCrashes,
  \* SealedFile
  CHUNK, TAG_LEN, MaxLen, Sealers, MaxCrashes,
  \* VectorIndex
  Partitions, Ids, LIMIT, MaxChanges

Store == INSTANCE ContentStore WITH
  cells <- v1, items <- v2, rec <- v3, residue <- v4, pc <- v5,
  cipher <- v6, seal <- v7, plan <- v8, retired <- v9, report <- v10,
  guest <- v11, wrote <- v12, writes <- v13, replaced <- v14, late <- v15

Queue == INSTANCE Compaction WITH
  jobs <- v1, worker <- v2, running <- v3, at <- v4, job <- v5,
  owed <- v6, defers <- v7, unstarted <- v8,
  Stores <- CompactedStores

Log == INSTANCE SealedLog WITH
  header <- v1, body <- v2, synced <- v3, writer <- v4, next <- v5,
  appends <- v6, durable <- v7, carried <- v8, careless <- v9, key <- v10,
  crashes <- v11,
  MaxCrashes <- MaxLogCrashes

Sealed == INSTANCE SealedFile WITH
  len <- v1, path <- v2, temp <- v3, file <- v4, index <- v5,
  buffered <- v6, read <- v7, at <- v8, overtaken <- v9, crashes <- v10,
  source <- v11

Vectors == INSTANCE VectorIndex WITH
  rows <- v1, memory <- v2, recency <- v3, spent <- v4, totals <- v5,
  evicted <- v6, handing <- v7, telling <- v8, raced <- v9, changes <- v10

ASSUME StorePartsAssumption ==
  /\ Store!ContentStoreAssumption
  /\ Queue!CompactionAssumption
  /\ Log!SealedLogAssumption
  /\ Sealed!SealedFileAssumption
  /\ Vectors!VectorIndexAssumption

-----------------------------------------------------------------------------
StoreInit ==
  \/ part = "content" /\ Store!Init /\ Unused15
  \/ part = "compaction" /\ Queue!Init /\ Unused8
  \/ part = "log" /\ Log!Init /\ Unused11
  \/ part = "file" /\ Sealed!Init /\ Unused11
  \/ part = "vectors" /\ Vectors!Init /\ Unused10

ContentStoreStep == part = "content" /\ Store!Next /\ UNCHANGED <<part, Rest15>>
CompactionStep == part = "compaction" /\ Queue!Next /\ UNCHANGED <<part, Rest8>>
SealedLogStep == part = "log" /\ Log!Next /\ UNCHANGED <<part, Rest11>>
SealedFileStep == part = "file" /\ Sealed!Next /\ UNCHANGED <<part, Rest11>>
VectorIndexStep == part = "vectors" /\ Vectors!Next /\ UNCHANGED <<part, Rest10>>

StoreNext ==
  \/ ContentStoreStep \/ CompactionStep \/ SealedLogStep \/ SealedFileStep
  \/ VectorIndexStep

StoreSpec == StoreInit /\ [][StoreNext]_vars

-----------------------------------------------------------------------------
(* What each part keeps, stated and explained in its module.               *)

\* Every part's variables are what its module says they are.
StoreTypeOK ==
  /\ part = "content" => Store!TypeOK
  /\ part = "compaction" => Queue!TypeOK
  /\ part = "log" => Log!TypeOK
  /\ part = "file" => Sealed!TypeOK
  /\ part = "vectors" => Vectors!TypeOK

\* content_sqlite.rs: an open store gives every value of a migrated column
\* from a sealed cell.
ServedSealed == part = "content" => Store!ServedSealed

\* content.rs, store_seal.rs: a value is read as it was written.
ReadsBack == part = "content" => Store!ReadsBack

\* content_sqlite.rs check_store_key: no store holds values no one key opens.
OneCipherOpensAll == part = "content" => Store!OneCipherOpensAll

\* content_sqlite.rs finish_store: a store that says so keeps no plaintext.
OkMeansScrubbed == part = "content" => Store!OkMeansScrubbed

\* sealed_log.rs: what was synced is read back, in order, after any crash.
SyncedRecordsAreKept == part = "log" => Log!SyncedRecordsAreKept

\* sealed_file.rs: a file sealed in place is all there, before and after, be it
\* sealed twice, and a reader gives no more and no less than what was sealed.
SealedFileIsWhole == part = "file" => Sealed!FileIsWhole /\ Sealed!ReaderIsExact

\* vector_index.rs: memory holds what the store does, within what is counted.
VectorsAreAccounted == part = "vectors" => Vectors!VectorsAreAccounted

\* content_sqlite.rs compaction queue: what waits in it has a worker to come.
QueuedJobsHaveAWorker == part = "compaction" => Queue!QueuedJobsHaveAWorker

\* content_sqlite.rs check_store_key: a store of a newer build or of another
\* key is left as it was.
ForeignStoreIsKept == [][part = "content" => Store!KeepsForeignStore]_vars

=============================================================================
