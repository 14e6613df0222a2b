----------------------------- MODULE StoreProofs -----------------------------
(***************************************************************************)
(* Proofs about StoreParts: that a behavior stays with the part it began,  *)
(* and what the database, its queue of compactions and the index of        *)
(* vectors keep. What is sealed in a file of its own is in SealedProofs.   *)
(*                                                                         *)
(* The database keeps StoreInv (ContentStore), whose parts are shown one   *)
(* by one: the types, the key check, whose roots there are, the scrub that *)
(* is owed, what the cells hold, how far the walk came.  Here v1 to v15    *)
(* are cells, items, rec, residue, pc, cipher, seal, plan, retired,        *)
(* report, guest, wrote, writes, replaced and late.                        *)
(***************************************************************************)
EXTENDS StoreParts, LeastNumbers, FiniteSetTheorems, SequenceTheorems, TLAPS

-----------------------------------------------------------------------------
\* A behavior starts as one of its part.
LEMMA StorePartStarts ==
  ASSUME StoreInit
  PROVE  /\ part = "content" => Store!Init
         /\ part = "compaction" => Queue!Init
         /\ part = "vectors" => Vectors!Init
BY DEF StoreInit

\* And goes on as one.
LEMMA StorePartMoves ==
  ASSUME [StoreNext]_vars
  PROVE  /\ part' = part
         /\ part = "content" => [Store!Next]_(Store!vars)
         /\ part = "compaction" => [Queue!Next]_(Queue!vars)
         /\ part = "vectors" => [Vectors!Next]_(Vectors!vars)
<1>1. CASE StoreNext
  BY <1>1 DEF StoreNext, ContentStoreStep, CompactionStep, SealedLogStep,
    SealedFileStep, VectorIndexStep
<1>2. CASE UNCHANGED vars
  BY <1>2 DEF vars, Rest5, Rest6, Rest7, Rest8, Rest9, Rest10, Rest11, Rest15,
    Store!vars, Store!diskVars, Store!procVars, Queue!vars, Vectors!vars
<1> QED
  BY <1>1, <1>2

-----------------------------------------------------------------------------
(* The compaction queue.                                                   *)

\* No one runs the queue at first, and no job waits.
LEMMA QueueInit ==
  ASSUME Queue!Init
  PROVE  Queue!QueueInv
BY DEF Queue!Init, Queue!QueueInv, Queue!QueuedJobsHaveAWorker, Queue!Runners

\* A job that comes starts a worker where none is; only the worker ends itself,
\* and it looks into the queue as it does.
LEMMA QueueStays ==
  ASSUME Queue!QueueInv, [Queue!Next]_(Queue!vars)
  PROVE  Queue!QueueInv'
<1> USE DEF Queue!QueueInv, Queue!QueuedJobsHaveAWorker, Queue!Runners
<1>1. ASSUME NEW s \in CompactedStores, Queue!Defer(s)
      PROVE  Queue!QueueInv'
  BY <1>1 DEF Queue!Defer
<1>2. CASE Queue!Wake
  BY <1>2 DEF Queue!Wake
<1>3. CASE Queue!Maintain
  BY <1>3 DEF Queue!Maintain
<1>4. CASE Queue!WorkerChecks
  BY <1>4 DEF Queue!WorkerChecks
<1>5. ASSUME NEW r \in Queue!Runners, Queue!TakeJob(r)
      PROVE  Queue!QueueInv'
  BY <1>5 DEF Queue!TakeJob
<1>6. ASSUME NEW r \in Queue!Runners, Queue!NoMoreJobs(r)
      PROVE  Queue!QueueInv'
  BY <1>6 DEF Queue!NoMoreJobs
<1>7. ASSUME NEW r \in Queue!Runners, Queue!RunJob(r)
      PROVE  Queue!QueueInv'
  BY <1>7 DEF Queue!RunJob
<1>8. CASE UNCHANGED Queue!vars
  BY <1>8 DEF Queue!vars
<1> QED
  BY <1>1, <1>2, <1>3, <1>4, <1>5, <1>6, <1>7, <1>8 DEF Queue!Next

\* A compaction that waits in the queue (content_sqlite.rs) has a worker there to
\* come to it, unless its thread could not be started: for any number of stores
\* that defer theirs, and a maintenance action running the queue meanwhile.
THEOREM QueueCorrect == StoreSpec => []QueuedJobsHaveAWorker
<1> DEFINE Inv == part = "compaction" => Queue!QueueInv
<1>1. StoreInit => Inv
  BY StorePartStarts, QueueInit
<1>2. Inv /\ [StoreNext]_vars => Inv'
  BY StorePartMoves, QueueStays
<1>3. Inv => QueuedJobsHaveAWorker
  BY DEF QueuedJobsHaveAWorker, Queue!QueueInv
<1> HIDE DEF Inv
<1> QED
  BY <1>1, <1>2, <1>3, PTL DEF StoreSpec

-----------------------------------------------------------------------------
(* The rows of the database and the ciphers of a process.                  *)

\* What is written to the store's row.
LEMMA Records ==
  ASSUME NEW row \in Store!StoreRows, NEW k \in Nat
  PROVE  /\ Store!RecordKcv(row, k) \in Store!StoreRows
         /\ Store!RecordKcv(row, k).kcv = k
         /\ Store!RecordKcv(row, k).state = (IF row.state = "none" THEN "ok" ELSE row.state)
         /\ Store!RecordKcv(row, k).scrubbed = row.scrubbed
         /\ Store!RecordKcv(row, k).tried = row.tried
         /\ Store!RecordKcv(row, k).minReader = row.minReader
BY DEF Store!RecordKcv, Store!StoreRows

\* A scrub that is owed, as set_pending says.
LEMMA Owes ==
  ASSUME NEW row \in Store!StoreRows, NEW s \in BOOLEAN, NEW t \in BOOLEAN
  PROVE  /\ Store!OwesVacuum(row, s, t) \in Store!StoreRows
         /\ Store!OwesVacuum(row, s, t).kcv = row.kcv
         /\ Store!OwesVacuum(row, s, t).state = "vacuum_pending"
         /\ Store!OwesVacuum(row, s, t).scrubbed = s
         /\ Store!OwesVacuum(row, s, t).tried = t
         /\ Store!OwesVacuum(row, s, t).minReader = row.minReader
BY DEF Store!OwesVacuum, Store!StoreRows

\* The same as mark_scrub_owed says it.
LEMMA OwesScrub ==
  ASSUME NEW row \in Store!StoreRows
  PROVE  /\ Store!ScrubOwed(row) \in Store!StoreRows
         /\ Store!ScrubOwed(row).kcv = row.kcv
         /\ Store!ScrubOwed(row).state = "vacuum_pending"
         /\ Store!ScrubOwed(row).scrubbed = FALSE
         /\ Store!ScrubOwed(row).minReader = row.minReader
<1> DEFINE t == row.state = "vacuum_pending" /\ row.tried
<1>1. t \in BOOLEAN
  BY DEF Store!StoreRows
<1>2. Store!ScrubOwed(row) = Store!OwesVacuum(row, FALSE, t)
  BY Zenon DEF Store!ScrubOwed
<1> HIDE DEF t
<1>3. PICK u \in BOOLEAN : Store!ScrubOwed(row) = Store!OwesVacuum(row, FALSE, u)
  BY <1>1, <1>2, Zenon
<1>4. /\ Store!OwesVacuum(row, FALSE, u) \in Store!StoreRows
      /\ Store!OwesVacuum(row, FALSE, u).kcv = row.kcv
      /\ Store!OwesVacuum(row, FALSE, u).state = "vacuum_pending"
      /\ Store!OwesVacuum(row, FALSE, u).scrubbed = FALSE
      /\ Store!OwesVacuum(row, FALSE, u).minReader = row.minReader
  BY Owes
<1> QED
  BY <1>3, <1>4

\* Nothing is owed any more.
LEMMA Compacts ==
  ASSUME NEW row \in Store!StoreRows
  PROVE  /\ Store!Compacted(row) \in Store!StoreRows
         /\ Store!Compacted(row).kcv = row.kcv
         /\ Store!Compacted(row).state = "ok"
         /\ Store!Compacted(row).scrubbed = FALSE
         /\ Store!Compacted(row).tried = FALSE
         /\ Store!Compacted(row).minReader = row.minReader
BY DEF Store!Compacted, Store!StoreRows

\* The roots of a process.
LEMMA CipherFacts ==
  ASSUME Store!ContentStoreAssumption, NEW c \in Ciphers
  PROVE  /\ c.current \in Nat \ {0} /\ c.retired \subseteq Nat \ {0}
         /\ c.current \notin c.retired /\ c.current \in Store!Roots(c)
         /\ c.retired \subseteq Store!Roots(c)
         /\ Store!Roots(c) \subseteq c.retired \cup {c.current}
         /\ \A k : Store!MatchKcv(c, k) = "Unknown" <=> k \notin Store!Roots(c)
         /\ \A k : Store!MatchKcv(c, k) = "Retired" <=> k \in c.retired
<1>1. c.retired = c.retired \ {c.current}
  BY DEF Store!ContentStoreAssumption, Store!Cipher
<1>2. c.current \in Nat \ {0} /\ c.retired \subseteq Nat \ {0}
  BY DEF Store!ContentStoreAssumption
<1>3. c.current \notin c.retired
  BY <1>1
<1> QED
  BY <1>2, <1>3 DEF Store!Roots, Store!MatchKcv

\* The key check is come past by those it lets past.
LEMMA KeyCheckedInit ==
  ASSUME Store!ContentStoreAssumption, Store!Init
  PROVE  Store!KeyChecked
BY DEF Store!Init, Store!KeyChecked, Store!Opening, Store!Migrating, Store!Finishing,
  Store!NoProcess, Store!StoreSeal

\* Only the key check gives a process its seal.
LEMMA KeyCheckedStays ==
  ASSUME Store!ContentStoreAssumption, Store!TypeOK, Store!KeyChecked,
         [Store!Next]_(Store!vars)
  PROVE  Store!KeyChecked'
<1> USE DEF Store!KeyChecked, Store!Opening, Store!Migrating, Store!Finishing, Store!Goto,
  Store!diskVars, Store!procVars, Store!NoProcess, Store!Compat, Store!Unhealthy, Store!Sealing,
  Store!StoreSeal
<1>1. ASSUME NEW c \in Ciphers, Store!Boot(c)
      PROVE  Store!KeyChecked'
  BY <1>1 DEF Store!Boot
<1>2. CASE Store!CheckStoreKey
  <2>1. v3 \in Store!StoreRows /\ v3.minReader \in Nat
    BY DEF Store!TypeOK, Store!StoreRows
  <2>2. Store!RecordKcv(v3, v6.current).minReader = v3.minReader
    <3>1. v6 \in Ciphers
      BY <1>2 DEF Store!CheckStoreKey
    <3>2. v6.current \in Nat
      BY <3>1, CipherFacts
    <3> QED
      BY <2>1, <3>2, Records
  <2>3. v3'.minReader = v3.minReader
    BY <1>2, <2>2 DEF Store!CheckStoreKey
  <2> QED
    BY <1>2, <2>1, <2>3 DEF Store!CheckStoreKey, Store!SUPPORTED_MIN_READER
<1>3. CASE Store!NothingPending \/ Store!PendingCheckpoint \/ Store!PendingScrub
           \/ Store!PendingVacuum
  BY <1>3 DEF Store!NothingPending, Store!PendingCheckpoint, Store!PendingScrub,
    Store!PendingVacuum, Store!OwesVacuum, Store!Compacted, Store!TypeOK, Store!StoreRows
<1>4. CASE Store!ReopenPlaintextItems \/ Store!Migrate \/ Store!SkipItem \/ Store!Migrated
  BY <1>4 DEF Store!ReopenPlaintextItems, Store!Migrate, Store!SkipItem, Store!Migrated
<1>5. CASE Store!StartItem \/ Store!ItemDone
  BY <1>5 DEF Store!StartItem, Store!ItemDone, Store!ScrubOwed, Store!OwesVacuum, Store!RecordKcv,
    Store!TypeOK, Store!StoreRows
<1>6. CASE Store!Batch
  BY <1>6 DEF Store!Batch
<1>7. CASE Store!FinishCheckpoint \/ Store!FinishScrub \/ Store!FinishVacuum
  BY <1>7 DEF Store!FinishCheckpoint, Store!FinishScrub, Store!FinishVacuum, Store!FinishFails,
    Store!OwesVacuum, Store!Compacted, Store!TypeOK, Store!StoreRows
<1>8. CASE Store!Crash \/ Store!DayPasses
  BY <1>8 DEF Store!Crash, Store!DayPasses, Store!TypeOK, Store!StoreRows
<1>9. CASE Store!GuestOpens \/ Store!GuestRefreshes \/ Store!GuestCloses
  BY <1>9 DEF Store!GuestOpens, Store!GuestRefreshes, Store!GuestCloses, Store!StoreState
<1>10. ASSUME NEW i \in Store!Items, NEW r \in Store!Rows, NEW t \in Texts,
              Store!Write(i, r, t) \/ Store!GuestWrites(i, r, t)
       PROVE  Store!KeyChecked'
  BY <1>10 DEF Store!Write, Store!GuestWrites
<1>11. CASE UNCHANGED Store!vars
  BY <1>11 DEF Store!vars
<1> QED
  BY <1>1, <1>2, <1>3, <1>4, <1>5, <1>6, <1>7, <1>8, <1>9, <1>10, <1>11
  DEF Store!Next, Store!open_store

-----------------------------------------------------------------------------
(* One value.                                                              *)

\* A column is of one of two kinds.
LEMMA Kinds ==
  ASSUME Store!ContentStoreAssumption, NEW i \in Store!Items
  PROVE  Plans[i] \in {"text", "blob"}
BY DEF Store!ContentStoreAssumption, Store!Items

\* What a migration makes of a value.
LEMMA Resealed ==
  ASSUME Store!ContentStoreAssumption, NEW c \in Ciphers, NEW i \in Store!Items,
         NEW r \in Store!Rows, NEW v \in Store!Values, NEW w \in Seq(Store!Tokens)
  PROVE  LET new == Store!Reseal(c, Plans[i], v, Store!At(i, r)).value
         IN  /\ new \in Store!Values
             /\ Store!Walked(i, new)
             /\ new.root > 0 => new.root \in {v.root, c.current}
             /\ Store!Means(i, r, v, w) => Store!Means(i, r, new, w)
<1> DEFINE kind == Plans[i]
           at == Store!At(i, r)
           opened == Store!Open(c, kind, v, at)
           text == Store!Strip(kind, v, opened)
           result == Store!Reseal(c, kind, v, at)
<1>1. kind \in {"text", "blob"}
  BY Kinds
<1>2. at \in Store!Items \X Store!Rows
  BY DEF Store!At
<1>3. c.current \in Nat \ {0}
  BY CipherFacts
<1>4. v.text \in Seq(Store!Tokens) /\ v.root \in Int
  BY DEF Store!Values
<1>5. CASE v = Store!Null
  <2>1. result.value = v
    BY <1>5 DEF Store!Reseal
  <2>2. v.root = -1
    BY <1>5 DEF Store!Null
  <2> QED
    BY <2>1, <2>2 DEF Store!Walked
<1>6. CASE v # Store!Null /\ v.root > 0
  <2>1. \/ result.value = v
        \/ /\ result.value = Store!Sealed(c.current, at, v.text)
           /\ v.at = at
    BY <1>6 DEF Store!Reseal, Store!Open, Store!OpenBlob, Store!Opened, Store!Failed, Store!Strip,
      Store!IsSealed
  <2>2. CASE result.value = v
    BY <1>6, <2>2 DEF Store!Walked
  <2>3. CASE result.value = Store!Sealed(c.current, at, v.text)
    <3>1. result.value \in Store!Values
      BY <1>2, <1>3, <1>4, <2>3 DEF Store!Sealed, Store!Values
    <3>2. result.value.root = c.current /\ c.current > 0
      BY <1>3, <2>3 DEF Store!Sealed
    <3>3. Store!Means(i, r, v, w) => v.text = w
      BY <1>6 DEF Store!Means, Store!Sealed, Store!Null, Store!Plain
    <3>4. Store!Means(i, r, v, w) => Store!Means(i, r, result.value, w)
      BY <2>3, <3>2, <3>3 DEF Store!Means
    <3> QED
      BY <3>1, <3>2, <3>4 DEF Store!Walked
  <2> QED
    BY <2>1, <2>2, <2>3
<1>7. CASE v # Store!Null /\ ~(v.root > 0)
  <2> DEFINE looks == Store!StartsWith(v.text, Store!Envelope(kind) \cup Store!OtherVersion(kind))
             escaped == kind = "text" /\ Store!StartsWith(v.text, {Store!RAW})
  <2>1. /\ looks => opened = Store!Failed("Malformed") \/ opened = Store!Failed("UnknownVersion")
        /\ ~looks /\ v.text = <<>> => opened = Store!Opened(v.text, FALSE)
        /\ ~looks /\ v.text # <<>> => opened = Store!Opened(v.text, TRUE)
    <3>1. opened = IF Store!StartsWith(v.text, Store!Envelope(kind))
                   THEN Store!Failed("Malformed")
                   ELSE IF Store!StartsWith(v.text, Store!OtherVersion(kind))
                   THEN Store!Failed("UnknownVersion")
                   ELSE Store!Opened(v.text, v.text # <<>>)
      BY <1>7, Zenon DEF Store!Open
    <3>2. looks <=> \/ Store!StartsWith(v.text, Store!Envelope(kind))
                    \/ Store!StartsWith(v.text, Store!OtherVersion(kind))
      BY DEF Store!StartsWith
    <3>3. CASE v.text = <<>>
      <4>1. (v.text # <<>>) = FALSE
        BY <3>3
      <4> QED
        BY <3>1, <3>2, <3>3, <4>1, Zenon
    <3>4. CASE v.text # <<>>
      <4>1. (v.text # <<>>) = TRUE
        BY <3>4
      <4> QED
        BY <3>1, <3>2, <3>4, <4>1, Zenon
    <3> QED
      BY <3>3, <3>4
  <2>2. CASE looks
    <3>1. result.value = v
      BY <1>7, <2>1, <2>2 DEF Store!Reseal, Store!Failed
    <3> QED
      BY <2>2, <3>1, <1>7 DEF Store!Walked
  <2>3. CASE ~looks /\ v.text = <<>>
    <3>1. result.value = v
      BY <1>7, <2>1, <2>3 DEF Store!Reseal, Store!Opened
    <3> QED
      BY <2>3, <3>1, <1>7 DEF Store!Walked
  <2>4. CASE ~looks /\ v.text # <<>>
    <3>1. opened.ok /\ opened.reseal /\ opened.text = v.text
      BY <2>1, <2>4 DEF Store!Opened
    <3>2. text = (IF escaped THEN Tail(v.text) ELSE v.text)
      BY <1>7, <2>4, <3>1 DEF Store!Strip, Store!IsSealed, Store!StartsWith
    <3>3. Store!CanSeal(kind, text)
      BY <1>1, <2>4, <3>2 DEF Store!CanSeal, Store!Envelope, Store!OtherVersion, Store!StartsWith
    <3>4. result.value = Store!Sealed(c.current, at, text)
      BY <1>7, <3>1, <3>3 DEF Store!Reseal
    <3>5. text \in Seq(Store!Tokens)
      <4>1. Tail(v.text) \in Seq(Store!Tokens)
        BY <1>4, <2>4, HeadTailProperties, Zenon
      <4> QED
        BY <1>4, <3>2, <4>1
    <3>6. result.value \in Store!Values
      BY <1>2, <1>3, <3>4, <3>5 DEF Store!Sealed, Store!Values
    <3>7. result.value.root = c.current /\ c.current > 0
      BY <1>3, <3>4 DEF Store!Sealed
    <3>8. ASSUME Store!Means(i, r, v, w)
          PROVE  text = w
      <4>1. CASE v = Store!Plain(w) /\ (kind = "text" => ~Store!StartsWith(w, {Store!RAW}))
        BY <3>2, <4>1 DEF Store!Plain
      <4>2. CASE kind = "text" /\ v = Store!Plain(<<Store!RAW>> \o w)
        <5>1. v.text = <<Store!RAW>> \o w
          BY <4>2 DEF Store!Plain
        <5>2. Head(v.text) = Store!RAW /\ Tail(v.text) = w /\ v.text # <<>>
          BY <5>1
        <5> QED
          BY <3>2, <4>2, <5>2 DEF Store!StartsWith
      <4> QED
        BY <1>7, <3>8, <4>1, <4>2 DEF Store!Means
    <3>9. Store!Means(i, r, v, w) => Store!Means(i, r, result.value, w)
      BY <3>4, <3>7, <3>8 DEF Store!Means
    <3> QED
      BY <3>6, <3>7, <3>9 DEF Store!Walked
  <2> QED
    BY <2>2, <2>3, <2>4
<1> QED
  BY <1>5, <1>6, <1>7

\* A token is a text.
LEMMA SingleText ==
  ASSUME NEW S, NEW x \in S
  PROVE  <<x>> \in Seq(S)
OBVIOUS

\* What a process writes, with a key and without.
LEMMA Stored ==
  ASSUME Store!ContentStoreAssumption, NEW c \in Ciphers, NEW i \in Store!Items,
         NEW r \in Store!Rows, NEW t \in Texts, NEW s \in {Store!Sealing(c), Store!Compat}
  PROVE  LET new == Store!SealValue(s, Plans[i], t, Store!At(i, r))
         IN  /\ new \in Store!Values
             /\ Store!Means(i, r, new, t)
             /\ s = Store!Sealing(c) => new.root = c.current
             /\ s = Store!Compat => new.root = 0
<1> DEFINE kind == Plans[i]
           at == Store!At(i, r)
           new == Store!SealValue(s, kind, t, at)
<1>1. kind \in {"text", "blob"} /\ at \in Store!Items \X Store!Rows
  BY Kinds DEF Store!At
<1>2. c.current \in Nat \ {0}
  BY CipherFacts
<1>3. t \in Seq(Store!Tokens) /\ <<Store!RAW>> \o t \in Seq(Store!Tokens)
  <2>1. t \in Seq(Store!Tokens)
    BY DEF Store!ContentStoreAssumption
  <2>2. <<Store!RAW>> \in Seq(Store!Tokens)
    <3>1. Store!RAW \in Store!Tokens
      BY DEF Store!Tokens
    <3> QED
      BY <3>1, SingleText, Zenon
  <2> QED
    BY <2>1, <2>2, ConcatProperties, Zenon
<1>4. CASE s = Store!Sealing(c)
  <2>1. s.mode = "sealing" /\ s.cipher = c
    BY <1>4 DEF Store!Sealing, Store!StoreSeal
  <2>2. new = Store!Sealed(c.current, at, t)
    BY <2>1 DEF Store!SealValue
  <2>3. s # Store!Compat
    BY <2>1 DEF Store!Compat, Store!StoreSeal
  <2> QED
    BY <1>1, <1>2, <1>3, <2>2, <2>3 DEF Store!Sealed, Store!Values, Store!Means
<1>5. CASE s = Store!Compat
  <2>1. s.mode = "compat"
    BY <1>5 DEF Store!Compat, Store!StoreSeal
  <2>2. s # Store!Sealing(c)
    BY <2>1 DEF Store!Sealing, Store!StoreSeal
  <2>3. CASE kind = "text" /\ Store!StartsWith(t, {Store!V1, Store!V2, Store!RAW})
    <3>1. new = Store!Plain(<<Store!RAW>> \o t)
      BY <2>1, <2>3 DEF Store!SealValue
    <3>2. Store!Means(i, r, new, t)
      BY <2>3, <3>1, Zenon DEF Store!Means
    <3>3. PICK escaped \in Seq(Store!Tokens) : new = Store!Plain(escaped)
      BY <1>3, <3>1
    <3>4. new \in Store!Values /\ new.root = 0
      BY <3>3 DEF Store!Plain, Store!Values
    <3> QED
      BY <2>2, <3>2, <3>4
  <2>4. CASE ~(kind = "text" /\ Store!StartsWith(t, {Store!V1, Store!V2, Store!RAW}))
    <3>1. new = Store!Plain(t)
      BY <2>1, <2>4 DEF Store!SealValue
    <3>2. kind = "text" => ~Store!StartsWith(t, {Store!RAW})
      BY <2>4 DEF Store!StartsWith
    <3> QED
      BY <1>1, <1>3, <2>2, <3>1, <3>2 DEF Store!Plain, Store!Values, Store!Means
  <2> QED
    BY <2>3, <2>4
<1> QED
  BY <1>4, <1>5

-----------------------------------------------------------------------------
(* The rows of a migration transaction.                                    *)

\* The model counts with the operator the theorems are about.
LEMMA SameRowCount ==
  ASSUME NEW S
  PROVE  Store!Cardinality(S) = Cardinality(S)
BY Zenon DEF Cardinality, Store!Cardinality

\* The end of a transaction is a row of it.
LEMMA GreatestNumber ==
  ASSUME NEW S, NEW n \in Nat, S \subseteq 0 .. n, S # {}
  PROVE  /\ Store!Max(S) \in S
         /\ \A k \in S : k <= Store!Max(S)
<1>1. PICK g \in S : \A k \in S : k <= g
  BY GreatestIsThere
<1>2. \E x \in S : \A y \in S : x >= y
  BY <1>1
<1>3. Store!Max(S) \in S /\ \A y \in S : Store!Max(S) >= y
  BY <1>2, Zenon DEF Store!Max
<1> QED
  BY <1>3

\* The next rows after the cursor, none left out up to their last.
LEMMA BatchIsNext ==
  ASSUME Store!ContentStoreAssumption, NEW cursor \in 0 .. NumRows
  PROVE  LET rows == Store!BatchRows(cursor)
             end == Store!Max(rows \cup {cursor})
         IN  /\ rows \subseteq {r \in Store!Rows : r > cursor}
             /\ end \in 0 .. NumRows
             /\ \A r \in Store!Rows : r <= end => r <= cursor \/ r \in rows
             /\ Store!Cardinality(rows) < BATCH_SIZE
                  => \A r \in Store!Rows : r <= cursor \/ r \in rows
<1> DEFINE after == {r \in Store!Rows : r > cursor}
           Below(r) == {s \in after : s < r}
           rows == Store!BatchRows(cursor)
           end == Store!Max(rows \cup {cursor})
<1>1. NumRows \in Nat /\ BATCH_SIZE \in Nat \ {0}
  BY DEF Store!ContentStoreAssumption
<1>2. rows = {r \in after : Cardinality(Below(r)) < BATCH_SIZE}
  BY SameRowCount DEF Store!BatchRows
<1>3. after \subseteq 1 .. NumRows /\ IsFiniteSet(after)
  <2>1. after \subseteq 1 .. NumRows
    BY DEF Store!Rows
  <2>2. IsFiniteSet(1 .. NumRows)
    BY <1>1, FS_Interval
  <2> QED
    BY <2>1, <2>2, FS_Subset
<1>4. \A r \in after : IsFiniteSet(Below(r)) /\ Cardinality(Below(r)) \in Nat
  BY <1>3, FS_Subset, FS_CardinalityType
<1>5. rows \subseteq after
  BY <1>2
<1>6. /\ end \in rows \cup {cursor} /\ \A k \in rows \cup {cursor} : k <= end
      /\ end \in 0 .. NumRows
  <2>1. rows \cup {cursor} \subseteq 0 .. NumRows
    BY <1>3, <1>5
  <2> HIDE DEF rows
  <2> QED
    BY <1>1, <2>1, GreatestNumber
<1> DEFINE Count(r) == Cardinality(Below(r))
<1>7. \A r \in after : r \in rows <=> Count(r) < BATCH_SIZE
  BY <1>2
<1>8. \A r \in after : Count(r) \in Nat
  BY <1>4
<1>9. ASSUME NEW r \in Store!Rows, r <= end, ~(r <= cursor)
      PROVE  r \in rows
  <2>1. r \in after /\ end \in rows
    BY <1>1, <1>6, <1>9 DEF Store!Rows
  <2>2. end \in after
    BY <1>5, <2>1
  <2>3. Below(r) \subseteq Below(end)
    BY <1>3, <1>9, <2>1, <2>2
  <2>4. Count(r) <= Count(end)
    BY <1>4, <2>2, <2>3, FS_Subset
  <2> HIDE DEF Count, rows, after, end
  <2> QED
    BY <1>1, <1>7, <1>8, <2>1, <2>2, <2>4
<1>10. ASSUME Cardinality(rows) < BATCH_SIZE, NEW q \in Store!Rows, ~(q <= cursor), q \notin rows
       PROVE  FALSE
  <2> DEFINE missed == after \ rows
  <2>1. q \in missed /\ missed \subseteq Nat
    BY <1>1, <1>3, <1>10 DEF Store!Rows
  <2>2. PICK m \in missed : \A k \in missed : m <= k
    BY <2>1, LeastNumber
  <2>3. Below(m) \subseteq rows
    BY <1>3, <2>2
  <2>4. Count(m) <= Cardinality(rows) /\ Cardinality(rows) \in Nat
    BY <1>3, <1>5, <2>3, FS_Subset, FS_CardinalityType
  <2>5. m \in after /\ m \notin rows
    BY <2>2
  <2> HIDE DEF Count, rows, after, missed
  <2> QED
    BY <1>1, <1>7, <1>8, <1>10, <2>4, <2>5
<1>11. Store!Cardinality(rows) = Cardinality(rows)
  BY SameRowCount
<1>12. rows \subseteq {r \in Store!Rows : r > cursor}
  BY <1>5
<1> HIDE DEF rows, end
<1>13. \A r \in Store!Rows : r <= end => r <= cursor \/ r \in rows
  BY <1>9
<1>14. Store!Cardinality(rows) < BATCH_SIZE => \A r \in Store!Rows : r <= cursor \/ r \in rows
  BY <1>10, <1>11
<1> QED
  BY <1>6, <1>12, <1>13, <1>14 DEF rows, end

\* One transaction of a migration.
LEMMA BatchDoes ==
  ASSUME Store!ContentStoreAssumption, Store!TypeOK, Store!KeyChecked, Store!WalkIsInOrder,
         Store!Batch
  PROVE  LET rows == Store!BatchRows(v2[v8].cursor)
             end == Store!Max(rows \cup {v2[v8].cursor})
         IN  /\ v8 \in Store!Items /\ v2[v8].state = "sealing" /\ v6 \in Ciphers
             /\ v2[v8].cursor \in 0 .. NumRows /\ end \in 0 .. NumRows
             /\ v1' \in [Store!Items -> [Store!Rows -> Store!Values]]
             /\ \A i \in Store!Items, r \in Store!Rows :
                  v1'[i][r] = IF i = v8 /\ r \in rows
                              THEN Store!Reseal(v6, Plans[i], v1[i][r], Store!At(i, r)).value
                              ELSE v1[i][r]
             /\ v2' \in [Store!Items -> Store!ItemRows]
             /\ \A i \in Store!Items :
                  /\ v2'[i].state = v2[i].state
                  /\ v2'[i].cursor = IF i = v8 THEN end ELSE v2[i].cursor
             /\ v4' \in [wal : BOOLEAN, free : BOOLEAN, inUse : BOOLEAN]
             /\ v4'.free = v4.free
             /\ v5' = IF Store!Cardinality(rows) < BATCH_SIZE THEN "itemDone" ELSE "batch"
             /\ UNCHANGED <<v3, v8, v6, v7, v9, v11, v12, v13, v14, v15>>
<1> DEFINE rows == Store!BatchRows(v2[v8].cursor)
           end == Store!Max(rows \cup {v2[v8].cursor})
           Of(r) == Store!Reseal(v6, Plans[v8], v1[v8][r], Store!At(v8, r))
           sealed == \E r \in rows : Of(r).outcome = "Sealed"
<1>1. /\ v8 \in Store!Items /\ v2[v8].state = "sealing" /\ v6 \in Ciphers
      /\ v2[v8].cursor \in 0 .. NumRows
  BY DEF Store!Batch, Store!WalkIsInOrder, Store!KeyChecked, Store!TypeOK, Store!ItemRows
<1>2. /\ end \in 0 .. NumRows /\ rows \subseteq Store!Rows
  BY <1>1, BatchIsNext
<1>3. /\ v1' = [v1 EXCEPT ![v8] = [r \in Store!Rows |-> IF r \in rows THEN Of(r).value
                                                       ELSE v1[v8][r]]]
      /\ v2' = [v2 EXCEPT ![v8].cursor = end]
      /\ v4' = [v4 EXCEPT !.wal = v4.wal \/ sealed]
      /\ v5' = IF Store!Cardinality(rows) < BATCH_SIZE THEN "itemDone" ELSE "batch"
      /\ UNCHANGED <<v3, v8, v6, v7, v9, v11, v12, v13, v14, v15>>
  BY DEF Store!Batch
<1>4. \A r \in Store!Rows : Of(r).value \in Store!Values
  <2>1. ASSUME NEW r \in Store!Rows
        PROVE  Of(r).value \in Store!Values
    <3>1. v1[v8][r] \in Store!Values
      BY <1>1 DEF Store!TypeOK
    <3>2. <<>> \in Seq(Store!Tokens)
      OBVIOUS
    <3> QED
      BY <1>1, <3>1, <3>2, Resealed
  <2> QED
    BY <2>1
<1> HIDE DEF rows, end, Of, sealed
<1>5. /\ v1' \in [Store!Items -> [Store!Rows -> Store!Values]]
      /\ \A i \in Store!Items, r \in Store!Rows :
           v1'[i][r] = IF i = v8 /\ r \in rows THEN Of(r).value ELSE v1[i][r]
  BY <1>1, <1>3, <1>4 DEF Store!TypeOK
<1>6. \A i \in Store!Items, r \in Store!Rows :
        v1'[i][r] = IF i = v8 /\ r \in rows
                    THEN Store!Reseal(v6, Plans[i], v1[i][r], Store!At(i, r)).value
                    ELSE v1[i][r]
  BY <1>5 DEF Of
<1>7. /\ v2' \in [Store!Items -> Store!ItemRows]
      /\ \A i \in Store!Items :
           /\ v2'[i].state = v2[i].state
           /\ v2'[i].cursor = IF i = v8 THEN end ELSE v2[i].cursor
  BY <1>1, <1>2, <1>3 DEF Store!TypeOK, Store!ItemRows
<1>8. /\ v4' \in [wal : BOOLEAN, free : BOOLEAN, inUse : BOOLEAN]
      /\ v4'.free = v4.free
  <2>1. (v4.wal \/ sealed) \in BOOLEAN
    OBVIOUS
  <2>2. PICK w \in BOOLEAN : v4' = [v4 EXCEPT !.wal = w]
    BY <1>3, <2>1, Zenon
  <2> QED
    BY <2>2 DEF Store!TypeOK
<1> QED
  BY <1>1, <1>2, <1>3, <1>5, <1>6, <1>7, <1>8 DEF rows, end

\* A write, of the process or of the one without a key.
LEMMA WriteDoes ==
  ASSUME Store!ContentStoreAssumption, Store!TypeOK, Store!KeyChecked, NEW i \in Store!Items,
         NEW r \in Store!Rows, NEW t \in Texts
  PROVE  /\ Store!Write(i, r, t) =>
              /\ v5 = "serving" /\ v7 = Store!Sealing(v6) /\ v6 \in Ciphers
              /\ \E new \in Store!Values :
                   /\ v1' = [v1 EXCEPT ![i][r] = new]
                   /\ Store!Means(i, r, new, t) /\ new.root = v6.current
         /\ Store!GuestWrites(i, r, t) =>
              /\ v11 = Store!Compat
              /\ \E new \in Store!Values :
                   /\ v1' = [v1 EXCEPT ![i][r] = new]
                   /\ Store!Means(i, r, new, t) /\ new.root = 0
<1>1. ASSUME Store!Write(i, r, t)
      PROVE  /\ v5 = "serving" /\ v7 = Store!Sealing(v6) /\ v6 \in Ciphers
             /\ \E new \in Store!Values :
                  /\ v1' = [v1 EXCEPT ![i][r] = new]
                  /\ Store!Means(i, r, new, t) /\ new.root = v6.current
  <2>1. v5 = "serving" /\ v6 \in Ciphers /\ v7 \in {Store!Sealing(v6), Store!Unhealthy}
    BY <1>1 DEF Store!Write, Store!KeyChecked
  <2>2. v7 = Store!Sealing(v6)
    BY <1>1, <2>1 DEF Store!Write, Store!Accepts, Store!Unhealthy, Store!StoreSeal
  <2>3. v1' = [v1 EXCEPT ![i][r] = Store!SealValue(v7, Plans[i], t, Store!At(i, r))]
    BY <1>1 DEF Store!Write
  <2> QED
    BY <2>1, <2>2, <2>3, Stored
<1>2. ASSUME Store!GuestWrites(i, r, t)
      PROVE  /\ v11 = Store!Compat
             /\ \E new \in Store!Values :
                  /\ v1' = [v1 EXCEPT ![i][r] = new]
                  /\ Store!Means(i, r, new, t) /\ new.root = 0
  <2>1. v11 = Store!Compat
    BY <1>2 DEF Store!GuestWrites, Store!KeyChecked, Store!Accepts, Store!Unhealthy,
      Store!NoProcess, Store!StoreSeal
  <2>2. v1' = [v1 EXCEPT ![i][r] = Store!SealValue(v11, Plans[i], t, Store!At(i, r))]
    BY <1>2 DEF Store!GuestWrites
  <2>3. \E c \in Ciphers : TRUE
    BY DEF Store!ContentStoreAssumption
  <2> QED
    BY <2>1, <2>2, <2>3, Stored
<1> QED
  BY <1>1, <1>2

-----------------------------------------------------------------------------
(* The types.                                                              *)

\* What a store holds that no process has opened is of the right types.
LEMMA TypesInit ==
  ASSUME Store!ContentStoreAssumption, Store!Init
  PROVE  Store!TypeOK
<1>1. PICK l \in Legacy : v1 = l.cells /\ v2 = l.items /\ v3 = l.rec
  BY DEF Store!Init
<1>2. Store!LegacyStore(l)
  BY DEF Store!ContentStoreAssumption
<1>3. /\ v1 \in [Store!Items -> [Store!Rows -> Store!Values]]
      /\ v2 \in [Store!Items -> Store!ItemRows]
      /\ \A i \in Store!Items : v2[i].state # "sealing" => v2[i].cursor = 0
      /\ v3 \in Store!StoreRows
      /\ v3.scrubbed \/ v3.tried => v3.state = "vacuum_pending"
  BY <1>1, <1>2 DEF Store!LegacyStore
<1>4. 1 \in 1 .. Len(Plans) + 1
  BY DEF Store!ContentStoreAssumption
<1> QED
  BY <1>3, <1>4 DEF Store!Init, Store!TypeOK, Store!NoProcess, Store!StoreSeal

\* The plans are numbered, and the process goes through them by number.
LEMMA PlanCount ==
  ASSUME Store!ContentStoreAssumption
  PROVE  /\ Len(Plans) \in Nat \ {0} /\ Store!Items = 1 .. Len(Plans)
         /\ 1 \in 1 .. Len(Plans) + 1 /\ 1 \in Store!Items
         /\ \A p \in Store!Items : p + 1 \in 1 .. Len(Plans) + 1
         /\ \A p \in 1 .. Len(Plans) + 1 :
              /\ p \in Int
              /\ \A i \in Store!Items :
                   /\ i \in Int
                   /\ i < p + 1 => i < p \/ i = p
                   /\ p \notin Store!Items => i < p
BY DEF Store!ContentStoreAssumption, Store!Items

\* Residue only goes.
LEMMA ResidueFacts ==
  ASSUME NEW x \in [wal : BOOLEAN, free : BOOLEAN, inUse : BOOLEAN]
  PROVE  /\ [x EXCEPT !.wal = FALSE] \in [wal : BOOLEAN, free : BOOLEAN, inUse : BOOLEAN]
         /\ [x EXCEPT !.wal = FALSE].free = x.free
         /\ [x EXCEPT !.wal = FALSE, !.free = FALSE]
              \in [wal : BOOLEAN, free : BOOLEAN, inUse : BOOLEAN]
         /\ [x EXCEPT !.wal = FALSE, !.free = FALSE].free = FALSE
         /\ [wal |-> FALSE, free |-> FALSE, inUse |-> FALSE]
              \in [wal : BOOLEAN, free : BOOLEAN, inUse : BOOLEAN]
OBVIOUS

\* Each step keeps the types.
LEMMA TypesStay ==
  ASSUME Store!ContentStoreAssumption, Store!TypeOK, Store!KeyChecked, Store!WalkIsInOrder,
         Store!ScrubIsOwed, [Store!Next]_(Store!vars)
  PROVE  Store!TypeOK'
<1> DEFINE Row(row) == /\ row \in Store!StoreRows
                       /\ row.scrubbed \/ row.tried => row.state = "vacuum_pending"
           Walks(of) == /\ of \in [Store!Items -> Store!ItemRows]
                        /\ \A i \in Store!Items : of[i].state # "sealing" => of[i].cursor = 0
           Others == /\ v1 \in [Store!Items -> [Store!Rows -> Store!Values]]
                     /\ v4 \in [wal : BOOLEAN, free : BOOLEAN, inUse : BOOLEAN]
                     /\ v5 \in {"closed", "key", "pending", "pendingScrub", "pendingVacuum",
                                "reopen", "migrate", "item", "batch", "itemDone", "finish",
                                "finishScrub", "finishVacuum", "serving"}
                     /\ v6 \in Ciphers \cup {Store!NoCipher}
                     /\ v8 \in 1 .. Len(Plans) + 1
                     /\ v11.mode \in {"none", "compat", "unhealthy"}
<1>0. /\ Row(v3) /\ Walks(v2) /\ Others
      /\ v3.scrubbed \in BOOLEAN /\ v3.tried \in BOOLEAN
  BY DEF Store!TypeOK, Store!StoreRows
<1>k. NumRows \in Nat
  BY DEF Store!ContentStoreAssumption
<1>t. Row(v3') /\ Walks(v2') /\ Others' => Store!TypeOK'
  BY DEF Store!TypeOK
<1> HIDE DEF Row
<1>r. ASSUME NEW c \in Ciphers
      PROVE  Row(Store!RecordKcv(v3, c.current))
  <2>1. c.current \in Nat /\ v3 \in Store!StoreRows
    BY <1>0, CipherFacts DEF Row
  <2>2. /\ Store!RecordKcv(v3, c.current) \in Store!StoreRows
        /\ Store!RecordKcv(v3, c.current).state
             = (IF v3.state = "none" THEN "ok" ELSE v3.state)
        /\ Store!RecordKcv(v3, c.current).scrubbed = v3.scrubbed
        /\ Store!RecordKcv(v3, c.current).tried = v3.tried
    BY <2>1, Records
  <2> QED
    BY <1>0, <2>2 DEF Row
<1>o. ASSUME NEW s \in BOOLEAN, NEW u \in BOOLEAN
      PROVE  Row(Store!OwesVacuum(v3, s, u))
  <2>1. /\ Store!OwesVacuum(v3, s, u) \in Store!StoreRows
        /\ Store!OwesVacuum(v3, s, u).state = "vacuum_pending"
    BY <1>0, Owes DEF Row
  <2> QED
    BY <2>1 DEF Row
<1>c. Row(Store!Compacted(v3))
  <2>1. /\ Store!Compacted(v3) \in Store!StoreRows
        /\ Store!Compacted(v3).scrubbed = FALSE /\ Store!Compacted(v3).tried = FALSE
    BY <1>0, Compacts DEF Row
  <2> QED
    BY <2>1 DEF Row
<1>s. Row(Store!ScrubOwed(v3))
  <2>1. /\ Store!ScrubOwed(v3) \in Store!StoreRows
        /\ Store!ScrubOwed(v3).state = "vacuum_pending"
    BY <1>0, OwesScrub DEF Row
  <2> QED
    BY <2>1 DEF Row
<1> USE DEF Store!Goto, Store!diskVars, Store!procVars
<1>1. ASSUME NEW c \in Ciphers, Store!Boot(c)
      PROVE  Store!TypeOK'
  BY <1>0, <1>1, <1>t, PlanCount DEF Store!Boot
<1>2. CASE Store!CheckStoreKey
  <2>1. v6 \in Ciphers
    BY <1>2 DEF Store!CheckStoreKey, Store!KeyChecked
  <2>2. v3' = v3 \/ v3' = Store!RecordKcv(v3, v6.current)
    BY <1>2 DEF Store!CheckStoreKey
  <2>3. Row(v3')
    BY <1>0, <1>r, <2>1, <2>2
  <2> QED
    BY <1>0, <1>2, <1>t, <2>3 DEF Store!CheckStoreKey
<1>3. CASE Store!NothingPending \/ Store!PendingCheckpoint \/ Store!PendingScrub
           \/ Store!PendingVacuum
  <2>1. \/ v3' = v3 \/ v3' = Store!OwesVacuum(v3, TRUE, FALSE)
        \/ v3' = Store!OwesVacuum(v3, FALSE, TRUE)
        \/ v3' = Store!OwesVacuum(v3, v3.scrubbed, TRUE) \/ v3' = Store!Compacted(v3)
    BY <1>3 DEF Store!NothingPending, Store!PendingCheckpoint, Store!PendingScrub,
      Store!PendingVacuum
  <2>2. Row(v3')
    BY <1>0, <1>o, <1>c, <2>1
  <2>3. v4' \in [wal : BOOLEAN, free : BOOLEAN, inUse : BOOLEAN]
    <3>1. \/ v4' = v4 \/ v4' = [v4 EXCEPT !.wal = FALSE]
          \/ v4' = [v4 EXCEPT !.wal = FALSE, !.free = FALSE]
          \/ v4' = [wal |-> FALSE, free |-> FALSE, inUse |-> FALSE]
      BY <1>3 DEF Store!NothingPending, Store!PendingCheckpoint, Store!PendingScrub,
        Store!PendingVacuum
    <3>2. v4 \in [wal : BOOLEAN, free : BOOLEAN, inUse : BOOLEAN]
      BY <1>0
    <3> QED
      BY <3>1, <3>2, ResidueFacts
  <2>4. v5' \in {"reopen", "pendingVacuum", "pendingScrub"}
    BY <1>3 DEF Store!NothingPending, Store!PendingCheckpoint,
      Store!PendingScrub, Store!PendingVacuum
  <2>5. UNCHANGED <<v1, v2, v6, v8, v11>>
    BY <1>3 DEF Store!NothingPending, Store!PendingCheckpoint,
      Store!PendingScrub, Store!PendingVacuum
  <2> QED
    BY <1>0, <1>t, <2>2, <2>3, <2>4, <2>5
<1>4. CASE Store!ReopenPlaintextItems
  <2>1. Store!Pending \in Store!ItemRows /\ Store!Pending.cursor = 0
    BY <1>k DEF Store!Pending, Store!Item, Store!ItemRows
  <2>2. ASSUME NEW i \in Store!Items
        PROVE  v2'[i] = Store!Pending \/ v2'[i] = v2[i]
    BY <1>4, <2>2 DEF Store!ReopenPlaintextItems
  <2>3. v2' = [i \in Store!Items |-> v2'[i]]
    BY <1>4 DEF Store!ReopenPlaintextItems
  <2> HIDE DEF Store!Goto
  <2>4. Walks(v2')
    BY <1>0, <2>1, <2>2, <2>3
  <2> QED
    BY <1>0, <1>4, <1>t, <2>4 DEF Store!ReopenPlaintextItems, Store!Goto
<1>5. CASE Store!Migrate \/ Store!SkipItem \/ Store!Migrated
  <2>1. v8' \in 1 .. Len(Plans) + 1
    BY <1>0, <1>5, PlanCount DEF Store!Migrate, Store!SkipItem, Store!Migrated
  <2> QED
    BY <1>0, <1>5, <1>t, <2>1 DEF Store!Migrate, Store!SkipItem, Store!Migrated
<1>6. CASE Store!StartItem
  <2>1. Row(v3')
    BY <1>6, <1>s DEF Store!StartItem
  <2>2. v2' = [v2 EXCEPT ![v8].state = "sealing"]
    BY <1>6 DEF Store!StartItem
  <2>3. Walks(v2')
    BY ZenonT(60), <1>0, <2>2 DEF Store!ItemRows
  <2> QED
    BY <1>0, <1>6, <1>t, <2>1, <2>3 DEF Store!StartItem
<1>7. CASE Store!Batch
  <2>1. /\ v1' \in [Store!Items -> [Store!Rows -> Store!Values]]
        /\ v2' \in [Store!Items -> Store!ItemRows]
        /\ v4' \in [wal : BOOLEAN, free : BOOLEAN, inUse : BOOLEAN]
        /\ v2[v8].state = "sealing"
        /\ UNCHANGED <<v3, v6, v8, v11>>
    BY <1>7, BatchDoes
  <2>2. \A i \in Store!Items : v2'[i].state = v2[i].state
    BY <1>7, BatchDoes
  <2>3. \A i \in Store!Items : i # v8 => v2'[i].cursor = v2[i].cursor
    BY <1>7, BatchDoes
  <2>4. Walks(v2')
    BY <1>0, <2>1, <2>2, <2>3
  <2>5. v5' \in {"itemDone", "batch"}
    BY <1>7 DEF Store!Batch
  <2> QED
    BY <1>0, <1>t, <2>1, <2>4, <2>5 DEF Row
<1>8. CASE Store!ItemDone
  <2>1. v6 \in Ciphers /\ v8 \in Store!Items
    BY <1>8 DEF Store!ItemDone, Store!KeyChecked, Store!WalkIsInOrder
  <2>2. v3' = v3 \/ v3' = Store!RecordKcv(v3, v6.current)
    BY <1>8 DEF Store!ItemDone
  <2>3. Row(v3')
    BY <1>0, <1>r, <2>1, <2>2
  <2>4. Store!Item("sealed", 0) \in Store!ItemRows /\ Store!Item("sealed", 0).cursor = 0
    BY <1>k DEF Store!Item, Store!ItemRows
  <2>5. v2' = [v2 EXCEPT ![v8] = Store!Item("sealed", 0)]
    BY <1>8 DEF Store!ItemDone
  <2>6. Walks(v2')
    BY <1>0, <2>1, <2>4, <2>5
  <2>7. v8' \in 1 .. Len(Plans) + 1
    BY <1>8, <2>1, PlanCount DEF Store!ItemDone
  <2> QED
    BY <1>0, <1>8, <1>t, <2>3, <2>6, <2>7 DEF Store!ItemDone
<1>9. CASE Store!FinishCheckpoint \/ Store!FinishScrub \/ Store!FinishVacuum
  <2>1. \/ v3' = v3 \/ v3' = Store!OwesVacuum(v3, TRUE, FALSE)
        \/ v3' = Store!OwesVacuum(v3, FALSE, FALSE) \/ v3' = Store!Compacted(v3)
    BY <1>9 DEF Store!FinishCheckpoint, Store!FinishScrub, Store!FinishVacuum,
      Store!FinishFails
  <2>2. Row(v3')
    BY <1>0, <1>o, <1>c, <2>1
  <2>3. v4' \in [wal : BOOLEAN, free : BOOLEAN, inUse : BOOLEAN]
    <3>1. \/ v4' = v4 \/ v4' = [v4 EXCEPT !.wal = FALSE]
          \/ v4' = [v4 EXCEPT !.wal = FALSE, !.free = FALSE]
          \/ v4' = [wal |-> FALSE, free |-> FALSE, inUse |-> FALSE]
      BY <1>9 DEF Store!FinishCheckpoint, Store!FinishScrub, Store!FinishVacuum,
        Store!FinishFails
    <3>2. v4 \in [wal : BOOLEAN, free : BOOLEAN, inUse : BOOLEAN]
      BY <1>0
    <3> QED
      BY <3>1, <3>2, ResidueFacts
  <2>4. v5' \in {"serving", "finishVacuum", "finishScrub"}
    BY <1>9 DEF Store!FinishCheckpoint, Store!FinishScrub,
      Store!FinishVacuum, Store!FinishFails
  <2>5. UNCHANGED <<v1, v2, v6, v8, v11>>
    BY <1>9 DEF Store!FinishCheckpoint, Store!FinishScrub,
      Store!FinishVacuum, Store!FinishFails
  <2> QED
    BY <1>0, <1>t, <2>2, <2>3, <2>4, <2>5
<1>10. CASE Store!Crash
  BY <1>0, <1>10, <1>t, PlanCount DEF Store!Crash
<1>11. CASE Store!DayPasses
  <2>1. v3' = [v3 EXCEPT !.tried = FALSE]
    BY <1>11 DEF Store!DayPasses
  <2>2. Row(v3')
    BY <1>0, <2>1 DEF Row, Store!StoreRows
  <2> QED
    BY <1>0, <1>11, <1>t, <2>2 DEF Store!DayPasses
<1>12. CASE Store!GuestOpens \/ Store!GuestRefreshes \/ Store!GuestCloses
  <2>1. v11'.mode \in {"none", "compat", "unhealthy"}
    BY <1>12 DEF Store!GuestOpens, Store!GuestRefreshes, Store!GuestCloses, Store!StoreState,
      Store!NoProcess, Store!Compat, Store!Unhealthy, Store!StoreSeal
  <2> QED
    BY <1>0, <1>12, <1>t, <2>1 DEF Store!GuestOpens, Store!GuestRefreshes, Store!GuestCloses
<1>13. ASSUME NEW i \in Store!Items, NEW r \in Store!Rows, NEW t \in Texts,
              Store!Write(i, r, t) \/ Store!GuestWrites(i, r, t)
       PROVE  Store!TypeOK'
  <2>1. PICK new \in Store!Values : v1' = [v1 EXCEPT ![i][r] = new]
    BY <1>13, WriteDoes
  <2>2. v1' \in [Store!Items -> [Store!Rows -> Store!Values]]
    BY <1>0, <2>1
  <2> QED
    BY <1>0, <1>13, <1>t, <2>2 DEF Store!Write, Store!GuestWrites
<1>14. CASE UNCHANGED Store!vars
  BY <1>14 DEF Store!vars, Store!TypeOK
<1> QED
  BY <1>1, <1>2, <1>3, <1>4, <1>5, <1>6, <1>7, <1>8, <1>9, <1>10, <1>11, <1>12, <1>13, <1>14
  DEF Store!Next, Store!open_store

\* The record names another key after the key check and a finished item only.
LEMMA KeyStays ==
  ASSUME Store!TypeOK, [Store!Next]_(Store!vars), ~Store!CheckStoreKey, ~Store!ItemDone
  PROVE  v3'.kcv = v3.kcv
<1>0. v3 \in Store!StoreRows /\ v3.scrubbed \in BOOLEAN
  BY DEF Store!TypeOK, Store!StoreRows
<1>1. \/ v3' = v3 \/ \E s \in BOOLEAN, t \in BOOLEAN : v3' = Store!OwesVacuum(v3, s, t)
      \/ v3' = Store!Compacted(v3) \/ v3' = Store!ScrubOwed(v3)
      \/ v3' = [v3 EXCEPT !.tried = FALSE]
  <2> USE DEF Store!diskVars
  <2>1. CASE Store!PendingScrub \/ Store!PendingVacuum \/ Store!StartItem
    BY <1>0, <2>1 DEF Store!PendingScrub, Store!PendingVacuum, Store!StartItem
  <2>2. CASE Store!FinishCheckpoint \/ Store!FinishScrub \/ Store!FinishVacuum
    BY <2>2 DEF Store!FinishCheckpoint, Store!FinishScrub, Store!FinishVacuum,
      Store!FinishFails
  <2>3. CASE Store!DayPasses
    BY <2>3 DEF Store!DayPasses
  <2>4. CASE \E c \in Ciphers : Store!Boot(c)
    BY <2>4 DEF Store!Boot
  <2>5. CASE \/ Store!NothingPending \/ Store!PendingCheckpoint \/ Store!ReopenPlaintextItems
             \/ Store!Migrate \/ Store!SkipItem \/ Store!Batch \/ Store!Migrated
    BY <2>5 DEF Store!NothingPending, Store!PendingCheckpoint, Store!ReopenPlaintextItems,
      Store!Migrate, Store!SkipItem, Store!Batch, Store!Migrated
  <2>6. CASE \/ Store!Crash \/ Store!GuestOpens \/ Store!GuestRefreshes \/ Store!GuestCloses
    BY <2>6 DEF Store!Crash, Store!GuestOpens, Store!GuestRefreshes, Store!GuestCloses
  <2>7. CASE \E i \in Store!Items, r \in Store!Rows, t \in Texts :
               Store!Write(i, r, t) \/ Store!GuestWrites(i, r, t)
    BY <2>7 DEF Store!Write, Store!GuestWrites
  <2>8. CASE UNCHANGED Store!vars
    BY <2>8 DEF Store!vars
  <2> QED
    BY <2>1, <2>2, <2>3, <2>4, <2>5, <2>6, <2>7, <2>8 DEF Store!Next, Store!open_store
<1>2. CASE \E s \in BOOLEAN, t \in BOOLEAN : v3' = Store!OwesVacuum(v3, s, t)
  <2>1. PICK s \in BOOLEAN, t \in BOOLEAN : v3' = Store!OwesVacuum(v3, s, t)
    BY <1>2
  <2>2. Store!OwesVacuum(v3, s, t).kcv = v3.kcv
    BY <1>0, Owes
  <2> QED
    BY <2>1, <2>2
<1>3. CASE v3' = [v3 EXCEPT !.tried = FALSE]
  BY <1>0, <1>3 DEF Store!StoreRows
<1>4. CASE v3' = Store!Compacted(v3)
  BY <1>0, <1>4, Compacts
<1>5. CASE v3' = Store!ScrubOwed(v3)
  BY <1>0, <1>5, OwesScrub
<1> QED
  BY <1>1, <1>2, <1>3, <1>4, <1>5

\* A process comes and goes by these steps, and cells are written by those.
LEMMA ProcessStays ==
  ASSUME [Store!Next]_(Store!vars), ~Store!CheckStoreKey, ~Store!Crash,
         ~\E c \in Ciphers : Store!Boot(c)
  PROVE  /\ UNCHANGED <<v6, v7, v14>> /\ (v5 = "closed" => v5' = "closed")
         /\ ~Store!Batch /\ (~\E i \in Store!Items, r \in Store!Rows, t \in Texts :
                               Store!Write(i, r, t) \/ Store!GuestWrites(i, r, t))
              => UNCHANGED v1
<1> USE DEF Store!diskVars, Store!procVars, Store!Goto
<1>1. CASE Store!PendingScrub \/ Store!PendingVacuum \/ Store!StartItem
  BY <1>1 DEF Store!PendingScrub, Store!PendingVacuum, Store!StartItem
<1>2. CASE Store!FinishCheckpoint \/ Store!FinishScrub \/ Store!FinishVacuum
  BY <1>2 DEF Store!FinishCheckpoint, Store!FinishScrub, Store!FinishVacuum,
    Store!FinishFails
<1>3. CASE Store!DayPasses \/ Store!ItemDone
  BY <1>3 DEF Store!DayPasses, Store!ItemDone
<1>5. CASE \/ Store!NothingPending \/ Store!PendingCheckpoint \/ Store!ReopenPlaintextItems
           \/ Store!Migrate \/ Store!SkipItem \/ Store!Migrated
  BY <1>5 DEF Store!NothingPending, Store!PendingCheckpoint, Store!ReopenPlaintextItems,
    Store!Migrate, Store!SkipItem, Store!Migrated
<1>6. CASE \/ Store!GuestOpens \/ Store!GuestRefreshes \/ Store!GuestCloses
  BY <1>6 DEF Store!GuestOpens, Store!GuestRefreshes, Store!GuestCloses
<1>7. CASE \E i \in Store!Items, r \in Store!Rows, t \in Texts :
             Store!Write(i, r, t) \/ Store!GuestWrites(i, r, t)
  BY <1>7 DEF Store!Write, Store!GuestWrites
<1>8. CASE UNCHANGED Store!vars
  BY <1>8 DEF Store!vars
<1>9. CASE Store!Batch
  BY <1>9 DEF Store!Batch
<1> QED
  BY <1>1, <1>2, <1>3, <1>5, <1>6, <1>7, <1>8, <1>9 DEF Store!Next, Store!open_store

-----------------------------------------------------------------------------
(* Whose roots a store is sealed under.                                    *)

\* An unopened store has one root, the one it names.
LEMMA RootsInit ==
  ASSUME Store!ContentStoreAssumption, Store!Init
  PROVE  Store!RootsFollow /\ Store!OneCipherOpensAll
<1>1. PICK l \in Legacy : v1 = l.cells /\ v3 = l.rec
  BY DEF Store!Init
<1>2. Store!LegacyStore(l) /\ v3.kcv \in Nat
  BY <1>1 DEF Store!ContentStoreAssumption, Store!LegacyStore, Store!StoreRows
<1>3. ASSUME NEW i \in Store!Items, NEW r \in Store!Rows, v1[i][r].root > 0
      PROVE  v1[i][r].root = v3.kcv
  <2> DEFINE v == v1[i][r]
  <2>1. \/ v = Store!Null \/ v.root = v3.kcv \/ v = Store!Plain(v.text)
    BY <1>1, <1>2 DEF Store!LegacyStore
  <2>2. Store!Null.root = -1 /\ Store!Plain(v.text).root = 0
    BY DEF Store!Null, Store!Plain
  <2> HIDE DEF v
  <2>3. v.root > 0
    BY <1>3 DEF v
  <2>4. v.root = v3.kcv
    BY <2>1, <2>2, <2>3
  <2> QED
    BY <2>4 DEF v
<1>4. v5 = "closed" /\ v7.mode = "none"
  BY DEF Store!Init, Store!NoProcess, Store!StoreSeal
<1>5. PICK c \in Ciphers : v3.kcv \in {0} \cup Store!Roots(c)
  BY <1>1, <1>2 DEF Store!LegacyStore, Store!ContentStoreAssumption
<1>6. Store!OneCipherOpensAll
  BY <1>2, <1>3, <1>5 DEF Store!OneCipherOpensAll
<1>7. Store!RootsFollow
  BY <1>2, <1>3, <1>4 DEF Store!RootsFollow
<1> QED
  BY <1>6, <1>7

\* Who seals holds the record, and opens every value and what it writes.
LEMMA SealerOpensAll ==
  ASSUME Store!ContentStoreAssumption, Store!TypeOK, Store!KeyChecked, Store!RootsFollow,
         v5 # "closed", v7 = Store!Sealing(v6)
  PROVE  /\ v6 \in Ciphers /\ v6.current \notin v14 /\ v6.current \in Store!Roots(v6)
         /\ v3.kcv \in Store!Roots(v6) /\ v3.kcv \in Nat \ {0}
         /\ \A i \in Store!Items, r \in Store!Rows :
              v1[i][r].root > 0 => v1[i][r].root \in Store!Roots(v6)
         /\ \A c \in Ciphers :
              /\ c.current \notin v14 /\ v3.kcv \in Store!Roots(c)
                   => v6.current \in Store!Roots(c)
              /\ v6.current \in Store!Roots(c) => Store!Roots(v6) \subseteq Store!Roots(c)
<1>1. v6 \in Ciphers /\ v6.current \notin v14 /\ v6.retired \subseteq v14
  BY DEF Store!KeyChecked, Store!RootsFollow
<1>2. v7.mode = "sealing"
  BY DEF Store!Sealing, Store!StoreSeal
<1>3. v3.kcv \in Store!Roots(v6)
  BY <1>2 DEF Store!RootsFollow
<1>4. v6.current \in Store!Roots(v6) /\ Store!Roots(v6) \subseteq v6.retired \cup {v6.current}
      /\ v6.current \in Nat \ {0} /\ v6.retired \subseteq Nat \ {0}
  BY <1>1, CipherFacts
<1>5. ASSUME NEW c \in Ciphers, c.current \notin v14, v3.kcv \in Store!Roots(c)
      PROVE  v6.current \in Store!Roots(c)
  <2>1. c.current \in Store!Roots(v6) \/ v6.current \in Store!Roots(c)
    BY <1>1, <1>3, <1>5 DEF Store!ContentStoreAssumption
  <2>2. c.current \in Store!Roots(c)
    BY CipherFacts
  <2> QED
    BY <1>1, <1>4, <1>5, <2>1, <2>2
<1>6. \A c \in Ciphers :
        v6.current \in Store!Roots(c) => Store!Roots(v6) \subseteq Store!Roots(c)
  BY <1>1 DEF Store!ContentStoreAssumption
<1>7. \A i \in Store!Items, r \in Store!Rows :
        v1[i][r].root > 0 => v1[i][r].root \in Store!Roots(v6)
  BY <1>1, <1>3 DEF Store!RootsFollow
<1> QED
  BY <1>1, <1>3, <1>4, <1>5, <1>6, <1>7

\* A step of a process that seals: what it writes it seals under its root.
LEMMA SealedStays ==
  ASSUME Store!ContentStoreAssumption, Store!TypeOK, Store!KeyChecked, Store!RootsFollow,
         v5 # "closed", v7 = Store!Sealing(v6),
         UNCHANGED <<v6, v7, v14>>, v3'.kcv \in {v3.kcv, v6.current},
         \A i \in Store!Items, r \in Store!Rows :
           v1'[i][r].root > 0 => v1'[i][r].root \in {v1[i][r].root, v6.current}
  PROVE  Store!RootsFollow' /\ Store!OneCipherOpensAll'
<1> DEFINE Facts ==
             /\ v6 \in Ciphers /\ v6.current \notin v14 /\ v6.current \in Store!Roots(v6)
             /\ v3.kcv \in Store!Roots(v6) /\ v3.kcv \in Nat \ {0}
<1>1. Facts
  BY SealerOpensAll
<1>2. \A i \in Store!Items, r \in Store!Rows :
        v1[i][r].root > 0 => v1[i][r].root \in Store!Roots(v6)
  BY SealerOpensAll
<1>3. \A c \in Ciphers : c.current \notin v14 /\ v3.kcv \in Store!Roots(c)
                           => v6.current \in Store!Roots(c)
  BY SealerOpensAll
<1>4. \A c \in Ciphers :
        v6.current \in Store!Roots(c) => Store!Roots(v6) \subseteq Store!Roots(c)
  BY SealerOpensAll
<1>5. v6.current > 0 /\ v6.current \in Nat \ {0}
  BY <1>1, CipherFacts
<1>6. v3'.kcv \in Store!Roots(v6) /\ v3'.kcv # 0
  BY <1>1, <1>5
<1>7. ASSUME NEW i \in Store!Items, NEW r \in Store!Rows, v1'[i][r].root > 0
      PROVE  v1'[i][r].root \in Store!Roots(v6)
  BY <1>1, <1>2, <1>7
<1>8. ASSUME NEW c \in Ciphers, c.current \notin v14, v3'.kcv \in Store!Roots(c)
      PROVE  Store!Roots(v6) \subseteq Store!Roots(c)
  BY <1>3, <1>4, <1>8
<1>9. Store!OneCipherOpensAll'
  BY <1>1, <1>6, <1>7 DEF Store!OneCipherOpensAll
<1>10. v6'.current \notin v14' /\ v6'.retired \subseteq v14'
  BY DEF Store!RootsFollow
<1> QED
  BY <1>6, <1>7, <1>8, <1>9, <1>10 DEF Store!RootsFollow

\* Each step keeps whose roots a store is sealed under.
LEMMA RootsStay ==
  ASSUME Store!ContentStoreAssumption, Store!TypeOK, Store!KeyChecked, Store!RootsFollow,
         Store!OneCipherOpensAll, Store!WalkIsInOrder, [Store!Next]_(Store!vars)
  PROVE  Store!RootsFollow' /\ Store!OneCipherOpensAll'
<1>0. v3 \in Store!StoreRows /\ v3.kcv \in Nat
  BY DEF Store!TypeOK, Store!StoreRows
<1>1. ASSUME NEW c \in Ciphers, Store!Boot(c)
      PROVE  Store!RootsFollow' /\ Store!OneCipherOpensAll'
  <2>1. c.current \notin c.retired
    BY CipherFacts
  <2>2. /\ v6' = c /\ v14' = v14 \cup c.retired /\ c.current \notin v14
        /\ UNCHANGED <<v1, v3>> /\ v7'.mode = "none"
    BY <1>1 DEF Store!Boot, Store!diskVars, Store!NoProcess, Store!StoreSeal
  <2>3. Store!OneCipherOpensAll'
    BY <2>2 DEF Store!OneCipherOpensAll
  <2>4. Store!RootsFollow'
    BY <2>1, <2>2 DEF Store!RootsFollow
  <2> QED
    BY <2>3, <2>4
<1>2. CASE Store!CheckStoreKey
  <2>1. v6 \in Ciphers /\ v5 # "closed"
    BY <1>2 DEF Store!CheckStoreKey, Store!KeyChecked
  <2>2. v6.current \in Nat \ {0} /\ v6.current \in Store!Roots(v6)
        /\ \A k : Store!MatchKcv(v6, k) = "Unknown" <=> k \notin Store!Roots(v6)
    BY <2>1, CipherFacts
  <2>3. UNCHANGED <<v1, v6, v14>> /\ v6.current \notin v14 /\ v6.retired \subseteq v14
    BY <1>2, <2>1 DEF Store!CheckStoreKey, Store!RootsFollow
  <2>4. CASE v7'.mode # "sealing" /\ v3' = v3
    <3>1. Store!OneCipherOpensAll'
      BY <2>3, <2>4 DEF Store!OneCipherOpensAll
    <3>2. Store!RootsFollow'
      BY <2>3, <2>4 DEF Store!RootsFollow
    <3> QED
      BY <3>1, <3>2
  <2>5. CASE v3' = v3 /\ v3.kcv \in Store!Roots(v6)
    <3>1. Store!OneCipherOpensAll'
      BY <2>3, <2>5 DEF Store!OneCipherOpensAll
    <3>2. Store!RootsFollow'
      BY <2>3, <2>5 DEF Store!RootsFollow
    <3> QED
      BY <3>1, <3>2
  <2>6. CASE v3.kcv = 0 /\ v3'.kcv = v6.current
    <3>1. \A i \in Store!Items, r \in Store!Rows : ~(v1'[i][r].root > 0)
      BY <2>3, <2>6 DEF Store!RootsFollow
    <3>2. Store!OneCipherOpensAll'
      BY <2>1, <2>2, <2>6, <3>1 DEF Store!OneCipherOpensAll
    <3>3. Store!RootsFollow'
      BY <2>2, <2>3, <2>6, <3>1 DEF Store!RootsFollow
    <3> QED
      BY <3>2, <3>3
  <2>7. \/ v7'.mode # "sealing" /\ v3' = v3
        \/ v3' = v3 /\ v3.kcv \in Store!Roots(v6)
        \/ v3.kcv = 0 /\ v3'.kcv = v6.current
    <3>1. CASE v3.minReader > Store!SUPPORTED_MIN_READER
      <4>1. v7.mode = "none"
        BY <1>2 DEF Store!CheckStoreKey, Store!KeyChecked, Store!NoProcess, Store!StoreSeal
      <4> QED
        BY <1>2, <3>1, <4>1 DEF Store!CheckStoreKey
    <3>2. CASE ~(v3.minReader > Store!SUPPORTED_MIN_READER) /\ v3.kcv = 0
      <4>1. v3' = Store!RecordKcv(v3, v6.current)
        BY <1>2, <3>2 DEF Store!CheckStoreKey, Store!KeyState
      <4> QED
        BY <1>0, <2>2, <3>2, <4>1, Records
    <3>3. CASE ~(v3.minReader > Store!SUPPORTED_MIN_READER) /\ v3.kcv # 0
               /\ v3.kcv \in Store!Roots(v6)
      <4>1. Store!MatchKcv(v6, v3.kcv) # "Unknown"
        BY <2>2, <3>3
      <4>2. Store!KeyState(v6) # "Mismatch"
        BY <3>3, <4>1 DEF Store!KeyState, Store!MatchKcv
      <4> QED
        BY <1>2, <3>3, <4>2 DEF Store!CheckStoreKey
    <3>4. CASE ~(v3.minReader > Store!SUPPORTED_MIN_READER) /\ v3.kcv # 0
               /\ v3.kcv \notin Store!Roots(v6)
      <4>1. Store!MatchKcv(v6, v3.kcv) = "Unknown"
        BY <2>2, <3>4
      <4>2. Store!KeyState(v6) = "Mismatch"
        BY <3>4, <4>1 DEF Store!KeyState
      <4> QED
        BY <1>2, <3>4, <4>2 DEF Store!CheckStoreKey, Store!Unhealthy, Store!StoreSeal
    <3> QED
      BY <3>1, <3>2, <3>3, <3>4
  <2> QED
    BY <2>4, <2>5, <2>6, <2>7
<1>3. CASE Store!Batch
  <2>1. /\ v5 # "closed" /\ v7 = Store!Sealing(v6)
        /\ UNCHANGED <<v6, v7, v14>> /\ v3' = v3
    BY <1>3 DEF Store!Batch, Store!KeyChecked, Store!Opening, Store!Migrating
  <2>2. ASSUME NEW i \in Store!Items, NEW r \in Store!Rows
        PROVE  v1'[i][r].root > 0 => v1'[i][r].root \in {v1[i][r].root, v6.current}
    <3>1. \/ v1'[i][r] = v1[i][r]
          \/ v1'[i][r] = Store!Reseal(v6, Plans[i], v1[i][r], Store!At(i, r)).value
      BY <1>3, BatchDoes
    <3>2. v6 \in Ciphers /\ v1[i][r] \in Store!Values /\ <<>> \in Seq(Store!Tokens)
      BY <1>3, BatchDoes DEF Store!TypeOK
    <3> QED
      BY <3>1, <3>2, Resealed
  <2> QED
    BY <2>1, <2>2, SealedStays
<1>4. CASE Store!ItemDone
  <2>1. /\ v5 # "closed" /\ v7 = Store!Sealing(v6)
        /\ UNCHANGED <<v6, v7, v14, v1>>
        /\ v3' = v3 \/ v3' = Store!RecordKcv(v3, v6.current)
    BY <1>4 DEF Store!ItemDone, Store!KeyChecked, Store!Opening, Store!Migrating, Store!Goto
  <2>2. v6.current \in Nat
    BY <2>1, CipherFacts DEF Store!KeyChecked
  <2>3. v3'.kcv \in {v3.kcv, v6.current}
    BY <1>0, <2>1, <2>2, Records
  <2> QED
    BY <2>1, <2>3, SealedStays
<1>5. ASSUME NEW i \in Store!Items, NEW r \in Store!Rows, NEW t \in Texts, Store!Write(i, r, t)
      PROVE  Store!RootsFollow' /\ Store!OneCipherOpensAll'
  <2>1. v5 # "closed" /\ v7 = Store!Sealing(v6) /\ UNCHANGED <<v6, v7, v14>> /\ v3' = v3
    BY <1>5, WriteDoes DEF Store!Write, Store!procVars
  <2>2. PICK new \in Store!Values :
          v1' = [v1 EXCEPT ![i][r] = new] /\ new.root = v6.current
    BY <1>5, WriteDoes
  <2>3. ASSUME NEW j \in Store!Items, NEW q \in Store!Rows
        PROVE  v1'[j][q].root > 0 => v1'[j][q].root \in {v1[j][q].root, v6.current}
    BY <2>2 DEF Store!TypeOK
  <2> QED
    BY <2>1, <2>3, SealedStays
<1>6. ASSUME NEW i \in Store!Items, NEW r \in Store!Rows, NEW t \in Texts,
             Store!GuestWrites(i, r, t)
      PROVE  Store!RootsFollow' /\ Store!OneCipherOpensAll'
  <2>1. UNCHANGED <<v5, v6, v7, v14, v3>>
    BY <1>6 DEF Store!GuestWrites, Store!procVars
  <2>2. PICK new \in Store!Values : v1' = [v1 EXCEPT ![i][r] = new] /\ new.root = 0
    BY <1>6, WriteDoes
  <2>3. ASSUME NEW j \in Store!Items, NEW q \in Store!Rows
        PROVE  v1'[j][q].root > 0 => v1'[j][q].root = v1[j][q].root /\ v1[j][q].root > 0
    BY <2>2 DEF Store!TypeOK
  <2>4. Store!OneCipherOpensAll'
    BY <2>1, <2>3 DEF Store!OneCipherOpensAll
  <2>5. Store!RootsFollow'
    BY <2>1, <2>3 DEF Store!RootsFollow
  <2> QED
    BY <2>4, <2>5
<1>7. CASE Store!Crash
  <2>1. v5' = "closed" /\ UNCHANGED <<v1, v3, v14>> /\ v7'.mode = "none"
    BY <1>7 DEF Store!Crash, Store!diskVars, Store!NoProcess, Store!StoreSeal
  <2>2. Store!OneCipherOpensAll'
    BY <2>1 DEF Store!OneCipherOpensAll
  <2> QED
    BY <2>1, <2>2 DEF Store!RootsFollow
<1>8. CASE /\ ~Store!CheckStoreKey /\ ~Store!Crash /\ ~Store!Batch /\ ~Store!ItemDone
           /\ ~\E c \in Ciphers : Store!Boot(c)
           /\ ~\E i \in Store!Items, r \in Store!Rows, t \in Texts :
                 Store!Write(i, r, t) \/ Store!GuestWrites(i, r, t)
  <2>1. UNCHANGED <<v1, v6, v7, v14>> /\ (v5 = "closed" => v5' = "closed") /\ v3'.kcv = v3.kcv
    BY <1>8, ProcessStays, KeyStays
  <2>2. Store!OneCipherOpensAll'
    BY <2>1 DEF Store!OneCipherOpensAll
  <2> QED
    BY <2>1, <2>2 DEF Store!RootsFollow
<1> QED
  BY <1>1, <1>2, <1>3, <1>4, <1>5, <1>6, <1>7, <1>8

-----------------------------------------------------------------------------
(* What the file still holds of what was replaced.                         *)

\* A migration that started before the first open owes its scrub.
LEMMA ScrubInit ==
  ASSUME Store!ContentStoreAssumption, Store!Init
  PROVE  Store!ScrubIsOwed /\ Store!OkMeansScrubbed
<1>1. PICK l \in Legacy : v2 = l.items /\ v3 = l.rec
  BY DEF Store!Init
<1>2. Store!LegacyStore(l)
  BY DEF Store!ContentStoreAssumption
<1>3. /\ \A i \in Store!Items : v2[i].state \in {"sealing", "sealed"} => v3.state = "vacuum_pending"
      /\ v3.scrubbed = FALSE /\ v2 \in [Store!Items -> Store!ItemRows]
      /\ v3 \in Store!StoreRows
  BY <1>1, <1>2 DEF Store!LegacyStore, Store!StoreRows
<1>4. \A i \in Store!Items : v2[i].state \in {"none", "pending", "sealing", "sealed"}
  BY <1>3 DEF Store!ItemRows
<1>5. v5 = "closed"
  BY DEF Store!Init
<1>6. Store!ScrubIsOwed
  BY <1>3, <1>4, <1>5 DEF Store!ScrubIsOwed
<1> QED
  BY <1>3, <1>4, <1>6 DEF Store!OkMeansScrubbed

\* Nothing is left to scrub of a clean file.
LEMMA CleanStays ==
  LET clean == [wal |-> FALSE, free |-> FALSE, inUse |-> FALSE]
  IN  /\ [clean EXCEPT !.wal = FALSE] = clean
      /\ [clean EXCEPT !.wal = FALSE, !.free = FALSE] = clean
<1> DEFINE clean == [wal |-> FALSE, free |-> FALSE, inUse |-> FALSE]
           Only == [wal : {FALSE}, free : {FALSE}, inUse : {FALSE}]
<1>1. /\ clean \in Only /\ [clean EXCEPT !.wal = FALSE] \in Only
      /\ [clean EXCEPT !.wal = FALSE, !.free = FALSE] \in Only
  OBVIOUS
<1>2. ASSUME NEW x \in Only
      PROVE  x = [wal |-> FALSE, free |-> FALSE, inUse |-> FALSE]
  OBVIOUS
<1> HIDE DEF Only
<1> QED
  BY <1>1, <1>2, Zenon

\* Each step keeps the scrub owed until it is done.
LEMMA ScrubStays ==
  ASSUME Store!ContentStoreAssumption, Store!TypeOK, Store!KeyChecked, Store!ScrubIsOwed,
         Store!OkMeansScrubbed, Store!WalkIsInOrder, [Store!Next]_(Store!vars)
  PROVE  Store!ScrubIsOwed' /\ Store!OkMeansScrubbed'
<1> DEFINE Touched(of) == \E i \in Store!Items : of[i].state \in {"sealing", "sealed"}
           Clean(of) == of = [wal |-> FALSE, free |-> FALSE, inUse |-> FALSE]
<1>0. /\ v3 \in Store!StoreRows /\ v3.scrubbed \in BOOLEAN /\ v3.tried \in BOOLEAN
      /\ v4 \in [wal : BOOLEAN, free : BOOLEAN, inUse : BOOLEAN]
      /\ v3.scrubbed \/ v3.tried => v3.state = "vacuum_pending"
  BY DEF Store!TypeOK, Store!StoreRows
<1>i. \A i \in Store!Items : v2[i].state \in {"none", "pending", "sealing", "sealed"}
  BY DEF Store!TypeOK, Store!ItemRows
<1>a. /\ v3.state = "none" => ~Touched(v2)
      /\ v5 \in {"batch", "itemDone"} => v3.state = "vacuum_pending"
      /\ v5 = "pendingVacuum" \/ v5 = "finishVacuum" => ~v4.free
      /\ v5 \in {"pendingScrub", "pendingVacuum"} => v3.state = "vacuum_pending" /\ ~v3.tried
      /\ v3.state = "ok" /\ Touched(v2) => Clean(v4)
      /\ v3.scrubbed => ~v4.free
  BY DEF Store!ScrubIsOwed, Store!OkMeansScrubbed
<1>b. ASSUME /\ v3'.state = "none" => \A i \in Store!Items : v2'[i].state \in {"none", "pending"}
             /\ v5' \in {"batch", "itemDone"} => v3'.state = "vacuum_pending"
             /\ v5' = "pendingVacuum" \/ v5' = "finishVacuum" => ~v4'.free
             /\ v5' \in {"pendingScrub", "pendingVacuum"}
                  => v3'.state = "vacuum_pending" /\ ~v3'.tried
             /\ v3'.state = "ok" /\ Touched(v2') => Clean(v4')
             /\ v3'.scrubbed => ~v4'.free
      PROVE  Store!ScrubIsOwed' /\ Store!OkMeansScrubbed'
  BY <1>b DEF Store!ScrubIsOwed, Store!OkMeansScrubbed
<1>n. v3.state = "none" => \A i \in Store!Items : v2[i].state \in {"none", "pending"}
  BY DEF Store!ScrubIsOwed
<1> HIDE DEF Clean, Touched
<1> USE DEF Store!Goto, Store!diskVars, Store!procVars
\* Nothing changes but where the process stands.
<1>c. ASSUME UNCHANGED <<v2, v3, v4>>,
             v5' = v5 \/ v5' \notin {"batch", "itemDone", "pendingVacuum", "finishVacuum",
                                     "pendingScrub"}
      PROVE  Store!ScrubIsOwed' /\ Store!OkMeansScrubbed'
  BY <1>a, <1>n, <1>b, <1>c DEF Touched, Clean
<1>1. ASSUME NEW c \in Ciphers, Store!Boot(c)
      PROVE  Store!ScrubIsOwed' /\ Store!OkMeansScrubbed'
  BY <1>1, <1>c DEF Store!Boot
<1>2. CASE Store!CheckStoreKey
  <2>1. v6 \in Ciphers
    BY <1>2 DEF Store!CheckStoreKey, Store!KeyChecked
  <2>2. v6.current \in Nat
    BY <2>1, CipherFacts
  <2>3. UNCHANGED <<v2, v4>> /\ v5' \in {"closed", "serving", "pending"}
        /\ (v3' = v3 \/ v3' = Store!RecordKcv(v3, v6.current))
    BY <1>2 DEF Store!CheckStoreKey
  <2>4. CASE v3' = Store!RecordKcv(v3, v6.current)
    <3>1. /\ v3'.state = (IF v3.state = "none" THEN "ok" ELSE v3.state)
          /\ v3'.scrubbed = v3.scrubbed
      BY <1>0, <2>2, <2>4, Records
    <3> QED
      BY <1>a, <1>n, <1>b, <2>3, <3>1
  <2>5. CASE v3' = v3
    BY <1>c, <2>3, <2>5
  <2> QED
    BY <2>3, <2>4, <2>5
<1>3. CASE Store!NothingPending
  BY <1>3, <1>c DEF Store!NothingPending
<1>4. CASE Store!PendingCheckpoint
  <2>1. /\ UNCHANGED <<v2, v3>> /\ v3.state = "vacuum_pending" /\ ~v3.tried
        /\ \/ v4' = [v4 EXCEPT !.wal = FALSE] /\ v5' = "pendingVacuum" /\ v3.scrubbed
           \/ v4' = [v4 EXCEPT !.wal = FALSE] /\ v5' = "pendingScrub"
           \/ v4' = v4 /\ v5' = "reopen"
    BY <1>4 DEF Store!PendingCheckpoint
  <2>2. v4'.free = v4.free
    <3>1. [v4 EXCEPT !.wal = FALSE].free = v4.free
      BY <1>0, ResidueFacts
    <3>2. v4' = v4 \/ v4' = [v4 EXCEPT !.wal = FALSE]
      BY <2>1
    <3> QED
      BY <3>1, <3>2, Zenon
  <2> QED
    BY <1>a, <1>b, <2>1, <2>2
<1>5. CASE Store!PendingScrub
  <2>1. v2' = v2
    BY <1>5 DEF Store!PendingScrub
  <2>5. \/ /\ v4' = [v4 EXCEPT !.wal = FALSE, !.free = FALSE] /\ v5' = "pendingVacuum"
           /\ v3' = Store!OwesVacuum(v3, TRUE, FALSE)
        \/ v4' = v4 /\ v5' = "reopen" /\ v3' = Store!OwesVacuum(v3, FALSE, TRUE)
        \/ v4' = v4 /\ v5' = "reopen" /\ v3' = v3
    BY <1>5, Zenon DEF Store!PendingScrub
  <2>2. CASE /\ v4' = [v4 EXCEPT !.wal = FALSE, !.free = FALSE] /\ v5' = "pendingVacuum"
             /\ v3' = Store!OwesVacuum(v3, TRUE, FALSE)
    <3>1. v3'.state = "vacuum_pending" /\ v3'.tried = FALSE /\ v4'.free = FALSE
      BY <1>0, <2>2, Owes, ResidueFacts
    <3> QED
      BY <1>b, <2>2, <3>1
  <2>3. CASE v4' = v4 /\ v5' = "reopen" /\ v3' = Store!OwesVacuum(v3, FALSE, TRUE)
    <3>1. v3'.state = "vacuum_pending" /\ v3'.scrubbed = FALSE
      BY <1>0, <2>3, Owes
    <3> QED
      BY <1>b, <2>3, <3>1
  <2>4. CASE v4' = v4 /\ v5' = "reopen" /\ v3' = v3
    BY <1>c, <2>1, <2>4
  <2> QED
    BY <2>2, <2>3, <2>4, <2>5
<1>6. CASE Store!PendingVacuum
  <2>1. /\ UNCHANGED v2 /\ v5' = "reopen" /\ ~v4.free
        /\ \/ Clean(v4') /\ v3' = Store!Compacted(v3)
           \/ v4' = v4 /\ v3' = Store!OwesVacuum(v3, v3.scrubbed, TRUE)
           \/ v4' = v4 /\ v3' = v3
    BY <1>6, <1>a DEF Store!PendingVacuum, Clean
  <2>2. CASE Clean(v4') /\ v3' = Store!Compacted(v3)
    <3>1. v3'.state = "ok" /\ v3'.scrubbed = FALSE
      BY <1>0, <2>2, Compacts
    <3> QED
      BY <1>b, <2>1, <2>2, <3>1
  <2>3. CASE v4' = v4 /\ v3' = Store!OwesVacuum(v3, v3.scrubbed, TRUE)
    <3>1. v3'.state = "vacuum_pending"
      <4>1. v3 \in Store!StoreRows /\ v3.scrubbed \in BOOLEAN
        BY <1>0
      <4>2. Store!OwesVacuum(v3, v3.scrubbed, TRUE).state = "vacuum_pending"
        BY <4>1, Owes, Zenon
      <4> QED
        BY <2>3, <4>2, Zenon
    <3> QED
      BY <1>b, <2>1, <2>3, <3>1
  <2>4. CASE v4' = v4 /\ v3' = v3
    BY <1>c, <2>1, <2>4
  <2> QED
    BY <2>1, <2>2, <2>3, <2>4
<1>7. CASE Store!ReopenPlaintextItems
  <2>1. UNCHANGED <<v3, v4>> /\ v5' = "migrate"
    BY <1>7 DEF Store!ReopenPlaintextItems
  <2>2. ASSUME NEW i \in Store!Items
        PROVE  v2'[i].state = "pending" \/ v2'[i].state = v2[i].state
    BY <1>7, <2>2 DEF Store!ReopenPlaintextItems, Store!Pending, Store!Item
  <2>3. Touched(v2') => Touched(v2)
    BY <2>2 DEF Touched
  <2>4. v3.state = "none" => \A i \in Store!Items : v2'[i].state \in {"none", "pending"}
    BY <1>n, <2>2
  <2> QED
    BY <1>a, <1>b, <2>1, <2>3, <2>4
<1>8. CASE Store!Migrate \/ Store!SkipItem
  BY <1>8, <1>c DEF Store!Migrate, Store!SkipItem
<1>9. CASE Store!StartItem
  <2>1. v3' = Store!ScrubOwed(v3) /\ v4' = v4 /\ v5' = "batch"
    BY <1>9 DEF Store!StartItem
  <2>2. v3'.state = "vacuum_pending" /\ v3'.scrubbed = FALSE
    BY <1>0, <2>1, OwesScrub
  <2> QED
    BY <1>b, <2>1, <2>2
<1>10. CASE Store!Batch
  <2>1. v3' = v3 /\ v4'.free = v4.free
    BY <1>10, BatchDoes
  <2>2. v5 = "batch" /\ v5' \in {"batch", "itemDone"}
    BY <1>10 DEF Store!Batch
  <2> QED
    BY <1>a, <1>b, <2>1, <2>2
<1>11. CASE Store!ItemDone
  <2>1. v6 \in Ciphers
    BY <1>11 DEF Store!ItemDone, Store!KeyChecked
  <2>2. v6.current \in Nat
    BY <2>1, CipherFacts
  <2>3. /\ v5 = "itemDone" /\ v5' = "item" /\ v4' = v4
        /\ v3' = v3 \/ v3' = Store!RecordKcv(v3, v6.current)
    BY <1>11 DEF Store!ItemDone
  <2>4. v3.state = "vacuum_pending"
    BY <1>a, <2>3
  <2>5. v3'.state = "vacuum_pending" /\ v3'.scrubbed = v3.scrubbed
    BY <1>0, <2>2, <2>3, <2>4, Records
  <2> QED
    BY <1>a, <1>b, <2>3, <2>5
<1>12. CASE Store!Migrated
  BY <1>12, <1>c DEF Store!Migrated
<1>13. CASE Store!FinishCheckpoint \/ Store!FinishScrub \/ Store!FinishVacuum
  <2>1. /\ UNCHANGED v2
        /\ \/ v4' = [v4 EXCEPT !.wal = FALSE] /\ v5' = "finishVacuum" /\ v3' = v3 /\ v3.scrubbed
           \/ v4' = [v4 EXCEPT !.wal = FALSE] /\ v5' = "finishScrub" /\ v3' = v3
           \/ v4' = [v4 EXCEPT !.wal = FALSE, !.free = FALSE] /\ v5' = "finishVacuum" /\ v3' = v3
           \/ v4' = v4 /\ v5' = "serving" /\ v3' = Store!OwesVacuum(v3, FALSE, FALSE)
           \/ Clean(v4') /\ v5' = "serving" /\ v3' = Store!Compacted(v3)
           \/ v4' = v4 /\ v5' = "serving" /\ v3' = Store!OwesVacuum(v3, TRUE, FALSE) /\ ~v4.free
    <3>1. CASE Store!FinishCheckpoint
      BY <3>1 DEF Store!FinishCheckpoint, Store!FinishFails
    <3>2. CASE Store!FinishScrub
      BY <3>2 DEF Store!FinishScrub, Store!FinishFails
    <3>3. CASE Store!FinishVacuum
      BY <1>a, <3>3 DEF Store!FinishVacuum, Store!FinishFails, Clean
    <3> QED
      BY <1>13, <3>1, <3>2, <3>3
  <2>2. CASE v4' = [v4 EXCEPT !.wal = FALSE] /\ v3' = v3
             /\ (v5' = "finishScrub" \/ (v5' = "finishVacuum" /\ v3.scrubbed))
    <3>1. v4'.free = v4.free /\ (Clean(v4) => Clean(v4'))
      BY <1>0, <2>2, CleanStays, ResidueFacts DEF Clean
    <3> QED
      BY <1>a, <1>n, <1>b, <2>1, <2>2, <3>1
  <2>3. CASE v4' = [v4 EXCEPT !.wal = FALSE, !.free = FALSE] /\ v5' = "finishVacuum" /\ v3' = v3
    <3>1. v4'.free = FALSE /\ (Clean(v4) => Clean(v4'))
      BY <1>0, <2>3, CleanStays, ResidueFacts DEF Clean
    <3> QED
      BY <1>a, <1>n, <1>b, <2>1, <2>3, <3>1
  <2>4. CASE v4' = v4 /\ v5' = "serving" /\ v3' = Store!OwesVacuum(v3, FALSE, FALSE)
    <3>1. v3'.state = "vacuum_pending" /\ v3'.scrubbed = FALSE
      BY <1>0, <2>4, Owes
    <3> QED
      BY <1>b, <2>4, <3>1
  <2>5. CASE Clean(v4') /\ v5' = "serving" /\ v3' = Store!Compacted(v3)
    <3>1. v3'.state = "ok" /\ v3'.scrubbed = FALSE
      BY <1>0, <2>5, Compacts
    <3> QED
      BY <1>b, <2>5, <3>1
  <2>6. CASE v4' = v4 /\ v5' = "serving" /\ v3' = Store!OwesVacuum(v3, TRUE, FALSE) /\ ~v4.free
    <3>1. v3'.state = "vacuum_pending"
      BY <1>0, <2>6, Owes
    <3> QED
      BY <1>b, <2>6, <3>1
  <2> QED
    BY <2>1, <2>2, <2>3, <2>4, <2>5, <2>6
<1>14. CASE Store!Crash
  BY <1>14, <1>c DEF Store!Crash
<1>15. CASE Store!DayPasses
  <2>1. v3' = [v3 EXCEPT !.tried = FALSE] /\ UNCHANGED <<v2, v4, v5>>
    BY <1>15 DEF Store!DayPasses
  <2>2. v3'.state = v3.state /\ v3'.scrubbed = v3.scrubbed /\ v3'.tried = FALSE
    BY <1>0, <2>1 DEF Store!StoreRows
  <2> QED
    BY <1>a, <1>n, <1>b, <2>1, <2>2
<1>16. CASE Store!GuestOpens \/ Store!GuestRefreshes \/ Store!GuestCloses
  BY <1>16, <1>c DEF Store!GuestOpens, Store!GuestRefreshes, Store!GuestCloses
<1>17. ASSUME NEW i \in Store!Items, NEW r \in Store!Rows, NEW t \in Texts,
              Store!Write(i, r, t) \/ Store!GuestWrites(i, r, t)
       PROVE  Store!ScrubIsOwed' /\ Store!OkMeansScrubbed'
  BY <1>17, <1>c DEF Store!Write, Store!GuestWrites
<1>18. CASE UNCHANGED Store!vars
  BY <1>18, <1>c DEF Store!vars
<1> QED
  BY <1>1, <1>2, <1>3, <1>4, <1>5, <1>6, <1>7, <1>8, <1>9, <1>10, <1>11, <1>12, <1>13, <1>14,
     <1>15, <1>16, <1>17, <1>18
  DEF Store!Next, Store!open_store

-----------------------------------------------------------------------------
(* What the cells hold.                                                    *)

\* At first a cell holds what is counted as written.
LEMMA CellsInit ==
  ASSUME Store!ContentStoreAssumption, Store!Init
  PROVE  Store!CellsAreWhatWasWritten
<1>1. PICK l \in Legacy : v1 = l.cells /\ v3 = l.rec
  BY DEF Store!Init
<1>2. Store!LegacyStore(l) /\ v1 \in [Store!Items -> [Store!Rows -> Store!Values]]
  BY <1>1 DEF Store!ContentStoreAssumption, Store!LegacyStore
<1>3. v12 = [i \in Store!Items |-> [r \in Store!Rows |-> v1[i][r].text]]
  BY DEF Store!Init
<1>4. ASSUME NEW i \in Store!Items, NEW r \in Store!Rows
      PROVE  v12[i][r] \in Seq(Store!Tokens) /\ Store!Means(i, r, v1[i][r], v12[i][r])
  <2> DEFINE v == v1[i][r]
  <2>1. v \in Store!Values /\ v12[i][r] = v.text
    BY <1>2, <1>3
  <2>2. \/ v = Store!Null
        \/ v.root > 0 /\ v.at = Store!At(i, r)
        \/ v = Store!Plain(v.text) /\ (Plans[i] = "text" => ~Store!StartsWith(v.text, {Store!RAW}))
    BY <1>1, <1>2 DEF Store!LegacyStore
  <2> HIDE DEF v
  <2>3. v = [root |-> v.root, at |-> v.at, text |-> v.text]
    BY <2>1 DEF Store!Values
  <2>4. Store!Means(i, r, v, v.text)
    <3>1. CASE v = Store!Null
      BY <3>1 DEF Store!Means, Store!Null
    <3>2. CASE v.root > 0 /\ v.at = Store!At(i, r)
      BY <2>3, <3>2 DEF Store!Means, Store!Sealed
    <3>3. CASE v = Store!Plain(v.text)
               /\ (Plans[i] = "text" => ~Store!StartsWith(v.text, {Store!RAW}))
      BY <3>3, Zenon DEF Store!Means
    <3> QED
      BY <2>2, <3>1, <3>2, <3>3
  <2> QED
    BY <2>1, <2>4 DEF Store!Values, v
<1>5. v12 \in [Store!Items -> [Store!Rows -> Seq(Store!Tokens)]]
  BY <1>3, <1>4
<1> QED
  BY <1>4, <1>5 DEF Store!CellsAreWhatWasWritten

\* Cells are written by a migration, the process and its guest alone.
LEMMA ContentStays ==
  ASSUME [Store!Next]_(Store!vars), ~Store!Batch,
         ~\E i \in Store!Items, r \in Store!Rows, t \in Texts :
            Store!Write(i, r, t) \/ Store!GuestWrites(i, r, t)
  PROVE  UNCHANGED <<v1, v12>>
<1> USE DEF Store!diskVars
<1>1. CASE Store!CheckStoreKey \/ Store!NothingPending \/ Store!PendingCheckpoint
           \/ Store!PendingScrub \/ Store!PendingVacuum
  BY <1>1 DEF Store!CheckStoreKey, Store!NothingPending, Store!PendingCheckpoint,
    Store!PendingScrub, Store!PendingVacuum
<1>2. CASE Store!FinishCheckpoint \/ Store!FinishScrub \/ Store!FinishVacuum
  BY <1>2 DEF Store!FinishCheckpoint, Store!FinishScrub, Store!FinishVacuum
<1>3. CASE Store!ReopenPlaintextItems \/ Store!Migrate \/ Store!SkipItem \/ Store!StartItem
           \/ Store!ItemDone \/ Store!Migrated
  BY <1>3 DEF Store!ReopenPlaintextItems, Store!Migrate, Store!SkipItem, Store!StartItem,
    Store!ItemDone, Store!Migrated
<1>4. CASE Store!Crash \/ Store!DayPasses \/ Store!GuestOpens \/ Store!GuestRefreshes
           \/ Store!GuestCloses
  BY <1>4 DEF Store!Crash, Store!DayPasses, Store!GuestOpens, Store!GuestRefreshes,
    Store!GuestCloses
<1>5. CASE \E c \in Ciphers : Store!Boot(c)
  BY <1>5 DEF Store!Boot
<1>6. CASE UNCHANGED Store!vars
  BY <1>6 DEF Store!vars
<1> QED
  BY <1>1, <1>2, <1>3, <1>4, <1>5, <1>6 DEF Store!Next, Store!open_store

\* Each of them writes what means the same, or what it is given.
LEMMA CellsStay ==
  ASSUME Store!ContentStoreAssumption, Store!TypeOK, Store!KeyChecked, Store!WalkIsInOrder,
         Store!CellsAreWhatWasWritten, [Store!Next]_(Store!vars)
  PROVE  Store!CellsAreWhatWasWritten'
<1>0. /\ v12 \in [Store!Items -> [Store!Rows -> Seq(Store!Tokens)]]
      /\ \A i \in Store!Items, r \in Store!Rows :
           v1[i][r] \in Store!Values /\ Store!Means(i, r, v1[i][r], v12[i][r])
  BY DEF Store!CellsAreWhatWasWritten, Store!TypeOK
<1>1. CASE Store!Batch
  <2>1. v12' = v12
    BY <1>1 DEF Store!Batch
  <2>2. ASSUME NEW i \in Store!Items, NEW r \in Store!Rows
        PROVE  Store!Means(i, r, v1'[i][r], v12[i][r])
    <3>1. \/ v1'[i][r] = v1[i][r]
          \/ v1'[i][r] = Store!Reseal(v6, Plans[i], v1[i][r], Store!At(i, r)).value
      BY <1>1, BatchDoes
    <3>2. v6 \in Ciphers /\ v12[i][r] \in Seq(Store!Tokens)
      BY <1>0, <1>1, BatchDoes
    <3> QED
      BY <1>0, <3>1, <3>2, Resealed
  <2> QED
    BY ZenonT(60), <1>0, <2>1, <2>2 DEF Store!CellsAreWhatWasWritten, Store!Means
<1>2. ASSUME NEW i \in Store!Items, NEW r \in Store!Rows, NEW t \in Texts,
             Store!Write(i, r, t) \/ Store!GuestWrites(i, r, t)
      PROVE  Store!CellsAreWhatWasWritten'
  <2>1. PICK new \in Store!Values :
          v1' = [v1 EXCEPT ![i][r] = new] /\ Store!Means(i, r, new, t)
    BY <1>2, WriteDoes
  <2>2. v12' = [v12 EXCEPT ![i][r] = t]
    BY <1>2 DEF Store!Write, Store!GuestWrites
  <2>3. t \in Seq(Store!Tokens)
    BY DEF Store!ContentStoreAssumption
  <2>4. ASSUME NEW j \in Store!Items, NEW q \in Store!Rows
        PROVE  Store!Means(j, q, v1'[j][q], v12'[j][q])
    <3>1. CASE j = i /\ q = r
      <4>1. v1'[j][q] = new /\ v12'[j][q] = t
        BY <1>0, <2>1, <2>2, <3>1 DEF Store!TypeOK
      <4> QED
        BY <2>1, <3>1, <4>1
    <3>2. CASE ~(j = i /\ q = r)
      <4>1. v1'[j][q] = v1[j][q] /\ v12'[j][q] = v12[j][q]
        BY <1>0, <2>1, <2>2, <3>2 DEF Store!TypeOK
      <4> QED
        BY <1>0, <4>1
    <3> QED
      BY <3>1, <3>2
  <2>5. v12' \in [Store!Items -> [Store!Rows -> Seq(Store!Tokens)]]
    BY <1>0, <2>2, <2>3
  <2> QED
    BY <2>4, <2>5 DEF Store!CellsAreWhatWasWritten, Store!Means
<1>3. CASE UNCHANGED <<v1, v12>>
  BY ZenonT(60), <1>3 DEF Store!CellsAreWhatWasWritten, Store!Means
<1> QED
  BY <1>1, <1>2, <1>3, ContentStays

-----------------------------------------------------------------------------
(* How far a migration came.                                               *)

\* What an unopened store says was walked is.
LEMMA WalkInit ==
  ASSUME Store!ContentStoreAssumption, Store!Init
  PROVE  Store!WalkIsInOrder
<1>1. PICK l \in Legacy : v1 = l.cells /\ v2 = l.items
  BY DEF Store!Init
<1>2. Store!LegacyStore(l)
  BY DEF Store!ContentStoreAssumption
<1>3. v5 = "closed" /\ v15 = {}
  BY DEF Store!Init
<1>4. ASSUME NEW i \in Store!Items, NEW r \in Store!Rows, Store!Passed(i, r)
      PROVE  Store!Walked(i, v1[i][r])
  <2>1. \/ v2[i].state = "sealing" /\ r <= v2[i].cursor
        \/ v2[i].state = "sealed" /\ Plans[i] = "blob"
    BY <1>3, <1>4 DEF Store!Passed, Store!Looked, Store!Migrating, Store!Finishing
  <2> QED
    BY <1>1, <1>2, <2>1 DEF Store!LegacyStore
<1> QED
  BY <1>3, <1>4 DEF Store!WalkIsInOrder, Store!Migrating, Store!Finishing

\* The walk passes nothing by.
LEMMA WalkStays ==
  ASSUME Store!ContentStoreAssumption, Store!TypeOK, Store!KeyChecked, Store!WalkIsInOrder,
         [Store!Next]_(Store!vars)
  PROVE  Store!WalkIsInOrder'
<1> DEFINE Late(i, r) == Store!At(i, r) \in v15
           Is(i, r) == Late(i, r) \/ Store!Walked(i, v1[i][r])
           Done == v5 \in Store!Finishing \/ (v5 = "serving" /\ v7.mode = "sealing")
<1>0. /\ \A i \in Store!Items, r \in Store!Rows : Store!Passed(i, r) => Is(i, r)
      /\ v5 \in {"batch", "itemDone"} => v8 \in Store!Items /\ v2[v8].state = "sealing"
      /\ v5 = "itemDone" => \A r \in Store!Rows : Is(v8, r)
      /\ v5 \in Store!Migrating => \A i \in Store!Items : i < v8 => v2[i].state = "sealed"
      /\ Done => \A i \in Store!Items : v2[i].state = "sealed"
  BY DEF Store!WalkIsInOrder
<1>b. ASSUME \A i \in Store!Items, r \in Store!Rows : Store!Passed(i, r)' => Is(i, r)',
             v5' \in {"batch", "itemDone"} => v8' \in Store!Items /\ v2'[v8'].state = "sealing",
             v5' = "itemDone" => \A r \in Store!Rows : Is(v8, r)',
             v5' \in Store!Migrating =>
               \A i \in Store!Items : i < v8' => v2'[i].state = "sealed",
             Done' => \A i \in Store!Items : v2'[i].state = "sealed"
      PROVE  Store!WalkIsInOrder'
  BY <1>b DEF Store!WalkIsInOrder, Store!Walked
<1>k. /\ Store!Migrating = {"item", "batch", "itemDone"}
      /\ Store!Finishing = {"finish", "finishScrub", "finishVacuum"}
  BY DEF Store!Migrating, Store!Finishing
<1>s. Store!Sealing(v6).mode = "sealing" /\ Store!NoProcess.mode = "none"
      /\ Store!Unhealthy.mode = "unhealthy"
  BY DEF Store!Sealing, Store!NoProcess, Store!Unhealthy, Store!StoreSeal
<1> USE DEF Store!Goto, Store!diskVars, Store!procVars
\* The process is before the migration, or starts it, and nothing else changes.
<1>c. ASSUME UNCHANGED <<v1, v2, v15>>, v5' \notin Store!Migrating, ~Done',
             v5' # "migrate"
      PROVE  Store!WalkIsInOrder'
  <2>1. ASSUME NEW i \in Store!Items, NEW r \in Store!Rows, Store!Passed(i, r)'
        PROVE  Is(i, r)'
    <3>1. Store!Passed(i, r)
      BY <1>c, <2>1 DEF Store!Passed, Store!Looked
    <3> QED
      BY <1>0, <1>c, <3>1 DEF Store!Walked
  <2> QED
    BY <1>b, <1>c, <1>k, <2>1
\* The process stays where it looks at what is finished.
<1>d. ASSUME UNCHANGED <<v1, v2, v15>>, Store!Looked,
             v5' \in {"item"} \cup Store!Finishing \cup {"serving"},
             v5' \in Store!Migrating =>
               \A i \in Store!Items : i < v8' => v2[i].state = "sealed",
             Done' => \A i \in Store!Items : v2[i].state = "sealed"
      PROVE  Store!WalkIsInOrder'
  <2>1. ASSUME NEW i \in Store!Items, NEW r \in Store!Rows, Store!Passed(i, r)'
        PROVE  Is(i, r)'
    <3>1. Store!Passed(i, r)
      BY <1>d, <2>1 DEF Store!Passed
    <3> QED
      BY <1>0, <1>d, <3>1 DEF Store!Walked
  <2> QED
    BY <1>b, <1>d, <1>k, <2>1
<1>1. ASSUME NEW c \in Ciphers, Store!Boot(c)
      PROVE  Store!WalkIsInOrder'
  BY <1>1, <1>c, <1>k DEF Store!Boot
<1>2. CASE Store!CheckStoreKey
  <2>1. UNCHANGED <<v1, v2, v15>> /\ v5' \in {"closed", "pending", "serving"}
        /\ (v5' = "serving" => v7' = Store!Unhealthy)
    BY <1>2 DEF Store!CheckStoreKey
  <2> QED
    BY <1>c, <1>k, <1>s, <2>1
<1>3. CASE Store!NothingPending \/ Store!PendingCheckpoint \/ Store!PendingScrub
           \/ Store!PendingVacuum
  <2>1. UNCHANGED <<v1, v2, v15>> /\ v5' \in {"reopen", "pendingScrub", "pendingVacuum"}
    BY <1>3 DEF Store!NothingPending, Store!PendingCheckpoint, Store!PendingScrub,
      Store!PendingVacuum
  <2> QED
    BY <1>c, <1>k, <2>1
<1>4. CASE Store!ReopenPlaintextItems
  <2>1. /\ v1' = v1 /\ v5' = "migrate"
        /\ v15' = {c \in v15 : Plans[c[1]] = "blob" \/ v2[c[1]].state = "sealing"}
    BY <1>4 DEF Store!ReopenPlaintextItems
  <2>2. ASSUME NEW i \in Store!Items
        PROVE  \/ v2'[i] = Store!Pending
               \/ /\ v2'[i] = v2[i]
                  /\ Plans[i] = "text" /\ v2[i].state = "sealed" => ~Store!HoldsPlaintext(i)
    BY <1>4, <2>2 DEF Store!ReopenPlaintextItems
  <2>3. ASSUME NEW i \in Store!Items, NEW r \in Store!Rows, Store!Passed(i, r)'
        PROVE  Is(i, r)'
    <3>1. v2'[i] = v2[i]
      BY <2>2, <2>3 DEF Store!Passed, Store!Pending, Store!Item
    <3>2. Plans[i] \in {"text", "blob"}
      BY Kinds
    <3>3. CASE v2[i].state = "sealing" \/ Plans[i] = "blob"
      <4>1. Store!Passed(i, r)
        BY <2>3, <3>1, <3>3 DEF Store!Passed
      <4>2. Store!At(i, r) \in v15 => Store!At(i, r) \in v15'
        BY <2>1, <3>3 DEF Store!At
      <4> QED
        BY <1>0, <2>1, <4>1, <4>2 DEF Store!Walked
    <3>4. CASE v2[i].state # "sealing" /\ Plans[i] # "blob"
      <4>1. ~Store!HoldsPlaintext(i)
        BY <2>2, <2>3, <3>1, <3>2, <3>4 DEF Store!Passed, Store!Pending, Store!Item
      <4>2. \/ v1[i][r] = Store!Null \/ v1[i][r].text = <<>> \/ v1[i][r].root > 0
            \/ Store!StartsWith(v1[i][r].text, Store!Envelope("text"))
        BY <4>1 DEF Store!HoldsPlaintext, Store!IsSealed
      <4>3. Plans[i] = "text"
        BY <3>2, <3>4
      <4>4. Store!Walked(i, v1[i][r])
        BY <4>2, <4>3 DEF Store!Walked, Store!Null, Store!StartsWith
      <4> QED
        BY <2>1, <4>4 DEF Store!Walked
    <3> QED
      BY <3>3, <3>4
  <2> QED
    BY <1>b, <1>k, <2>1, <2>3
<1>5. CASE Store!Migrate
  <2>1. /\ UNCHANGED <<v1, v2, v15>> /\ v5 = "migrate" /\ v5' = "item" /\ v8' = 1
    BY <1>5 DEF Store!Migrate
  <2>2. ~\E i \in Store!Items : i < 1
    BY PlanCount
  <2> QED
    BY <1>d, <1>k, <2>1, <2>2 DEF Store!Looked
<1>6. CASE Store!SkipItem
  <2>1. /\ UNCHANGED <<v1, v2, v15>> /\ v5 = "item" /\ v5' = "item" /\ v8' = v8 + 1
        /\ v8 \in Store!Items /\ v2[v8].state = "sealed"
    BY <1>6 DEF Store!SkipItem
  <2>2. ASSUME NEW i \in Store!Items, i < v8'
        PROVE  v2[i].state = "sealed"
    <3>1. i < v8 \/ i = v8
      BY <2>1, <2>2, PlanCount
    <3> QED
      BY <1>0, <1>k, <2>1, <3>1
  <2> QED
    BY <1>d, <1>k, <2>1, <2>2 DEF Store!Looked
<1>7. CASE Store!StartItem
  <2>1. /\ UNCHANGED <<v1, v8, v15>> /\ v5 = "item" /\ v5' = "batch" /\ v8 \in Store!Items
        /\ v2[v8].state # "sealed" /\ v2' = [v2 EXCEPT ![v8].state = "sealing"]
    BY <1>7 DEF Store!StartItem
  <2>2. /\ v2'[v8].state = "sealing" /\ v2'[v8].cursor = v2[v8].cursor
        /\ \A i \in Store!Items : i # v8 => v2'[i] = v2[i]
    BY <2>1 DEF Store!TypeOK, Store!ItemRows
  <2>3. ASSUME NEW i \in Store!Items, NEW r \in Store!Rows, Store!Passed(i, r)'
        PROVE  Is(i, r)'
    <3>1. CASE i # v8
      <4>1. Store!Passed(i, r)
        BY <1>k, <2>1, <2>2, <2>3, <3>1 DEF Store!Passed, Store!Looked
      <4> QED
        BY <1>0, <2>1, <4>1 DEF Store!Walked
    <3>2. CASE i = v8
      <4>1. r <= v2[v8].cursor
        BY <2>2, <2>3, <3>2 DEF Store!Passed
      <4>2. v2[v8].cursor # 0
        BY <4>1 DEF Store!Rows, Store!ContentStoreAssumption
      <4>3. v2[v8].state = "sealing"
        BY <2>1, <4>2 DEF Store!TypeOK
      <4> QED
        BY <1>0, <2>1, <3>2, <4>1, <4>3 DEF Store!Passed, Store!Walked
    <3> QED
      BY <3>1, <3>2
  <2>4. ASSUME NEW i \in Store!Items, i < v8'
        PROVE  v2'[i].state = "sealed"
    <3>1. i # v8 /\ i < v8
      BY <2>1, <2>4, PlanCount DEF Store!TypeOK
    <3> QED
      BY <1>0, <1>k, <2>1, <2>2, <3>1
  <2> QED
    BY <1>b, <1>k, <2>1, <2>2, <2>3, <2>4
<1>8. CASE Store!Batch
  <2> DEFINE rows == Store!BatchRows(v2[v8].cursor)
             end == Store!Max(rows \cup {v2[v8].cursor})
  <2>1. /\ v5 = "batch" /\ v8 \in Store!Items /\ v2[v8].state = "sealing" /\ v6 \in Ciphers
        /\ v2[v8].cursor \in 0 .. NumRows /\ v8' = v8 /\ v15' = v15
        /\ v5' = IF Store!Cardinality(rows) < BATCH_SIZE THEN "itemDone" ELSE "batch"
    BY <1>8, BatchDoes DEF Store!Batch
  <2>2. /\ \A i \in Store!Items : v2'[i].state = v2[i].state
        /\ v2'[v8].cursor = end
        /\ \A i \in Store!Items : i # v8 => v2'[i].cursor = v2[i].cursor
    BY <1>8, BatchDoes
  <2>3. /\ rows \subseteq {r \in Store!Rows : r > v2[v8].cursor}
        /\ \A r \in Store!Rows : r <= end => r <= v2[v8].cursor \/ r \in rows
        /\ Store!Cardinality(rows) < BATCH_SIZE
             => \A r \in Store!Rows : r <= v2[v8].cursor \/ r \in rows
    BY <2>1, BatchIsNext
  <2>4. ASSUME NEW i \in Store!Items, NEW r \in Store!Rows, ~(i = v8 /\ r \in rows)
        PROVE  v1'[i][r] = v1[i][r]
    BY <1>8, <2>4, BatchDoes
  <2>5. ASSUME NEW r \in Store!Rows, r \in rows
        PROVE  Store!Walked(v8, v1'[v8][r])
    <3>1. v1'[v8][r] = Store!Reseal(v6, Plans[v8], v1[v8][r], Store!At(v8, r)).value
      BY <1>8, <2>1, <2>5, BatchDoes
    <3>2. v1[v8][r] \in Store!Values /\ <<>> \in Seq(Store!Tokens)
      BY <2>1 DEF Store!TypeOK
    <3> QED
      BY <2>1, <3>1, <3>2, Resealed
  <2> HIDE DEF rows, end
  <2>6. ASSUME NEW r \in Store!Rows, r <= v2[v8].cursor \/ r \in rows
        PROVE  Is(v8, r)'
    <3>1. CASE r \in rows
      BY <2>1, <2>5, <3>1 DEF Store!Walked
    <3>2. CASE r \notin rows
      <4>1. Is(v8, r)
        BY <1>0, <2>1, <2>6, <3>2 DEF Store!Passed
      <4>2. v1'[v8][r] = v1[v8][r]
        BY <2>1, <2>4, <3>2
      <4> QED
        BY <2>1, <4>1, <4>2 DEF Store!Walked
    <3> QED
      BY <3>1, <3>2
  <2>7. ASSUME NEW i \in Store!Items, NEW r \in Store!Rows, Store!Passed(i, r)'
        PROVE  Is(i, r)'
    <3>1. CASE i = v8
      <4>1. r <= end
        BY <2>1, <2>2, <2>7, <3>1 DEF Store!Passed
      <4>2. r <= v2[v8].cursor \/ r \in rows
        BY <2>3, <4>1
      <4> QED
        BY <2>1, <2>6, <3>1, <4>2 DEF Store!Walked
    <3>2. CASE i # v8
      <4>1. Store!Passed(i, r)
        BY <1>k, <2>1, <2>2, <2>7, <3>2 DEF Store!Passed, Store!Looked
      <4>2. v1'[i][r] = v1[i][r]
        BY <2>4, <3>2
      <4> QED
        BY <1>0, <2>1, <4>1, <4>2 DEF Store!Walked
    <3> QED
      BY <3>1, <3>2
  <2>8. v5' = "itemDone" => \A r \in Store!Rows : Is(v8, r)'
    BY <2>1, <2>3, <2>6
  <2>9. v5' \in {"batch", "itemDone"}
    BY <2>1
  <2>10. \A i \in Store!Items : i < v8' => v2'[i].state = "sealed"
    BY <1>0, <1>k, <2>1, <2>2
  <2> QED
    BY <1>b, <1>k, <2>1, <2>2, <2>7, <2>8, <2>9, <2>10
<1>9. CASE Store!ItemDone
  <2>1. /\ UNCHANGED <<v1, v15>> /\ v5 = "itemDone" /\ v5' = "item" /\ v8' = v8 + 1
        /\ v2' = [v2 EXCEPT ![v8] = Store!Item("sealed", 0)]
    BY <1>9 DEF Store!ItemDone
  <2>2. v8 \in Store!Items
    BY <1>0, <2>1
  <2>3. v2'[v8].state = "sealed" /\ \A i \in Store!Items : i # v8 => v2'[i] = v2[i]
    BY <2>1, <2>2 DEF Store!TypeOK, Store!Item
  <2>4. ASSUME NEW i \in Store!Items, NEW r \in Store!Rows, Store!Passed(i, r)'
        PROVE  Is(i, r)'
    <3>1. CASE i = v8
      BY <1>0, <2>1, <3>1 DEF Store!Walked
    <3>2. CASE i # v8
      <4>1. Store!Passed(i, r)
        BY <1>k, <2>1, <2>3, <2>4, <3>2 DEF Store!Passed, Store!Looked
      <4> QED
        BY <1>0, <2>1, <4>1 DEF Store!Walked
    <3> QED
      BY <3>1, <3>2
  <2>5. ASSUME NEW i \in Store!Items, i < v8'
        PROVE  v2'[i].state = "sealed"
    <3>1. i < v8 \/ i = v8
      BY <2>1, <2>2, <2>5, PlanCount
    <3> QED
      BY <1>0, <1>k, <2>1, <2>3, <3>1
  <2> QED
    BY <1>b, <1>k, <2>1, <2>4, <2>5
<1>10. CASE Store!Migrated
  <2>1. /\ UNCHANGED <<v1, v2, v15>> /\ v5 = "item" /\ v5' \in {"finish", "serving"}
        /\ v8 \notin Store!Items
    BY <1>10 DEF Store!Migrated
  <2>2. \A i \in Store!Items : i < v8
    BY <2>1, PlanCount DEF Store!TypeOK
  <2>3. \A i \in Store!Items : v2[i].state = "sealed"
    BY <1>0, <1>k, <2>1, <2>2
  <2> QED
    BY <1>d, <1>k, <2>1, <2>3 DEF Store!Looked
<1>11. CASE Store!FinishCheckpoint \/ Store!FinishScrub \/ Store!FinishVacuum
  <2>1. /\ UNCHANGED <<v1, v2, v15>> /\ v5 \in Store!Finishing
        /\ v5' \in {"serving", "finishScrub", "finishVacuum"}
    BY <1>11, <1>k DEF Store!FinishCheckpoint, Store!FinishScrub, Store!FinishVacuum,
      Store!FinishFails
  <2> QED
    BY <1>0, <1>d, <1>k, <2>1 DEF Store!Looked
<1>12. CASE Store!Crash
  BY <1>12, <1>c, <1>k DEF Store!Crash
<1>13. CASE \/ Store!DayPasses \/ Store!GuestOpens \/ Store!GuestRefreshes \/ Store!GuestCloses
            \/ UNCHANGED Store!vars
  <2>1. UNCHANGED <<v1, v2, v5, v7, v8, v15>>
    BY <1>13 DEF Store!DayPasses, Store!GuestOpens, Store!GuestRefreshes, Store!GuestCloses,
      Store!vars
  <2> QED
    BY <2>1 DEF Store!WalkIsInOrder, Store!Passed, Store!Looked, Store!Walked
<1>14. ASSUME NEW i \in Store!Items, NEW r \in Store!Rows, NEW t \in Texts,
              Store!Write(i, r, t) \/ Store!GuestWrites(i, r, t)
       PROVE  Store!WalkIsInOrder'
  <2>1. UNCHANGED <<v2, v5, v7, v8>>
    BY <1>14 DEF Store!Write, Store!GuestWrites
  <2>2. PICK new \in Store!Values : v1' = [v1 EXCEPT ![i][r] = new]
          /\ \/ new.root > 0 /\ v15' = v15 \ {Store!At(i, r)}
             \/ v15' = v15 \cup {Store!At(i, r)}
    <3>1. CASE Store!Write(i, r, t)
      <4>1. v6 \in Ciphers
        BY <3>1, WriteDoes
      <4>2. v6.current \in Nat \ {0}
        BY <4>1, CipherFacts
      <4>3. v6.current > 0
        BY <4>2
      <4>4. v15' = v15 \ {Store!At(i, r)}
        BY <3>1 DEF Store!Write
      <4>5. PICK new \in Store!Values :
              v1' = [v1 EXCEPT ![i][r] = new] /\ new.root = v6.current
        BY <3>1, WriteDoes
      <4>6. new.root > 0
        BY <4>3, <4>5
      <4> QED
        BY <4>4, <4>5, <4>6, Zenon
    <3>2. CASE Store!GuestWrites(i, r, t)
      <4>1. v15' = v15 \cup {Store!At(i, r)}
        BY <3>2 DEF Store!GuestWrites
      <4>2. PICK new \in Store!Values : v1' = [v1 EXCEPT ![i][r] = new]
        BY <3>2, WriteDoes
      <4> QED
        BY <4>1, <4>2, Zenon
    <3> QED
      BY <1>14, <3>1, <3>2
  <2>3. v1'[i][r] = new
        /\ \A j \in Store!Items, q \in Store!Rows : ~(j = i /\ q = r) => v1'[j][q] = v1[j][q]
    BY <2>2 DEF Store!TypeOK
  <2>4. ASSUME NEW j \in Store!Items, NEW q \in Store!Rows
        PROVE  Is(j, q) => Is(j, q)'
    <3>1. CASE j = i /\ q = r
      <4>1. CASE new.root > 0
        BY <2>3, <3>1, <4>1 DEF Store!Walked
      <4>2. CASE v15' = v15 \cup {Store!At(i, r)}
        BY <3>1, <4>2
      <4> QED
        BY <2>2, <4>1, <4>2
    <3>2. CASE ~(j = i /\ q = r)
      <4>1. Store!At(j, q) # Store!At(i, r)
        BY <3>2 DEF Store!At
      <4>2. Store!At(j, q) \in v15 => Store!At(j, q) \in v15'
        BY <2>2, <4>1
      <4> QED
        BY <2>3, <3>2, <4>2 DEF Store!Walked
    <3> QED
      BY <3>1, <3>2
  <2>5. \A j \in Store!Items, q \in Store!Rows : Store!Passed(j, q)' => Store!Passed(j, q)
    BY <2>1 DEF Store!Passed, Store!Looked
  <2>6. \A j \in Store!Items, q \in Store!Rows : Store!Passed(j, q)' => Is(j, q)'
    BY <1>0, <2>4, <2>5
  <2>7. v5' = "itemDone" => \A q \in Store!Rows : Is(v8, q)'
    BY <1>0, <2>1, <2>4
  <2> QED
    BY <1>0, <1>b, <2>1, <2>6, <2>7
<1> QED
  BY <1>1, <1>2, <1>3, <1>4, <1>5, <1>6, <1>7, <1>8, <1>9, <1>10, <1>11, <1>12, <1>13, <1>14
  DEF Store!Next, Store!open_store

-----------------------------------------------------------------------------
(* What a process finds.                                                   *)

\* What is walked and plain opens under no key.
LEMMA ServedIsSealed ==
  ASSUME Store!KeyChecked, Store!WalkIsInOrder
  PROVE  Store!ServedSealed
<1> SUFFICES ASSUME v5 = "serving", v7.mode = "sealing",
                    NEW i \in Store!Items, NEW r \in Store!Rows,
                    v1[i][r].root = 0, v1[i][r].text # <<>>
             PROVE  \/ Store!At(i, r) \in v15
                    \/ ~Store!Open(v6, Plans[i], v1[i][r], Store!At(i, r)).ok
  BY DEF Store!ServedSealed
<1>1. Store!Passed(i, r)
  BY DEF Store!WalkIsInOrder, Store!Passed, Store!Looked
<1>2. CASE Store!Walked(i, v1[i][r])
  <2>1. \/ Store!StartsWith(v1[i][r].text, Store!Envelope(Plans[i]))
        \/ Store!StartsWith(v1[i][r].text, Store!OtherVersion(Plans[i]))
    BY <1>2 DEF Store!Walked, Store!StartsWith
  <2>2. \/ Store!Open(v6, Plans[i], v1[i][r], Store!At(i, r)) = Store!Failed("Malformed")
        \/ Store!Open(v6, Plans[i], v1[i][r], Store!At(i, r)) = Store!Failed("UnknownVersion")
    BY <2>1 DEF Store!Open
  <2> QED
    BY <2>2 DEF Store!Failed
<1> QED
  BY <1>1, <1>2 DEF Store!WalkIsInOrder

\* A value that means what was written is read as that.
LEMMA ReadsWhatWasWritten ==
  ASSUME Store!ContentStoreAssumption, Store!TypeOK, Store!KeyChecked, Store!RootsFollow,
         Store!CellsAreWhatWasWritten
  PROVE  Store!ReadsBack
<1> SUFFICES ASSUME v7.mode = "sealing", NEW i \in Store!Items, NEW r \in Store!Rows
             PROVE  LET v == v1[i][r]
                        opened == Store!OpenValue(v7, Plans[i], v, Store!At(i, r))
                    IN  IF opened.ok THEN opened.text = v12[i][r]
                        ELSE /\ v = Store!Plain(v12[i][r])
                             /\ Store!StartsWith(v.text, Store!Envelope(Plans[i])
                                                         \cup Store!OtherVersion(Plans[i]))
  BY DEF Store!ReadsBack
<1> DEFINE v == v1[i][r]
           w == v12[i][r]
           at == Store!At(i, r)
           kind == Plans[i]
           opened == Store!OpenValue(v7, kind, v, at)
<1>1. v5 # "closed" /\ v7 = Store!Sealing(v6)
  BY DEF Store!KeyChecked, Store!Opening, Store!Migrating, Store!Finishing, Store!NoProcess,
    Store!Unhealthy, Store!StoreSeal, Store!TypeOK
<1>2. v7.cipher = v6 /\ v6 \in Ciphers
  BY <1>1 DEF Store!KeyChecked, Store!Sealing, Store!StoreSeal
<1>3. v.root > 0 => v.root \in Store!Roots(v6)
  BY <1>1, SealerOpensAll
<1>4. Store!Means(i, r, v, w) /\ kind \in {"text", "blob"} /\ w \in Seq(Store!Tokens)
  BY Kinds DEF Store!CellsAreWhatWasWritten
<1> HIDE DEF v, w, at, kind
<1>5. CASE v.root > 0
  <2>1. v.at = at /\ v.text = w
    BY <1>4, <1>5 DEF Store!Means, Store!Sealed, Store!Null, Store!Plain, at
  <2>2. opened = Store!OpenBlob(v6, v, at)
    BY <1>2, <1>5 DEF Store!OpenValue, Store!Open
  <2>3. opened = Store!Opened(v.text, v.root # v6.current)
    BY <1>3, <1>5, <2>1, <2>2, Zenon DEF Store!OpenBlob
  <2>4. opened.ok = TRUE /\ opened.text = w
    BY <2>1, <2>3 DEF Store!Opened
  <2> QED
    BY <2>4 DEF v, w, at, kind
<1>6. CASE v = Store!Null /\ w = <<>>
  <2>1. ~(v.root > 0) /\ v.text = <<>> /\ v.root # 0
    BY <1>6 DEF Store!Null
  <2>2. opened = Store!Opened(v.text, v.text # <<>>)
    BY <1>2, <2>1, Zenon DEF Store!OpenValue, Store!Open, Store!StartsWith
  <2>3. opened.ok = TRUE /\ opened.text = w
    BY <1>6, <2>1, <2>2 DEF Store!Opened
  <2> QED
    BY <2>3 DEF v, w, at, kind
<1>7. CASE v = Store!Plain(w) /\ (kind = "text" => ~Store!StartsWith(w, {Store!RAW}))
  <2>1. v.root = 0 /\ v.text = w /\ ~(v.root > 0)
    BY <1>7 DEF Store!Plain
  <2>2. opened = Store!Open(v6, kind, v, at)
    BY <1>2, <1>7, <2>1 DEF Store!OpenValue
  <2>3. CASE Store!StartsWith(w, Store!Envelope(kind) \cup Store!OtherVersion(kind))
    <3>1. \/ Store!StartsWith(w, Store!Envelope(kind))
          \/ Store!StartsWith(w, Store!OtherVersion(kind))
      BY <2>3 DEF Store!StartsWith
    <3>2. opened = Store!Failed("Malformed") \/ opened = Store!Failed("UnknownVersion")
      BY <2>1, <2>2, <3>1 DEF Store!Open
    <3>3. opened.ok = FALSE
      BY <3>2 DEF Store!Failed
    <3> QED
      BY <1>7, <2>1, <2>3, <3>3 DEF v, w, at, kind
  <2>4. CASE ~Store!StartsWith(w, Store!Envelope(kind) \cup Store!OtherVersion(kind))
    <3>1. /\ ~Store!StartsWith(w, Store!Envelope(kind))
          /\ ~Store!StartsWith(w, Store!OtherVersion(kind))
      BY <2>4 DEF Store!StartsWith
    <3>2. opened = Store!Opened(v.text, v.text # <<>>)
      BY <2>1, <2>2, <3>1, Zenon DEF Store!Open
    <3>3. opened.ok = TRUE /\ opened.text = w
      BY <2>1, <3>2 DEF Store!Opened
    <3> QED
      BY <3>3 DEF v, w, at, kind
  <2> QED
    BY <2>3, <2>4
<1>8. CASE kind = "text" /\ v = Store!Plain(<<Store!RAW>> \o w)
  <2>1. v.root = 0 /\ v.text = <<Store!RAW>> \o w
    BY <1>8 DEF Store!Plain
  <2>2. Head(v.text) = Store!RAW /\ Tail(v.text) = w /\ v.text # <<>>
    BY <1>4, <2>1
  <2>3. opened = Store!Opened(Tail(v.text), TRUE)
    BY <1>8, <2>1, <2>2 DEF Store!OpenValue, Store!StartsWith
  <2>4. opened.ok = TRUE /\ opened.text = w
    BY <2>2, <2>3 DEF Store!Opened
  <2> QED
    BY <2>4 DEF v, w, at, kind
<1> QED
  BY <1>4, <1>5, <1>6, <1>7, <1>8 DEF Store!Means, v, w, at, kind

\* A step that a store of another key or a newer build would not have seen.
LEMMA ForeignStays ==
  ASSUME Store!ContentStoreAssumption, Store!TypeOK, Store!KeyChecked,
         [Store!Next]_(Store!vars)
  PROVE  Store!KeepsForeignStore
<1> SUFFICES ASSUME \/ v3.minReader > Store!SUPPORTED_MIN_READER
                    \/ v7 = Store!Unhealthy,
                    v11.mode # "compat"
             PROVE  UNCHANGED <<v1, v2>>
  BY DEF Store!KeepsForeignStore
<1>1. v5 \notin Store!Opening
  <2>1. Store!Sealing(v6) # Store!Unhealthy
    BY DEF Store!Sealing, Store!Unhealthy, Store!StoreSeal
  <2>2. v3.minReader \in Nat
    BY DEF Store!TypeOK, Store!StoreRows
  <2> QED
    BY <2>1, <2>2 DEF Store!KeyChecked, Store!Opening, Store!Migrating, Store!Finishing,
      Store!SUPPORTED_MIN_READER
<1>2. ASSUME NEW i \in Store!Items, NEW r \in Store!Rows, NEW t \in Texts,
             Store!Write(i, r, t) \/ Store!GuestWrites(i, r, t)
      PROVE  FALSE
  <2>1. CASE Store!Write(i, r, t)
    <3>1. v7 = Store!Sealing(v6) /\ v5 = "serving"
      BY <2>1, WriteDoes
    <3>2. v3.minReader \in Nat
      BY DEF Store!TypeOK, Store!StoreRows
    <3> QED
      BY <3>1, <3>2 DEF Store!KeyChecked, Store!Sealing, Store!Unhealthy, Store!StoreSeal,
        Store!SUPPORTED_MIN_READER
  <2>2. CASE Store!GuestWrites(i, r, t)
    BY <2>2, WriteDoes DEF Store!Compat, Store!StoreSeal
  <2> QED
    BY <1>2, <2>1, <2>2
<1> USE DEF Store!diskVars
<1>3. CASE Store!open_store
  <2>1. ~Store!ReopenPlaintextItems /\ ~Store!StartItem /\ ~Store!Batch /\ ~Store!ItemDone
    BY <1>1 DEF Store!ReopenPlaintextItems, Store!StartItem, Store!Batch, Store!ItemDone,
      Store!Opening, Store!Migrating
  <2>2. CASE Store!CheckStoreKey \/ Store!NothingPending \/ Store!PendingCheckpoint
             \/ Store!PendingScrub \/ Store!PendingVacuum
    BY <2>2 DEF Store!CheckStoreKey, Store!NothingPending, Store!PendingCheckpoint,
      Store!PendingScrub, Store!PendingVacuum
  <2>3. CASE Store!Migrate \/ Store!SkipItem \/ Store!Migrated
    BY <2>3 DEF Store!Migrate, Store!SkipItem, Store!Migrated
  <2>4. CASE Store!FinishCheckpoint \/ Store!FinishScrub \/ Store!FinishVacuum
    BY <2>4 DEF Store!FinishCheckpoint, Store!FinishScrub, Store!FinishVacuum
  <2> QED
    BY <1>3, <2>1, <2>2, <2>3, <2>4 DEF Store!open_store
<1>4. CASE Store!Crash \/ Store!DayPasses \/ Store!GuestOpens \/ Store!GuestRefreshes
           \/ Store!GuestCloses
  BY <1>4 DEF Store!Crash, Store!DayPasses, Store!GuestOpens, Store!GuestRefreshes,
    Store!GuestCloses
<1>5. CASE \E c \in Ciphers : Store!Boot(c)
  BY <1>5 DEF Store!Boot
<1>6. CASE UNCHANGED Store!vars
  BY <1>6 DEF Store!vars
<1> QED
  BY <1>2, <1>3, <1>4, <1>5, <1>6 DEF Store!Next

-----------------------------------------------------------------------------
(* StoreInv is inductive, and the properties follow from it.               *)

\* It holds of the stores there are before the first open.
LEMMA StoreStarts ==
  ASSUME Store!ContentStoreAssumption, Store!Init
  PROVE  Store!StoreInv
BY TypesInit, KeyCheckedInit, RootsInit, ScrubInit, CellsInit, WalkInit DEF Store!StoreInv

\* Every step keeps it.
LEMMA StoreStays ==
  ASSUME Store!ContentStoreAssumption, Store!StoreInv, [Store!Next]_(Store!vars)
  PROVE  Store!StoreInv'
<1>1. /\ Store!TypeOK /\ Store!KeyChecked /\ Store!RootsFollow /\ Store!OneCipherOpensAll
      /\ Store!ScrubIsOwed /\ Store!OkMeansScrubbed /\ Store!CellsAreWhatWasWritten
      /\ Store!WalkIsInOrder
  BY DEF Store!StoreInv
<1>2. Store!TypeOK' /\ Store!KeyChecked'
  BY <1>1, TypesStay, KeyCheckedStays
<1>3. Store!RootsFollow' /\ Store!OneCipherOpensAll'
  BY <1>1, RootsStay
<1>4. Store!ScrubIsOwed' /\ Store!OkMeansScrubbed'
  BY <1>1, ScrubStays
<1>5. Store!CellsAreWhatWasWritten' /\ Store!WalkIsInOrder'
  BY <1>1, CellsStay, WalkStays
<1> QED
  BY <1>2, <1>3, <1>4, <1>5 DEF Store!StoreInv

\* So the database keeps it, whatever the constants are.
LEMMA StoreHolds == StoreSpec => [](part = "content" => Store!StoreInv)
<1> DEFINE Inv == part = "content" => Store!StoreInv
<1>a. Store!ContentStoreAssumption
  BY StorePartsAssumption DEF StorePartsAssumption
<1>1. StoreInit => Inv
  BY <1>a, StorePartStarts, StoreStarts
<1>2. Inv /\ [StoreNext]_vars => Inv'
  <2> SUFFICES ASSUME Inv, [StoreNext]_vars, part' = "content"
               PROVE  Store!StoreInv'
    OBVIOUS
  <2>1. part = "content" /\ [Store!Next]_(Store!vars)
    BY StorePartMoves
  <2> QED
    BY <1>a, <2>1, StoreStays
<1> HIDE DEF Inv
<1>3. StoreSpec => []Inv
  BY <1>1, <1>2, PTL DEF StoreSpec
<1> QED
  BY <1>3 DEF Inv

\* plugin_keys/sql.rs open_store: a process that serves a database it seals has
\* left no plaintext that it would give out, but for what a keyless process
\* wrote to a column that is not walked again: for any columns, any number of
\* rows, any writes.
THEOREM ServedCorrect == StoreSpec => []ServedSealed
<1>1. (part = "content" => Store!StoreInv) => ServedSealed
  BY ServedIsSealed DEF Store!StoreInv, ServedSealed
<1> QED
  BY <1>1, StoreHolds, PTL

\* content.rs, store_seal.rs, content_sqlite.rs: whatever mode a value was
\* written in and however far a migration came, a process that seals reads back
\* what was last written, or a value that looked like an envelope before there
\* were any.
THEOREM ReadsCorrect == StoreSpec => []ReadsBack
<1>a. Store!ContentStoreAssumption
  BY StorePartsAssumption DEF StorePartsAssumption
<1>1. (part = "content" => Store!StoreInv) => ReadsBack
  BY <1>a, ReadsWhatWasWritten DEF Store!StoreInv, ReadsBack
<1> QED
  BY <1>1, StoreHolds, PTL

\* content_sqlite.rs check_store_key: one cipher opens all that a database
\* holds sealed, whatever ciphers come and go, as long as the roots of a folder
\* follow one another.
THEOREM CipherCorrect == StoreSpec => []OneCipherOpensAll
<1>1. (part = "content" => Store!StoreInv) => OneCipherOpensAll
  BY DEF Store!StoreInv, OneCipherOpensAll
<1> QED
  BY <1>1, StoreHolds, PTL

\* content_sqlite.rs finish_store, run_pending_vacuum: a store whose record says
\* "ok" after a migration holds no plaintext residue, and one recorded as
\* scrubbed none on free pages, wherever a process was killed.
THEOREM ScrubCorrect == StoreSpec => []OkMeansScrubbed
<1>1. (part = "content" => Store!StoreInv) => OkMeansScrubbed
  BY DEF Store!StoreInv, OkMeansScrubbed
<1> QED
  BY <1>1, StoreHolds, PTL

\* content_sqlite.rs check_store_key: no step of a process changes the cells or
\* the items of a store of a newer build or of another key, but for a keyless
\* process that came before the record.
THEOREM ForeignCorrect == StoreSpec => ForeignStoreIsKept
<1>a. Store!ContentStoreAssumption
  BY StorePartsAssumption DEF StorePartsAssumption
<1> DEFINE Inv == part = "content" => Store!StoreInv
           Kept == part = "content" => Store!KeepsForeignStore
<1>1. Inv /\ [StoreNext]_vars => Kept
  BY <1>a, StorePartMoves, ForeignStays DEF Store!StoreInv
<1>2. StoreSpec => []Inv
  BY StoreHolds
<1> HIDE DEF Inv
<1>3. StoreSpec => [][Kept]_vars
  BY <1>1, <1>2, PTL DEF StoreSpec
<1> QED
  BY <1>3 DEF ForeignStoreIsKept

-----------------------------------------------------------------------------
(* The index of vectors.  Here v1 to v10 are rows, memory, recency, spent, *)
(* totals, evicted, handing, telling, raced and changes.                   *)

LEMMA VectorsCount ==
  ASSUME NEW S
  PROVE  /\ Vectors!IsFiniteSet(S) <=> IsFiniteSet(S)
         /\ Vectors!Cardinality(S) = Cardinality(S)
BY Zenon DEF IsFiniteSet, Vectors!IsFiniteSet, Cardinality, Vectors!Cardinality

\* What partitions ps with the vectors m take.
HeldBy(m, ps) == UNION {{p} \X m[p] : p \in ps}
Bytes(m, ps) == Cardinality(HeldBy(m, ps))

Memories == [Partitions -> SUBSET Ids]

LEMMA BytesIs ==
  ASSUME NEW ps
  PROVE  /\ Vectors!BytesOf(ps) = Bytes(v2, ps)
         /\ Vectors!BytesOf(ps)' = Bytes(v2', ps)
BY VectorsCount DEF Vectors!BytesOf, Vectors!Held, Bytes, HeldBy

LEMMA BytesAreFinite ==
  ASSUME Vectors!VectorIndexAssumption, NEW m \in Memories, NEW ps \in SUBSET Partitions
  PROVE  IsFiniteSet(HeldBy(m, ps)) /\ Bytes(m, ps) \in Nat
<1>1. IsFiniteSet(Partitions) /\ IsFiniteSet(Ids)
  BY VectorsCount DEF Vectors!VectorIndexAssumption
<1>2. IsFiniteSet(Partitions \X Ids)
  BY <1>1, FS_Product
<1>3. HeldBy(m, ps) \in SUBSET (Partitions \X Ids)
  BY DEF HeldBy, Memories
<1>4. IsFiniteSet(HeldBy(m, ps))
  BY <1>2, <1>3, FS_Subset
<1> QED
  BY <1>4, FS_CardinalityType DEF Bytes

\* Of different partitions it is the sum.
LEMMA BytesOfBoth ==
  ASSUME Vectors!VectorIndexAssumption, NEW m \in Memories,
         NEW ps \in SUBSET Partitions, NEW qs \in SUBSET Partitions, ps \cap qs = {}
  PROVE  Bytes(m, ps \cup qs) = Bytes(m, ps) + Bytes(m, qs)
<1>1. /\ IsFiniteSet(HeldBy(m, ps)) /\ IsFiniteSet(HeldBy(m, qs))
      /\ Bytes(m, ps) \in Nat /\ Bytes(m, qs) \in Nat
  BY BytesAreFinite
<1>2. HeldBy(m, ps \cup qs) = HeldBy(m, ps) \cup HeldBy(m, qs)
  BY DEF HeldBy
<1>3. HeldBy(m, ps) \cap HeldBy(m, qs) = {}
  BY DEF HeldBy
<1>4. Cardinality(HeldBy(m, ps) \cap HeldBy(m, qs)) = 0
  BY <1>3, FS_EmptySet
<1> DEFINE P == HeldBy(m, ps)
           Q == HeldBy(m, qs)
<1>5. Cardinality(P \cup Q) = Cardinality(P) + Cardinality(Q) - Cardinality(P \cap Q)
  BY <1>1, FS_Union
<1>6. /\ Bytes(m, ps \cup qs) = Cardinality(P \cup Q)
      /\ Bytes(m, ps) = Cardinality(P) /\ Bytes(m, qs) = Cardinality(Q)
  BY <1>2, Zenon DEF Bytes
<1> HIDE DEF P, Q
<1> QED
  BY <1>1, <1>4, <1>5, <1>6 DEF P, Q

LEMMA BytesWithout ==
  ASSUME Vectors!VectorIndexAssumption, NEW m \in Memories,
         NEW ps \in SUBSET Partitions, NEW qs \in SUBSET ps
  PROVE  /\ Bytes(m, ps \ qs) = Bytes(m, ps) - Bytes(m, qs)
         /\ Bytes(m, ps \ qs) \in Nat /\ Bytes(m, ps) \in Nat /\ Bytes(m, qs) \in Nat
         /\ Bytes(m, qs) <= Bytes(m, ps)
<1>1. /\ Bytes(m, ps) \in Nat /\ Bytes(m, qs) \in Nat /\ Bytes(m, ps \ qs) \in Nat
  BY BytesAreFinite
<1>2. (ps \ qs) \cup qs = ps /\ (ps \ qs) \cap qs = {}
  OBVIOUS
<1>3. Bytes(m, (ps \ qs) \cup qs) = Bytes(m, ps \ qs) + Bytes(m, qs)
  BY <1>2, BytesOfBoth
<1> QED
  BY <1>1, <1>2, <1>3

LEMMA BytesOfOne ==
  ASSUME Vectors!VectorIndexAssumption, NEW m \in Memories, NEW p \in Partitions
  PROVE  Bytes(m, {p}) = Cardinality(m[p]) /\ IsFiniteSet(m[p]) /\ Cardinality(m[p]) \in Nat
<1>1. IsFiniteSet(Ids) /\ m[p] \in SUBSET Ids
  BY VectorsCount DEF Vectors!VectorIndexAssumption, Memories
<1>2. IsFiniteSet(m[p]) /\ Cardinality(m[p]) \in Nat
  BY <1>1, FS_Subset, FS_CardinalityType
<1>3. HeldBy(m, {p}) = {p} \X m[p]
  BY DEF HeldBy
<1>4. IsFiniteSet({p}) /\ Cardinality({p}) = 1
  BY FS_Singleton
<1> DEFINE S == m[p]
<1> HIDE DEF S
<1>5. Cardinality({p} \X S) = Cardinality({p}) * Cardinality(S)
  BY <1>2, <1>4, FS_Product DEF S
<1>6. Cardinality({p} \X m[p]) = 1 * Cardinality(m[p])
  BY <1>4, <1>5 DEF S
<1>7. Bytes(m, {p}) = Cardinality({p} \X m[p])
  BY <1>3, Zenon DEF Bytes
<1> QED
  BY <1>2, <1>6, <1>7

LEMMA BytesOfNone ==
  ASSUME NEW m
  PROVE  Bytes(m, {}) = 0
<1>1. HeldBy(m, {}) = {}
  BY DEF HeldBy
<1> QED
  BY <1>1, FS_EmptySet DEF Bytes

LEMMA BytesOfTheSame ==
  ASSUME NEW m, NEW n, NEW ps, \A p \in ps : m[p] = n[p]
  PROVE  Bytes(m, ps) = Bytes(n, ps)
<1>1. HeldBy(m, ps) = HeldBy(n, ps)
  BY DEF HeldBy
<1> QED
  BY <1>1 DEF Bytes

-----------------------------------------------------------------------------
(* The order in which partitions were used.                                *)

\* Of two partitions one was used before the other.
OrderedBy(r) ==
  /\ r \in [DOMAIN r -> SUBSET DOMAIN r]
  /\ \A p, q \in DOMAIN r : (p \in r[q]) <=> (p # q /\ q \notin r[p])
  /\ \A p, q \in DOMAIN r : p \in r[q] => r[p] \subseteq r[q]

LEMMA DroppedIsOrdered ==
  ASSUME NEW r, OrderedBy(r), NEW ps
  PROVE  /\ OrderedBy(Vectors!Dropped(r, ps))
         /\ DOMAIN Vectors!Dropped(r, ps) = DOMAIN r \ ps
         /\ \A q \in DOMAIN r \ ps : Vectors!Dropped(r, ps)[q] = r[q] \ ps
<1> DEFINE s == Vectors!Dropped(r, ps)
<1>1. s = [q \in DOMAIN r \ ps |-> r[q] \ ps]
  BY DEF Vectors!Dropped
<1> HIDE DEF s
<1>2. /\ DOMAIN s = DOMAIN r \ ps
      /\ \A q \in DOMAIN s : s[q] = r[q] \ ps
  BY <1>1
<1>3. OrderedBy(s)
  BY <1>1, <1>2 DEF OrderedBy
<1> QED
  BY <1>2, <1>3 DEF s

LEMMA PlacedIsOrdered ==
  ASSUME NEW r, OrderedBy(r), NEW p, NEW newer,
         \A a \in newer \cap DOMAIN r, b \in DOMAIN r : a \in r[b] => b \in newer
  PROVE  /\ OrderedBy(Vectors!Placed(r, p, newer))
         /\ DOMAIN Vectors!Placed(r, p, newer) = DOMAIN r \cup {p}
         /\ \A q \in DOMAIN r \ {p} :
              Vectors!Placed(r, p, newer)[q] = (r[q] \ {p}) \cup (IF q \in newer THEN {p} ELSE {})
         /\ Vectors!Placed(r, p, newer)[p] = DOMAIN r \ (newer \cup {p})
<1> DEFINE s == Vectors!Placed(r, p, newer)
           D == DOMAIN r \cup {p}
<1>1. s = [q \in D |-> IF q = p THEN DOMAIN r \ (newer \cup {p})
                       ELSE (r[q] \ {p}) \cup (IF q \in newer THEN {p} ELSE {})]
  BY DEF Vectors!Placed
<1> HIDE DEF s
<1>2. /\ DOMAIN s = D
      /\ s[p] = DOMAIN r \ (newer \cup {p})
      /\ \A q \in DOMAIN r \ {p} : s[q] = (r[q] \ {p}) \cup (IF q \in newer THEN {p} ELSE {})
  BY <1>1
<1>3. s \in [D -> SUBSET D]
  <2>1. \A q \in DOMAIN r : r[q] \subseteq DOMAIN r
    BY DEF OrderedBy
  <2>2. \A q \in D : s[q] \in SUBSET D
    BY <1>2, <2>1
  <2> QED
    BY <1>1, <2>2
<1>4. \A a, b \in DOMAIN r \ {p} : (a \in s[b]) <=> (a \in r[b])
  BY <1>2
<1>5. \A a \in DOMAIN r \ {p} : /\ (p \in s[a]) <=> (a \in newer)
                                /\ (a \in s[p]) <=> (a \notin newer)
  BY <1>2
<1>6. p \notin s[p]
  BY <1>2
<1>7. \A a, b \in D : (a \in s[b]) <=> (a # b /\ b \notin s[a])
  BY <1>4, <1>5, <1>6 DEF OrderedBy
<1>8. ASSUME NEW a \in D, NEW b \in D, a \in s[b], NEW c \in s[a]
      PROVE  c \in s[b]
  <2>0. c \in D
    BY <1>3
  <2>1. CASE a = p
    <3>1. b # p /\ b \in DOMAIN r /\ b \in newer
      BY <1>5, <1>6, <1>8, <2>1
    <3>2. c # p /\ c \in DOMAIN r /\ c \notin newer
      BY <1>2, <1>6, <1>8, <2>0, <2>1
    <3>3. c \in r[b]
      BY <3>1, <3>2 DEF OrderedBy
    <3> QED
      BY <1>4, <3>1, <3>2, <3>3
  <2>2. CASE b = p
    <3>1. a # p /\ a \in DOMAIN r /\ a \notin newer
      BY <1>2, <1>6, <1>8, <2>2
    <3>2. c # p /\ c \in DOMAIN r
      BY <1>5, <1>8, <2>0, <3>1
    <3>3. c \in r[a]
      BY <1>4, <1>8, <3>1, <3>2
    <3>4. c \notin newer
      BY <3>1, <3>2, <3>3
    <3> QED
      BY <1>5, <2>2, <3>2, <3>4
  <2>3. CASE a # p /\ b # p
    <3>1. a \in DOMAIN r /\ b \in DOMAIN r /\ a \in r[b]
      BY <1>4, <1>8, <2>3
    <3>2. CASE c = p
      <4>1. a \in newer
        BY <1>5, <1>8, <2>3, <3>1, <3>2
      <4>2. b \in newer
        BY <3>1, <4>1
      <4> QED
        BY <1>5, <2>3, <3>1, <3>2, <4>2
    <3>3. CASE c # p
      <4>1. c \in DOMAIN r /\ c \in r[a]
        BY <1>4, <1>8, <2>0, <2>3, <3>1, <3>3
      <4>2. c \in r[b]
        BY <3>1, <4>1 DEF OrderedBy
      <4> QED
        BY <1>4, <2>3, <3>1, <3>3, <4>1, <4>2
    <3> QED
      BY <3>2, <3>3
  <2> QED
    BY <2>1, <2>2, <2>3
<1>9. OrderedBy(s)
  BY <1>2, <1>3, <1>7, <1>8 DEF OrderedBy
<1> QED
  BY <1>2, <1>9 DEF s

-----------------------------------------------------------------------------
\* Room is made of the partitions used before some other, and only as long as
\* it is needed.
LEMMA VictimsMakeRoom ==
  ASSUME Vectors!VectorIndexAssumption, v2 \in Memories,
         NEW r, OrderedBy(r), DOMAIN r \subseteq Partitions,
         NEW used \in Int, NEW extra \in Int, NEW keep,
         NEW V, V = Vectors!Victims(r, used, extra, keep)
  PROVE  /\ V \subseteq DOMAIN r \ {keep}
         /\ V = DOMAIN r \ {keep} \/ used - Bytes(v2, V) + extra <= LIMIT
<1> DEFINE O == DOMAIN r \ {keep}
           B(q) == r[q] \ {keep}
           Tight(q) == used - Bytes(v2, B(q)) + extra > LIMIT
<1>1. V = {q \in O : Tight(q)}
  BY BytesIs DEF Vectors!Victims
<1>2. \A q \in O : B(q) \in SUBSET O
  BY DEF OrderedBy
<1>3. SUFFICES ASSUME V # O
               PROVE  used - Bytes(v2, V) + extra <= LIMIT
  BY <1>1
<1>4. O \in SUBSET Partitions /\ IsFiniteSet(Partitions) /\ LIMIT \in Nat
  BY VectorsCount DEF Vectors!VectorIndexAssumption
<1> HIDE DEF O, Tight
<1>5. \A q \in O : IsFiniteSet(B(q)) /\ Cardinality(B(q)) \in Nat
  <2> SUFFICES ASSUME NEW q \in O
               PROVE  IsFiniteSet(B(q)) /\ Cardinality(B(q)) \in Nat
    OBVIOUS
  <2>1. B(q) \in SUBSET Partitions
    BY <1>2, <1>4
  <2> HIDE DEF B
  <2> QED
    BY <1>4, <2>1, FS_Subset, FS_CardinalityType
<1> DEFINE N == O \ V
           Counts == {Cardinality(B(q)) : q \in N}
<1>6. PICK q \in N : \A k \in Counts : Cardinality(B(q)) <= k
  <2>1. N # {} /\ Counts # {} /\ Counts \subseteq Nat
    BY <1>1, <1>3, <1>5
  <2>2. PICK c \in Counts : \A k \in Counts : c <= k
    BY <2>1, LeastNumber
  <2> QED
    BY <2>2
<1>7. q \in O /\ q \notin V /\ ~Tight(q)
  BY <1>1, <1>6
<1>8. B(q) \subseteq V
  <2> SUFFICES ASSUME NEW a \in B(q), a \notin V
               PROVE  FALSE
    OBVIOUS
  <2>1. a \in N /\ a \in O
    BY <1>2, <1>7
  <2>2. /\ B(a) \subseteq B(q) /\ a \notin B(a)
    BY <1>7, <2>1 DEF OrderedBy, O
  <2>3. /\ Cardinality(B(a)) <= Cardinality(B(q))
        /\ Cardinality(B(a)) # Cardinality(B(q))
    <3> DEFINE S == B(q)
               T == B(a)
    <3>1. IsFiniteSet(S) /\ T \in SUBSET S /\ T # S
      BY <1>5, <1>7, <2>2
    <3> HIDE DEF S, T
    <3>2. Cardinality(T) <= Cardinality(S) /\ Cardinality(S) # Cardinality(T)
      BY <3>1, FS_Subset
    <3> QED
      BY <3>2 DEF S, T
  <2>4. Cardinality(B(q)) <= Cardinality(B(a))
    BY <1>6, <2>1
  <2>5. Cardinality(B(a)) \in Nat /\ Cardinality(B(q)) \in Nat
    BY <1>5, <1>7, <2>1
  <2> QED
    BY <2>3, <2>4, <2>5
<1>9. V \subseteq B(q)
  <2> SUFFICES ASSUME NEW a \in V, a \notin B(q)
               PROVE  FALSE
    OBVIOUS
  <2>1. a \in O /\ Tight(a) /\ a # q
    BY <1>1, <1>7
  <2>2. B(q) \subseteq B(a)
    BY <1>7, <2>1 DEF OrderedBy, O
  <2>3. /\ Bytes(v2, B(q)) <= Bytes(v2, B(a))
        /\ Bytes(v2, B(q)) \in Nat /\ Bytes(v2, B(a)) \in Nat
    <3>1. B(a) \in SUBSET Partitions
      BY <1>2, <1>4, <2>1
    <3> HIDE DEF B
    <3> QED
      BY <2>2, <3>1, BytesWithout
  <2> QED
    BY <1>4, <1>7, <2>1, <2>3 DEF Tight
<1>10. V = B(q)
  BY <1>8, <1>9
<1>11. Bytes(v2, B(q)) \in Nat
  <2>1. B(q) \in SUBSET Partitions
    BY <1>2, <1>4, <1>7
  <2> HIDE DEF B
  <2> QED
    BY <2>1, BytesAreFinite
<1> QED
  BY <1>4, <1>7, <1>10, <1>11 DEF Tight

-----------------------------------------------------------------------------
(* What each operation of the index keeps.                                 *)

\* The invariant, over the bytes the lemmas are about.
InMemory == DOMAIN v3
Budget ==
  /\ v4 = Bytes(v2, InMemory)
  /\ \A p \in Partitions \ InMemory : v2[p] = {}
  /\ v4 > LIMIT => Cardinality(InMemory) = 1
  /\ v6 \cap InMemory = {}

LEMMA InvIs ==
  /\ Vectors!TypeOK => (Vectors!OrderIsTotal <=> OrderedBy(v3))
  /\ Vectors!TypeOK' => (Vectors!OrderIsTotal' <=> OrderedBy(v3'))
  /\ Vectors!BudgetIsKept <=> Budget
  /\ Vectors!BudgetIsKept' <=> Budget'
<1>1. /\ Vectors!BytesOf(Vectors!Hydrated) = Bytes(v2, InMemory)
      /\ Vectors!Hydrated = InMemory
      /\ Vectors!Cardinality(Vectors!Hydrated) = Cardinality(InMemory)
  BY BytesIs, VectorsCount DEF Vectors!Hydrated, InMemory
<1>2. /\ (Vectors!BytesOf(Vectors!Hydrated))' = Bytes(v2', InMemory')
      /\ Vectors!Hydrated' = InMemory'
      /\ Vectors!Cardinality(Vectors!Hydrated)' = Cardinality(InMemory')
  <2>1. Vectors!Hydrated' = InMemory'
    BY DEF Vectors!Hydrated, InMemory
  <2>2. Vectors!Cardinality(Vectors!Hydrated)' = Cardinality(InMemory')
    BY <2>1, VectorsCount
  <2>3. (Vectors!BytesOf(Vectors!Hydrated))' = Bytes(v2', InMemory')
    BY <2>1, VectorsCount DEF Vectors!BytesOf, Vectors!Held, Bytes, HeldBy
  <2> QED
    BY <2>1, <2>2, <2>3
<1>3. Vectors!TypeOK => (Vectors!OrderIsTotal <=> OrderedBy(v3))
  BY DEF Vectors!TypeOK, Vectors!OrderIsTotal, OrderedBy, Vectors!Hydrated
<1>4. Vectors!TypeOK' => (Vectors!OrderIsTotal' <=> OrderedBy(v3'))
  BY DEF Vectors!TypeOK, Vectors!OrderIsTotal, OrderedBy, Vectors!Hydrated
<1>5. Vectors!BudgetIsKept <=> Budget
  BY <1>1 DEF Vectors!BudgetIsKept, Budget
<1>6. Vectors!BudgetIsKept' <=> Budget'
  BY <1>2 DEF Vectors!BudgetIsKept, Budget
<1> QED
  BY <1>3, <1>4, <1>5, <1>6

LEMMA VectorsInit ==
  ASSUME Vectors!VectorIndexAssumption, Vectors!Init
  PROVE  Vectors!VectorInv
<1>1. /\ v1 \in [Partitions -> SUBSET Ids] /\ v2 = [p \in Partitions |-> {}]
      /\ v3 = [p \in {} |-> {}] /\ v4 = 0 /\ v5 = [p \in Partitions |-> 0]
      /\ v6 = {} /\ v7 = {} /\ v8 = {} /\ v9 = {} /\ v10 = 0
  BY DEF Vectors!Init
<1>2. InMemory = {} /\ Vectors!Hydrated = {}
  BY <1>1 DEF InMemory, Vectors!Hydrated
<1>3. Vectors!TypeOK
  BY <1>1, <1>2 DEF Vectors!TypeOK, Vectors!VectorIndexAssumption
<1>4. Budget
  BY <1>1, <1>2, BytesOfNone DEF Budget, Vectors!VectorIndexAssumption
<1>5. Vectors!OrderIsTotal
  BY <1>2 DEF Vectors!OrderIsTotal
<1>6. Vectors!NewerAreLast /\ Vectors!MemoryFollows /\ Vectors!OneAtATime
  BY <1>1, <1>2 DEF Vectors!NewerAreLast, Vectors!MemoryFollows, Vectors!OneAtATime
<1> QED
  BY <1>3, <1>4, <1>5, <1>6, InvIs DEF Vectors!VectorInv

\* What is in memory stays, in its order.
LEMMA MemoryRests ==
  ASSUME Vectors!VectorIndexAssumption, Vectors!VectorInv, Vectors!TypeOK',
         UNCHANGED <<v2, v3, v4, v6>>
  PROVE  Vectors!BudgetIsKept' /\ Vectors!OrderIsTotal'
<1>1. Budget' /\ OrderedBy(v3')
  <2>1. Budget /\ OrderedBy(v3)
    BY InvIs DEF Vectors!VectorInv
  <2> QED
    BY <2>1 DEF Budget, InMemory
<1> QED
  BY <1>1, InvIs

Handings == [partition : Partitions, ids : SUBSET Ids, stale : BOOLEAN,
             built : BOOLEAN, newer : SUBSET Partitions]
Tellings == [partition : Partitions, id : Ids, put : BOOLEAN]

LEMMA ReadRowsKeeps ==
  ASSUME Vectors!VectorIndexAssumption, Vectors!VectorInv,
         NEW p \in Partitions, Vectors!ReadRows(p)
  PROVE  Vectors!VectorInv'
<1> DEFINE h == [partition |-> p, ids |-> v1[p], stale |-> FALSE,
                 built |-> FALSE, newer |-> {}]
<1>1. /\ v7' = {h}
      /\ UNCHANGED <<v1, v2, v3, v4, v5, v6, v8, v9, v10>>
  BY DEF Vectors!ReadRows
<1>2. Vectors!TypeOK'
  <2>1. h \in Handings
    BY DEF Vectors!VectorInv, Vectors!TypeOK, Handings
  <2> QED
    BY <1>1, <2>1 DEF Vectors!VectorInv, Vectors!TypeOK, Vectors!Hydrated, Handings
<1>3. Vectors!NewerAreLast'
  BY <1>1 DEF Vectors!NewerAreLast
<1>4. Vectors!MemoryFollows'
  BY <1>1 DEF Vectors!VectorInv, Vectors!MemoryFollows, Vectors!Tells, Vectors!Hydrated
<1>5. Vectors!OneAtATime'
  BY <1>1 DEF Vectors!VectorInv, Vectors!OneAtATime
<1> QED
  BY <1>1, <1>2, <1>3, <1>4, <1>5, MemoryRests DEF Vectors!VectorInv

LEMMA BuildKeeps ==
  ASSUME Vectors!VectorIndexAssumption, Vectors!VectorInv, Vectors!Build
  PROVE  Vectors!VectorInv'
<1>1. PICK h \in v7 : /\ ~h.built /\ v7' = {[h EXCEPT !.built = TRUE]}
                      /\ UNCHANGED <<v1, v2, v3, v4, v5, v6, v8, v9, v10>>
  BY DEF Vectors!Build
<1> DEFINE g == [h EXCEPT !.built = TRUE]
<1>2. /\ h \in Handings /\ g \in Handings /\ g.partition = h.partition /\ g.ids = h.ids
      /\ g.stale = h.stale /\ g.newer = h.newer /\ g.built
  BY <1>1 DEF Vectors!VectorInv, Vectors!TypeOK, Handings
<1>3. v7' = {g}
  BY <1>1
<1> HIDE DEF g
<1>4. Vectors!TypeOK'
  BY <1>1, <1>2, <1>3 DEF Vectors!VectorInv, Vectors!TypeOK, Vectors!Hydrated, Handings
<1>5. Vectors!NewerAreLast'
  BY <1>1, <1>2, <1>3 DEF Vectors!VectorInv, Vectors!NewerAreLast, Vectors!Hydrated
<1>6. Vectors!MemoryFollows'
  BY <1>1, <1>2, <1>3 DEF Vectors!VectorInv, Vectors!MemoryFollows, Vectors!Tells,
    Vectors!Hydrated
<1>7. Vectors!OneAtATime'
  BY <1>1, <1>3 DEF Vectors!VectorInv, Vectors!OneAtATime
<1> QED
  BY <1>1, <1>4, <1>5, <1>6, <1>7, MemoryRests DEF Vectors!VectorInv

LEMMA SetPartitionTotalKeeps ==
  ASSUME Vectors!VectorIndexAssumption, Vectors!VectorInv,
         NEW p \in Partitions, Vectors!SetPartitionTotal(p)
  PROVE  Vectors!VectorInv'
<1>1. /\ v5' = [v5 EXCEPT ![p] = Cardinality(v1[p])]
      /\ UNCHANGED <<v1, v2, v3, v4, v6, v7, v8, v9, v10>>
  BY VectorsCount DEF Vectors!SetPartitionTotal
<1>2. Cardinality(v1[p]) \in Nat
  BY BytesOfOne DEF Vectors!VectorInv, Vectors!TypeOK, Memories
<1>3. Vectors!TypeOK'
  BY <1>1, <1>2 DEF Vectors!VectorInv, Vectors!TypeOK, Vectors!Hydrated
<1>4. Vectors!NewerAreLast' /\ Vectors!OneAtATime'
  BY <1>1 DEF Vectors!VectorInv, Vectors!NewerAreLast, Vectors!Hydrated, Vectors!OneAtATime
<1>5. Vectors!MemoryFollows'
  BY <1>1 DEF Vectors!VectorInv, Vectors!MemoryFollows, Vectors!Tells, Vectors!Hydrated
<1> QED
  BY <1>1, <1>3, <1>4, <1>5, MemoryRests DEF Vectors!VectorInv

\* A hydration under way goes on with what it read, known to be overtaken.
LEMMA OvertakenAre ==
  ASSUME Vectors!VectorInv, NEW p \in Partitions, v7' = Vectors!Overtaken(p)
  PROVE  /\ v7' \subseteq Handings
         /\ \A g \in v7' : \E h \in v7 :
              /\ g.partition = h.partition /\ g.ids = h.ids /\ g.built = h.built
              /\ g.newer = h.newer /\ g.stale = (h.stale \/ h.partition = p)
         /\ \A h, g \in v7' : h = g
<1>1. v7' = {[h EXCEPT !.stale = @ \/ h.partition = p] : h \in v7}
  BY DEF Vectors!Overtaken
<1>2. v7 \subseteq Handings /\ \A h, g \in v7 : h = g
  BY DEF Vectors!VectorInv, Vectors!TypeOK, Vectors!OneAtATime, Handings
<1>3. ASSUME NEW h \in v7, NEW g, g = [h EXCEPT !.stale = @ \/ h.partition = p]
      PROVE  /\ g \in Handings
             /\ g.partition = h.partition /\ g.ids = h.ids /\ g.built = h.built
             /\ g.newer = h.newer /\ g.stale = (h.stale \/ h.partition = p)
  <2>1. h \in Handings
    BY <1>2
  <2>2. g = [h EXCEPT !.stale = h.stale \/ h.partition = p]
    BY <1>3, <2>1 DEF Handings
  <2> DEFINE b == h.stale \/ h.partition = p
  <2>3. b \in BOOLEAN
    OBVIOUS
  <2>4. g = [h EXCEPT !.stale = b]
    BY <2>2
  <2> HIDE DEF b
  <2>5. /\ g \in Handings /\ g.partition = h.partition /\ g.ids = h.ids
        /\ g.built = h.built /\ g.newer = h.newer /\ g.stale = b
    BY <2>1, <2>3, <2>4 DEF Handings
  <2> QED
    BY <2>5 DEF b
<1>4. \A h, g \in v7' : h = g
  BY <1>1, <1>2
<1> QED
  BY <1>1, <1>3, <1>4

LEMMA UsedSinceAre ==
  ASSUME Vectors!VectorInv, NEW p \in Partitions, v7' = Vectors!UsedSince(p)
  PROVE  /\ v7' \subseteq Handings
         /\ \A g \in v7' : \E h \in v7 :
              /\ g.partition = h.partition /\ g.ids = h.ids /\ g.built = h.built
              /\ g.stale = h.stale
              /\ g.newer = h.newer \cup (IF h.built THEN {p} ELSE {})
         /\ \A h, g \in v7' : h = g
<1>1. v7' = {[h EXCEPT !.newer = IF h.built THEN @ \cup {p} ELSE @] : h \in v7}
  BY DEF Vectors!UsedSince
<1>2. v7 \subseteq Handings /\ \A h, g \in v7 : h = g
  BY DEF Vectors!VectorInv, Vectors!TypeOK, Vectors!OneAtATime, Handings
<1>3. ASSUME NEW h \in v7, NEW g, g = [h EXCEPT !.newer = IF h.built THEN @ \cup {p} ELSE @]
      PROVE  /\ g \in Handings
             /\ g.partition = h.partition /\ g.ids = h.ids /\ g.built = h.built
             /\ g.stale = h.stale
             /\ g.newer = h.newer \cup (IF h.built THEN {p} ELSE {})
  <2> DEFINE n == h.newer \cup (IF h.built THEN {p} ELSE {})
  <2>1. h \in Handings
    BY <1>2
  <2>2. g = [h EXCEPT !.newer = n] /\ n \in SUBSET Partitions
    BY <1>3, <2>1 DEF Handings
  <2> HIDE DEF n
  <2>3. /\ g \in Handings /\ g.partition = h.partition /\ g.ids = h.ids
        /\ g.built = h.built /\ g.stale = h.stale /\ g.newer = n
    BY <2>1, <2>2 DEF Handings
  <2> QED
    BY <2>3 DEF n
<1>4. \A h, g \in v7' : h = g
  BY <1>1, <1>2
<1> QED
  BY <1>1, <1>3, <1>4

LEMMA StoreRowKeeps ==
  ASSUME Vectors!VectorIndexAssumption, Vectors!VectorInv,
         NEW p \in Partitions, NEW i \in Ids, Vectors!StoreRow(p, i)
  PROVE  Vectors!VectorInv'
<1> DEFINE t == [partition |-> p, id |-> i, put |-> i \notin v1[p]]
           ids == IF i \in v1[p] THEN v1[p] \ {i} ELSE v1[p] \cup {i}
<1>1. /\ v8 = {} /\ v10 < MaxChanges /\ v10' = v10 + 1
      /\ v1' = [v1 EXCEPT ![p] = ids]
      /\ v8' = {t}
      /\ v7' = Vectors!Overtaken(p)
      /\ UNCHANGED <<v2, v3, v4, v5, v6, v9>>
  BY DEF Vectors!StoreRow
<1>2. /\ v7' \subseteq Handings
      /\ \A g \in v7' : \E h \in v7 :
           /\ g.partition = h.partition /\ g.ids = h.ids /\ g.built = h.built
           /\ g.newer = h.newer /\ g.stale = (h.stale \/ h.partition = p)
      /\ \A h, g \in v7' : h = g
  BY <1>1, OvertakenAre
<1>3. v1 \in [Partitions -> SUBSET Ids]
  BY DEF Vectors!VectorInv, Vectors!TypeOK
<1>4. /\ v1' \in [Partitions -> SUBSET Ids] /\ v1'[p] = ids
      /\ \A q \in Partitions \ {p} : v1'[q] = v1[q]
  BY <1>1, <1>3
<1>5. /\ t \in Tellings /\ t.partition = p /\ t.id = i /\ t.put = (i \notin v1[p])
  BY DEF Tellings
<1>6. /\ t.put => i \notin v1[p] /\ ids = v1[p] \cup {i}
      /\ ~t.put => i \in v1[p] /\ ids = v1[p] \ {i}
  BY <1>5
<1> HIDE DEF t, ids
<1>7. Vectors!TypeOK'
  <2>1. v10' \in 0 .. MaxChanges
    BY <1>1 DEF Vectors!VectorInv, Vectors!TypeOK, Vectors!VectorIndexAssumption
  <2> QED
    BY <1>1, <1>2, <1>4, <1>5, <2>1
      DEF Vectors!VectorInv, Vectors!TypeOK, Vectors!Hydrated, Handings, Tellings
<1>8. Vectors!NewerAreLast'
  <2>1. Vectors!NewerAreLast
    BY DEF Vectors!VectorInv
  <2> QED
    BY <1>1, <1>2, <2>1 DEF Vectors!NewerAreLast, Vectors!Hydrated
<1>9. Vectors!MemoryFollows'
  <2>1. \A q \in InMemory \ v9 : v2[q] = v1[q] /\ q \in Partitions
    BY <1>1 DEF Vectors!VectorInv, Vectors!MemoryFollows, Vectors!Tells, Vectors!Hydrated,
      InMemory, Vectors!TypeOK
  <2>2. ASSUME NEW q \in InMemory \ v9
        PROVE  Vectors!Tells(q)'
    <3>1. v2'[q] = v1[q] /\ q \in Partitions
      BY <1>1, <2>1
    <3>2. CASE q # p
      BY <1>1, <1>4, <1>5, <3>1, <3>2 DEF Vectors!Tells
    <3>3. CASE q = p
      BY <1>1, <1>4, <1>5, <1>6, <3>1, <3>3 DEF Vectors!Tells
    <3> QED
      BY <3>2, <3>3
  <2>3. \A g \in v7' : ~g.stale => g.ids = v1'[g.partition]
    <3> SUFFICES ASSUME NEW g \in v7', ~g.stale
                 PROVE  g.ids = v1'[g.partition]
      OBVIOUS
    <3>1. PICK h \in v7 : /\ g.partition = h.partition /\ g.ids = h.ids
                          /\ ~h.stale /\ h.partition # p
      BY <1>2
    <3>2. h.ids = v1[h.partition] /\ h.partition \in Partitions
      BY <3>1 DEF Vectors!VectorInv, Vectors!MemoryFollows, Vectors!TypeOK
    <3> QED
      BY <1>4, <3>1, <3>2
  <2>4. \A u \in v8' : ~u.put => u.id \notin v1'[u.partition]
    BY <1>1, <1>4, <1>5, <1>6
  <2> QED
    BY <1>1, <2>2, <2>3, <2>4 DEF Vectors!MemoryFollows, Vectors!Hydrated, InMemory
<1>10. Vectors!OneAtATime'
  BY <1>1, <1>2 DEF Vectors!OneAtATime
<1> QED
  BY <1>1, <1>7, <1>8, <1>9, <1>10, MemoryRests DEF Vectors!VectorInv

\* A partition that is used is newer than what is on its way.
LEMMA TouchedIs ==
  ASSUME Vectors!VectorInv, NEW p \in InMemory
  PROVE  /\ OrderedBy(Vectors!Touched(p))
         /\ DOMAIN Vectors!Touched(p) = InMemory
         /\ \A q \in InMemory \ {p} : Vectors!Touched(p)[q] = v3[q] \ {p}
         /\ Vectors!Touched(p)[p] = InMemory \ {p}
<1>1. OrderedBy(v3)
  BY InvIs DEF Vectors!VectorInv
<1>2. Vectors!Touched(p) = Vectors!Placed(v3, p, {})
  BY DEF Vectors!Touched
<1> DEFINE none == {}
<1>3. \A a \in none \cap DOMAIN v3, b \in DOMAIN v3 : a \in v3[b] => b \in none
  OBVIOUS
<1> HIDE DEF none
<1>4. /\ OrderedBy(Vectors!Placed(v3, p, none))
      /\ DOMAIN Vectors!Placed(v3, p, none) = DOMAIN v3 \cup {p}
      /\ \A q \in DOMAIN v3 \ {p} :
           Vectors!Placed(v3, p, none)[q] = (v3[q] \ {p}) \cup (IF q \in none THEN {p} ELSE {})
      /\ Vectors!Placed(v3, p, none)[p] = DOMAIN v3 \ (none \cup {p})
  BY <1>1, <1>3, PlacedIsOrdered
<1> QED
  BY <1>2, <1>4 DEF InMemory, none

\* What goes leaves the newer ones the last.
LEMMA NewerStay ==
  ASSUME Vectors!VectorInv, NEW p \in InMemory, v7' = Vectors!UsedSince(p),
         InMemory' \subseteq InMemory,
         \A q \in InMemory' : v3'[q] \subseteq Vectors!Touched(p)[q]
  PROVE  Vectors!NewerAreLast'
<1>1. p \in Partitions
  BY DEF Vectors!VectorInv, Vectors!TypeOK, InMemory, Vectors!Hydrated
<1>2. ASSUME NEW g \in v7'
      PROVE  /\ ~g.built => g.newer = {}
             /\ \A a \in g.newer \cap InMemory', b \in InMemory' : a \in v3'[b] => b \in g.newer
  <2>1. PICK h \in v7 : /\ g.built = h.built
                        /\ g.newer = h.newer \cup (IF h.built THEN {p} ELSE {})
    BY <1>1, UsedSinceAre
  <2>2. /\ ~h.built => h.newer = {}
        /\ \A a \in h.newer \cap InMemory, b \in InMemory : a \in v3[b] => b \in h.newer
    BY DEF Vectors!VectorInv, Vectors!NewerAreLast, Vectors!Hydrated, InMemory
  <2>3. /\ \A q \in InMemory \ {p} : Vectors!Touched(p)[q] = v3[q] \ {p}
    BY TouchedIs
  <2>4. CASE ~h.built
    BY <2>1, <2>2, <2>4
  <2>5. CASE h.built
    <3>1. g.built /\ g.newer = h.newer \cup {p}
      BY <2>1, <2>5
    <3> SUFFICES ASSUME NEW a \in g.newer \cap InMemory', NEW b \in InMemory', a \in v3'[b], b # p
                 PROVE  b \in h.newer
      BY <3>1
    <3>2. a \in Vectors!Touched(p)[b] /\ b \in InMemory \ {p}
      OBVIOUS
    <3>3. a \in v3[b] /\ a # p
      BY <2>3, <3>2
    <3> QED
      BY <2>2, <3>1, <3>2, <3>3
  <2> QED
    BY <2>4, <2>5
<1> QED
  BY <1>2 DEF Vectors!NewerAreLast, Vectors!Hydrated, InMemory

LEMMA SearchKeeps ==
  ASSUME Vectors!VectorIndexAssumption, Vectors!VectorInv,
         NEW p \in Partitions, Vectors!Search(p)
  PROVE  Vectors!VectorInv'
<1>1. /\ p \in InMemory /\ v3' = Vectors!Touched(p) /\ v7' = Vectors!UsedSince(p)
      /\ UNCHANGED <<v1, v2, v4, v5, v6, v8, v9, v10>>
  BY DEF Vectors!Search, Vectors!Hydrated, InMemory
<1>2. OrderedBy(v3') /\ DOMAIN v3' = InMemory
  BY <1>1, TouchedIs
<1>3. /\ v7' \subseteq Handings
      /\ \A g \in v7' : \E h \in v7 :
           g.partition = h.partition /\ g.ids = h.ids /\ g.stale = h.stale
      /\ \A h, g \in v7' : h = g
  BY <1>1, UsedSinceAre
<1>4. Vectors!TypeOK'
  BY <1>1, <1>2, <1>3 DEF Vectors!VectorInv, Vectors!TypeOK, Vectors!Hydrated, InMemory,
    Handings, OrderedBy
<1>5. Budget'
  <2>1. Budget
    BY InvIs DEF Vectors!VectorInv
  <2> QED
    BY <1>1, <1>2, <2>1 DEF Budget, InMemory
<1>6. Vectors!NewerAreLast'
  BY <1>1, <1>2, NewerStay DEF InMemory
<1>7. Vectors!MemoryFollows'
  <2>1. Vectors!MemoryFollows
    BY DEF Vectors!VectorInv
  <2>2. \A q \in InMemory' \ v9' : Vectors!Tells(q)'
    BY <1>1, <1>2, <2>1 DEF Vectors!MemoryFollows, Vectors!Tells, Vectors!Hydrated, InMemory
  <2>3. \A g \in v7' : ~g.stale => g.ids = v1'[g.partition]
    BY <1>1, <1>3, <2>1 DEF Vectors!MemoryFollows
  <2>4. \A t \in v8' : ~t.put => t.id \notin v1'[t.partition]
    BY <1>1, <2>1 DEF Vectors!MemoryFollows
  <2> QED
    BY <2>2, <2>3, <2>4 DEF Vectors!MemoryFollows, Vectors!Hydrated, InMemory
<1>8. Vectors!OneAtATime'
  BY <1>1, <1>3 DEF Vectors!VectorInv, Vectors!OneAtATime
<1> QED
  BY <1>2, <1>4, <1>5, <1>6, <1>7, <1>8, InvIs DEF Vectors!VectorInv

\* A partition that goes gives its bytes back, and no room is left to make.
LEMMA BudgetWithout ==
  ASSUME Vectors!VectorIndexAssumption, v2 \in Memories, InMemory \subseteq Partitions, Budget,
         NEW p \in Partitions
  PROVE  /\ v4 - Bytes(v2, InMemory \cap {p}) = Bytes(v2, InMemory \ {p})
         /\ Bytes(v2, InMemory \ {p}) \in Nat /\ v4 \in Nat
         /\ Bytes(v2, InMemory \cap {p}) = Bytes(v2, {p})
         /\ Bytes(v2, InMemory \ {p}) > LIMIT => Cardinality(InMemory \ {p}) = 1
<1> DEFINE D == InMemory
<1>1. /\ Bytes(v2, D \ (D \cap {p})) = Bytes(v2, D) - Bytes(v2, D \cap {p})
      /\ Bytes(v2, D \ (D \cap {p})) \in Nat /\ Bytes(v2, D) \in Nat
      /\ Bytes(v2, D \cap {p}) \in Nat
  BY BytesWithout
<1>2. D \ (D \cap {p}) = D \ {p} /\ v4 = Bytes(v2, D) /\ LIMIT \in Nat
  BY DEF Budget, Vectors!VectorIndexAssumption
<1>3. Bytes(v2, D \cap {p}) = Bytes(v2, {p})
  <2>1. CASE p \in D
    <3>1. D \cap {p} = {p}
      BY <2>1
    <3> QED
      BY <3>1
  <2>2. CASE p \notin D
    <3>1. v2[p] = {} /\ D \cap {p} = {}
      BY <2>2 DEF Budget
    <3> QED
      BY <3>1, BytesOfOne, BytesOfNone, FS_EmptySet
  <2> QED
    BY <2>1, <2>2
<1>4. ASSUME Bytes(v2, D \ {p}) > LIMIT
      PROVE  Cardinality(D \ {p}) = 1
  <2>0. v4 > LIMIT
    BY <1>1, <1>2, <1>4
  <2>1. Cardinality(D) = 1
    BY <2>0 DEF Budget
  <2>2. IsFiniteSet(D)
    BY VectorsCount, FS_Subset DEF Vectors!VectorIndexAssumption
  <2>3. PICK x : D = {x}
    BY <2>1, <2>2, FS_Singleton
  <2>4. p # x
    <3> SUFFICES ASSUME p = x
                 PROVE  FALSE
      OBVIOUS
    <3>1. D \ {p} = {}
      BY <2>3
    <3>2. Bytes(v2, D \ {p}) = 0
      BY <3>1, BytesOfNone
    <3> QED
      BY <1>2, <1>4, <3>2
  <2>5. D \ {p} = D
    BY <2>3, <2>4
  <2> QED
    BY <2>1, <2>5
<1> QED
  BY <1>1, <1>2, <1>3, <1>4

LEMMA DropPartitionKeeps ==
  ASSUME Vectors!VectorIndexAssumption, Vectors!VectorInv,
         NEW p \in Partitions, Vectors!DropPartition(p)
  PROVE  Vectors!VectorInv'
<1>1. /\ v10 < MaxChanges /\ v10' = v10 + 1
      /\ v1' = [v1 EXCEPT ![p] = {}]
      /\ v2' = [v2 EXCEPT ![p] = {}]
      /\ v3' = Vectors!Dropped(v3, {p})
      /\ v4' = v4 - Bytes(v2, {p})
      /\ v5' = [v5 EXCEPT ![p] = 0]
      /\ v6' = v6 \ {p}
      /\ v7' = Vectors!Overtaken(p)
      /\ UNCHANGED <<v8, v9>>
  BY BytesIs DEF Vectors!DropPartition
<1>2. /\ v1 \in [Partitions -> SUBSET Ids] /\ v2 \in Memories /\ InMemory \subseteq Partitions
      /\ OrderedBy(v3) /\ Budget /\ v6 \subseteq Partitions /\ v5 \in [Partitions -> Nat]
  BY InvIs DEF Vectors!VectorInv, Vectors!TypeOK, Memories, InMemory, Vectors!Hydrated
<1>3. /\ OrderedBy(v3') /\ InMemory' = InMemory \ {p}
      /\ \A q \in InMemory \ {p} : v3'[q] = v3[q] \ {p}
  <2> DEFINE gone == {p}
  <2> HIDE DEF gone
  <2>1. /\ OrderedBy(Vectors!Dropped(v3, gone)) /\ DOMAIN Vectors!Dropped(v3, gone) = DOMAIN v3 \ gone
        /\ \A q \in DOMAIN v3 \ gone : Vectors!Dropped(v3, gone)[q] = v3[q] \ gone
    BY <1>2, DroppedIsOrdered
  <2> QED
    BY <1>1, <2>1 DEF InMemory, gone
<1>4. /\ v1' \in [Partitions -> SUBSET Ids] /\ v2' \in Memories
      /\ v1'[p] = {} /\ v2'[p] = {}
      /\ \A q \in Partitions \ {p} : v1'[q] = v1[q] /\ v2'[q] = v2[q]
  BY <1>1, <1>2 DEF Memories
<1>5. /\ v7' \subseteq Handings
      /\ \A g \in v7' : \E h \in v7 :
           /\ g.partition = h.partition /\ g.ids = h.ids /\ g.built = h.built
           /\ g.newer = h.newer /\ g.stale = (h.stale \/ h.partition = p)
      /\ \A h, g \in v7' : h = g
  BY <1>1, OvertakenAre
<1>6. /\ v4' = Bytes(v2, InMemory \ {p}) /\ v4' \in Nat
      /\ v4' > LIMIT => Cardinality(InMemory') = 1
  BY <1>1, <1>2, <1>3, BudgetWithout
<1>7. Vectors!TypeOK'
  <2>1. v10' \in 0 .. MaxChanges
    BY <1>1 DEF Vectors!VectorInv, Vectors!TypeOK, Vectors!VectorIndexAssumption
  <2>2. v5' \in [Partitions -> Nat] /\ v6' \subseteq Partitions /\ v4' \in Int
    BY <1>1, <1>2, <1>6
  <2>3. /\ InMemory' \subseteq Partitions /\ v3' \in [InMemory' -> SUBSET InMemory']
    BY <1>2, <1>3 DEF OrderedBy, InMemory
  <2>4. v8' \subseteq Tellings /\ v9' \subseteq Partitions
    BY <1>1 DEF Vectors!VectorInv, Vectors!TypeOK, Tellings
  <2> QED
    BY <1>4, <1>5, <2>1, <2>2, <2>3, <2>4
      DEF Vectors!TypeOK, Vectors!Hydrated, InMemory, Memories, Handings, Tellings
<1>8. Budget'
  <2>1. Bytes(v2', InMemory') = Bytes(v2, InMemory \ {p})
    BY <1>2, <1>3, <1>4, BytesOfTheSame
  <2>2. \A q \in Partitions \ InMemory' : v2'[q] = {}
    BY <1>2, <1>3, <1>4 DEF Budget
  <2>3. v6' \cap InMemory' = {}
    BY <1>1, <1>2, <1>3 DEF Budget
  <2> QED
    BY <1>6, <2>1, <2>2, <2>3 DEF Budget
<1>9. Vectors!NewerAreLast'
  <2>1. Vectors!NewerAreLast
    BY DEF Vectors!VectorInv
  <2> QED
    BY <1>3, <1>5, <2>1 DEF Vectors!NewerAreLast, Vectors!Hydrated, InMemory
<1>10. Vectors!MemoryFollows'
  <2>1. Vectors!MemoryFollows
    BY DEF Vectors!VectorInv
  <2>2. \A q \in InMemory' \ v9' : Vectors!Tells(q)'
    <3> SUFFICES ASSUME NEW q \in InMemory' \ v9'
                 PROVE  Vectors!Tells(q)'
      OBVIOUS
    <3>1. q \in Vectors!Hydrated \ v9 /\ v1'[q] = v1[q] /\ v2'[q] = v2[q] /\ q # p
      BY <1>1, <1>2, <1>3, <1>4 DEF Vectors!Hydrated, InMemory
    <3>2. Vectors!Tells(q)
      BY <2>1, <3>1 DEF Vectors!MemoryFollows
    <3> QED
      BY <1>1, <3>1, <3>2 DEF Vectors!Tells
  <2>3. \A g \in v7' : ~g.stale => g.ids = v1'[g.partition]
    <3> SUFFICES ASSUME NEW g \in v7', ~g.stale
                 PROVE  g.ids = v1'[g.partition]
      OBVIOUS
    <3>1. PICK h \in v7 : /\ g.partition = h.partition /\ g.ids = h.ids
                          /\ ~h.stale /\ h.partition # p
      BY <1>5
    <3>2. h.ids = v1[h.partition] /\ h.partition \in Partitions
      BY <2>1, <3>1 DEF Vectors!VectorInv, Vectors!MemoryFollows, Vectors!TypeOK
    <3> QED
      BY <1>4, <3>1, <3>2
  <2>4. \A t \in v8' : ~t.put => t.id \notin v1'[t.partition]
    <3>1. \A t \in v8 : t.partition \in Partitions
      BY DEF Vectors!VectorInv, Vectors!TypeOK
    <3> QED
      BY <1>1, <1>4, <2>1, <3>1 DEF Vectors!MemoryFollows
  <2> QED
    BY <2>2, <2>3, <2>4 DEF Vectors!MemoryFollows, Vectors!Hydrated, InMemory
<1>11. Vectors!OneAtATime'
  BY <1>1, <1>5 DEF Vectors!VectorInv, Vectors!OneAtATime
<1> QED
  BY <1>3, <1>7, <1>8, <1>9, <1>10, <1>11, InvIs DEF Vectors!VectorInv

\* A vector more or less.
LEMMA OneVector ==
  ASSUME NEW S, NEW x, IsFiniteSet(S)
  PROVE  /\ Cardinality(S) \in Nat
         /\ Cardinality({x} \cap S) \in Nat /\ Cardinality({x} \ S) \in Nat
         /\ Cardinality(S \ {x}) = Cardinality(S) - Cardinality({x} \cap S)
         /\ Cardinality(S \cup {x}) = Cardinality(S) + Cardinality({x} \ S)
<1>1. /\ Cardinality(S) \in Nat
      /\ Cardinality(S \ {x}) = IF x \in S THEN Cardinality(S) - 1 ELSE Cardinality(S)
      /\ Cardinality(S \cup {x}) = IF x \in S THEN Cardinality(S) ELSE Cardinality(S) + 1
  BY FS_CardinalityType, FS_AddElement, FS_RemoveElement
<1>2. Cardinality({}) = 0 /\ Cardinality({x}) = 1
  BY FS_EmptySet, FS_Singleton
<1>3. CASE x \in S
  <2>1. {x} \cap S = {x} /\ {x} \ S = {}
    BY <1>3
  <2>2. Cardinality({x} \cap S) = 1 /\ Cardinality({x} \ S) = 0
    BY <1>2, <2>1, Zenon
  <2>3. Cardinality(S \ {x}) = Cardinality(S) - 1 /\ Cardinality(S \cup {x}) = Cardinality(S)
    BY <1>1, <1>3, Zenon
  <2> QED
    BY <1>1, <2>2, <2>3
<1>4. CASE x \notin S
  <2>1. {x} \cap S = {} /\ {x} \ S = {x}
    BY <1>4
  <2>2. Cardinality({x} \cap S) = 0 /\ Cardinality({x} \ S) = 1
    BY <1>2, <2>1, Zenon
  <2>3. Cardinality(S \ {x}) = Cardinality(S) /\ Cardinality(S \cup {x}) = Cardinality(S) + 1
    BY <1>1, <1>4, Zenon
  <2> QED
    BY <1>1, <2>2, <2>3
<1> QED
  BY <1>3, <1>4

\* A partition counts for its vectors, next to the others.
LEMMA BytesWith ==
  ASSUME Vectors!VectorIndexAssumption, NEW m \in Memories,
         NEW ps \in SUBSET Partitions, NEW p \in Partitions, p \notin ps
  PROVE  /\ Bytes(m, ps \cup {p}) = Bytes(m, ps) + Cardinality(m[p])
         /\ Bytes(m, ps) \in Nat /\ Cardinality(m[p]) \in Nat /\ IsFiniteSet(m[p])
<1>1. Bytes(m, {p}) = Cardinality(m[p]) /\ IsFiniteSet(m[p]) /\ Cardinality(m[p]) \in Nat
  BY BytesOfOne
<1>2. Bytes(m, ps) \in Nat
  BY BytesAreFinite
<1> DEFINE qs == {p}
<1>3. qs \in SUBSET Partitions /\ ps \cap qs = {}
  OBVIOUS
<1> HIDE DEF qs
<1>4. Bytes(m, ps \cup qs) = Bytes(m, ps) + Bytes(m, qs)
  BY <1>3, BytesOfBoth
<1> QED
  BY <1>1, <1>2, <1>4 DEF qs

LEMMA RemoveVectorKeeps ==
  ASSUME Vectors!VectorIndexAssumption, Vectors!VectorInv, Vectors!RemoveVector
  PROVE  Vectors!VectorInv'
<1>1. PICK t \in v8 :
        /\ ~t.put /\ v8' = {}
        /\ v2' = [v2 EXCEPT ![t.partition] = @ \ {t.id}]
        /\ v4' = v4 - Cardinality({t.id} \cap v2[t.partition])
        /\ v5' = [v5 EXCEPT ![t.partition] =
                    Vectors!Max2(@ - Cardinality({t.id} \cap v2[t.partition]), 0)]
        /\ UNCHANGED <<v1, v3, v6, v7, v9, v10>>
  BY VectorsCount DEF Vectors!RemoveVector
<1> DEFINE p == t.partition
           i == t.id
           n == Cardinality({i} \cap v2[p])
<1>2. /\ p \in Partitions /\ i \in Ids
      /\ v1 \in [Partitions -> SUBSET Ids] /\ v2 \in Memories /\ InMemory \subseteq Partitions
      /\ OrderedBy(v3) /\ Budget /\ v5 \in [Partitions -> Nat]
  BY <1>1, InvIs DEF Vectors!VectorInv, Vectors!TypeOK, Memories, InMemory, Vectors!Hydrated
<1>3. \A u \in v8 : u = t
  BY <1>1 DEF Vectors!VectorInv, Vectors!OneAtATime
<1>4. /\ v2' \in Memories /\ v2'[p] = v2[p] \ {i}
      /\ \A q \in Partitions \ {p} : v2'[q] = v2[q]
  BY <1>1, <1>2 DEF Memories
<1>5. /\ v4' = v4 - n
      /\ v5' = [v5 EXCEPT ![p] = Vectors!Max2(v5[p] - n, 0)]
  BY <1>1, <1>2
<1>6. /\ n \in Nat /\ Cardinality(v2'[p]) = Cardinality(v2[p]) - n
      /\ Cardinality(v2[p]) \in Nat /\ IsFiniteSet(v2[p])
  BY <1>2, <1>4, BytesOfOne, OneVector
<1>7. ~t.put /\ v1[p] \subseteq Ids
  BY <1>1, <1>2
<1> HIDE DEF p, i, n
<1>8. v4' = Bytes(v2', InMemory) /\ v4' <= v4 /\ v4' \in Int /\ v4 \in Int
  <2>0. v4 = Bytes(v2, InMemory) /\ Bytes(v2, InMemory) \in Nat
    BY <1>2, BytesAreFinite DEF Budget
  <2>1. CASE p \in InMemory
    <3> DEFINE D == InMemory \ {p}
    <3>1. D \in SUBSET Partitions /\ D \cup {p} = InMemory /\ p \notin D
      BY <1>2, <2>1
    <3>2. Bytes(v2', D) = Bytes(v2, D)
      BY <1>2, <1>4, BytesOfTheSame
    <3> HIDE DEF D
    <3>3. /\ Bytes(v2, D \cup {p}) = Bytes(v2, D) + Cardinality(v2[p]) /\ Bytes(v2, D) \in Nat
          /\ Bytes(v2', D \cup {p}) = Bytes(v2', D) + Cardinality(v2'[p])
      BY <1>2, <1>4, <3>1, BytesWith
    <3> QED
      BY <1>5, <1>6, <2>0, <3>1, <3>2, <3>3
  <2>2. CASE p \notin InMemory
    <3>1. v2[p] = {} /\ Cardinality(v2[p]) = 0
      BY <1>2, <2>2, FS_EmptySet DEF Budget
    <3>2. Cardinality(v2'[p]) = 0
      BY <1>4, <3>1
    <3>3. n = 0
      BY <1>6, <3>1, <3>2
    <3>4. Bytes(v2', InMemory) = Bytes(v2, InMemory)
      BY <1>2, <1>4, <2>2, BytesOfTheSame
    <3> QED
      BY <1>5, <2>0, <3>3, <3>4
  <2> QED
    BY <2>1, <2>2
<1>9. Vectors!TypeOK'
  <2>1. Vectors!Max2(v5[p] - n, 0) \in Nat
    BY <1>2, <1>6 DEF Vectors!Max2
  <2>2. v5' \in [Partitions -> Nat]
    BY <1>2, <1>5, <2>1
  <2> QED
    BY <1>1, <1>4, <1>8, <2>2 DEF Vectors!VectorInv, Vectors!TypeOK, Vectors!Hydrated, Memories
<1>10. Budget'
  <2>1. InMemory' = InMemory /\ v6' = v6 /\ LIMIT \in Nat
    BY <1>1 DEF InMemory, Vectors!VectorIndexAssumption
  <2>2. \A q \in Partitions \ InMemory : v2'[q] = {}
    BY <1>2, <1>4 DEF Budget
  <2>3. v4' > LIMIT => v4 > LIMIT
    BY <1>8, <2>1
  <2> QED
    BY <1>2, <1>8, <2>1, <2>2, <2>3 DEF Budget
<1>11. Vectors!NewerAreLast' /\ Vectors!OneAtATime' /\ OrderedBy(v3')
  BY <1>1, <1>2 DEF Vectors!VectorInv, Vectors!NewerAreLast, Vectors!Hydrated, Vectors!OneAtATime
<1>12. Vectors!MemoryFollows'
  <2>1. Vectors!MemoryFollows
    BY DEF Vectors!VectorInv
  <2>2. ASSUME NEW q \in InMemory \ v9
        PROVE  Vectors!Tells(q)'
    <3>1. q \in Partitions /\ Vectors!Tells(q)
      BY <1>2, <2>1, <2>2 DEF Vectors!MemoryFollows, Vectors!Hydrated, InMemory
    <3>2. CASE q = p
      BY <1>1, <1>3, <1>4, <1>7, <3>1, <3>2 DEF Vectors!Tells, p, i
    <3>3. CASE q # p
      BY <1>1, <1>3, <1>4, <3>1, <3>3 DEF Vectors!Tells, p
    <3> QED
      BY <3>2, <3>3
  <2> QED
    BY <1>1, <2>1, <2>2 DEF Vectors!MemoryFollows, Vectors!Hydrated, InMemory
<1> QED
  BY <1>9, <1>10, <1>11, <1>12, InvIs DEF Vectors!VectorInv

LEMMA UpsertKeeps ==
  ASSUME Vectors!VectorIndexAssumption, Vectors!VectorInv, Vectors!Upsert
  PROVE  Vectors!VectorInv'
<1>1. PICK t \in v8 :
        /\ t.put /\ v8' = {}
        /\ LET n == Vectors!Cardinality({t.id} \ v2[t.partition])
               V == Vectors!Victims(Vectors!Touched(t.partition), v4 + n, 0, t.partition)
           IN IF t.partition \notin Vectors!Hydrated THEN UNCHANGED <<v2, v3, v4, v5, v6, v7, v9>>
              ELSE /\ v2' = [q \in Partitions |->
                               IF q = t.partition THEN v2[t.partition] \cup {t.id}
                               ELSE IF q \in V THEN {} ELSE v2[q]]
                   /\ v3' = Vectors!Dropped(Vectors!Touched(t.partition), V)
                   /\ v4' = v4 + n - Vectors!BytesOf(V)
                   /\ v5' = [v5 EXCEPT ![t.partition] = @ + n]
                   /\ v6' = v6 \cup V
                   /\ v7' = Vectors!UsedSince(t.partition)
                   /\ v9' = IF t.id \in v1[t.partition] THEN v9 ELSE v9 \cup {t.partition}
        /\ UNCHANGED <<v1, v10>>
  BY DEF Vectors!Upsert
<1> DEFINE p == t.partition
           i == t.id
           n == Vectors!Cardinality({i} \ v2[p])
           V == Vectors!Victims(Vectors!Touched(p), v4 + n, 0, p)
<1>2. /\ p \in Partitions /\ i \in Ids
      /\ v1 \in [Partitions -> SUBSET Ids] /\ v2 \in Memories /\ InMemory \subseteq Partitions
      /\ OrderedBy(v3) /\ Budget /\ v5 \in [Partitions -> Nat] /\ v6 \subseteq Partitions
  BY <1>1, InvIs DEF Vectors!VectorInv, Vectors!TypeOK, Memories, InMemory, Vectors!Hydrated
<1>3. \A u \in v8 : u = t
  BY <1>1 DEF Vectors!VectorInv, Vectors!OneAtATime
<1>4. Vectors!MemoryFollows /\ v9 \subseteq Partitions
  BY DEF Vectors!VectorInv, Vectors!TypeOK
<1>5. CASE p \notin InMemory
  <2>1. UNCHANGED <<v1, v2, v3, v4, v5, v6, v7, v9, v10>> /\ v8' = {}
    BY <1>1, <1>5 DEF Vectors!Hydrated, InMemory
  <2>2. Vectors!TypeOK' /\ Vectors!NewerAreLast' /\ Vectors!OneAtATime'
    BY <2>1 DEF Vectors!VectorInv, Vectors!TypeOK, Vectors!NewerAreLast, Vectors!Hydrated,
      Vectors!OneAtATime
  <2>3. \A q \in InMemory \ v9 : Vectors!Tells(q)'
    BY <1>3, <1>4, <1>5, <2>1 DEF Vectors!MemoryFollows, Vectors!Tells, Vectors!Hydrated, InMemory
  <2>4. Vectors!MemoryFollows'
    BY <1>4, <2>1, <2>3 DEF Vectors!MemoryFollows, Vectors!Hydrated, InMemory
  <2> QED
    BY <2>1, <2>2, <2>4, MemoryRests DEF Vectors!VectorInv
<1>6. CASE p \in InMemory
  <2> DEFINE T == Vectors!Touched(p)
  <2>1. /\ v8' = {} /\ UNCHANGED <<v1, v10>>
        /\ v2' = [q \in Partitions |-> IF q = p THEN v2[p] \cup {i}
                                       ELSE IF q \in V THEN {} ELSE v2[q]]
        /\ v3' = Vectors!Dropped(T, V)
        /\ v4' = v4 + n - Vectors!BytesOf(V)
        /\ v5' = [v5 EXCEPT ![p] = v5[p] + n]
        /\ v6' = v6 \cup V
        /\ v7' = Vectors!UsedSince(p)
        /\ v9' = IF i \in v1[p] THEN v9 ELSE v9 \cup {p}
    BY <1>1, <1>2, <1>6 DEF Vectors!Hydrated, InMemory
  <2>2. t.put /\ V = Vectors!Victims(T, v4 + n, 0, p) /\ n = Cardinality({i} \ v2[p])
    BY <1>1, VectorsCount
  <2>30. v4' = v4 + n - Bytes(v2, V)
    BY <2>1, BytesIs
  <2>3. IsFiniteSet(v2[p]) /\ n \in Nat /\ Cardinality(v2[p] \cup {i}) = Cardinality(v2[p]) + n
    <3> DEFINE S == v2[p]
    <3>1. IsFiniteSet(S)
      BY <1>2, BytesOfOne
    <3> HIDE DEF S, p, i, n
    <3>2. Cardinality({i} \ S) \in Nat /\ Cardinality(S \cup {i}) = Cardinality(S) + Cardinality({i} \ S)
      BY <3>1, OneVector
    <3>3. n = Cardinality({i} \ S)
      BY <2>2 DEF S
    <3> QED
      BY <3>1, <3>2, <3>3 DEF S
  <2> HIDE DEF p, i, n, V, T
  <2>4. /\ OrderedBy(T) /\ DOMAIN T = InMemory
    BY <1>6, TouchedIs DEF T
  <2>5. v4 = Bytes(v2, InMemory) /\ v4 \in Nat /\ LIMIT \in Nat
    BY <1>2, BytesAreFinite DEF Budget, Vectors!VectorIndexAssumption
  <2>6. /\ V \subseteq InMemory \ {p}
        /\ V = InMemory \ {p} \/ v4 + n - Bytes(v2, V) + 0 <= LIMIT
    <3> DEFINE used == v4 + n
               extra == 0
    <3>1. used \in Int /\ extra \in Int /\ V = Vectors!Victims(T, used, extra, p)
      BY <2>2, <2>3, <2>5
    <3>2. DOMAIN T \subseteq Partitions
      BY <1>2, <2>4
    <3> HIDE DEF used, extra
    <3>3. /\ V \subseteq DOMAIN T \ {p}
          /\ V = DOMAIN T \ {p} \/ used - Bytes(v2, V) + extra <= LIMIT
      BY <1>2, <2>4, <3>1, <3>2, VictimsMakeRoom
    <3>4. Bytes(v2, V) \in Nat
      BY <1>2, <2>4, <3>2, <3>3, BytesAreFinite
    <3> QED
      BY <2>3, <2>4, <2>5, <3>3, <3>4 DEF used, extra
  <2>7. /\ OrderedBy(v3') /\ InMemory' = InMemory \ V
        /\ \A q \in InMemory \ V : v3'[q] = T[q] \ V
    <3>1. /\ OrderedBy(Vectors!Dropped(T, V)) /\ DOMAIN Vectors!Dropped(T, V) = DOMAIN T \ V
          /\ \A q \in DOMAIN T \ V : Vectors!Dropped(T, V)[q] = T[q] \ V
      BY <2>4, DroppedIsOrdered
    <3> QED
      BY <2>1, <2>4, <3>1 DEF InMemory
  <2>8. /\ v2' \in Memories /\ v2'[p] = v2[p] \cup {i}
        /\ \A q \in V : v2'[q] = {}
        /\ \A q \in Partitions \ (V \cup {p}) : v2'[q] = v2[q]
    BY <1>2, <2>1, <2>6 DEF Memories
  <2>9. v4' = Bytes(v2', InMemory') /\ v4' \in Nat
    <3> DEFINE D == (InMemory \ V) \ {p}
    <3>1. /\ D \in SUBSET Partitions /\ D \cup {p} = InMemory \ V /\ p \notin D
      BY <1>2, <1>6, <2>6
    <3>2. Bytes(v2', D) = Bytes(v2, D)
      BY <1>2, <2>8, BytesOfTheSame
    <3> HIDE DEF D
    <3>3. /\ Bytes(v2, D \cup {p}) = Bytes(v2, D) + Cardinality(v2[p])
          /\ Bytes(v2', D \cup {p}) = Bytes(v2', D) + Cardinality(v2'[p])
          /\ Bytes(v2', D) \in Nat /\ Cardinality(v2[p]) \in Nat
      BY <1>2, <2>8, <3>1, BytesWith
    <3>4. /\ Bytes(v2, InMemory \ V) = Bytes(v2, InMemory) - Bytes(v2, V)
          /\ Bytes(v2, V) \in Nat
      BY <1>2, <2>6, BytesWithout
    <3>5. Bytes(v2, D) + Cardinality(v2[p]) = v4 - Bytes(v2, V)
      BY <2>5, <3>1, <3>3, <3>4
    <3>6. Bytes(v2', InMemory') = Bytes(v2, D) + (Cardinality(v2[p]) + n)
      BY <2>3, <2>7, <2>8, <3>1, <3>2, <3>3
    <3> QED
      BY <2>3, <2>5, <2>30, <3>2, <3>3, <3>4, <3>5, <3>6
  <2>10. v4' > LIMIT => Cardinality(InMemory') = 1
    <3> SUFFICES ASSUME v4' > LIMIT
                 PROVE  Cardinality(InMemory') = 1
      OBVIOUS
    <3>1. Bytes(v2, V) \in Nat
      BY <1>2, <2>6, BytesAreFinite
    <3>2. V = InMemory \ {p}
      BY <2>3, <2>5, <2>6, <2>30, <3>1
    <3>3. InMemory' = {p}
      BY <1>6, <2>7, <3>2
    <3> QED
      BY <3>3, FS_Singleton
  <2>11. Budget'
    <3>1. \A q \in Partitions \ InMemory' : v2'[q] = {}
      BY <1>2, <1>6, <2>6, <2>7, <2>8 DEF Budget
    <3>2. v6' \cap InMemory' = {}
      BY <1>2, <2>1, <2>7 DEF Budget
    <3> QED
      BY <2>9, <2>10, <3>1, <3>2 DEF Budget
  <2>12. /\ v7' \subseteq Handings
         /\ \A g \in v7' : \E h \in v7 :
              g.partition = h.partition /\ g.ids = h.ids /\ g.stale = h.stale
         /\ \A h, g \in v7' : h = g
    BY <1>2, <2>1, UsedSinceAre
  <2>13. Vectors!TypeOK'
    <3>1. /\ v5' \in [Partitions -> Nat] /\ v6' \subseteq Partitions /\ v9' \subseteq Partitions
      BY <1>2, <1>4, <2>1, <2>3, <2>6
    <3>2. InMemory' \subseteq Partitions /\ v3' \in [InMemory' -> SUBSET InMemory']
      BY <1>2, <2>7 DEF OrderedBy, InMemory
    <3>3. v1' \in [Partitions -> SUBSET Ids] /\ v10' \in 0 .. MaxChanges /\ v4' \in Int
      BY <2>1, <2>9 DEF Vectors!VectorInv, Vectors!TypeOK
    <3> QED
      BY <2>1, <2>8, <2>12, <3>1, <3>2, <3>3
        DEF Vectors!TypeOK, Vectors!Hydrated, InMemory, Memories, Handings
  <2>14. Vectors!NewerAreLast'
    <3>1. InMemory' \subseteq InMemory /\ \A q \in InMemory' : v3'[q] \subseteq T[q]
      BY <2>7
    <3> QED
      BY <1>6, <2>1, <3>1, NewerStay DEF T
  <2>15. Vectors!MemoryFollows'
    <3>1. ASSUME NEW q \in InMemory' \ v9'
          PROVE  v2'[q] = v1[q]
      <4>1. q \in Partitions /\ q \in InMemory /\ q \notin V /\ q \notin v9 /\ Vectors!Tells(q)
        BY <1>2, <1>4, <2>1, <2>7, <3>1 DEF Vectors!MemoryFollows, Vectors!Hydrated, InMemory
      <4>2. CASE q = p
        <5>1. i \in v1[p]
          BY <2>1, <3>1, <4>2
        <5>2. v2[p] \cup (v1[p] \cap {i}) = v1[p]
          BY <1>1, <2>2, <4>1, <4>2 DEF Vectors!Tells, p, i
        <5> QED
          BY <2>8, <4>2, <5>1, <5>2
      <4>3. CASE q # p
        <5>1. v2[q] = v1[q]
          BY <1>3, <4>1, <4>3 DEF Vectors!Tells, p
        <5> QED
          BY <2>8, <4>1, <4>3, <5>1
      <4> QED
        BY <4>2, <4>3
    <3>2. \A q \in InMemory' \ v9' : Vectors!Tells(q)'
      BY <2>1, <3>1 DEF Vectors!Tells
    <3>3. \A g \in v7' : ~g.stale => g.ids = v1'[g.partition]
      BY <1>4, <2>1, <2>12 DEF Vectors!MemoryFollows
    <3> QED
      BY <2>1, <3>2, <3>3 DEF Vectors!MemoryFollows, Vectors!Hydrated, InMemory
  <2>16. Vectors!OneAtATime'
    BY <2>1, <2>12 DEF Vectors!OneAtATime
  <2> QED
    BY <2>7, <2>11, <2>13, <2>14, <2>15, <2>16, InvIs DEF Vectors!VectorInv
<1> QED
  BY <1>5, <1>6

LEMMA HydrateKeeps ==
  ASSUME Vectors!VectorIndexAssumption, Vectors!VectorInv, Vectors!Hydrate
  PROVE  Vectors!VectorInv'
<1>1. PICK h \in v7 : Vectors!Replace(h, v4 - Vectors!BytesOf(Vectors!Hydrated \cap {h.partition}))
  BY DEF Vectors!Hydrate
<1> DEFINE p == h.partition
           left == v4 - Vectors!BytesOf(Vectors!Hydrated \cap {p})
           needed == Vectors!Cardinality(h.ids)
           fits == needed <= LIMIT
           others == Vectors!Dropped(v3, {p})
           V == IF fits THEN Vectors!Victims(others, left, needed, p) ELSE {}
           rest == Vectors!Dropped(others, V)
           O == InMemory \ {p}
<1>2. /\ v2' = [q \in Partitions |-> IF q = p THEN IF fits THEN h.ids ELSE {}
                                     ELSE IF q \in V THEN {} ELSE v2[q]]
      /\ v3' = IF fits THEN Vectors!Placed(rest, p, h.newer) ELSE rest
      /\ v4' = left - Vectors!BytesOf(V) + (IF fits THEN needed ELSE 0)
      /\ v6' = IF fits THEN (v6 \cup V) \ {p} ELSE v6 \cup {p}
      /\ v5' = [v5 EXCEPT ![p] = Vectors!Max2(@, needed)]
      /\ v7' = {}
      /\ v9' = IF h.stale THEN v9 \cup {p} ELSE v9 \ {p}
      /\ UNCHANGED <<v1, v8, v10>>
  BY <1>1 DEF Vectors!Replace
<1>3. /\ p \in Partitions /\ h.ids \in SUBSET Ids /\ h.newer \in SUBSET Partitions
      /\ v1 \in [Partitions -> SUBSET Ids] /\ v2 \in Memories /\ InMemory \subseteq Partitions
      /\ OrderedBy(v3) /\ Budget /\ v5 \in [Partitions -> Nat] /\ v6 \subseteq Partitions
      /\ v9 \subseteq Partitions
      /\ ~h.stale => h.ids = v1[p]
      /\ \A a \in h.newer \cap InMemory, b \in InMemory : a \in v3[b] => b \in h.newer
  BY <1>1, InvIs DEF Vectors!VectorInv, Vectors!TypeOK, Memories, InMemory, Vectors!Hydrated,
    Vectors!MemoryFollows, Vectors!NewerAreLast
<1>4. /\ Vectors!Cardinality(h.ids) = Cardinality(h.ids)
      /\ Vectors!BytesOf(V) = Bytes(v2, V)
      /\ left = v4 - Bytes(v2, InMemory \cap {p})
  BY VectorsCount, BytesIs DEF Vectors!Hydrated, InMemory
<1>5. /\ left = Bytes(v2, O) /\ left \in Nat /\ LIMIT \in Nat
      /\ left > LIMIT => Cardinality(O) = 1
  BY <1>3, <1>4, BudgetWithout DEF Vectors!VectorIndexAssumption
<1>6. IsFiniteSet(h.ids) /\ needed = Cardinality(h.ids) /\ needed \in Nat
  <2>1. IsFiniteSet(Ids)
    BY VectorsCount DEF Vectors!VectorIndexAssumption
  <2> QED
    BY <1>3, <1>4, <2>1, FS_Subset, FS_CardinalityType
<1>7. /\ OrderedBy(others) /\ DOMAIN others = O
      /\ \A q \in O : others[q] = v3[q] \ {p}
  <2> DEFINE ps == {p}
  <2> HIDE DEF ps
  <2>1. /\ OrderedBy(Vectors!Dropped(v3, ps)) /\ DOMAIN Vectors!Dropped(v3, ps) = DOMAIN v3 \ ps
        /\ \A q \in DOMAIN v3 \ ps : Vectors!Dropped(v3, ps)[q] = v3[q] \ ps
    BY <1>3, DroppedIsOrdered
  <2> QED
    BY <2>1 DEF ps, InMemory
<1>8. /\ fits => V = Vectors!Victims(others, left, needed, p)
      /\ ~fits => V = {}
  OBVIOUS
<1>9. /\ fits => needed <= LIMIT
      /\ fits \in BOOLEAN
  OBVIOUS
<1>10. /\ p \notin O /\ O \in SUBSET Partitions /\ InMemory \subseteq O \cup {p} /\ O \subseteq InMemory
  BY <1>3
<1> HIDE DEF p, left, needed, fits, others, V, O
<1>11. /\ V \subseteq O
       /\ fits => V = O \/ left - Bytes(v2, V) + needed <= LIMIT
  <2>1. CASE fits
    <3>1. DOMAIN others \subseteq Partitions /\ left \in Int /\ needed \in Int
      BY <1>5, <1>6, <1>7, <1>10
    <3>2. /\ V \subseteq DOMAIN others \ {p}
          /\ V = DOMAIN others \ {p} \/ left - Bytes(v2, V) + needed <= LIMIT
      BY <1>3, <1>7, <1>8, <2>1, <3>1, VictimsMakeRoom
    <3> QED
      BY <1>7, <1>10, <2>1, <3>2
  <2>2. CASE ~fits
    BY <1>8, <2>2
  <2> QED
    BY <2>1, <2>2
<1>12. /\ OrderedBy(rest) /\ DOMAIN rest = O \ V
       /\ \A q \in O \ V : rest[q] = others[q] \ V
  <2>1. /\ OrderedBy(Vectors!Dropped(others, V)) /\ DOMAIN Vectors!Dropped(others, V) = DOMAIN others \ V
        /\ \A q \in DOMAIN others \ V : Vectors!Dropped(others, V)[q] = others[q] \ V
    BY <1>7, DroppedIsOrdered
  <2> QED
    BY <1>7, <2>1
<1> HIDE DEF rest
<1>13. /\ OrderedBy(v3')
       /\ fits => InMemory' = (O \ V) \cup {p}
       /\ ~fits => InMemory' = O
  <2>1. CASE fits
    <3> DEFINE newer == h.newer
    <3>1. \A a \in newer \cap DOMAIN rest, b \in DOMAIN rest : a \in rest[b] => b \in newer
      BY <1>3, <1>7, <1>10, <1>12
    <3> HIDE DEF newer
    <3>2. /\ OrderedBy(Vectors!Placed(rest, p, newer))
          /\ DOMAIN Vectors!Placed(rest, p, newer) = DOMAIN rest \cup {p}
      BY <1>12, <3>1, PlacedIsOrdered
    <3>3. v3' = Vectors!Placed(rest, p, newer)
      BY <1>2, <2>1 DEF newer
    <3> QED
      BY <1>12, <2>1, <3>2, <3>3 DEF InMemory
  <2>2. CASE ~fits
    <3>1. v3' = rest /\ O \ V = O
      BY <1>2, <1>8, <2>2
    <3> QED
      BY <1>12, <2>2, <3>1 DEF InMemory
  <2> QED
    BY <2>1, <2>2
<1>14. /\ v2' \in Memories
       /\ fits => v2'[p] = h.ids
       /\ ~fits => v2'[p] = {}
       /\ \A q \in V : v2'[q] = {}
       /\ \A q \in Partitions \ (V \cup {p}) : v2'[q] = v2[q]
  BY <1>2, <1>3, <1>10, <1>11 DEF Memories
<1>15. v4' = left - Bytes(v2, V) + (IF fits THEN needed ELSE 0)
  BY <1>2, <1>4
<1>16. Bytes(v2', O \ V) = left - Bytes(v2, V) /\ Bytes(v2', O \ V) \in Nat
  <2>1. /\ Bytes(v2, O \ V) = Bytes(v2, O) - Bytes(v2, V) /\ Bytes(v2, O \ V) \in Nat
    BY <1>3, <1>10, <1>11, BytesWithout
  <2>2. Bytes(v2', O \ V) = Bytes(v2, O \ V)
    BY <1>10, <1>14, BytesOfTheSame
  <2> QED
    BY <1>5, <2>1, <2>2
<1>17. /\ v4' = Bytes(v2', InMemory') /\ v4' \in Nat
       /\ v4' > LIMIT => Cardinality(InMemory') = 1
  <2>1. CASE fits
    <3> DEFINE D == O \ V
    <3>1. D \in SUBSET Partitions /\ p \notin D
      BY <1>10
    <3> HIDE DEF D
    <3>2. Bytes(v2', D \cup {p}) = Bytes(v2', D) + Cardinality(v2'[p])
      BY <1>3, <1>14, <3>1, BytesWith DEF p
    <3>3. Bytes(v2', D) = left - Bytes(v2, V) /\ Bytes(v2', D) \in Nat
      BY <1>16 DEF D
    <3>4. v4' = left - Bytes(v2, V) + needed /\ Cardinality(v2'[p]) = needed
      BY <1>6, <1>14, <1>15, <2>1
    <3>5. v4' = Bytes(v2', InMemory') /\ v4' \in Nat
      <4>1. InMemory' = D \cup {p}
        BY <1>13, <2>1 DEF D
      <4>2. Bytes(v2', D \cup {p}) = v4' /\ v4' \in Nat
        BY <1>6, <3>2, <3>3, <3>4
      <4> QED
        BY <4>1, <4>2
    <3>6. ASSUME v4' > LIMIT
          PROVE  Cardinality(InMemory') = 1
      <4>1. V = O
        BY <1>5, <1>11, <2>1, <3>4, <3>5, <3>6
      <4>2. InMemory' = {p}
        BY <1>13, <2>1, <4>1
      <4> QED
        BY <4>2, FS_Singleton
    <3> QED
      BY <3>5, <3>6
  <2>2. CASE ~fits
    <3>1. V = {} /\ Bytes(v2, V) = 0 /\ InMemory' = O /\ O \ V = O
      BY <1>8, <1>13, <2>2, BytesOfNone
    <3>2. v4' = left
      BY <1>5, <1>15, <2>2, <3>1
    <3>3. Bytes(v2', O) = left
      BY <1>5, <1>16, <3>1
    <3> QED
      BY <1>5, <3>1, <3>2, <3>3
  <2> QED
    BY <2>1, <2>2
<1>18. Budget'
  <2>1. ASSUME NEW q \in Partitions \ InMemory'
        PROVE  v2'[q] = {}
    <3>1. CASE q = p
      BY <1>13, <1>14, <2>1, <3>1
    <3>2. CASE q # p
      <4>1. q \in V \/ q \notin InMemory
        BY <1>8, <1>10, <1>13, <2>1, <3>2
      <4>2. q \notin InMemory => v2[q] = {}
        BY <1>3 DEF Budget
      <4> QED
        BY <1>14, <3>2, <4>1, <4>2
    <3> QED
      BY <3>1, <3>2
  <2>2. v6' \cap InMemory' = {}
    <3>1. v6 \cap O = {}
      BY <1>3, <1>10 DEF Budget
    <3>2. CASE fits
      BY <1>2, <1>13, <3>1, <3>2
    <3>3. CASE ~fits
      BY <1>2, <1>10, <1>13, <3>1, <3>3
    <3> QED
      BY <3>2, <3>3
  <2> QED
    BY <1>17, <2>1, <2>2 DEF Budget
<1>19. Vectors!TypeOK'
  <2>1. v5' \in [Partitions -> Nat]
    <3>1. Vectors!Max2(v5[p], needed) \in Nat /\ v5' = [v5 EXCEPT ![p] = Vectors!Max2(v5[p], needed)]
      BY <1>2, <1>3, <1>6 DEF Vectors!Max2, p
    <3> QED
      BY <1>3, <3>1
  <2>2. v6' \subseteq Partitions /\ v9' \subseteq Partitions
    BY <1>2, <1>3, <1>10, <1>11 DEF p
  <2>3. InMemory' \subseteq Partitions /\ v3' \in [InMemory' -> SUBSET InMemory']
    BY <1>3, <1>10, <1>13 DEF OrderedBy, InMemory, p
  <2>4. v8' \subseteq Tellings /\ v10' \in 0 .. MaxChanges
    BY <1>2 DEF Vectors!VectorInv, Vectors!TypeOK, Tellings
  <2> QED
    BY <1>2, <1>3, <1>14, <1>17, <2>1, <2>2, <2>3, <2>4
      DEF Vectors!TypeOK, Vectors!Hydrated, InMemory, Memories, Tellings
<1>20. Vectors!NewerAreLast'
  BY <1>2 DEF Vectors!NewerAreLast
<1>21. Vectors!MemoryFollows'
  <2>1. Vectors!MemoryFollows
    BY DEF Vectors!VectorInv
  <2>2. ASSUME NEW q \in InMemory' \ v9'
        PROVE  Vectors!Tells(q)'
    <3>1. CASE q = p
      <4>1. ~h.stale /\ fits
        BY <1>2, <1>10, <1>13, <2>2, <3>1
      <4>2. v2'[q] = v1'[q]
        BY <1>2, <1>3, <1>14, <3>1, <4>1
      <4>3. \A t \in v8' : t.partition = q => (~t.put => t.id \notin v1'[q])
        BY <1>2, <2>1 DEF Vectors!MemoryFollows
      <4> QED
        BY <4>2, <4>3 DEF Vectors!Tells
    <3>2. CASE q # p
      <4>1. q \in O \ V /\ q \in InMemory /\ q \notin v9 /\ q \in Partitions
        BY <1>2, <1>8, <1>10, <1>13, <2>2, <3>2
      <4>2. v2'[q] = v2[q]
        BY <1>14, <3>2, <4>1
      <4>3. Vectors!Tells(q)
        BY <2>1, <4>1 DEF Vectors!MemoryFollows, Vectors!Hydrated, InMemory
      <4> QED
        BY <1>2, <4>2, <4>3 DEF Vectors!Tells
    <3> QED
      BY <3>1, <3>2
  <2> QED
    BY <1>2, <2>1, <2>2 DEF Vectors!MemoryFollows, Vectors!Hydrated, InMemory
<1>22. Vectors!OneAtATime'
  BY <1>2 DEF Vectors!VectorInv, Vectors!OneAtATime
<1> QED
  BY <1>13, <1>18, <1>19, <1>20, <1>21, <1>22, InvIs DEF Vectors!VectorInv

\* Every operation keeps what the index keeps.
LEMMA VectorsStay ==
  ASSUME Vectors!VectorIndexAssumption, Vectors!VectorInv, [Vectors!Next]_(Vectors!vars)
  PROVE  Vectors!VectorInv'
<1>1. CASE Vectors!Next
  <2>1. ASSUME NEW p \in Partitions, Vectors!ReadRows(p) \/ Vectors!SetPartitionTotal(p)
                 \/ Vectors!DropPartition(p) \/ Vectors!Search(p)
        PROVE  Vectors!VectorInv'
    BY <2>1, ReadRowsKeeps, SetPartitionTotalKeeps, DropPartitionKeeps, SearchKeeps
  <2>2. ASSUME NEW p \in Partitions, NEW i \in Ids, Vectors!StoreRow(p, i)
        PROVE  Vectors!VectorInv'
    BY <2>2, StoreRowKeeps
  <2>3. CASE Vectors!Build \/ Vectors!Hydrate \/ Vectors!Upsert \/ Vectors!RemoveVector
    BY <2>3, BuildKeeps, HydrateKeeps, UpsertKeeps, RemoveVectorKeeps
  <2> QED
    BY <1>1, <2>1, <2>2, <2>3 DEF Vectors!Next
<1>2. CASE UNCHANGED Vectors!vars
  <2>1. UNCHANGED <<v1, v2, v3, v4, v5, v6, v7, v8, v9, v10>>
    BY <1>2 DEF Vectors!vars
  <2>2. Vectors!TypeOK' /\ Vectors!NewerAreLast' /\ Vectors!OneAtATime'
    BY <2>1 DEF Vectors!VectorInv, Vectors!TypeOK, Vectors!NewerAreLast, Vectors!Hydrated,
      Vectors!OneAtATime
  <2>3. Vectors!MemoryFollows'
    BY <2>1 DEF Vectors!VectorInv, Vectors!MemoryFollows, Vectors!Tells, Vectors!Hydrated
  <2> QED
    BY <2>1, <2>2, <2>3, MemoryRests DEF Vectors!VectorInv
<1> QED
  BY <1>1, <1>2

\* vector_index.rs: what is in memory is what the store holds, is counted, and is
\* within the budget but for one partition, however hydrations, changes,
\* searches and evictions interleave.
THEOREM VectorsCorrect == StoreSpec => []VectorsAreAccounted
<1> DEFINE I == part = "vectors" => Vectors!VectorInv
<1>1. Vectors!VectorIndexAssumption
  BY StorePartsAssumption
<1>2. StoreInit => I
  BY <1>1, StorePartStarts, VectorsInit
<1>3. I /\ [StoreNext]_vars => I'
  BY <1>1, StorePartMoves, VectorsStay
<1>4. I => VectorsAreAccounted
  <2> SUFFICES ASSUME Vectors!VectorInv
               PROVE  Vectors!VectorsAreAccounted
    BY DEF VectorsAreAccounted
  <2>1. Vectors!BudgetIsKept /\ Vectors!MemoryFollows
    BY DEF Vectors!VectorInv
  <2>2. Vectors!MemoryIsTheStore
    BY <2>1 DEF Vectors!MemoryIsTheStore, Vectors!MemoryFollows, Vectors!Tells
  <2> QED
    BY <2>1, <2>2 DEF Vectors!VectorsAreAccounted
<1> QED
  BY <1>2, <1>3, <1>4, PTL DEF StoreSpec

-----------------------------------------------------------------------------
(* What the variables are. The database's and the index's types are among  *)
(* what they keep; the queue's are shown here.                             *)

\* A job is where a runner runs, and the worker is there when the queue says so.
QueueTypes ==
  /\ v1 \in Seq(CompactedStores)
  /\ v3 \in SUBSET CompactedStores
  /\ v4 \in [Queue!Runners -> {"none", "sleep", "take", "run", "check"}]
  /\ v5 \in [Queue!Runners -> Seq(CompactedStores)]
  /\ \A r \in Queue!Runners : v5[r] # <<>> <=> v4[r] = "run"
  /\ v6 \in SUBSET CompactedStores
  /\ v7 \in 0 .. MaxDefers
  /\ v4["worker"] # "none" => v2 = TRUE

WorkerIsSaid == v2 \in BOOLEAN /\ v8 \in BOOLEAN

LEMMA QueueTypesAre ==
  ASSUME QueueTypes, WorkerIsSaid
  PROVE  Queue!TypeOK
BY DEF QueueTypes, WorkerIsSaid, Queue!TypeOK

LEMMA QueueTypesInit ==
  ASSUME Queue!CompactionAssumption, Queue!Init
  PROVE  QueueTypes /\ WorkerIsSaid
<1>1. WorkerIsSaid
  BY Zenon DEF Queue!Init, WorkerIsSaid
<1>2. \A r \in Queue!Runners : v5[r] = <<>> /\ v4[r] = "none"
  BY DEF Queue!Init
<1>3. v5 \in [Queue!Runners -> Seq(CompactedStores)] /\ v1 \in Seq(CompactedStores)
  BY EmptySeq DEF Queue!Init
<1>4. v4["worker"] = "none"
  BY <1>2 DEF Queue!Runners
<1> QED
  BY <1>1, <1>2, <1>3, <1>4 DEF QueueTypes, Queue!Init, Queue!CompactionAssumption

\* A runner that goes on to where it does not run, or stays.
LEMMA RunnerGoes ==
  ASSUME QueueTypes, UNCHANGED <<v3, v5, v6>>,
         v1' \in Seq(CompactedStores), v7' \in 0 .. MaxDefers,
         NEW r \in Queue!Runners, NEW to \in {"none", "sleep", "take", "check"},
         v4[r] # "run", v4' = [v4 EXCEPT ![r] = to],
         v4'["worker"] # "none" => v2' = TRUE
  PROVE  QueueTypes'
BY DEF QueueTypes

LEMMA WorkerStays ==
  ASSUME WorkerIsSaid, [Queue!Next]_(Queue!vars)
  PROVE  WorkerIsSaid'
<1>1. CASE Queue!WorkerChecks
  BY <1>1, Zenon DEF Queue!WorkerChecks, WorkerIsSaid
<1>2. CASE (v2' = v2 \/ v2' = TRUE) /\ (v8' = v8 \/ v8' = TRUE \/ v8' = FALSE)
  BY <1>2, Zenon DEF WorkerIsSaid
<1> QED
  BY <1>1, <1>2 DEF Queue!Next, Queue!Defer, Queue!Wake, Queue!Maintain, Queue!TakeJob,
    Queue!NoMoreJobs, Queue!RunJob, Queue!vars

LEMMA QueueTypesStay ==
  ASSUME Queue!CompactionAssumption, QueueTypes, [Queue!Next]_(Queue!vars)
  PROVE  QueueTypes'
<1>a. "worker" \in Queue!Runners /\ "maintenance" \in Queue!Runners
  BY DEF Queue!Runners
<1>b. /\ v1 \in Seq(CompactedStores)
      /\ v4 \in [Queue!Runners -> {"none", "sleep", "take", "run", "check"}]
      /\ v7 \in 0 .. MaxDefers /\ MaxDefers \in Nat
      /\ v4["worker"] # "none" => v2 = TRUE
  BY DEF QueueTypes, Queue!CompactionAssumption
<1>1. ASSUME NEW s \in CompactedStores, Queue!Defer(s)
      PROVE  QueueTypes'
  <2>1. v1' \in Seq(CompactedStores)
    BY <1>1, <1>b, AppendProperties DEF Queue!Defer
  <2>2. v7' \in 0 .. MaxDefers /\ UNCHANGED <<v3, v5, v6>>
    BY <1>1, <1>b DEF Queue!Defer
  <2>3. CASE v2' = v2 /\ v4' = v4
    BY <2>1, <2>2, <2>3 DEF QueueTypes
  <2>4. CASE ~v2 /\ v2' = TRUE /\ v4' = [v4 EXCEPT !["worker"] = "sleep"]
    <3>1. v4["worker"] = "none"
      BY <2>4, <1>b
    <3> QED
      BY <2>1, <2>2, <2>4, <3>1, <1>a, RunnerGoes
  <2> QED
    BY <1>1, <2>3, <2>4 DEF Queue!Defer
<1>2. CASE Queue!Wake
  BY <1>2, <1>a, <1>b, RunnerGoes DEF Queue!Wake
<1>3. CASE Queue!Maintain
  BY <1>3, <1>a, <1>b, RunnerGoes DEF Queue!Maintain
<1>4. CASE Queue!WorkerChecks
  <2>1. CASE v1 = <<>>
    BY <1>4, <2>1, <1>a, <1>b, RunnerGoes DEF Queue!WorkerChecks
  <2>2. CASE v1 # <<>>
    <3>1. v2' = TRUE
      BY <1>4, <2>2, Zenon DEF Queue!WorkerChecks
    <3> QED
      BY <1>4, <2>2, <3>1, <1>a, <1>b, RunnerGoes DEF Queue!WorkerChecks
  <2> QED
    BY <2>1, <2>2
<1>5. ASSUME NEW r \in Queue!Runners, Queue!TakeJob(r)
      PROVE  QueueTypes'
  <2>1. Head(v1) \in CompactedStores /\ Tail(v1) \in Seq(CompactedStores)
    BY <1>5, <1>b, HeadTailProperties DEF Queue!TakeJob
  <2> DEFINE h == Head(v1)
  <2>2. v5' = [v5 EXCEPT ![r] = <<h>>] /\ v3' = {h} /\ v4' = [v4 EXCEPT ![r] = "run"]
        /\ v1' \in Seq(CompactedStores) /\ UNCHANGED <<v2, v6, v7>> /\ v4[r] = "take"
    BY <1>5, <2>1 DEF Queue!TakeJob
  <2>3. h \in CompactedStores
    BY <2>1
  <2> HIDE DEF h
  <2>4. <<h>> \in Seq(CompactedStores) /\ <<h>> # <<>>
    BY <2>3
  <2>5. v4'["worker"] # "none" => v2' = TRUE
    BY <2>2, <1>b, <1>a
  <2>6. v5' \in [Queue!Runners -> Seq(CompactedStores)]
    BY <2>2, <2>4 DEF QueueTypes
  <2>7. v4' \in [Queue!Runners -> {"none", "sleep", "take", "run", "check"}]
    BY <2>2, <1>b
  <2>8. \A q \in Queue!Runners : v5'[q] # <<>> <=> v4'[q] = "run"
    BY <2>2, <2>4 DEF QueueTypes
  <2> QED
    BY <2>2, <2>3, <2>5, <2>6, <2>7, <2>8 DEF QueueTypes
<1>6. ASSUME NEW r \in Queue!Runners, Queue!NoMoreJobs(r)
      PROVE  QueueTypes'
  <2>1. v4'["worker"] # "none" => v2' = TRUE
    BY <1>6, <1>a, <1>b DEF Queue!NoMoreJobs
  <2> QED
    BY <1>6, <2>1, <1>b, RunnerGoes DEF Queue!NoMoreJobs
<1>7. ASSUME NEW r \in Queue!Runners, Queue!RunJob(r)
      PROVE  QueueTypes'
  <2>1. v4'["worker"] # "none" => v2' = TRUE
    BY <1>7, <1>a, <1>b DEF Queue!RunJob
  <2>2. v6' \in SUBSET CompactedStores /\ v3' \in SUBSET CompactedStores
    BY <1>7 DEF Queue!RunJob, QueueTypes
  <2>3. /\ v5' = [v5 EXCEPT ![r] = <<>>] /\ v4' = [v4 EXCEPT ![r] = "take"]
        /\ UNCHANGED <<v1, v7>>
    BY <1>7 DEF Queue!RunJob
  <2>4. /\ v5' \in [Queue!Runners -> Seq(CompactedStores)]
        /\ \A q \in Queue!Runners : v5'[q] # <<>> <=> v4'[q] = "run"
    BY <2>3, EmptySeq DEF QueueTypes
  <2> QED
    BY <2>1, <2>2, <2>3, <2>4 DEF QueueTypes
<1>8. CASE UNCHANGED Queue!vars
  BY <1>8 DEF Queue!vars, QueueTypes
<1> QED
  BY <1>1, <1>2, <1>3, <1>4, <1>5, <1>6, <1>7, <1>8 DEF Queue!Next

\* What the variables of a database, of its queue and of an index of vectors are,
\* for any rows, jobs and vectors: no job is where no runner runs, and a worker
\* that is there is one the queue knows of.
THEOREM StoreTypesCorrect ==
  StoreSpec => [](/\ part = "content" => Store!TypeOK
                  /\ part = "compaction" => Queue!TypeOK
                  /\ part = "vectors" => Vectors!TypeOK)
<1> DEFINE Q == part = "compaction" => QueueTypes /\ WorkerIsSaid
           V == part = "vectors" => Vectors!VectorInv
           C == part = "content" => Store!StoreInv
<1>a. Queue!CompactionAssumption /\ Vectors!VectorIndexAssumption
  BY StorePartsAssumption
<1>1. StoreInit => Q /\ V
  BY <1>a, StorePartStarts, QueueTypesInit, VectorsInit
<1>2. Q /\ [StoreNext]_vars => Q'
  BY <1>a, StorePartMoves, QueueTypesStay, WorkerStays
<1>3. V /\ [StoreNext]_vars => V'
  BY <1>a, StorePartMoves, VectorsStay
<1>4. Q => (part = "compaction" => Queue!TypeOK)
  BY QueueTypesAre
<1>5. V => (part = "vectors" => Vectors!TypeOK)
  BY DEF Vectors!VectorInv
<1>6. C => (part = "content" => Store!TypeOK)
  BY DEF Store!StoreInv
<1> HIDE DEF Q, V
<1>7. StoreSpec => []C
  BY StoreHolds
<1> HIDE DEF C
<1> QED
  BY <1>1, <1>2, <1>3, <1>4, <1>5, <1>6, <1>7, PTL DEF StoreSpec

=============================================================================
