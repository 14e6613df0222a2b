------------------------------- MODULE SealedLog -------------------------------
(***************************************************************************)
(* An append-only sealed log, RYU-SL01 (crypto/sealed_log.rs): one writer, *)
(* crashes that lose or tear what was not synced, appends that fail half   *)
(* way, and a key that may be replaced between two openings.               *)
(*                                                                         *)
(* The file is a header and a sequence of pieces. A record opens under the *)
(* key and at the index it was sealed for. What is left of a torn write is *)
(* "short", or "blank" (a whole frame that does not open), or "zeros".     *)
(***************************************************************************)
EXTENDS Naturals, Sequences, SequencesExt, FiniteSetsExt

CONSTANTS
  MaxRecords,   \* bound: appends
  MaxKey,       \* bound: the last key
  MaxCrashes    \* bound: crashes

SealedLogAssumption ==
  MaxRecords \in Nat /\ MaxKey \in Nat \ {0} /\ MaxCrashes \in Nat

Torn == {"short", "blank", "zeros"}

VARIABLES
  header,    \* "none", "torn", or "whole"
  body,      \* the pieces
  synced,    \* how many of them are known to be on disk
  writer,    \* "closed", "creating", "open", or "failed": an append failed
  next,      \* the writer's next index
  appends,   \* how many appends returned
  durable,   \* the records that were synced
  carried,   \* what a compaction made of the log: a sequence of one, or none
  careless,  \* the writer appended after an append that failed
  key, crashes

vars == <<header, body, synced, writer, next, appends, durable, carried, careless, key, crashes>>

Rec(k, index, r) == [key |-> k, index |-> index, record |-> r]
IsRec(piece) == piece \notin {[torn |-> t] : t \in Torn}

Init ==
  /\ header = "none" /\ body = <<>> /\ synced = 0
  /\ writer = "closed" /\ next = 0
  /\ appends = 0 /\ durable = <<>> /\ carried = <<>>
  /\ careless = FALSE
  /\ key = 1 /\ crashes = 0

-----------------------------------------------------------------------------
\* scan_with: the records that open in a row, and how it ends there. A short
\* piece with data behind it is read as one frame with some of that data.

Opens(k, i) == IsRec(body[i]) /\ body[i].key = k /\ body[i].index = i - 1

Committed(k) ==
  Max({n \in 0 .. Len(body) : \A i \in 1 .. n : Opens(k, i)})

Tails(k) ==
  LET rest == SubSeq(body, Committed(k) + 1, Len(body))
      final == Len(rest) = 1
  IN CASE rest = <<>> -> {"Clean"}
       [] rest # <<>> /\ rest[1] = [torn |-> "short"] ->
            IF final THEN {"Short"} ELSE {"Short", "FinalFailed", "Corrupt"}
       [] rest # <<>> /\ rest[1] = [torn |-> "zeros"] -> {IF final THEN "Short" ELSE "Corrupt"}
       [] OTHER -> {IF final THEN "FinalFailed" ELSE "Corrupt"}

\* It is not the key's log if its first whole record does not open.
Scans(k) ==
  {[records |-> Committed(k), tail |-> t] :
     t \in Tails(k) \ (IF Committed(k) = 0 THEN {"Corrupt", "FinalFailed"} ELSE {"Corrupt"})}

\* open_log: the current key, then the retired ones.
Opened ==
  IF header # "whole" THEN {}
  ELSE LET Under(k) == {[scan |-> s, retired |-> k # key] : s \in Scans(k)}
       IN IF Scans(key) # {} THEN Under(key) ELSE UNION {Under(k) : k \in 1 .. key - 1}

Records(n) == [i \in 1 .. n |-> body[i].record]

-----------------------------------------------------------------------------
\* create: the file, the header, a sync.
Create ==
  /\ writer = "closed" /\ header = "none"
  /\ header' = "torn" /\ writer' = "creating"
  /\ UNCHANGED <<body, synced, next, appends, durable, carried, careless, key, crashes>>

WriteHeader ==
  /\ writer = "creating"
  /\ header' = "whole" /\ writer' = "open" /\ next' = 0
  /\ UNCHANGED <<body, synced, appends, durable, carried, careless, key, crashes>>

\* open_append: a torn tail is cut off, and the cut synced. A log that opens
\* under a retired key only is refused.
OpenAppend ==
  /\ writer = "closed"
  /\ \E o \in Opened :
       /\ ~o.retired
       /\ next' = o.scan.records
       /\ body' = SubSeq(body, 1, o.scan.records)
       /\ synced' = IF o.scan.tail = "Clean" THEN synced ELSE Len(body')
  /\ writer' = "open"
  /\ UNCHANGED <<header, appends, durable, carried, careless, key, crashes>>

AppendRecord ==
  /\ writer \in {"open", "failed"}
  /\ appends < MaxRecords
  /\ appends' = appends + 1
  /\ body' = Append(body, Rec(key, next, appends'))
  /\ next' = next + 1
  /\ careless' = (careless \/ writer = "failed")
  /\ UNCHANGED <<header, synced, writer, durable, carried, key, crashes>>

\* write_all fails with part of the frame written; the index stays.
AppendFails ==
  /\ writer = "open"
  /\ body' = Append(body, [torn |-> "short"])
  /\ writer' = "failed"
  /\ UNCHANGED <<header, synced, next, appends, durable, carried, careless, key, crashes>>

\* Mutant: the records are handed to the system, not to the disk.
SyncFlushed ==
  /\ writer = "open"
  /\ durable' = IF careless THEN durable ELSE Records(Len(body))
  /\ UNCHANGED <<header, body, synced, writer, next, appends, carried, careless, key, crashes>>

\* An open writer that was not careless has whole records behind it only.
Sync ==
  /\ writer = "open"
  /\ synced' = Len(body)
  /\ durable' = IF careless THEN durable ELSE Records(Len(body))
  /\ UNCHANGED <<header, body, writer, next, appends, carried, careless, key, crashes>>

Close ==
  /\ writer \in {"open", "failed"}
  /\ writer' = "closed"
  /\ UNCHANGED <<header, body, synced, next, appends, durable, carried, careless, key, crashes>>

\* What was not synced is lost or torn.
Crash ==
  /\ crashes < MaxCrashes
  /\ crashes' = crashes + 1
  /\ writer' = "closed"
  /\ \E n \in synced .. Len(body), t \in {<<>>} \cup {<<[torn |-> x]>> : x \in Torn} :
       /\ n = Len(body) => t = <<>>
       /\ body' = SubSeq(body, 1, n) \o t
  /\ synced' = Len(body')
  /\ UNCHANGED <<header, next, appends, durable, carried, careless, key>>

ReplaceKey ==
  /\ writer = "closed" /\ key < MaxKey
  /\ key' = key + 1
  /\ UNCHANGED <<header, body, synced, writer, next, appends, durable, carried, careless, crashes>>

\* compact_to_sealed_file: a strict read, into a file that is renamed whole.
Compact ==
  /\ writer = "closed" /\ carried = <<>>
  /\ \E o \in Opened :
       /\ o.scan.tail = "Clean"
       /\ carried' = <<[records |-> Records(o.scan.records), durable |-> durable]>>
  /\ UNCHANGED <<header, body, synced, writer, next, appends, durable, careless, key, crashes>>

Next ==
  \/ Create \/ WriteHeader \/ OpenAppend \/ AppendRecord \/ AppendFails \/ Sync \/ Close
  \/ Crash \/ ReplaceKey \/ Compact

Spec == Init /\ [][Next]_vars

-----------------------------------------------------------------------------
TypeOK ==
  /\ header \in {"none", "torn", "whole"}
  /\ \A i \in 1 .. Len(body) : IsRec(body[i]) => body[i].index \in 0 .. MaxRecords
  /\ synced <= Len(body)
  /\ writer \in {"closed", "creating", "open", "failed"}
  /\ appends \in 0 .. MaxRecords /\ key \in 1 .. MaxKey

Holds(records, others) ==
  /\ IsPrefix(others, records)
  /\ \A i, j \in 1 .. Len(records) : i < j => records[i] < records[j]

\* Whatever a crash lost or tore, opening the log gives every record that was
\* synced, in the order they were appended, and so does what a compaction made
\* of it: unless the writer went on after an append that had failed.
SyncedRecordsAreKept ==
  ~careless =>
    /\ durable # <<>> => Opened # {}
    /\ \A o \in Opened : Holds(Records(o.scan.records), durable)
    /\ \A i \in 1 .. Len(carried) : Holds(carried[i].records, carried[i].durable)

-----------------------------------------------------------------------------
(* What SyncedRecordsAreKept rests on, an inductive invariant of a writer  *)
(* that was never careless.                                                *)

\* How many records come before a torn end.
Whole == IF body # <<>> /\ ~IsRec(body[Len(body)]) THEN Len(body) - 1 ELSE Len(body)

\* They were sealed under one key, in the order of the appends.
WholeAreRecords ==
  /\ \A i \in 1 .. Whole :
       /\ IsRec(body[i])
       /\ body[i].key = body[1].key /\ body[i].key \in 1 .. key
       /\ body[i].index = i - 1
       /\ body[i].record \in 1 .. appends
  /\ \A i, j \in 1 .. Whole : i < j => body[i].record < body[j].record

\* An open writer goes on right behind them, under their key.
WriterIsAtTheEnd ==
  /\ writer = "open" =>
       /\ next = Len(body) /\ Whole = Len(body)
       /\ body # <<>> => body[1].key = key
  /\ writer = "creating" => header = "torn"
  /\ header # "whole" =>
       /\ body = <<>> /\ durable = <<>> /\ carried = <<>>
       /\ writer \in {"closed", "creating"}

\* What was synced is among them, and out of a crash's reach.
DurableIsWhole ==
  /\ Len(durable) <= synced /\ Len(durable) <= Whole
  /\ \A i \in 1 .. Len(durable) : durable[i] = body[i].record

LogInv ==
  ~careless =>
    /\ header \in {"none", "torn", "whole"}
    /\ body \in Seq([key : Nat, index : Nat, record : Nat] \cup [torn : Torn])
    /\ synced \in 0 .. Len(body)
    /\ writer \in {"closed", "creating", "open", "failed"}
    /\ next \in Nat /\ appends \in Nat /\ key \in Nat \ {0}
    /\ durable \in Seq(Nat)
    /\ carried \in Seq([records : Seq(Nat), durable : Seq(Nat)])
    /\ WholeAreRecords /\ WriterIsAtTheEnd /\ DurableIsWhole
    /\ \A i \in 1 .. Len(carried) : Holds(carried[i].records, carried[i].durable)

=============================================================================
