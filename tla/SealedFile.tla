------------------------------ MODULE SealedFile ------------------------------
(***************************************************************************)
(* Write-once sealed files, RYU-SF01 (crypto/sealed_file.rs), and how a    *)
(* plaintext file is replaced by its sealed form: a copy is sealed beside  *)
(* it, verified, and renamed over it. Nothing keeps two from sealing the   *)
(* same file at once: one that finds the file sealed already when it opens *)
(* it, after its check, seals the sealed file.                             *)
(*                                                                         *)
(* A plaintext is the numbers 0, 1, 2, ...; a sealed file a sequence of    *)
(* units, each with the chunk it belongs to, so that a slice opens only if *)
(* it is one whole chunk, read at its index and as last or not.            *)
(***************************************************************************)
EXTENDS Integers, Sequences, FiniteSets

CONSTANTS
  CHUNK,       \* plaintext units of a chunk
  TAG_LEN,
  MaxLen,      \* bound: units of the plaintext
  Sealers,     \* who may seal the file in place, each once
  MaxCrashes   \* bound

None == "none"

SealedFileAssumption ==
  /\ CHUNK \in Nat \ {0} /\ TAG_LEN \in Nat \ {0} /\ MaxLen \in Nat /\ MaxCrashes \in Nat
  /\ Sealers \cap {"original", None} = {}

Inodes == {"original"} \cup Sealers

VARIABLES
  len,       \* units of the plaintext
  path,      \* the inode of the file
  temp,      \* the inode of <name>.sealing, or none
  file,      \* the units in each sealer's copy, after the header
  index,     \* SealedFileWriter.next_index
  buffered,  \* units in its buffer
  read,      \* units it has read of its source
  at,        \* where it stands
  overtaken, \* a sealer published a file that was not its own
  crashes,
  source     \* the inode each sealer reads

vars == <<len, path, temp, file, index, buffered, read, at, overtaken, crashes, source>>

-----------------------------------------------------------------------------
\* One chunk under its nonce: n units of plaintext and the tag.
ChunkUnits(i, n, last) ==
  [u \in 1 .. n + TAG_LEN |-> [chunk |-> i, last |-> last, of |-> n, unit |-> u - 1]]

\* decrypt: the slice is one chunk's ciphertext under its own nonce.
OpensAs(slice, i, last) ==
  slice = ChunkUnits(i, Len(slice) - TAG_LEN, last)

SealedChunk == CHUNK + TAG_LEN
Layout(units) ==
  LET full == Len(units) \div SealedChunk
      rem == Len(units) % SealedChunk
  IN [count |-> IF rem = 0 THEN full ELSE full + 1,
      plain |-> full * CHUNK + (IF rem = 0 THEN 0 ELSE rem - TAG_LEN),
      fits  |-> Len(units) >= TAG_LEN /\ (rem = 0 \/ rem >= TAG_LEN)]

\* load_chunk.
LeastOf(a, b) == IF a < b THEN a ELSE b
Chunk(units, i) ==
  SubSeq(units, i * SealedChunk + 1, LeastOf((i + 1) * SealedChunk, Len(units)))
Loads(units, i) ==
  i < Layout(units).count /\ OpensAs(Chunk(units, i), i, i + 1 = Layout(units).count)

\* SealedFileReader::open verifies the last chunk, and with it the length.
OpensFile(units) ==
  /\ Layout(units).fits /\ Layout(units).count > 0
  /\ Loads(units, Layout(units).count - 1)

\* read_range, clamped to the end; the chunks it covers must open.
Failed == <<-1>>
ReadRange(units, start, n) ==
  LET end == LeastOf(start + n, Layout(units).plain) IN
  IF start >= end THEN <<>>
  ELSE IF \E p \in start .. end - 1 : ~Loads(units, p \div CHUNK) THEN Failed
  ELSE [j \in 1 .. end - start |->
          LET p == start + j - 1
              u == Chunk(units, p \div CHUNK)[(p % CHUNK) + 1]
          IN u.chunk * CHUNK + u.unit]

Plaintext(n) == [j \in 1 .. n |-> j - 1]

\* What a sealer finds to read in an inode: of a sealed file, its units.
Size(inode) == IF inode = "original" THEN len ELSE Len(file[inode])

-----------------------------------------------------------------------------
Init ==
  /\ len \in 0 .. MaxLen
  /\ path = "original" /\ temp = None
  /\ file = [s \in Sealers |-> <<>>]
  /\ index = [s \in Sealers |-> 0]
  /\ buffered = [s \in Sealers |-> 0]
  /\ read = [s \in Sealers |-> 0]
  /\ at = [s \in Sealers |-> "idle"]
  /\ overtaken = FALSE
  /\ crashes = 0
  /\ source = [s \in Sealers |-> "original"]

Go(s, place) == at' = [at EXCEPT ![s] = place]

\* seal_file_in_place: nothing to do for a sealed file.
CheckPlain(s) ==
  /\ at[s] = "idle"
  /\ path = "original"
  /\ Go(s, "remove")
  /\ UNCHANGED <<len, path, temp, file, index, buffered, read, overtaken, crashes, source>>

RemoveStale(s) ==
  /\ at[s] = "remove"
  /\ temp' = None
  /\ Go(s, "open")
  /\ UNCHANGED <<len, path, file, index, buffered, read, overtaken, crashes, source>>

\* The file is opened by its name, whatever is there by now.
OpenSource(s) ==
  /\ at[s] = "open"
  /\ source' = [source EXCEPT ![s] = path]
  /\ Go(s, "create")
  /\ UNCHANGED <<len, path, temp, file, index, buffered, read, overtaken, crashes>>

CreateCopy(s) ==
  /\ at[s] = "create"
  /\ \/ temp = None /\ temp' = s /\ Go(s, "copy")
     \/ temp # None /\ temp' = None /\ Go(s, "over")    \* it exists: fail, clean up
  /\ UNCHANGED <<len, path, file, index, buffered, read, overtaken, crashes, source>>

SealChunk(s, last) ==
  /\ file' = [file EXCEPT ![s] = @ \o ChunkUnits(index[s], buffered[s], last)]
  /\ index' = [index EXCEPT ![s] = @ + 1]

\* write_plain, unit by unit: a full buffer is sealed when more data comes, so
\* that the last chunk is known to be the last.
WritePlain(s) ==
  /\ at[s] = "copy" /\ read[s] < Size(source[s])
  /\ IF buffered[s] = CHUNK
     THEN SealChunk(s, FALSE) /\ buffered' = [buffered EXCEPT ![s] = 1]
     ELSE UNCHANGED <<file, index>> /\ buffered' = [buffered EXCEPT ![s] = @ + 1]
  /\ read' = [read EXCEPT ![s] = @ + 1]
  /\ UNCHANGED <<len, path, temp, at, overtaken, crashes, source>>

\* At the end of the source finish: the last chunk ...
Finish(s) ==
  /\ at[s] = "copy" /\ read[s] >= Size(source[s])
  /\ SealChunk(s, TRUE)
  /\ buffered' = [buffered EXCEPT ![s] = 0]
  /\ Go(s, "sync")
  /\ UNCHANGED <<len, path, temp, read, overtaken, crashes, source>>

\* ... then the sync.
SyncCopy(s) ==
  /\ at[s] = "sync"
  /\ Go(s, "verify")
  /\ UNCHANGED <<len, path, temp, file, index, buffered, read, overtaken, crashes, source>>

\* An error on the way: the copy goes, whoever's it is.
Fail(s) ==
  /\ at[s] \in {"open", "create", "copy", "sync", "verify"}
  /\ temp' = None
  /\ Go(s, "over")
  /\ UNCHANGED <<len, path, file, index, buffered, read, overtaken, crashes, source>>

\* A copy decrypts to as much as its writer read.
ReadsBack(s) ==
  /\ OpensFile(file[s])
  /\ ReadRange(file[s], 0, Layout(file[s]).plain) = Plaintext(read[s])

\* The copy is opened by its name, and must have the digest of what was read:
\* no two inodes have the same.
Verify(s) ==
  /\ at[s] = "verify"
  /\ temp # None /\ source[temp] = source[s] /\ read[temp] = read[s] /\ ReadsBack(temp)
  /\ Go(s, "rename")
  /\ UNCHANGED <<len, path, temp, file, index, buffered, read, overtaken, crashes, source>>

\* Mutant: the copy is renamed without being verified.
RenameUnverified(s) ==
  /\ at[s] \in {"copy", "sync", "verify"}
  /\ temp # None
  /\ path' = temp /\ temp' = None
  /\ overtaken' = (overtaken \/ temp # s)
  /\ Go(s, "sealed")
  /\ UNCHANGED <<len, file, index, buffered, read, crashes, source>>

Rename(s) ==
  /\ at[s] = "rename"
  /\ IF temp = None THEN Go(s, "over") /\ UNCHANGED <<path, overtaken>>
     ELSE Go(s, "sealed") /\ path' = temp /\ overtaken' = (overtaken \/ temp # s)
  /\ temp' = None
  /\ UNCHANGED <<len, file, index, buffered, read, crashes, source>>

\* The sealer crashes: of a copy it has not synced any end may be lost.
Crash(s) ==
  /\ at[s] \notin {"idle", "sealed", "over"}
  /\ crashes < MaxCrashes
  /\ crashes' = crashes + 1
  /\ IF at[s] \in {"copy", "sync"}
     THEN \E n \in 0 .. Len(file[s]) : file' = [file EXCEPT ![s] = SubSeq(@, 1, n)]
     ELSE UNCHANGED file
  /\ Go(s, "over")
  /\ UNCHANGED <<len, path, temp, index, buffered, read, overtaken, source>>

Next ==
  \E s \in Sealers :
    \/ CheckPlain(s) \/ RemoveStale(s) \/ OpenSource(s) \/ CreateCopy(s) \/ WritePlain(s)
    \/ Finish(s) \/ SyncCopy(s) \/ Fail(s) \/ Verify(s) \/ Rename(s) \/ Crash(s)

Spec == Init /\ [][Next]_vars

-----------------------------------------------------------------------------
TypeOK ==
  /\ len \in 0 .. MaxLen
  /\ path \in Inodes /\ temp \in Sealers \cup {None}
  /\ file \in [Sealers -> Seq([chunk : Nat, last : BOOLEAN, of : 0 .. CHUNK, unit : Nat])]
  /\ index \in [Sealers -> Nat]
  /\ buffered \in [Sealers -> 0 .. CHUNK] /\ read \in [Sealers -> Nat]
  /\ at \in [Sealers -> {"idle", "remove", "open", "create", "copy", "sync", "verify",
                         "rename", "sealed", "over"}]
  /\ overtaken \in BOOLEAN /\ crashes \in 0 .. MaxCrashes
  /\ source \in [Sealers -> Inodes]

\* What the file may have been: the plaintext, and what was put in its place.
Placed == {"original"} \cup {s \in Sealers : at[s] = "sealed"}

\* The file is the plaintext or a sealed form of it, whole, at every moment and
\* after every crash: what was put in place reads back to all of what it was
\* made from, which was the file too; so it may be sealed twice, but nothing of
\* it is lost. Unless one sealer published the copy of another.
FileIsWhole ==
  \/ overtaken
  \/ /\ path \in Placed
     /\ \A s \in Placed \ {"original"} :
          ReadsBack(s) /\ read[s] = Size(source[s]) /\ source[s] \in Placed

\* A reader opens no file that lost its end, and no file that is still being
\* written; of one it opens it reads every range.
ReaderIsExact ==
  \A s \in Sealers :
    OpensFile(file[s]) =>
      /\ Layout(file[s]).plain = read[s]
      /\ \A start \in 0 .. read[s], n \in 0 .. read[s] + 1 :
           ReadRange(file[s], start, n)
             = SubSeq(Plaintext(read[s]), start + 1, LeastOf(start + n, read[s]))

-----------------------------------------------------------------------------
(* What the proofs need besides.                                           *)

\* The sealed form of n units: full chunks, and what is left as the last one,
\* which is empty only if there is nothing else.
FullChunks(n) == IF n = 0 THEN 0 ELSE (n - 1) \div CHUNK
LastLen(n) == n - FullChunks(n) * CHUNK
Image(n) ==
  [p \in 1 .. FullChunks(n) * SealedChunk + LastLen(n) + TAG_LEN |->
     LET last == p > FullChunks(n) * SealedChunk
         i == IF last THEN FullChunks(n) ELSE (p - 1) \div SealedChunk
     IN [chunk |-> i, last |-> last, of |-> IF last THEN LastLen(n) ELSE CHUNK,
         unit |-> p - 1 - i * SealedChunk]]

\* A copy is the beginning of the sealed form of what was read, and what its
\* writer holds says how much of it.
CopiesGrow ==
  \A s \in Sealers :
    /\ Len(file[s]) <= Len(Image(read[s]))
    /\ file[s] = SubSeq(Image(read[s]), 1, Len(file[s]))
    /\ at[s] = "copy" =>
         /\ read[s] = index[s] * CHUNK + buffered[s]
         /\ Len(file[s]) = index[s] * SealedChunk
         /\ buffered[s] = 0 => read[s] = 0
    /\ at[s] \in {"idle", "remove", "open", "create"} =>
         file[s] = <<>> /\ index[s] = 0 /\ buffered[s] = 0 /\ read[s] = 0

\* What a sealer may rename it has verified, if it is its own, and it has read
\* all of a file that was put in place.
Published ==
  /\ \A s \in Sealers :
       /\ at[s] \in {"open", "create"} => temp # s
       /\ temp = s /\ at[s] = "rename" => ReadsBack(s)
  /\ \/ overtaken
     \/ /\ path \in Placed
        /\ \A s \in Sealers :
             /\ source[s] \in Placed
             /\ at[s] = "copy" => read[s] <= Size(source[s])
             /\ at[s] \in {"sync", "verify", "rename", "sealed"} => read[s] = Size(source[s])
             /\ at[s] = "sealed" => ReadsBack(s)

FileInv == TypeOK /\ CopiesGrow /\ Published

=============================================================================
