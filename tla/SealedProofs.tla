---------------------------- MODULE SealedProofs ----------------------------
(***************************************************************************)
(* Proofs about the two parts of StoreParts that are sealed in a file of   *)
(* their own: a file sealed in place, for every size of chunk and tag,     *)
(* every length and any number of sealers and crashes, and the log, for    *)
(* any number of records, keys and crashes.                                *)
(*                                                                         *)
(* A copy is the beginning of the one sealed form its plaintext has, Image *)
(* (SealedFile), and nothing but the whole of it opens: what opens holds   *)
(* the last chunk, at its index and of its length, and so ends where Image *)
(* does.  Here v1 to v10 are len, path, temp, file, index, buffered, read, *)
(* at, overtaken and crashes, v11 is source.                               *)
(***************************************************************************)
EXTENDS StoreParts, LeastNumbers, SequenceTheorems, TLAPS

-----------------------------------------------------------------------------
(* A behavior of the file or of the log starts and goes on as one.         *)

\* At first.
LEMMA SealedPartStarts ==
  ASSUME StoreInit
  PROVE  (part = "file" => Sealed!Init) /\ (part = "log" => Log!Init)
BY DEF StoreInit

\* And from then on.
LEMMA SealedPartMoves ==
  ASSUME [StoreNext]_vars
  PROVE  /\ part' = part
         /\ part = "file" => [Sealed!Next]_(Sealed!vars)
         /\ part = "log" => [Log!Next]_(Log!vars)
<1>1. CASE StoreNext
  BY <1>1 DEF StoreNext, ContentStoreStep, CompactionStep, SealedLogStep,
    SealedFileStep, VectorIndexStep
<1>2. CASE UNCHANGED vars
  BY <1>2 DEF vars, Rest5, Rest6, Rest7, Rest8, Rest9, Rest10, Rest11, Rest15, Sealed!vars,
    Log!vars
<1> QED
  BY <1>1, <1>2

-----------------------------------------------------------------------------
(* Chunks, lengths and the sealed form.                                    *)

\* Division is what multiplication says.
LEMMA Division ==
  ASSUME NEW c \in Nat \ {0}, NEW n \in Nat
  PROVE  /\ n \div c \in Nat /\ n % c \in 0 .. c - 1
         /\ n = (n \div c) * c + (n % c)
<1>1. n \div c \in Nat /\ n % c \in 0 .. c - 1
  OBVIOUS
<1>2. n % c = n - (n \div c) * c
  OBVIOUS
<1>3. (n \div c) * c \in Int
  BY <1>1
<1> DEFINE m == n % c
           k == (n \div c) * c
<1>4. m \in Int /\ m = n - k /\ k \in Int
  BY <1>1, <1>2, <1>3
<1> HIDE DEF m, k
<1>5. n = k + m
  BY <1>4
<1> QED
  BY <1>1, <1>5, Zenon DEF m, k

\* A product grows with its factor.
LEMMA Multiples ==
  ASSUME NEW c \in Nat \ {0}, NEW a \in Nat, NEW b \in Nat, a < b
  PROVE  /\ a * c \in Nat /\ b * c \in Nat
         /\ a * c + c <= b * c
<1>1. PICK d \in Nat : b = a + 1 + d
  <2>1. b - a - 1 \in Nat /\ b = a + 1 + (b - a - 1)
    OBVIOUS
  <2> QED
    BY <2>1
<1>2. b * c = a * c + c + d * c
  BY <1>1
<1>3. d * c \in Nat /\ a * c \in Nat /\ b * c \in Nat
  OBVIOUS
<1> QED
  BY <1>2, <1>3

\* And multiplication what division says.
LEMMA Quotient ==
  ASSUME NEW c \in Nat \ {0}, NEW q \in Nat, NEW r \in 0 .. c - 1, NEW n \in Nat,
         n = q * c + r
  PROVE  n \div c = q /\ n % c = r
<1>1. n \div c = q
  OBVIOUS
<1>2. n % c = r
  OBVIOUS
<1> QED
  BY <1>1, <1>2

FileUnit == [chunk : Nat, last : BOOLEAN, of : 0 .. CHUNK, unit : Nat]
FileSizes == /\ CHUNK \in Nat \ {0} /\ TAG_LEN \in Nat \ {0}
             /\ Sealed!SealedChunk \in Nat \ {0} /\ Sealed!SealedChunk = CHUNK + TAG_LEN

\* The length of a sealed form.
LEMMA LastChunk ==
  ASSUME FileSizes, NEW n \in Nat
  PROVE  /\ Sealed!FullChunks(n) \in Nat
         /\ Sealed!LastLen(n) \in 0 .. CHUNK
         /\ n = Sealed!FullChunks(n) * CHUNK + Sealed!LastLen(n)
         /\ Sealed!FullChunks(n) * CHUNK \in Nat
<1> DEFINE f == Sealed!FullChunks(n)
<1>1. CASE n = 0
  <2>1. f = 0
    BY <1>1 DEF Sealed!FullChunks
  <2>2. f * CHUNK = 0
    BY <2>1 DEF FileSizes
  <2> QED
    BY <1>1, <2>1, <2>2 DEF Sealed!LastLen, FileSizes
<1>2. CASE n # 0
  <2>1. f = (n - 1) \div CHUNK
    BY <1>2 DEF Sealed!FullChunks
  <2>2. n - 1 \in Nat
    BY <1>2
  <2> DEFINE k == n - 1
             m == k % CHUNK
  <2> HIDE DEF k
  <2>3. f \in Nat /\ m \in 0 .. CHUNK - 1 /\ k = f * CHUNK + m /\ k = n - 1
    <3>1. CHUNK \in Nat \ {0} /\ k \in Nat
      BY <2>2 DEF FileSizes, k
    <3>2. k \div CHUNK \in Nat /\ m \in 0 .. CHUNK - 1 /\ k = (k \div CHUNK) * CHUNK + m
      BY <3>1, Division, Zenon
    <3> QED
      BY <2>1, <3>2, Zenon DEF k
  <2> HIDE DEF m, f
  <2>4. f * CHUNK \in Nat
    BY <2>3 DEF FileSizes
  <2>5. n - f * CHUNK = m + 1 /\ m + 1 \in 0 .. CHUNK
    BY <2>3, <2>4 DEF FileSizes
  <2> QED
    BY <2>3, <2>4, <2>5 DEF Sealed!LastLen, f
<1> QED
  BY <1>1, <1>2

\* It is the only way to cut n units in full chunks and a rest.
LEMMA OneCut ==
  ASSUME FileSizes, NEW n \in Nat, NEW i \in Nat, NEW b \in 0 .. CHUNK,
         n = i * CHUNK + b, b = 0 => n = 0
  PROVE  Sealed!FullChunks(n) = i /\ Sealed!LastLen(n) = b
<1>1. i * CHUNK \in Nat
  BY DEF FileSizes
<1>2. Sealed!FullChunks(n) = i
  <2>1. CASE n = 0
    <3>1. i * CHUNK = 0
      BY <1>1, <2>1
    <3>2. ~(0 < i)
      <4>1. ASSUME 0 < i
            PROVE  FALSE
        <5>1. 0 * CHUNK + CHUNK <= i * CHUNK
          BY <4>1, Multiples DEF FileSizes
        <5> QED
          BY <5>1, <3>1 DEF FileSizes
      <4> QED
        BY <4>1
    <3> QED
      BY <2>1, <3>2 DEF Sealed!FullChunks
  <2>2. CASE n # 0
    <3>1. b - 1 \in 0 .. CHUNK - 1 /\ n - 1 \in Nat /\ n - 1 = i * CHUNK + (b - 1)
      BY <2>2, <1>1 DEF FileSizes
    <3> DEFINE r == b - 1
               k == n - 1
    <3>2. r \in 0 .. CHUNK - 1 /\ k \in Nat /\ k = i * CHUNK + r
      BY <3>1
    <3> HIDE DEF r, k
    <3>3. k \div CHUNK = i
      BY <3>2, Quotient DEF FileSizes
    <3> QED
      BY <2>2, <3>3 DEF Sealed!FullChunks, k
  <2> QED
    BY <2>1, <2>2
<1> QED
  BY <1>1, <1>2 DEF Sealed!LastLen

\* The units of s after the first a are those of chunk i, n units and its tag.
SliceAt(s, a, i, n, l) ==
  \A u \in 1 .. n + TAG_LEN :
    s[a + u] = [chunk |-> i, last |-> l, of |-> n, unit |-> u - 1]

\* What the units of a sealed form are: f full chunks of c and a last one of b.
ImageShape(img, f, b, c) ==
  /\ img \in Seq(FileUnit) /\ Len(img) = f * c + b + TAG_LEN
  /\ f \in Nat /\ b \in 0 .. CHUNK /\ f * c \in Nat
  /\ \A i \in Nat : i * c \in Nat
  /\ \A i \in 0 .. f - 1 : i * c + c <= f * c /\ SliceAt(img, i * c, i, CHUNK, FALSE)
  /\ SliceAt(img, f * c, f, b, TRUE)

\* The sealed form has that shape.
LEMMA ImageIs ==
  ASSUME FileSizes, NEW n \in Nat
  PROVE  ImageShape(Sealed!Image(n), Sealed!FullChunks(n), Sealed!LastLen(n), Sealed!SealedChunk)
<1> DEFINE f == Sealed!FullChunks(n)
           b == Sealed!LastLen(n)
           c == Sealed!SealedChunk
           k == f * c
           img == Sealed!Image(n)
           L == k + b + TAG_LEN
           Last(p) == p > k
           I(p) == IF Last(p) THEN f ELSE (p - 1) \div c
           U(p) == [chunk |-> I(p), last |-> Last(p), of |-> IF Last(p) THEN b ELSE CHUNK,
                    unit |-> p - 1 - I(p) * c]
<1>1. f \in Nat /\ b \in 0 .. CHUNK
  BY LastChunk
<1>2. k \in Nat /\ \A i \in Nat : i * c \in Nat
  BY <1>1 DEF FileSizes
<1>3. L \in Nat /\ c \in Nat \ {0} /\ c = CHUNK + TAG_LEN
  BY <1>1, <1>2 DEF FileSizes
<1>4. img = [p \in 1 .. L |-> U(p)]
  BY Zenon DEF Sealed!Image
<1>5. ASSUME NEW p \in 1 .. L, p <= k
      PROVE  /\ ~Last(p) /\ I(p) = (p - 1) \div c /\ I(p) \in Nat
             /\ p - 1 - I(p) * c = (p - 1) % c /\ p - 1 - I(p) * c \in Nat
  <2>1. ~Last(p)
    BY <1>2, <1>3, <1>5
  <2>2. I(p) = (p - 1) \div c
    BY <2>1
  <2> DEFINE m == p - 1
             e == m \div c
             r == m % c
  <2>3. m \in Nat
    BY <1>3, <1>5
  <2> HIDE DEF m
  <2>4. e \in Nat /\ r \in 0 .. c - 1 /\ m = e * c + r
    BY <1>3, <2>3, Division
  <2>5. e * c \in Nat
    BY <1>2, <2>4
  <2> HIDE DEF e, r
  <2>6. m - e * c = r /\ r \in Nat
    BY <1>3, <2>3, <2>4, <2>5
  <2> QED
    BY <2>1, <2>2, <2>4, <2>6, Zenon DEF m, e, r
<1>6. ASSUME NEW p \in 1 .. L, ~(p <= k)
      PROVE  Last(p) /\ I(p) = f /\ p - 1 - I(p) * c \in Nat /\ p - 1 - I(p) * c = p - 1 - k
  <2>1. Last(p)
    BY <1>2, <1>3, <1>6
  <2>2. I(p) = f
    BY <2>1
  <2>3. p - 1 - k \in Nat
    BY <1>2, <1>3, <1>6
  <2>4. I(p) * c = k
    BY <2>2
  <2> QED
    BY <2>1, <2>2, <2>3, <2>4
<1> HIDE DEF f, b, c, k, img, L, I, Last
<1>7. ASSUME NEW p \in 1 .. L
      PROVE  U(p) \in FileUnit
  <2>1. I(p) \in Nat /\ p - 1 - I(p) * c \in Nat /\ Last(p) \in BOOLEAN
    BY <1>1, <1>5, <1>6 DEF Last
  <2>2. (IF Last(p) THEN b ELSE CHUNK) \in 0 .. CHUNK
    BY <1>1 DEF FileSizes
  <2> QED
    BY <2>1, <2>2 DEF FileUnit
<1>8. img \in Seq(FileUnit) /\ Len(img) = L /\ \A p \in 1 .. L : img[p] = U(p)
  BY <1>3, <1>4, <1>7
<1>9. ASSUME NEW i \in 0 .. f - 1, NEW u \in 1 .. c
      PROVE  /\ i * c + u \in 1 .. k
             /\ img[i * c + u] = [chunk |-> i, last |-> FALSE, of |-> CHUNK, unit |-> u - 1]
  <2>1. i * c \in Nat /\ i * c + c <= k /\ i \in Nat /\ i < f
    BY <1>1, <1>3, Multiples DEF k
  <2> DEFINE p == i * c + u
             m == p - 1
             r == u - 1
  <2>2. p \in 1 .. L /\ p <= k /\ p \in 1 .. k /\ m \in Nat /\ r \in 0 .. c - 1 /\ m = i * c + r
    BY <2>1, <1>1, <1>2, <1>3 DEF L, FileSizes
  <2> HIDE DEF m, r, p
  <2>3. m \div c = i /\ m % c = r
    <3>1. m \in Nat /\ r \in 0 .. c - 1 /\ m = i * c + r
      BY <2>2
    <3>2. c \in Nat \ {0} /\ i \in Nat
      BY <2>1, <1>3
    <3>3. m \div c = i
      BY <3>1, <3>2
    <3>4. m % c = r
      BY <3>1, <3>2
    <3> QED
      BY <3>3, <3>4
  <2>4. (p - 1) \div c = i /\ (p - 1) % c = u - 1
    BY <2>3, Zenon DEF m, r
  <2>5. /\ ~Last(p) /\ I(p) = i /\ p - 1 - I(p) * c = u - 1
    BY <2>2, <2>4, <1>5
  <2>6. img[p] = U(p)
    BY <1>8, <2>2
  <2>7. Last(p) = FALSE /\ (IF Last(p) THEN b ELSE CHUNK) = CHUNK
    <3>1. Last(p) = FALSE
      BY <2>5 DEF Last
    <3>2. (IF Last(p) THEN b ELSE CHUNK) = CHUNK
      BY <2>5, Zenon
    <3> QED
      BY <3>1, <3>2
  <2>8. U(p) = [chunk |-> i, last |-> FALSE, of |-> CHUNK, unit |-> u - 1]
    BY <2>5, <2>7, Zenon
  <2> QED
    BY <2>2, <2>6, <2>8, Zenon DEF p
<1>10. ASSUME NEW u \in 1 .. b + TAG_LEN
       PROVE  img[k + u] = [chunk |-> f, last |-> TRUE, of |-> b, unit |-> u - 1]
  <2> DEFINE p == k + u
  <2>1. p \in 1 .. L /\ ~(p <= k) /\ p - 1 - k = u - 1
    BY <1>1, <1>2 DEF L, FileSizes
  <2> HIDE DEF p
  <2>2. Last(p) /\ I(p) = f /\ p - 1 - I(p) * c = u - 1
    BY <2>1, <1>6
  <2>3. img[p] = U(p)
    BY <1>8, <2>1
  <2>4. U(p) = [chunk |-> f, last |-> TRUE, of |-> b, unit |-> u - 1]
    BY <2>2
  <2> QED
    BY <2>3, <2>4 DEF p
<1>11. ASSUME NEW i \in 0 .. f - 1
       PROVE  i * c + c <= f * c /\ SliceAt(img, i * c, i, CHUNK, FALSE)
  <2>1. i * c + c <= f * c
    BY <1>1, <1>3, Multiples
  <2>2. CHUNK + TAG_LEN = c
    BY <1>3
  <2> QED
    BY <1>9, <2>1, <2>2, Zenon DEF SliceAt
<1>12. SliceAt(img, f * c, f, b, TRUE)
  BY <1>10, Zenon DEF SliceAt, k
<1>13. Len(img) = f * c + b + TAG_LEN
  BY <1>8, Zenon DEF L, k
<1>14. ImageShape(img, f, b, c)
  BY <1>1, <1>2, <1>8, <1>11, <1>12, <1>13, Zenon DEF ImageShape, k
<1> QED
  BY <1>14, Zenon DEF f, b, c, img

\* A slice of these units is a chunk.
ChunkAt(s, a, e, i, n, l) ==
  /\ s \in Seq(FileUnit) /\ a \in Nat /\ n \in Nat
  /\ e = a + n + TAG_LEN /\ e <= Len(s)
  /\ SliceAt(s, a, i, n, l)

\* So it is, unit by unit.
LEMMA SliceIs ==
  ASSUME FileSizes, NEW s, NEW a, NEW e, NEW n, NEW i, NEW l, ChunkAt(s, a, e, i, n, l)
  PROVE  SubSeq(s, a + 1, e) = Sealed!ChunkUnits(i, n, l)
<1> DEFINE m == n + TAG_LEN
           t == SubSeq(s, a + 1, e)
           U(u) == [chunk |-> i, last |-> l, of |-> n, unit |-> u - 1]
<1>1. /\ s \in Seq(FileUnit) /\ a \in Nat /\ n \in Nat /\ e <= Len(s)
      /\ Len(s) \in Nat /\ m \in Nat /\ e = a + m /\ e \in Nat
  BY LenProperties DEF FileSizes, ChunkAt
<1> HIDE DEF m
<1>2. /\ t \in Seq(FileUnit) /\ Len(t) = m
      /\ \A u \in 1 .. m : t[u] = s[a + u]
  <2>1. \A j \in a + 1 .. e : j \in 1 .. Len(s)
    BY <1>1
  <2> QED
    BY <1>1, <2>1, SubSeqProperties
<1>3. t = [u \in 1 .. m |-> t[u]]
  BY <1>2
<1> HIDE DEF t
<1>4. \A u \in 1 .. m : t[u] = U(u)
  BY <1>2, Zenon DEF SliceAt, ChunkAt, m
<1>5. t = [u \in 1 .. m |-> U(u)]
  BY <1>3, <1>4, Zenon
<1> QED
  BY <1>5, Zenon DEF t, m, Sealed!ChunkUnits

\* The chunks of a sealed form.
LEMMA ImageSlices ==
  ASSUME FileSizes, NEW n \in Nat
  PROVE  /\ \A i \in 0 .. Sealed!FullChunks(n) - 1 :
              SubSeq(Sealed!Image(n), i * Sealed!SealedChunk + 1,
                     i * Sealed!SealedChunk + Sealed!SealedChunk)
                = Sealed!ChunkUnits(i, CHUNK, FALSE)
         /\ SubSeq(Sealed!Image(n), Sealed!FullChunks(n) * Sealed!SealedChunk + 1,
                   Len(Sealed!Image(n)))
              = Sealed!ChunkUnits(Sealed!FullChunks(n), Sealed!LastLen(n), TRUE)
<1> DEFINE f == Sealed!FullChunks(n)
           b == Sealed!LastLen(n)
           c == Sealed!SealedChunk
           img == Sealed!Image(n)
<1> HIDE DEF f, b, c, img
<1>1. ImageShape(img, f, b, c)
  BY ImageIs, Zenon DEF f, b, c, img
<1>a. f \in Nat
  BY <1>1, Zenon DEF ImageShape
<1>2. c \in Nat \ {0} /\ c = CHUNK + TAG_LEN /\ CHUNK \in Nat /\ TAG_LEN \in Nat
  BY DEF FileSizes, c
<1>3. ASSUME NEW i \in 0 .. f - 1
      PROVE  SubSeq(img, i * c + 1, i * c + c) = Sealed!ChunkUnits(i, CHUNK, FALSE)
  <2> DEFINE a == i * c
             e == i * c + c
             g == f * c
             no == FALSE
  <2>0. i \in Nat
    BY <1>a
  <2>1. a \in Nat /\ SliceAt(img, a, i, CHUNK, FALSE) /\ e <= g /\ g \in Nat
    BY <1>1, <2>0, Zenon DEF ImageShape
  <2>2. b \in 0 .. CHUNK /\ img \in Seq(FileUnit) /\ Len(img) = g + b + TAG_LEN
    BY <1>1, Zenon DEF ImageShape
  <2>3. e = a + c
    OBVIOUS
  <2> HIDE DEF a, e, g
  <2>4. e \in Nat /\ e = a + CHUNK + TAG_LEN /\ e <= Len(img)
    BY <2>1, <2>2, <2>3, <1>2
  <2>5. SubSeq(img, a + 1, e) = Sealed!ChunkUnits(i, CHUNK, FALSE)
    <3>1. ChunkAt(img, a, e, i, CHUNK, no)
      BY <2>1, <2>2, <2>4, <1>2, Zenon DEF ChunkAt
    <3> HIDE DEF no
    <3>2. SubSeq(img, a + 1, e) = Sealed!ChunkUnits(i, CHUNK, no)
      BY <3>1, SliceIs
    <3> QED
      BY <3>2, Zenon DEF no
  <2> QED
    BY <2>5, Zenon DEF a, e
<1>4. SubSeq(img, f * c + 1, Len(img)) = Sealed!ChunkUnits(f, b, TRUE)
  <2> DEFINE a == f * c
             e == Len(img)
             yes == TRUE
  <2>1. a \in Nat /\ SliceAt(img, a, f, b, TRUE)
    BY <1>1, Zenon DEF ImageShape
  <2>2. b \in 0 .. CHUNK /\ img \in Seq(FileUnit) /\ e = a + b + TAG_LEN
    BY <1>1, Zenon DEF ImageShape
  <2> HIDE DEF a
  <2>3. e <= Len(img) /\ b \in Nat
    BY <2>1, <2>2, <1>2
  <2>4. SubSeq(img, a + 1, e) = Sealed!ChunkUnits(f, b, TRUE)
    <3>1. ChunkAt(img, a, e, f, b, yes)
      BY <2>1, <2>2, <2>3, Zenon DEF ChunkAt
    <3> HIDE DEF yes
    <3>2. SubSeq(img, a + 1, e) = Sealed!ChunkUnits(f, b, yes)
      BY <3>1, SliceIs
    <3> QED
      BY <3>2, Zenon DEF yes
  <2> QED
    BY <2>4, Zenon DEF a
<1> QED
  BY <1>3, <1>4, Zenon DEF f, b, c, img

-----------------------------------------------------------------------------
(* What a reader opens and reads.                                          *)

\* What a reader makes of a length.
LEMMA LayoutOf ==
  ASSUME FileSizes, NEW units, NEW k \in Nat, NEW r \in TAG_LEN .. Sealed!SealedChunk,
         Len(units) \in Nat, Len(units) = k * Sealed!SealedChunk + r
  PROVE  /\ Sealed!Layout(units).fits /\ Sealed!Layout(units).count = k + 1
         /\ Sealed!Layout(units).plain = k * CHUNK + (r - TAG_LEN)
<1> DEFINE c == Sealed!SealedChunk
           L == Len(units)
           full == L \div c
           rem == L % c
<1>0. /\ c \in Nat \ {0} /\ c = CHUNK + TAG_LEN /\ CHUNK \in Nat \ {0} /\ TAG_LEN \in Nat \ {0}
      /\ r \in Nat /\ k * c \in Nat /\ k * CHUNK \in Nat /\ L \in Nat /\ L = k * c + r
      /\ r <= c /\ r >= TAG_LEN
  BY DEF FileSizes
<1>1. /\ Sealed!Layout(units).fits <=> (L >= TAG_LEN /\ (rem = 0 \/ rem >= TAG_LEN))
      /\ Sealed!Layout(units).count = IF rem = 0 THEN full ELSE full + 1
      /\ Sealed!Layout(units).plain = full * CHUNK + (IF rem = 0 THEN 0 ELSE rem - TAG_LEN)
  BY DEF Sealed!Layout
<1> HIDE DEF c, L
<1>2. CASE r = c
  <2> DEFINE k1 == k + 1
  <2>1. k1 \in Nat /\ L = k1 * c + 0 /\ 0 \in 0 .. c - 1 /\ k1 * CHUNK = k * CHUNK + CHUNK
    BY <1>0, <1>2
  <2> HIDE DEF k1
  <2>2. full = k1
    BY <2>1, <1>0
  <2>3. rem = 0
    BY <2>1, <1>0
  <2> HIDE DEF full, rem
  <2>4. /\ Sealed!Layout(units).count = k1
        /\ Sealed!Layout(units).plain = full * CHUNK + 0
        /\ Sealed!Layout(units).fits
    BY <1>1, <2>2, <2>3, <1>0
  <2>5. full * CHUNK = k * CHUNK + CHUNK
    BY <2>1, <2>2, Zenon
  <2>6. full * CHUNK + 0 = k * CHUNK + (r - TAG_LEN)
    BY <2>5, <1>0, <1>2
  <2> QED
    BY <2>4, <2>6 DEF k1
<1>3. CASE r # c
  <2>1. r \in 0 .. c - 1 /\ r # 0
    BY <1>0, <1>3
  <2>2. full = k
    BY <2>1, <1>0
  <2>3. rem = r
    BY <2>1, <1>0
  <2> HIDE DEF full, rem
  <2> QED
    BY <1>1, <2>1, <2>2, <2>3, <1>0
<1> QED
  BY <1>2, <1>3

\* And which lengths fit at all.
LEMMA LayoutFits ==
  ASSUME FileSizes, NEW units, Len(units) \in Nat,
         Sealed!Layout(units).fits, Sealed!Layout(units).count > 0
  PROVE  \E k \in Nat, r \in TAG_LEN .. Sealed!SealedChunk :
           Len(units) = k * Sealed!SealedChunk + r
<1> DEFINE c == Sealed!SealedChunk
           L == Len(units)
           full == L \div c
           rem == L % c
<1>0. /\ c \in Nat \ {0} /\ c = CHUNK + TAG_LEN /\ CHUNK \in Nat \ {0} /\ TAG_LEN \in Nat \ {0}
      /\ L \in Nat
  BY DEF FileSizes
<1>1. /\ rem = 0 \/ rem >= TAG_LEN
      /\ rem = 0 => full > 0
  BY DEF Sealed!Layout
<1> HIDE DEF c, L
<1>2. full \in Nat /\ rem \in 0 .. c - 1 /\ L = full * c + rem
  BY <1>0, Division, Zenon
<1> HIDE DEF full, rem
<1>3. CASE rem = 0
  <2> DEFINE k == full - 1
  <2>1. k \in Nat /\ full = k + 1
    BY <1>1, <1>2, <1>3
  <2> HIDE DEF k
  <2>2. full * c = k * c + c /\ k * c \in Nat
    BY <2>1, <1>0
  <2>3. L = k * c + c /\ c \in TAG_LEN .. c
    BY <2>2, <1>0, <1>2, <1>3
  <2> QED
    BY <2>1, <2>3 DEF c, L
<1>4. CASE rem # 0
  <2>1. rem \in TAG_LEN .. c
    BY <1>0, <1>1, <1>2, <1>4
  <2> QED
    BY <2>1, <1>2 DEF c, L
<1> QED
  BY <1>3, <1>4

\* A reader that opens the beginning of a sealed form has all of it.
LEMMA OpensWhole ==
  ASSUME FileSizes, NEW n \in Nat, NEW file, Len(file) <= Len(Sealed!Image(n)),
         file = SubSeq(Sealed!Image(n), 1, Len(file)), Len(file) \in Nat,
         Sealed!OpensFile(file)
  PROVE  file = Sealed!Image(n)
<1> DEFINE f == Sealed!FullChunks(n)
           b == Sealed!LastLen(n)
           c == Sealed!SealedChunk
           img == Sealed!Image(n)
           L == Len(file)
<1> HIDE DEF f, b, c, img, L
<1>1. ImageShape(img, f, b, c)
  BY ImageIs, Zenon DEF f, b, c, img
<1>2. /\ c \in Nat \ {0} /\ c = CHUNK + TAG_LEN /\ CHUNK \in Nat \ {0} /\ TAG_LEN \in Nat \ {0}
  BY DEF FileSizes, c
<1>3. /\ img \in Seq(FileUnit) /\ Len(img) = f * c + b + TAG_LEN
      /\ f \in Nat /\ b \in 0 .. CHUNK /\ f * c \in Nat
  BY <1>1, Zenon DEF ImageShape
<1>4. file \in Seq(FileUnit) /\ L \in Nat /\ L <= Len(img) /\ \A p \in 1 .. L : file[p] = img[p]
  <2>1. L \in Nat /\ L <= Len(img) /\ file = SubSeq(img, 1, L)
    BY Zenon DEF L, img
  <2>2. Len(img) \in Nat
    BY <1>3, LenProperties
  <2>3. \A j \in 1 .. L : j \in 1 .. Len(img)
    BY <2>1, <2>2
  <2> QED
    BY <2>1, <2>2, <2>3, <1>3, SubSeqProperties
<1>5. PICK k \in Nat, r \in TAG_LEN .. c : L = k * c + r
  <2>1. Sealed!Layout(file).fits /\ Sealed!Layout(file).count > 0
    BY DEF Sealed!OpensFile
  <2> QED
    BY <2>1, <1>4, LayoutFits, Zenon DEF c, L
<1>6. k * c \in Nat /\ r \in Nat /\ r > 0 /\ r <= c
  BY <1>2, <1>5
<1>7. Sealed!Layout(file).count = k + 1
  BY <1>4, <1>5, LayoutOf, Zenon DEF c, L
<1>8. Sealed!OpensAs(Sealed!Chunk(file, k), k, k + 1 = k + 1)
  <2>1. Sealed!Layout(file).count - 1 = k
    BY <1>7, <1>5
  <2>2. Sealed!Loads(file, k)
    BY <2>1, Zenon DEF Sealed!OpensFile
  <2> QED
    BY <2>2, <1>7, Zenon DEF Sealed!Loads
<1>9. Sealed!Chunk(file, k) = SubSeq(file, k * c + 1, L)
  <2>1. (k + 1) * c = k * c + c
    BY <1>2, <1>5
  <2>2. Sealed!LeastOf((k + 1) * c, L) = L
    BY <2>1, <1>2, <1>4, <1>5, <1>6 DEF Sealed!LeastOf
  <2> QED
    BY <2>2, Zenon DEF Sealed!Chunk, c, L
<1> DEFINE slice == SubSeq(file, k * c + 1, L)
           a == k * c
<1>10. slice \in Seq(FileUnit) /\ Len(slice) = r /\ slice[1] = file[a + 1]
  <2> HIDE DEF a
  <2>1. a \in Nat /\ L = a + r
    BY <1>5, <1>6 DEF a
  <2>2. \A j \in a + 1 .. L : j \in 1 .. L
    BY <2>1, <1>6, <1>4
  <2>3. SubSeq(file, a + 1, L) \in Seq(FileUnit) /\ Len(SubSeq(file, a + 1, L)) = r
        /\ SubSeq(file, a + 1, L)[1] = file[a + 1]
    BY <2>1, <2>2, <1>4, <1>6, SubSeqProperties DEF L
  <2> QED
    BY <2>3, Zenon DEF a
<1>11. slice = Sealed!ChunkUnits(k, r - TAG_LEN, TRUE)
  <2>1. Sealed!OpensAs(slice, k, k + 1 = k + 1)
    BY <1>8, <1>9, Zenon
  <2>2. slice = Sealed!ChunkUnits(k, Len(slice) - TAG_LEN, k + 1 = k + 1)
    BY <2>1, Zenon DEF Sealed!OpensAs
  <2> HIDE DEF slice
  <2> QED
    BY <2>2, <1>10 DEF Sealed!ChunkUnits
<1> HIDE DEF slice, a
<1>12. img[a + 1] = [chunk |-> k, last |-> TRUE, of |-> r - TAG_LEN, unit |-> 0]
  <2>1. slice[1] = [chunk |-> k, last |-> TRUE, of |-> r - TAG_LEN, unit |-> 0]
    <3>1. 1 \in 1 .. (r - TAG_LEN) + TAG_LEN /\ 1 - 1 = 0
      BY <1>2, <1>6
    <3> QED
      BY <1>11, <3>1 DEF Sealed!ChunkUnits
  <2>2. a + 1 \in 1 .. L
    BY <1>4, <1>5, <1>6 DEF a
  <2> QED
    BY <2>1, <2>2, <1>4, <1>10, Zenon
<1>13. k >= f
  <2> SUFFICES ASSUME ~(k >= f)
               PROVE  FALSE
    OBVIOUS
  <2>1. k \in 0 .. f - 1 /\ 1 \in 1 .. CHUNK + TAG_LEN
    BY <1>2, <1>3, <1>5
  <2>2. SliceAt(img, k * c, k, CHUNK, FALSE)
    BY <1>1, <2>1, Zenon DEF ImageShape
  <2>3. img[k * c + 1] = [chunk |-> k, last |-> FALSE, of |-> CHUNK, unit |-> 1 - 1]
    BY <2>1, <2>2, Zenon DEF SliceAt
  <2> QED
    BY <2>3, <1>12 DEF a
<1>14. k = f
  <2> SUFFICES ASSUME f < k
               PROVE  FALSE
    BY <1>3, <1>5, <1>13
  <2>1. f * c + c <= k * c
    BY <1>2, <1>3, <1>5, Multiples
  <2> QED
    BY <2>1, <1>2, <1>3, <1>4, <1>5, <1>6
<1>15. r = b + TAG_LEN
  <2>1. 1 \in 1 .. b + TAG_LEN
    BY <1>2, <1>3
  <2>2. SliceAt(img, f * c, f, b, TRUE)
    BY <1>1, Zenon DEF ImageShape
  <2>3. img[f * c + 1] = [chunk |-> f, last |-> TRUE, of |-> b, unit |-> 1 - 1]
    BY <2>1, <2>2, Zenon DEF SliceAt
  <2>4. b = r - TAG_LEN
    BY <2>3, <1>12, <1>14 DEF a
  <2> QED
    BY <2>4, <1>2, <1>3, <1>6
<1>16. L = Len(img)
  BY <1>3, <1>5, <1>14, <1>15, <1>2
<1> QED
  <2>1. file = SubSeq(img, 1, L)
    BY Zenon DEF L, img
  <2> QED
    BY <2>1, <1>3, <1>16, SubSeqFull DEF img

\* Every chunk of a sealed form opens, and its units are in their place.
LEMMA ImageLoads ==
  ASSUME FileSizes, NEW n \in Nat
  PROVE  /\ Sealed!Layout(Sealed!Image(n)).plain = n
         /\ \A i \in 0 .. Sealed!FullChunks(n) : Sealed!Loads(Sealed!Image(n), i)
         /\ \A i \in 0 .. Sealed!FullChunks(n), u \in 0 .. CHUNK - 1 :
              (i = Sealed!FullChunks(n) => u < Sealed!LastLen(n)) =>
                /\ Sealed!Chunk(Sealed!Image(n), i)[u + 1].chunk = i
                /\ Sealed!Chunk(Sealed!Image(n), i)[u + 1].unit = u
<1> DEFINE f == Sealed!FullChunks(n)
           b == Sealed!LastLen(n)
           c == Sealed!SealedChunk
           img == Sealed!Image(n)
           L == Len(img)
<1>0. n = f * CHUNK + b
  BY LastChunk
<1> HIDE DEF f, b, c, img, L
<1>1. ImageShape(img, f, b, c)
  BY ImageIs, Zenon DEF f, b, c, img
<1>2. /\ c \in Nat \ {0} /\ c = CHUNK + TAG_LEN /\ CHUNK \in Nat \ {0} /\ TAG_LEN \in Nat \ {0}
  BY DEF FileSizes, c
<1>3. /\ img \in Seq(FileUnit) /\ L = f * c + b + TAG_LEN /\ f * CHUNK \in Nat
      /\ f \in Nat /\ b \in 0 .. CHUNK /\ f * c \in Nat /\ L \in Nat
  <2>1. /\ img \in Seq(FileUnit) /\ L = f * c + b + TAG_LEN
        /\ f \in Nat /\ b \in 0 .. CHUNK /\ f * c \in Nat
    BY <1>1, Zenon DEF ImageShape, L
  <2> QED
    BY <2>1, <1>2
<1>4. /\ Sealed!Layout(img).count = f + 1
      /\ Sealed!Layout(img).plain = f * CHUNK + b
  <2> DEFINE r == b + TAG_LEN
  <2>1. r \in TAG_LEN .. c /\ L = f * c + r /\ r - TAG_LEN = b
    BY <1>2, <1>3
  <2> HIDE DEF r
  <2>2. /\ Sealed!Layout(img).count = f + 1
        /\ Sealed!Layout(img).plain = f * CHUNK + (r - TAG_LEN)
    BY <2>1, <1>3, LayoutOf, Zenon DEF c, L
  <2> QED
    BY <2>1, <2>2
<1>5. ASSUME NEW i \in 0 .. f - 1
      PROVE  /\ Sealed!Chunk(img, i) = Sealed!ChunkUnits(i, CHUNK, FALSE)
             /\ i \in Nat /\ (i + 1 = f + 1) = FALSE
  <2>1. i \in Nat /\ i < f /\ i + 1 # f + 1
    BY <1>3
  <2>2. i * c \in Nat /\ i * c + c <= f * c
    BY <2>1, <1>2, <1>3, Multiples
  <2>3. (i + 1) * c = i * c + c
    BY <2>1, <1>2
  <2>4. Sealed!LeastOf((i + 1) * c, L) = i * c + c
    <3>1. i * c + c < L
      BY <2>2, <1>2, <1>3
    <3> QED
      BY <3>1, <2>3 DEF Sealed!LeastOf
  <2>5. Sealed!Chunk(img, i) = SubSeq(img, i * c + 1, i * c + c)
    BY <2>4, Zenon DEF Sealed!Chunk, c, L
  <2>6. SubSeq(img, i * c + 1, i * c + c) = Sealed!ChunkUnits(i, CHUNK, FALSE)
    BY ImageSlices, Zenon DEF f, c, img
  <2>7. (i + 1 = f + 1) = FALSE
    BY <2>1
  <2> QED
    BY <2>1, <2>5, <2>6, <2>7
<1>6. Sealed!Chunk(img, f) = Sealed!ChunkUnits(f, b, TRUE)
  <2>1. (f + 1) * c = f * c + c
    BY <1>2, <1>3
  <2>2. Sealed!LeastOf((f + 1) * c, L) = L
    BY <2>1, <1>2, <1>3 DEF Sealed!LeastOf
  <2>3. Sealed!Chunk(img, f) = SubSeq(img, f * c + 1, L)
    BY <2>2, Zenon DEF Sealed!Chunk, c, L
  <2>4. SubSeq(img, f * c + 1, L) = Sealed!ChunkUnits(f, b, TRUE)
    BY ImageSlices, Zenon DEF f, b, c, img, L
  <2> QED
    BY <2>3, <2>4, Zenon
<1>7. ASSUME NEW i \in 0 .. f
      PROVE  Sealed!Loads(img, i)
  <2> DEFINE s == Sealed!Chunk(img, i)
  <2>1. i \in Nat /\ i < f + 1
    BY <1>3
  <2>2. CASE i = f
    <3>1. Len(Sealed!ChunkUnits(f, b, TRUE)) = b + TAG_LEN
      BY <1>2, <1>3 DEF Sealed!ChunkUnits
    <3>a. Len(s) = b + TAG_LEN
      BY <3>1, <2>2, <1>6, Zenon
    <3> HIDE DEF s
    <3>2. Len(s) - TAG_LEN = b
      BY <3>a, <1>2, <1>3
    <3>3. (f + 1 = f + 1) = TRUE
      OBVIOUS
    <3>4. s = Sealed!ChunkUnits(f, Len(s) - TAG_LEN, f + 1 = f + 1)
      BY <3>2, <3>3, <2>2, <1>6 DEF s
    <3>5. Sealed!OpensAs(s, i, i + 1 = f + 1)
      BY <3>4, <2>2, Zenon DEF Sealed!OpensAs
    <3> QED
      BY <3>5, <2>1, <1>4, Zenon DEF Sealed!Loads, s
  <2>3. CASE i # f
    <3>0. i \in 0 .. f - 1
      BY <2>1, <2>3, <1>3
    <3>1. Len(Sealed!ChunkUnits(i, CHUNK, FALSE)) = CHUNK + TAG_LEN
      BY <1>2 DEF Sealed!ChunkUnits
    <3>a. Len(s) = CHUNK + TAG_LEN
      BY <3>0, <3>1, <1>5, Zenon
    <3> HIDE DEF s
    <3>2. Len(s) - TAG_LEN = CHUNK
      BY <3>a, <1>2
    <3>4. s = Sealed!ChunkUnits(i, Len(s) - TAG_LEN, i + 1 = f + 1)
      BY <3>0, <3>2, <1>5 DEF s
    <3>5. Sealed!OpensAs(s, i, i + 1 = f + 1)
      BY <3>4, Zenon DEF Sealed!OpensAs
    <3> QED
      BY <3>5, <2>1, <1>4, Zenon DEF Sealed!Loads, s
  <2> QED
    BY <2>2, <2>3
<1>8. ASSUME NEW i \in 0 .. f, NEW u \in 0 .. CHUNK - 1, i = f => u < b
      PROVE  /\ Sealed!Chunk(img, i)[u + 1].chunk = i
             /\ Sealed!Chunk(img, i)[u + 1].unit = u
  <2>1. u + 1 - 1 = u /\ u \in Nat
    BY <1>2
  <2>2. CASE i = f
    <3>1. u + 1 \in 1 .. b + TAG_LEN
      BY <2>1, <2>2, <1>8, <1>2, <1>3
    <3> QED
      BY <3>1, <2>1, <2>2, <1>6 DEF Sealed!ChunkUnits
  <2>3. CASE i # f
    <3>1. u + 1 \in 1 .. CHUNK + TAG_LEN /\ i \in 0 .. f - 1
      BY <2>1, <2>3, <1>2, <1>3
    <3>2. Sealed!Chunk(img, i) = Sealed!ChunkUnits(i, CHUNK, FALSE)
      BY <3>1, <1>5, Zenon
    <3>3. /\ Sealed!ChunkUnits(i, CHUNK, FALSE)[u + 1].chunk = i
          /\ Sealed!ChunkUnits(i, CHUNK, FALSE)[u + 1].unit = u
      BY <3>1, <2>1 DEF Sealed!ChunkUnits
    <3> QED
      BY <3>2, <3>3, Zenon
  <2> QED
    BY <2>2, <2>3
<1>9. Sealed!Layout(img).plain = n
  BY <1>0, <1>4, Zenon
<1> QED
  BY <1>7, <1>8, <1>9, Zenon DEF f, b, img

\* So every range of it is read as it was written.
LEMMA ReadsAll ==
  ASSUME FileSizes, NEW n \in Nat, NEW start \in 0 .. n, NEW m \in Nat
  PROVE  Sealed!ReadRange(Sealed!Image(n), start, m)
           = SubSeq([j \in 1 .. n |-> j - 1], start + 1, Sealed!LeastOf(start + m, n))
<1> DEFINE f == Sealed!FullChunks(n)
           b == Sealed!LastLen(n)
           img == Sealed!Image(n)
           end == Sealed!LeastOf(start + m, n)
           plain == [j \in 1 .. n |-> j - 1]
<1>0. /\ f \in Nat /\ b \in 0 .. CHUNK /\ n = f * CHUNK + b /\ f * CHUNK \in Nat
      /\ CHUNK \in Nat \ {0}
  BY LastChunk DEF FileSizes
<1>1. /\ Sealed!Layout(img).plain = n
      /\ \A i \in 0 .. f : Sealed!Loads(img, i)
      /\ \A i \in 0 .. f, u \in 0 .. CHUNK - 1 :
           (i = f => u < b) =>
             /\ Sealed!Chunk(img, i)[u + 1].chunk = i
             /\ Sealed!Chunk(img, i)[u + 1].unit = u
  BY ImageLoads, Zenon
<1>2. end \in 0 .. n /\ end <= start + m /\ start \in Nat
  BY DEF Sealed!LeastOf
<1>3. plain \in Seq(Nat) /\ Len(plain) = n /\ \A j \in 1 .. n : plain[j] = j - 1
  OBVIOUS
<1> HIDE DEF f, b, img, end, plain
<1>4. ASSUME NEW p \in 0 .. n - 1
      PROVE  /\ Sealed!Loads(img, p \div CHUNK)
             /\ LET u == Sealed!Chunk(img, p \div CHUNK)[(p % CHUNK) + 1]
                IN u.chunk * CHUNK + u.unit = p
  <2> DEFINE i == p \div CHUNK
             w == p % CHUNK
  <2>1. p \in Nat /\ p < n
    OBVIOUS
  <2>2. i \in Nat /\ w \in 0 .. CHUNK - 1 /\ p = i * CHUNK + w
    BY <2>1, <1>0, Division, Zenon
  <2> HIDE DEF i, w
  <2>3. i * CHUNK \in Nat
    BY <2>2, <1>0
  <2>4. ~(f < i)
    <3> SUFFICES ASSUME f < i
                 PROVE  FALSE
      OBVIOUS
    <3>1. f * CHUNK + CHUNK <= i * CHUNK
      BY <1>0, <2>2, Multiples
    <3> QED
      BY <3>1, <2>1, <2>2, <2>3, <1>0
  <2>5. i \in 0 .. f /\ (i = f => w < b)
    BY <2>1, <2>2, <2>3, <2>4, <1>0
  <2>6. /\ Sealed!Loads(img, i)
        /\ Sealed!Chunk(img, i)[w + 1].chunk = i
        /\ Sealed!Chunk(img, i)[w + 1].unit = w
    BY <2>2, <2>5, <1>1
  <2>7. Sealed!Chunk(img, i)[w + 1].chunk * CHUNK + Sealed!Chunk(img, i)[w + 1].unit = p
    BY <2>2, <2>6, Zenon
  <2> QED
    BY <2>6, <2>7, Zenon DEF i, w
<1>5. Sealed!ReadRange(img, start, m) =
        IF start >= end THEN <<>>
        ELSE IF \E p \in start .. end - 1 : ~Sealed!Loads(img, p \div CHUNK) THEN Sealed!Failed
        ELSE [j \in 1 .. end - start |->
                LET u == Sealed!Chunk(img, (start + j - 1) \div CHUNK)
                           [((start + j - 1) % CHUNK) + 1]
                IN u.chunk * CHUNK + u.unit]
  BY <1>1, Zenon DEF Sealed!ReadRange, end
<1>6. CASE start >= end
  <2>1. SubSeq(plain, start + 1, end) = <<>>
    BY <1>2, <1>3, <1>6, SubSeqEmpty
  <2>2. Sealed!ReadRange(img, start, m) = <<>>
    BY <1>5, <1>6, Zenon
  <2> QED
    BY <2>1, <2>2, Zenon DEF img, end, plain
<1>7. CASE ~(start >= end)
  <2> DEFINE V(p) == LET u == Sealed!Chunk(img, p \div CHUNK)[(p % CHUNK) + 1]
                     IN u.chunk * CHUNK + u.unit
             t == SubSeq(plain, start + 1, end)
             k == end - start
  <2>1. \A p \in start .. end - 1 : p \in 0 .. n - 1
    BY <1>2
  <2>2. ~ \E p \in start .. end - 1 : ~Sealed!Loads(img, p \div CHUNK)
    BY <2>1, <1>4, Zenon
  <2>3. Sealed!ReadRange(img, start, m) = [j \in 1 .. k |-> V(start + j - 1)]
    BY <1>5, <1>7, <2>2, Zenon
  <2>4. \A p \in 0 .. n - 1 : V(p) = p
    BY <1>4, Zenon
  <2> HIDE DEF V
  <2>5. k \in Nat /\ \A j \in 1 .. k : start + j - 1 \in 0 .. n - 1
    BY <1>2, <1>7
  <2>6. \A j \in 1 .. k : V(start + j - 1) = start + j - 1
    BY <2>4, <2>5, Zenon
  <2>7. t \in Seq(Nat) /\ Len(t) = k /\ \A j \in 1 .. k : t[j] = start + j - 1
    <3>1. \A j \in start + 1 .. end : j \in 1 .. Len(plain)
      BY <1>2, <1>3
    <3>2. /\ t \in Seq(Nat) /\ Len(t) = k
          /\ \A j \in 1 .. k : t[j] = plain[start + j]
      <4> DEFINE a == start + 1
      <4>1. a \in Nat /\ a <= end /\ end \in Nat /\ end - a + 1 = k /\ n \in Nat
        BY <1>2, <1>7, <2>5
      <4>2. \A j \in 1 .. k : a + j - 1 = start + j
        BY <1>2, <2>5
      <4> HIDE DEF a, k
      <4>3. SubSeq(plain, a, end) \in Seq(Nat)
        BY <3>1, <4>1, <1>3, SubSeqProperties DEF a
      <4>4. Len(SubSeq(plain, a, end)) = k
        BY <3>1, <4>1, <1>3, SubSeqProperties DEF a
      <4>5. \A j \in 1 .. k : SubSeq(plain, a, end)[j] = plain[a + j - 1]
        BY <3>1, <4>1, <1>3, SubSeqProperties DEF a
      <4>6. t = SubSeq(plain, a, end)
        BY Zenon DEF a
      <4> HIDE DEF t
      <4> QED
        BY <4>2, <4>3, <4>4, <4>5, <4>6
    <3>3. ASSUME NEW j \in 1 .. k
          PROVE  plain[start + j] = start + j - 1
      <4>1. start + j \in 1 .. n
        BY <1>2, <2>5
      <4> QED
        BY <4>1, <1>3
    <3> HIDE DEF t, k
    <3> QED
      BY <3>2, <3>3
  <2> HIDE DEF t, k
  <2>8. t = [j \in 1 .. k |-> t[j]]
    BY <2>5, <2>7
  <2>9. \A j \in 1 .. k : t[j] = V(start + j - 1)
    BY <2>6, <2>7, Zenon
  <2>10. t = [j \in 1 .. k |-> V(start + j - 1)]
    BY <2>8, <2>9, Zenon
  <2> QED
    BY <2>3, <2>10, Zenon DEF img, end, plain, t
<1> QED
  BY <1>6, <1>7

-----------------------------------------------------------------------------
(* The invariant, as it is used here.                                     *)

\* A copy reads back if it is the whole sealed form.
Back(n, file) ==
  /\ Sealed!OpensFile(file)
  /\ Sealed!ReadRange(file, 0, Sealed!Layout(file).plain) = [j \in 1 .. n |-> j - 1]

\* What one writer holds, and what it has written.
Grown(n, file, index, buffered, read, at) ==
  /\ Len(file) <= Len(Sealed!Image(n)) /\ file = SubSeq(Sealed!Image(n), 1, Len(file))
  /\ at = "copy" =>
       /\ read = index * CHUNK + buffered
       /\ Len(file) = index * Sealed!SealedChunk
       /\ buffered = 0 => read = 0

FilePlaces == {"idle", "remove", "open", "create", "copy", "sync", "verify", "rename",
               "sealed", "over"}
Early == {"idle", "remove", "open", "create"}
Late == {"sync", "verify", "rename", "sealed"}

\* Who has no copy yet has written nothing.
Fresh(file, index, buffered, read, at) ==
  at \in Early => file = <<>> /\ index = 0 /\ buffered = 0 /\ read = 0

FileTypes ==
  /\ v1 \in 0 .. MaxLen
  /\ v2 \in {"original"} \cup Sealers /\ v3 \in Sealers \cup {"none"}
  /\ v4 \in [Sealers -> Seq(FileUnit)] /\ v5 \in [Sealers -> Nat]
  /\ v6 \in [Sealers -> 0 .. CHUNK] /\ v7 \in [Sealers -> Nat]
  /\ v8 \in [Sealers -> FilePlaces]
  /\ v9 \in BOOLEAN /\ v10 \in 0 .. MaxCrashes
  /\ v11 \in [Sealers -> {"original"} \cup Sealers]
FileGrows ==
  \A s \in Sealers : /\ Grown(v7[s], v4[s], v5[s], v6[s], v7[s], v8[s])
                     /\ Fresh(v4[s], v5[s], v6[s], v7[s], v8[s])

\* What was put in place holds the whole of what it was made from.
Linked(s) ==
  /\ v11[s] \in Sealed!Placed
  /\ v8[s] = "copy" => v7[s] <= Sealed!Size(v11[s])
  /\ v8[s] \in Late => v7[s] = Sealed!Size(v11[s])
  /\ v8[s] = "sealed" => Back(v7[s], v4[s])
Chain == v2 \in Sealed!Placed /\ \A s \in Sealers : Linked(s)
FilePublished ==
  /\ \A s \in Sealers :
       /\ v8[s] \in {"open", "create"} => v3 # s
       /\ v3 = s /\ v8[s] = "rename" => Back(v7[s], v4[s])
  /\ v9 \/ Chain

\* It is FileInv, now and after a step.
LEMMA FileInvIs ==
  /\ Sealed!FileInv <=> FileTypes /\ FileGrows /\ FilePublished
  /\ Sealed!FileInv' <=> (FileTypes /\ FileGrows /\ FilePublished)'
<1>1. /\ Sealed!TypeOK <=> FileTypes
      /\ Sealed!TypeOK' <=> FileTypes'
  <2>1. Sealed!TypeOK <=> FileTypes
    BY Zenon DEF Sealed!TypeOK, FileTypes, FileUnit, FilePlaces, Sealed!Inodes, Sealed!None
  <2>2. Sealed!TypeOK' <=> FileTypes'
    BY Zenon DEF Sealed!TypeOK, FileTypes, FileUnit, FilePlaces, Sealed!Inodes, Sealed!None
  <2> QED
    BY <2>1, <2>2
<1>2. /\ Sealed!CopiesGrow <=> FileGrows
      /\ Sealed!CopiesGrow' <=> FileGrows'
  <2>1. Sealed!CopiesGrow <=> FileGrows
    BY Zenon DEF Sealed!CopiesGrow, FileGrows, Grown, Fresh, Early
  <2>2. Sealed!CopiesGrow' <=> FileGrows'
    BY Zenon DEF Sealed!CopiesGrow, FileGrows, Grown, Fresh, Early
  <2> QED
    BY <2>1, <2>2
<1>3. ASSUME NEW s
      PROVE  /\ Sealed!ReadsBack(s) <=> Back(v7[s], v4[s])
             /\ Sealed!ReadsBack(s)' <=> Back(v7'[s], v4'[s])
  BY Zenon DEF Sealed!ReadsBack, Back, Sealed!Plaintext
<1>4. /\ Sealed!Published <=> FilePublished
      /\ Sealed!Published' <=> FilePublished'
  BY <1>3, Zenon DEF Sealed!Published, FilePublished, Chain, Linked, Late
<1> QED
  BY <1>1, <1>2, <1>4, Zenon DEF Sealed!FileInv

\* The sealed form is a file's units.
LEMMA ImageSeq ==
  ASSUME FileSizes, NEW n \in Nat
  PROVE  Sealed!Image(n) \in Seq(FileUnit) /\ Len(Sealed!Image(n)) \in Nat
<1>1. Sealed!Image(n) \in Seq(FileUnit)
  BY ImageIs, Zenon DEF ImageShape
<1> QED
  BY <1>1, LenProperties

\* The beginning of a beginning.
LEMMA Begins ==
  ASSUME NEW img \in Seq(FileUnit), NEW m \in 0 .. Len(img)
  PROVE  /\ SubSeq(img, 1, m) \in Seq(FileUnit) /\ Len(SubSeq(img, 1, m)) = m
         /\ \A k \in 0 .. m : SubSeq(SubSeq(img, 1, m), 1, k) = SubSeq(img, 1, k)
<1>1. Len(img) \in Nat /\ m \in Nat /\ m <= Len(img)
  BY LenProperties
<1>2. \A j \in 1 .. m : j \in 1 .. Len(img)
  BY <1>1
<1> DEFINE t == SubSeq(img, 1, m)
<1>3. t \in Seq(FileUnit) /\ Len(t) = m /\ \A j \in 1 .. m : t[j] = img[j]
  <2>1. t \in Seq(FileUnit)
    BY <1>1, <1>2, SubSeqProperties
  <2>2. Len(t) = m
    BY <1>1, <1>2, SubSeqProperties
  <2>3. \A j \in 1 .. m : t[j] = img[j]
    BY <1>1, <1>2, SubSeqProperties
  <2> QED
    BY <2>1, <2>2, <2>3
<1> HIDE DEF t
<1>4. ASSUME NEW k \in 0 .. m
      PROVE  SubSeq(t, 1, k) = SubSeq(img, 1, k)
  <2>0. k \in Nat /\ k <= m
    BY <1>1
  <2>1. \A j \in 1 .. k : j \in 1 .. Len(img) /\ j \in 1 .. Len(t)
    BY <2>0, <1>1, <1>3
  <2> DEFINE a == SubSeq(t, 1, k)
             b == SubSeq(img, 1, k)
  <2>2. a \in Seq(FileUnit) /\ Len(a) = k
    BY <2>0, <2>1, <1>1, <1>3, SubSeqProperties
  <2>3. \A j \in 1 .. k : a[j] = t[j]
    BY <2>0, <2>1, <1>1, <1>3, SubSeqProperties
  <2>4. b \in Seq(FileUnit) /\ Len(b) = k
    BY <2>0, <2>1, <1>1, SubSeqProperties
  <2>5. \A j \in 1 .. k : b[j] = img[j]
    BY <2>0, <2>1, <1>1, SubSeqProperties
  <2> HIDE DEF a, b
  <2>6. \A j \in 1 .. k : a[j] = b[j]
    BY <2>0, <2>3, <2>5, <1>1, <1>3
  <2>7. a = b
    BY <2>2, <2>4, <2>6
  <2> QED
    BY <2>7 DEF a, b
<1> QED
  BY <1>3, <1>4 DEF t

\* A cut copy is still a beginning.
LEMMA CutGrows ==
  ASSUME FileSizes, NEW n \in Nat, NEW file,
         NEW i, NEW b, NEW r, NEW a, Grown(n, file, i, b, r, a), file \in Seq(FileUnit),
         NEW m \in 0 .. Len(file), NEW i2, NEW b2, NEW r2, NEW a2, a2 # "copy"
  PROVE  /\ Grown(n, SubSeq(file, 1, m), i2, b2, r2, a2)
         /\ SubSeq(file, 1, m) \in Seq(FileUnit)
<1> DEFINE img == Sealed!Image(n)
           L == Len(file)
<1>1. img \in Seq(FileUnit) /\ Len(img) \in Nat
  BY ImageSeq
<1> HIDE DEF img
<1>2. L \in Nat /\ L <= Len(img) /\ file = SubSeq(img, 1, L)
  BY LenProperties DEF Grown, img
<1>3. m \in 0 .. L /\ L \in 0 .. Len(img) /\ m \in 0 .. Len(img)
  BY <1>1, <1>2
<1> HIDE DEF L
<1>4. SubSeq(file, 1, m) = SubSeq(img, 1, m)
  <2>1. SubSeq(SubSeq(img, 1, L), 1, m) = SubSeq(img, 1, m)
    BY <1>1, <1>3, Begins
  <2> QED
    BY <2>1, <1>2, Zenon
<1>5. SubSeq(img, 1, m) \in Seq(FileUnit) /\ Len(SubSeq(img, 1, m)) = m
  BY <1>1, <1>3, Begins
<1>6. m <= Len(img)
  BY <1>1, <1>3
<1> QED
  BY <1>4, <1>5, <1>6 DEF Grown, img

\* A chunk that is written makes the beginning longer.
LEMMA ChunkGrows ==
  ASSUME FileSizes, NEW n \in Nat, NEW file \in Seq(FileUnit), NEW i \in Nat,
         NEW b \in 0 .. CHUNK, NEW r \in 0 .. n, Grown(n, file, i, b, r, "copy")
  PROVE  /\ b = CHUNK /\ r < n => Grown(n, file \o Sealed!ChunkUnits(i, b, FALSE), i + 1, 1, r + 1, "copy")
         /\ r = n => \A j, c, q : Grown(n, file \o Sealed!ChunkUnits(i, b, TRUE), j, c, q, "sync")
<1> DEFINE f == Sealed!FullChunks(n)
           l == Sealed!LastLen(n)
           sc == Sealed!SealedChunk
           img == Sealed!Image(n)
<1>0. f \in Nat /\ l \in 0 .. CHUNK /\ n = f * CHUNK + l /\ f * CHUNK \in Nat
  BY LastChunk
<1>s. /\ \A j \in 0 .. f - 1 : SubSeq(img, j * sc + 1, j * sc + sc) = Sealed!ChunkUnits(j, CHUNK, FALSE)
      /\ SubSeq(img, f * sc + 1, Len(img)) = Sealed!ChunkUnits(f, l, TRUE)
  BY ImageSlices, Zenon
<1>i. ImageShape(img, f, l, sc)
  BY ImageIs, Zenon
<1>c. /\ sc \in Nat \ {0} /\ sc = CHUNK + TAG_LEN /\ CHUNK \in Nat \ {0} /\ TAG_LEN \in Nat \ {0}
  BY DEF FileSizes
<1>1. /\ Len(file) <= Len(img) /\ file = SubSeq(img, 1, Len(file))
      /\ r = i * CHUNK + b /\ Len(file) = i * sc /\ (b = 0 => r = 0)
  BY DEF Grown
<1> HIDE DEF f, l, sc, img
<1>2. /\ img \in Seq(FileUnit) /\ Len(img) = f * sc + l + TAG_LEN /\ f * sc \in Nat
      /\ Len(img) \in Nat
  <2>1. img \in Seq(FileUnit) /\ Len(img) = f * sc + l + TAG_LEN /\ f * sc \in Nat
    BY <1>i, Zenon DEF ImageShape
  <2> QED
    BY <2>1, LenProperties
<1>3. i * sc \in Nat /\ i * CHUNK \in Nat
  BY <1>c
<1>4. \* The beginning with the next slice.
      \A e \in Nat : i * sc <= e /\ e <= Len(img) =>
        SubSeq(img, 1, i * sc) \o SubSeq(img, i * sc + 1, e) = SubSeq(img, 1, e)
  <2> SUFFICES ASSUME NEW e \in Nat, i * sc <= e, e <= Len(img)
               PROVE  SubSeq(img, 1, i * sc) \o SubSeq(img, i * sc + 1, e) = SubSeq(img, 1, e)
    OBVIOUS
  <2> DEFINE k == i * sc
  <2>1. k \in Nat /\ k <= e
    BY <1>3
  <2> HIDE DEF k
  <2>2. 1 \in 1 .. Len(img) + 1 /\ k \in 1 - 1 .. e /\ e \in k .. Len(img)
    BY <2>1, <1>2
  <2>3. SubSeq(img, 1, k) \o SubSeq(img, k + 1, e) = SubSeq(img, 1, e)
    BY <2>1, <2>2, <1>2, ConcatAdjacentSubSeq
  <2> QED
    BY <2>3 DEF k
<1>5. ASSUME NEW e \in Nat, i * sc <= e, e <= Len(img), NEW t, SubSeq(img, i * sc + 1, e) = t
      PROVE  /\ file \o t = SubSeq(img, 1, e) /\ Len(file \o t) = e
             /\ file \o t = SubSeq(img, 1, Len(file \o t))
  <2>1. file = SubSeq(img, 1, i * sc)
    BY <1>1, Zenon
  <2>2. file \o t = SubSeq(img, 1, e)
    BY <2>1, <1>4, <1>5, Zenon
  <2>3. e \in 0 .. Len(img)
    BY <1>2, <1>5
  <2>4. Len(SubSeq(img, 1, e)) = e
    BY <2>3, <1>2, Begins
  <2> QED
    BY <2>2, <2>4, Zenon
<1>6. ASSUME b = CHUNK, r < n
      PROVE  Grown(n, file \o Sealed!ChunkUnits(i, b, FALSE), i + 1, 1, r + 1, "copy")
  <2>1. i < f
    <3> SUFFICES ASSUME ~(i < f)
                 PROVE  FALSE
      OBVIOUS
    <3>1. f * CHUNK <= i * CHUNK
      <4>1. CASE f = i
        BY <4>1, <1>3
      <4>2. CASE f < i
        <5>1. f * CHUNK + CHUNK <= i * CHUNK
          BY <4>2, <1>0, <1>c, Multiples
        <5> QED
          BY <5>1, <1>0, <1>3, <1>c
      <4> QED
        BY <4>1, <4>2, <1>0
    <3> QED
      BY <3>1, <1>0, <1>1, <1>3, <1>6, <1>c
  <2>2. i \in 0 .. f - 1 /\ i * sc + sc <= f * sc
    BY <2>1, <1>0, <1>c, Multiples
  <2> DEFINE e == i * sc + sc
             t == Sealed!ChunkUnits(i, b, FALSE)
             g == file \o t
  <2>3. e \in Nat /\ i * sc <= e /\ e <= Len(img) /\ (i + 1) * sc = e
    BY <2>2, <1>0, <1>2, <1>3, <1>c
  <2>4. SubSeq(img, i * sc + 1, e) = t
    BY <2>2, <1>s, <1>6, Zenon
  <2> HIDE DEF e, t
  <2>5. Len(g) = e /\ g = SubSeq(img, 1, Len(g))
    BY <2>3, <2>4, <1>5, Zenon
  <2> HIDE DEF g
  <2>6. r + 1 = (i + 1) * CHUNK + 1
    BY <1>1, <1>3, <1>6, <1>c
  <2>7. Grown(n, g, i + 1, 1, r + 1, "copy")
    BY <2>3, <2>5, <2>6 DEF Grown, img, sc
  <2> QED
    BY <2>7 DEF g, t
<1>7. ASSUME r = n, NEW j, NEW c, NEW q
      PROVE  Grown(n, file \o Sealed!ChunkUnits(i, b, TRUE), j, c, q, "sync")
  <2>1. f = i /\ l = b
    BY <1>1, <1>7, OneCut DEF f, l
  <2> DEFINE e == Len(img)
             t == Sealed!ChunkUnits(i, b, TRUE)
             g == file \o t
  <2>2. SubSeq(img, i * sc + 1, e) = t
    BY <2>1, <1>s, Zenon
  <2>3. e \in Nat /\ i * sc <= e /\ e <= Len(img)
    BY <2>1, <1>0, <1>2, <1>c
  <2> HIDE DEF t
  <2>4. Len(g) = e /\ g = SubSeq(img, 1, Len(g))
    BY <2>2, <2>3, <1>5, Zenon
  <2> HIDE DEF g
  <2>5. Grown(n, g, j, c, q, "sync")
    BY <2>3, <2>4 DEF Grown, img
  <2> QED
    BY <2>5 DEF g, t
<1> QED
  BY <1>6, <1>7, Zenon

\* The units a sealed form begins with are those of every longer one.
LEMMA SameBeginning ==
  ASSUME FileSizes, NEW n \in Nat, NEW file, NEW i \in Nat, NEW b \in 0 .. CHUNK,
         file \in Seq(FileUnit), Grown(n, file, i, b, n, "copy")
  PROVE  Grown(n + 1, file, i, b, n, "copy")
<1> DEFINE sc == Sealed!SealedChunk
           img == Sealed!Image(n)
           more == Sealed!Image(n + 1)
           f == Sealed!FullChunks(n + 1)
           l == Sealed!LastLen(n + 1)
           k == i * sc
<1>1. /\ Len(file) <= Len(img) /\ file = SubSeq(img, 1, Len(file))
      /\ n = i * CHUNK + b /\ Len(file) = k /\ (b = 0 => n = 0)
  BY DEF Grown
<1>c. /\ sc \in Nat \ {0} /\ sc = CHUNK + TAG_LEN /\ CHUNK \in Nat \ {0} /\ TAG_LEN \in Nat \ {0}
  BY DEF FileSizes
<1>2. Sealed!FullChunks(n) = i /\ Sealed!LastLen(n) = b
  BY <1>1, OneCut
<1>3. ImageShape(img, i, b, sc)
  BY <1>2, ImageIs, Zenon
<1>n. n + 1 \in Nat
  OBVIOUS
<1>4. ImageShape(more, f, l, sc)
  BY <1>n, ImageIs, Zenon
<1>5. f \in Nat /\ l \in 0 .. CHUNK /\ n + 1 = f * CHUNK + l /\ f * CHUNK \in Nat
  BY <1>n, LastChunk, Zenon
<1> HIDE DEF sc, img, more, f, l
<1>6. k \in Nat /\ i * CHUNK \in Nat
  BY <1>c
<1>7. i <= f
  <2> SUFFICES ASSUME f < i
               PROVE  FALSE
    BY <1>5
  <2>1. f * CHUNK + CHUNK <= i * CHUNK
    BY <1>c, <1>5, Multiples
  <2> QED
    BY <2>1, <1>1, <1>5, <1>6, <1>c
<1>8. /\ img \in Seq(FileUnit) /\ more \in Seq(FileUnit)
      /\ Len(img) \in Nat /\ Len(more) \in Nat /\ k <= Len(img) /\ k <= Len(more)
  <2>1. img \in Seq(FileUnit) /\ Len(img) = i * sc + b + TAG_LEN
    BY <1>3, Zenon DEF ImageShape
  <2>2. more \in Seq(FileUnit) /\ Len(more) = f * sc + l + TAG_LEN /\ f * sc \in Nat
    BY <1>4, Zenon DEF ImageShape
  <2>3. k <= f * sc
    <3>1. CASE i = f
      BY <3>1, <1>6
    <3>2. CASE i < f
      <4>1. i * sc + sc <= f * sc
        BY <3>2, <1>5, <1>c, Multiples
      <4> QED
        BY <4>1, <2>2, <1>6, <1>c
    <3> QED
      BY <3>1, <3>2, <1>5, <1>7
  <2> QED
    BY <2>1, <2>2, <2>3, <1>5, <1>6, <1>c, LenProperties
<1> HIDE DEF k
<1>9. ASSUME NEW p \in 1 .. k
      PROVE  img[p] = more[p]
  <2> DEFINE m == p - 1
             j == m \div sc
             w == m % sc
             u == w + 1
  <2>1. m \in Nat /\ m < k
    BY <1>6
  <2> HIDE DEF m
  <2>2. j \in Nat /\ w \in 0 .. sc - 1 /\ m = j * sc + w
    BY <2>1, <1>c, Division, Zenon
  <2> HIDE DEF j, w
  <2>3. j * sc \in Nat
    BY <2>2, <1>c
  <2>4. j < i
    <3> SUFFICES ASSUME ~(j < i)
                 PROVE  FALSE
      OBVIOUS
    <3>1. CASE j = i
      BY <3>1, <2>1, <2>2, <2>3, <1>c DEF k
    <3>2. CASE i < j
      <4>1. i * sc + sc <= j * sc
        BY <3>2, <2>2, <1>c, Multiples
      <4>2. k + sc <= j * sc
        BY <4>1 DEF k
      <4> QED
        BY <4>2, <2>1, <2>2, <2>3, <1>6, <1>c
    <3> QED
      BY <3>1, <3>2, <2>2
  <2>5. j \in 0 .. i - 1 /\ j \in 0 .. f - 1 /\ u \in 1 .. CHUNK + TAG_LEN /\ p = j * sc + u
    <3>1. p = m + 1
      BY <1>6 DEF m
    <3> QED
      BY <3>1, <2>2, <2>3, <2>4, <1>5, <1>7, <1>c
  <2> HIDE DEF u
  <2>6. /\ SliceAt(img, j * sc, j, CHUNK, FALSE)
        /\ SliceAt(more, j * sc, j, CHUNK, FALSE)
    BY <2>5, <1>3, <1>4, Zenon DEF ImageShape
  <2>7. img[j * sc + u] = more[j * sc + u]
    BY <2>5, <2>6, Zenon DEF SliceAt
  <2> QED
    BY <2>5, <2>7, Zenon
<1> DEFINE a == SubSeq(img, 1, k)
           c == SubSeq(more, 1, k)
<1>10. a \in Seq(FileUnit) /\ Len(a) = k /\ \A p \in 1 .. k : a[p] = img[p]
  <2>1. \A p \in 1 .. k : p \in 1 .. Len(img)
    BY <1>6, <1>8
  <2>2. a \in Seq(FileUnit) /\ Len(a) = k
    BY <2>1, <1>6, <1>8, SubSeqProperties
  <2>3. \A p \in 1 .. k : a[p] = img[p]
    BY <2>1, <1>6, <1>8, SubSeqProperties
  <2> QED
    BY <2>2, <2>3
<1>11. c \in Seq(FileUnit) /\ Len(c) = k /\ \A p \in 1 .. k : c[p] = more[p]
  <2>1. \A p \in 1 .. k : p \in 1 .. Len(more)
    BY <1>6, <1>8
  <2>2. c \in Seq(FileUnit) /\ Len(c) = k
    BY <2>1, <1>6, <1>8, SubSeqProperties
  <2>3. \A p \in 1 .. k : c[p] = more[p]
    BY <2>1, <1>6, <1>8, SubSeqProperties
  <2> QED
    BY <2>2, <2>3
<1> HIDE DEF a, c
<1>12. a = c
  <2>1. \A p \in 1 .. k : a[p] = c[p]
    BY <1>9, <1>10, <1>11, Zenon
  <2> QED
    BY <2>1, <1>10, <1>11
<1>13. file = SubSeq(more, 1, Len(file)) /\ Len(file) <= Len(more)
  <2>1. file = a /\ Len(file) = k
    BY <1>1, Zenon DEF a
  <2>2. file = SubSeq(more, 1, k)
    BY <2>1, <1>12, Zenon DEF c
  <2> QED
    BY <2>1, <2>2, <1>8, Zenon
<1>14. n = i * CHUNK + b /\ Len(file) = i * sc /\ (b = 0 => n = 0)
  BY <1>1, Zenon DEF k
<1> QED
  BY <1>13, <1>14, Zenon DEF Grown, more, sc

FileHolds == FileTypes /\ FileGrows /\ FilePublished

-----------------------------------------------------------------------------
(* The steps.                                                              *)

\* Who does not write keeps what it has.
LEMMA GrowsOn ==
  ASSUME NEW n, NEW file, NEW i, NEW b, NEW r, NEW a, Grown(n, file, i, b, r, a),
         NEW a2, a2 = "copy" => a = "copy"
  PROVE  Grown(n, file, i, b, r, a2)
BY DEF Grown

\* What the assumption says of sizes and names.
LEMMA Sizes ==
  ASSUME Sealed!SealedFileAssumption
  PROVE  FileSizes /\ "original" \notin Sealers /\ "none" \notin Sealers
         /\ MaxLen \in Nat /\ MaxCrashes \in Nat
BY DEF Sealed!SealedFileAssumption, Sealed!None, FileSizes, Sealed!SealedChunk

\* A chunk's units are a file's.
LEMMA UnitsSeq ==
  ASSUME FileSizes, NEW i \in Nat, NEW b \in 0 .. CHUNK, NEW last \in BOOLEAN,
         NEW file \in Seq(FileUnit)
  PROVE  file \o Sealed!ChunkUnits(i, b, last) \in Seq(FileUnit)
<1>1. b \in Nat /\ TAG_LEN \in Nat
  BY DEF FileSizes
<1> DEFINE t == Sealed!ChunkUnits(i, b, last)
<1>2. t \in Seq(FileUnit)
  <2> DEFINE n == b + TAG_LEN
             F(u) == [chunk |-> i, last |-> last, of |-> b, unit |-> u - 1]
  <2>1. n \in Nat
    BY <1>1
  <2>2. \A u \in 1 .. n : F(u) \in FileUnit
    BY <2>1 DEF FileUnit
  <2>3. t = [u \in 1 .. n |-> F(u)]
    BY DEF Sealed!ChunkUnits
  <2> HIDE DEF n, F, t
  <2> QED
    BY <2>1, <2>2, <2>3
<1> HIDE DEF t
<1> QED
  BY <1>2 DEF t

\* What a sealer has, with its types.
LEMMA OwnCopy ==
  ASSUME FileHolds, NEW s \in Sealers
  PROVE  /\ v4[s] \in Seq(FileUnit) /\ v5[s] \in Nat /\ v6[s] \in 0 .. CHUNK /\ v7[s] \in Nat
         /\ v11[s] \in {"original"} \cup Sealers /\ v8[s] \in FilePlaces
         /\ Grown(v7[s], v4[s], v5[s], v6[s], v7[s], v8[s])
         /\ Fresh(v4[s], v5[s], v6[s], v7[s], v8[s])
         /\ v2 \in {"original"} \cup Sealers /\ v3 \in Sealers \cup {"none"}
         /\ v9 \in BOOLEAN /\ v10 \in 0 .. MaxCrashes
<1>1. /\ v4 \in [Sealers -> Seq(FileUnit)] /\ v5 \in [Sealers -> Nat]
      /\ v6 \in [Sealers -> 0 .. CHUNK] /\ v7 \in [Sealers -> Nat]
      /\ v8 \in [Sealers -> FilePlaces] /\ v11 \in [Sealers -> {"original"} \cup Sealers]
      /\ v2 \in {"original"} \cup Sealers /\ v3 \in Sealers \cup {"none"}
      /\ v9 \in BOOLEAN /\ v10 \in 0 .. MaxCrashes
  BY DEF FileHolds, FileTypes
<1>2. /\ Grown(v7[s], v4[s], v5[s], v6[s], v7[s], v8[s])
      /\ Fresh(v4[s], v5[s], v6[s], v7[s], v8[s])
  BY DEF FileHolds, FileGrows
<1> QED
  BY <1>1, <1>2

\* There is as much to read as there is.
LEMMA SizeIs ==
  ASSUME FileHolds, NEW o \in {"original"} \cup Sealers
  PROVE  Sealed!Size(o) \in Nat
<1>1. v1 \in Nat /\ v4 \in [Sealers -> Seq(FileUnit)]
  BY DEF FileHolds, FileTypes
<1> QED
  BY <1>1, LenProperties DEF Sealed!Size

\* What is left alone.
LEMMA LeftAlone ==
  ASSUME FileHolds, NEW s \in Sealers
  PROVE  /\ v4' = v4 => v4' = [v4 EXCEPT ![s] = v4[s]]
         /\ v5' = v5 => v5' = [v5 EXCEPT ![s] = v5[s]]
         /\ v6' = v6 => v6' = [v6 EXCEPT ![s] = v6[s]]
         /\ v7' = v7 => v7' = [v7 EXCEPT ![s] = v7[s]]
         /\ v8' = v8 => v8' = [v8 EXCEPT ![s] = v8[s]]
         /\ v11' = v11 => v11' = [v11 EXCEPT ![s] = v11[s]]
BY DEF FileHolds, FileTypes

\* What sealer s has after a step: the copy g, and o it is made from.
Owns(s, g, i, b, r, a, o) ==
  /\ v4' = [v4 EXCEPT ![s] = g] /\ v5' = [v5 EXCEPT ![s] = i] /\ v6' = [v6 EXCEPT ![s] = b]
  /\ v7' = [v7 EXCEPT ![s] = r] /\ v8' = [v8 EXCEPT ![s] = a] /\ v11' = [v11 EXCEPT ![s] = o]
OwnTypes(g, i, b, r, a, o) ==
  /\ g \in Seq(FileUnit) /\ i \in Nat /\ b \in 0 .. CHUNK /\ r \in Nat /\ a \in FilePlaces
  /\ o \in {"original"} \cup Sealers
  /\ Grown(r, g, i, b, r, a) /\ Fresh(g, i, b, r, a)

\* What it needs for the file to stay whole.
Links(s, g, r, a, o) ==
  /\ o \in Sealed!Placed
  /\ a = "copy" => r <= Sealed!Size(o)
  /\ a \in Late => r = Sealed!Size(o)
  /\ a = "sealed" => Back(r, g)
  /\ v2' = v2 \/ (a = "sealed" /\ v2' = s)

\* The others have what they had.
LEMMA OthersStay ==
  ASSUME FileHolds, NEW s \in Sealers, NEW g, NEW i, NEW b, NEW r, NEW a, NEW o,
         Owns(s, g, i, b, r, a, o)
  PROVE  /\ v4'[s] = g /\ v5'[s] = i /\ v6'[s] = b /\ v7'[s] = r /\ v8'[s] = a /\ v11'[s] = o
         /\ \A t \in Sealers \ {s} :
              /\ v4'[t] = v4[t] /\ v5'[t] = v5[t] /\ v6'[t] = v6[t]
              /\ v7'[t] = v7[t] /\ v8'[t] = v8[t] /\ v11'[t] = v11[t]
<1>1. /\ v4 \in [Sealers -> Seq(FileUnit)] /\ v5 \in [Sealers -> Nat]
      /\ v6 \in [Sealers -> 0 .. CHUNK] /\ v7 \in [Sealers -> Nat]
      /\ v8 \in [Sealers -> FilePlaces] /\ v11 \in [Sealers -> {"original"} \cup Sealers]
  BY DEF FileHolds, FileTypes
<1>2. v4'[s] = g /\ \A t \in Sealers \ {s} : v4'[t] = v4[t]
  BY <1>1 DEF Owns
<1>3. v5'[s] = i /\ \A t \in Sealers \ {s} : v5'[t] = v5[t]
  BY <1>1 DEF Owns
<1>4. v6'[s] = b /\ \A t \in Sealers \ {s} : v6'[t] = v6[t]
  BY <1>1 DEF Owns
<1>5. v7'[s] = r /\ \A t \in Sealers \ {s} : v7'[t] = v7[t]
  BY <1>1 DEF Owns
<1>6. v8'[s] = a /\ \A t \in Sealers \ {s} : v8'[t] = v8[t]
  BY <1>1 DEF Owns
<1>7. v11'[s] = o /\ \A t \in Sealers \ {s} : v11'[t] = v11[t]
  BY <1>1 DEF Owns
<1> QED
  BY <1>2, <1>3, <1>4, <1>5, <1>6, <1>7, Zenon

\* The chain from the file back to the plaintext only grows.
LEMMA ChainStays ==
  ASSUME FileHolds, ~v9, NEW s \in Sealers, v8[s] # "sealed", "original" \notin Sealers,
         NEW g, NEW i, NEW b, NEW r, NEW a, NEW o, Owns(s, g, i, b, r, a, o),
         Links(s, g, r, a, o), v1' = v1
  PROVE  Chain'
<1>1. Chain
  BY Zenon DEF FileHolds, FilePublished
<1>2. /\ v4'[s] = g /\ v7'[s] = r /\ v8'[s] = a /\ v11'[s] = o
      /\ \A t \in Sealers \ {s} :
           v4'[t] = v4[t] /\ v7'[t] = v7[t] /\ v8'[t] = v8[t] /\ v11'[t] = v11[t]
  <2>1. /\ v4'[s] = g /\ v5'[s] = i /\ v6'[s] = b /\ v7'[s] = r /\ v8'[s] = a /\ v11'[s] = o
        /\ \A t \in Sealers \ {s} :
             /\ v4'[t] = v4[t] /\ v5'[t] = v5[t] /\ v6'[t] = v6[t]
             /\ v7'[t] = v7[t] /\ v8'[t] = v8[t] /\ v11'[t] = v11[t]
    BY OthersStay, Zenon
  <2> QED
    BY <2>1, Zenon
<1>3. ASSUME NEW x \in Sealed!Placed
      PROVE  x \in Sealed!Placed' /\ Sealed!Size(x)' = Sealed!Size(x)
  <2>1. x # s /\ (x = "original" \/ (x \in Sealers /\ v8[x] = "sealed"))
    BY <1>3, Zenon DEF Sealed!Placed
  <2>2. CASE x = "original"
    BY <2>2, Zenon DEF Sealed!Placed, Sealed!Size
  <2>3. CASE x # "original"
    <3>1. v8'[x] = "sealed" /\ v4'[x] = v4[x] /\ x \in Sealers
      BY <2>1, <2>3, <1>2, Zenon
    <3>2. x \in Sealed!Placed'
      BY <3>1, Zenon DEF Sealed!Placed
    <3> QED
      BY <2>3, <3>1, <3>2, Zenon DEF Sealed!Size
  <2> QED
    BY <2>2, <2>3
<1>4. v2' \in Sealed!Placed'
  <2>1. CASE v2' = v2
    BY <2>1, <1>1, <1>3, Zenon DEF Chain
  <2>2. CASE a = "sealed" /\ v2' = s
    BY <2>2, <1>2, Zenon DEF Sealed!Placed
  <2> QED
    BY <2>1, <2>2, Zenon DEF Links
<1>5. ASSUME NEW t \in Sealers
      PROVE  Linked(t)'
  <2>1. ASSUME NEW x \in Sealed!Placed, v11'[t] = x,
               v8'[t] = "copy" => v7'[t] <= Sealed!Size(x),
               v8'[t] \in Late => v7'[t] = Sealed!Size(x),
               v8'[t] = "sealed" => Back(v7'[t], v4'[t])
        PROVE  Linked(t)'
    <3>1. x \in Sealed!Placed' /\ Sealed!Size(x)' = Sealed!Size(x)
      BY <1>3
    <3>2. Sealed!Size(v11[t])' = Sealed!Size(x)'
      BY <2>1, Zenon DEF Sealed!Size
    <3> QED
      BY <2>1, <3>1, <3>2, Zenon DEF Linked
  <2>2. CASE t = s
    <3>1. /\ o \in Sealed!Placed /\ v11'[t] = o
          /\ v8'[t] = "copy" => v7'[t] <= Sealed!Size(o)
          /\ v8'[t] \in Late => v7'[t] = Sealed!Size(o)
          /\ v8'[t] = "sealed" => Back(v7'[t], v4'[t])
      BY <2>2, <1>2, Zenon DEF Links
    <3> QED
      BY <2>1, <3>1, Zenon
  <2>3. CASE t # s
    <3>1. Linked(t)
      BY <1>1, Zenon DEF Chain
    <3>2. /\ v11[t] \in Sealed!Placed /\ v11'[t] = v11[t]
          /\ v8'[t] = "copy" => v7'[t] <= Sealed!Size(v11[t])
          /\ v8'[t] \in Late => v7'[t] = Sealed!Size(v11[t])
          /\ v8'[t] = "sealed" => Back(v7'[t], v4'[t])
      BY <2>3, <3>1, <1>2, Zenon DEF Linked
    <3> QED
      BY <2>1, <3>2, Zenon
  <2> QED
    BY <2>2, <2>3
<1> QED
  BY <1>4, <1>5, Zenon DEF Chain

\* A step of one sealer keeps the invariant.
LEMMA StepKeeps ==
  ASSUME Sealed!SealedFileAssumption, FileHolds, NEW s \in Sealers, v8[s] # "sealed",
         NEW g, NEW i, NEW b, NEW r, NEW a, NEW o,
         Owns(s, g, i, b, r, a, o), OwnTypes(g, i, b, r, a, o),
         v1' = v1, v2' \in {"original"} \cup Sealers, v3' \in {v3, s, "none"},
         v9' \in BOOLEAN, v10' \in 0 .. MaxCrashes,
         v3' = s => a \notin {"open", "create"} /\ (a = "rename" => Back(r, g)),
         ~v9' => ~v9 /\ Links(s, g, r, a, o)
  PROVE  FileHolds'
<1>0. "original" \notin Sealers /\ "none" \notin Sealers
  BY Sizes
<1>1. FileTypes'
  BY DEF FileHolds, FileTypes, Owns, OwnTypes
<1>2. /\ v4'[s] = g /\ v5'[s] = i /\ v6'[s] = b /\ v7'[s] = r /\ v8'[s] = a /\ v11'[s] = o
      /\ \A t \in Sealers \ {s} :
           /\ v4'[t] = v4[t] /\ v5'[t] = v5[t] /\ v6'[t] = v6[t]
           /\ v7'[t] = v7[t] /\ v8'[t] = v8[t] /\ v11'[t] = v11[t]
  BY OthersStay, Zenon
<1>3. FileGrows'
  <2>1. ASSUME NEW t \in Sealers
        PROVE  /\ Grown(v7'[t], v4'[t], v5'[t], v6'[t], v7'[t], v8'[t])
               /\ Fresh(v4'[t], v5'[t], v6'[t], v7'[t], v8'[t])
    <3>1. CASE t = s
      BY <3>1, <1>2, Zenon DEF OwnTypes
    <3>2. CASE t # s
      BY <3>2, <1>2, OwnCopy, Zenon
    <3> QED
      BY <3>1, <3>2
  <2> QED
    BY <2>1, Zenon DEF FileGrows
<1>4. ASSUME NEW t \in Sealers
      PROVE  /\ v8'[t] \in {"open", "create"} => v3' # t
             /\ v3' = t /\ v8'[t] = "rename" => Back(v7'[t], v4'[t])
  <2>1. CASE t = s
    BY <2>1, <1>2, Zenon
  <2>2. CASE t # s
    <3>1. v3' = t => v3 = t
      BY <2>2, <1>0
    <3>2. /\ v8[t] \in {"open", "create"} => v3 # t
          /\ v3 = t /\ v8[t] = "rename" => Back(v7[t], v4[t])
      BY Zenon DEF FileHolds, FilePublished
    <3> QED
      BY <2>2, <3>1, <3>2, <1>2, Zenon
  <2> QED
    BY <2>1, <2>2
<1>5. v9' \/ Chain'
  BY <1>0, ChainStays, Zenon
<1> QED
  BY <1>1, <1>3, <1>4, <1>5, Zenon DEF FileHolds, FilePublished

\* Who reads what was put in place reads on.
LEMMA LinksOn ==
  ASSUME FileHolds, NEW s \in Sealers, ~v9
  PROVE  /\ v11[s] \in Sealed!Placed /\ v2 \in Sealed!Placed
         /\ v8[s] = "copy" => v7[s] <= Sealed!Size(v11[s])
         /\ v8[s] \in Late => v7[s] = Sealed!Size(v11[s])
BY Zenon DEF FileHolds, FilePublished, Chain, Linked

\* The steps that write nothing and open nothing.
LEMMA QuietKeeps ==
  ASSUME Sealed!SealedFileAssumption, FileHolds, NEW s \in Sealers, v8[s] # "sealed",
         UNCHANGED <<v1, v4, v5, v6, v7, v10, v11>>,
         NEW place \in FilePlaces \ {"copy", "sealed"}, v8' = [v8 EXCEPT ![s] = place],
         place \in Early => v8[s] \in Early, place \in Late => v8[s] \in Late,
         v2' = v2, v9' = v9, v3' \in {v3, "none"},
         v3' = s => place \notin {"open", "create"} /\ (place = "rename" => Back(v7[s], v4[s]))
  PROVE  FileHolds'
<1>1. Owns(s, v4[s], v5[s], v6[s], v7[s], place, v11[s])
  BY LeftAlone, Zenon DEF Owns
<1>2. OwnTypes(v4[s], v5[s], v6[s], v7[s], place, v11[s])
  <2>1. Grown(v7[s], v4[s], v5[s], v6[s], v7[s], place)
    BY OwnCopy, GrowsOn
  <2>2. Fresh(v4[s], v5[s], v6[s], v7[s], place)
    BY OwnCopy, Zenon DEF Fresh
  <2> QED
    BY <2>1, <2>2, OwnCopy DEF OwnTypes
<1>3. ~v9' => ~v9 /\ Links(s, v4[s], v7[s], place, v11[s])
  BY LinksOn DEF Links
<1>4. v3' \in {v3, s, "none"} /\ v2' \in {"original"} \cup Sealers
      /\ v9' \in BOOLEAN /\ v10' \in 0 .. MaxCrashes
  BY OwnCopy
<1> QED
  BY <1>1, <1>2, <1>3, <1>4, StepKeeps, Zenon

\* Who begins has nothing.
LEMMA CheckPlainKeeps ==
  ASSUME Sealed!SealedFileAssumption, FileHolds, NEW s \in Sealers, Sealed!CheckPlain(s)
  PROVE  FileHolds'
<1>1. /\ v8[s] = "idle" /\ v8' = [v8 EXCEPT ![s] = "remove"]
      /\ UNCHANGED <<v1, v4, v5, v6, v7, v10, v11>> /\ UNCHANGED <<v2, v3, v9>>
  BY DEF Sealed!CheckPlain, Sealed!Go
<1>2. /\ "remove" \in FilePlaces \ {"copy", "sealed"} /\ "remove" \notin Late
      /\ "remove" \notin {"open", "create", "rename"} /\ v8[s] # "sealed" /\ v8[s] \in Early
  BY <1>1 DEF FilePlaces, Early, Late
<1> QED
  BY <1>1, <1>2, QuietKeeps

\* The stale copy's name is free.
LEMMA RemoveStaleKeeps ==
  ASSUME Sealed!SealedFileAssumption, FileHolds, NEW s \in Sealers, Sealed!RemoveStale(s)
  PROVE  FileHolds'
<1>1. /\ v8[s] = "remove" /\ v3' = "none" /\ v8' = [v8 EXCEPT ![s] = "open"]
      /\ UNCHANGED <<v1, v4, v5, v6, v7, v10, v11>> /\ UNCHANGED <<v2, v9>>
  BY DEF Sealed!RemoveStale, Sealed!Go, Sealed!None
<1>2. /\ "open" \in FilePlaces \ {"copy", "sealed"} /\ "open" \notin Late
      /\ v8[s] # "sealed" /\ v8[s] \in Early /\ v3' # s
  BY <1>1, Sizes DEF FilePlaces, Early, Late
<1> QED
  BY <1>1, <1>2, QuietKeeps

\* What is read is what is in place.
LEMMA OpenSourceKeeps ==
  ASSUME Sealed!SealedFileAssumption, FileHolds, NEW s \in Sealers, Sealed!OpenSource(s)
  PROVE  FileHolds'
<1>1. /\ v8[s] = "open" /\ v8' = [v8 EXCEPT ![s] = "create"]
      /\ v11' = [v11 EXCEPT ![s] = v2]
      /\ UNCHANGED <<v1, v4, v5, v6, v7, v10>> /\ UNCHANGED <<v2, v3, v9>>
  BY DEF Sealed!OpenSource, Sealed!Go
<1>2. Owns(s, v4[s], v5[s], v6[s], v7[s], "create", v2)
  BY <1>1, LeftAlone, Zenon DEF Owns
<1>3. OwnTypes(v4[s], v5[s], v6[s], v7[s], "create", v2)
  <2>1. Grown(v7[s], v4[s], v5[s], v6[s], v7[s], "create")
    <3>1. "create" # "copy"
      OBVIOUS
    <3> QED
      BY <3>1, OwnCopy, GrowsOn
  <2>2. Fresh(v4[s], v5[s], v6[s], v7[s], "create")
    <3>1. v8[s] \in Early
      BY <1>1 DEF Early
    <3> QED
      BY <3>1, OwnCopy, Zenon DEF Fresh
  <2>3. "create" \in FilePlaces
    BY DEF FilePlaces
  <2> QED
    BY <2>1, <2>2, <2>3, OwnCopy DEF OwnTypes
<1>4. ~v9' => ~v9 /\ Links(s, v4[s], v7[s], "create", v2)
  BY <1>1, LinksOn DEF Links, Late
<1>5. v3' # s
  BY <1>1, Zenon DEF FileHolds, FilePublished
<1>6. v3' \in {v3, s, "none"} /\ v2' \in {"original"} \cup Sealers
      /\ v9' \in BOOLEAN /\ v10' \in 0 .. MaxCrashes /\ v1' = v1 /\ v8[s] # "sealed"
  BY <1>1, OwnCopy
<1> QED
  BY <1>2, <1>3, <1>4, <1>5, <1>6, StepKeeps, Zenon

\* A sync changes where the sealer stands.
LEMMA SyncCopyKeeps ==
  ASSUME Sealed!SealedFileAssumption, FileHolds, NEW s \in Sealers, Sealed!SyncCopy(s)
  PROVE  FileHolds'
<1>1. /\ v8[s] = "sync" /\ v8' = [v8 EXCEPT ![s] = "verify"]
      /\ UNCHANGED <<v1, v4, v5, v6, v7, v10, v11>> /\ UNCHANGED <<v2, v3, v9>>
  BY DEF Sealed!SyncCopy, Sealed!Go
<1>2. /\ "verify" \in FilePlaces \ {"copy", "sealed"} /\ "verify" \notin Early
      /\ "verify" \notin {"open", "create", "rename"} /\ v8[s] # "sealed" /\ v8[s] \in Late
  BY <1>1 DEF FilePlaces, Early, Late
<1> QED
  BY <1>1, <1>2, QuietKeeps

\* A failure takes the name away.
LEMMA FailKeeps ==
  ASSUME Sealed!SealedFileAssumption, FileHolds, NEW s \in Sealers, Sealed!Fail(s)
  PROVE  FileHolds'
<1>1. /\ v8[s] \in {"open", "create", "copy", "sync", "verify"} /\ v3' = "none"
      /\ v8' = [v8 EXCEPT ![s] = "over"]
      /\ UNCHANGED <<v1, v4, v5, v6, v7, v10, v11>> /\ UNCHANGED <<v2, v9>>
  BY DEF Sealed!Fail, Sealed!Go, Sealed!None
<1>2. /\ "over" \in FilePlaces \ {"copy", "sealed"} /\ "over" \notin Early /\ "over" \notin Late
      /\ v8[s] # "sealed" /\ v3' # s
  BY <1>1, Sizes DEF FilePlaces, Early, Late
<1> QED
  BY <1>1, <1>2, QuietKeeps

\* What is verified may be renamed.
LEMMA VerifyKeeps ==
  ASSUME Sealed!SealedFileAssumption, FileHolds, NEW s \in Sealers, Sealed!Verify(s)
  PROVE  FileHolds'
<1>1. /\ v8[s] = "verify" /\ v8' = [v8 EXCEPT ![s] = "rename"]
      /\ UNCHANGED <<v1, v4, v5, v6, v7, v10, v11>> /\ UNCHANGED <<v2, v3, v9>>
      /\ Sealed!ReadsBack(v3)
  BY DEF Sealed!Verify, Sealed!Go
<1>a. Back(v7[v3], v4[v3])
  BY <1>1, Zenon DEF Sealed!ReadsBack, Back, Sealed!Plaintext
<1>2. /\ "rename" \in FilePlaces \ {"copy", "sealed"} /\ "rename" \notin Early
      /\ "rename" \notin {"open", "create"} /\ v8[s] # "sealed" /\ v8[s] \in Late
  BY <1>1 DEF FilePlaces, Early, Late
<1>3. v3' = s => Back(v7[s], v4[s])
  BY <1>1, <1>a, Zenon
<1> QED
  BY <1>1, <1>2, <1>3, QuietKeeps

\* What is renamed was verified, or is another's, or is not there.
LEMMA RenameKeeps ==
  ASSUME Sealed!SealedFileAssumption, FileHolds, NEW s \in Sealers, Sealed!Rename(s)
  PROVE  FileHolds'
<1>1. /\ v8[s] = "rename" /\ v3' = "none"
      /\ UNCHANGED <<v1, v4, v5, v6, v7, v10, v11>>
      /\ v3 = "none" => v8' = [v8 EXCEPT ![s] = "over"] /\ UNCHANGED <<v2, v9>>
      /\ v3 # "none" => /\ v8' = [v8 EXCEPT ![s] = "sealed"]
                        /\ v2' = v3 /\ v9' = (v9 \/ v3 # s)
  BY DEF Sealed!Rename, Sealed!Go, Sealed!None
<1>2. v8[s] # "sealed" /\ v3' # s
  BY <1>1, Sizes
<1>3. CASE v3 = "none"
  <2>1. /\ "over" \in FilePlaces \ {"copy", "sealed"} /\ "over" \notin Early
        /\ "over" \notin Late
    BY DEF FilePlaces, Early, Late
  <2> QED
    BY <1>1, <1>2, <1>3, <2>1, QuietKeeps
<1>4. CASE v3 # "none"
  <2>1. Owns(s, v4[s], v5[s], v6[s], v7[s], "sealed", v11[s])
    BY <1>1, <1>4, LeftAlone, Zenon DEF Owns
  <2>2. OwnTypes(v4[s], v5[s], v6[s], v7[s], "sealed", v11[s])
    <3>1. Grown(v7[s], v4[s], v5[s], v6[s], v7[s], "sealed")
      <4>1. "sealed" # "copy"
        OBVIOUS
      <4> QED
        BY <4>1, OwnCopy, GrowsOn
    <3>2. Fresh(v4[s], v5[s], v6[s], v7[s], "sealed") /\ "sealed" \in FilePlaces
      BY DEF Fresh, Early, FilePlaces
    <3> QED
      BY <3>1, <3>2, OwnCopy DEF OwnTypes
  <2>3. v9' = (v9 \/ v3 # s) /\ v2' = v3 /\ v3 \in Sealers
    BY <1>1, <1>4, OwnCopy
  <2>4. ASSUME ~v9'
        PROVE  ~v9 /\ Links(s, v4[s], v7[s], "sealed", v11[s])
    <3>1. ~v9 /\ v3 = s
      BY <2>3, <2>4
    <3>2. Back(v7[s], v4[s])
      BY <1>1, <3>1, Zenon DEF FileHolds, FilePublished
    <3>3. v8[s] \in Late /\ "sealed" # "copy"
      BY <1>1 DEF Late
    <3> QED
      BY <2>3, <3>1, <3>2, <3>3, LinksOn, Zenon DEF Links
  <2>5. v9' \in BOOLEAN /\ v2' \in {"original"} \cup Sealers /\ v10' \in 0 .. MaxCrashes
        /\ v1' = v1 /\ v3' \in {v3, s, "none"}
    BY <1>1, <2>3, OwnCopy
  <2> QED
    BY <1>2, <2>1, <2>2, <2>4, <2>5, StepKeeps, Zenon
<1> QED
  BY <1>3, <1>4

\* Nothing written is the beginning of every sealed form.
LEMMA EmptyGrown ==
  ASSUME FileSizes, NEW n \in Nat, NEW a
  PROVE  Grown(n, <<>>, 0, 0, 0, a)
<1>1. Sealed!Image(n) \in Seq(FileUnit) /\ Len(Sealed!Image(n)) \in Nat
  BY ImageSeq
<1>2. SubSeq(Sealed!Image(n), 1, 0) = <<>>
  <2>1. 0 \in 0 .. Len(Sealed!Image(n))
    BY <1>1
  <2>2. SubSeq(Sealed!Image(n), 1, 0) \in Seq(FileUnit) /\ Len(SubSeq(Sealed!Image(n), 1, 0)) = 0
    BY <1>1, <2>1, Begins
  <2> QED
    BY <2>2, EmptySeq
<1>3. 0 = 0 * Sealed!SealedChunk /\ 0 = 0 * CHUNK + 0
  BY DEF FileSizes
<1>4. Len(<<>>) = 0
  OBVIOUS
<1>5. Len(<<>>) <= Len(Sealed!Image(n))
  BY <1>1, <1>4
<1> QED
  BY <1>2, <1>3, <1>4, <1>5, Zenon DEF Grown

\* A copy starts empty.
LEMMA CreateCopyKeeps ==
  ASSUME Sealed!SealedFileAssumption, FileHolds, NEW s \in Sealers, Sealed!CreateCopy(s)
  PROVE  FileHolds'
<1>1. /\ v8[s] = "create" /\ UNCHANGED <<v1, v4, v5, v6, v7, v10, v11>> /\ UNCHANGED <<v2, v9>>
      /\ \/ v3 = "none" /\ v3' = s /\ v8' = [v8 EXCEPT ![s] = "copy"]
         \/ v3 # "none" /\ v3' = "none" /\ v8' = [v8 EXCEPT ![s] = "over"]
  BY DEF Sealed!CreateCopy, Sealed!Go, Sealed!None
<1>2. CASE v3' = s /\ v8' = [v8 EXCEPT ![s] = "copy"]
  <2>1. Owns(s, v4[s], v5[s], v6[s], v7[s], "copy", v11[s])
    BY <1>1, <1>2, LeftAlone, Zenon DEF Owns
  <2>2. v4[s] = <<>> /\ v5[s] = 0 /\ v6[s] = 0 /\ v7[s] = 0
    <3>1. v8[s] \in Early
      BY <1>1 DEF Early
    <3> QED
      BY <3>1, OwnCopy, Zenon DEF Fresh
  <2>3. OwnTypes(v4[s], v5[s], v6[s], v7[s], "copy", v11[s])
    <3>1. Grown(0, <<>>, 0, 0, 0, "copy")
      BY Sizes, EmptyGrown
    <3>2. Grown(v7[s], v4[s], v5[s], v6[s], v7[s], "copy")
      BY <2>2, <3>1, Zenon
    <3>3. Fresh(v4[s], v5[s], v6[s], v7[s], "copy") /\ "copy" \in FilePlaces
      BY DEF Fresh, Early, FilePlaces
    <3> QED
      BY <3>2, <3>3, OwnCopy DEF OwnTypes
  <2>4. ~v9' => ~v9 /\ Links(s, v4[s], v7[s], "copy", v11[s])
    <3>1. v7[s] <= Sealed!Size(v11[s])
      <4>1. v11[s] \in {"original"} \cup Sealers
        BY OwnCopy
      <4>2. Sealed!Size(v11[s]) \in Nat
        BY <4>1, SizeIs
      <4> QED
        BY <2>2, <4>2
    <3>2. "copy" \notin Late /\ "copy" # "sealed"
      BY DEF Late
    <3> QED
      BY <1>1, <3>1, <3>2, LinksOn DEF Links
  <2>5. v9' \in BOOLEAN /\ v2' \in {"original"} \cup Sealers /\ v10' \in 0 .. MaxCrashes
        /\ v1' = v1 /\ v3' \in {v3, s, "none"} /\ v8[s] # "sealed"
    BY <1>1, <1>2, OwnCopy
  <2>6. "copy" \notin {"open", "create"} /\ "copy" # "rename"
    OBVIOUS
  <2> QED
    BY <2>1, <2>3, <2>4, <2>5, <2>6, StepKeeps, Zenon
<1>3. CASE v3' = "none" /\ v8' = [v8 EXCEPT ![s] = "over"]
  <2>1. /\ "over" \in FilePlaces \ {"copy", "sealed"} /\ "over" \notin Early
        /\ "over" \notin Late /\ v3' # s /\ v8[s] # "sealed"
    BY <1>1, <1>3, Sizes DEF FilePlaces, Early, Late
  <2> QED
    BY <1>1, <1>3, <2>1, QuietKeeps
<1> QED
  BY <1>1, <1>2, <1>3

\* A sealer that writes goes on with its copy.
LEMMA WriterKeeps ==
  ASSUME Sealed!SealedFileAssumption, FileHolds, NEW s \in Sealers, v8[s] = "copy",
         NEW g \in Seq(FileUnit), NEW i \in Nat, NEW b \in 0 .. CHUNK, NEW r \in Nat,
         NEW a \in {"copy", "sync"}, Grown(r, g, i, b, r, a),
         v4' = [v4 EXCEPT ![s] = g], v5' = [v5 EXCEPT ![s] = i], v6' = [v6 EXCEPT ![s] = b],
         v7' = [v7 EXCEPT ![s] = r], v8' = [v8 EXCEPT ![s] = a], v11' = v11,
         v1' = v1, v2' = v2, v3' = v3, v9' = v9, v10' = v10,
         ~v9 => (IF a = "copy" THEN r <= Sealed!Size(v11[s]) ELSE r = Sealed!Size(v11[s]))
  PROVE  FileHolds'
<1>1. Owns(s, g, i, b, r, a, v11[s])
  BY LeftAlone, Zenon DEF Owns
<1>2. a \notin Early /\ a \in FilePlaces /\ a \notin {"open", "create", "rename", "sealed"}
      /\ (a = "copy" => a \notin Late)
  BY DEF Early, FilePlaces, Late
<1>3. OwnTypes(g, i, b, r, a, v11[s])
  BY <1>2, OwnCopy DEF OwnTypes, Fresh
<1>4. ~v9' => ~v9 /\ Links(s, g, r, a, v11[s])
  BY <1>2, LinksOn DEF Links
<1>5. v9' \in BOOLEAN /\ v2' \in {"original"} \cup Sealers /\ v10' \in 0 .. MaxCrashes
      /\ v1' = v1 /\ v3' \in {v3, s, "none"} /\ v8[s] # "sealed"
  BY OwnCopy
<1>6. v3' = s => a \notin {"open", "create"} /\ (a = "rename" => Back(r, g))
  BY <1>2
<1> QED
  BY <1>1, <1>3, <1>4, <1>5, <1>6, StepKeeps, Zenon

\* A full buffer becomes the next chunk.
LEMMA WritePlainKeeps ==
  ASSUME Sealed!SealedFileAssumption, FileHolds, NEW s \in Sealers, Sealed!WritePlain(s)
  PROVE  FileHolds'
<1> DEFINE r == v7[s]
           b == v6[s]
           i == v5[s]
<1>0. FileSizes /\ CHUNK \in Nat \ {0}
  BY Sizes DEF FileSizes
<1>1. /\ v8[s] = "copy" /\ r < Sealed!Size(v11[s])
      /\ UNCHANGED <<v1, v2, v3, v9>> /\ UNCHANGED <<v8, v10, v11>>
      /\ v7' = [v7 EXCEPT ![s] = r + 1]
  BY DEF Sealed!WritePlain
<1>a. v7' = [v7 EXCEPT ![s] = r + 1] /\ v8' = [v8 EXCEPT ![s] = "copy"]
      /\ v1' = v1 /\ v2' = v2 /\ v3' = v3 /\ v9' = v9 /\ v10' = v10 /\ v11' = v11
  BY <1>1, LeftAlone, Zenon
<1>2. /\ v4[s] \in Seq(FileUnit) /\ i \in Nat /\ b \in 0 .. CHUNK /\ r \in Nat
      /\ Grown(r, v4[s], i, b, r, "copy")
  BY <1>1, OwnCopy
<1>3. Grown(r + 1, v4[s], i, b, r, "copy")
  BY <1>0, <1>2, SameBeginning
<1>4. r + 1 \in Nat /\ r + 1 <= Sealed!Size(v11[s]) /\ r \in 0 .. r + 1 /\ r < r + 1
  <2>1. v11[s] \in {"original"} \cup Sealers
    BY OwnCopy
  <2>2. Sealed!Size(v11[s]) \in Nat
    BY <2>1, SizeIs
  <2> QED
    BY <1>1, <1>2, <2>2
<1>5. IF "copy" = "copy" THEN r + 1 <= Sealed!Size(v11[s]) ELSE r + 1 = Sealed!Size(v11[s])
  BY <1>4
<1>6. CASE b = CHUNK
  <2> DEFINE g == v4[s] \o Sealed!ChunkUnits(i, b, FALSE)
  <2>1. /\ v4' = [v4 EXCEPT ![s] = g] /\ v5' = [v5 EXCEPT ![s] = i + 1]
        /\ v6' = [v6 EXCEPT ![s] = 1]
    BY <1>6 DEF Sealed!WritePlain, Sealed!SealChunk
  <2>2. Grown(r + 1, g, i + 1, 1, r + 1, "copy")
    <3> DEFINE n == r + 1
    <3>1. n \in Nat /\ r \in 0 .. n /\ r < n /\ Grown(n, v4[s], i, b, r, "copy")
      BY <1>3, <1>4
    <3> HIDE DEF n
    <3>2. Grown(n, g, i + 1, 1, r + 1, "copy")
      BY <1>0, <1>2, <1>6, <3>1, ChunkGrows, Zenon
    <3> QED
      BY <3>2 DEF n
  <2> HIDE DEF g
  <2>3. i + 1 \in Nat /\ 1 \in 0 .. CHUNK
    BY <1>0, <1>2
  <2>4. g \in Seq(FileUnit)
    BY <1>0, <1>2, UnitsSeq DEF g
  <2> HIDE DEF i, b, r
  <2> QED
    BY <1>1, <1>a, <1>4, <1>5, <2>1, <2>2, <2>3, <2>4, WriterKeeps, Zenon
<1>7. CASE b # CHUNK
  <2>1. UNCHANGED <<v4, v5>> /\ v6' = [v6 EXCEPT ![s] = b + 1]
    BY <1>7 DEF Sealed!WritePlain
  <2>a. v6' = [v6 EXCEPT ![s] = b + 1]
    BY <2>1, Zenon
  <2>2. v4' = [v4 EXCEPT ![s] = v4[s]] /\ v5' = [v5 EXCEPT ![s] = i]
    BY <2>1, LeftAlone, Zenon
  <2>3. b + 1 \in 0 .. CHUNK /\ b \in Nat
    BY <1>0, <1>2, <1>7
  <2>4. Grown(r + 1, v4[s], i, b + 1, r + 1, "copy")
    <3>1. /\ Len(v4[s]) <= Len(Sealed!Image(r + 1))
          /\ v4[s] = SubSeq(Sealed!Image(r + 1), 1, Len(v4[s]))
          /\ r = i * CHUNK + b /\ Len(v4[s]) = i * Sealed!SealedChunk
      BY <1>3, Zenon DEF Grown
    <3>2. i * CHUNK \in Nat
      BY <1>0, <1>2
    <3> HIDE DEF i, b, r
    <3>3. r + 1 = i * CHUNK + (b + 1) /\ b + 1 # 0
      BY <3>1, <3>2, <2>3
    <3> QED
      BY <3>1, <3>3, Zenon DEF Grown
  <2> HIDE DEF i, b, r
  <2> QED
    BY <1>1, <1>a, <1>2, <1>4, <1>5, <2>a, <2>2, <2>3, <2>4, WriterKeeps, Zenon
<1> QED
  BY <1>6, <1>7

\* And what is left the last one.
LEMMA FinishKeeps ==
  ASSUME Sealed!SealedFileAssumption, FileHolds, NEW s \in Sealers, Sealed!Finish(s)
  PROVE  FileHolds'
<1> DEFINE r == v7[s]
           b == v6[s]
           i == v5[s]
           g == v4[s] \o Sealed!ChunkUnits(i, b, TRUE)
<1>0. FileSizes /\ CHUNK \in Nat \ {0}
  BY Sizes DEF FileSizes
<1>1. /\ v8[s] = "copy" /\ r >= Sealed!Size(v11[s]) /\ v8' = [v8 EXCEPT ![s] = "sync"]
      /\ UNCHANGED <<v1, v2, v3, v9>> /\ UNCHANGED <<v10, v11>> /\ UNCHANGED v7
      /\ v4' = [v4 EXCEPT ![s] = g] /\ v5' = [v5 EXCEPT ![s] = i + 1]
      /\ v6' = [v6 EXCEPT ![s] = 0]
  BY DEF Sealed!Finish, Sealed!SealChunk, Sealed!Go
<1>2. /\ v4[s] \in Seq(FileUnit) /\ i \in Nat /\ b \in 0 .. CHUNK /\ r \in Nat
      /\ Grown(r, v4[s], i, b, r, "copy")
  BY <1>1, OwnCopy
<1>3. v7' = [v7 EXCEPT ![s] = r]
  BY <1>1, LeftAlone, Zenon
<1>4. ~v9 => (IF "sync" = "copy" THEN r <= Sealed!Size(v11[s]) ELSE r = Sealed!Size(v11[s]))
  <2>1. Sealed!Size(v11[s]) \in Nat
    BY OwnCopy, SizeIs
  <2>2. ~v9 => r <= Sealed!Size(v11[s])
    BY <1>1, LinksOn
  <2> QED
    BY <1>1, <1>2, <2>1, <2>2
<1>5. Grown(r, g, i + 1, 0, r, "sync")
  <2>1. r \in 0 .. r
    BY <1>2
  <2> QED
    BY <1>0, <1>2, <2>1, ChunkGrows, Zenon
<1> HIDE DEF g
<1>6. i + 1 \in Nat /\ 0 \in 0 .. CHUNK
  BY <1>0, <1>2
<1>7. g \in Seq(FileUnit)
  BY <1>0, <1>2, UnitsSeq DEF g
<1>8. v1' = v1 /\ v2' = v2 /\ v3' = v3 /\ v9' = v9 /\ v10' = v10 /\ v11' = v11
  BY <1>1, Zenon
<1> HIDE DEF i, b, r
<1> QED
  BY <1>1, <1>2, <1>3, <1>4, <1>5, <1>6, <1>7, <1>8, WriterKeeps, Zenon

\* What is left of an unsynced copy is a shorter beginning.
LEMMA CrashKeeps ==
  ASSUME Sealed!SealedFileAssumption, FileHolds, NEW s \in Sealers, Sealed!Crash(s)
  PROVE  FileHolds'
<1>0. FileSizes /\ MaxCrashes \in Nat
  BY Sizes
<1>1. /\ v8[s] \notin {"idle", "sealed", "over"} /\ v8' = [v8 EXCEPT ![s] = "over"]
      /\ v10 < MaxCrashes /\ v10' = v10 + 1
      /\ UNCHANGED <<v1, v2, v3, v9>> /\ UNCHANGED <<v5, v6, v7, v11>>
      /\ IF v8[s] \in {"copy", "sync"}
         THEN \E n \in 0 .. Len(v4[s]) : v4' = [v4 EXCEPT ![s] = SubSeq(v4[s], 1, n)]
         ELSE UNCHANGED v4
  BY DEF Sealed!Crash, Sealed!Go
<1>2. /\ v4[s] \in Seq(FileUnit) /\ v7[s] \in Nat
      /\ Grown(v7[s], v4[s], v5[s], v6[s], v7[s], v8[s])
  BY OwnCopy
<1>3. "over" # "copy" /\ "over" \notin Early /\ "over" \notin Late /\ "over" \in FilePlaces
      /\ "over" \notin {"open", "create", "rename", "sealed"}
  BY DEF Early, Late, FilePlaces
<1>4. \E g \in Seq(FileUnit) : /\ v4' = [v4 EXCEPT ![s] = g]
                               /\ Grown(v7[s], g, v5[s], v6[s], v7[s], "over")
  <2>1. CASE v8[s] \in {"copy", "sync"}
    <3>1. PICK n \in 0 .. Len(v4[s]) : v4' = [v4 EXCEPT ![s] = SubSeq(v4[s], 1, n)]
      BY <1>1, <2>1
    <3>2. /\ Grown(v7[s], SubSeq(v4[s], 1, n), v5[s], v6[s], v7[s], "over")
          /\ SubSeq(v4[s], 1, n) \in Seq(FileUnit)
      BY <1>0, <1>2, <1>3, CutGrows
    <3> QED
      BY <3>1, <3>2, Zenon
  <2>2. CASE v8[s] \notin {"copy", "sync"}
    <3>1. v4' = [v4 EXCEPT ![s] = v4[s]]
      BY <1>1, <2>2, LeftAlone
    <3>2. Grown(v7[s], v4[s], v5[s], v6[s], v7[s], "over")
      BY <1>2, <1>3, GrowsOn, Zenon
    <3> QED
      BY <3>1, <3>2, <1>2, Zenon
  <2> QED
    BY <2>1, <2>2
<1>5. PICK g \in Seq(FileUnit) : /\ v4' = [v4 EXCEPT ![s] = g]
                                 /\ Grown(v7[s], g, v5[s], v6[s], v7[s], "over")
  BY <1>4
<1>6. Owns(s, g, v5[s], v6[s], v7[s], "over", v11[s])
  BY <1>1, <1>5, LeftAlone, Zenon DEF Owns
<1>7. OwnTypes(g, v5[s], v6[s], v7[s], "over", v11[s])
  BY <1>3, <1>5, OwnCopy DEF OwnTypes, Fresh
<1>8. ~v9' => ~v9 /\ Links(s, g, v7[s], "over", v11[s])
  BY <1>1, <1>3, LinksOn DEF Links
<1>9. v10' \in 0 .. MaxCrashes
  BY <1>0, <1>1, OwnCopy
<1>10. v9' \in BOOLEAN /\ v2' \in {"original"} \cup Sealers
       /\ v1' = v1 /\ v3' \in {v3, s, "none"} /\ v8[s] # "sealed"
  BY <1>1, OwnCopy
<1> QED
  BY <1>3, <1>6, <1>7, <1>8, <1>9, <1>10, StepKeeps, Zenon

\* Every step keeps the invariant.
LEMMA FileStays ==
  ASSUME Sealed!SealedFileAssumption, FileHolds, [Sealed!Next]_(Sealed!vars)
  PROVE  FileHolds'
<1>1. CASE Sealed!Next
  <2>1. PICK s \in Sealers :
          \/ Sealed!CheckPlain(s) \/ Sealed!RemoveStale(s) \/ Sealed!OpenSource(s)
          \/ Sealed!CreateCopy(s) \/ Sealed!WritePlain(s) \/ Sealed!Finish(s)
          \/ Sealed!SyncCopy(s) \/ Sealed!Fail(s) \/ Sealed!Verify(s) \/ Sealed!Rename(s)
          \/ Sealed!Crash(s)
    BY <1>1, Zenon DEF Sealed!Next
  <2> QED
    BY <2>1, CheckPlainKeeps, RemoveStaleKeeps, OpenSourceKeeps, CreateCopyKeeps,
       WritePlainKeeps, FinishKeeps, SyncCopyKeeps, FailKeeps, VerifyKeeps, RenameKeeps,
       CrashKeeps, Zenon
<1>2. CASE UNCHANGED Sealed!vars
  <2>1. UNCHANGED <<v1, v2, v3, v4, v5, v6, v7, v8, v9, v10, v11>>
    BY <1>2 DEF Sealed!vars
  <2>2. Chain' <=> Chain
    BY <2>1, Zenon DEF Chain, Linked, Sealed!Placed, Sealed!Size
  <2> QED
    BY <2>1, <2>2 DEF FileHolds, FileTypes, FileGrows, FilePublished
<1> QED
  BY <1>1, <1>2

\* And it holds at first.
LEMMA FileStarts ==
  ASSUME Sealed!SealedFileAssumption, Sealed!Init
  PROVE  FileHolds
<1>0. FileSizes /\ MaxCrashes \in Nat /\ MaxLen \in Nat /\ "none" \notin Sealers
  BY Sizes
<1>1. /\ v1 \in 0 .. MaxLen /\ v2 = "original" /\ v3 = "none" /\ v4 = [s \in Sealers |-> <<>>]
      /\ v5 = [s \in Sealers |-> 0] /\ v6 = [s \in Sealers |-> 0] /\ v7 = [s \in Sealers |-> 0]
      /\ v8 = [s \in Sealers |-> "idle"] /\ v9 = FALSE /\ v10 = 0
      /\ v11 = [s \in Sealers |-> "original"]
  BY DEF Sealed!Init, Sealed!None
<1>2. FileTypes
  <2>1. /\ v4 \in [Sealers -> Seq(FileUnit)] /\ v5 \in [Sealers -> Nat]
        /\ v6 \in [Sealers -> 0 .. CHUNK] /\ v7 \in [Sealers -> Nat]
    BY <1>0, <1>1 DEF FileSizes
  <2>2. v8 \in [Sealers -> FilePlaces] /\ v11 \in [Sealers -> {"original"} \cup Sealers]
    BY <1>1 DEF FilePlaces
  <2>3. v10 \in 0 .. MaxCrashes
    BY <1>0, <1>1
  <2> QED
    BY <2>1, <2>2, <2>3, <1>1, Zenon DEF FileTypes
<1>3. FilePublished
  <2>1. \A s \in Sealers : v8[s] = "idle" /\ v11[s] = "original"
    BY <1>1
  <2>2. "original" \in Sealed!Placed
    BY Zenon DEF Sealed!Placed
  <2>3. "idle" \notin {"copy", "sealed", "rename", "open", "create"} /\ "idle" \notin Late
    BY DEF Late
  <2>4. Chain
    BY <2>1, <2>2, <2>3, <1>1 DEF Chain, Linked
  <2> QED
    BY <2>1, <2>3, <2>4 DEF FilePublished
<1>4. FileGrows
  <2>1. ASSUME NEW s \in Sealers
        PROVE  /\ Grown(v7[s], v4[s], v5[s], v6[s], v7[s], v8[s])
               /\ Fresh(v4[s], v5[s], v6[s], v7[s], v8[s])
    <3>1. v4[s] = <<>> /\ v5[s] = 0 /\ v6[s] = 0 /\ v7[s] = 0
      BY <1>1
    <3>2. Grown(0, <<>>, 0, 0, 0, v8[s])
      BY <1>0, EmptyGrown
    <3> QED
      BY <3>1, <3>2, Zenon DEF Fresh
  <2> QED
    BY <2>1 DEF FileGrows
<1> QED
  BY <1>2, <1>3, <1>4 DEF FileHolds

\* The invariant says what the properties do.
LEMMA FileKept ==
  ASSUME Sealed!SealedFileAssumption, FileHolds
  PROVE  Sealed!FileIsWhole /\ Sealed!ReaderIsExact
<1>0. FileSizes
  BY Sizes
<1>1. Sealed!FileIsWhole
  <2>1. v9 \/ Chain
    BY Zenon DEF FileHolds, FilePublished
  <2>2. ASSUME Chain, NEW s \in Sealed!Placed \ {"original"}
        PROVE  Sealed!ReadsBack(s) /\ v7[s] = Sealed!Size(v11[s]) /\ v11[s] \in Sealed!Placed
    <3>1. s \in Sealers /\ v8[s] = "sealed"
      BY <2>2, Zenon DEF Sealed!Placed
    <3>2. Back(v7[s], v4[s]) /\ v11[s] \in Sealed!Placed
      BY <2>2, <3>1, Zenon DEF Chain, Linked
    <3>3. v7[s] = Sealed!Size(v11[s])
      BY <2>2, <3>1 DEF Chain, Linked, Late
    <3>4. Sealed!ReadsBack(s)
      BY <3>2, Zenon DEF Sealed!ReadsBack, Back, Sealed!Plaintext
    <3> QED
      BY <3>2, <3>3, <3>4
  <2>3. Chain => v2 \in Sealed!Placed
    BY Zenon DEF Chain
  <2> QED
    BY <2>1, <2>2, <2>3, Zenon DEF Sealed!FileIsWhole
<1>2. ASSUME NEW s \in Sealers, Sealed!OpensFile(v4[s])
      PROVE  /\ Sealed!Layout(v4[s]).plain = v7[s]
             /\ \A start \in 0 .. v7[s], n \in 0 .. v7[s] + 1 :
                  Sealed!ReadRange(v4[s], start, n)
                    = SubSeq(Sealed!Plaintext(v7[s]), start + 1,
                             Sealed!LeastOf(start + n, v7[s]))
  <2> DEFINE k == v7[s]
  <2>1. k \in Nat /\ v4[s] \in Seq(FileUnit) /\ Grown(k, v4[s], v5[s], v6[s], k, v8[s])
    BY OwnCopy
  <2> HIDE DEF k
  <2>2. /\ Len(v4[s]) <= Len(Sealed!Image(k)) /\ v4[s] = SubSeq(Sealed!Image(k), 1, Len(v4[s]))
        /\ Len(v4[s]) \in Nat
    BY <2>1, LenProperties DEF Grown
  <2>3. v4[s] = Sealed!Image(k)
    BY <2>1, <2>2, <1>0, <1>2, OpensWhole, Zenon
  <2>4. Sealed!Layout(v4[s]).plain = k
    BY <2>1, <2>3, <1>0, ImageLoads, Zenon
  <2>5. ASSUME NEW start \in 0 .. k, NEW n \in 0 .. k + 1
        PROVE  Sealed!ReadRange(v4[s], start, n)
                 = SubSeq(Sealed!Plaintext(k), start + 1, Sealed!LeastOf(start + n, k))
    <3>1. n \in Nat
      BY <2>1
    <3>2. Sealed!ReadRange(Sealed!Image(k), start, n)
            = SubSeq([j \in 1 .. k |-> j - 1], start + 1, Sealed!LeastOf(start + n, k))
      BY <3>1, <2>1, <1>0, ReadsAll, Zenon
    <3> QED
      BY <3>2, <2>3, Zenon DEF Sealed!Plaintext
  <2> QED
    BY <2>4, <2>5, Zenon DEF k
<1>3. Sealed!ReaderIsExact
  BY <1>2, Zenon DEF Sealed!ReaderIsExact
<1> QED
  BY <1>1, <1>3

\* sealed_file.rs: a file sealed in place is the plaintext or a whole sealed
\* form of what the file was, at every moment and after every crash, also when it is
\* sealed a second time, unless one sealer published the copy of another; a reader
\* opens only the whole, and reads every range of it as it was written.
THEOREM FileCorrect == StoreSpec => []SealedFileIsWhole
<1> DEFINE I == part = "file" => Sealed!FileInv
<1>1. Sealed!SealedFileAssumption
  BY StorePartsAssumption
<1>2. StoreInit => I
  BY <1>1, SealedPartStarts, FileStarts, FileInvIs DEF FileHolds
<1>3. I /\ [StoreNext]_vars => I'
  BY <1>1, SealedPartMoves, FileStays, FileInvIs DEF FileHolds
<1>4. I => SealedFileIsWhole
  BY <1>1, FileKept, FileInvIs DEF SealedFileIsWhole, FileHolds
<1> QED
  BY <1>2, <1>3, <1>4, PTL DEF StoreSpec

-----------------------------------------------------------------------------
(* The sealed log. It keeps LogInv (SealedLog): here v1 to v10 are header, *)
(* body, synced, writer, next, appends, durable, carried, careless, key.   *)

\* What the log is made of.
Piece == [key : Nat, index : Nat, record : Nat] \cup [torn : Log!Torn]

LEMMA RecIsRec ==
  ASSUME NEW k, NEW i, NEW r
  PROVE  Log!IsRec(Log!Rec(k, i, r))
<1> SUFFICES ASSUME NEW t, Log!Rec(k, i, r) = [torn |-> t]
             PROVE  FALSE
  BY DEF Log!IsRec
<1>1. DOMAIN Log!Rec(k, i, r) = {"key", "index", "record"}
  BY DEF Log!Rec
<1>2. DOMAIN [torn |-> t] = {"torn"}
  OBVIOUS
<1> QED
  BY <1>1, <1>2

\* A piece is a record's or a torn one.
LEMMA PieceIs ==
  ASSUME NEW p \in Piece
  PROVE  /\ Log!IsRec(p) => p \in [key : Nat, index : Nat, record : Nat]
         /\ ~Log!IsRec(p) => p \in {[torn |-> t] : t \in Log!Torn}
BY DEF Piece, Log!IsRec, Log!Torn

\* The greatest number of a set that has one.
LEMMA MaxIs ==
  ASSUME NEW S, S \subseteq Nat, NEW m \in S, \A n \in S : n <= m
  PROVE  Log!Max(S) = m
<1>1. m \in S /\ \A y \in S : m >= y
  OBVIOUS
<1> DEFINE P(x) == \A y \in S : x >= y
<1>2. P(CHOOSE x \in S : P(x)) /\ (CHOOSE x \in S : P(x)) \in S
  <2>1. \E x \in S : P(x)
    BY <1>1
  <2> HIDE DEF P
  <2> QED
    BY <2>1, Zenon
<1>3. Log!Max(S) = CHOOSE x \in S : P(x)
  BY DEF Log!Max
<1>4. Log!Max(S) \in S /\ \A y \in S : Log!Max(S) >= y
  BY <1>2, <1>3
<1>5. ASSUME NEW x \in S, \A y \in S : x >= y
      PROVE  x = m
  BY <1>5
<1> QED
  BY <1>4, <1>5, Zenon


LEMMA IsRecIs ==
  ASSUME NEW p \in Piece
  PROVE  Log!IsRec(p) \in BOOLEAN
BY Zenon DEF Log!IsRec

\* How many records come before a torn end of the pieces b.
WholeOf(b) == IF b # <<>> /\ ~Log!IsRec(b[Len(b)]) THEN Len(b) - 1 ELSE Len(b)

LEMMA WholeFacts ==
  ASSUME NEW b \in Seq(Piece)
  PROVE  /\ WholeOf(b) \in 0 .. Len(b)
         /\ Len(b) - 1 <= WholeOf(b)
         /\ WholeOf(b) # Len(b) => b # <<>> /\ ~Log!IsRec(b[Len(b)])
         /\ WholeOf(b) = Len(b) => b = <<>> \/ Log!IsRec(b[Len(b)])
<1>1. Len(b) \in Nat /\ (b # <<>> => Len(b) > 0)
  BY EmptySeq, LenProperties
<1>2. CASE b # <<>> /\ ~Log!IsRec(b[Len(b)])
  <2>1. WholeOf(b) = Len(b) - 1
    BY <1>2, Zenon DEF WholeOf
  <2> QED
    BY <1>1, <1>2, <2>1
<1>3. CASE ~(b # <<>> /\ ~Log!IsRec(b[Len(b)]))
  <2>1. WholeOf(b) = Len(b)
    BY <1>3, Zenon DEF WholeOf
  <2> QED
    BY <1>1, <1>3, <2>1
<1> QED
  BY <1>2, <1>3

\* The types of the log's variables.
LogTypes ==
  /\ v1 \in {"none", "torn", "whole"}
  /\ v2 \in Seq(Piece)
  /\ v3 \in 0 .. Len(v2)
  /\ v4 \in {"closed", "creating", "open", "failed"}
  /\ v5 \in Nat /\ v6 \in Nat /\ v10 \in Nat \ {0}
  /\ v7 \in Seq(Nat)
  /\ v8 \in Seq([records : Seq(Nat), durable : Seq(Nat)])

LEMMA Committed ==
  ASSUME LogTypes, Log!WholeAreRecords, NEW k \in Nat
  PROVE  Log!Committed(k) = IF Log!Whole = 0 \/ v2[1].key = k THEN Log!Whole ELSE 0
<1> DEFINE S == {n \in 0 .. Len(v2) : \A i \in 1 .. n : Log!Opens(k, i)}
           W == Log!Whole
<1>a. v2 \in Seq(Piece) /\ Len(v2) \in Nat
  BY LenProperties DEF LogTypes
<1>b. /\ W \in 0 .. Len(v2) /\ Len(v2) - 1 <= W
      /\ W # Len(v2) => ~Log!IsRec(v2[Len(v2)])
  BY <1>a, WholeFacts DEF WholeOf, Log!Whole
<1>c. S \subseteq Nat /\ 0 \in S
  BY <1>a
<1>d. \A i \in 1 .. W : Log!IsRec(v2[i]) /\ v2[i].key = v2[1].key /\ v2[i].index = i - 1
  BY DEF Log!WholeAreRecords
<1>e. Log!Committed(k) = Log!Max(S)
  BY DEF Log!Committed
<1>1. CASE W = 0 \/ v2[1].key = k
  <2>1. \A i \in 1 .. W : Log!Opens(k, i)
    BY <1>1, <1>b, <1>d DEF Log!Opens
  <2>2. W \in S
    BY <1>b, <2>1
  <2>3. ASSUME NEW n \in S
        PROVE  n <= W
    <3>1. n \in 0 .. Len(v2) /\ \A i \in 1 .. n : Log!IsRec(v2[i])
      BY DEF Log!Opens
    <3> HIDE DEF W, S
    <3> QED
      BY <1>a, <1>b, <3>1
  <2>4. Log!Max(S) = W
    <3> HIDE DEF S, W
    <3> QED
      BY <1>c, <2>2, <2>3, MaxIs
  <2> QED
    BY <1>1, <1>e, <2>4
<1>2. CASE ~(W = 0 \/ v2[1].key = k)
  <2>3. ASSUME NEW n \in S
        PROVE  n <= 0
    <3>1. n \in 0 .. Len(v2) /\ \A i \in 1 .. n : v2[i].key = k
      BY DEF Log!Opens
    <3> HIDE DEF W, S
    <3> QED
      BY <1>a, <1>2, <3>1
  <2>4. Log!Max(S) = 0
    <3> HIDE DEF S, W
    <3> QED
      BY <1>c, <2>3, MaxIs
  <2> QED
    BY <1>2, <1>e, <2>4
<1> QED
  BY <1>1, <1>2

\* How the records end, where c of them open.
LEMMA TailIs ==
  ASSUME v2 \in Seq(Piece), NEW k, NEW c \in 0 .. Len(v2), Log!Committed(k) = c
  PROVE  /\ "Clean" \in Log!Tails(k) => c = Len(v2)
         /\ c = Len(v2) => Log!Tails(k) = {"Clean"}
         /\ c = Len(v2) - 1 => Log!Tails(k) \in {{"Short"}, {"FinalFailed"}}
         /\ (c < Len(v2) /\ Log!IsRec(v2[c + 1])) =>
              Log!Tails(k) \in {{"FinalFailed"}, {"Corrupt"}}
<1> DEFINE rest == SubSeq(v2, c + 1, Len(v2))
           final == Len(rest) = 1
           short == rest[1] = [torn |-> "short"]
           zeros == rest[1] = [torn |-> "zeros"]
<1>a. Len(v2) \in Nat
  BY LenProperties
<1>b. /\ rest \in Seq(Piece)
      /\ Len(rest) = Len(v2) - c
      /\ Len(rest) > 0 => rest[1] = v2[c + 1]
      /\ rest = <<>> <=> c = Len(v2)
  <2>1. \A j \in c + 1 .. Len(v2) : v2[j] \in Piece
    BY <1>a, ElementOfSeq
  <2>2. /\ rest \in Seq(Piece)
        /\ Len(rest) = IF c + 1 <= Len(v2) THEN Len(v2) - (c + 1) + 1 ELSE 0
        /\ \A j \in 1 .. Len(v2) - (c + 1) + 1 : rest[j] = v2[c + 1 + j - 1]
    BY <1>a, <2>1, SubSeqProperties
  <2>3. rest = <<>> <=> Len(rest) = 0
    BY <2>2, EmptySeq
  <2> HIDE DEF rest
  <2> QED
    BY <1>a, <2>2, <2>3
<1>c. Log!Tails(k) =
        CASE rest = <<>> -> {"Clean"}
          [] rest # <<>> /\ short -> IF final THEN {"Short"} ELSE {"Short", "FinalFailed", "Corrupt"}
          [] rest # <<>> /\ zeros -> {IF final THEN "Short" ELSE "Corrupt"}
          [] OTHER -> {IF final THEN "FinalFailed" ELSE "Corrupt"}
  BY Zenon DEF Log!Tails
<1>d. ~(short /\ zeros)
  <2>1. [torn |-> "short"].torn = "short" /\ [torn |-> "zeros"].torn = "zeros"
    OBVIOUS
  <2>2. [torn |-> "short"] # [torn |-> "zeros"]
    BY <2>1, Zenon
  <2> QED
    BY <2>2 DEF short, zeros
<1>e. (c < Len(v2) /\ Log!IsRec(v2[c + 1])) => ~short /\ ~zeros
  BY <1>a, <1>b DEF Log!IsRec, Log!Torn
<1>f. final <=> c = Len(v2) - 1
  <2> HIDE DEF rest
  <2> QED
    BY <1>a, <1>b
<1> HIDE DEF rest, final, short, zeros
<1>1. CASE rest = <<>>
  <2>1. Log!Tails(k) = {"Clean"}
    BY <1>1, <1>c
  <2> QED
    BY <1>1, <1>a, <1>b, <2>1
<1>2. CASE rest # <<>> /\ short
  <2>1. Log!Tails(k) = IF final THEN {"Short"} ELSE {"Short", "FinalFailed", "Corrupt"}
    BY <1>2, <1>c, <1>d
  <2> QED
    BY <1>2, <1>a, <1>b, <1>e, <1>f, <2>1
<1>3. CASE rest # <<>> /\ zeros
  <2>1. Log!Tails(k) = {IF final THEN "Short" ELSE "Corrupt"}
    BY <1>3, <1>c, <1>d
  <2> QED
    BY <1>3, <1>a, <1>b, <1>e, <1>f, <2>1
<1>4. CASE rest # <<>> /\ ~short /\ ~zeros
  <2>1. Log!Tails(k) = {IF final THEN "FinalFailed" ELSE "Corrupt"}
    BY <1>4, <1>c
  <2> QED
    BY <1>4, <1>a, <1>b, <1>f, <2>1
<1> QED
  BY <1>1, <1>2, <1>3, <1>4

\* What a key reads of the log, if anything.
LEMMA ScansAre ==
  ASSUME LogTypes, Log!WholeAreRecords, NEW k \in Nat
  PROVE  /\ \A s \in Log!Scans(k) :
              /\ s.records = Log!Whole
              /\ s.tail = "Clean" => Log!Whole = Len(v2)
              /\ Log!Whole = 0 \/ v2[1].key = k
         /\ (Log!Whole > 0 /\ v2[1].key = k) => Log!Scans(k) # {}
<1> DEFINE W == Log!Whole
           c == Log!Committed(k)
<1>a. v2 \in Seq(Piece) /\ Len(v2) \in Nat
  BY LenProperties DEF LogTypes
<1>b. W \in 0 .. Len(v2) /\ Len(v2) - 1 <= W
  BY <1>a, WholeFacts DEF WholeOf, Log!Whole
<1>c. c = IF W = 0 \/ v2[1].key = k THEN W ELSE 0
  BY Committed
<1>d. W > 0 => Log!IsRec(v2[1])
  BY <1>b DEF Log!WholeAreRecords
<1>e. Log!Scans(k) =
        {[records |-> c, tail |-> t] :
           t \in Log!Tails(k) \ (IF c = 0 THEN {"Corrupt", "FinalFailed"} ELSE {"Corrupt"})}
  BY Zenon DEF Log!Scans
<1>f. c \in 0 .. Len(v2)
  <2> HIDE DEF W, c
  <2> QED
    BY <1>a, <1>b, <1>c
<1>g. /\ "Clean" \in Log!Tails(k) => c = Len(v2)
      /\ c = Len(v2) => Log!Tails(k) = {"Clean"}
      /\ c = Len(v2) - 1 => Log!Tails(k) \in {{"Short"}, {"FinalFailed"}}
      /\ (c < Len(v2) /\ Log!IsRec(v2[c + 1])) =>
           Log!Tails(k) \in {{"FinalFailed"}, {"Corrupt"}}
  BY <1>a, <1>f, TailIs
<1> HIDE DEF W, c
<1>1. CASE W = 0 \/ v2[1].key = k
  <2>1. c = W
    BY <1>1, <1>c
  <2>2. \A s \in Log!Scans(k) :
          s.records = W /\ (s.tail = "Clean" => W = Len(v2))
    BY <1>e, <1>g, <2>1
  <2>3. W > 0 => Log!Scans(k) # {}
    <3> SUFFICES ASSUME W > 0 PROVE Log!Scans(k) # {}
      OBVIOUS
    <3>1. c # 0
      BY <1>b, <2>1
    <3>2. c = Len(v2) \/ c = Len(v2) - 1
      BY <1>a, <1>b, <2>1
    <3>3. PICK t \in Log!Tails(k) : t # "Corrupt"
      BY <1>g, <3>2
    <3>4. [records |-> c, tail |-> t] \in Log!Scans(k)
      BY <1>e, <3>1, <3>3
    <3> QED
      BY <3>4
  <2> QED
    BY <1>1, <2>2, <2>3 DEF W
<1>2. CASE ~(W = 0 \/ v2[1].key = k)
  <2>1. c = 0 /\ W > 0
    BY <1>2, <1>b, <1>c
  <2>2. Log!Tails(k) \in {{"FinalFailed"}, {"Corrupt"}}
    BY <1>a, <1>b, <1>d, <1>g, <2>1
  <2>3. Log!Scans(k) = {}
    BY <1>e, <2>1, <2>2
  <2> QED
    BY <1>2, <2>3 DEF W
<1> QED
  BY <1>1, <1>2

\* So every opening reads the whole records, and there is one if there is one.
LEMMA OpenedAre ==
  ASSUME LogTypes, Log!WholeAreRecords
  PROVE  /\ \A o \in Log!Opened :
              /\ o.scan.records = Log!Whole
              /\ o.scan.tail = "Clean" => Log!Whole = Len(v2)
              /\ ~o.retired => Log!Whole = 0 \/ v2[1].key = v10
              /\ v1 = "whole"
         /\ (v1 = "whole" /\ Log!Whole > 0) => Log!Opened # {}
<1> DEFINE Under(k) == {[scan |-> s, retired |-> k # v10] : s \in Log!Scans(k)}
<1>a. v10 \in Nat \ {0}
  BY DEF LogTypes
<1>b. v2 \in Seq(Piece) /\ Len(v2) \in Nat
  BY LenProperties DEF LogTypes
<1>1. Log!Opened =
        IF v1 # "whole" THEN {}
        ELSE IF Log!Scans(v10) # {} THEN Under(v10)
             ELSE UNION {Under(k) : k \in 1 .. v10 - 1}
  BY Zenon DEF Log!Opened
<1>2. ASSUME NEW k \in 1 .. v10, NEW o \in Under(k)
      PROVE  /\ o.scan.records = Log!Whole
             /\ o.scan.tail = "Clean" => Log!Whole = Len(v2)
             /\ ~o.retired => Log!Whole = 0 \/ v2[1].key = v10
  <2>1. k \in Nat
    BY <1>a
  <2>2. PICK s \in Log!Scans(k) : o = [scan |-> s, retired |-> k # v10]
    BY Zenon
  <2>3. o.scan = s
    BY <2>2
  <2>4. ~o.retired => k = v10
    BY <2>2
  <2>5. /\ s.records = Log!Whole
        /\ s.tail = "Clean" => Log!Whole = Len(v2)
        /\ Log!Whole = 0 \/ v2[1].key = k
    BY <2>1, ScansAre
  <2> QED
    BY <2>3, <2>4, <2>5
<1>3. ASSUME NEW o \in Log!Opened
      PROVE  v1 = "whole" /\ \E k \in 1 .. v10 : o \in Under(k)
  <2>1. v10 \in 1 .. v10 /\ \A k \in 1 .. v10 - 1 : k \in 1 .. v10
    BY <1>a
  <2> HIDE DEF Under
  <2> QED
    BY <1>1, <2>1
<1>4. ASSUME v1 = "whole", Log!Whole > 0
      PROVE  Log!Opened # {}
  <2>1. Log!Whole \in Nat /\ v2[1].key \in 1 .. v10
    BY <1>4, <1>b, WholeFacts DEF WholeOf, Log!Whole, Log!WholeAreRecords
  <2>2. v2[1].key \in Nat /\ Log!Scans(v2[1].key) # {}
    BY <1>4, <2>1, ScansAre
  <2>3. Under(v2[1].key) # {}
    BY <2>2
  <2>4. CASE Log!Scans(v10) # {}
    <3>1. Under(v10) # {}
      BY <2>4
    <3> QED
      BY <1>1, <1>4, <2>4, <3>1, Zenon
  <2>5. CASE Log!Scans(v10) = {}
    <3>1. v2[1].key \in 1 .. v10 - 1
      BY <1>a, <2>1, <2>2, <2>5
    <3> HIDE DEF Under
    <3> QED
      BY <1>1, <1>4, <2>3, <2>5, <3>1
  <2> QED
    BY <2>4, <2>5
<1> QED
  BY <1>2, <1>3, <1>4

\* The first n pieces.
LEMMA LogCutIs ==
  ASSUME LogTypes, Log!WholeAreRecords, NEW n \in 0 .. Len(v2)
  PROVE  /\ SubSeq(v2, 1, n) \in Seq(Piece)
         /\ Len(SubSeq(v2, 1, n)) = n
         /\ \A i \in 1 .. n : SubSeq(v2, 1, n)[i] = v2[i]
         /\ n <= Log!Whole => WholeOf(SubSeq(v2, 1, n)) = n
<1> DEFINE b == SubSeq(v2, 1, n)
<1>a. v2 \in Seq(Piece) /\ Len(v2) \in Nat
  BY LenProperties DEF LogTypes
<1>1. \A i \in 1 .. n : v2[i] \in Piece
  BY <1>a, ElementOfSeq
<1>2. /\ b \in Seq(Piece)
      /\ Len(b) = IF 1 <= n THEN n - 1 + 1 ELSE 0
      /\ \A i \in 1 .. n - 1 + 1 : b[i] = v2[1 + i - 1]
  BY <1>a, <1>1, SubSeqProperties
<1> HIDE DEF b
<1>3. Len(b) = n /\ \A i \in 1 .. n : b[i] = v2[i]
  BY <1>a, <1>2
<1>4. ASSUME n <= Log!Whole
      PROVE  WholeOf(b) = n
  <2>1. Log!Whole \in Nat
    BY <1>a, WholeFacts DEF WholeOf, Log!Whole
  <2>2. n > 0 => Log!IsRec(v2[n])
    BY <1>a, <1>4, <2>1 DEF Log!WholeAreRecords
  <2>3. n > 0 => Log!IsRec(b[Len(b)])
    BY <1>a, <1>3, <2>2
  <2>4. b = <<>> \/ Log!IsRec(b[Len(b)])
    BY <1>a, <1>2, <1>3, <2>3, EmptySeq
  <2> QED
    BY <1>2, <1>3, <2>4, WholeFacts
<1> QED
  BY <1>2, <1>3, <1>4 DEF b

\* The whole records stay as they are if their pieces do.
LEMMA RecordsStay ==
  ASSUME LogTypes, Log!WholeAreRecords, Log!DurableIsWhole,
         v2' \in Seq(Piece), v6' = v6, v7' = v7, v10' \in Nat, v10 <= v10',
         WholeOf(v2') <= Log!Whole, Len(v7) <= WholeOf(v2'), Len(v7) <= v3',
         \A i \in 1 .. WholeOf(v2') : v2'[i] = v2[i]
  PROVE  Log!WholeAreRecords' /\ Log!DurableIsWhole'
<1>a. v2 \in Seq(Piece) /\ Len(v2) \in Nat /\ Len(v2') \in Nat /\ Len(v7) \in Nat
      /\ v10 \in Nat
  BY LenProperties DEF LogTypes
<1>b. Log!Whole \in Nat /\ WholeOf(v2') \in Nat
  BY <1>a, WholeFacts DEF WholeOf, Log!Whole
<1>c. Log!Whole' = WholeOf(v2')
  BY DEF Log!Whole, WholeOf
<1>1. Log!WholeAreRecords'
  <2> SUFFICES
        /\ \A i \in 1 .. WholeOf(v2') :
             /\ Log!IsRec(v2'[i])
             /\ v2'[i].key = v2'[1].key /\ v2'[i].key \in 1 .. v10'
             /\ v2'[i].index = i - 1
             /\ v2'[i].record \in 1 .. v6'
        /\ \A i, j \in 1 .. WholeOf(v2') : i < j => v2'[i].record < v2'[j].record
    BY <1>c DEF Log!WholeAreRecords, Log!IsRec
  <2>1. ASSUME NEW i \in 1 .. WholeOf(v2')
        PROVE  1 \in 1 .. WholeOf(v2') /\ i \in 1 .. Log!Whole
    BY <1>b
  <2>2. \A i \in 1 .. Log!Whole :
          /\ Log!IsRec(v2[i])
          /\ v2[i].key = v2[1].key /\ v2[i].key \in 1 .. v10
          /\ v2[i].index = i - 1
          /\ v2[i].record \in 1 .. v6
    BY DEF Log!WholeAreRecords
  <2>3. \A i, j \in 1 .. Log!Whole : i < j => v2[i].record < v2[j].record
    BY DEF Log!WholeAreRecords
  <2>4. \A x \in 1 .. v10 : x \in 1 .. v10'
    BY <1>a
  <2> QED
    BY <2>1, <2>2, <2>3, <2>4
<1>2. Log!DurableIsWhole'
  <2>1. \A i \in 1 .. Len(v7) : i \in 1 .. WholeOf(v2') /\ v7[i] = v2[i].record
    BY <1>a, <1>b DEF Log!DurableIsWhole
  <2>2. \A i \in 1 .. Len(v7) : v7[i] = v2'[i].record
    BY <2>1
  <2> QED
    BY <1>c, <2>2 DEF Log!DurableIsWhole
<1> QED
  BY <1>1, <1>2

\* What a log gives holds what was synced.
LEMMA RecordsHold ==
  ASSUME LogTypes, Log!WholeAreRecords, Log!DurableIsWhole
  PROVE  /\ Log!Records(Log!Whole) \in Seq(Nat)
         /\ Len(Log!Records(Log!Whole)) = Log!Whole
         /\ \A i \in 1 .. Log!Whole : Log!Records(Log!Whole)[i] = v2[i].record
         /\ Log!Holds(Log!Records(Log!Whole), v7)
<1> DEFINE W == Log!Whole
           r == Log!Records(W)
<1>a. /\ v2 \in Seq(Piece) /\ Len(v2) \in Nat /\ v7 \in Seq(Nat) /\ Len(v7) \in Nat
      /\ v6 \in Nat
  BY LenProperties DEF LogTypes
<1>b. W \in Nat
  BY <1>a, WholeFacts DEF WholeOf, Log!Whole
<1>c. /\ \A i \in 1 .. W : v2[i].record \in Nat
      /\ \A i, j \in 1 .. W : i < j => v2[i].record < v2[j].record
  BY <1>a DEF Log!WholeAreRecords
<1>d. Len(v7) <= W /\ \A i \in 1 .. Len(v7) : v7[i] = v2[i].record
  BY DEF Log!DurableIsWhole
<1>1. r = [i \in 1 .. W |-> v2[i].record]
  BY DEF Log!Records
<1> HIDE DEF W, r
<1>2. r \in [1 .. W -> Nat]
  BY <1>1, <1>c
<1>3. r \in Seq(Nat) /\ Len(r) = W /\ \A i \in 1 .. W : r[i] = v2[i].record
  <2>1. r \in Seq(Nat)
    BY <1>b, <1>2, SeqDef
  <2>2. DOMAIN r = 1 .. W /\ r \in [1 .. Len(r) -> Nat] /\ Len(r) \in Nat
    BY <1>2, <2>1, LenProperties
  <2> QED
    BY <1>1, <1>b, <2>1, <2>2
<1>4. Log!IsPrefix(v7, r)
  <2>1. /\ SubSeq(v7, 1, Len(v7)) = v7
        /\ SubSeq(r, 1, Len(v7)) \in Seq(Nat)
        /\ Len(SubSeq(r, 1, Len(v7))) = Len(v7)
        /\ \A i \in 1 .. Len(v7) : SubSeq(r, 1, Len(v7))[i] = r[i]
    <3>1. \A i \in 1 .. Len(v7) : i \in 1 .. Len(r) /\ r[i] \in Nat
      BY <1>a, <1>b, <1>c, <1>d, <1>3
    <3>2. /\ SubSeq(r, 1, Len(v7)) \in Seq(Nat)
          /\ Len(SubSeq(r, 1, Len(v7))) = IF 1 <= Len(v7) THEN Len(v7) - 1 + 1 ELSE 0
          /\ \A i \in 1 .. Len(v7) - 1 + 1 : SubSeq(r, 1, Len(v7))[i] = r[1 + i - 1]
      BY <1>a, <3>1, SubSeqProperties
    <3> DEFINE p == SubSeq(r, 1, Len(v7))
    <3> HIDE DEF p
    <3>3. p \in Seq(Nat) /\ Len(p) = Len(v7) /\ \A i \in 1 .. Len(v7) : p[i] = r[i]
      BY <1>a, <3>2 DEF p
    <3> QED
      BY <1>a, <3>3, SubSeqFull DEF p
  <2>2. \A i \in 1 .. Len(v7) : SubSeq(r, 1, Len(v7))[i] = v7[i]
    <3>1. \A i \in 1 .. Len(v7) : i \in 1 .. W
      BY <1>a, <1>b, <1>d
    <3>2. \A i \in 1 .. Len(v7) : r[i] = v2[i].record
      BY <1>3, <3>1
    <3> QED
      BY <1>d, <2>1, <3>2
  <2>3. SubSeq(r, 1, Len(v7)) = v7
    BY <1>a, <2>1, <2>2, SeqEqual
  <2> QED
    BY <1>d, <1>3, <2>1, <2>3, Zenon DEF Log!IsPrefix
<1>5. \A i, j \in 1 .. Len(r) : i < j => r[i] < r[j]
  BY <1>c, <1>3
<1>6. Log!Holds(r, v7)
  BY <1>4, <1>5 DEF Log!Holds
<1> QED
  BY <1>3, <1>6 DEF r, W

\* LogInv of a writer that was never careless.
CarriedHold ==
  \A i \in 1 .. Len(v8) : Log!Holds(v8[i].records, v8[i].durable)

LogFacts ==
  /\ LogTypes /\ Log!WholeAreRecords /\ Log!WriterIsAtTheEnd /\ Log!DurableIsWhole
  /\ CarriedHold

LEMMA LogInvIs == Log!LogInv <=> (~v9 => LogFacts)
BY DEF Log!LogInv, LogFacts, LogTypes, CarriedHold, Piece

LEMMA LogStarts ==
  ASSUME Log!Init
  PROVE  Log!LogInv
<1>1. /\ v1 = "none" /\ v2 = <<>> /\ v3 = 0 /\ v4 = "closed" /\ v5 = 0
      /\ v6 = 0 /\ v7 = <<>> /\ v8 = <<>> /\ v10 = 1
  BY DEF Log!Init
<1>2. Len(v2) = 0 /\ Len(v7) = 0 /\ Len(v8) = 0
  BY <1>1
<1>3. LogTypes
  BY <1>1, <1>2, EmptySeq DEF LogTypes
<1>4. Log!Whole = 0
  BY <1>1, <1>2, Zenon DEF Log!Whole
<1>5. Log!WholeAreRecords /\ Log!DurableIsWhole
  BY <1>1, <1>2, <1>4 DEF Log!WholeAreRecords, Log!DurableIsWhole
<1>6. Log!WriterIsAtTheEnd /\ CarriedHold
  BY <1>1, <1>2, <1>4 DEF Log!WriterIsAtTheEnd, CarriedHold
<1> QED
  BY <1>3, <1>5, <1>6, LogInvIs DEF LogFacts

\* The invariant gives the property.
LEMMA SyncedIsKept ==
  ASSUME Log!LogInv
  PROVE  Log!SyncedRecordsAreKept
<1> SUFFICES ASSUME ~v9
             PROVE  /\ v7 # <<>> => Log!Opened # {}
                    /\ \A o \in Log!Opened : Log!Holds(Log!Records(o.scan.records), v7)
                    /\ \A i \in 1 .. Len(v8) : Log!Holds(v8[i].records, v8[i].durable)
  BY DEF Log!SyncedRecordsAreKept
<1>1. LogFacts
  BY LogInvIs
<1>2. v7 # <<>> => v1 = "whole" /\ Log!Whole > 0
  <2>1. v2 \in Seq(Piece) /\ Len(v7) \in Nat /\ (v7 # <<>> => Len(v7) > 0)
    BY <1>1, EmptySeq, LenProperties DEF LogFacts, LogTypes
  <2>2. Log!Whole \in Nat
    BY <2>1, WholeFacts, LenProperties DEF WholeOf, Log!Whole
  <2> QED
    BY <1>1, <2>1, <2>2 DEF LogFacts, Log!WriterIsAtTheEnd, Log!DurableIsWhole
<1>3. v7 # <<>> => Log!Opened # {}
  BY <1>1, <1>2, OpenedAre DEF LogFacts
<1>4. \A o \in Log!Opened : Log!Holds(Log!Records(o.scan.records), v7)
  BY <1>1, OpenedAre, RecordsHold DEF LogFacts
<1> QED
  BY <1>1, <1>3, <1>4 DEF LogFacts, CarriedHold

\* A step that leaves the pieces and what was synced alone.
LEMMA PiecesStay ==
  ASSUME LogFacts, UNCHANGED <<v2, v3, v6, v7>>, v10' \in Nat, v10 <= v10'
  PROVE  Log!WholeAreRecords' /\ Log!DurableIsWhole' /\ Log!Whole' = Log!Whole
<1>1. v2' \in Seq(Piece) /\ v2 \in Seq(Piece)
  BY DEF LogFacts, LogTypes
<1>2. /\ Log!Whole = WholeOf(v2) /\ WholeOf(v2') = WholeOf(v2)
      /\ Log!Whole' = WholeOf(v2')
  BY DEF Log!Whole, WholeOf
<1>3. WholeOf(v2) \in Nat /\ Len(v7) <= WholeOf(v2) /\ Len(v7) <= v3'
  BY <1>1, <1>2, WholeFacts, LenProperties DEF LogFacts, Log!DurableIsWhole
<1>4. \A i \in 1 .. WholeOf(v2') : v2'[i] = v2[i]
  OBVIOUS
<1>5. WholeOf(v2') <= Log!Whole /\ Len(v7) <= WholeOf(v2')
  BY <1>2, <1>3
<1> QED
  BY <1>1, <1>2, <1>3, <1>4, <1>5, RecordsStay DEF LogFacts

\* The steps of a writer, one by one.
LEMMA LogCreates ==
  ASSUME LogFacts, Log!Create \/ Log!WriteHeader
  PROVE  LogFacts'
<1>1. UNCHANGED <<v2, v3, v6, v7, v8, v10>> /\ v10 <= v10' /\ v10' \in Nat
  BY DEF Log!Create, Log!WriteHeader, LogFacts, LogTypes
<1>2. Log!WholeAreRecords' /\ Log!DurableIsWhole' /\ Log!Whole' = Log!Whole
  BY <1>1, PiecesStay
<1>3. CarriedHold'
  BY <1>1 DEF LogFacts, CarriedHold
<1>4. LogTypes'
  BY <1>1 DEF Log!Create, Log!WriteHeader, LogFacts, LogTypes
<1>5. v1 # "whole" => v2 = <<>> /\ Log!Whole = 0 /\ Len(v2) = 0
  <2>1. v1 # "whole" => v2 = <<>> /\ Len(v2) = 0
    BY DEF LogFacts, Log!WriterIsAtTheEnd
  <2> QED
    BY <2>1, Zenon DEF Log!Whole
<1>6. Log!WriterIsAtTheEnd'
  <2>1. CASE Log!Create
    BY <2>1, <1>1 DEF Log!Create, LogFacts, Log!WriterIsAtTheEnd
  <2>2. CASE Log!WriteHeader
    <3>1. v1 # "whole"
      BY <2>2 DEF Log!WriteHeader, LogFacts, Log!WriterIsAtTheEnd
    <3> QED
      BY <2>2, <1>1, <1>2, <1>5, <3>1 DEF Log!WriteHeader, Log!WriterIsAtTheEnd
  <2> QED
    BY <2>1, <2>2
<1> QED
  BY <1>2, <1>3, <1>4, <1>6 DEF LogFacts

LEMMA LogRests ==
  ASSUME LogFacts, Log!Close \/ Log!ReplaceKey
  PROVE  LogFacts'
<1>1. /\ UNCHANGED <<v1, v2, v3, v5, v6, v7, v8>> /\ v10 <= v10' /\ v10' \in Nat \ {0}
      /\ v4' = "closed"
  BY DEF Log!Close, Log!ReplaceKey, LogFacts, LogTypes
<1>2. Log!WholeAreRecords' /\ Log!DurableIsWhole' /\ Log!Whole' = Log!Whole
  BY <1>1, PiecesStay
<1>3. CarriedHold'
  BY <1>1 DEF LogFacts, CarriedHold
<1>4. LogTypes'
  BY <1>1 DEF LogFacts, LogTypes
<1>5. Log!WriterIsAtTheEnd'
  BY <1>1 DEF LogFacts, Log!WriterIsAtTheEnd
<1> QED
  BY <1>2, <1>3, <1>4, <1>5 DEF LogFacts

LEMMA LogCompacts ==
  ASSUME LogFacts, Log!Compact
  PROVE  LogFacts'
<1>1. /\ UNCHANGED <<v1, v2, v3, v4, v5, v6, v7, v10>> /\ v10 <= v10' /\ v10' \in Nat
      /\ v4 = "closed"
  BY DEF Log!Compact, LogFacts, LogTypes
<1>2. Log!WholeAreRecords' /\ Log!DurableIsWhole' /\ Log!Whole' = Log!Whole
  BY <1>1, PiecesStay
<1>3. PICK o \in Log!Opened :
        v8' = <<[records |-> Log!Records(o.scan.records), durable |-> v7]>>
  BY DEF Log!Compact
<1>4. o.scan.records = Log!Whole /\ v1 = "whole"
  BY OpenedAre DEF LogFacts
<1> DEFINE r == Log!Records(Log!Whole)
           c == [records |-> r, durable |-> v7]
<1>5. r \in Seq(Nat) /\ Log!Holds(r, v7)
  BY RecordsHold DEF LogFacts
<1>6. v8' = <<c>>
  BY <1>3, <1>4
<1> HIDE DEF r
<1>7. c \in [records : Seq(Nat), durable : Seq(Nat)] /\ c.records = r /\ c.durable = v7
  BY <1>5 DEF LogFacts, LogTypes
<1> HIDE DEF c
<1>8. v8' \in Seq([records : Seq(Nat), durable : Seq(Nat)])
  BY <1>6, <1>7
<1>9. CarriedHold'
  <2>1. Len(v8') = 1 /\ v8'[1] = c
    BY <1>6
  <2>2. \A i \in 1 .. Len(v8') : v8'[i] = c
    BY <2>1
  <2> QED
    BY <1>5, <1>7, <2>2 DEF CarriedHold
<1>10. LogTypes'
  BY <1>1, <1>8 DEF LogFacts, LogTypes
<1>11. Log!WriterIsAtTheEnd'
  BY <1>1, <1>4 DEF LogFacts, Log!WriterIsAtTheEnd
<1> QED
  BY <1>2, <1>9, <1>10, <1>11 DEF LogFacts

LEMMA LogOpens ==
  ASSUME LogFacts, Log!OpenAppend
  PROVE  LogFacts'
<1>1. /\ UNCHANGED <<v1, v6, v7, v8, v10>> /\ v10 <= v10' /\ v10' \in Nat
      /\ v4' = "open"
  BY DEF Log!OpenAppend, LogFacts, LogTypes
<1>2. PICK o \in Log!Opened :
        /\ ~o.retired
        /\ v5' = o.scan.records
        /\ v2' = SubSeq(v2, 1, o.scan.records)
        /\ v3' = IF o.scan.tail = "Clean" THEN v3 ELSE Len(v2')
  BY Zenon DEF Log!OpenAppend
<1>a. /\ v2 \in Seq(Piece) /\ Len(v2) \in Nat /\ v3 \in 0 .. Len(v2) /\ Len(v7) \in Nat
      /\ Len(v7) <= v3 /\ Len(v7) <= Log!Whole
  BY LenProperties DEF LogFacts, LogTypes, Log!DurableIsWhole
<1>b. Log!Whole \in 0 .. Len(v2)
  BY <1>a, WholeFacts DEF WholeOf, Log!Whole
<1>3. /\ o.scan.records = Log!Whole
      /\ o.scan.tail = "Clean" => Log!Whole = Len(v2)
      /\ Log!Whole = 0 \/ v2[1].key = v10
      /\ v1 = "whole"
  BY <1>2, OpenedAre DEF LogFacts
<1>4. /\ v2' \in Seq(Piece) /\ Len(v2') = Log!Whole
      /\ \A i \in 1 .. Log!Whole : v2'[i] = v2[i]
      /\ WholeOf(v2') = Log!Whole
  BY <1>2, <1>3, <1>b, LogCutIs DEF LogFacts
<1>5. v3' \in 0 .. Len(v2') /\ Len(v7) <= v3'
  <2>1. CASE o.scan.tail = "Clean"
    BY <2>1, <1>2, <1>3, <1>4, <1>a
  <2>2. CASE o.scan.tail # "Clean"
    BY <2>2, <1>2, <1>4, <1>a, <1>b
  <2> QED
    BY <2>1, <2>2
<1>6. Log!WholeAreRecords' /\ Log!DurableIsWhole'
  BY <1>1, <1>4, <1>5, <1>a, <1>b, RecordsStay DEF LogFacts
<1>7. Log!Whole' = Log!Whole
  BY <1>4 DEF Log!Whole, WholeOf
<1>8. LogTypes'
  BY <1>1, <1>2, <1>3, <1>4, <1>5, <1>b DEF LogFacts, LogTypes
<1>9. Log!WriterIsAtTheEnd'
  <2>1. v2' # <<>> => v2'[1].key = v10'
    BY <1>1, <1>3, <1>4, <1>b, EmptySeq
  <2> QED
    BY <1>1, <1>2, <1>3, <1>4, <1>7, <2>1 DEF Log!WriterIsAtTheEnd
<1>10. CarriedHold'
  BY <1>1 DEF LogFacts, CarriedHold
<1> QED
  BY <1>6, <1>8, <1>9, <1>10 DEF LogFacts

\* A crash takes a tail that was not synced, and may leave one torn piece.
CutTo(n, t) == v2' = SubSeq(v2, 1, n) \o t

LEMMA CrashCuts ==
  ASSUME LogFacts, NEW n \in v3 .. Len(v2),
         NEW t \in Seq(Piece), t = <<>> \/ (Len(t) = 1 /\ ~Log!IsRec(t[1])),
         n = Len(v2) => t = <<>>,
         CutTo(n, t)
  PROVE  /\ v2' \in Seq(Piece)
         /\ n <= Len(v2')
         /\ WholeOf(v2') <= Log!Whole /\ Len(v7) <= WholeOf(v2')
         /\ \A i \in 1 .. WholeOf(v2') : v2'[i] = v2[i]
<1> DEFINE b == SubSeq(v2, 1, n)
<1>a. /\ v2 \in Seq(Piece) /\ Len(v2) \in Nat /\ v3 \in 0 .. Len(v2) /\ Len(v7) \in Nat
      /\ Len(v7) <= v3 /\ Len(v7) <= Log!Whole
  BY LenProperties DEF LogFacts, LogTypes, Log!DurableIsWhole
<1>b. Log!Whole \in 0 .. Len(v2) /\ Len(v2) - 1 <= Log!Whole /\ Log!Whole = WholeOf(v2)
  BY <1>a, WholeFacts DEF WholeOf, Log!Whole
<1>c. n \in 0 .. Len(v2) /\ n \in Nat
  BY <1>a
<1>d. /\ b \in Seq(Piece) /\ Len(b) = n /\ \A i \in 1 .. n : b[i] = v2[i]
      /\ n <= Log!Whole => WholeOf(b) = n
  BY <1>c, LogCutIs DEF LogFacts
<1>1. CASE n = Len(v2)
  <2>1. v2' = v2
    <3>1. b = v2
      BY <1>1, <1>a, SubSeqFull
    <3> QED
      BY <1>1, <1>a, <3>1, ConcatEmptySeq DEF CutTo
  <2> QED
    BY <2>1, <1>1, <1>a, <1>b
<1>2. CASE n # Len(v2) /\ t = <<>>
  <2>1. v2' = b
    BY <1>2, <1>d, ConcatEmptySeq DEF CutTo
  <2>2. n <= Log!Whole
    BY <1>2, <1>a, <1>b, <1>c
  <2> HIDE DEF b
  <2> QED
    BY <1>a, <1>c, <1>d, <2>1, <2>2
<1>3. CASE n # Len(v2) /\ t # <<>>
  <2>2. Len(t) = 1 /\ ~Log!IsRec(t[1])
    BY <1>3
  <2> HIDE DEF b
  <2>3. /\ b \o t \in Seq(Piece) /\ Len(b \o t) = n + 1
        /\ \A i \in 1 .. n + 1 : (b \o t)[i] = IF i <= n THEN b[i] ELSE t[i - n]
    <3>1. /\ b \o t \in Seq(Piece) /\ Len(b \o t) = Len(b) + Len(t)
          /\ \A i \in 1 .. Len(b) + Len(t) :
                (b \o t)[i] = IF i <= Len(b) THEN b[i] ELSE t[i - Len(b)]
      <4>1. b \in Seq(Piece)
        BY <1>d
      <4> QED
        BY <4>1, ConcatProperties, Zenon
    <3> DEFINE d == b \o t
    <3> HIDE DEF d
    <3>2. /\ d \in Seq(Piece) /\ Len(d) = n + 1
          /\ \A i \in 1 .. n + 1 : d[i] = IF i <= n THEN b[i] ELSE t[i - n]
      BY <1>d, <2>2, <3>1 DEF d
    <3> QED
      BY <3>2 DEF d
  <2>4. /\ v2' \in Seq(Piece) /\ Len(v2') = n + 1
        /\ \A i \in 1 .. n : v2'[i] = v2[i]
        /\ v2'[n + 1] = t[1]
    <3>1. v2' = b \o t
      BY DEF b, CutTo
    <3> QED
      BY <1>c, <1>d, <2>3, <3>1
  <2>5. WholeOf(v2') = n
    BY <1>c, <2>2, <2>4, WholeFacts
  <2>6. n <= Log!Whole
    BY <1>3, <1>a, <1>b, <1>c
  <2> QED
    BY <1>a, <1>c, <2>4, <2>5, <2>6
<1> QED
  BY <1>1, <1>2, <1>3

LEMMA LogCrashes ==
  ASSUME LogFacts, Log!Crash
  PROVE  LogFacts'
<1>1. /\ UNCHANGED <<v1, v5, v6, v7, v8, v10>> /\ v10 <= v10' /\ v10' \in Nat
      /\ v4' = "closed" /\ v3' = Len(v2')
  BY DEF Log!Crash, LogFacts, LogTypes
<1>2. PICK n \in v3 .. Len(v2), t \in {<<>>} \cup {<<[torn |-> x]>> : x \in Log!Torn} :
        /\ n = Len(v2) => t = <<>>
        /\ CutTo(n, t)
  BY Zenon DEF Log!Crash, CutTo
<1>b. t \in Seq(Piece) /\ (t = <<>> \/ (Len(t) = 1 /\ ~Log!IsRec(t[1])))
  <2>1. CASE t = <<>>
    BY <2>1, EmptySeq
  <2>2. CASE \E x \in Log!Torn : t = <<[torn |-> x]>>
    BY <2>2 DEF Piece, Log!IsRec
  <2> QED
    BY <2>1, <2>2
<1>3. /\ v2' \in Seq(Piece)
      /\ n <= Len(v2')
      /\ WholeOf(v2') <= Log!Whole /\ Len(v7) <= WholeOf(v2')
      /\ \A i \in 1 .. WholeOf(v2') : v2'[i] = v2[i]
  BY <1>2, <1>b, CrashCuts
<1>a. /\ Len(v2) \in Nat /\ Len(v2') \in Nat /\ v3 \in 0 .. Len(v2) /\ Len(v7) \in Nat
      /\ Len(v7) <= v3
  BY <1>3, LenProperties DEF LogFacts, LogTypes, Log!DurableIsWhole
<1>4. Len(v7) <= v3'
  BY <1>1, <1>3, <1>a
<1>5. Log!WholeAreRecords' /\ Log!DurableIsWhole'
  BY <1>1, <1>3, <1>4, RecordsStay DEF LogFacts
<1>6. LogTypes'
  BY <1>1, <1>3, <1>a DEF LogFacts, LogTypes
<1>7. Log!WriterIsAtTheEnd'
  <2>1. v1 # "whole" => v2 = <<>> /\ Len(v2) = 0 /\ n = 0 /\ t = <<>>
    BY <1>a, <1>2 DEF LogFacts, Log!WriterIsAtTheEnd
  <2>2. v1 # "whole" => v2' = <<>>
    <3>1. SubSeq(v2, 1, 0) = <<>>
      BY SubSeqEmpty
    <3> QED
      BY <2>1, <3>1, <1>2, EmptySeq, ConcatEmptySeq DEF CutTo
  <2> QED
    BY <1>1, <2>2 DEF LogFacts, Log!WriterIsAtTheEnd
<1>8. CarriedHold'
  BY <1>1 DEF LogFacts, CarriedHold
<1> QED
  BY <1>5, <1>6, <1>7, <1>8 DEF LogFacts

LEMMA LogSyncs ==
  ASSUME LogFacts, Log!Sync, ~v9
  PROVE  LogFacts'
<1>1. /\ UNCHANGED <<v1, v2, v4, v5, v6, v8, v10>>
      /\ v3' = Len(v2) /\ v4 = "open" /\ v7' = Log!Records(Len(v2))
  BY DEF Log!Sync
<1>2. Log!Whole = Len(v2)
  BY <1>1 DEF LogFacts, Log!WriterIsAtTheEnd
<1>a. v2 \in Seq(Piece) /\ Len(v2) \in Nat
  BY LenProperties DEF LogFacts, LogTypes
<1>3. /\ v7' \in Seq(Nat) /\ Len(v7') = Len(v2)
      /\ \A i \in 1 .. Len(v2) : v7'[i] = v2[i].record
  BY <1>1, <1>2, RecordsHold DEF LogFacts
<1>4. Log!Whole' = Log!Whole
  BY <1>1 DEF Log!Whole, Log!IsRec
<1>5. Log!WholeAreRecords'
  BY <1>1, <1>4 DEF LogFacts, Log!WholeAreRecords, Log!IsRec
<1>6. Log!DurableIsWhole'
  BY <1>1, <1>2, <1>3, <1>4, <1>a DEF Log!DurableIsWhole
<1>7. LogTypes'
  BY <1>1, <1>3, <1>a DEF LogFacts, LogTypes
<1>8. Log!WriterIsAtTheEnd'
  BY <1>1, <1>4 DEF LogFacts, Log!WriterIsAtTheEnd
<1>9. CarriedHold'
  BY <1>1 DEF LogFacts, CarriedHold
<1> QED
  BY <1>5, <1>6, <1>7, <1>8, <1>9 DEF LogFacts

\* One piece more: a record behind whole ones is whole, a torn one is not.
LEMMA LogOneMore ==
  ASSUME NEW b \in Seq(Piece), NEW p \in Piece
  PROVE  /\ Append(b, p) \in Seq(Piece) /\ Len(Append(b, p)) = Len(b) + 1
         /\ \A i \in 1 .. Len(b) : Append(b, p)[i] = b[i]
         /\ Append(b, p)[Len(b) + 1] = p
         /\ WholeOf(Append(b, p)) = IF Log!IsRec(p) THEN Len(b) + 1 ELSE Len(b)
<1> DEFINE c == Append(b, p)
<1>1. /\ c \in Seq(Piece) /\ Len(c) = Len(b) + 1 /\ c # <<>>
      /\ \A i \in 1 .. Len(b) : c[i] = b[i]
      /\ c[Len(b) + 1] = p
  BY AppendProperties
<1> HIDE DEF c
<1>2. c[Len(c)] = p /\ Len(b) \in Nat
  BY <1>1, LenProperties
<1>3. WholeOf(c) = IF Log!IsRec(p) THEN Len(b) + 1 ELSE Len(b)
  <2>1. CASE Log!IsRec(p)
    BY <2>1, <1>1, <1>2, WholeFacts
  <2>2. CASE ~Log!IsRec(p)
    BY <2>2, <1>1, <1>2, WholeFacts
  <2> QED
    BY <2>1, <2>2
<1> QED
  BY <1>1, <1>3 DEF c

LEMMA LogAppendFails ==
  ASSUME LogFacts, Log!AppendFails
  PROVE  LogFacts'
<1> DEFINE p == [torn |-> "short"]
<1>1. /\ UNCHANGED <<v1, v3, v5, v6, v7, v8, v10>> /\ v10 <= v10' /\ v10' \in Nat
      /\ v4 = "open" /\ v4' = "failed" /\ v2' = Append(v2, p)
  BY DEF Log!AppendFails, LogFacts, LogTypes
<1>a. /\ v2 \in Seq(Piece) /\ Len(v2) \in Nat /\ v3 \in 0 .. Len(v2) /\ Len(v7) \in Nat
      /\ Len(v7) <= v3 /\ Len(v7) <= Log!Whole
  BY LenProperties DEF LogFacts, LogTypes, Log!DurableIsWhole
<1>2. Log!Whole = Len(v2) /\ v1 = "whole"
  BY <1>1 DEF LogFacts, Log!WriterIsAtTheEnd
<1>b. p \in Piece /\ ~Log!IsRec(p)
  BY DEF Piece, Log!IsRec, Log!Torn
<1> HIDE DEF p
<1>3. /\ v2' \in Seq(Piece) /\ Len(v2') = Len(v2) + 1
      /\ \A i \in 1 .. Len(v2) : v2'[i] = v2[i]
      /\ WholeOf(v2') = Len(v2)
  BY <1>1, <1>a, <1>b, LogOneMore
<1>4. WholeOf(v2') <= Log!Whole /\ Len(v7) <= WholeOf(v2') /\ Len(v7) <= v3'
  BY <1>1, <1>2, <1>3, <1>a
<1>5. Log!WholeAreRecords' /\ Log!DurableIsWhole'
  <2>1. v6' = v6 /\ v7' = v7
    BY <1>1
  <2>2. \A i \in 1 .. WholeOf(v2') : v2'[i] = v2[i]
    BY <1>3
  <2> QED
    BY <1>1, <1>3, <1>4, <2>1, <2>2, RecordsStay DEF LogFacts
<1>6. LogTypes'
  BY <1>1, <1>3, <1>a DEF LogFacts, LogTypes
<1>7. Log!WriterIsAtTheEnd'
  BY <1>1, <1>2 DEF Log!WriterIsAtTheEnd
<1>8. CarriedHold'
  BY <1>1 DEF LogFacts, CarriedHold
<1> QED
  BY <1>5, <1>6, <1>7, <1>8 DEF LogFacts

LEMMA LogAppends ==
  ASSUME LogFacts, Log!AppendRecord, ~v9'
  PROVE  LogFacts'
<1> DEFINE p == Log!Rec(v10, v5, v6')
<1>1. /\ UNCHANGED <<v1, v3, v4, v7, v8, v10>>
      /\ v4 = "open" /\ v6' = v6 + 1 /\ v5' = v5 + 1 /\ v2' = Append(v2, p)
  BY DEF Log!AppendRecord
<1>a. /\ v2 \in Seq(Piece) /\ Len(v2) \in Nat /\ v3 \in 0 .. Len(v2) /\ Len(v7) \in Nat
      /\ Len(v7) <= v3 /\ Len(v7) <= Log!Whole
      /\ v5 \in Nat /\ v6 \in Nat /\ v10 \in Nat \ {0}
  BY LenProperties DEF LogFacts, LogTypes, Log!DurableIsWhole
<1>2. /\ Log!Whole = Len(v2) /\ v5 = Len(v2) /\ v1 = "whole"
      /\ v2 # <<>> => v2[1].key = v10
  BY <1>1 DEF LogFacts, Log!WriterIsAtTheEnd
<1>b. /\ p \in Piece /\ Log!IsRec(p)
      /\ p.key = v10 /\ p.index = Len(v2) /\ p.record = v6 + 1
  BY <1>1, <1>2, <1>a, RecIsRec DEF Piece, Log!Rec
<1> HIDE DEF p
<1>3. /\ v2' \in Seq(Piece) /\ Len(v2') = Len(v2) + 1
      /\ \A i \in 1 .. Len(v2) : v2'[i] = v2[i]
      /\ v2'[Len(v2) + 1] = p
      /\ WholeOf(v2') = Len(v2) + 1
  BY <1>1, <1>a, <1>b, LogOneMore
<1>4. Log!Whole' = Len(v2) + 1
  BY <1>3 DEF Log!Whole, WholeOf
<1>5. /\ \A i \in 1 .. Len(v2) :
           /\ Log!IsRec(v2[i])
           /\ v2[i].key = v10
           /\ v2[i].index = i - 1
           /\ v2[i].record \in 1 .. v6
      /\ \A i, j \in 1 .. Len(v2) : i < j => v2[i].record < v2[j].record
  <2>1. Len(v2) > 0 => v2 # <<>>
    BY <1>a, EmptySeq
  <2>2. \A i \in 1 .. Len(v2) : v2[i].key = v10
    BY <1>2, <1>a, <2>1 DEF LogFacts, Log!WholeAreRecords
  <2> QED
    BY <1>2, <2>2 DEF LogFacts, Log!WholeAreRecords
<1>6. \A i \in 1 .. Len(v2) + 1 :
        /\ Log!IsRec(v2'[i])
        /\ v2'[i].key = v10
        /\ v2'[i].index = i - 1
        /\ v2'[i].record \in 1 .. v6 + 1
  <2> TAKE i \in 1 .. Len(v2) + 1
  <2>1. CASE i = Len(v2) + 1
    <3>1. v2'[i] = p
      BY <2>1, <1>3
    <3> QED
      BY <2>1, <3>1, <1>a, <1>b
  <2>2. CASE i # Len(v2) + 1
    <3>1. i \in 1 .. Len(v2)
      BY <2>2, <1>a
    <3>2. v2'[i] = v2[i]
      BY <3>1, <1>3
    <3> QED
      BY <3>1, <3>2, <1>5, <1>a
  <2> QED
    BY <2>1, <2>2
<1>7. \A i, j \in 1 .. Len(v2) + 1 : i < j => v2'[i].record < v2'[j].record
  <2> TAKE i, j \in 1 .. Len(v2) + 1
  <2> HAVE i < j
  <2>1. i \in 1 .. Len(v2) /\ v2'[i] = v2[i] /\ v2[i].record \in 1 .. v6
    BY <1>3, <1>5, <1>a
  <2>2. CASE j = Len(v2) + 1
    <3>1. v2'[j].record = v6 + 1
      BY <2>2, <1>3, <1>b
    <3> QED
      BY <2>1, <3>1, <1>a
  <2>3. CASE j # Len(v2) + 1
    <3>1. j \in 1 .. Len(v2) /\ v2'[j] = v2[j]
      BY <2>3, <1>3, <1>a
    <3> QED
      BY <2>1, <3>1, <1>5
  <2> QED
    BY <2>2, <2>3
<1>8. Log!WholeAreRecords'
  <2>1. 1 \in 1 .. Len(v2) + 1 /\ v10 \in 1 .. v10
    BY <1>a
  <2>2. \A i \in 1 .. Len(v2) + 1 :
          /\ Log!IsRec(v2'[i])
          /\ v2'[i].key = v2'[1].key /\ v2'[i].key \in 1 .. v10'
          /\ v2'[i].index = i - 1
          /\ v2'[i].record \in 1 .. v6'
    BY <1>1, <1>6, <2>1
  <2> QED
    BY <1>4, <1>7, <2>2 DEF Log!WholeAreRecords, Log!IsRec
<1>9. Log!DurableIsWhole'
  <2>1. \A i \in 1 .. Len(v7) : i \in 1 .. Len(v2) /\ v7[i] = v2[i].record
    BY <1>2, <1>a DEF LogFacts, Log!DurableIsWhole
  <2>2. \A i \in 1 .. Len(v7) : v7[i] = v2'[i].record
    BY <2>1, <1>3
  <2> QED
    BY <1>1, <1>2, <1>4, <1>a, <2>2 DEF Log!DurableIsWhole
<1>10. LogTypes'
  BY <1>1, <1>3, <1>a DEF LogFacts, LogTypes
<1>11. Log!WriterIsAtTheEnd'
  <2>1. v2'[1].key = v10'
    BY <1>1, <1>6, <1>a
  <2> QED
    BY <1>1, <1>2, <1>3, <1>4, <2>1 DEF Log!WriterIsAtTheEnd
<1>12. CarriedHold'
  BY <1>1 DEF LogFacts, CarriedHold
<1> QED
  BY <1>8, <1>9, <1>10, <1>11, <1>12 DEF LogFacts

\* Every step of a log keeps it.
LEMMA LogStays ==
  ASSUME Log!LogInv, [Log!Next]_(Log!vars)
  PROVE  Log!LogInv'
<1> SUFFICES ASSUME ~v9'
             PROVE  LogFacts'
  BY LogInvIs, PTL
<1>1. ~v9
  BY DEF Log!Next, Log!vars, Log!Create, Log!WriteHeader, Log!OpenAppend, Log!AppendRecord,
    Log!AppendFails, Log!Sync, Log!Close, Log!Crash, Log!ReplaceKey, Log!Compact
<1>2. LogFacts
  BY <1>1, LogInvIs
<1>3. CASE UNCHANGED Log!vars
  <2>1. UNCHANGED <<v1, v2, v3, v4, v5, v6, v7, v8, v10>> /\ v10 <= v10' /\ v10' \in Nat
    BY <1>2, <1>3 DEF Log!vars, LogFacts, LogTypes
  <2>2. Log!WholeAreRecords' /\ Log!DurableIsWhole' /\ Log!Whole' = Log!Whole
    BY <1>2, <2>1, PiecesStay
  <2> QED
    BY <1>2, <2>1, <2>2 DEF LogFacts, LogTypes, Log!WriterIsAtTheEnd, CarriedHold
<1> QED
  BY <1>1, <1>2, <1>3, LogCreates, LogRests, LogCompacts, LogOpens, LogCrashes, LogSyncs,
    LogAppendFails, LogAppends DEF Log!Next

\* sealed_log.rs: every opening of a log gives all the records that were
\* synced, in the order they were appended, and so does what a compaction made
\* of it, whatever crashes lost or tore and whatever keys were retired, for a
\* writer that does not go on after an append that failed: for any number of
\* records, keys and crashes.
THEOREM LogCorrect == StoreSpec => []SyncedRecordsAreKept
<1> DEFINE Inv == part = "log" => Log!LogInv
<1>1. StoreInit => Inv
  BY SealedPartStarts, LogStarts
<1>2. Inv /\ [StoreNext]_vars => Inv'
  BY SealedPartMoves, LogStays
<1>3. Inv => SyncedRecordsAreKept
  BY SyncedIsKept DEF SyncedRecordsAreKept
<1> HIDE DEF Inv
<1> QED
  BY <1>1, <1>2, <1>3, PTL DEF StoreSpec

-----------------------------------------------------------------------------
(* What the variables are: the file's types are among what it keeps, the   *)
(* log's are shown here also for a writer that goes on after an append     *)
(* that failed.                                                            *)

\* The log: a record was sealed for an index that some append had.
LogTyped ==
  /\ v1 \in {"none", "torn", "whole"}
  /\ v2 \in Seq(Piece)
  /\ v3 \in 0 .. Len(v2)
  /\ v4 \in {"closed", "creating", "open", "failed"}
  /\ v5 \in 0 .. v6
  /\ v6 \in 0 .. MaxRecords
  /\ v10 \in 1 .. MaxKey

IndexesUnder(pieces, n) ==
  \A i \in 1 .. Len(pieces) : Log!IsRec(pieces[i]) => pieces[i].index < n

IndexesAreUsed == IndexesUnder(v2, v6)

LEMMA LogTypesAre ==
  ASSUME Log!SealedLogAssumption, LogTyped, IndexesAreUsed
  PROVE  Log!TypeOK
<1>1. \A i \in 1 .. Len(v2) : v2[i] \in Piece
  BY ElementOfSeq DEF LogTyped
<1>2. ASSUME NEW i \in 1 .. Len(v2), Log!IsRec(v2[i])
      PROVE  v2[i].index \in 0 .. MaxRecords
  <2>1. v2[i].index \in Nat
    BY <1>1, <1>2, PieceIs
  <2>2. v2[i].index < v6 /\ v6 \in 0 .. MaxRecords /\ MaxRecords \in Nat
    BY <1>2 DEF IndexesAreUsed, IndexesUnder, LogTyped, Log!SealedLogAssumption
  <2> HIDE DEF Log!IsRec
  <2> QED
    BY <2>1, <2>2
<1>3. Len(v2) \in Nat
  BY LenProperties DEF LogTyped
<1> QED
  BY <1>2, <1>3 DEF LogTyped, Log!TypeOK

LEMMA LogTypedInit ==
  ASSUME Log!SealedLogAssumption, Log!Init
  PROVE  LogTyped /\ IndexesAreUsed
BY EmptySeq DEF Log!SealedLogAssumption, Log!Init, LogTyped, IndexesAreUsed, IndexesUnder

\* The greatest number of a bounded set is one of it.
LEMMA MaxIsIn ==
  ASSUME NEW S, NEW n \in Nat, S \subseteq 0 .. n, S # {}
  PROVE  Log!Max(S) \in S
<1>1. PICK g \in S : \A k \in S : k <= g
  BY GreatestIsThere
<1>2. \E x \in S : \A y \in S : x >= y
  BY <1>1
<1> QED
  BY <1>2, Zenon DEF Log!Max

\* What a key commits to is an index that was used, or the first.
LEMMA CommittedIs ==
  ASSUME LogTyped, IndexesAreUsed, NEW k
  PROVE  Log!Committed(k) \in 0 .. Len(v2) /\ Log!Committed(k) <= v6
<1> DEFINE S == {n \in 0 .. Len(v2) : \A i \in 1 .. n : Log!Opens(k, i)}
<1>a. Len(v2) \in Nat /\ v6 \in Nat
  BY LenProperties DEF LogTyped
<1>1. S \subseteq 0 .. Len(v2) /\ 0 \in S
  BY <1>a
<1>2. Log!Max(S) \in S
  <2> HIDE DEF S
  <2> QED
    BY <1>a, <1>1, MaxIsIn
<1>3. Log!Committed(k) = Log!Max(S)
  BY DEF Log!Committed
<1>4. PICK n \in 0 .. Len(v2) : n = Log!Max(S) /\ \A i \in 1 .. n : Log!Opens(k, i)
  BY <1>2
<1>5. n <= v6
  <2>1. CASE n = 0
    BY <2>1, <1>a
  <2>2. CASE n # 0
    <3>1. n \in 1 .. n /\ n \in 1 .. Len(v2)
      BY <2>2, <1>a
    <3>2. Log!IsRec(v2[n]) /\ v2[n].index = n - 1
      BY <1>4, <3>1 DEF Log!Opens
    <3>3. n - 1 < v6
      BY <3>1, <3>2 DEF IndexesAreUsed, IndexesUnder
    <3> QED
      BY <1>a, <3>3
  <2> QED
    BY <2>1, <2>2
<1> QED
  BY <1>3, <1>4, <1>5

\* The first n pieces, whatever they are.
LEMMA FirstPieces ==
  ASSUME NEW b \in Seq(Piece), NEW n \in 0 .. Len(b)
  PROVE  /\ SubSeq(b, 1, n) \in Seq(Piece)
         /\ Len(SubSeq(b, 1, n)) = n
         /\ \A i \in 1 .. n : SubSeq(b, 1, n)[i] = b[i]
<1> DEFINE c == SubSeq(b, 1, n)
<1>a. Len(b) \in Nat
  BY LenProperties
<1>1. \A i \in 1 .. n : b[i] \in Piece
  BY <1>a, ElementOfSeq
<1>2. /\ c \in Seq(Piece)
      /\ Len(c) = IF 1 <= n THEN n - 1 + 1 ELSE 0
      /\ \A i \in 1 .. n - 1 + 1 : c[i] = b[1 + i - 1]
  BY <1>a, <1>1, SubSeqProperties
<1> HIDE DEF c
<1>3. Len(c) = n /\ \A i \in 1 .. n : c[i] = b[i]
  BY <1>a, <1>2
<1> QED
  BY <1>2, <1>3 DEF c

LEMMA LogTypedOpens ==
  ASSUME LogTyped, IndexesAreUsed, Log!OpenAppend
  PROVE  LogTyped' /\ IndexesAreUsed'
<1>1. UNCHANGED <<v1, v6, v10>> /\ v4' = "open"
  BY DEF Log!OpenAppend
<1>2. PICK o \in Log!Opened :
        /\ ~o.retired
        /\ v5' = o.scan.records
        /\ v2' = SubSeq(v2, 1, o.scan.records)
        /\ v3' = IF o.scan.tail = "Clean" THEN v3 ELSE Len(v2')
  BY Zenon DEF Log!OpenAppend
<1>a. Len(v2) \in Nat /\ v2 \in Seq(Piece) /\ v3 \in 0 .. Len(v2) /\ v6 \in Nat
  BY LenProperties DEF LogTyped
<1>3. PICK k : o.scan \in Log!Scans(k)
  <2> DEFINE Under(k) == {[scan |-> s, retired |-> k # v10] : s \in Log!Scans(k)}
  <2>1. v1 = "whole" =>
          Log!Opened = IF Log!Scans(v10) # {} THEN Under(v10)
                       ELSE UNION {Under(k) : k \in 1 .. v10 - 1}
    BY Zenon DEF Log!Opened
  <2>2. v1 # "whole" => Log!Opened = {}
    BY DEF Log!Opened
  <2>3. \E k : o \in Under(k)
    <3> HIDE DEF Under
    <3>1. v1 = "whole"
      BY <1>2, <2>2
    <3>2. CASE Log!Scans(v10) # {}
      BY <1>2, <2>1, <3>1, <3>2
    <3>3. CASE Log!Scans(v10) = {}
      BY <1>2, <2>1, <3>1, <3>3
    <3> QED
      BY <3>2, <3>3
  <2>4. PICK k : o \in Under(k)
    BY <2>3
  <2>5. o.scan \in Log!Scans(k)
    BY <2>4
  <2> QED
    BY <2>5
<1> DEFINE c == Log!Committed(k)
<1>4. PICK t \in Log!Tails(k) : o.scan.records = c /\ o.scan.tail = t
  <2>1. PICK t \in Log!Tails(k) : o.scan = [records |-> c, tail |-> t]
    BY <1>3, Zenon DEF Log!Scans
  <2> QED
    BY <2>1
<1>b. c \in 0 .. Len(v2) /\ c <= v6
  BY CommittedIs
<1>c. t = "Clean" => c = Len(v2)
  BY <1>a, <1>b, <1>4, TailIs
<1> HIDE DEF c
<1>5. v2' \in Seq(Piece) /\ Len(v2') = c /\ \A i \in 1 .. c : v2'[i] = v2[i]
  BY <1>2, <1>4, <1>a, <1>b, FirstPieces
<1>6. v3' \in 0 .. Len(v2')
  BY <1>2, <1>4, <1>5, <1>a, <1>b, <1>c
<1>7. v5' \in 0 .. v6'
  BY <1>1, <1>2, <1>4, <1>a, <1>b
<1>8. LogTyped'
  BY <1>1, <1>5, <1>6, <1>7 DEF LogTyped
<1>9. IndexesAreUsed'
  <2> SUFFICES ASSUME NEW i \in 1 .. Len(v2'), Log!IsRec(v2'[i])
               PROVE  v2'[i].index < v6'
    BY DEF IndexesAreUsed, IndexesUnder
  <2>1. i \in 1 .. Len(v2) /\ v2'[i] = v2[i] /\ v6' = v6
    BY <1>1, <1>5, <1>a, <1>b
  <2>2. Log!IsRec(v2[i])
    BY <2>1 DEF Log!IsRec
  <2> QED
    BY <2>1, <2>2 DEF IndexesAreUsed, IndexesUnder
<1> QED
  BY <1>8, <1>9

LEMMA LogTypedAppends ==
  ASSUME LogTyped, IndexesAreUsed, Log!AppendRecord, MaxRecords \in Nat
  PROVE  LogTyped' /\ IndexesAreUsed'
<1> DEFINE p == Log!Rec(v10, v5, v6')
<1>1. /\ UNCHANGED <<v1, v3, v4, v10>> /\ v6 < MaxRecords
      /\ v6' = v6 + 1 /\ v5' = v5 + 1 /\ v2' = Append(v2, p)
  BY DEF Log!AppendRecord
<1>a. /\ v2 \in Seq(Piece) /\ Len(v2) \in Nat /\ v3 \in 0 .. Len(v2)
      /\ v5 \in 0 .. v6 /\ v6 \in Nat /\ v10 \in Nat
  BY LenProperties DEF LogTyped
<1>b. p \in Piece /\ p.index = v5
  BY <1>1, <1>a DEF Piece, Log!Rec
<1> HIDE DEF p
<1>3. /\ v2' \in Seq(Piece) /\ Len(v2') = Len(v2) + 1
      /\ \A i \in 1 .. Len(v2) : v2'[i] = v2[i]
      /\ v2'[Len(v2) + 1] = p
  BY <1>1, <1>a, <1>b, LogOneMore
<1>4. LogTyped'
  <2>1. v3' \in 0 .. Len(v2') /\ v5' \in 0 .. v6' /\ v6' \in 0 .. MaxRecords
    BY <1>1, <1>3, <1>a
  <2> QED
    BY <1>1, <1>3, <2>1 DEF LogTyped
<1>5. IndexesAreUsed'
  <2> SUFFICES ASSUME NEW i \in 1 .. Len(v2'), Log!IsRec(v2'[i])
               PROVE  v2'[i].index < v6'
    BY DEF IndexesAreUsed, IndexesUnder
  <2>1. CASE i = Len(v2) + 1
    <3>1. v2'[i].index = v5
      BY <2>1, <1>3, <1>b
    <3> QED
      BY <3>1, <1>1, <1>a
  <2>2. CASE i # Len(v2) + 1
    <3>1. i \in 1 .. Len(v2) /\ v2'[i] = v2[i]
      BY <2>2, <1>3, <1>a
    <3>2. Log!IsRec(v2[i])
      BY <3>1 DEF Log!IsRec
    <3>3. v2[i] \in Piece
      BY <3>1, <1>a, ElementOfSeq
    <3>4. v2[i].index \in Nat /\ v2[i].index < v6
      BY <3>1, <3>2, <3>3, PieceIs DEF IndexesAreUsed, IndexesUnder
    <3> QED
      BY <3>1, <3>4, <1>1, <1>a
  <2> QED
    BY <2>1, <2>2
<1> QED
  BY <1>4, <1>5

\* A piece more that is torn, or pieces less.
LEMMA LogTypedKeeps ==
  ASSUME LogTyped, IndexesAreUsed, UNCHANGED <<v5, v6>>,
         v1' \in {"none", "torn", "whole"},
         v4' \in {"closed", "creating", "open", "failed"}, v10' \in 1 .. MaxKey,
         v2' \in Seq(Piece), v3' \in 0 .. Len(v2'),
         \A i \in 1 .. Len(v2') :
           Log!IsRec(v2'[i]) => i <= Len(v2) /\ v2'[i] = v2[i]
  PROVE  LogTyped' /\ IndexesAreUsed'
<1>1. LogTyped'
  BY DEF LogTyped
<1>2. ASSUME NEW i \in 1 .. Len(v2'), Log!IsRec(v2'[i])
      PROVE  v2'[i].index < v6'
  <2>1. i \in 1 .. Len(v2) /\ v2'[i] = v2[i]
    BY <1>2, LenProperties DEF LogTyped
  <2>2. Log!IsRec(v2[i])
    BY <1>2, <2>1 DEF Log!IsRec
  <2> QED
    BY <2>1, <2>2 DEF IndexesAreUsed, IndexesUnder
<1> QED
  BY <1>1, <1>2 DEF IndexesAreUsed, IndexesUnder

LEMMA LogTypedAppendFails ==
  ASSUME LogTyped, IndexesAreUsed, Log!AppendFails
  PROVE  LogTyped' /\ IndexesAreUsed'
<1> DEFINE p == [torn |-> "short"]
<1>1. /\ UNCHANGED <<v1, v3, v5, v6, v10>> /\ v4' = "failed" /\ v2' = Append(v2, p)
  BY DEF Log!AppendFails
<1>a. v2 \in Seq(Piece) /\ Len(v2) \in Nat /\ v3 \in 0 .. Len(v2)
  BY LenProperties DEF LogTyped
<1>b. p \in Piece /\ ~Log!IsRec(p)
  BY DEF Piece, Log!IsRec, Log!Torn
<1> HIDE DEF p
<1>3. /\ v2' \in Seq(Piece) /\ Len(v2') = Len(v2) + 1
      /\ \A i \in 1 .. Len(v2) : v2'[i] = v2[i]
      /\ v2'[Len(v2) + 1] = p
  BY <1>1, <1>a, <1>b, LogOneMore
<1>4. v3' \in 0 .. Len(v2')
  BY <1>1, <1>3, <1>a
<1>5. ASSUME NEW i \in 1 .. Len(v2'), Log!IsRec(v2'[i])
      PROVE  i <= Len(v2) /\ v2'[i] = v2[i]
  <2>1. i # Len(v2) + 1
    BY <1>3, <1>5, <1>b DEF Log!IsRec
  <2> QED
    BY <2>1, <1>3, <1>a
<1>6. v1' \in {"none", "torn", "whole"} /\ v10' \in 1 .. MaxKey
  BY <1>1 DEF LogTyped
<1> QED
  BY <1>1, <1>3, <1>4, <1>5, <1>6, LogTypedKeeps

LEMMA LogTypedCrashes ==
  ASSUME LogTyped, IndexesAreUsed, Log!Crash
  PROVE  LogTyped' /\ IndexesAreUsed'
<1>1. /\ UNCHANGED <<v1, v5, v6, v10>> /\ v4' = "closed" /\ v3' = Len(v2')
  BY DEF Log!Crash
<1>2. PICK n \in v3 .. Len(v2), t \in {<<>>} \cup {<<[torn |-> x]>> : x \in Log!Torn} :
        CutTo(n, t)
  BY Zenon DEF Log!Crash, CutTo
<1>a. v2 \in Seq(Piece) /\ Len(v2) \in Nat /\ n \in 0 .. Len(v2)
  BY LenProperties DEF LogTyped
<1>b. t \in Seq(Piece) /\ (t = <<>> \/ (Len(t) = 1 /\ ~Log!IsRec(t[1])))
  <2>1. CASE t = <<>>
    BY <2>1, EmptySeq
  <2>2. CASE \E x \in Log!Torn : t = <<[torn |-> x]>>
    BY <2>2 DEF Piece, Log!IsRec
  <2> QED
    BY <2>1, <2>2
<1> DEFINE b == SubSeq(v2, 1, n)
<1>3. b \in Seq(Piece) /\ Len(b) = n /\ \A i \in 1 .. n : b[i] = v2[i]
  BY <1>a, FirstPieces
<1>4. v2' = b \o t
  BY <1>2 DEF CutTo
<1> HIDE DEF b
<1>c. Len(t) \in Nat
  BY <1>b, LenProperties
<1>5. /\ v2' \in Seq(Piece) /\ Len(v2') = n + Len(t)
      /\ \A i \in 1 .. n + Len(t) : v2'[i] = IF i <= n THEN b[i] ELSE t[i - n]
  <2>1. /\ b \o t \in Seq(Piece) /\ Len(b \o t) = Len(b) + Len(t)
        /\ \A i \in 1 .. Len(b) + Len(t) :
              (b \o t)[i] = IF i <= Len(b) THEN b[i] ELSE t[i - Len(b)]
    BY <1>3, <1>b, ConcatProperties, Zenon
  <2> QED
    BY <2>1, <1>3, <1>4
<1>6. ASSUME NEW i \in 1 .. Len(v2'), Log!IsRec(v2'[i])
      PROVE  i <= Len(v2) /\ v2'[i] = v2[i]
  <2>1. CASE i <= n
    BY <2>1, <1>a, <1>c, <1>3, <1>5
  <2>2. CASE i > n
    <3>1. Len(t) # 0
      BY <2>2, <1>5, <1>a, <1>c
    <3>2. t # <<>> /\ Len(t) = 1 /\ ~Log!IsRec(t[1])
      BY <3>1, <1>b
    <3>3. i - n = 1 /\ v2'[i] = t[i - n]
      BY <2>2, <3>2, <1>5, <1>a
    <3>4. v2'[i] = t[1]
      BY <3>3
    <3> QED
      BY <3>2, <3>4, <1>6 DEF Log!IsRec
  <2> QED
    BY <2>1, <2>2, <1>a
<1>7. v3' \in 0 .. Len(v2')
  BY <1>1, <1>5, <1>a, <1>c
<1>8. v1' \in {"none", "torn", "whole"} /\ v10' \in 1 .. MaxKey
  BY <1>1 DEF LogTyped
<1> QED
  BY <1>1, <1>5, <1>6, <1>7, <1>8, LogTypedKeeps

LEMMA LogTypedStays ==
  ASSUME Log!SealedLogAssumption, LogTyped, IndexesAreUsed, [Log!Next]_(Log!vars)
  PROVE  LogTyped' /\ IndexesAreUsed'
<1>1. CASE Log!OpenAppend \/ Log!AppendRecord \/ Log!AppendFails \/ Log!Crash
  <2>1. MaxRecords \in Nat
    BY DEF Log!SealedLogAssumption
  <2> QED
    BY <1>1, <2>1, LogTypedOpens, LogTypedAppends, LogTypedAppendFails, LogTypedCrashes
<1>2. ASSUME UNCHANGED <<v2, v6>>, v3' = v3 \/ v3' = Len(v2),
             v5' = v5 \/ v5' = 0,
             v1' \in {"none", "torn", "whole"},
             v4' \in {"closed", "creating", "open", "failed"}, v10' \in 1 .. MaxKey
      PROVE  LogTyped' /\ IndexesAreUsed'
  <2>1. v3' \in 0 .. Len(v2') /\ v5' \in 0 .. v6'
    BY <1>2, LenProperties DEF LogTyped
  <2>2. LogTyped'
    BY <1>2, <2>1 DEF LogTyped
  <2>3. IndexesAreUsed'
    BY <1>2 DEF IndexesAreUsed, IndexesUnder
  <2> QED
    BY <2>2, <2>3
<1>3. CASE Log!Create \/ Log!WriteHeader \/ Log!Close \/ Log!Sync \/ Log!Compact
             \/ UNCHANGED Log!vars
  BY <1>2, <1>3 DEF Log!Create, Log!WriteHeader, Log!Close, Log!Sync, Log!Compact,
    Log!vars, LogTyped
<1>4. CASE Log!ReplaceKey
  <2>1. v10' \in 1 .. MaxKey
    BY <1>4 DEF Log!ReplaceKey, LogTyped, Log!SealedLogAssumption
  <2> QED
    BY <1>2, <1>4, <2>1 DEF Log!ReplaceKey, LogTyped
<1> QED
  BY <1>1, <1>3, <1>4 DEF Log!Next

\* What the variables of a sealed file and of a log are: the copies grow by chunks
\* of plaintext and no reader is beyond the end; no record has an index that no
\* append had.
THEOREM SealedTypesCorrect ==
  StoreSpec => [](/\ part = "file" => Sealed!TypeOK
                  /\ part = "log" => Log!TypeOK)
<1> DEFINE I == part = "file" => Sealed!FileInv
           L == part = "log" => LogTyped /\ IndexesAreUsed
<1>1. Sealed!SealedFileAssumption /\ Log!SealedLogAssumption
  BY StorePartsAssumption
<1>2. StoreInit => I
  BY <1>1, SealedPartStarts, FileStarts, FileInvIs DEF FileHolds
<1>3. I /\ [StoreNext]_vars => I'
  BY <1>1, SealedPartMoves, FileStays, FileInvIs DEF FileHolds
<1>4. StoreInit => L
  BY <1>1, SealedPartStarts, LogTypedInit
<1>5. L /\ [StoreNext]_vars => L'
  BY <1>1, SealedPartMoves, LogTypedStays
<1>6. I => (part = "file" => Sealed!TypeOK)
  BY DEF Sealed!FileInv
<1>7. L => (part = "log" => Log!TypeOK)
  BY <1>1, LogTypesAre
<1> HIDE DEF I, L
<1> QED
  BY <1>2, <1>3, <1>4, <1>5, <1>6, <1>7, PTL DEF StoreSpec

=============================================================================
