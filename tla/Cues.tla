--------------------------------- MODULE Cues ---------------------------------
(***************************************************************************)
(* From the segments of an engine to the cues of a file (cues.rs): each    *)
(* window's segments are cleaned, placed on the file's time and split when *)
(* long; one last pass orders all cues and keeps them apart.               *)
(*                                                                         *)
(* A text is the number of its characters, 0 for what clean leaves nothing *)
(* of; where a long one breaks is left open.                               *)
(***************************************************************************)
EXTENDS Integers, Sequences, SequencesExt, FiniteSetsExt

CONSTANTS
  BUDGET,       \* MAX_LINE_CHARS * MAX_LINES
  MAX_CUE_MS, MIN_CUE_MS, CUE_GAP_MS,
  WindowMs,     \* what a window lasts; window k starts at k * WindowMs
  NumWindows,
  Segments      \* what an engine may answer: [start, end, text], by window

CuesAssumption ==
  /\ BUDGET \in Nat \ {0} /\ MIN_CUE_MS \in Nat \ {0} /\ CUE_GAP_MS \in Nat
  /\ MAX_CUE_MS \in Nat /\ WindowMs \in Nat /\ NumWindows \in Nat
  /\ Segments \subseteq Seq([start : Nat, end : Nat, text : Nat])

VARIABLES
  cues,      \* the cues so far: [start, end, text]
  window,    \* windows transcribed
  spoken,    \* characters the engine answered, in all
  dropped,   \* those of windows whose segments were all silence markers
  normal     \* normalize has run

vars == <<cues, window, spoken, dropped, normal>>

Max2(a, b) == IF a > b THEN a ELSE b
Min2(a, b) == IF a < b THEN a ELSE b

\* The sums of the first 0, 1, 2, ... of some numbers, and of all.
Sums(numbers) ==
  LET sum[n \in 0 .. Len(numbers)] == IF n = 0 THEN 0 ELSE sum[n - 1] + numbers[n]
  IN sum
Total(numbers) == Sums(numbers)[Len(numbers)]

TextsOf(seq) == [i \in 1 .. Len(seq) |-> seq[i].text]
Chars(seq) == Total(TextsOf(seq))

-----------------------------------------------------------------------------
\* split_text: as long as the rest is longer than BUDGET, a piece of it that is
\* not; then the rest.
Pieces(text) ==
  {p \in SeqOf(1 .. BUDGET, text) :
     /\ Total(p) = text
     /\ \A i \in 1 .. Len(p) - 1 : text - Sums(p)[i - 1] > BUDGET}

\* split_long: the pieces share the cue's time by their length, each one
\* rounded down, the last one to the cue's end; a piece lasts a millisecond at
\* least, which does not move the next one.
Part(cue, pieces, i) ==
  LET duration == Max2(cue.end - cue.start, 0)
      Share(j) == (duration * pieces[j]) \div Max2(cue.text, 1)
      cursor[j \in 1 .. Len(pieces)] ==
        IF j = 1 THEN cue.start ELSE Min2(cursor[j - 1] + Share(j - 1), cue.end)
      end == IF i = Len(pieces) THEN cue.end ELSE cursor[i + 1]
  IN [start |-> cursor[i], end |-> Max2(end, cursor[i] + 1), text |-> pieces[i]]

Splits(cue) ==
  IF cue.text <= BUDGET /\ cue.end - cue.start <= MAX_CUE_MS THEN {<<cue>>}
  ELSE {[i \in 1 .. Len(p) |-> Part(cue, p, i)] : p \in Pieces(cue.text)}

\* cues_from_segments: a segment at its place in the file, at least
\* MIN_CUE_MS long, unless nothing is left of its text.
Placed(offset, segment) ==
  [start |-> offset + segment.start,
   end   |-> offset + Max2(segment.end, segment.start + MIN_CUE_MS),
   text  |-> segment.text]
CuesOf(offset, segment) ==
  IF segment.text = 0 THEN {<<>>} ELSE Splits(Placed(offset, segment))

\* No segments: the text of the window, if any, as one cue of its length.
Fallback(offset, text) ==
  [start |-> offset, end |-> offset + Max2(WindowMs, MIN_CUE_MS), text |-> text]

-----------------------------------------------------------------------------
Init == cues = <<>> /\ window = 0 /\ spoken = 0 /\ dropped = 0 /\ normal = FALSE

OnlyMarkers(segments) == \A i \in 1 .. Len(segments) : segments[i].text = 0

TranscribeWindow(segments) ==
  /\ window < NumWindows
  /\ ~OnlyMarkers(segments)
  /\ LET Ways(i) == CuesOf(window * WindowMs, segments[i])
     IN \E splits \in [1 .. Len(segments) -> UNION {Ways(i) : i \in 1 .. Len(segments)}] :
          /\ \A i \in 1 .. Len(segments) : splits[i] \in Ways(i)
          /\ cues' = cues \o FlattenSeq(splits)
          /\ spoken' = spoken + Chars(segments)
  /\ window' = window + 1
  /\ UNCHANGED <<dropped, normal>>

\* Segments that are all silence markers give no cue, and the window's text is
\* not looked at.
TranscribeMarkers(segments, text) ==
  /\ window < NumWindows
  /\ OnlyMarkers(segments) /\ segments # <<>>
  /\ spoken' = spoken + text
  /\ dropped' = dropped + text
  /\ window' = window + 1
  /\ UNCHANGED <<cues, normal>>

TranscribeUntimed(text) ==
  /\ window < NumWindows
  /\ IF text = 0 THEN UNCHANGED cues
     ELSE \E split \in Splits(Fallback(window * WindowMs, text)) : cues' = cues \o split
  /\ spoken' = spoken + text
  /\ window' = window + 1
  /\ UNCHANGED <<dropped, normal>>

\* normalize sorts by start and end: before the first one that is later ...
Before(a, b) == a.start < b.start \/ (a.start = b.start /\ a.end < b.end)
Place(seq, cue) == Min({i \in 1 .. Len(seq) + 1 : i = Len(seq) + 1 \/ Before(cue, seq[i])})
Sorted(seq) ==
  LET sorted[n \in 0 .. Len(seq)] ==
        IF n = 0 THEN <<>> ELSE InsertAt(sorted[n - 1], Place(sorted[n - 1], seq[n]), seq[n])
  IN sorted[Len(seq)]

\* Mutant: a cue ends before the next one starts, whatever is left of it.
ApartAtOnce(seq) ==
  [i \in 1 .. Len(seq) |->
     LET end == Max2(seq[i].end, seq[i].start + MIN_CUE_MS)
         next == seq[i + 1].start
     IN [seq[i] EXCEPT !.end =
           IF i < Len(seq) /\ end + CUE_GAP_MS > next THEN Max2(next - CUE_GAP_MS, 0) ELSE end]]

\* ... and gives every cue its least time, then ends it before the next one
\* starts, but not before it was on screen for a millisecond.
Apart(seq) ==
  [i \in 1 .. Len(seq) |->
     LET end == Max2(seq[i].end, seq[i].start + MIN_CUE_MS)
         next == seq[i + 1].start
     IN [seq[i] EXCEPT !.end =
           IF i < Len(seq) /\ end + CUE_GAP_MS > next
           THEN Max2(Max2(next - CUE_GAP_MS, 0), seq[i].start + 1) ELSE end]]

Normalize ==
  /\ window = NumWindows /\ ~normal
  /\ cues' = Apart(Sorted(cues))
  /\ normal' = TRUE
  /\ UNCHANGED <<window, spoken, dropped>>

Spoken == {s.text : s \in UNION {Range(seq) : seq \in Segments}}

Next ==
  \/ \E segments \in Segments :
       TranscribeWindow(segments) \/ \E text \in Spoken : TranscribeMarkers(segments, text)
  \/ \E text \in Spoken : TranscribeUntimed(text)
  \/ Normalize

Spec == Init /\ [][Next]_vars

-----------------------------------------------------------------------------
TypeOK ==
  /\ window \in 0 .. NumWindows /\ normal \in BOOLEAN
  /\ spoken \in Nat /\ dropped \in Nat
  /\ \A i \in 1 .. Len(cues) : cues[i].start \in Nat /\ cues[i].end \in Nat /\ cues[i].text \in Nat

\* The cues of a file follow one another: two are on screen together only if
\* they start in the same millisecond, and then for one.  Each is shown, for its
\* least time unless the next one is too near; and all that was said is in them
\* but the text of windows whose segments were all silence markers.
CuesFollowOneAnother ==
  /\ Chars(cues) + dropped = spoken
  /\ \A i \in 1 .. Len(cues) : cues[i].start < cues[i].end
  /\ normal =>
       \A i \in 1 .. Len(cues) :
         /\ \A j \in i + 1 .. Len(cues) :
              cues[i].end <= cues[j].start
                \/ (cues[i].start = cues[j].start /\ cues[i].end = cues[i].start + 1)
         /\ cues[i].end - cues[i].start < MIN_CUE_MS =>
              i < Len(cues) /\ cues[i + 1].start < cues[i].start + MIN_CUE_MS + CUE_GAP_MS

CuesInv ==
  /\ TypeOK
  /\ cues \in Seq([start : Nat, end : Nat, text : Nat])
  /\ normal => window = NumWindows
  /\ CuesFollowOneAnother

=============================================================================
