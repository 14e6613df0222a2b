------------------------------ MODULE Translation ------------------------------
(***************************************************************************)
(* translate_cues (translate.rs): the cues go to a model in numbered       *)
(* batches, what a batch does not answer is asked again line by line, and  *)
(* a batch's answers are applied once all of them are in.                  *)
(*                                                                         *)
(* The model is external and answers anything: lines with numbers it was   *)
(* not given, fewer lines, or text without numbers.  An answer is known by *)
(* the number the model gave it (Bare is none) and the line it was asked   *)
(* for alone (0 in a batch).                                               *)
(***************************************************************************)
EXTENDS Integers, Sequences, FiniteSets, FiniteSetsExt

CONSTANTS
  BATCH,
  NumCues     \* the cues of the file
TranslationAssumption == BATCH \in Nat \ {0} /\ NumCues \in Nat

Numbers == 1 .. NumCues
Bare == 0
Answers == [asked : 0 .. NumCues, number : 0 .. NumCues]
None == [asked |-> 0, number |-> Bare]     \* what a batch gives has a number

VARIABLES
  translated,  \* Cue::translated, by cue
  base,        \* cues of the batches done
  got,         \* number -> answer of this batch
  offset,      \* the cue of the batch that is looked at for a retry
  at,          \* "batch" | "retry" | "apply" | "done" | "canceled"
  count,       \* how many were translated, as returned
  progress     \* what on_progress was told last

vars == <<translated, base, got, offset, at, count, progress>>

BatchLen == Min({BATCH, NumCues - base})
Batch == base + 1 .. base + BatchLen

-----------------------------------------------------------------------------
\* parse_reply: the numbered lines of a reply that have text; a number may be
\* missing, and any may be there.
Replies == UNION {[numbers -> {"text"}] : numbers \in SUBSET Numbers}

Init ==
  /\ translated = [n \in Numbers |-> None]
  /\ base = 0 /\ got = [n \in Numbers |-> None] /\ offset = 0
  /\ at = IF NumCues = 0 THEN "done" ELSE "batch"
  /\ count = 0 /\ progress = 0

Cancel ==
  /\ at' = "canceled"
  /\ UNCHANGED <<translated, base, got, offset, count, progress>>

\* complete of the whole batch: a reply, or an error taken for an empty one.
AskBatch ==
  /\ at = "batch"
  /\ \/ Cancel
     \/ /\ \E reply \in Replies :
             got' = [n \in Numbers |-> IF n \in DOMAIN reply
                                     THEN [asked |-> 0, number |-> n] ELSE None]
        /\ offset' = 0
        /\ at' = "retry"
        /\ UNCHANGED <<translated, base, count, progress>>

\* Mutant: the lines of a batch are numbered from one.
NumberInBatch(i) == i + 1

\* n = base + offset + 1
Number(i) == base + i + 1

\* A line the batch answered for.
Skip ==
  /\ at = "retry" /\ offset < BatchLen
  /\ got[Number(offset)] # None
  /\ offset' = offset + 1
  /\ UNCHANGED <<translated, base, got, at, count, progress>>

\* The line alone: what the reply numbers so, or single_line_fallback, the
\* reply's first line as it stands, whether it has no number or another line's.
RetryLine ==
  /\ at = "retry" /\ offset < BatchLen
  /\ got[Number(offset)] = None
  /\ \/ Cancel
     \/ /\ \/ UNCHANGED got
           \/ \E number \in {Bare} \cup Numbers :
                got' = [got EXCEPT ![Number(offset)] =
                          [asked |-> base + offset + 1, number |-> number]]
        /\ offset' = offset + 1
        /\ UNCHANGED <<translated, base, at, count, progress>>

\* The last question whether to cancel, before anything is applied.
Retried ==
  /\ at = "retry" /\ offset = BatchLen
  /\ \/ Cancel
     \/ at' = "apply" /\ UNCHANGED <<translated, base, got, offset, count, progress>>

Apply ==
  /\ at = "apply"
  /\ LET answered == {n \in Batch : got[Number(n - base - 1)] # None}
     IN /\ translated' = [n \in Numbers |-> IF n \in answered THEN got[Number(n - base - 1)]
                                             ELSE translated[n]]
        /\ count' = count + Cardinality(answered)
  /\ progress' = Min({base + BatchLen, NumCues})
  /\ base' = base + BatchLen
  /\ got' = [n \in Numbers |-> None] /\ offset' = 0
  /\ at' = IF base + BatchLen = NumCues THEN "done" ELSE "batch"

Next == AskBatch \/ Skip \/ RetryLine \/ Retried \/ Apply

Spec == Init /\ [][Next]_vars

-----------------------------------------------------------------------------
TypeOK ==
  /\ translated \in [Numbers -> Answers]
  /\ got \in [Numbers -> Answers]
  /\ base \in 0 .. NumCues /\ offset \in 0 .. BATCH /\ progress \in 0 .. NumCues
  /\ at \in {"batch", "retry", "apply", "done", "canceled"}

\* An answer that came for line n: numbered so, or to n asked alone.
CameFor(n, answer) ==
  /\ answer = None \/ n \in {answer.asked, answer.number}
  /\ answer.asked \in {0, n}

\* A cue's translation is a line that a batch numbers so, or the answer to
\* this cue alone, whatever the model numbers and however often it is asked; the
\* number of translated cues that a job reports is how many there are; and a
\* cancel leaves the cues of the batch it falls into as they were, and those of
\* the batches before it translated.
TranslationsAreInPlace ==
  /\ \A n \in Numbers : CameFor(n, translated[n])
  /\ count = Cardinality({n \in Numbers : translated[n] # None})
  /\ \A n \in Numbers : n > base => translated[n] = None
  /\ at = "done" => base = NumCues /\ progress = NumCues

\* translate.rs on the answer to a line alone: what is taken without the line's
\* number "carries no numbering at all", so no cue gets a line numbered for
\* another, "a visibly untranslated line rather than a wrong one".
NoLineOfAnother ==
  \A n \in Numbers : translated[n].number \in {n, Bare}

-----------------------------------------------------------------------------
(* The inductive invariant behind TranslationsAreInPlace: what is got for  *)
(* a line came for it.                                                     *)

InPlaceInv ==
  /\ translated \in [Numbers -> Answers]
  /\ base \in 0 .. NumCues
  /\ got \in [Numbers -> Answers]
  /\ offset \in Nat
  /\ at \in {"batch", "retry", "apply", "done", "canceled"}
  /\ at \in {"batch", "retry", "apply"} => base < NumCues
  /\ count \in Nat
  /\ \A n \in Numbers : CameFor(n, got[n])
  /\ TranslationsAreInPlace

=============================================================================
