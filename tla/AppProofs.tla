------------------------------ MODULE AppProofs ------------------------------
(***************************************************************************)
(* Proofs about AppParts: that a behavior stays with the part it began,    *)
(* and what the stream, the calls to Core, the translation, the cues, the  *)
(* resampler and the settings keep.                                        *)
(***************************************************************************)
EXTENDS AppParts, LeastNumbers, FiniteSetTheorems, SequenceTheorems, TLAPS

-----------------------------------------------------------------------------
\* A behavior starts as one of its part.
LEMMA AppPartStarts ==
  ASSUME AppInit
  PROVE  /\ part = "stream" => Stream!Init
         /\ part = "call" => Call!Init
         /\ part = "translation" => Translate!Init
         /\ part = "cues" => Subtitles!Init
         /\ part = "audio" => Audio!Init
         /\ part = "settings" => Requests!Init
BY DEF AppInit

\* And goes on as one.
LEMMA AppPartMoves ==
  ASSUME [AppNext]_vars
  PROVE  /\ part' = part
         /\ part = "stream" => [Stream!Next]_(Stream!vars)
         /\ part = "call" => [Call!Next]_(Call!vars)
         /\ part = "translation" => [Translate!Next]_(Translate!vars)
         /\ part = "cues" => [Subtitles!Next]_(Subtitles!vars)
         /\ part = "audio" => [Audio!Next]_(Audio!vars)
         /\ part = "settings" => [Requests!Next]_(Requests!vars)
<1>1. CASE AppNext
  BY <1>1 DEF AppNext, ModelStreamStep, HostCallsStep, TranslationStep, CuesStep,
    ResamplerStep, SettingsStep
<1>2. CASE UNCHANGED vars
  BY <1>2 DEF vars, Rest5, Rest6, Rest7, Rest8, Rest9, Rest10, Rest11, Rest15,
    Stream!vars, Call!vars, Translate!vars, Subtitles!vars, Audio!vars, Requests!vars
<1> QED
  BY <1>1, <1>2

-----------------------------------------------------------------------------
(* The calls to Core: v2 is the call, v3 at, v4 taken, v6 the answer, v7   *)
(* the clock and v8 the result.                                            *)

LEMMA CallInit ==
  ASSUME Call!HostCallsAssumption, Call!Init
  PROVE  Call!HonestInv
BY DEF Call!HostCallsAssumption, Call!Init, Call!HonestInv, Call!Sent, Call!Answered,
  Call!InTime, Call!Hop, Call!AnswersAreHonest

LEMMA CallStays ==
  ASSUME Call!HostCallsAssumption, Call!HonestInv, [Call!Next]_(Call!vars)
  PROVE  Call!HonestInv'
<1> USE DEF Call!HostCallsAssumption, Call!HonestInv, Call!Sent, Call!Answered, Call!InTime,
      Call!Hop, Call!AnswersAreHonest
<1>1. CASE Call!SendCall
  BY <1>1 DEF Call!SendCall, Call!Refused, Call!Return
<1>2. CASE Call!CoreTakes
  BY <1>2 DEF Call!CoreTakes
<1>3. CASE Call!CoreAnswers
  BY <1>3 DEF Call!CoreAnswers
<1>4. CASE Call!Tick
  BY <1>4 DEF Call!Tick, Call!MustAnswer
<1>5. CASE Call!TimesOut
  <2>1. v2.timeout = 0
    BY <1>5 DEF Call!TimesOut, Call!Deadline
  <2> QED
    BY <1>5, <2>1 DEF Call!TimesOut, Call!Return
<1>6. CASE Call!ConnectionFails
  BY <1>6 DEF Call!ConnectionFails, Call!Return
<1>7. CASE Call!ReadAnswer
  BY <1>7 DEF Call!ReadAnswer, Call!Return, Call!Outcome
<1>8. CASE UNCHANGED Call!vars
  BY <1>8 DEF Call!vars
<1> QED
  BY <1>1, <1>2, <1>3, <1>4, <1>5, <1>6, <1>7, <1>8 DEF Call!Next

\* What a client of Core (app-events) returns is what happened at Core, for
\* every time-out, margin and bound.
THEOREM CallCorrect == AppSpec => []AnswersAreHonest
<1> DEFINE Inv == part = "call" => Call!HonestInv
<1>1. AppInit => Inv
  BY AppPartsAssumption, AppPartStarts, CallInit
<1>2. Inv /\ [AppNext]_vars => Inv'
  BY AppPartsAssumption, AppPartMoves, CallStays
<1>3. Inv => AnswersAreHonest
  BY DEF AnswersAreHonest, Call!HonestInv
<1> HIDE DEF Inv
<1> QED
  BY <1>1, <1>2, <1>3, PTL DEF AppSpec

-----------------------------------------------------------------------------
(* The settings: v1 is stored, v2 names, v3 draft, v4 at, v5 first and v6   *)
(* misread.                                                                *)

LEMMA SettingsInit ==
  ASSUME Requests!SettingsAssumption, Requests!Init
  PROVE  Requests!UnnamedInv
<1> USE DEF Requests!SettingsAssumption, Requests!Init, Requests!Default
<1>1. v1 \in [Fields -> Int]
  OBVIOUS
<1>2. v3 \in [Puts -> [Fields -> Int]]
  BY DEF Requests!Defaults
<1>3. Requests!Unnamed(v1)
  BY DEF Requests!Unnamed
<1> QED
  BY <1>1, <1>2, <1>3 DEF Requests!UnnamedInv

LEMMA SettingsStays ==
  ASSUME Requests!SettingsAssumption, Requests!UnnamedInv, [Requests!Next]_(Requests!vars)
  PROVE  Requests!UnnamedInv'
<1> USE DEF Requests!SettingsAssumption, Requests!UnnamedInv
<1>1. ASSUME NEW p \in Puts, Requests!ReadSettings(p)
      PROVE  Requests!UnnamedInv'
  <2> DEFINE Drafted(base) == v3' = [v3 EXCEPT ![p] = Requests!Named(p, base)]
  <2>1. Requests!Defaults \in [Fields -> Int] /\ p \in Int
    BY DEF Requests!Defaults, Requests!Default
  <2>2. \A base \in [Fields -> Int] :
          Requests!Named(p, base) \in [Fields -> Int]
    BY <2>1 DEF Requests!Named
  <2>3. UNCHANGED <<v1, v2, v5>> /\ v4' = [v4 EXCEPT ![p] = "read"]
    BY <1>1 DEF Requests!ReadSettings
  <2>4. CASE Drafted(v1) /\ UNCHANGED v6
    <3>1. Requests!Unnamed(Requests!Named(p, v1))
      BY DEF Requests!Unnamed, Requests!Named
    <3> QED
      BY <2>2, <2>3, <2>4, <3>1 DEF Requests!Unnamed
  <2>5. CASE Drafted(Requests!Defaults) /\ v6' = TRUE
    <3>1. \A q \in Puts : (v4[q] = "read" => Requests!Unnamed(v3[q]))'
      <4> SUFFICES ASSUME NEW q \in Puts, v4'[q] = "read", NEW f \in Fields
                   PROVE  \/ v3'[q][f] = v5[f]
                          \/ v3'[q][f] \in Puts /\ f \in v2[v3'[q][f]]
                          \/ v3'[q][f] = Requests!Default
        BY <2>3, <2>5 DEF Requests!Unnamed
      <4>1. CASE q = p
        BY <2>5, <4>1 DEF Requests!Named, Requests!Defaults
      <4>2. CASE q # p
        BY <2>3, <2>5, <4>2 DEF Requests!Unnamed
      <4> QED
        BY <4>1, <4>2
    <3>2. v3' \in [Puts -> [Fields -> Int]]
      BY <2>1, <2>2, <2>5
    <3> QED
      BY <2>3, <2>5, <3>1, <3>2 DEF Requests!Unnamed
  <2> QED
    BY <1>1, <2>4, <2>5 DEF Requests!ReadSettings
<1>2. ASSUME NEW p \in Puts, Requests!RefuseSettings(p)
      PROVE  Requests!UnnamedInv'
  BY <1>2 DEF Requests!RefuseSettings, Requests!Unnamed
<1>3. ASSUME NEW p \in Puts, Requests!SaveSettings(p)
      PROVE  Requests!UnnamedInv'
  BY <1>3 DEF Requests!SaveSettings, Requests!Unnamed
<1>4. CASE UNCHANGED Requests!vars
  BY <1>4 DEF Requests!vars, Requests!Unnamed
<1> QED
  BY <1>1, <1>2, <1>3, <1>4 DEF Requests!Next

\* A field that no request names stays what it was (put_settings of api.rs),
\* for any number of requests at once.
THEOREM SettingsCorrect == AppSpec => []UnnamedIsKept
<1> DEFINE Inv == part = "settings" => Requests!UnnamedInv
<1>1. AppInit => Inv
  BY AppPartsAssumption, AppPartStarts, SettingsInit
<1>2. Inv /\ [AppNext]_vars => Inv'
  BY AppPartsAssumption, AppPartMoves, SettingsStays
<1>3. Inv => UnnamedIsKept
  BY DEF UnnamedIsKept, Requests!UnnamedIsKept, Requests!UnnamedInv, Requests!Unnamed
<1> HIDE DEF Inv
<1> QED
  BY <1>1, <1>2, <1>3, PTL DEF AppSpec

-----------------------------------------------------------------------------
(* The translation: v1 is translated, v2 base, v3 got, v4 offset, v5 at,   *)
(* v6 count and v7 progress.                                               *)

LEMMA LeastOfTwo ==
  ASSUME NEW a \in Int, NEW b \in Int
  PROVE  Translate!Min({a, b}) = IF a <= b THEN a ELSE b
<1> DEFINE least == IF a <= b THEN a ELSE b
<1>1. least \in {a, b} /\ \A y \in {a, b} : least <= y
  OBVIOUS
<1>2. \A x \in {a, b} : (\A y \in {a, b} : x <= y) => x = least
  OBVIOUS
<1> QED
  BY <1>1, <1>2 DEF Translate!Min

\* Of two sets that share nothing there are as many as of both.
LEMMA DisjointCount ==
  ASSUME NEW S, NEW T, IsFiniteSet(S), IsFiniteSet(T), S \cap T = {}
  PROVE  Cardinality(S \cup T) = Cardinality(S) + Cardinality(T)
<1>1. Cardinality(S \cup T) = Cardinality(S) + Cardinality(T) - Cardinality(S \cap T)
  BY ZenonT(60), FS_Union
<1>2. Cardinality(S \cap T) = 0
  BY ZenonT(60), FS_EmptySet
<1>3. Cardinality(S) \in Nat /\ Cardinality(T) \in Nat
  BY ZenonT(60), FS_CardinalityType
<1> QED
  BY SMTT(30), <1>1, <1>2, <1>3

\* The instance's Cardinality is the one the library's theorems are about.
LEMMA SameCount ==
  ASSUME NEW S
  PROVE  Translate!Cardinality(S) = Cardinality(S)
BY Zenon DEF Cardinality, Translate!Cardinality

\* To have no answer is to have none of another line.
LEMMA NoAnswer ==
  ASSUME Translate!TranslationAssumption
  PROVE  /\ Translate!None \in Translate!Answers
         /\ \A n \in Translate!Numbers : Translate!CameFor(n, Translate!None)
BY DEF Translate!TranslationAssumption, Translate!None, Translate!Answers, Translate!Bare,
  Translate!CameFor

\* What a batch numbers n, and what n is given alone, came for n.
LEMMA AnswersCome ==
  ASSUME Translate!TranslationAssumption, NEW n \in Translate!Numbers,
         NEW k \in {Translate!Bare} \cup Translate!Numbers
  PROVE  /\ [asked |-> 0, number |-> n] \in Translate!Answers
         /\ Translate!CameFor(n, [asked |-> 0, number |-> n])
         /\ [asked |-> n, number |-> k] \in Translate!Answers
         /\ Translate!CameFor(n, [asked |-> n, number |-> k])
BY DEF Translate!TranslationAssumption, Translate!Numbers, Translate!Answers, Translate!Bare,
  Translate!CameFor

LEMMA TranslationInit ==
  ASSUME Translate!TranslationAssumption, Translate!Init
  PROVE  Translate!InPlaceInv
<1> USE DEF Translate!TranslationAssumption, Translate!Init, Translate!Numbers
<1>1. {n \in Translate!Numbers : v1[n] # Translate!None} = {}
  OBVIOUS
<1>2. v6 = Cardinality({n \in Translate!Numbers : v1[n] # Translate!None})
  BY <1>1, FS_EmptySet
<1>3. /\ v1 \in [Translate!Numbers -> Translate!Answers]
      /\ v3 \in [Translate!Numbers -> Translate!Answers]
      /\ \A n \in Translate!Numbers : v1[n] = Translate!None /\ v3[n] = Translate!None
  BY NoAnswer
<1>4. v5 \in {"batch", "done"} /\ (v5 = "done" <=> NumCues = 0)
  OBVIOUS
<1>5. v2 \in 0 .. NumCues /\ v4 \in Nat /\ v6 = 0 /\ v2 = 0 /\ v7 = 0
  OBVIOUS
<1>6. Translate!TranslationsAreInPlace
  <2>1. v6 = Translate!Cardinality({n \in Translate!Numbers : v1[n] # Translate!None})
    BY <1>2, SameCount, Zenon
  <2> QED
    BY <1>3, <1>4, <1>5, <2>1, NoAnswer DEF Translate!TranslationsAreInPlace
<1>7. v5 = "batch" => v2 < NumCues
  BY <1>4, <1>5
<1> QED
  BY <1>3, <1>4, <1>5, <1>6, <1>7, NoAnswer DEF Translate!InPlaceInv

LEMMA TranslationStays ==
  ASSUME Translate!TranslationAssumption, Translate!InPlaceInv, [Translate!Next]_(Translate!vars)
  PROVE  Translate!InPlaceInv'
<1> USE DEF Translate!TranslationAssumption
<1> DEFINE Done == {n \in Translate!Numbers : v1[n] # Translate!None}
<1>b. CASE v5 \in {"batch", "retry", "apply"}
  <2>1. Translate!BatchLen = (IF BATCH <= NumCues - v2 THEN BATCH ELSE NumCues - v2)
    BY <1>b, LeastOfTwo DEF Translate!BatchLen, Translate!InPlaceInv
  <2>2. /\ Translate!BatchLen \in Nat
        /\ v2 + Translate!BatchLen \in v2 + 1 .. NumCues
    BY <1>b, <2>1 DEF Translate!InPlaceInv
  <2>3. Translate!Batch \subseteq Translate!Numbers
    BY <2>2 DEF Translate!Batch, Translate!Numbers, Translate!InPlaceInv
  <2>4. CASE Translate!AskBatch
    <3>1. CASE Translate!Cancel
      BY <3>1 DEF Translate!Cancel, Translate!InPlaceInv, Translate!TranslationsAreInPlace
    <3>2. ASSUME NEW reply \in Translate!Replies,
                 v3' = [n \in Translate!Numbers |-> IF n \in DOMAIN reply
                          THEN [asked |-> 0, number |-> n] ELSE Translate!None],
                 v4' = 0, v5' = "retry", UNCHANGED <<v1, v2, v6, v7>>
          PROVE  Translate!InPlaceInv'
      <4>1. /\ v3' \in [Translate!Numbers -> Translate!Answers]
            /\ \A n \in Translate!Numbers : Translate!CameFor(n, v3'[n])
        BY <3>2, NoAnswer, AnswersCome
      <4> QED
        BY <1>b, <3>2, <4>1 DEF Translate!InPlaceInv, Translate!TranslationsAreInPlace
    <3> QED
      BY <2>4, <3>1, <3>2 DEF Translate!AskBatch
  <2>5. CASE Translate!Skip
    BY <2>5 DEF Translate!Skip, Translate!InPlaceInv, Translate!TranslationsAreInPlace
  <2>6. CASE Translate!RetryLine
    <3>1. CASE Translate!Cancel
      BY <3>1 DEF Translate!Cancel, Translate!InPlaceInv, Translate!TranslationsAreInPlace
    <3>2. Translate!Number(v4) = v2 + v4 + 1 /\ Translate!Number(v4) \in Translate!Numbers
      BY <2>2, <2>6 DEF Translate!RetryLine, Translate!Number, Translate!Numbers,
        Translate!InPlaceInv
    <3>3. ASSUME v3' = v3, v4' = v4 + 1, UNCHANGED <<v1, v2, v5, v6, v7>>
          PROVE  Translate!InPlaceInv'
      BY <3>3 DEF Translate!InPlaceInv, Translate!TranslationsAreInPlace
    <3>4. ASSUME NEW number \in {Translate!Bare} \cup Translate!Numbers,
                 v3' = [v3 EXCEPT ![Translate!Number(v4)] = [asked |-> v2 + v4 + 1, number |-> number]],
                 v4' = v4 + 1, UNCHANGED <<v1, v2, v5, v6, v7>>
          PROVE  Translate!InPlaceInv'
      <4> DEFINE n == Translate!Number(v4)
                 answer == [asked |-> n, number |-> number]
      <4>1. n \in Translate!Numbers /\ v3' = [v3 EXCEPT ![n] = answer]
        BY <3>2, <3>4
      <4>2. answer \in Translate!Answers /\ Translate!CameFor(n, answer)
        BY <4>1, AnswersCome
      <4> HIDE DEF n, answer
      <4>3. /\ v3' \in [Translate!Numbers -> Translate!Answers]
            /\ \A m \in Translate!Numbers : Translate!CameFor(m, v3'[m])
        BY <4>1, <4>2 DEF Translate!InPlaceInv
      <4> QED
        BY <3>4, <4>3 DEF Translate!InPlaceInv, Translate!TranslationsAreInPlace
    <3> QED
      BY <2>6, <3>1, <3>3, <3>4 DEF Translate!RetryLine
  <2>7. CASE Translate!Retried
    BY <1>b, <2>7 DEF Translate!Retried, Translate!Cancel, Translate!InPlaceInv,
      Translate!TranslationsAreInPlace
  <2>8. CASE Translate!Apply
    <3> DEFINE answered == {n \in Translate!Batch : v3[n] # Translate!None}
    <3>1. \A n \in Translate!Batch : Translate!Number(n - v2 - 1) = n
      BY <2>2 DEF Translate!Batch, Translate!Number, Translate!InPlaceInv
    <3>2. answered = {n \in Translate!Batch : v3[Translate!Number(n - v2 - 1)] # Translate!None}
      BY <3>1
    <3>3. /\ v1' = [n \in Translate!Numbers |-> IF n \in answered THEN v3[n] ELSE v1[n]]
          /\ v6' = v6 + Cardinality(answered)
      <4> DEFINE Of(n) == v3[Translate!Number(n - v2 - 1)]
      <4>1. /\ v1' = [n \in Translate!Numbers |-> IF n \in {m \in Translate!Batch : Of(m) # Translate!None}
                                               THEN Of(n) ELSE v1[n]]
            /\ v6' = v6 + Cardinality({m \in Translate!Batch : Of(m) # Translate!None})
        BY <2>8, SameCount DEF Translate!Apply
      <4>2. {m \in Translate!Batch : Of(m) # Translate!None} = answered
        BY <3>2
      <4>3. \A n \in answered : Of(n) = v3[n]
        BY <3>1
      <4> HIDE DEF Of, answered
      <4> QED
        BY <4>1, <4>2, <4>3
    <3>4. /\ v7' = v2 + Translate!BatchLen /\ v2' = v2 + Translate!BatchLen
          /\ v3' = [n \in Translate!Numbers |-> Translate!None] /\ v4' = 0
          /\ v5' = IF v2 + Translate!BatchLen = NumCues THEN "done" ELSE "batch"
      BY <2>2, <2>8, LeastOfTwo DEF Translate!Apply, Translate!InPlaceInv
    <3>5. /\ answered \subseteq Translate!Numbers
          /\ \A n \in answered : n > v2 /\ n <= v2 + Translate!BatchLen
      BY <2>2, <2>3 DEF Translate!Batch, Translate!InPlaceInv
    <3>6. /\ v1' \in [Translate!Numbers -> Translate!Answers]
          /\ \A n \in Translate!Numbers : Translate!CameFor(n, v1'[n])
      BY <3>3, <3>5 DEF Translate!InPlaceInv, Translate!TranslationsAreInPlace
    <3>7. \A n \in Translate!Numbers : n > v2' => v1'[n] = Translate!None
      BY SMTT(30), <2>2, <3>3, <3>4, <3>5 DEF Translate!InPlaceInv,
        Translate!TranslationsAreInPlace, Translate!Numbers
    <3>8. v6' = Cardinality(Done') /\ v6' \in Nat
      <4>1. IsFiniteSet(Translate!Numbers)
        BY FS_Interval DEF Translate!Numbers
      <4>2. IsFiniteSet(Done) /\ IsFiniteSet(answered)
        BY <3>5, <4>1, FS_Subset
      <4>3. Done' = Done \cup answered
        BY <3>3, <3>5 DEF Translate!InPlaceInv, Translate!Numbers
      <4>4. Done \cap answered = {}
        BY <3>5 DEF Translate!InPlaceInv, Translate!TranslationsAreInPlace
      <4>5. Cardinality(Done \cup answered) = Cardinality(Done) + Cardinality(answered)
        BY ZenonT(60), <4>2, <4>4, DisjointCount
      <4>6. v6 = Cardinality(Done) /\ Cardinality(answered) \in Nat
        BY <4>2, SameCount, FS_CardinalityType DEF Translate!InPlaceInv,
          Translate!TranslationsAreInPlace
      <4> QED
        BY <3>3, <4>3, <4>5, <4>6 DEF Translate!InPlaceInv
    <3>9. /\ v3' \in [Translate!Numbers -> Translate!Answers]
          /\ \A n \in Translate!Numbers : Translate!CameFor(n, v3'[n])
      BY <3>4, NoAnswer
    <3>10. /\ v2' \in 0 .. NumCues /\ v4' \in Nat
           /\ v5' \in {"batch", "done"}
           /\ v5' = "batch" => v2' < NumCues
           /\ v5' = "done" => v2' = NumCues /\ v7' = NumCues
      BY <2>2, <3>4 DEF Translate!InPlaceInv
    <3> QED
      BY <3>6, <3>7, <3>8, <3>9, <3>10, SameCount DEF Translate!InPlaceInv,
        Translate!TranslationsAreInPlace
  <2>9. CASE UNCHANGED Translate!vars
    BY <2>9 DEF Translate!vars, Translate!InPlaceInv, Translate!TranslationsAreInPlace
  <2> QED
    BY <2>4, <2>5, <2>6, <2>7, <2>8, <2>9 DEF Translate!Next
<1>e. CASE v5 \notin {"batch", "retry", "apply"}
  BY <1>e DEF Translate!Next, Translate!AskBatch, Translate!Skip, Translate!RetryLine,
    Translate!Retried, Translate!Apply, Translate!vars, Translate!InPlaceInv,
    Translate!TranslationsAreInPlace
<1> QED
  BY <1>b, <1>e

\* What a cue holds is a line a batch numbers so or the answer to it alone
\* (translate_cues of translate.rs), the count that is reported is right, and a
\* cancel leaves whole batches: for any number of cues, any batch size and
\* whatever the model answers.
THEOREM TranslationCorrect == AppSpec => []TranslationsAreInPlace
<1> DEFINE Inv == part = "translation" => Translate!InPlaceInv
<1>1. AppInit => Inv
  BY AppPartsAssumption, AppPartStarts, TranslationInit
<1>2. Inv /\ [AppNext]_vars => Inv'
  BY AppPartsAssumption, AppPartMoves, TranslationStays
<1>3. Inv => TranslationsAreInPlace
  BY DEF TranslationsAreInPlace, Translate!InPlaceInv
<1> HIDE DEF Inv
<1> QED
  BY <1>1, <1>2, <1>3, PTL DEF AppSpec

-----------------------------------------------------------------------------
(* The stream: v1 is the wire, v2 what was heard, v3 the buffer, v4 the    *)
(* items, v5 upstream and v6 reading.                                      *)

StreamItem == Stream!Terminals \cup {"delta"}
ReaderStart == [frame |-> <<>>, items |-> <<>>, over |-> FALSE]

\* g is a reader's way through the first m of some lines.
ReadsTo(lines, m, g) ==
  g = [n \in 0 .. m |-> IF n = 0 THEN ReaderStart ELSE Stream!Read(g[n - 1], lines[n])]

\* There is one.
LEMMA ReaderRuns ==
  ASSUME NEW lines, NEW m \in Nat
  PROVE  \E g : ReadsTo(lines, m, g)
<1> DEFINE T == {k \in Nat : ~\E g : ReadsTo(lines, k, g)}
<1> SUFFICES ASSUME T # {}
             PROVE  FALSE
  OBVIOUS
<1>1. PICK k \in T : \A j \in T : k <= j
  <2>1. T \subseteq Nat /\ T # {}
    OBVIOUS
  <2> HIDE DEF T
  <2> QED
    BY <2>1, LeastNumber
<1>2. k \in Nat /\ ~\E g : ReadsTo(lines, k, g)
  BY <1>1
<1>3. CASE k = 0
  <2> DEFINE g == [n \in 0 .. 0 |-> ReaderStart]
  <2>1. ReadsTo(lines, 0, g)
    BY DEF ReadsTo
  <2> QED
    BY <1>2, <1>3, <2>1
<1>4. CASE k # 0
  <2>1. k - 1 \in Nat /\ ~(k <= k - 1)
    BY <1>2, <1>4
  <2>2. k - 1 \notin T
    BY <1>1, <2>1
  <2>3. PICK h : ReadsTo(lines, k - 1, h)
    BY <2>1, <2>2
  <2> DEFINE g == [n \in 0 .. k |-> IF n = k THEN Stream!Read(h[k - 1], lines[k]) ELSE h[n]]
  <2>4. \A n \in 0 .. k : n # k => n \in 0 .. k - 1
    BY <1>2
  <2>5. \A n \in 0 .. k : g[n] = IF n = 0 THEN ReaderStart ELSE Stream!Read(g[n - 1], lines[n])
    <3> SUFFICES ASSUME NEW n \in 0 .. k
                 PROVE  g[n] = IF n = 0 THEN ReaderStart ELSE Stream!Read(g[n - 1], lines[n])
      OBVIOUS
    <3>0. \A j \in 0 .. k - 1 : g[j] = h[j]
      BY <2>1
    <3>1. CASE n = k
      <4>1. g[n] = Stream!Read(h[k - 1], lines[k]) /\ k - 1 \in 0 .. k - 1
        BY <3>1, <2>1, <1>2
      <4>2. g[k - 1] = h[k - 1]
        BY <4>1, <3>0
      <4> HIDE DEF g
      <4> QED
        BY <4>1, <4>2, <3>1, <1>4
    <3>2. CASE n # k
      <4>1. n \in 0 .. k - 1
        BY <3>2, <2>4
      <4>2. h[n] = IF n = 0 THEN ReaderStart ELSE Stream!Read(h[n - 1], lines[n])
        BY <2>3, <4>1 DEF ReadsTo
      <4>3. g[n] = h[n]
        BY <3>0, <4>1
      <4>4. n # 0 => g[n - 1] = h[n - 1]
        <5>1. n # 0 => n - 1 \in 0 .. k - 1
          BY <4>1
        <5> QED
          BY <5>1, <3>0
      <4> HIDE DEF g
      <4> QED
        BY <4>2, <4>3, <4>4
    <3> QED
      BY <3>1, <3>2
  <2>6. ReadsTo(lines, k, g)
    BY <2>5 DEF ReadsTo
  <2> QED
    BY <2>6, <1>2
<1> QED
  BY <1>3, <1>4

\* And what it reads depends on what it has read.
Alike(l1, l2, m) == \A i \in 1 .. m : l1[i] = l2[i]

LEMMA ReaderAgrees ==
  ASSUME NEW l1, NEW l2, NEW m \in Nat, NEW g1, NEW g2,
         ReadsTo(l1, m, g1), ReadsTo(l2, m + 1, g2), Alike(l1, l2, m)
  PROVE  g1[m] = g2[m]
<1> DEFINE T == {k \in Nat : k <= m /\ g1[k] # g2[k]}
<1> SUFFICES ASSUME T # {}
             PROVE  FALSE
  OBVIOUS
<1>1. PICK k \in T : \A j \in T : k <= j
  <2>1. T \subseteq Nat /\ T # {}
    OBVIOUS
  <2> HIDE DEF T
  <2> QED
    BY <2>1, LeastNumber
<1>2. /\ k \in Nat /\ k <= m /\ g1[k] # g2[k] /\ k \in 0 .. m /\ k \in 0 .. m + 1
  BY <1>1
<1>3. /\ g1[k] = IF k = 0 THEN ReaderStart ELSE Stream!Read(g1[k - 1], l1[k])
      /\ g2[k] = IF k = 0 THEN ReaderStart ELSE Stream!Read(g2[k - 1], l2[k])
  BY <1>2 DEF ReadsTo
<1>4. k # 0
  BY <1>2, <1>3
<1>5. k - 1 \in Nat /\ k - 1 <= m /\ ~(k <= k - 1) /\ k \in 1 .. m
  BY <1>2, <1>4
<1>6. g1[k - 1] = g2[k - 1]
  BY <1>1, <1>5
<1>7. l1[k] = l2[k]
  BY <1>5 DEF Alike
<1> QED
  BY <1>2, <1>3, <1>4, <1>6, <1>7, Zenon

LEMMA ReaderIs ==
  ASSUME NEW lines, NEW m \in Nat, Len(lines) = m
  PROVE  \E g : ReadsTo(lines, m, g) /\ Stream!Reader(lines) = g[m]
<1>1. Stream!Reader(lines) = (CHOOSE g : ReadsTo(lines, m, g))[m]
  BY Zenon DEF Stream!Reader, ReadsTo, ReaderStart
<1>2. \E g : ReadsTo(lines, m, g)
  BY ReaderRuns
<1> QED
  BY <1>1, <1>2, Zenon

\* Line by line.
Upto(lines, k) == Stream!Reader(SubSeq(lines, 1, k))

LEMMA ReadLine ==
  ASSUME NEW lines \in Seq(Stream!Lines)
  PROVE  /\ Upto(lines, 0) = ReaderStart /\ Upto(lines, Len(lines)) = Stream!Reader(lines)
         /\ \A k \in 0 .. Len(lines) - 1 :
              Upto(lines, k + 1) = Stream!Read(Upto(lines, k), lines[k + 1])
<1>1. Len(lines) \in Nat
  BY LenProperties
<1>2. ASSUME NEW k \in 0 .. Len(lines)
      PROVE  /\ Len(SubSeq(lines, 1, k)) = k /\ k \in Nat
             /\ \A i \in 1 .. k : SubSeq(lines, 1, k)[i] = lines[i]
  <2>1. k \in Nat /\ \A j \in 1 .. k : j \in 1 .. Len(lines)
    BY <1>1
  <2> QED
    BY <2>1, <1>1, SubSeqProperties
<1>3. ASSUME NEW k \in 0 .. Len(lines)
      PROVE  \E g : ReadsTo(SubSeq(lines, 1, k), k, g) /\ Upto(lines, k) = g[k]
  BY <1>2, ReaderIs, Zenon DEF Upto
<1>4. Upto(lines, 0) = ReaderStart
  <2>0. 0 \in 0 .. Len(lines)
    BY <1>1
  <2>1. PICK g : ReadsTo(SubSeq(lines, 1, 0), 0, g) /\ Upto(lines, 0) = g[0]
    BY <1>3, <2>0
  <2> QED
    BY <2>1 DEF ReadsTo
<1>5. Upto(lines, Len(lines)) = Stream!Reader(lines)
  BY <1>1, SubSeqFull DEF Upto
<1>6. ASSUME NEW k \in 0 .. Len(lines) - 1
      PROVE  Upto(lines, k + 1) = Stream!Read(Upto(lines, k), lines[k + 1])
  <2>1. k \in Nat /\ k \in 0 .. Len(lines) /\ k + 1 \in 0 .. Len(lines) /\ k + 1 \in Nat /\ k <= k + 1
        /\ k + 1 \in 1 .. k + 1 /\ k \in 0 .. k /\ k + 1 # 0 /\ k + 1 - 1 = k /\ k \in 0 .. k + 1
        /\ k + 1 \in 0 .. k + 1
    BY <1>1
  <2>2. PICK g : ReadsTo(SubSeq(lines, 1, k), k, g) /\ Upto(lines, k) = g[k]
    BY <1>3, <2>1
  <2>3. PICK h : ReadsTo(SubSeq(lines, 1, k + 1), k + 1, h) /\ Upto(lines, k + 1) = h[k + 1]
    BY <1>3, <2>1
  <2>4. \A i \in 1 .. k : SubSeq(lines, 1, k)[i] = SubSeq(lines, 1, k + 1)[i]
    <3>1. \A i \in 1 .. k : i \in 1 .. k + 1
      BY <2>1
    <3> QED
      BY <3>1, <1>2, <2>1
  <2>5. g[k] = h[k]
    <3> DEFINE t == SubSeq(lines, 1, k)
               u == SubSeq(lines, 1, k + 1)
    <3>1. ReadsTo(t, k, g) /\ ReadsTo(u, k + 1, h) /\ Alike(t, u, k)
      BY <2>2, <2>3, <2>4 DEF Alike
    <3> HIDE DEF t, u
    <3> QED
      BY <3>1, <2>1, ReaderAgrees
  <2>6. h[k + 1] = Stream!Read(h[k + 1 - 1], SubSeq(lines, 1, k + 1)[k + 1])
    <3> DEFINE m == k + 1
               t == SubSeq(lines, 1, k + 1)
    <3>1. m \in 0 .. m /\ m # 0
      BY <2>1
    <3>2. ReadsTo(t, m, h)
      BY <2>3
    <3> HIDE DEF m, t
    <3>3. h[m] = Stream!Read(h[m - 1], t[m])
      BY <3>1, <3>2 DEF ReadsTo
    <3> QED
      BY <3>3 DEF m, t
  <2>7. SubSeq(lines, 1, k + 1)[k + 1] = lines[k + 1]
    BY <1>2, <2>1
  <2> QED
    BY <2>1, <2>2, <2>3, <2>5, <2>6, <2>7, Zenon
<1> QED
  BY <1>4, <1>5, <1>6

\* The lines after the first c.
Rest(lines, c, buffer) ==
  /\ c \in Nat /\ Len(lines) = c + Len(buffer)
  /\ \A i \in 1 .. Len(buffer) : buffer[i] = lines[c + i]

Unbroken(buffer, m) == \A i \in 2 .. m : buffer[i] # Stream!Blank
At(f, it) == [frame |-> f, items |-> it, over |-> FALSE]

\* Of lines without an empty one, but the first, a reader makes one frame.
LEMMA FrameReads ==
  ASSUME NEW lines \in Seq(Stream!Lines), NEW buffer \in Seq(Stream!Lines), NEW c, NEW it,
         Rest(lines, c, buffer), Upto(lines, c) = At(<<>>, it),
         NEW m \in 0 .. Len(buffer), Unbroken(buffer, m)
  PROVE  Upto(lines, c + m) = At(SubSeq(buffer, 1, m), it)
<1>0. c \in Nat /\ Len(lines) = c + Len(buffer) /\ Len(buffer) \in Nat /\ m \in Nat /\ m <= Len(buffer)
  BY LenProperties DEF Rest
<1> DEFINE P(k) == Upto(lines, c + k) = At(SubSeq(buffer, 1, k), it)
           T == {k \in Nat : k <= m /\ ~P(k)}
<1> SUFFICES ASSUME T # {}
             PROVE  FALSE
  BY <1>0
<1>1. PICK k \in T : \A j \in T : k <= j
  <2>1. T \subseteq Nat /\ T # {}
    OBVIOUS
  <2> HIDE DEF T
  <2> QED
    BY <2>1, LeastNumber
<1>2. k \in Nat /\ k <= m /\ ~P(k)
  BY <1>1
<1>3. k # 0
  <2>1. SubSeq(buffer, 1, 0) = <<>> /\ c + 0 = c
    BY <1>0, SubSeqEmpty
  <2>2. P(0)
    BY <2>1
  <2> QED
    BY <1>2, <2>2
<1> DEFINE j == k - 1
<1>4. j \in Nat /\ j <= m /\ ~(k <= j) /\ k = j + 1
  BY <1>2, <1>3
<1>5. P(j)
  BY <1>1, <1>4
<1> HIDE DEF P, T
<1>6. Upto(lines, c + j) = At(SubSeq(buffer, 1, j), it)
  BY <1>5 DEF P
<1>7. /\ c + j \in 0 .. Len(lines) - 1 /\ c + k = (c + j) + 1
      /\ k \in 1 .. Len(buffer)
  BY <1>0, <1>2, <1>4
<1> HIDE DEF j
<1>8. Upto(lines, c + k) = Stream!Read(At(SubSeq(buffer, 1, j), it), lines[c + k])
  BY <1>6, <1>7, ReadLine
<1>9. lines[c + k] = buffer[k]
  BY <1>7 DEF Rest
<1>10. buffer[k] # Stream!Blank \/ SubSeq(buffer, 1, j) = <<>>
  <2>1. CASE k = 1
    <3>1. j = 0
      BY <1>4, <2>1
    <3> QED
      BY <3>1, SubSeqEmpty
  <2>2. CASE k # 1
    BY <2>2, <1>2, <1>3, <1>0 DEF Unbroken
  <2> QED
    BY <2>1, <2>2
<1> DEFINE f == SubSeq(buffer, 1, j)
           x == buffer[k]
<1>11. f \in Seq(Stream!Lines) /\ x \in Stream!Lines
  <2>1. \A i \in 1 .. j : i \in 1 .. Len(buffer)
    BY <1>0, <1>4
  <2> QED
    BY <2>1, <1>4, <1>7, SubSeqProperties
<1>12. SubSeq(buffer, 1, k) = Append(f, x)
  <2>1. 1 \in 1 .. Len(buffer) /\ k \in 1 .. Len(buffer) /\ k - 1 = j
    BY <1>7, <1>4
  <2>2. SubSeq(buffer, 1, k) = SubSeq(buffer, 1, k - 1) \o <<buffer[k]>>
    BY <2>1, SubSeqRecursiveSecond
  <2>3. Append(f, x) = f \o <<x>>
    BY <1>11, AppendIsConcat
  <2> QED
    BY <2>1, <2>2, <2>3
<1> HIDE DEF f, x
<1>13. Stream!Read(At(f, it), x) = At(Append(f, x), it)
  BY <1>10 DEF Stream!Read, At, f, x
<1>14. Upto(lines, c + k) = At(Append(f, x), it)
  BY <1>8, <1>9, <1>13, Zenon DEF f, x
<1> QED
  BY <1>2, <1>12, <1>14, Zenon DEF P

\* Who has heard the end reads on without effect.
LEMMA OverReads ==
  ASSUME NEW lines \in Seq(Stream!Lines), NEW c \in Nat, c <= Len(lines), Upto(lines, c).over
  PROVE  Stream!Reader(lines) = Upto(lines, c)
<1>0. Len(lines) \in Nat
  BY LenProperties
<1> DEFINE P(k) == Upto(lines, k) = Upto(lines, c)
           T == {k \in Nat : c <= k /\ k <= Len(lines) /\ ~P(k)}
<1> SUFFICES ASSUME T # {}
             PROVE  FALSE
  <2>1. c <= Len(lines) /\ Len(lines) <= Len(lines)
    BY <1>0
  <2>2. T = {} => P(Len(lines))
    BY <2>1, <1>0
  <2> HIDE DEF T
  <2>3. ~(T # {}) => Upto(lines, Len(lines)) = Upto(lines, c)
    BY <2>2
  <2> QED
    BY <2>3, ReadLine
<1>1. PICK k \in T : \A j \in T : k <= j
  <2>1. T \subseteq Nat /\ T # {}
    OBVIOUS
  <2> HIDE DEF T
  <2> QED
    BY <2>1, LeastNumber
<1>2. k \in Nat /\ c <= k /\ k <= Len(lines) /\ ~P(k)
  BY <1>1
<1>3. k # c
  BY <1>2
<1> DEFINE j == k - 1
<1>4. j \in Nat /\ c <= j /\ j <= Len(lines) /\ ~(k <= j) /\ k = j + 1 /\ j \in 0 .. Len(lines) - 1
  BY <1>0, <1>2, <1>3
<1>5. P(j)
  BY <1>1, <1>4
<1> HIDE DEF j
<1>6. Upto(lines, j + 1) = Stream!Read(Upto(lines, j), lines[j + 1])
  BY <1>4, ReadLine
<1>7. Upto(lines, j) = Upto(lines, c)
  BY <1>5
<1>8. Stream!Read(Upto(lines, c), lines[j + 1]) = Upto(lines, c)
  BY DEF Stream!Read
<1>9. Upto(lines, k) = Upto(lines, c)
  BY <1>4, <1>6, <1>7, <1>8, Zenon
<1> QED
  BY <1>2, <1>9

\* What is heard later does not change what was read.
LEMMA UptoMore ==
  ASSUME NEW lines \in Seq(Stream!Lines), NEW more \in Seq(Stream!Lines), NEW c \in 0 .. Len(lines)
  PROVE  Upto(lines \o more, c) = Upto(lines, c)
<1>0. Len(lines) \in Nat /\ c \in Nat
  BY LenProperties
<1>1. SubSeq(lines \o more, 1, c) = SubSeq(lines, 1, c)
  <2>1. CASE c = 0
    BY <2>1, SubSeqEmpty
  <2>2. CASE c # 0
    <3>1. 1 \in 1 .. Len(lines) /\ c \in 1 .. Len(lines)
      BY <1>0, <2>2
    <3> QED
      BY <3>1, SubSeqOfConcat1
  <2> QED
    BY <2>1, <2>2
<1> QED
  BY <1>1 DEF Upto

\* The least of a set.
LEMMA FirstIs ==
  ASSUME NEW S, S \subseteq Nat, S # {}
  PROVE  Stream!FirstOf(S) \in S /\ \A j \in S : Stream!FirstOf(S) <= j
<1>1. \E i \in S : \A j \in S : i <= j
  BY LeastNumber
<1> QED
  BY <1>1, Zenon DEF Stream!FirstOf

\* A frame is at most one event.
LEMMA ParsedIs ==
  ASSUME NEW frame \in Seq(Stream!Lines)
  PROVE  Stream!Parsed(frame) = <<>> \/ \E x \in StreamItem : Stream!Parsed(frame) = <<x>>
<1> DEFINE data == {i \in 1 .. Len(frame) : frame[i] \in Stream!DataLines}
           d == Stream!FirstOf(data)
<1>0. "garbled" \in StreamItem
  BY DEF StreamItem, Stream!Terminals
<1>1. Stream!Parsed(frame) =
        IF \E i \in 1 .. Len(frame) : frame[i] = "binary" THEN <<"garbled">>
        ELSE IF data = {} \/ frame[d] = "other" THEN <<>> ELSE <<frame[d]>>
  BY Zenon DEF Stream!Parsed
<1>2. data # {} => d \in data
  <2>1. data \subseteq Nat
    OBVIOUS
  <2> HIDE DEF data
  <2> QED
    BY <2>1, FirstIs DEF d
<1>3. data # {} => frame[d] \in Stream!DataLines
  <2> HIDE DEF d
  <2> QED
    BY <1>2
<1>4. data # {} /\ frame[d] # "other" => frame[d] \in StreamItem
  BY <1>3 DEF Stream!DataLines, StreamItem, Stream!Terminals
<1> HIDE DEF d, data
<1> QED
  BY <1>0, <1>1, <1>4

-----------------------------------------------------------------------------
(* The invariant, as it is used here.                                      *)

StreamTypes ==
  /\ v1 \in Seq(Stream!Lines) /\ v2 \in Seq(Stream!Lines) /\ v3 \in Seq(Stream!Lines)
  /\ v4 \in Seq(StreamItem)
  /\ v5 \in {"open", "ended", "broken"} /\ v6 \in {"chunk", "frames", "over"}

CutAt(heard, buffer, items, reading, c) ==
  /\ Rest(heard, c, buffer)
  /\ reading # "over" => Upto(heard, c) = At(<<>>, items)
  /\ reading = "chunk" => Stream!Boundaries(buffer) = {}

Told(heard, items, reading) ==
  /\ \A i \in 1 .. Len(items) :
       Stream!Terminal(items[i]) <=> (reading = "over" /\ i = Len(items))
  /\ reading = "chunk" => items = Stream!Events(heard)
  /\ reading = "over" =>
       \E end \in {<<>>, <<"transport">>, <<"unfinished">>} : items = Stream!Events(heard) \o end

StreamHolds == StreamTypes /\ (\E c : CutAt(v2, v3, v4, v6, c)) /\ Told(v2, v4, v6)

LEMMA CutIs ==
  ASSUME NEW heard \in Seq(Stream!Lines), NEW buffer \in Seq(Stream!Lines), NEW items, NEW reading
  PROVE  (\E c : CutAt(heard, buffer, items, reading, c))
           <=> CutAt(heard, buffer, items, reading, Len(heard) - Len(buffer))
<1>1. Len(heard) \in Nat /\ Len(buffer) \in Nat
  BY LenProperties
<1>2. ASSUME NEW c, CutAt(heard, buffer, items, reading, c)
      PROVE  c = Len(heard) - Len(buffer)
  <2>1. c \in Nat /\ Len(heard) = c + Len(buffer)
    BY <1>2 DEF CutAt, Rest
  <2> QED
    BY <2>1, <1>1
<1> QED
  BY <1>2, Zenon

LEMMA StreamInvIs ==
  /\ Stream!StreamInv <=> StreamHolds
  /\ Stream!StreamInv' <=> StreamHolds'
<1>1. /\ Stream!TypeOK <=> StreamTypes
      /\ Stream!TypeOK' <=> StreamTypes'
  BY DEF Stream!TypeOK, StreamTypes, StreamItem
<1>2. /\ Stream!StreamIsWhole <=> Told(v2, v4, v6)
      /\ Stream!StreamIsWhole' <=> Told(v2', v4', v6')
  BY Zenon DEF Stream!StreamIsWhole, Told
<1>3. ASSUME NEW heard \in Seq(Stream!Lines), NEW buffer \in Seq(Stream!Lines)
      PROVE  Len(heard) - Len(buffer) \in Nat
               => Len(heard) = (Len(heard) - Len(buffer)) + Len(buffer)
  <2>1. Len(heard) \in Nat /\ Len(buffer) \in Nat
    BY LenProperties
  <2> QED
    BY <2>1
<1>4. StreamTypes => (Stream!CutIsRead <=> CutAt(v2, v3, v4, v6, Len(v2) - Len(v3)))
  <2> SUFFICES ASSUME StreamTypes
               PROVE  Stream!CutIsRead <=> CutAt(v2, v3, v4, v6, Len(v2) - Len(v3))
    OBVIOUS
  <2>1. Len(v2) - Len(v3) \in Nat => Len(v2) = (Len(v2) - Len(v3)) + Len(v3)
    BY <1>3 DEF StreamTypes
  <2> QED
    BY <2>1, Zenon DEF Stream!CutIsRead, CutAt, Rest, At, Upto
<1>5. StreamTypes' => (Stream!CutIsRead' <=> CutAt(v2', v3', v4', v6', Len(v2') - Len(v3')))
  <2> SUFFICES ASSUME StreamTypes'
               PROVE  Stream!CutIsRead' <=> CutAt(v2', v3', v4', v6', Len(v2') - Len(v3'))
    OBVIOUS
  <2>1. Len(v2') - Len(v3') \in Nat => Len(v2') = (Len(v2') - Len(v3')) + Len(v3')
    BY <1>3 DEF StreamTypes
  <2> QED
    BY <2>1, Zenon DEF Stream!CutIsRead, CutAt, Rest, At, Upto
<1>6. StreamTypes => ((\E c : CutAt(v2, v3, v4, v6, c)) <=> CutAt(v2, v3, v4, v6, Len(v2) - Len(v3)))
  BY CutIs DEF StreamTypes
<1>7. StreamTypes' =>
        ((\E c : CutAt(v2', v3', v4', v6', c)) <=> CutAt(v2', v3', v4', v6', Len(v2') - Len(v3')))
  BY CutIs DEF StreamTypes
<1>8. Stream!StreamInv <=> StreamHolds
  BY <1>1, <1>2, <1>4, <1>6, Zenon DEF Stream!StreamInv, StreamHolds
<1>9. Stream!StreamInv' <=> StreamHolds'
  BY <1>1, <1>2, <1>5, <1>7, Zenon DEF Stream!StreamInv, StreamHolds
<1> QED
  BY <1>8, <1>9

-----------------------------------------------------------------------------
(* The steps.                                                              *)

\* What a chunk adds comes after what was cut.
LEMMA TakesChunk ==
  ASSUME NEW heard \in Seq(Stream!Lines), NEW buffer \in Seq(Stream!Lines), NEW items, NEW c,
         CutAt(heard, buffer, items, "chunk", c), NEW t \in Seq(Stream!Lines)
  PROVE  CutAt(heard \o t, buffer \o t, items, "frames", c)
<1>0. Len(heard) \in Nat /\ Len(buffer) \in Nat /\ Len(t) \in Nat
  BY LenProperties
<1>1. /\ c \in Nat /\ Len(heard) = c + Len(buffer) /\ Upto(heard, c) = At(<<>>, items)
      /\ \A i \in 1 .. Len(buffer) : buffer[i] = heard[c + i]
  BY DEF CutAt, Rest
<1>2. c \in 0 .. Len(heard)
  BY <1>0, <1>1
<1>3. Upto(heard \o t, c) = At(<<>>, items)
  BY <1>1, <1>2, UptoMore
<1>4. /\ Len(heard \o t) = Len(heard) + Len(t) /\ Len(buffer \o t) = Len(buffer) + Len(t)
      /\ \A i \in 1 .. Len(heard) + Len(t) :
           (heard \o t)[i] = IF i <= Len(heard) THEN heard[i] ELSE t[i - Len(heard)]
      /\ \A i \in 1 .. Len(buffer) + Len(t) :
           (buffer \o t)[i] = IF i <= Len(buffer) THEN buffer[i] ELSE t[i - Len(buffer)]
  BY ConcatProperties
<1>5. ASSUME NEW i \in 1 .. Len(buffer \o t)
      PROVE  (buffer \o t)[i] = (heard \o t)[c + i]
  <2> DEFINE a == Len(buffer)
             d == Len(t)
  <2>0. a \in Nat /\ d \in Nat /\ Len(heard) = c + a /\ i \in 1 .. a + d
    BY <1>0, <1>1, <1>4
  <2>1. (buffer \o t)[i] = IF i <= a THEN buffer[i] ELSE t[i - a]
    BY <1>4, <2>0
  <2>2. (heard \o t)[c + i] = IF c + i <= c + a THEN heard[c + i] ELSE t[(c + i) - (c + a)]
    <3>1. c + i \in 1 .. Len(heard) + Len(t)
      BY <2>0, <1>1
    <3> QED
      BY <3>1, <2>0, <1>4
  <2>3. i <= a => buffer[i] = heard[c + i]
    BY <2>0, <1>1
  <2> HIDE DEF a, d
  <2>4. (i <= a <=> c + i <= c + a) /\ (c + i) - (c + a) = i - a
    BY <2>0, <1>1
  <2> QED
    BY <2>1, <2>2, <2>3, <2>4
<1>6. Len(heard \o t) = c + Len(buffer \o t)
  BY <1>0, <1>1, <1>4
<1> QED
  BY <1>1, <1>3, <1>5, <1>6, Zenon DEF CutAt, Rest

\* Lines without a boundary are one frame.
LEMMA NoFrames ==
  ASSUME NEW heard \in Seq(Stream!Lines), NEW buffer \in Seq(Stream!Lines), NEW items, NEW c,
         CutAt(heard, buffer, items, "frames", c), Stream!Boundaries(buffer) = {}
  PROVE  items = Stream!Events(heard)
<1> DEFINE m == Len(buffer)
<1>0. m \in Nat /\ m \in 0 .. Len(buffer)
  BY LenProperties
<1>1. Rest(heard, c, buffer) /\ Upto(heard, c) = At(<<>>, items) /\ Len(heard) = c + m
  BY DEF CutAt, Rest
<1>2. Unbroken(buffer, m)
  <2> SUFFICES ASSUME NEW i \in 2 .. m, buffer[i] = Stream!Blank
               PROVE  FALSE
    BY DEF Unbroken
  <2>1. i - 1 \in 1 .. Len(buffer) - 1 /\ i - 1 + 1 = i
    BY <1>0
  <2>2. i - 1 \in Stream!Boundaries(buffer)
    BY <2>1 DEF Stream!Boundaries
  <2> QED
    BY <2>2
<1> HIDE DEF m
<1>3. Upto(heard, c + m) = At(SubSeq(buffer, 1, m), items)
  BY <1>0, <1>1, <1>2, FrameReads
<1>4. Stream!Reader(heard) = At(SubSeq(buffer, 1, m), items)
  BY <1>1, <1>3, ReadLine
<1> QED
  BY <1>4 DEF Stream!Events, At

\* The first boundary ends the reader's frame.
FrameCut(heard, buffer, items, c) ==
  LET b == Stream!Boundary(buffer)
      item == Stream!Parsed(SubSeq(buffer, 1, b))
      rest == SubSeq(buffer, b + 2, Len(buffer))
  IN /\ Upto(heard, c + b + 1) =
          [frame |-> <<>>, items |-> items \o item,
           over |-> \E i \in DOMAIN item : Stream!Terminal(item[i])]
     /\ Rest(heard, c + b + 1, rest) /\ rest \in Seq(Stream!Lines)
     /\ SubSeq(buffer, 1, b) \in Seq(Stream!Lines)
     /\ c + b + 1 \in Nat /\ c + b + 1 <= Len(heard)

LEMMA CutsFrame ==
  ASSUME NEW heard \in Seq(Stream!Lines), NEW buffer \in Seq(Stream!Lines), NEW items, NEW c,
         CutAt(heard, buffer, items, "frames", c), Stream!Boundaries(buffer) # {}
  PROVE  FrameCut(heard, buffer, items, c)
<1> DEFINE b == Stream!Boundary(buffer)
           frame == SubSeq(buffer, 1, b)
           item == Stream!Parsed(frame)
           rest == SubSeq(buffer, b + 2, Len(buffer))
           d == c + b + 1
<1>0. Len(heard) \in Nat /\ Len(buffer) \in Nat
  BY LenProperties
<1>1. /\ Rest(heard, c, buffer) /\ Upto(heard, c) = At(<<>>, items)
      /\ c \in Nat /\ Len(heard) = c + Len(buffer)
      /\ \A i \in 1 .. Len(buffer) : buffer[i] = heard[c + i]
  BY DEF CutAt, Rest
<1>2. /\ b \in 1 .. Len(buffer) - 1 /\ buffer[b + 1] = Stream!Blank
      /\ \A i \in 1 .. Len(buffer) - 1 : buffer[i + 1] = Stream!Blank => b <= i
  <2>1. Stream!Boundaries(buffer) \subseteq Nat
    BY <1>0 DEF Stream!Boundaries
  <2>2. b \in Stream!Boundaries(buffer) /\ \A i \in Stream!Boundaries(buffer) : b <= i
    BY <2>1, FirstIs DEF Stream!Boundary
  <2> HIDE DEF b
  <2> QED
    BY <2>2 DEF Stream!Boundaries
<1> HIDE DEF b
<1>3. b \in Nat /\ b >= 1 /\ b + 1 <= Len(buffer) /\ b \in 0 .. Len(buffer)
  BY <1>0, <1>2
<1>4. Unbroken(buffer, b)
  <2> SUFFICES ASSUME NEW i \in 2 .. b, buffer[i] = Stream!Blank
               PROVE  FALSE
    BY DEF Unbroken
  <2>1. i - 1 \in 1 .. Len(buffer) - 1 /\ i - 1 + 1 = i /\ ~(b <= i - 1)
    BY <1>0, <1>3
  <2>2. buffer[i - 1 + 1] = Stream!Blank
    BY <2>1
  <2> QED
    BY <2>1, <2>2, <1>2
<1>5. Upto(heard, c + b) = At(frame, items)
  BY <1>1, <1>3, <1>4, FrameReads
<1>6. frame \in Seq(Stream!Lines) /\ frame # <<>>
  <2>1. \A i \in 1 .. b : i \in 1 .. Len(buffer)
    BY <1>3, <1>0
  <2>2. frame \in Seq(Stream!Lines) /\ Len(frame) = b
    BY <2>1, <1>3, SubSeqProperties
  <2> HIDE DEF frame
  <2> QED
    BY <2>2, <1>3
<1>7. Upto(heard, d) = [frame |-> <<>>, items |-> items \o item,
                        over |-> \E i \in DOMAIN item : Stream!Terminal(item[i])]
  <2>1. c + b \in 0 .. Len(heard) - 1 /\ d = c + b + 1
    BY <1>0, <1>1, <1>3
  <2>2. heard[c + b + 1] = Stream!Blank
    <3>1. b + 1 \in 1 .. Len(buffer) /\ c + (b + 1) = c + b + 1
      BY <1>0, <1>1, <1>3
    <3> QED
      BY <3>1, <1>1, <1>2
  <2>3. Upto(heard, d) = Stream!Read(At(frame, items), Stream!Blank)
    BY <2>1, <2>2, <1>5, ReadLine
  <2> HIDE DEF frame, d
  <2> QED
    BY <2>3, <1>6, Zenon DEF Stream!Read, At
<1>8. rest \in Seq(Stream!Lines) /\ Rest(heard, d, rest)
  <2> DEFINE n == Len(buffer)
  <2>0. n \in Nat /\ b + 2 \in Int /\ n \in Int /\ n - (b + 2) + 1 = n - (b + 1)
    BY <1>0, <1>3
  <2>1. \A i \in b + 2 .. n : buffer[i] \in Stream!Lines
    <3>1. \A i \in b + 2 .. n : i \in 1 .. Len(buffer)
      BY <1>3, <1>0
    <3> QED
      BY <3>1
  <2>2. /\ rest \in Seq(Stream!Lines)
        /\ Len(rest) = IF b + 2 <= n THEN n - (b + 2) + 1 ELSE 0
        /\ \A i \in 1 .. n - (b + 2) + 1 : rest[i] = buffer[(b + 2) + i - 1]
    BY <2>0, <2>1, SubSeqProperties
  <2> HIDE DEF rest
  <2>6. b \in Nat /\ c \in Nat /\ n \in Nat /\ b + 1 <= n /\ Len(heard) = c + n
    BY <2>0, <1>1, <1>3
  <2>7. Len(rest) = IF b + 2 <= n THEN n - (b + 2) + 1 ELSE 0
    BY <2>2
  <2> HIDE DEF n
  <2>3. Len(rest) = n - (b + 1)
    <3>1. IF b + 2 <= n THEN n - (b + 2) + 1 = n - (b + 1) ELSE 0 = n - (b + 1)
      BY <2>6
    <3> QED
      BY <2>7, <3>1
  <2>4. ASSUME NEW i \in 1 .. Len(rest)
        PROVE  rest[i] = heard[d + i]
    <3>0. i \in 1 .. n - (b + 1) /\ n = Len(buffer)
      BY <2>3 DEF n
    <3>1. rest[i] = buffer[(b + 2) + i - 1]
      BY <2>0, <2>2, <3>0
    <3>2. (b + 2) + i - 1 \in 1 .. n /\ c + ((b + 2) + i - 1) = c + b + 1 + i
      BY <2>6, <3>0
    <3> QED
      BY <3>0, <3>1, <3>2, <1>1
  <2>5. d \in Nat /\ Len(heard) = d + Len(rest)
    BY <2>6, <2>3
  <2> QED
    BY <2>2, <2>4, <2>5, Zenon DEF Rest
<1>9. d \in Nat /\ d <= Len(heard)
  BY <1>0, <1>1, <1>3
<1> QED
  BY <1>6, <1>7, <1>8, <1>9, Zenon DEF FrameCut, b, d, frame, item, rest

\* One more item, where none ended the stream.
NoneEnds(items) == \A i \in 1 .. Len(items) : ~Stream!Terminal(items[i])

LEMMA TellsOne ==
  ASSUME NEW items \in Seq(StreamItem), NoneEnds(items), NEW x \in StreamItem
  PROVE  /\ items \o <<x>> \in Seq(StreamItem)
         /\ \A i \in 1 .. Len(items \o <<x>>) :
              Stream!Terminal((items \o <<x>>)[i])
                <=> (Stream!Terminal(x) /\ i = Len(items \o <<x>>))
<1> DEFINE n == Len(items)
           all == Append(items, x)
<1>0. n \in Nat
  BY LenProperties
<1>1. items \o <<x>> = all
  BY AppendIsConcat
<1>2. /\ all \in Seq(StreamItem) /\ Len(all) = n + 1 /\ all[n + 1] = x
      /\ \A i \in 1 .. n : all[i] = items[i]
  BY AppendProperties
<1> HIDE DEF all
<1>3. \A i \in 1 .. n : ~Stream!Terminal(all[i])
  BY <1>2, Zenon DEF NoneEnds
<1> HIDE DEF n
<1>4. ASSUME NEW i \in 1 .. Len(all)
      PROVE  Stream!Terminal(all[i]) <=> (Stream!Terminal(x) /\ i = Len(all))
  <2>1. CASE i = n + 1
    BY <2>1, <1>2, Zenon
  <2>2. CASE i # n + 1
    <3>1. i \in 1 .. n /\ i # Len(all)
      BY <2>2, <1>0, <1>2
    <3> QED
      BY <3>1, <1>3, Zenon
  <2> QED
    BY <2>1, <2>2
<1> QED
  BY <1>1, <1>2, <1>4, Zenon

LEMMA Ends ==
  ASSUME NEW items, NEW reading, NEW heard, Told(heard, items, reading), reading # "over"
  PROVE  NoneEnds(items)
BY Zenon DEF Told, NoneEnds

LEMMA StreamTypesAre ==
  ASSUME StreamTypes
  PROVE  /\ v1 \in Seq(Stream!Lines) /\ v2 \in Seq(Stream!Lines) /\ v3 \in Seq(Stream!Lines)
         /\ v4 \in Seq(StreamItem)
BY DEF StreamTypes

LEMMA ReceiveStays ==
  ASSUME StreamHolds, NEW n \in 1 .. MaxWire, Stream!ReceiveChunk(n)
  PROVE  StreamHolds'
<1> DEFINE t == SubSeq(v1, 1, n)
           r == SubSeq(v1, n + 1, Len(v1))
<1>1. /\ n \in 1 .. Len(v1) /\ v6 = "chunk" /\ v2' = v2 \o t /\ v3' = v3 \o t /\ v1' = r
      /\ v6' = "frames" /\ v4' = v4 /\ v5' = v5
  BY DEF Stream!ReceiveChunk
<1>2. PICK c : CutAt(v2, v3, v4, v6, c)
  BY DEF StreamHolds
<1>3. StreamTypes /\ Told(v2, v4, v6)
  BY DEF StreamHolds
<1>4. t \in Seq(Stream!Lines) /\ r \in Seq(Stream!Lines)
  <2>1. Len(v1) \in Nat /\ n \in Nat /\ v1 \in Seq(Stream!Lines)
    BY <1>1, <1>3, StreamTypesAre, LenProperties
  <2>2. (\A i \in 1 .. n : i \in 1 .. Len(v1)) /\ (\A i \in n + 1 .. Len(v1) : i \in 1 .. Len(v1))
    BY <2>1, <1>1
  <2>3. \A i \in 1 .. Len(v1) : v1[i] \in Stream!Lines
    BY <2>1
  <2>4. (\A i \in 1 .. n : v1[i] \in Stream!Lines) /\ (\A i \in n + 1 .. Len(v1) : v1[i] \in Stream!Lines)
    BY <2>2, <2>3
  <2>5. 1 \in Int /\ n \in Int /\ n + 1 \in Int /\ Len(v1) \in Int
    BY <2>1
  <2> QED
    BY <2>4, <2>5, SubSeqProperties
<1> HIDE DEF t, r
<1>5. CutAt(v2', v3', v4', v6', c)
  BY <1>1, <1>2, <1>3, <1>4, StreamTypesAre, TakesChunk
<1>6. StreamTypes'
  <2>1. v2 \o t \in Seq(Stream!Lines) /\ v3 \o t \in Seq(Stream!Lines)
    BY <1>3, <1>4, StreamTypesAre, ConcatProperties
  <2> QED
    BY <1>1, <1>3, <1>4, <2>1 DEF StreamTypes
<1>7. Told(v2', v4', v6')
  <2>1. NoneEnds(v4)
    BY <1>1, <1>3, Ends
  <2> QED
    BY <1>1, <2>1 DEF Told, NoneEnds
<1> QED
  BY <1>5, <1>6, <1>7 DEF StreamHolds

LEMMA FrameStays ==
  ASSUME StreamHolds, Stream!NextFrame
  PROVE  StreamHolds'
<1> DEFINE b == Stream!Boundary(v3)
           frame == SubSeq(v3, 1, b)
           item == Stream!Parsed(frame)
           rest == SubSeq(v3, b + 2, Len(v3))
           Over == \E i \in DOMAIN item : Stream!Terminal(item[i])
<1>1. /\ v6 = "frames" /\ Stream!Boundaries(v3) # {} /\ v4' = v4 \o item /\ v3' = rest
      /\ v6' = IF Over THEN "over" ELSE "frames"
      /\ v1' = v1 /\ v2' = v2 /\ v5' = v5
  BY Zenon DEF Stream!NextFrame, Stream!Give
<1>2. PICK c : CutAt(v2, v3, v4, v6, c)
  BY DEF StreamHolds
<1>3. StreamTypes /\ Told(v2, v4, v6)
  BY DEF StreamHolds
<1>t. v2 \in Seq(Stream!Lines) /\ v3 \in Seq(Stream!Lines) /\ v4 \in Seq(StreamItem)
  BY <1>3, StreamTypesAre
<1> DEFINE d == c + b + 1
<1>4. /\ Upto(v2, d) = [frame |-> <<>>, items |-> v4 \o item, over |-> Over]
      /\ Rest(v2, d, rest) /\ rest \in Seq(Stream!Lines) /\ frame \in Seq(Stream!Lines)
      /\ d \in Nat /\ d <= Len(v2)
  <2>1. CutAt(v2, v3, v4, "frames", c)
    BY <1>1, <1>2
  <2>2. FrameCut(v2, v3, v4, c)
    BY <1>1, <1>t, <2>1, CutsFrame
  <2> QED
    BY <2>2, Zenon DEF FrameCut
<1>5. item = <<>> \/ \E x \in StreamItem : item = <<x>>
  BY <1>4, ParsedIs
<1>6. NoneEnds(v4)
  BY <1>1, <1>3, Ends
<1>7. /\ v4' \in Seq(StreamItem)
      /\ \A i \in 1 .. Len(v4') : Stream!Terminal(v4'[i]) <=> (Over /\ i = Len(v4'))
  <2>1. CASE item = <<>>
    <3>1. v4' = v4 /\ ~Over
      BY <1>1, <1>t, <2>1, ConcatEmptySeq
    <3> QED
      BY <1>6, <1>t, <3>1, Zenon DEF NoneEnds
  <2>2. ASSUME NEW x \in StreamItem, item = <<x>>
        PROVE  /\ v4' \in Seq(StreamItem)
               /\ \A i \in 1 .. Len(v4') : Stream!Terminal(v4'[i]) <=> (Over /\ i = Len(v4'))
    <3>1. Over <=> Stream!Terminal(x)
      <4> HIDE DEF item
      <4>1. DOMAIN item = {1} /\ item[1] = x
        BY <2>2
      <4> QED
        BY <4>1, Zenon
    <3>2. v4' = v4 \o <<x>>
      BY <1>1, <2>2
    <3> HIDE DEF Over
    <3> QED
      BY <1>6, <1>t, <3>1, <3>2, TellsOne
  <2> QED
    BY <1>5, <2>1, <2>2
<1>8. Over => v4' = Stream!Events(v2')
  <2> SUFFICES ASSUME Over
               PROVE  v4' = Stream!Events(v2')
    OBVIOUS
  <2>1. Upto(v2, d).over /\ Upto(v2, d).items = v4 \o item
    <3> HIDE DEF d, item
    <3>1. Over
      OBVIOUS
    <3> HIDE DEF Over
    <3> QED
      BY <1>4, <3>1
  <2> HIDE DEF d, item
  <2>2. Stream!Reader(v2) = Upto(v2, d)
    BY <1>4, <1>t, <2>1, OverReads
  <2> QED
    BY <1>1, <2>1, <2>2, Zenon DEF Stream!Events
<1>o. Over \in BOOLEAN
  OBVIOUS
<1> HIDE DEF Over, item, rest, frame, b, d
<1>9. CutAt(v2', v3', v4', v6', d)
  <2>1. ~Over => Upto(v2, d) = At(<<>>, v4 \o item)
    <3>1. ~Over => Over = FALSE
      BY <1>o
    <3> QED
      BY <1>4, <3>1, Zenon DEF At
  <2>2. v6' # "over" => ~Over
    BY <1>1
  <2>3. v6' # "chunk"
    BY <1>1
  <2> QED
    BY <1>1, <1>4, <2>1, <2>2, <2>3, Zenon DEF CutAt
<1>10. Told(v2', v4', v6')
  <2>1. v6' # "chunk" /\ (v6' = "over" <=> Over)
    BY <1>1
  <2>2. Over => \E end \in {<<>>, <<"transport">>, <<"unfinished">>} : v4' = Stream!Events(v2') \o end
    <3>1. Over => v4' = Stream!Events(v2') \o <<>>
      BY <1>7, <1>8, ConcatEmptySeq
    <3> QED
      BY <3>1
  <2> QED
    BY <1>7, <2>1, <2>2, Zenon DEF Told
<1>11. StreamTypes'
  BY <1>1, <1>3, <1>4, <1>7 DEF StreamTypes
<1> QED
  BY <1>9, <1>10, <1>11 DEF StreamHolds

LEMMA NoMoreStays ==
  ASSUME StreamHolds, Stream!NoMoreFrames
  PROVE  StreamHolds'
<1>1. /\ v6 = "frames" /\ Stream!Boundaries(v3) = {} /\ v6' = "chunk"
      /\ v1' = v1 /\ v2' = v2 /\ v3' = v3 /\ v4' = v4 /\ v5' = v5
  BY DEF Stream!NoMoreFrames
<1>2. PICK c : CutAt(v2, v3, v4, v6, c)
  BY DEF StreamHolds
<1>3. StreamTypes /\ Told(v2, v4, v6)
  BY DEF StreamHolds
<1>4. v4 = Stream!Events(v2)
  <2>1. CutAt(v2, v3, v4, "frames", c)
    BY <1>1, <1>2
  <2> QED
    BY <1>1, <1>3, <2>1, StreamTypesAre, NoFrames
<1>5. CutAt(v2', v3', v4', v6', c)
  BY <1>1, <1>2, Zenon DEF CutAt
<1>6. Told(v2', v4', v6')
  <2>1. NoneEnds(v4)
    BY <1>1, <1>3, Ends
  <2> QED
    BY <1>1, <1>4, <2>1 DEF Told, NoneEnds
<1>7. StreamTypes'
  BY <1>1, <1>3 DEF StreamTypes
<1> QED
  BY <1>5, <1>6, <1>7 DEF StreamHolds

LEMMA CloseStays ==
  ASSUME StreamHolds, Stream!Close
  PROVE  StreamHolds'
<1>1. /\ v6 = "chunk" /\ v6' = "over"
      /\ v1' = v1 /\ v2' = v2 /\ v3' = v3 /\ v5' = v5
      /\ \E end \in {"transport", "unfinished"} : v4' = v4 \o <<end>>
  BY DEF Stream!Close, Stream!Give
<1>2. PICK c : CutAt(v2, v3, v4, v6, c)
  BY DEF StreamHolds
<1>3. StreamTypes /\ Told(v2, v4, v6)
  BY DEF StreamHolds
<1>4. PICK x \in {"transport", "unfinished"} : v4' = v4 \o <<x>>
  BY <1>1
<1>5. x \in StreamItem /\ Stream!Terminal(x) /\ <<x>> \in {<<>>, <<"transport">>, <<"unfinished">>}
  BY DEF StreamItem, Stream!Terminal, Stream!Terminals
<1>6. v4 = Stream!Events(v2)
  BY <1>1, <1>3 DEF Told
<1>7. NoneEnds(v4)
  BY <1>1, <1>3, Ends
<1>8. /\ v4' \in Seq(StreamItem)
      /\ \A i \in 1 .. Len(v4') : Stream!Terminal(v4'[i]) <=> i = Len(v4')
  <2>1. v4 \in Seq(StreamItem)
    BY <1>3, StreamTypesAre
  <2>2. /\ v4 \o <<x>> \in Seq(StreamItem)
        /\ \A i \in 1 .. Len(v4 \o <<x>>) :
              Stream!Terminal((v4 \o <<x>>)[i])
                <=> (Stream!Terminal(x) /\ i = Len(v4 \o <<x>>))
    BY <2>1, <1>5, <1>7, TellsOne
  <2> QED
    BY <2>2, <1>4, <1>5, Zenon
<1>9. CutAt(v2', v3', v4', v6', c)
  <2>1. Rest(v2', c, v3')
    BY <1>1, <1>2, Zenon DEF CutAt
  <2>2. v6' = "over" /\ v6' # "chunk"
    BY <1>1
  <2> QED
    BY <2>1, <2>2, Zenon DEF CutAt
<1>10. Told(v2', v4', v6')
  <2>1. v6' = "over" /\ v6' # "chunk"
    BY <1>1
  <2>2. v4' = Stream!Events(v2') \o <<x>>
    BY <1>1, <1>4, <1>6, Zenon
  <2> QED
    BY <2>1, <2>2, <1>5, <1>8, Zenon DEF Told
<1>11. StreamTypes'
  BY <1>1, <1>3, <1>8 DEF StreamTypes
<1> QED
  BY <1>9, <1>10, <1>11 DEF StreamHolds

LEMMA StreamStays ==
  ASSUME Stream!StreamInv, [Stream!Next]_(Stream!vars)
  PROVE  Stream!StreamInv'
<1>0. StreamHolds
  BY StreamInvIs
<1>1. ASSUME v2' = v2, v3' = v3, v4' = v4, v6' = v6,
             v1' \in Seq(Stream!Lines), v5' \in {"open", "ended", "broken"}
      PROVE  StreamHolds'
  <2>1. PICK c : CutAt(v2, v3, v4, v6, c)
    BY <1>0 DEF StreamHolds
  <2>2. CutAt(v2', v3', v4', v6', c) /\ Told(v2', v4', v6')
    BY <1>0, <1>1, <2>1 DEF StreamHolds
  <2>3. StreamTypes'
    BY <1>0, <1>1 DEF StreamHolds, StreamTypes
  <2> QED
    BY <2>2, <2>3 DEF StreamHolds
<1>2. StreamTypes
  BY <1>0 DEF StreamHolds
<1>3. ASSUME NEW line \in Stream!Lines, Stream!SendLine(line)
      PROVE  StreamHolds'
  <2>1. Append(v1, line) \in Seq(Stream!Lines)
    BY <1>2, StreamTypesAre, AppendProperties
  <2> QED
    BY <1>1, <1>2, <1>3, <2>1 DEF Stream!SendLine, StreamTypes
<1>4. ASSUME Stream!EndOfBody
      PROVE  StreamHolds'
  BY <1>1, <1>2, <1>4 DEF Stream!EndOfBody, StreamTypes
<1>5. ASSUME UNCHANGED Stream!vars
      PROVE  StreamHolds'
  BY <1>1, <1>2, <1>5 DEF Stream!vars, StreamTypes
<1>6. StreamHolds'
  BY <1>0, <1>3, <1>4, <1>5, ReceiveStays, FrameStays, NoMoreStays, CloseStays DEF Stream!Next
<1> QED
  BY <1>6, StreamInvIs

LEMMA StreamInit ==
  ASSUME Stream!Init
  PROVE  Stream!StreamInv
<1> DEFINE e == << >>
<1>1. v1 = e /\ v2 = e /\ v3 = e /\ v4 = e /\ v5 = "open" /\ v6 = "chunk"
  BY DEF Stream!Init
<1>2. StreamTypes
  BY <1>1 DEF StreamTypes
<1>3. e \in Seq(Stream!Lines) /\ Len(e) = 0
  OBVIOUS
<1>4. Upto(e, 0) = ReaderStart /\ Upto(e, 0) = Stream!Reader(e)
  BY <1>3, ReadLine
<1>5. Upto(e, 0) = At(e, e) /\ Stream!Events(e) = e
  BY <1>4 DEF ReaderStart, At, Stream!Events
<1>6. Rest(e, 0, e)
  BY <1>3 DEF Rest
<1>7. Stream!Boundaries(e) = {}
  BY <1>3 DEF Stream!Boundaries
<1>8. CutAt(v2, v3, v4, v6, 0)
  BY <1>1, <1>5, <1>6, <1>7 DEF CutAt
<1>9. Told(v2, v4, v6)
  BY <1>1, <1>3, <1>5 DEF Told
<1>10. StreamHolds
  BY <1>2, <1>8, <1>9 DEF StreamHolds
<1> QED
  BY <1>10, StreamInvIs

\* The app is told what Core's answer says (ModelStreamClient of app-events),
\* one ending and nothing after it, wherever the chunks of the answer end and
\* however long it is.
THEOREM StreamCorrect == AppSpec => []StreamIsWhole
<1> DEFINE Inv == part = "stream" => Stream!StreamInv
<1>1. AppInit => Inv
  BY AppPartStarts, StreamInit
<1>2. Inv /\ [AppNext]_vars => Inv'
  BY AppPartMoves, StreamStays
<1>3. Inv => StreamIsWhole
  BY DEF StreamIsWhole, Stream!StreamInv
<1> HIDE DEF Inv
<1> QED
  BY <1>1, <1>2, <1>3, PTL DEF AppSpec

-----------------------------------------------------------------------------
(* Products and quotients.                                                 *)

LEMMA Products ==
  ASSUME NEW p \in Int, NEW q \in Int, NEW T \in Nat, p + 1 <= q
  PROVE  p * T + T <= q * T
<1>1. PICK d \in Nat : q = p + 1 + d
  <2>1. q - (p + 1) \in Nat /\ q = p + 1 + (q - (p + 1))
    OBVIOUS
  <2> QED
    BY <2>1
<1>2. q * T = p * T + T + d * T
  BY <1>1
<1>3. d * T >= 0
  BY <1>1
<1> QED
  BY <1>2, <1>3

LEMMA DivIs ==
  ASSUME NEW a \in Nat, NEW T \in Nat \ {0}
  PROVE  a \div T \in Nat /\ (a \div T) * T <= a /\ a < (a \div T) * T + T
OBVIOUS

LEMMA DivUnique ==
  ASSUME NEW a \in Nat, NEW T \in Nat \ {0}, NEW q \in Int, q * T <= a, a < q * T + T
  PROVE  a \div T = q
<1> DEFINE p == a \div T
<1>1. p \in Nat /\ p * T <= a /\ a < p * T + T
  BY DivIs
<1> HIDE DEF p
<1>2. ~(p + 1 <= q)
  <2> SUFFICES ASSUME p + 1 <= q
               PROVE  FALSE
    OBVIOUS
  <2>1. p * T + T <= q * T
    BY <1>1, Products
  <2>2. p * T \in Int /\ q * T \in Int
    BY <1>1
  <2> QED
    BY <1>1, <2>1, <2>2
<1>3. ~(q + 1 <= p)
  <2> SUFFICES ASSUME q + 1 <= p
               PROVE  FALSE
    OBVIOUS
  <2>1. q * T + T <= p * T
    BY <1>1, Products
  <2>2. p * T \in Int /\ q * T \in Int
    BY <1>1
  <2> QED
    BY <1>1, <2>1, <2>2
<1>4. p = q
  BY <1>1, <1>2, <1>3
<1> QED
  BY <1>4 DEF p

LEMMA DivShift ==
  ASSUME NEW a \in Nat, NEW m \in Nat, NEW T \in Nat \ {0}
  PROVE  (m * T + a) \div T = m + a \div T
<1> DEFINE p == a \div T
<1>1. p \in Nat /\ p * T <= a /\ a < p * T + T
  BY DivIs
<1> HIDE DEF p
<1>2. (m + p) * T = m * T + p * T /\ m * T \in Nat /\ p * T \in Nat /\ m + p \in Int
  BY <1>1
<1>3. (m + p) * T <= m * T + a /\ m * T + a < (m + p) * T + T /\ m * T + a \in Nat
  BY <1>1, <1>2
<1>4. (m * T + a) \div T = m + p
  BY <1>2, <1>3, DivUnique
<1> QED
  BY <1>4 DEF p

LEMMA DivMonotone ==
  ASSUME NEW a \in Nat, NEW b \in Nat, NEW T \in Nat \ {0}, a <= b
  PROVE  a \div T <= b \div T
<1> DEFINE p == a \div T
           q == b \div T
<1>1. /\ p \in Nat /\ p * T <= a /\ a < p * T + T
      /\ q \in Nat /\ q * T <= b /\ b < q * T + T
  BY DivIs
<1> HIDE DEF p, q
<1>2. ~(q + 1 <= p)
  <2> SUFFICES ASSUME q + 1 <= p
               PROVE  FALSE
    OBVIOUS
  <2>1. q * T + T <= p * T
    BY <1>1, Products
  <2>2. p * T \in Int /\ q * T \in Int
    BY <1>1
  <2> QED
    BY <1>1, <2>1, <2>2
<1>3. p <= q
  BY <1>1, <1>2
<1> QED
  BY <1>3 DEF p, q

LEMMA CeilShift ==
  ASSUME NEW a \in Nat, NEW m \in Nat, NEW T \in Nat \ {0}
  PROVE  Audio!CeilDiv(m * T + a, T) = m + Audio!CeilDiv(a, T) /\ Audio!CeilDiv(a, T) \in Nat
<1>1. a + T - 1 \in Nat /\ m * T \in Nat
  OBVIOUS
<1>2. (m * T + a) + T - 1 = m * T + (a + T - 1)
  BY <1>1
<1>3. (m * T + (a + T - 1)) \div T = m + (a + T - 1) \div T
  BY <1>1, DivShift
<1>4. (a + T - 1) \div T \in Nat
  BY <1>1, DivIs
<1> QED
  BY <1>2, <1>3, <1>4 DEF Audio!CeilDiv

LEMMA CeilIsMore ==
  ASSUME NEW a \in Nat, NEW r \in Nat \ {0}, NEW T \in Nat \ {0}
  PROVE  Audio!CeilDiv(a + r, T) > a \div T
<1>1. 1 * T + a \in Nat /\ (a + r) + T - 1 \in Nat /\ 1 * T + a <= (a + r) + T - 1
  OBVIOUS
<1>2. (1 * T + a) \div T = 1 + a \div T
  BY DivShift
<1>3. (1 * T + a) \div T <= ((a + r) + T - 1) \div T
  BY <1>1, DivMonotone
<1>4. a \div T \in Nat /\ ((a + r) + T - 1) \div T \in Nat
  BY <1>1, DivIs
<1> QED
  BY <1>2, <1>3, <1>4 DEF Audio!CeilDiv

LEMMA Cancels ==
  ASSUME NEW a \in Int, NEW b \in Int, NEW T \in Nat \ {0}, a * T = b * T
  PROVE  a = b
<1>1. ~(a + 1 <= b)
  <2> SUFFICES ASSUME a + 1 <= b
               PROVE  FALSE
    OBVIOUS
  <2>1. a * T + T <= b * T /\ a * T \in Int
    BY Products
  <2> QED
    BY <2>1
<1>2. ~(b + 1 <= a)
  <2> SUFFICES ASSUME b + 1 <= a
               PROVE  FALSE
    OBVIOUS
  <2>1. b * T + T <= a * T /\ b * T \in Int
    BY Products
  <2> QED
    BY <2>1
<1> QED
  BY <1>1, <1>2

-----------------------------------------------------------------------------
(* The resampler: v1 is the carry, v2 position, v3 rate, v4 fed, v5 out,   *)
(* v6 since and v7 sampling.                                               *)

\* What the carry and the position are, in numbers.
Samples(carry, fed) ==
  Len(carry) <= fed /\ \A i \in 1 .. Len(carry) : carry[i] = fed - Len(carry) + i
Placement(len, position, rate, fed, n, start) ==
  /\ start + len <= fed /\ (fed - len - start) * TARGET_RATE + position = n * rate
  /\ Audio!CeilDiv(position, TARGET_RATE) <= len

\* Output sample k of a rate, and the first ones.
SpanAt(rate, start, k) ==
  Audio!Numbers(start + ((k - 1) * rate) \div TARGET_RATE,
                Audio!CeilDiv(k * rate, TARGET_RATE) - ((k - 1) * rate) \div TARGET_RATE)
OutAre(out, from, rate, start) ==
  \A k \in 1 .. Len(out) - from : out[from + k] = SpanAt(rate, start, k)

\* A stretch of the carry.
LEMMA CarryCut ==
  ASSUME NEW carry \in Seq(Nat), NEW fed \in Nat, Samples(carry, fed),
         NEW low \in Nat, NEW high \in Nat, low <= high, high <= Len(carry)
  PROVE  /\ SubSeq(carry, low + 1, high) = Audio!Numbers(fed - Len(carry) + low, high - low)
         /\ SubSeq(carry, low + 1, high) \in Seq(Nat)
<1> DEFINE s == SubSeq(carry, low + 1, high)
           n == high - low
           base == fed - Len(carry)
           t == Audio!Numbers(base + low, n)
<1>0. Len(carry) \in Nat /\ n \in Nat /\ base \in Nat
  BY LenProperties DEF Samples
<1>1. \A i \in low + 1 .. high : i \in 1 .. Len(carry)
  BY <1>0
<1>2. s \in Seq(Nat) /\ Len(s) = n /\ \A i \in 1 .. n : s[i] = carry[low + i]
  <2>1. low + 1 \in Int /\ high \in Int /\ high - (low + 1) + 1 = n
    BY <1>0
  <2>2. \A i \in low + 1 .. high : carry[i] \in Nat
    BY <1>1, <1>0
  <2>3. /\ s \in Seq(Nat)
        /\ Len(s) = IF low + 1 <= high THEN high - (low + 1) + 1 ELSE 0
        /\ \A i \in 1 .. high - (low + 1) + 1 : s[i] = carry[(low + 1) + i - 1]
    BY <2>1, <2>2, SubSeqProperties
  <2> HIDE DEF s
  <2>4. Len(s) = n
    <3>1. IF low + 1 <= high THEN high - (low + 1) + 1 = n ELSE 0 = n
      BY <1>0
    <3> QED
      BY <2>3, <3>1
  <2>5. ASSUME NEW i \in 1 .. n
        PROVE  s[i] = carry[low + i]
    <3>1. i \in 1 .. high - (low + 1) + 1 /\ (low + 1) + i - 1 = low + i
      BY <2>1, <1>0
    <3> QED
      BY <3>1, <2>3
  <2> QED
    BY <2>3, <2>4, <2>5
<1>3. ASSUME NEW i \in 1 .. n
      PROVE  s[i] = base + low + i /\ low + i \in 1 .. Len(carry)
  <2>1. low + i \in 1 .. Len(carry)
    BY <1>0
  <2>2. carry[low + i] = base + (low + i)
    BY <2>1 DEF Samples
  <2>3. s[i] = carry[low + i]
    BY <1>2
  <2>4. base + (low + i) = base + low + i
    <3>1. base \in Nat /\ low \in Nat /\ i \in Nat
      BY <1>0
    <3> HIDE DEF base
    <3> QED
      BY <3>1
  <2> HIDE DEF s, base, n
  <2> QED
    BY <2>1, <2>2, <2>3, <2>4, Zenon
<1>4. t \in Seq(Nat) /\ Len(t) = n /\ \A i \in 1 .. n : t[i] = base + low + i
  <2> HIDE DEF base, n
  <2> QED
    BY <1>0 DEF Audio!Numbers
<1> HIDE DEF s, t, n, base
<1>5. s = t
  BY <1>2, <1>3, <1>4, SeqEqual
<1> QED
  BY <1>2, <1>5 DEF s, t, n, base

\* What the next output sample spans, and where it leaves the box.
LEMMA NextSpan ==
  ASSUME NEW carry \in Seq(Nat), NEW fed \in Nat, Samples(carry, fed),
         NEW rate \in Nat \ {0}, NEW p \in Nat, NEW start \in Nat, NEW n \in Nat,
         TARGET_RATE \in Nat \ {0}, Placement(Len(carry), p, rate, fed, n, start)
  PROVE  LET low == p \div TARGET_RATE
             high == Audio!CeilDiv(p + rate, TARGET_RATE)
         IN /\ low \in Nat /\ high \in Nat /\ high > low
            /\ start + Audio!CeilDiv((n + 1) * rate, TARGET_RATE) = fed - Len(carry) + high
            /\ high <= Len(carry) =>
                 /\ SubSeq(carry, low + 1, high) = SpanAt(rate, start, n + 1)
                 /\ SubSeq(carry, low + 1, high) \in Seq(Nat)
                 /\ Placement(Len(carry), p + rate, rate, fed, n + 1, start)
<1> DEFINE T == TARGET_RATE
           low == p \div T
           high == Audio!CeilDiv(p + rate, T)
           m == fed - Len(carry) - start
<1>0. /\ Len(carry) \in Nat /\ T \in Nat \ {0} /\ m \in Nat /\ start + m = fed - Len(carry)
      /\ m * T + p = n * rate /\ start + Len(carry) <= fed
  BY LenProperties DEF Placement
<1> HIDE DEF m
<1>1. low \in Nat
  BY <1>0, DivIs
<1>2. high > low
  BY <1>0, CeilIsMore
<1>3. (m * T + p) \div T = m + low
  BY <1>0, DivShift
<1>4. Audio!CeilDiv(m * T + (p + rate), T) = m + high /\ high \in Nat
  <2>1. p + rate \in Nat
    OBVIOUS
  <2> QED
    BY <1>0, <2>1, CeilShift
<1>5. /\ ((n + 1) - 1) * rate = m * T + p /\ (n + 1) * rate = m * T + (p + rate)
      /\ m * T + (p + rate) \in Nat
  BY <1>0
<1> HIDE DEF T, low, high
<1>6. SpanAt(rate, start, n + 1) = Audio!Numbers(start + (m + low), (m + high) - (m + low))
  BY <1>3, <1>4, <1>5, Zenon DEF SpanAt, T
<1>7. start + (m + low) = fed - Len(carry) + low /\ (m + high) - (m + low) = high - low
  BY <1>0, <1>1, <1>4
<1>8. ASSUME high <= Len(carry)
      PROVE  /\ SubSeq(carry, low + 1, high) = SpanAt(rate, start, n + 1)
             /\ SubSeq(carry, low + 1, high) \in Seq(Nat)
             /\ Placement(Len(carry), p + rate, rate, fed, n + 1, start)
  <2>0. low <= high
    BY <1>1, <1>2, <1>4
  <2>1. /\ SubSeq(carry, low + 1, high) = Audio!Numbers(fed - Len(carry) + low, high - low)
        /\ SubSeq(carry, low + 1, high) \in Seq(Nat)
    BY <1>1, <1>4, <1>8, <2>0, CarryCut
  <2>2. (fed - Len(carry) - start) * T + (p + rate) = (n + 1) * rate
    BY <1>5 DEF m
  <2> QED
    BY <1>0, <1>6, <1>7, <1>8, <2>1, <2>2, Zenon DEF Placement, T, high
<1>9. start + Audio!CeilDiv((n + 1) * rate, T) = fed - Len(carry) + high
  <2>1. Audio!CeilDiv((n + 1) * rate, T) = m + high
    BY <1>4, <1>5
  <2>2. start \in Nat /\ m \in Nat /\ high \in Nat /\ start + m = fed - Len(carry)
    BY <1>0, <1>4
  <2>3. start + (m + high) = (start + m) + high
    BY <2>2
  <2> QED
    BY <2>1, <2>2, <2>3, Zenon
<1> QED
  BY <1>1, <1>2, <1>4, <1>8, <1>9, Zenon DEF T, low, high

\* Dropping c samples behind the last output sample's begin.
LEMMA Dropped ==
  ASSUME NEW carry \in Seq(Nat), NEW fed \in Nat, Samples(carry, fed),
         NEW rate \in Nat \ {0}, NEW p \in Nat, NEW start \in Nat, NEW n \in Nat,
         TARGET_RATE \in Nat \ {0}, Placement(Len(carry), p, rate, fed, n, start),
         NEW c \in Nat, c * TARGET_RATE <= p
  PROVE  LET kept == SubSeq(carry, c + 1, Len(carry))
             q == p - c * TARGET_RATE
         IN /\ kept \in Seq(Nat) /\ Len(kept) = Len(carry) - c /\ q \in Nat
            /\ Samples(kept, fed) /\ Placement(Len(kept), q, rate, fed, n, start)
            /\ Audio!CeilDiv(p + rate, TARGET_RATE) = c + Audio!CeilDiv(q + rate, TARGET_RATE)
<1> DEFINE T == TARGET_RATE
           kept == SubSeq(carry, c + 1, Len(carry))
           q == p - c * T
           base == fed - Len(carry)
<1>0. /\ Len(carry) \in Nat /\ T \in Nat \ {0} /\ start + Len(carry) <= fed
      /\ (base - start) * T + p = n * rate /\ Audio!CeilDiv(p, T) <= Len(carry)
      /\ c * T \in Nat /\ base \in Nat
  <2>1. Len(carry) \in Nat /\ T \in Nat \ {0}
    BY LenProperties
  <2>2. /\ start + Len(carry) <= fed
        /\ (base - start) * T + p = n * rate /\ Audio!CeilDiv(p, T) <= Len(carry)
    BY Zenon DEF Placement
  <2>3. c * T \in Nat
    BY <2>1
  <2>4. base \in Nat
    BY <2>1, <2>2
  <2> QED
    BY <2>1, <2>2, <2>3, <2>4, Zenon
<1>1. q \in Nat /\ p = c * T + q
  BY <1>0
<1> HIDE DEF q, T
<1>2. Audio!CeilDiv(p, T) = c + Audio!CeilDiv(q, T) /\ Audio!CeilDiv(q, T) \in Nat
  <2>1. /\ Audio!CeilDiv(c * T + q, T) = c + Audio!CeilDiv(q, T)
        /\ Audio!CeilDiv(q, T) \in Nat
    <3>1. q \in Nat /\ T \in Nat \ {0} /\ c \in Nat
      BY <1>0, <1>1, Zenon
    <3> QED
      BY <3>1, CeilShift, ZenonT(60)
  <2> QED
    BY <1>1, <2>1, Zenon
<1>3. c <= Len(carry)
  BY <1>0, <1>2
<1>4. kept = Audio!Numbers(base + c, Len(carry) - c) /\ kept \in Seq(Nat)
  <2>1. Len(carry) \in Nat /\ Len(carry) <= Len(carry)
    BY <1>0
  <2> QED
    BY <1>3, <2>1, CarryCut
<1>5. Len(kept) = Len(carry) - c /\ \A i \in 1 .. Len(carry) - c : kept[i] = base + c + i
  <2> HIDE DEF base, kept
  <2>1. Len(carry) - c \in Nat
    BY <1>0, <1>3
  <2> QED
    BY <2>1, <1>4 DEF Audio!Numbers
<1> HIDE DEF kept
<1>6. Samples(kept, fed)
  <2>1. fed - Len(kept) = base + c
    BY <1>0, <1>3, <1>5
  <2>2. Len(kept) <= fed
    BY <1>0, <1>3, <1>5
  <2> HIDE DEF base
  <2> QED
    BY <1>5, <2>1, <2>2 DEF Samples
<1>7. Placement(Len(kept), q, rate, fed, n, start)
  <2>1. start + Len(kept) <= fed /\ fed - Len(kept) - start = (base - start) + c
    BY <1>0, <1>3, <1>5
  <2>2. ((base - start) + c) * T + q = n * rate
    <3>1. ((base - start) + c) * T = (base - start) * T + c * T
      BY <1>0
    <3>2. (base - start) * T \in Int
      BY <1>0
    <3> HIDE DEF base
    <3> QED
      BY <1>0, <1>1, <3>1, <3>2
  <2>3. Audio!CeilDiv(q, T) <= Len(kept)
    BY <1>0, <1>2, <1>5
  <2> HIDE DEF base
  <2> QED
    BY <2>1, <2>2, <2>3, Zenon DEF Placement, T
<1>8. Audio!CeilDiv(p + rate, T) = c + Audio!CeilDiv(q + rate, T)
  <2>1. q + rate \in Nat /\ p + rate = c * T + (q + rate)
    BY <1>0, <1>1
  <2> QED
    <3> DEFINE r == q + rate
    <3>1. Audio!CeilDiv(c * T + r, T) = c + Audio!CeilDiv(r, T)
      <4>1. r \in Nat /\ T \in Nat \ {0} /\ c \in Nat
        BY <1>0, <2>1
      <4> HIDE DEF r
      <4> QED
        BY <4>1, CeilShift, ZenonT(60)
    <3> QED
      BY <2>1, <3>1, Zenon
<1> QED
  BY <1>1, <1>4, <1>5, <1>6, <1>7, <1>8, Zenon DEF T, q, kept

-----------------------------------------------------------------------------
(* What holds between the packets.                                        *)

AudioTypes ==
  /\ v1 \in Seq(Nat) /\ v2 \in Nat /\ v3 \in Rates \cup {0} /\ v4 \in Nat
  /\ v5 \in Seq(Seq(Nat)) /\ v6 \in [fed : Nat, out : Nat] /\ v7 \in BOOLEAN

Drifts(carry, position, rate, fed, out, start, from, sampling) ==
  /\ Len(out) - from \in Nat /\ Samples(carry, fed)
  /\ Placement(Len(carry), position, rate, fed, Len(out) - from, start)
  /\ rate \in {0, TARGET_RATE} => carry = <<>> /\ position = 0 /\ ~sampling
  /\ rate # 0 =>
       /\ OutAre(out, from, rate, start)
       /\ ~sampling => start + Audio!CeilDiv((Len(out) - from + 1) * rate, TARGET_RATE) > fed

AudioHolds == AudioTypes /\ Drifts(v1, v2, v3, v4, v5, v6.fed, v6.out, v7)

LEMMA DriftInvIs ==
  /\ Audio!DriftInv <=> AudioHolds
  /\ Audio!DriftInv' <=> AudioHolds'
<1>1. ASSUME NEW carry \in Seq(Nat), NEW fed \in Nat, NEW start \in Nat
      PROVE  /\ start + Len(carry) <= fed <=> fed - Len(carry) >= start
             /\ fed - Len(carry) >= start => Len(carry) <= fed
  <2>1. Len(carry) \in Nat
    BY LenProperties
  <2> QED
    BY <2>1
<1>2. ASSUME AudioTypes
      PROVE  Audio!DriftInv <=> Drifts(v1, v2, v3, v4, v5, v6.fed, v6.out, v7)
  <2>1. v1 \in Seq(Nat) /\ v4 \in Nat /\ v6.fed \in Nat
    BY <1>2 DEF AudioTypes
  <2>2. /\ v6.fed + Len(v1) <= v4 <=> v4 - Len(v1) >= v6.fed
        /\ v4 - Len(v1) >= v6.fed => Len(v1) <= v4
    BY <1>1, <2>1
  <2>3. Audio!OutputDoesNotDrift <=>
          (v3 # 0 =>
             /\ OutAre(v5, v6.out, v3, v6.fed)
             /\ ~v7 => v6.fed + Audio!CeilDiv((Len(v5) - v6.out + 1) * v3, TARGET_RATE) > v4)
    BY Zenon DEF Audio!OutputDoesNotDrift, OutAre, SpanAt
  <2>4. Audio!CarryIsInPlace <=>
          /\ Len(v5) - v6.out \in Nat /\ Samples(v1, v4)
          /\ Placement(Len(v1), v2, v3, v4, Len(v5) - v6.out, v6.fed)
    BY <2>2, Zenon DEF Audio!CarryIsInPlace, Samples, Placement
  <2> QED
    BY <1>2, <2>3, <2>4, Zenon DEF Audio!DriftInv, Drifts, AudioTypes
<1>3. ASSUME AudioTypes'
      PROVE  Audio!DriftInv' <=> Drifts(v1', v2', v3', v4', v5', v6'.fed, v6'.out, v7')
  <2>1. v1' \in Seq(Nat) /\ v4' \in Nat /\ v6'.fed \in Nat
    BY <1>3 DEF AudioTypes
  <2>2. /\ v6'.fed + Len(v1') <= v4' <=> v4' - Len(v1') >= v6'.fed
        /\ v4' - Len(v1') >= v6'.fed => Len(v1') <= v4'
    BY <1>1, <2>1
  <2>3. Audio!OutputDoesNotDrift' <=>
          (v3' # 0 =>
             /\ OutAre(v5', v6'.out, v3', v6'.fed)
             /\ ~v7' => v6'.fed + Audio!CeilDiv((Len(v5') - v6'.out + 1) * v3', TARGET_RATE) > v4')
    BY Zenon DEF Audio!OutputDoesNotDrift, OutAre, SpanAt
  <2>4. Audio!CarryIsInPlace' <=>
          /\ Len(v5') - v6'.out \in Nat /\ Samples(v1', v4')
          /\ Placement(Len(v1'), v2', v3', v4', Len(v5') - v6'.out, v6'.fed)
    BY <2>2, Zenon DEF Audio!CarryIsInPlace, Samples, Placement
  <2> QED
    BY <1>3, <2>3, <2>4, Zenon DEF Audio!DriftInv, Drifts, AudioTypes
<1>4. (Audio!DriftInv => AudioTypes) /\ (Audio!DriftInv' => AudioTypes')
  BY DEF Audio!DriftInv, AudioTypes
<1> QED
  BY <1>2, <1>3, <1>4, Zenon DEF AudioHolds

\* One more output sample.
LEMMA OneMore ==
  ASSUME NEW out \in Seq(Seq(Nat)), NEW from \in Nat, NEW rate, NEW start,
         Len(out) - from \in Nat, OutAre(out, from, rate, start),
         SpanAt(rate, start, Len(out) - from + 1) \in Seq(Nat)
  PROVE  LET more == Append(out, SpanAt(rate, start, Len(out) - from + 1))
         IN /\ more \in Seq(Seq(Nat)) /\ Len(more) - from = Len(out) - from + 1
            /\ OutAre(more, from, rate, start)
<1> DEFINE n == Len(out) - from
           span == SpanAt(rate, start, n + 1)
           more == Append(out, span)
<1>0. Len(out) \in Nat /\ n \in Nat /\ from + n = Len(out)
  BY LenProperties
<1> HIDE DEF n, span
<1>1. /\ more \in Seq(Seq(Nat)) /\ Len(more) = Len(out) + 1 /\ more[Len(out) + 1] = span
      /\ \A i \in 1 .. Len(out) : more[i] = out[i]
  <2>1. span \in Seq(Nat)
    BY DEF span, n
  <2> QED
    BY <2>1, AppendProperties
<1>2. Len(more) - from = n + 1
  BY <1>0, <1>1
<1> HIDE DEF more
<1>3. ASSUME NEW k \in 1 .. Len(more) - from
      PROVE  more[from + k] = SpanAt(rate, start, k)
  <2>1. CASE k = n + 1
    <3>0. from + (n + 1) = (from + n) + 1
      BY <1>0
    <3>1. from + k = Len(out) + 1
      BY <1>0, <2>1, <3>0, Zenon
    <3> QED
      BY <1>1, <2>1, <3>1, Zenon DEF span
  <2>2. CASE k # n + 1
    <3>1. k \in 1 .. n /\ from + k \in 1 .. Len(out)
      BY <1>0, <1>2, <2>2
    <3>2. out[from + k] = SpanAt(rate, start, k)
      BY <3>1 DEF OutAre, n
    <3> QED
      BY <1>1, <3>1, <3>2
  <2> QED
    BY <2>1, <2>2
<1> QED
  BY <1>1, <1>2, <1>3, Zenon DEF OutAre, n, span, more

LEMMA AverageStays ==
  ASSUME Audio!ResamplerAssumption, AudioHolds, Audio!Average
  PROVE  AudioHolds'
<1> DEFINE T == TARGET_RATE
           low == v2 \div T
           high == Audio!CeilDiv(v2 + v3, T)
           n == Len(v5) - v6.out
           span == SubSeq(v1, low + 1, high)
<1>1. /\ v7 = TRUE /\ high <= Len(v1) /\ v2' = v2 + v3
      /\ v5' = Append(v5, SubSeq(v1, low + 1, IF high > low + 1 THEN high ELSE low + 1))
      /\ v1' = v1 /\ v3' = v3 /\ v4' = v4 /\ v6' = v6 /\ v7' = v7
  BY DEF Audio!Average, Audio!Low, Audio!High, AudioHolds, AudioTypes
<1>2. AudioTypes /\ Drifts(v1, v2, v3, v4, v5, v6.fed, v6.out, v7)
  BY DEF AudioHolds
<1>3. /\ v1 \in Seq(Nat) /\ v2 \in Nat /\ v4 \in Nat /\ v5 \in Seq(Seq(Nat))
      /\ v6.fed \in Nat /\ v6.out \in Nat
  BY <1>2 DEF AudioTypes
<1>4. v3 \in Nat \ {0} /\ T \in Nat \ {0} /\ v3 # T
  BY <1>1, <1>2 DEF AudioTypes, Drifts, Audio!ResamplerAssumption
<1>5. /\ n \in Nat /\ Samples(v1, v4) /\ Placement(Len(v1), v2, v3, v4, n, v6.fed)
      /\ OutAre(v5, v6.out, v3, v6.fed)
  BY <1>2, <1>4 DEF Drifts
<1> HIDE DEF n
<1>6. /\ low \in Nat /\ high \in Nat /\ high > low
      /\ high <= Len(v1) =>
           /\ span = SpanAt(v3, v6.fed, n + 1) /\ span \in Seq(Nat)
           /\ Placement(Len(v1), v2 + v3, v3, v4, n + 1, v6.fed)
  <2>1. LET l == v2 \div TARGET_RATE
            h == Audio!CeilDiv(v2 + v3, TARGET_RATE)
        IN /\ l \in Nat /\ h \in Nat /\ h > l
           /\ v6.fed + Audio!CeilDiv((n + 1) * v3, TARGET_RATE) = v4 - Len(v1) + h
           /\ h <= Len(v1) =>
                /\ SubSeq(v1, l + 1, h) = SpanAt(v3, v6.fed, n + 1)
                /\ SubSeq(v1, l + 1, h) \in Seq(Nat)
                /\ Placement(Len(v1), v2 + v3, v3, v4, n + 1, v6.fed)
    BY <1>3, <1>4, <1>5, NextSpan
  <2> QED
    BY <2>1, Zenon DEF T, low, high, span
<1> HIDE DEF low, high
<1>7. (IF high > low + 1 THEN high ELSE low + 1) = high
  BY <1>6
<1>8. v5' = Append(v5, SpanAt(v3, v6.fed, n + 1)) /\ SpanAt(v3, v6.fed, n + 1) \in Seq(Nat)
  BY <1>1, <1>6, <1>7, Zenon
<1>9. v5' \in Seq(Seq(Nat)) /\ Len(v5') - v6.out = n + 1 /\ OutAre(v5', v6.out, v3, v6.fed)
  <2>1. SpanAt(v3, v6.fed, Len(v5) - v6.out + 1) \in Seq(Nat) /\ Len(v5) - v6.out \in Nat
    BY <1>5, <1>8 DEF n
  <2>2. LET more == Append(v5, SpanAt(v3, v6.fed, Len(v5) - v6.out + 1))
        IN /\ more \in Seq(Seq(Nat)) /\ Len(more) - v6.out = Len(v5) - v6.out + 1
           /\ OutAre(more, v6.out, v3, v6.fed)
    BY <1>3, <1>5, <2>1, OneMore
  <2> QED
    BY <1>8, <2>2, Zenon DEF n
<1>10. Drifts(v1', v2', v3', v4', v5', v6'.fed, v6'.out, v7')
  <2>1. n + 1 \in Nat /\ v7' /\ v3 \notin {0, T}
    BY <1>1, <1>4, <1>5
  <2> QED
    BY <1>1, <1>5, <1>6, <1>9, <2>1, Zenon DEF Drifts
<1>11. AudioTypes'
  <2>1. v2 + v3 \in Nat
    BY <1>3, <1>4
  <2> QED
    BY <1>1, <1>2, <1>9, <2>1 DEF AudioTypes
<1> QED
  BY <1>10, <1>11 DEF AudioHolds

LEMMA RebaseStays ==
  ASSUME Audio!ResamplerAssumption, AudioHolds, Audio!Rebase
  PROVE  AudioHolds'
<1> DEFINE T == TARGET_RATE
           high == Audio!CeilDiv(v2 + v3, T)
           n == Len(v5) - v6.out
           c == IF v2 >= v3 THEN (v2 - v3) \div T ELSE 0
<1>1. /\ v7 = TRUE /\ high > Len(v1) /\ v7' = FALSE
      /\ v1' = SubSeq(v1, c + 1, Len(v1)) /\ v2' = v2 - c * T
      /\ v3' = v3 /\ v4' = v4 /\ v5' = v5 /\ v6' = v6
  BY DEF Audio!Rebase, Audio!High, AudioHolds, AudioTypes
<1>2. AudioTypes /\ Drifts(v1, v2, v3, v4, v5, v6.fed, v6.out, v7)
  BY DEF AudioHolds
<1>3. /\ v1 \in Seq(Nat) /\ v2 \in Nat /\ v4 \in Nat /\ v5 \in Seq(Seq(Nat))
      /\ v6.fed \in Nat /\ v6.out \in Nat
  BY <1>2 DEF AudioTypes
<1>4. v3 \in Nat \ {0} /\ T \in Nat \ {0} /\ v3 # T
  BY <1>1, <1>2 DEF AudioTypes, Drifts, Audio!ResamplerAssumption
<1>5. /\ n \in Nat /\ Samples(v1, v4) /\ Placement(Len(v1), v2, v3, v4, n, v6.fed)
      /\ OutAre(v5, v6.out, v3, v6.fed)
  BY <1>2, <1>4 DEF Drifts
<1>6. c \in Nat /\ c * T <= v2
  <2>1. CASE v2 >= v3
    <3> DEFINE a == v2 - v3
               q == a \div T
    <3>1. a \in Nat /\ a <= v2
      BY <1>3, <1>4, <2>1
    <3> HIDE DEF a
    <3>2. q \in Nat /\ q * T <= a
      BY <1>4, <3>1, DivIs
    <3> HIDE DEF q
    <3>3. q * T \in Nat /\ q * T <= v2
      BY <1>3, <1>4, <3>1, <3>2
    <3> QED
      BY <2>1, <3>2, <3>3 DEF q, a
  <2>2. CASE ~(v2 >= v3)
    <3>1. 0 * T = 0
      BY <1>4
    <3> QED
      BY <1>3, <2>2, <3>1
  <2> QED
    BY <2>1, <2>2
<1> HIDE DEF c, n
<1>7. /\ v1' \in Seq(Nat) /\ Len(v1') = Len(v1) - c /\ v2' \in Nat
      /\ Samples(v1', v4) /\ Placement(Len(v1'), v2', v3, v4, n, v6.fed)
      /\ high = c + Audio!CeilDiv(v2' + v3, T)
  <2>1. LET kept == SubSeq(v1, c + 1, Len(v1))
            q == v2 - c * TARGET_RATE
        IN /\ kept \in Seq(Nat) /\ Len(kept) = Len(v1) - c /\ q \in Nat
           /\ Samples(kept, v4) /\ Placement(Len(kept), q, v3, v4, n, v6.fed)
           /\ Audio!CeilDiv(v2 + v3, TARGET_RATE) = c + Audio!CeilDiv(q + v3, TARGET_RATE)
    BY <1>3, <1>4, <1>5, <1>6, Dropped
  <2> QED
    BY <1>1, <2>1, Zenon DEF T, high
<1>8. v6.fed + Audio!CeilDiv((n + 1) * v3, T) > v4
  <2>1. v6.fed + Audio!CeilDiv((n + 1) * v3, T) = v4 - Len(v1) + high /\ high \in Nat
    BY <1>3, <1>4, <1>5, NextSpan
  <2>2. Len(v1) \in Nat /\ high > Len(v1)
    BY <1>1, <1>3, LenProperties
  <2> HIDE DEF high
  <2>3. v4 - Len(v1) + high > v4
    BY <1>3, <2>1, <2>2
  <2> QED
    BY <2>1, <2>3
<1>9. Drifts(v1', v2', v3', v4', v5', v6'.fed, v6'.out, v7')
  <2>1. v3 \notin {0, T} /\ ~v7'
    BY <1>1, <1>4
  <2> QED
    BY <1>1, <1>5, <1>7, <1>8, <2>1, Zenon DEF Drifts, n
<1>10. AudioTypes'
  BY <1>1, <1>2, <1>7 DEF AudioTypes
<1> QED
  BY <1>9, <1>10 DEF AudioHolds

LEMMA ZeroDiv ==
  ASSUME NEW T \in Nat \ {0}
  PROVE  0 \div T = 0 /\ Audio!CeilDiv(0, T) = 0
<1>1. 0 \div T = 0
  BY DivUnique
<1>2. T - 1 \in Nat /\ 0 * T <= T - 1 /\ T - 1 < 0 * T + T /\ 0 + T - 1 = T - 1
  OBVIOUS
<1>3. (T - 1) \div T = 0
  BY <1>2, DivUnique
<1> QED
  BY <1>1, <1>2, <1>3 DEF Audio!CeilDiv

\* Of the target rate, an output sample is the source sample of its number.
LEMMA OneEach ==
  ASSUME TARGET_RATE \in Nat \ {0}, NEW start \in Nat, NEW k \in Nat \ {0}
  PROVE  SpanAt(TARGET_RATE, start, k) = <<start + k>>
<1> DEFINE T == TARGET_RATE
           j == k - 1
<1>0. T \in Nat \ {0} /\ j \in Nat /\ j * T = j * T + 0 /\ k * T = k * T + 0
  OBVIOUS
<1> HIDE DEF T, j
<1>1. (j * T + 0) \div T = j + 0
  BY <1>0, DivShift, ZeroDiv
<1>2. Audio!CeilDiv(k * T + 0, T) = k + 0
  BY <1>0, CeilShift, ZeroDiv
<1>3. (j * T) \div T = j /\ Audio!CeilDiv(k * T, T) = k
  BY <1>0, <1>1, <1>2
<1>4. SpanAt(T, start, k) = Audio!Numbers(start + j, k - j)
  BY <1>3, Zenon DEF SpanAt, j, T
<1>5. k - j = 1 /\ (start + j) + 1 = start + k
  BY <1>0 DEF j
<1>6. Audio!Numbers(start + j, 1) = <<(start + j) + 1>>
  BY DEF Audio!Numbers
<1> QED
  BY <1>4, <1>5, <1>6, Zenon DEF T

\* A packet of the target rate goes out as it is.
\* A packet at the target rate, behind the samples so far.
Passed(out, fed, k) == out \o [i \in 1 .. k |-> <<fed + i>>]

LEMMA PassesThrough ==
  ASSUME TARGET_RATE \in Nat \ {0}, NEW out \in Seq(Seq(Nat)), NEW from \in Nat, NEW start \in Nat,
         NEW fed \in Nat, NEW k \in Nat, Len(out) - from \in Nat, fed = start + (Len(out) - from),
         OutAre(out, from, TARGET_RATE, start)
  PROVE  /\ Passed(out, fed, k) \in Seq(Seq(Nat))
         /\ Len(Passed(out, fed, k)) - from = (Len(out) - from) + k
         /\ OutAre(Passed(out, fed, k), from, TARGET_RATE, start)
<1> DEFINE new == [i \in 1 .. k |-> <<fed + i>>]
           more == out \o new
           n == Len(out) - from
<1>0. Len(out) \in Nat /\ n \in Nat /\ from + n = Len(out) /\ fed = start + n
  BY LenProperties
<1>1. new \in Seq(Seq(Nat)) /\ Len(new) = k /\ \A i \in 1 .. k : new[i] = <<fed + i>>
  <2>1. \A i \in 1 .. k : <<fed + i>> \in Seq(Nat)
    <3> SUFFICES ASSUME NEW i \in 1 .. k
                 PROVE  <<fed + i>> \in Seq(Nat)
      OBVIOUS
    <3>1. fed + i \in Nat
      OBVIOUS
    <3> QED
      BY <3>1
  <2> QED
    BY <2>1
<1> HIDE DEF new, n
<1>2. /\ more \in Seq(Seq(Nat)) /\ Len(more) = Len(out) + k
      /\ \A i \in 1 .. Len(out) + k : more[i] = IF i <= Len(out) THEN out[i] ELSE new[i - Len(out)]
  BY <1>1, ConcatProperties
<1> HIDE DEF more
<1>3. Len(more) - from = n + k
  <2>1. Len(more) = (from + n) + k
    BY <1>0, <1>2, Zenon
  <2> QED
    BY <2>1, <1>0
<1>4. ASSUME NEW j \in 1 .. Len(more) - from
      PROVE  more[from + j] = SpanAt(TARGET_RATE, start, j)
  <2>0. /\ j \in 1 .. n + k /\ from + j \in 1 .. Len(out) + k
        /\ from + j <= Len(out) <=> j <= n
    BY <1>0, <1>3
  <2>1. CASE j <= n
    <3>1. j \in 1 .. n
      BY <2>0, <2>1, <1>0
    <3>2. out[from + j] = SpanAt(TARGET_RATE, start, j)
      BY <3>1 DEF OutAre, n
    <3> QED
      BY <1>2, <2>0, <2>1, <3>2
  <2>2. CASE ~(j <= n)
    <3>1. (from + j) - Len(out) \in 1 .. k /\ fed + ((from + j) - Len(out)) = start + j
      BY <2>0, <2>2, <1>0
    <3>2. more[from + j] = new[(from + j) - Len(out)]
      BY <1>2, <2>0, <2>2
    <3>3. new[(from + j) - Len(out)] = <<start + j>>
      BY <3>1, <1>1
    <3>4. SpanAt(TARGET_RATE, start, j) = <<start + j>>
      <4>1. j \in Nat \ {0}
        BY <1>0, <2>0
      <4> QED
        BY <4>1, OneEach
    <3> QED
      BY <3>2, <3>3, <3>4
  <2> QED
    BY <2>1, <2>2
<1> QED
  BY <1>2, <1>3, <1>4, Zenon DEF OutAre, Passed, more, new, n

\* One of another rate joins the carry.
LEMMA Joins ==
  ASSUME TARGET_RATE \in Nat \ {0}, NEW kept \in Seq(Nat), NEW fed \in Nat, Samples(kept, fed),
         NEW p \in Nat, NEW rate \in Nat, NEW n \in Nat, NEW start \in Nat,
         Placement(Len(kept), p, rate, fed, n, start), NEW k \in Nat
  PROVE  LET more == kept \o Audio!Numbers(fed, k)
         IN /\ more \in Seq(Nat) /\ Samples(more, fed + k)
            /\ Placement(Len(more), p, rate, fed + k, n, start)
<1> DEFINE new == Audio!Numbers(fed, k)
           more == kept \o new
           len == Len(kept)
<1>0. /\ len \in Nat /\ len <= fed /\ start + len <= fed
      /\ (fed - len - start) * TARGET_RATE + p = n * rate
      /\ Audio!CeilDiv(p, TARGET_RATE) <= len
      /\ \A i \in 1 .. len : kept[i] = fed - len + i
  BY LenProperties DEF Samples, Placement
<1>1. new \in Seq(Nat) /\ Len(new) = k /\ \A i \in 1 .. k : new[i] = fed + i
  BY DEF Audio!Numbers
<1> HIDE DEF new
<1>2. /\ more \in Seq(Nat) /\ Len(more) = len + k
      /\ \A i \in 1 .. len + k : more[i] = IF i <= len THEN kept[i] ELSE new[i - len]
  BY <1>1, ConcatProperties
<1> HIDE DEF more, len
<1>3. (fed + k) - Len(more) = fed - len /\ start + Len(more) <= fed + k /\ Len(more) <= fed + k
  BY <1>0, <1>2
<1>4. ASSUME NEW i \in 1 .. Len(more)
      PROVE  more[i] = fed - len + i
  <2>1. CASE i <= len
    <3>1. i \in 1 .. len /\ i \in 1 .. len + k
      BY <1>0, <1>2, <2>1
    <3> QED
      BY <1>0, <1>2, <2>1, <3>1
  <2>2. CASE ~(i <= len)
    <3>1. i - len \in 1 .. k /\ fed + (i - len) = fed - len + i /\ i \in 1 .. len + k
      BY <1>0, <1>2, <2>2
    <3>2. new[i - len] = fed + (i - len)
      BY <3>1, <1>1
    <3> QED
      BY <1>2, <2>2, <3>1, <3>2
  <2> QED
    BY <2>1, <2>2
<1>5. Samples(more, fed + k)
  BY <1>3, <1>4, Zenon DEF Samples
<1>6. Placement(Len(more), p, rate, fed + k, n, start)
  <2>1. Audio!CeilDiv(p, TARGET_RATE) \in Nat /\ Audio!CeilDiv(p, TARGET_RATE) <= Len(more)
    <3>1. Audio!CeilDiv(p, TARGET_RATE) \in Nat
      BY CeilShift
    <3> QED
      BY <1>0, <1>2, <3>1
  <2> QED
    BY <1>0, <1>3, <2>1, Zenon DEF Placement
<1> QED
  BY <1>2, <1>5, <1>6, Zenon DEF more, new

LEMMA PushStays ==
  ASSUME Audio!ResamplerAssumption, AudioHolds,
         NEW r \in Rates, NEW k \in 0 .. MaxPacket, Audio!PushPacket(r, k)
  PROVE  AudioHolds'
<1> DEFINE T == TARGET_RATE
           kept == IF r # v3 THEN << >> ELSE v1
           p == IF r # v3 THEN 0 ELSE v2
           start == IF r # v3 THEN v4 ELSE v6.fed
           from == IF r # v3 THEN Len(v5) ELSE v6.out
           n == Len(v5) - from
<1>1. /\ v7 = FALSE /\ v4' = v4 + k /\ v3' = r /\ v2' = p
      /\ v6' = [fed |-> start, out |-> from]
      /\ IF r = T THEN v1' = kept /\ v5' = v5 \o [i \in 1 .. k |-> <<v4 + i>>] /\ v7' = v7
         ELSE v1' = kept \o Audio!Numbers(v4, k) /\ v5' = v5 /\ v7' = TRUE
  <2>1. v6 = [fed |-> v6.fed, out |-> v6.out] /\ v7 \in BOOLEAN
    BY DEF AudioHolds, AudioTypes
  <2> QED
    BY <2>1 DEF Audio!PushPacket
<1>2. AudioTypes /\ Drifts(v1, v2, v3, v4, v5, v6.fed, v6.out, v7)
  BY DEF AudioHolds
<1>3. /\ v1 \in Seq(Nat) /\ v2 \in Nat /\ v4 \in Nat /\ v5 \in Seq(Seq(Nat))
      /\ v6.fed \in Nat /\ v6.out \in Nat /\ v3 \in Nat
  BY <1>2 DEF AudioTypes, Audio!ResamplerAssumption
<1>4. r \in Nat \ {0} /\ T \in Nat \ {0} /\ k \in Nat
  BY DEF Audio!ResamplerAssumption
<1>5. /\ kept \in Seq(Nat) /\ p \in Nat /\ start \in Nat /\ from \in Nat /\ n \in Nat
      /\ Samples(kept, v4) /\ Placement(Len(kept), p, r, v4, n, start)
      /\ OutAre(v5, from, r, start)
      /\ r = T => kept = << >> /\ p = 0
  <2>1. CASE r # v3
    <3>1. Len(v5) \in Nat /\ n = 0
      BY <1>3, <2>1, LenProperties
    <3>2. Samples(<< >>, v4)
      BY <1>3 DEF Samples
    <3>3. Placement(Len(<< >>), 0, r, v4, 0, v4)
      <4>1. Audio!CeilDiv(0, T) = 0
        BY <1>4, ZeroDiv
      <4>2. (v4 - 0 - v4) * T + 0 = 0 * r /\ v4 + 0 <= v4
        BY <1>3, <1>4
      <4> QED
        BY <4>1, <4>2 DEF Placement
    <3>4. OutAre(v5, from, r, start)
      BY <3>1 DEF OutAre
    <3> QED
      BY <1>3, <2>1, <3>1, <3>2, <3>3, <3>4
  <2>2. CASE r = v3
    <3>1. /\ kept = v1 /\ p = v2 /\ start = v6.fed /\ from = v6.out /\ v3 # 0
      BY <1>4, <2>2
    <3> HIDE DEF kept, p, start, from
    <3>2. /\ Len(v5) - v6.out \in Nat /\ Samples(v1, v4)
          /\ Placement(Len(v1), v2, v3, v4, Len(v5) - v6.out, v6.fed)
          /\ OutAre(v5, v6.out, v3, v6.fed)
          /\ v3 = T => v1 = << >> /\ v2 = 0
      BY <1>2, <3>1, Zenon DEF Drifts
    <3> QED
      BY <1>3, <2>2, <3>1, <3>2, Zenon
  <2> QED
    BY <2>1, <2>2
<1> HIDE DEF kept, p, start, from, n
<1>6. CASE r # T
  <2>1. LET more == kept \o Audio!Numbers(v4, k)
        IN /\ more \in Seq(Nat) /\ Samples(more, v4 + k)
           /\ Placement(Len(more), p, r, v4 + k, n, start)
    BY <1>3, <1>4, <1>5, Joins
  <2>2. /\ v1' \in Seq(Nat) /\ Samples(v1', v4') /\ Placement(Len(v1'), v2', v3', v4', n, start)
    BY <1>1, <1>6, <2>1, Zenon
  <2>3. v5' = v5 /\ v7' = TRUE /\ v6'.fed = start /\ v6'.out = from /\ v3' \notin {0, T}
    BY <1>1, <1>4, <1>6
  <2>4. Len(v5') - v6'.out = n
    BY <2>3 DEF n
  <2>5. Drifts(v1', v2', v3', v4', v5', v6'.fed, v6'.out, v7')
    BY <1>1, <1>5, <2>2, <2>3, <2>4, Zenon DEF Drifts
  <2>6. AudioTypes'
    <3>1. v4 + k \in Nat
      BY <1>3, <1>4
    <3> QED
      BY <1>1, <1>3, <1>5, <2>2, <2>3, <3>1 DEF AudioTypes
  <2> QED
    BY <2>5, <2>6 DEF AudioHolds
<1>7. CASE r = T
  <2>1. kept = << >> /\ p = 0
    BY <1>5, <1>7
  <2>2. v4 = start + n
    <3>1. (v4 - 0 - start) * T + 0 = n * T /\ start + 0 <= v4
      BY <1>5, <1>7, <2>1 DEF Placement
    <3> DEFINE a == v4 - start
    <3>2. a \in Int /\ a * T = n * T
      BY <1>3, <1>4, <1>5, <3>1
    <3> HIDE DEF a
    <3>3. a = n
      BY <1>4, <1>5, <3>2, Cancels
    <3> QED
      BY <1>3, <1>5, <3>3 DEF a
  <2>3. /\ v5' = v5 \o [i \in 1 .. k |-> <<v4 + i>>] /\ v1' = << >> /\ v2' = 0 /\ v7' = FALSE
        /\ v4' = v4 + k /\ v3' = T /\ v6'.fed = start /\ v6'.out = from
    BY <1>1, <1>7, <2>1
  <2>4. v5' \in Seq(Seq(Nat)) /\ Len(v5') - from = n + k /\ OutAre(v5', from, T, start)
    <3>1. v4 = start + (Len(v5) - from) /\ Len(v5) - from \in Nat
      BY <2>2, <1>5 DEF n
    <3> DEFINE o == v5
               f == v4
    <3>2. /\ TARGET_RATE \in Nat \ {0} /\ o \in Seq(Seq(Nat)) /\ f \in Nat
          /\ from \in Nat /\ start \in Nat /\ k \in Nat /\ f = start + (Len(o) - from)
          /\ Len(o) - from \in Nat /\ OutAre(o, from, TARGET_RATE, start)
      BY <1>3, <1>4, <1>5, <1>7, <3>1
    <3> HIDE DEF o, f
    <3>3. /\ Passed(o, f, k) \in Seq(Seq(Nat))
          /\ Len(Passed(o, f, k)) - from = (Len(o) - from) + k
          /\ OutAre(Passed(o, f, k), from, TARGET_RATE, start)
      BY <3>2, PassesThrough
    <3>4. v5' = Passed(o, f, k)
      BY <2>3, Zenon DEF Passed, o, f
    <3> QED
      BY <3>3, <3>4, Zenon DEF n, o, T
  <2>5. Samples(v1', v4')
    <3>1. v4 + k \in Nat
      BY <1>3, <1>4
    <3> QED
      BY <2>3, <3>1 DEF Samples
  <2>6. Placement(Len(v1'), v2', v3', v4', n + k, start)
    <3>1. (v4 + k) - 0 - start = n + k /\ start + 0 <= v4 + k
      BY <1>3, <1>4, <1>5, <2>2
    <3>2. (n + k) * T + 0 = (n + k) * T
      BY <1>4, <1>5
    <3>3. Audio!CeilDiv(0, T) <= 0
      BY <1>4, ZeroDiv
    <3>4. Len(v1') = 0
      BY <2>3
    <3> HIDE DEF T
    <3> QED
      BY <2>3, <3>1, <3>2, <3>3, <3>4, Zenon DEF Placement, T
  <2>7. start + Audio!CeilDiv((n + k + 1) * T, T) > v4'
    <3> DEFINE m == n + k + 1
    <3>1. m \in Nat /\ m * T = m * T + 0 /\ start + m > v4 + k
      BY <1>3, <1>4, <1>5, <2>2
    <3> HIDE DEF m, T
    <3>2. Audio!CeilDiv(m * T + 0, T) = m + 0
      BY <3>1, <1>4, CeilShift, ZeroDiv
    <3>3. Audio!CeilDiv(m * T, T) = m
      BY <3>1, <3>2
    <3> QED
      BY <2>3, <3>1, <3>3 DEF m
  <2>8. Drifts(v1', v2', v3', v4', v5', v6'.fed, v6'.out, v7')
    <3>1. n + k \in Nat /\ ~v7'
      BY <1>4, <1>5, <2>3
    <3> QED
      BY <2>3, <2>4, <2>5, <2>6, <2>7, <3>1, Zenon DEF Drifts
  <2>9. AudioTypes'
    <3>1. v4 + k \in Nat
      BY <1>3, <1>4
    <3> QED
      BY <1>1, <1>3, <1>5, <2>3, <2>4, <3>1 DEF AudioTypes
  <2> QED
    BY <2>8, <2>9 DEF AudioHolds
<1> QED
  BY <1>6, <1>7

LEMMA AudioStays ==
  ASSUME Audio!ResamplerAssumption, Audio!DriftInv, [Audio!Next]_(Audio!vars)
  PROVE  Audio!DriftInv'
<1>0. AudioHolds
  BY DriftInvIs
<1>1. ASSUME UNCHANGED Audio!vars
      PROVE  AudioHolds'
  BY <1>0, <1>1 DEF Audio!vars, AudioHolds, AudioTypes
<1>2. AudioHolds'
  BY <1>0, <1>1, PushStays, AverageStays, RebaseStays DEF Audio!Next
<1> QED
  BY <1>2, DriftInvIs

LEMMA AudioInit ==
  ASSUME Audio!ResamplerAssumption, Audio!Init
  PROVE  Audio!DriftInv
<1> DEFINE e == << >>
<1>1. v1 = e /\ v2 = 0 /\ v3 = 0 /\ v4 = 0 /\ v5 = e /\ v6 = [fed |-> 0, out |-> 0] /\ v7 = FALSE
  BY DEF Audio!Init
<1>2. AudioTypes
  <2>1. e \in Seq(Nat) /\ e \in Seq(Seq(Nat))
    OBVIOUS
  <2>2. [fed |-> 0, out |-> 0] \in [fed : Nat, out : Nat]
    OBVIOUS
  <2> HIDE DEF e
  <2> QED
    BY <1>1, <2>1, <2>2 DEF AudioTypes
<1>3. Samples(e, 0) /\ Len(e) = 0
  BY DEF Samples
<1>4. Placement(0, 0, 0, 0, 0, 0)
  <2>1. TARGET_RATE \in Nat \ {0}
    BY DEF Audio!ResamplerAssumption
  <2>2. Audio!CeilDiv(0, TARGET_RATE) = 0 /\ (0 - 0 - 0) * TARGET_RATE + 0 = 0 * 0
    BY <2>1, ZeroDiv
  <2> QED
    BY <2>2 DEF Placement
<1>5. Drifts(e, 0, 0, 0, e, 0, 0, FALSE)
  BY <1>3, <1>4 DEF Drifts
<1>6. AudioHolds
  BY <1>1, <1>2, <1>5 DEF AudioHolds
<1> QED
  BY <1>6, DriftInvIs

-----------------------------------------------------------------------------
(* Counting on.                                                            *)

Inductive(T, m) == 0 \in T /\ \A k \in 0 .. m : k \in T /\ k < m => k + 1 \in T

LEMMA CountsOn ==
  ASSUME NEW m \in Nat, NEW T, Inductive(T, m)
  PROVE  \A k \in 0 .. m : k \in T
<1> DEFINE U == {k \in Nat : k <= m /\ k \notin T}
<1> SUFFICES ASSUME U # {}
             PROVE  FALSE
  OBVIOUS
<1>1. PICK k \in U : \A j \in U : k <= j
  <2>1. U \subseteq Nat /\ U # {}
    OBVIOUS
  <2> HIDE DEF U
  <2> QED
    BY <2>1, LeastNumber
<1>2. k \in Nat /\ k <= m /\ k \notin T /\ k # 0
  BY <1>1 DEF Inductive
<1>3. k - 1 \in 0 .. m /\ k - 1 < m /\ ~(k <= k - 1) /\ (k - 1) + 1 = k
  BY <1>2
<1>4. k - 1 \in T
  BY <1>1, <1>3
<1> QED
  BY <1>2, <1>3, <1>4 DEF Inductive

\* g goes m steps from b.
Goes(g, m, b, step) ==
  g[0] = b /\ \A n \in 1 .. m : g[n] = step[<<n, g[n - 1]>>]

LEMMA Recursion ==
  ASSUME NEW m \in Nat, NEW S, NEW b \in S, NEW step \in [(1 .. m) \X S -> S]
  PROVE  \E g \in [0 .. m -> S] : Goes(g, m, b, step)
<1> DEFINE T == {k \in 0 .. m : \E g \in [0 .. k -> S] : Goes(g, k, b, step)}
<1>1. 0 \in T
  <2> DEFINE g == [n \in 0 .. 0 |-> b]
  <2>1. g \in [0 .. 0 -> S] /\ Goes(g, 0, b, step)
    BY DEF Goes
  <2> QED
    BY <2>1
<1>2. ASSUME NEW k \in 0 .. m, k \in T, k < m
      PROVE  k + 1 \in T
  <2>1. PICK h \in [0 .. k -> S] : Goes(h, k, b, step)
    BY <1>2
  <2> DEFINE g == [n \in 0 .. k + 1 |-> IF n = k + 1 THEN step[<<k + 1, h[k]>>] ELSE h[n]]
  <2>2. step[<<k + 1, h[k]>>] \in S
    <3>1. k + 1 \in 1 .. m /\ h[k] \in S
      BY <1>2
    <3> QED
      BY <3>1
  <2>3. g \in [0 .. k + 1 -> S]
    <3>1. \A n \in 0 .. k + 1 : n = k + 1 \/ n \in 0 .. k
      OBVIOUS
    <3> QED
      BY <2>2, <3>1
  <2>4. g[k + 1] = step[<<k + 1, h[k]>>] /\ \A n \in 0 .. k : g[n] = h[n]
    OBVIOUS
  <2> HIDE DEF g
  <2>5. ASSUME NEW n \in 1 .. k + 1
        PROVE  g[n] = step[<<n, g[n - 1]>>]
    <3>1. CASE n = k + 1
      <4>1. n - 1 = k /\ k \in 0 .. k
        BY <3>1
      <4> QED
        BY <2>4, <3>1, <4>1, Zenon
    <3>2. CASE n # k + 1
      <4>1. n \in 1 .. k /\ n \in 0 .. k /\ n - 1 \in 0 .. k
        BY <3>2
      <4>2. h[n] = step[<<n, h[n - 1]>>]
        BY <2>1, <4>1 DEF Goes
      <4> QED
        BY <2>4, <4>1, <4>2, Zenon
    <3> QED
      BY <3>1, <3>2
  <2>6. Goes(g, k + 1, b, step)
    <3>1. g[0] = b
      BY <2>1, <2>4 DEF Goes
    <3> QED
      BY <3>1, <2>5 DEF Goes
  <2>7. k + 1 \in 0 .. m
    BY <1>2
  <2> QED
    BY <2>3, <2>6, <2>7
<1>3. Inductive(T, m)
  BY <1>1, <1>2 DEF Inductive
<1> HIDE DEF T
<1>4. m \in T
  BY <1>3, CountsOn
<1> QED
  BY <1>4 DEF T

-----------------------------------------------------------------------------
(* Sums.                                                                   *)

LEMMA SumsAre ==
  ASSUME NEW x \in Seq(Nat)
  PROVE  /\ Subtitles!Sums(x)[0] = 0
         /\ \A n \in 1 .. Len(x) : Subtitles!Sums(x)[n] = Subtitles!Sums(x)[n - 1] + x[n]
         /\ \A n \in 0 .. Len(x) : Subtitles!Sums(x)[n] \in Nat
<1> DEFINE m == Len(x)
           F(f) == f = [n \in 0 .. m |-> IF n = 0 THEN 0 ELSE f[n - 1] + x[n]]
           f == Subtitles!Sums(x)
           step == [y \in (1 .. m) \X Nat |-> y[2] + x[y[1]]]
<1>0. m \in Nat
  BY LenProperties
<1>1. f = CHOOSE g : F(g)
  BY Zenon DEF Subtitles!Sums
<1> HIDE DEF f
<1>2. \E g : F(g)
  <2>1. step \in [(1 .. m) \X Nat -> Nat]
    OBVIOUS
  <2>2. \A n \in 1 .. m, s \in Nat : step[<<n, s>>] = s + x[n]
    OBVIOUS
  <2> HIDE DEF step
  <2>3. PICK g \in [0 .. m -> Nat] : Goes(g, m, 0, step)
    BY <1>0, <2>1, Recursion
  <2>4. ASSUME NEW n \in 0 .. m
        PROVE  g[n] = IF n = 0 THEN 0 ELSE g[n - 1] + x[n]
    <3>1. CASE n = 0
      BY <2>3, <3>1 DEF Goes
    <3>2. CASE n # 0
      <4>1. n \in 1 .. m /\ n - 1 \in 0 .. m
        BY <3>2, <1>0
      <4>2. g[n - 1] \in Nat
        BY <4>1
      <4> QED
        BY <2>2, <2>3, <3>2, <4>1, <4>2 DEF Goes
    <3> QED
      BY <3>1, <3>2
  <2> QED
    BY <2>4
<1>3. F(f)
  BY <1>1, <1>2, Zenon
<1> HIDE DEF m
<1>4. f[0] = 0 /\ \A n \in 1 .. m : f[n] = f[n - 1] + x[n]
  BY <1>0, <1>3
<1>5. \A n \in 0 .. m : f[n] \in Nat
  <2> DEFINE T == {n \in 0 .. m : f[n] \in Nat}
  <2>1. Inductive(T, m)
    <3>1. 0 \in T
      BY <1>0, <1>4
    <3>2. ASSUME NEW k \in 0 .. m, k \in T, k < m
          PROVE  k + 1 \in T
      <4>1. k + 1 \in 1 .. m /\ k + 1 \in 0 .. m /\ (k + 1) - 1 = k
        BY <1>0, <3>2
      <4>2. f[k + 1] = f[k] + x[k + 1] /\ x[k + 1] \in Nat /\ f[k] \in Nat
        BY <1>4, <3>2, <4>1 DEF m
      <4> QED
        BY <4>1, <4>2
    <3> QED
      BY <3>1, <3>2 DEF Inductive
  <2> HIDE DEF T
  <2>2. \A n \in 0 .. m : n \in T
    BY <1>0, <2>1, CountsOn
  <2> QED
    BY <2>2 DEF T
<1> QED
  BY <1>4, <1>5 DEF f, m

LEMMA TotalIs ==
  ASSUME NEW x \in Seq(Nat)
  PROVE  Subtitles!Total(x) = Subtitles!Sums(x)[Len(x)] /\ Subtitles!Total(x) \in Nat
<1>1. Len(x) \in 0 .. Len(x)
  BY LenProperties
<1> QED
  BY <1>1, SumsAre DEF Subtitles!Total

\* Sums go on where the numbers do.
LEMMA SumsGoOn ==
  ASSUME NEW x \in Seq(Nat), NEW y \in Seq(Nat)
  PROVE  Subtitles!Total(x \o y) = Subtitles!Total(x) + Subtitles!Total(y)
<1> DEFINE z == x \o y
           f == Subtitles!Sums(x)
           g == Subtitles!Sums(y)
           h == Subtitles!Sums(z)
           a == Len(x)
           b == Len(y)
<1>0. a \in Nat /\ b \in Nat
  BY LenProperties
<1>1. z \in Seq(Nat) /\ Len(z) = a + b
      /\ \A i \in 1 .. a + b : z[i] = IF i <= a THEN x[i] ELSE y[i - a]
  BY ConcatProperties
<1> HIDE DEF z
<1>2. f[0] = 0 /\ \A n \in 1 .. a : f[n] = f[n - 1] + x[n]
  BY SumsAre
<1>3. g[0] = 0 /\ \A n \in 1 .. b : g[n] = g[n - 1] + y[n]
  BY SumsAre
<1>4. h[0] = 0 /\ \A n \in 1 .. a + b : h[n] = h[n - 1] + z[n]
  BY <1>1, SumsAre
<1>5. /\ \A n \in 0 .. a : f[n] \in Nat
      /\ \A n \in 0 .. b : g[n] \in Nat
  BY SumsAre
<1>x. (\A i \in 1 .. a : x[i] \in Nat) /\ (\A i \in 1 .. b : y[i] \in Nat)
  OBVIOUS
<1> HIDE DEF f, g, h, a, b
<1>6. h[a] = f[a]
  <2> DEFINE T == {n \in 0 .. a : h[n] = f[n]}
  <2>1. 0 \in T
    BY <1>0, <1>2, <1>4
  <2>2. ASSUME NEW k \in 0 .. a, k \in T, k < a
        PROVE  k + 1 \in T
    <3>1. /\ k + 1 \in 1 .. a /\ k + 1 \in 0 .. a /\ k + 1 \in 1 .. a + b /\ (k + 1) - 1 = k
          /\ k + 1 <= a
      BY <1>0, <2>2
    <3>2. h[k + 1] = h[k] + z[k + 1] /\ f[k + 1] = f[k] + x[k + 1]
      BY <1>2, <1>4, <3>1, Zenon
    <3>3. z[k + 1] = x[k + 1]
      BY <1>1, <3>1
    <3> QED
      BY <2>2, <3>1, <3>2, <3>3
  <2>3. Inductive(T, a)
    BY <2>1, <2>2 DEF Inductive
  <2> HIDE DEF T
  <2>4. a \in T
    BY <1>0, <2>3, CountsOn
  <2> QED
    BY <2>4 DEF T
<1>7. h[a + b] = f[a] + g[b]
  <2> DEFINE T == {n \in 0 .. b : h[a + n] = f[a] + g[n]}
  <2>0. f[a] \in Nat
    BY <1>0, <1>5
  <2>1. 0 \in T
    <3>1. a + 0 = a /\ f[a] + 0 = f[a]
      BY <1>0, <2>0
    <3> QED
      BY <1>0, <1>3, <1>6, <3>1
  <2>2. ASSUME NEW k \in 0 .. b, k \in T, k < b
        PROVE  k + 1 \in T
    <3>1. /\ k + 1 \in 1 .. b /\ k + 1 \in 0 .. b /\ a + k + 1 \in 1 .. a + b
          /\ (k + 1) - 1 = k /\ (a + k + 1) - 1 = a + k /\ ~(a + k + 1 <= a)
          /\ (a + k + 1) - a = k + 1 /\ a + (k + 1) = a + k + 1
      BY <1>0, <2>2
    <3>2. h[a + k + 1] = h[a + k] + z[a + k + 1] /\ g[k + 1] = g[k] + y[k + 1]
      BY <1>3, <1>4, <3>1, Zenon
    <3>3. z[a + k + 1] = y[k + 1]
      BY <1>1, <3>1
    <3>4. h[a + k] = f[a] + g[k] /\ g[k] \in Nat /\ y[k + 1] \in Nat
      BY <2>2, <1>5, <1>x, <3>1
    <3>5. (f[a] + g[k]) + y[k + 1] = f[a] + (g[k] + y[k + 1])
      BY <2>0, <3>4
    <3> QED
      BY <3>1, <3>2, <3>3, <3>4, <3>5
  <2>3. Inductive(T, b)
    BY <2>1, <2>2 DEF Inductive
  <2> HIDE DEF T
  <2>4. b \in T
    BY <1>0, <2>3, CountsOn
  <2> QED
    BY <2>4 DEF T
<1>8. Subtitles!Total(z) = h[a + b] /\ Subtitles!Total(x) = f[a] /\ Subtitles!Total(y) = g[b]
  BY <1>1, TotalIs DEF f, g, h, a, b
<1> QED
  BY <1>7, <1>8 DEF z

LEMMA SumOfOne ==
  ASSUME NEW n \in Nat
  PROVE  Subtitles!Total(<<n>>) = n /\ Subtitles!Total(<< >>) = 0
<1>1. <<n>> \in Seq(Nat) /\ Len(<<n>>) = 1 /\ <<n>>[1] = n
  OBVIOUS
<1>2. << >> \in Seq(Nat) /\ Len(<< >>) = 0
  OBVIOUS
<1>3. Subtitles!Total(<< >>) = 0
  BY <1>2, SumsAre, TotalIs
<1> DEFINE x == <<n>>
<1> HIDE DEF x
<1>4. x \in Seq(Nat) /\ Len(x) = 1 /\ x[1] = n
  BY <1>1 DEF x
<1>5. Subtitles!Sums(x)[0] = 0 /\ \A i \in 1 .. Len(x) : Subtitles!Sums(x)[i] = Subtitles!Sums(x)[i - 1] + x[i]
  BY <1>4, SumsAre
<1>6. 1 \in 1 .. 1 /\ 1 - 1 = 0 /\ 0 + n = n
  OBVIOUS
<1>7. Subtitles!Sums(x)[1] = n
  BY <1>4, <1>5, <1>6
<1>8. Subtitles!Total(x) = n
  BY <1>4, <1>7, TotalIs
<1> QED
  BY <1>3, <1>8 DEF x

-----------------------------------------------------------------------------
(* Cues: v1 is cues, v2 window, v3 spoken and v4 normal.                   *)

Timed == [start : Nat, end : Nat, text : Nat]
Shown == {c \in Timed : c.start < c.end}

LEMMA TextsAre ==
  ASSUME NEW s \in Seq(Timed)
  PROVE  /\ Subtitles!TextsOf(s) \in Seq(Nat) /\ Len(Subtitles!TextsOf(s)) = Len(s)
         /\ \A i \in 1 .. Len(s) : Subtitles!TextsOf(s)[i] = s[i].text /\ s[i].text \in Nat
<1>1. Len(s) \in Nat
  BY LenProperties
<1>2. \A i \in 1 .. Len(s) : s[i] \in Timed
  OBVIOUS
<1>3. \A i \in 1 .. Len(s) : s[i].text \in Nat
  BY <1>2 DEF Timed
<1> QED
  BY <1>1, <1>3 DEF Subtitles!TextsOf

LEMMA CharsGoOn ==
  ASSUME NEW s \in Seq(Timed), NEW t \in Seq(Timed)
  PROVE  /\ s \o t \in Seq(Timed)
         /\ Subtitles!Chars(s \o t) = Subtitles!Chars(s) + Subtitles!Chars(t)
         /\ Subtitles!Chars(s) \in Nat
<1> DEFINE a == Len(s)
           b == Len(t)
           u == s \o t
           x == Subtitles!TextsOf(s)
           y == Subtitles!TextsOf(t)
           z == Subtitles!TextsOf(u)
<1>0. a \in Nat /\ b \in Nat
  BY LenProperties
<1>1. /\ u \in Seq(Timed) /\ Len(u) = a + b
      /\ \A i \in 1 .. a + b : u[i] = IF i <= a THEN s[i] ELSE t[i - a]
  BY ConcatProperties
<1> HIDE DEF u
<1>2. /\ x \in Seq(Nat) /\ Len(x) = a /\ \A i \in 1 .. a : x[i] = s[i].text
      /\ y \in Seq(Nat) /\ Len(y) = b /\ \A i \in 1 .. b : y[i] = t[i].text
      /\ z \in Seq(Nat) /\ Len(z) = a + b /\ \A i \in 1 .. a + b : z[i] = u[i].text
  BY <1>1, TextsAre
<1> HIDE DEF x, y, z, a, b
<1>3. /\ x \o y \in Seq(Nat) /\ Len(x \o y) = a + b
      /\ \A i \in 1 .. a + b : (x \o y)[i] = IF i <= a THEN x[i] ELSE y[i - a]
  BY <1>2, ConcatProperties
<1>4. ASSUME NEW i \in 1 .. a + b
      PROVE  (x \o y)[i] = z[i]
  <2>1. CASE i <= a
    <3>1. i \in 1 .. a
      BY <1>0, <2>1
    <3>2. (x \o y)[i] = x[i]
      BY <1>3, <2>1, Zenon
    <3>3. u[i] = s[i]
      BY <1>1, <2>1, Zenon
    <3>4. x[i] = s[i].text
      BY <1>2, <3>1, Zenon
    <3>5. z[i] = u[i].text
      BY <1>2, Zenon
    <3> QED
      BY <3>2, <3>3, <3>4, <3>5, Zenon
  <2>2. CASE ~(i <= a)
    <3>1. i - a \in 1 .. b
      BY <1>0, <2>2
    <3>2. (x \o y)[i] = y[i - a] /\ y[i - a] = t[i - a].text
      BY <1>2, <1>3, <2>2, <3>1, Zenon
    <3>3. z[i] = u[i].text /\ u[i] = t[i - a]
      BY <1>1, <1>2, <2>2, Zenon
    <3> QED
      BY <3>2, <3>3, Zenon
  <2> QED
    BY <2>1, <2>2
<1>5. x \o y = z
  <2> DEFINE w == x \o y
  <2>1. w \in Seq(Nat) /\ Len(w) = Len(z) /\ \A i \in 1 .. Len(w) : w[i] = z[i]
    BY <1>2, <1>3, <1>4
  <2> HIDE DEF w
  <2>2. w = z
    BY <1>2, <2>1, SeqEqual
  <2> QED
    BY <2>2 DEF w
<1>6. Subtitles!Total(x \o y) = Subtitles!Total(x) + Subtitles!Total(y) /\ Subtitles!Total(x) \in Nat
  BY <1>2, SumsGoOn, TotalIs
<1> QED
  BY <1>1, <1>5, <1>6, Zenon DEF Subtitles!Chars, x, y, z, u

LEMMA CharsOfNone == Subtitles!Chars(<< >>) = 0
<1>1. Subtitles!TextsOf(<< >>) = << >>
  BY DEF Subtitles!TextsOf
<1>2. 0 \in Nat
  OBVIOUS
<1> QED
  BY <1>1, <1>2, SumOfOne, Zenon DEF Subtitles!Chars

LEMMA CharsOfOne ==
  ASSUME NEW c \in Timed
  PROVE  Subtitles!Chars(<<c>>) = c.text
<1>1. <<c>> \in Seq(Timed) /\ Len(<<c>>) = 1 /\ <<c>>[1] = c /\ c.text \in Nat
  BY DEF Timed
<1>2. Subtitles!TextsOf(<<c>>) = <<c.text>>
  BY <1>1 DEF Subtitles!TextsOf
<1> QED
  BY <1>1, <1>2, SumOfOne, Zenon DEF Subtitles!Chars

\* Shown cues one behind the other.
LEMMA ShownGoOn ==
  ASSUME NEW s \in Seq(Shown), NEW t \in Seq(Shown)
  PROVE  /\ s \o t \in Seq(Shown) /\ s \in Seq(Timed)
         /\ Subtitles!Chars(s \o t) = Subtitles!Chars(s) + Subtitles!Chars(t)
<1>1. s \in Seq(Timed) /\ t \in Seq(Timed)
  <2>1. Shown \subseteq Timed
    BY DEF Shown
  <2> QED
    BY <2>1, SeqMonotonic
<1>2. s \o t \in Seq(Shown)
  BY ConcatProperties
<1> QED
  BY <1>1, <1>2, CharsGoOn

\* The cues of some segments, of x characters each, have all their characters.
HaveChars(q, x) == \A i \in 1 .. Len(x) : Subtitles!Chars(q[i]) = x[i]

LEMMA Flattens ==
  ASSUME NEW x \in Seq(Nat), NEW q \in [1 .. Len(x) -> Seq(Shown)], HaveChars(q, x)
  PROVE  /\ Subtitles!FlattenSeq(q) \in Seq(Shown)
         /\ Subtitles!Chars(Subtitles!FlattenSeq(q)) = Subtitles!Total(x)
<1> DEFINE m == Len(x)
           F(f) == f = [i \in 1 .. Len(q) |-> IF i = 1 THEN q[i] ELSE f[i - 1] \o q[i]]
           f == CHOOSE g : F(g)
<1>0. m \in Nat /\ Len(q) = m
  BY LenProperties
<1>1. Subtitles!FlattenSeq(q) = IF Len(q) = 0 THEN q ELSE f[Len(q)]
  BY Zenon DEF Subtitles!FlattenSeq
<1> HIDE DEF f
<1>2. CASE m = 0
  <2>1. q = << >>
    BY <1>0, <1>2
  <2>2. Subtitles!FlattenSeq(q) = << >>
    BY <1>0, <1>1, <1>2, <2>1
  <2>3. Subtitles!Chars(<< >>) = 0 /\ << >> \in Seq(Shown)
    BY CharsOfNone
  <2>4. x = << >>
    BY <1>0, <1>2
  <2>5. Subtitles!Total(x) = 0
    BY <2>4, SumOfOne
  <2> QED
    BY <2>2, <2>3, <2>5
<1>3. CASE m # 0
  <2>1. \E g : F(g)
    <3> DEFINE step == [y \in (1 .. m) \X Seq(Shown) |-> IF y[1] = 1 THEN q[1] ELSE y[2] \o q[y[1]]]
    <3>1. \A i \in 1 .. m, s \in Seq(Shown) : s \o q[i] \in Seq(Shown)
      BY ShownGoOn
    <3>2. step \in [(1 .. m) \X Seq(Shown) -> Seq(Shown)]
      BY <1>0, <1>3, <3>1
    <3>3. \A i \in 1 .. m, s \in Seq(Shown) : step[<<i, s>>] = IF i = 1 THEN q[1] ELSE s \o q[i]
      OBVIOUS
    <3> HIDE DEF step
    <3>4. << >> \in Seq(Shown)
      OBVIOUS
    <3>5. PICK g \in [0 .. m -> Seq(Shown)] : Goes(g, m, << >>, step)
      BY <1>0, <3>2, <3>4, Recursion
    <3> DEFINE h == [i \in 1 .. m |-> g[i]]
    <3>6. ASSUME NEW i \in 1 .. m
          PROVE  h[i] = IF i = 1 THEN q[i] ELSE h[i - 1] \o q[i]
      <4>1. i - 1 \in 0 .. m /\ (i # 1 => i - 1 \in 1 .. m)
        BY <1>0
      <4>2. g[i - 1] \in Seq(Shown)
        BY <4>1
      <4>3. g[i] = step[<<i, g[i - 1]>>]
        BY <3>5 DEF Goes
      <4>4. g[i] = IF i = 1 THEN q[1] ELSE g[i - 1] \o q[i]
        BY <3>3, <4>2, <4>3
      <4>5. h[i] = g[i] /\ (i # 1 => h[i - 1] = g[i - 1])
        BY <4>1
      <4> HIDE DEF h
      <4> QED
        BY <4>4, <4>5, Zenon
    <3>7. F(h)
      BY <1>0, <3>6
    <3> QED
      BY <3>7
  <2>2. F(f)
    BY <2>1, Zenon DEF f
  <2>3. \A i \in 1 .. m : f[i] = IF i = 1 THEN q[i] ELSE f[i - 1] \o q[i]
    BY <1>0, <2>2
  <2> DEFINE S == Subtitles!Sums(x)
             T == {k \in 0 .. m : k = 0 \/ (f[k] \in Seq(Shown) /\ Subtitles!Chars(f[k]) = S[k])}
  <2>4. /\ S[0] = 0 /\ \A i \in 1 .. m : S[i] = S[i - 1] + x[i]
        /\ Subtitles!Total(x) = S[m]
    BY SumsAre, TotalIs
  <2> HIDE DEF S
  <2>5. ASSUME NEW k \in 0 .. m, k \in T, k < m
        PROVE  k + 1 \in T
    <3>1. k + 1 \in 0 .. m /\ k + 1 \in 1 .. m /\ (k + 1) - 1 = k
      BY <1>0, <2>5
    <3>2. /\ q[k + 1] \in Seq(Shown) /\ Subtitles!Chars(q[k + 1]) = x[k + 1]
          /\ x[k + 1] \in Nat /\ S[k + 1] = S[k] + x[k + 1]
      <4>1. S[k + 1] = S[(k + 1) - 1] + x[k + 1]
        BY <2>4, <3>1, Zenon
      <4>2. Subtitles!Chars(q[k + 1]) = x[k + 1]
        BY <3>1 DEF HaveChars
      <4>3. q[k + 1] \in Seq(Shown) /\ x[k + 1] \in Nat
        BY <3>1
      <4> QED
        BY <3>1, <4>1, <4>2, <4>3
    <3>3. CASE k = 0
      <4>1. f[k + 1] = q[k + 1] /\ S[k + 1] = x[k + 1]
        BY <2>3, <2>4, <3>1, <3>2, <3>3
      <4> QED
        BY <3>1, <3>2, <4>1
    <3>4. CASE k # 0
      <4>1. f[k + 1] = f[k] \o q[k + 1]
        <5>1. k + 1 # 1
          BY <3>4
        <5> QED
          BY <2>3, <3>1, <5>1
      <4>2. f[k] \in Seq(Shown) /\ Subtitles!Chars(f[k]) = S[k]
        BY <2>5, <3>4
      <4>3. /\ f[k] \o q[k + 1] \in Seq(Shown)
            /\ Subtitles!Chars(f[k] \o q[k + 1]) = Subtitles!Chars(f[k]) + Subtitles!Chars(q[k + 1])
        BY <3>2, <4>2, ShownGoOn
      <4> QED
        BY <3>1, <3>2, <4>1, <4>2, <4>3
    <3> QED
      BY <3>3, <3>4
  <2>6. Inductive(T, m)
    <3>1. 0 \in T
      BY <1>0
    <3> QED
      BY <2>5, <3>1 DEF Inductive
  <2> HIDE DEF T
  <2>7. m \in T
    BY <1>0, <2>6, CountsOn
  <2> QED
    BY <1>0, <1>1, <1>3, <2>4, <2>7 DEF T
<1> QED
  BY <1>2, <1>3

\* A part of a long cue.
LEMMA PartIs ==
  ASSUME NEW cue \in Timed, NEW p \in Seq(Nat), NEW i \in 1 .. Len(p)
  PROVE  Subtitles!Part(cue, p, i) \in Shown /\ Subtitles!Part(cue, p, i).text = p[i]
<1> DEFINE m == Len(p)
           Share(j) == (Subtitles!Max2(cue.end - cue.start, 0) * p[j]) \div Subtitles!Max2(cue.text, 1)
           F(f) == f = [j \in 1 .. Len(p) |->
                          IF j = 1 THEN cue.start
                          ELSE Subtitles!Min2(f[j - 1] + Share(j - 1), cue.end)]
           f == CHOOSE g : F(g)
           end == IF i = Len(p) THEN cue.end ELSE f[i + 1]
<1>1. Subtitles!Part(cue, p, i) =
        [start |-> f[i], end |-> Subtitles!Max2(end, f[i] + 1), text |-> p[i]]
  BY Zenon DEF Subtitles!Part
<1> HIDE DEF f
<1>0. m \in Nat /\ cue.start \in Nat /\ cue.end \in Nat /\ cue.text \in Nat /\ \A j \in 1 .. m : p[j] \in Nat
  <2>1. m \in Nat
    BY LenProperties
  <2> QED
    BY <2>1 DEF Timed
<1>2. \A j \in 1 .. m : Share(j) \in Nat
  <2> SUFFICES ASSUME NEW j \in 1 .. m
               PROVE  Share(j) \in Nat
    OBVIOUS
  <2> DEFINE a == Subtitles!Max2(cue.end - cue.start, 0)
             b == Subtitles!Max2(cue.text, 1)
  <2>1. a \in Nat /\ b \in Nat \ {0} /\ p[j] \in Nat
    <3>1. a \in Nat
      BY <1>0 DEF Subtitles!Max2
    <3>2. b \in Nat \ {0}
      BY <1>0 DEF Subtitles!Max2
    <3> HIDE DEF a, b
    <3> QED
      BY <1>0, <3>1, <3>2
  <2> HIDE DEF a, b
  <2>2. a * p[j] \in Nat
    BY <2>1
  <2>3. (a * p[j]) \div b \in Nat
    BY <2>1, <2>2, DivIs
  <2> QED
    BY <2>3 DEF a, b
<1> HIDE DEF Share
<1>3. \A s, x, e \in Nat : Subtitles!Min2(s + x, e) \in Nat
  BY DEF Subtitles!Min2
<1>4. \E g : F(g)
  <2> DEFINE step == [y \in (1 .. m) \X Nat |->
                        IF y[1] = 1 THEN cue.start ELSE Subtitles!Min2(y[2] + Share(y[1] - 1), cue.end)]
  <2>1. \A j \in 1 .. m : j # 1 => j - 1 \in 1 .. m
    BY <1>0
  <2>2. step \in [(1 .. m) \X Nat -> Nat]
    <3> SUFFICES ASSUME NEW j \in 1 .. m, NEW s \in Nat
                 PROVE  (IF j = 1 THEN cue.start ELSE Subtitles!Min2(s + Share(j - 1), cue.end)) \in Nat
      OBVIOUS
    <3> QED
      BY <1>0, <1>2, <1>3, <2>1
  <2>3. \A j \in 1 .. m, s \in Nat :
          step[<<j, s>>] = IF j = 1 THEN cue.start ELSE Subtitles!Min2(s + Share(j - 1), cue.end)
    OBVIOUS
  <2> HIDE DEF step
  <2>4. PICK g \in [0 .. m -> Nat] : Goes(g, m, 0, step)
    <3>1. 0 \in Nat
      OBVIOUS
    <3> QED
      BY <1>0, <2>2, <3>1, Recursion
  <2> DEFINE h == [j \in 1 .. m |-> g[j]]
  <2>5. ASSUME NEW j \in 1 .. m
        PROVE  h[j] = IF j = 1 THEN cue.start ELSE Subtitles!Min2(h[j - 1] + Share(j - 1), cue.end)
    <3>1. j - 1 \in 0 .. m /\ (j # 1 => j - 1 \in 1 .. m)
      BY <1>0
    <3>2. g[j - 1] \in Nat /\ g[j] = step[<<j, g[j - 1]>>]
      BY <2>4, <3>1 DEF Goes
    <3>3. h[j] = g[j] /\ (j # 1 => h[j - 1] = g[j - 1])
      BY <3>1
    <3> HIDE DEF h
    <3> QED
      BY <2>3, <3>2, <3>3, Zenon
  <2>6. F(h)
    BY <2>5
  <2> QED
    BY <2>6
<1>5. F(f)
  BY <1>4, Zenon DEF f
<1>6. \A j \in 1 .. m : f[j] = IF j = 1 THEN cue.start ELSE Subtitles!Min2(f[j - 1] + Share(j - 1), cue.end)
  BY <1>5
<1>7. \A j \in 0 .. m : j = 0 \/ f[j] \in Nat
  <2> DEFINE T == {j \in 0 .. m : j = 0 \/ f[j] \in Nat}
  <2>1. ASSUME NEW k \in 0 .. m, k \in T, k < m
        PROVE  k + 1 \in T
    <3>1. k + 1 \in 0 .. m /\ k + 1 \in 1 .. m /\ (k + 1) - 1 = k /\ (k = 0 <=> k + 1 = 1)
          /\ (k # 0 => k \in 1 .. m)
      BY <1>0, <2>1
    <3>2. f[k + 1] = IF k + 1 = 1 THEN cue.start ELSE Subtitles!Min2(f[(k + 1) - 1] + Share((k + 1) - 1), cue.end)
      BY <1>6, <3>1, Zenon
    <3>3. f[k + 1] = IF k = 0 THEN cue.start ELSE Subtitles!Min2(f[k] + Share(k), cue.end)
      BY <3>1, <3>2, Zenon
    <3>4. k # 0 => f[k] \in Nat /\ Share(k) \in Nat
      BY <1>2, <2>1, <3>1
    <3>5. f[k + 1] \in Nat
      <4>1. CASE k = 0
        BY <1>0, <3>3, <4>1, Zenon
      <4>2. CASE k # 0
        <5>1. Subtitles!Min2(f[k] + Share(k), cue.end) \in Nat
          BY <1>0, <1>3, <3>4, <4>2, Zenon
        <5> QED
          BY <3>3, <4>2, <5>1, Zenon
      <4> QED
        BY <4>1, <4>2
    <3> QED
      BY <3>1, <3>5
  <2>2. Inductive(T, m)
    <3>1. 0 \in T
      BY <1>0
    <3> QED
      BY <2>1, <3>1 DEF Inductive
  <2> HIDE DEF T
  <2>3. \A j \in 0 .. m : j \in T
    BY <1>0, <2>2, CountsOn
  <2> QED
    BY <2>3 DEF T
<1>8. f[i] \in Nat /\ end \in Nat
  <2>1. i \in 0 .. m /\ i # 0 /\ (i # m => i + 1 \in 0 .. m /\ i + 1 # 0)
    BY <1>0
  <2> QED
    BY <1>0, <1>7, <2>1
<1> HIDE DEF end
<1>9. Subtitles!Max2(end, f[i] + 1) \in Nat /\ f[i] < Subtitles!Max2(end, f[i] + 1)
  BY <1>8 DEF Subtitles!Max2
<1> QED
  BY <1>0, <1>1, <1>8, <1>9 DEF Shown, Timed

\* A long cue's parts have its text.
LEMMA SplitIs ==
  ASSUME NEW cue \in Shown, NEW split \in Subtitles!Splits(cue)
  PROVE  split \in Seq(Shown) /\ Subtitles!Chars(split) = cue.text
<1>0. cue \in Timed
  BY DEF Shown
<1>1. CASE split = <<cue>>
  BY <1>0, <1>1, CharsOfOne
<1>2. ASSUME NEW p \in Subtitles!Pieces(cue.text), split = [i \in 1 .. Len(p) |-> Subtitles!Part(cue, p, i)]
      PROVE  split \in Seq(Shown) /\ Subtitles!Chars(split) = cue.text
  <2>1. PICK m \in 0 .. cue.text : p \in [1 .. m -> 1 .. BUDGET]
    BY DEF Subtitles!Pieces, Subtitles!SeqOf
  <2>2. m \in Nat
    BY <1>0, <2>1 DEF Timed
  <2>3. p \in Seq(Nat) /\ Len(p) = m
    BY <2>1, <2>2
  <2>4. Subtitles!Total(p) = cue.text
    BY DEF Subtitles!Pieces
  <2>5. \A i \in 1 .. m : Subtitles!Part(cue, p, i) \in Shown /\ Subtitles!Part(cue, p, i).text = p[i]
    BY <1>0, <2>3, PartIs
  <2>6. split \in Seq(Shown) /\ Len(split) = m /\ \A i \in 1 .. m : split[i].text = p[i]
    BY <1>2, <2>2, <2>3, <2>5
  <2>7. Subtitles!TextsOf(split) = p
    <3>1. split \in Seq(Timed)
      <4>1. Shown \subseteq Timed
        BY DEF Shown
      <4> QED
        BY <2>6, <4>1, SeqMonotonic
    <3>2. /\ Subtitles!TextsOf(split) \in Seq(Nat) /\ Len(Subtitles!TextsOf(split)) = m
          /\ \A i \in 1 .. m : Subtitles!TextsOf(split)[i] = p[i]
      BY <2>6, <3>1, TextsAre
    <3> QED
      BY <2>3, <3>2, SeqEqual
  <2> QED
    BY <2>4, <2>6, <2>7 DEF Subtitles!Chars
<1> QED
  BY <1>1, <1>2 DEF Subtitles!Splits

LEMMA PlacedIs ==
  ASSUME Subtitles!CuesAssumption, NEW offset \in Nat, NEW segment \in Timed
  PROVE  /\ Subtitles!Placed(offset, segment) \in Shown
         /\ Subtitles!Placed(offset, segment).text = segment.text
<1>1. segment.start \in Nat /\ segment.end \in Nat /\ segment.text \in Nat /\ MIN_CUE_MS \in Nat \ {0}
  BY DEF Timed, Subtitles!CuesAssumption
<1> DEFINE e == Subtitles!Max2(segment.end, segment.start + MIN_CUE_MS)
<1>2. e \in Nat /\ segment.start < e
  BY <1>1 DEF Subtitles!Max2
<1> HIDE DEF e
<1>3. /\ offset + segment.start \in Nat /\ offset + e \in Nat
      /\ offset + segment.start < offset + e
  BY <1>1, <1>2
<1>4. Subtitles!Placed(offset, segment) =
        [start |-> offset + segment.start, end |-> offset + e, text |-> segment.text]
  BY Zenon DEF Subtitles!Placed, e
<1> QED
  BY <1>1, <1>3, <1>4 DEF Shown, Timed

LEMMA FallbackIs ==
  ASSUME Subtitles!CuesAssumption, NEW offset \in Nat, NEW text \in Nat
  PROVE  Subtitles!Fallback(offset, text) \in Shown /\ Subtitles!Fallback(offset, text).text = text
<1>1. MIN_CUE_MS \in Nat \ {0} /\ WindowMs \in Nat
  BY DEF Subtitles!CuesAssumption
<1> DEFINE e == Subtitles!Max2(WindowMs, MIN_CUE_MS)
<1>2. e \in Nat /\ 0 < e
  BY <1>1 DEF Subtitles!Max2
<1> HIDE DEF e
<1>3. offset + e \in Nat /\ offset < offset + e
  BY <1>2
<1>4. Subtitles!Fallback(offset, text) = [start |-> offset, end |-> offset + e, text |-> text]
  BY Zenon DEF Subtitles!Fallback, e
<1> QED
  BY <1>3, <1>4 DEF Shown, Timed

\* The cues of a segment have its text.
LEMMA CuesOfIs ==
  ASSUME Subtitles!CuesAssumption, NEW offset \in Nat, NEW segment \in Timed,
         NEW split \in Subtitles!CuesOf(offset, segment)
  PROVE  split \in Seq(Shown) /\ Subtitles!Chars(split) = segment.text
<1>1. CASE segment.text = 0 /\ split = << >>
  BY <1>1, CharsOfNone
<1>2. CASE split \in Subtitles!Splits(Subtitles!Placed(offset, segment))
  <2>1. /\ Subtitles!Placed(offset, segment) \in Shown
        /\ Subtitles!Placed(offset, segment).text = segment.text
    BY PlacedIs
  <2> QED
    BY <1>2, <2>1, SplitIs
<1> QED
  BY <1>1, <1>2 DEF Subtitles!CuesOf

\* Cues in the order of their starts.
Ordered(s) == \A i, j \in 1 .. Len(s) : i < j => s[i].start <= s[j].start

\* Where a cue goes: behind those that start no later, before those that start
\* no earlier.
LEMMA PlaceIs ==
  ASSUME NEW s \in Seq(Shown), NEW c \in Shown, Ordered(s)
  PROVE  /\ Subtitles!Place(s, c) \in 1 .. Len(s) + 1
         /\ \A j \in 1 .. Len(s) : j < Subtitles!Place(s, c) => s[j].start <= c.start
         /\ \A j \in 1 .. Len(s) : Subtitles!Place(s, c) <= j => c.start <= s[j].start
<1> DEFINE n == Len(s)
           S == {i \in 1 .. n + 1 : i = n + 1 \/ Subtitles!Before(c, s[i])}
           p == Subtitles!Min(S)
<1>0. n \in Nat
  BY LenProperties
<1>1. Subtitles!Place(s, c) = p
  BY DEF Subtitles!Place
<1>2. S \subseteq Nat /\ n + 1 \in S
  BY <1>0
<1>3. \E m \in S : \A k \in S : m <= k
  <2> HIDE DEF S
  <2> QED
    BY <1>2, LeastNumber
<1>4. p \in S /\ \A k \in S : p <= k
  <2> HIDE DEF S
  <2> QED
    BY <1>3, Zenon DEF Subtitles!Min
<1> HIDE DEF p
<1>5. p \in 1 .. n + 1 /\ (p = n + 1 \/ Subtitles!Before(c, s[p]))
  BY <1>4
<1>6. \A j \in 1 .. n : s[j].start \in Nat /\ s[j].end \in Nat
  <2>1. \A j \in 1 .. n : s[j] \in Shown
    BY ElementOfSeq
  <2> QED
    BY <2>1 DEF Shown, Timed
<1>7. c.start \in Nat /\ c.end \in Nat
  BY DEF Shown, Timed
<1>8. ASSUME NEW j \in 1 .. n, j < p
      PROVE  s[j].start <= c.start
  <2>1. j \in 1 .. n + 1 /\ ~(p <= j) /\ j # n + 1
    BY <1>0, <1>5, <1>8
  <2>2. j \notin S
    BY <1>4, <2>1, Zenon
  <2>3. ~Subtitles!Before(c, s[j])
    BY <2>1, <2>2
  <2> QED
    BY <1>6, <1>7, <2>3 DEF Subtitles!Before
<1>9. ASSUME NEW j \in 1 .. n, p <= j
      PROVE  c.start <= s[j].start
  <2>1. p \in 1 .. n /\ p # n + 1 /\ (p < j \/ p = j)
    BY <1>0, <1>5, <1>9
  <2>2. c.start <= s[p].start
    <3>1. Subtitles!Before(c, s[p])
      BY <1>5, <2>1
    <3>2. s[p].start \in Nat
      BY <1>6, <2>1
    <3> QED
      BY <1>7, <3>1, <3>2 DEF Subtitles!Before
  <2>3. s[p].start <= s[j].start
    <3>1. CASE p < j
      BY <2>1, <3>1 DEF Ordered
    <3>2. CASE p = j
      BY <1>6, <3>2
    <3> QED
      BY <2>1, <3>1, <3>2
  <2>4. s[p].start \in Nat /\ s[j].start \in Nat
    BY <1>6, <2>1
  <2> QED
    BY ONLY <1>7, <2>2, <2>3, <2>4
<1> QED
  BY <1>1, <1>5, <1>8, <1>9

\* One more cue at its place.
LEMMA InsertStays ==
  ASSUME NEW s \in Seq(Shown), NEW c \in Shown, Ordered(s)
  PROVE  LET t == Subtitles!InsertAt(s, Subtitles!Place(s, c), c)
         IN /\ t \in Seq(Shown) /\ Ordered(t)
            /\ Subtitles!Chars(t) = Subtitles!Chars(s) + c.text
<1> DEFINE n == Len(s)
           p == Subtitles!Place(s, c)
           a == SubSeq(s, 1, p - 1)
           b == SubSeq(s, p, Len(s))
           o == <<c>>
           t == (a \o o) \o b
<1>0. n \in Nat /\ \A j \in 1 .. n : s[j] \in Shown
  BY LenProperties, ElementOfSeq
<1>1. /\ p \in 1 .. n + 1
      /\ \A j \in 1 .. n : j < p => s[j].start <= c.start
      /\ \A j \in 1 .. n : p <= j => c.start <= s[j].start
  BY PlaceIs
<1>2. Subtitles!InsertAt(s, p, c) = t
  BY Zenon DEF Subtitles!InsertAt
<1> HIDE DEF p
<1>3. p \in Int /\ p - 1 \in Int /\ n \in Int
  BY <1>0, <1>1
<1>4. a \in Seq(Shown) /\ Len(a) = p - 1 /\ \A i \in 1 .. p - 1 : a[i] = s[i]
  <2>1. \A i \in 1 .. p - 1 : s[i] \in Shown
    BY <1>0, <1>1
  <2>2. /\ a \in Seq(Shown)
        /\ Len(a) = IF 1 <= p - 1 THEN (p - 1) - 1 + 1 ELSE 0
        /\ \A i \in 1 .. (p - 1) - 1 + 1 : a[i] = s[1 + i - 1]
    BY <1>3, <2>1, SubSeqProperties
  <2> HIDE DEF a
  <2>3. (IF 1 <= p - 1 THEN (p - 1) - 1 + 1 ELSE 0) = p - 1 /\ (p - 1) - 1 + 1 = p - 1
    BY <1>0, <1>1
  <2>4. \A i \in 1 .. p - 1 : 1 + i - 1 = i
    BY <1>3
  <2> QED
    BY <2>2, <2>3, <2>4
<1>5. b \in Seq(Shown) /\ Len(b) = n + 1 - p /\ \A i \in 1 .. n + 1 - p : b[i] = s[p + i - 1]
  <2>1. \A i \in p .. n : s[i] \in Shown
    BY <1>0, <1>1
  <2>2. /\ b \in Seq(Shown)
        /\ Len(b) = IF p <= n THEN n - p + 1 ELSE 0
        /\ \A i \in 1 .. n - p + 1 : b[i] = s[p + i - 1]
    BY <1>3, <2>1, SubSeqProperties
  <2> HIDE DEF b
  <2>3. (IF p <= n THEN n - p + 1 ELSE 0) = n + 1 - p /\ n - p + 1 = n + 1 - p
    BY <1>0, <1>1
  <2> QED
    BY <2>2, <2>3
<1>6. a \o b = s
  <2>1. a \o b \in Seq(Shown) /\ Len(a \o b) = Len(a) + Len(b)
        /\ \A i \in 1 .. Len(a) + Len(b) : (a \o b)[i] = IF i <= Len(a) THEN a[i] ELSE b[i - Len(a)]
    BY <1>4, <1>5, ConcatProperties
  <2> DEFINE u == a \o b
  <2> HIDE DEF u, a, b
  <2>2. u \in Seq(Shown) /\ Len(u) = (p - 1) + (n + 1 - p)
        /\ \A i \in 1 .. (p - 1) + (n + 1 - p) : u[i] = IF i <= p - 1 THEN a[i] ELSE b[i - (p - 1)]
    BY <1>4, <1>5, <2>1 DEF u
  <2>3. (p - 1) + (n + 1 - p) = n
    BY <1>0, <1>1
  <2>4. ASSUME NEW i \in 1 .. n
        PROVE  u[i] = s[i]
    <3>1. CASE i <= p - 1
      <4>1. i \in 1 .. p - 1
        BY <1>3, <3>1
      <4> QED
        BY <1>4, <2>2, <2>3, <3>1, <4>1
    <3>2. CASE ~(i <= p - 1)
      <4>1. i - (p - 1) \in 1 .. n + 1 - p /\ p + (i - (p - 1)) - 1 = i
        BY <1>0, <1>1, <3>2
      <4> QED
        BY <1>5, <2>2, <2>3, <3>2, <4>1
    <3> QED
      BY <3>1, <3>2
  <2>5. u = s
    BY <2>2, <2>3, <2>4, SeqEqual
  <2> QED
    BY <2>5 DEF u
<1>7. o \in Seq(Shown) /\ Len(o) = 1 /\ o[1] = c
  OBVIOUS
<1>8. Subtitles!Chars(o) = c.text /\ c.text \in Nat
  BY CharsOfOne DEF Shown, Timed
<1> DEFINE v == a \o o
<1>9. /\ v \in Seq(Shown) /\ Len(v) = p /\ v[p] = c /\ \A i \in 1 .. p - 1 : v[i] = s[i]
      /\ Subtitles!Chars(v) = Subtitles!Chars(a) + Subtitles!Chars(o)
  <2>1. v \in Seq(Shown) /\ Len(v) = Len(a) + Len(o)
        /\ \A i \in 1 .. Len(a) + Len(o) : v[i] = IF i <= Len(a) THEN a[i] ELSE o[i - Len(a)]
    BY <1>4, <1>7, ConcatProperties
  <2>2. Subtitles!Chars(v) = Subtitles!Chars(a) + Subtitles!Chars(o)
    BY <1>4, <1>7, ShownGoOn
  <2> HIDE DEF v, a, b, o
  <2>3. (p - 1) + 1 = p /\ p \in 1 .. p /\ ~(p <= p - 1) /\ p - (p - 1) = 1
        /\ \A i \in 1 .. p - 1 : i \in 1 .. p /\ i <= p - 1
    BY <1>0, <1>1
  <2>4. v \in Seq(Shown) /\ Len(v) = p
        /\ \A i \in 1 .. p : v[i] = IF i <= p - 1 THEN a[i] ELSE o[i - (p - 1)]
    BY <1>4, <1>7, <2>1, <2>3, Zenon
  <2>5. v[p] = c
    BY <1>7, <2>3, <2>4, Zenon
  <2>6. \A i \in 1 .. p - 1 : v[i] = s[i]
    BY <1>4, <2>3, <2>4, Zenon
  <2> QED
    BY <2>2, <2>4, <2>5, <2>6
<1>10. /\ t \in Seq(Shown) /\ Len(t) = n + 1
       /\ \A i \in 1 .. n + 1 : t[i] = IF i <= p THEN v[i] ELSE b[i - p]
       /\ Subtitles!Chars(t) = Subtitles!Chars(v) + Subtitles!Chars(b)
  <2>1. t = v \o b
    OBVIOUS
  <2> HIDE DEF v, t, b
  <2>2. v \o b \in Seq(Shown) /\ Len(v \o b) = Len(v) + Len(b)
        /\ \A i \in 1 .. Len(v) + Len(b) : (v \o b)[i] = IF i <= Len(v) THEN v[i] ELSE b[i - Len(v)]
    BY <1>5, <1>9, ConcatProperties
  <2>3. Subtitles!Chars(v \o b) = Subtitles!Chars(v) + Subtitles!Chars(b)
    BY <1>5, <1>9, ShownGoOn
  <2>4. p + (n + 1 - p) = n + 1
    BY <1>0, <1>1
  <2> QED
    BY <1>5, <1>9, <2>1, <2>2, <2>3, <2>4
<1>11. /\ Subtitles!Chars(s) = Subtitles!Chars(a) + Subtitles!Chars(b)
       /\ Subtitles!Chars(a) \in Nat /\ Subtitles!Chars(b) \in Nat
  <2>1. Subtitles!Chars(a \o b) = Subtitles!Chars(a) + Subtitles!Chars(b)
    BY <1>4, <1>5, ShownGoOn
  <2>2. a \in Seq(Timed) /\ b \in Seq(Timed)
    BY <1>4, <1>5, ShownGoOn
  <2>3. Subtitles!Chars(a) \in Nat /\ Subtitles!Chars(b) \in Nat
    BY <2>2, CharsGoOn
  <2> QED
    BY <1>6, <2>1, <2>3, Zenon
<1> HIDE DEF t, v, a, b, o
<1>12. Subtitles!Chars(t) = Subtitles!Chars(s) + c.text
  BY <1>8, <1>9, <1>10, <1>11
<1>13. ASSUME NEW i \in 1 .. n + 1
       PROVE  \/ i < p /\ i \in 1 .. n /\ t[i] = s[i]
              \/ i = p /\ t[i] = c
              \/ p < i /\ i - 1 \in 1 .. n /\ t[i] = s[i - 1]
  <2>1. CASE i < p
    <3>1. i <= p /\ i \in 1 .. p - 1 /\ i \in 1 .. n
      BY <1>0, <1>1, <2>1
    <3> QED
      BY <1>9, <1>10, <2>1, <3>1
  <2>2. CASE i = p
    BY <1>0, <1>1, <1>9, <1>10, <2>2
  <2>3. CASE p < i
    <3>1. ~(i <= p) /\ i - p \in 1 .. n + 1 - p /\ p + (i - p) - 1 = i - 1 /\ i - 1 \in 1 .. n
      BY <1>0, <1>1, <2>3
    <3>2. t[i] = b[i - p] /\ b[i - p] = s[p + (i - p) - 1]
      BY <1>5, <1>10, <3>1
    <3> QED
      BY <2>3, <3>1, <3>2
  <2> QED
    BY <1>0, <1>1, <2>1, <2>2, <2>3
<1>14. \A j \in 1 .. n : s[j].start \in Nat
  BY <1>0 DEF Shown, Timed
<1>15. c.start \in Nat
  BY DEF Shown, Timed
<1>16. ASSUME NEW i \in 1 .. n + 1, NEW j \in 1 .. n + 1, i < j
       PROVE  t[i].start <= t[j].start
  <2>0. i \in Nat /\ j \in Nat /\ p \in Nat
    BY <1>0, <1>1
  <2>1. CASE j < p
    <3>1. i < p /\ i \in 1 .. n /\ t[i] = s[i]
      BY <1>13, <1>16, <2>0, <2>1
    <3>2. j \in 1 .. n /\ t[j] = s[j]
      BY <1>13, <2>0, <2>1
    <3> QED
      BY <1>16, <3>1, <3>2 DEF Ordered
  <2>2. CASE j = p
    <3>1. i < p /\ i \in 1 .. n /\ t[i] = s[i]
      BY <1>13, <1>16, <2>0, <2>2
    <3>2. t[j] = c
      BY <1>13, <2>0, <2>2
    <3> QED
      BY <1>1, <3>1, <3>2
  <2>3. CASE p < j
    <3>1. j - 1 \in 1 .. n /\ t[j] = s[j - 1] /\ p <= j - 1 /\ j - 1 < j
      BY <1>13, <2>0, <2>3
    <3>2. CASE i = p
      <4>1. t[i] = c
        BY <1>13, <2>0, <3>2
      <4> QED
        BY <1>1, <3>1, <4>1
    <3>3. CASE i < p
      <4>1. i \in 1 .. n /\ t[i] = s[i] /\ i < j - 1
        BY <1>13, <2>0, <3>1, <3>3
      <4> QED
        BY <3>1, <4>1 DEF Ordered
    <3>4. CASE p < i
      <4>1. i - 1 \in 1 .. n /\ t[i] = s[i - 1] /\ i - 1 < j - 1
        BY <1>13, <1>16, <2>0, <3>4
      <4> QED
        BY <3>1, <4>1 DEF Ordered
    <3> QED
      BY <2>0, <3>2, <3>3, <3>4
  <2> QED
    BY <2>0, <2>1, <2>2, <2>3
<1>17. Ordered(t)
  BY <1>10, <1>16 DEF Ordered
<1> QED
  BY <1>2, <1>10, <1>12, <1>17 DEF p

\* All cues in order have all their characters.
LEMMA SortedIs ==
  ASSUME NEW s \in Seq(Shown)
  PROVE  /\ Subtitles!Sorted(s) \in Seq(Shown) /\ Ordered(Subtitles!Sorted(s))
         /\ Subtitles!Chars(Subtitles!Sorted(s)) = Subtitles!Chars(s)
<1> DEFINE m == Len(s)
           In(t, c) == Subtitles!InsertAt(t, Subtitles!Place(t, c), c)
           F(f) == f = [n \in 0 .. Len(s) |-> IF n = 0 THEN << >> ELSE In(f[n - 1], s[n])]
           f == CHOOSE g : F(g)
           O == {t \in Seq(Shown) : Ordered(t)}
           step == [y \in (1 .. m) \X O |-> In(y[2], s[y[1]])]
           S == Subtitles!Sums(Subtitles!TextsOf(s))
<1>0. m \in Nat /\ \A n \in 1 .. m : s[n] \in Shown
  BY LenProperties, ElementOfSeq
<1>1. Subtitles!Sorted(s) = f[m]
  BY Zenon DEF Subtitles!Sorted
<1> HIDE DEF f, m
<1>2. \A t \in O, n \in 1 .. m :
        In(t, s[n]) \in O /\ Subtitles!Chars(In(t, s[n])) = Subtitles!Chars(t) + s[n].text
  <2> SUFFICES ASSUME NEW t \in O, NEW n \in 1 .. m
               PROVE  In(t, s[n]) \in O /\ Subtitles!Chars(In(t, s[n])) = Subtitles!Chars(t) + s[n].text
    OBVIOUS
  <2>1. t \in Seq(Shown) /\ Ordered(t) /\ s[n] \in Shown
    BY <1>0
  <2> DEFINE c == s[n]
  <2> HIDE DEF c
  <2>2. c \in Shown /\ c = s[n]
    BY <2>1 DEF c
  <2>3. /\ In(t, c) \in Seq(Shown) /\ Ordered(In(t, c))
        /\ Subtitles!Chars(In(t, c)) = Subtitles!Chars(t) + c.text
    BY <2>1, <2>2, InsertStays
  <2> QED
    BY <2>2, <2>3
<1> HIDE DEF In
<1>3. << >> \in O
  BY DEF Ordered
<1>4. \E g : F(g)
  <2>1. step \in [(1 .. m) \X O -> O]
    BY <1>2
  <2>2. \A n \in 1 .. m, t \in O : step[<<n, t>>] = In(t, s[n])
    OBVIOUS
  <2> HIDE DEF step, O
  <2>3. PICK g \in [0 .. m -> O] : Goes(g, m, << >>, step)
    BY <1>0, <1>3, <2>1, Recursion
  <2>4. ASSUME NEW n \in 0 .. m
        PROVE  g[n] = IF n = 0 THEN << >> ELSE In(g[n - 1], s[n])
    <3>1. CASE n = 0
      BY <2>3, <3>1 DEF Goes
    <3>2. CASE n # 0
      <4>1. n \in 1 .. m /\ n - 1 \in 0 .. m
        BY <3>2, <1>0
      <4>2. g[n - 1] \in O /\ g[n] = step[<<n, g[n - 1]>>]
        BY <2>3, <4>1 DEF Goes
      <4> QED
        BY <2>2, <3>2, <4>1, <4>2
    <3> QED
      BY <3>1, <3>2
  <2>5. F(g)
    BY <2>4 DEF m
  <2> QED
    BY <2>5
<1>5. F(f)
  BY <1>4, Zenon DEF f
<1>6. f[0] = << >> /\ \A n \in 1 .. m : f[n] = In(f[n - 1], s[n])
  BY <1>0, <1>5 DEF m
<1>7. s \in Seq(Timed)
  BY ShownGoOn
<1>8. /\ S[0] = 0 /\ \A n \in 1 .. m : S[n] = S[n - 1] + s[n].text
      /\ Subtitles!Chars(s) = S[m]
  <2>1. /\ Subtitles!TextsOf(s) \in Seq(Nat) /\ Len(Subtitles!TextsOf(s)) = m
        /\ \A n \in 1 .. m : Subtitles!TextsOf(s)[n] = s[n].text
    BY <1>7, TextsAre DEF m
  <2> DEFINE x == Subtitles!TextsOf(s)
  <2> HIDE DEF x
  <2>2. x \in Seq(Nat) /\ Len(x) = m /\ \A n \in 1 .. m : x[n] = s[n].text
    BY <2>1 DEF x
  <2>3. /\ Subtitles!Sums(x)[0] = 0
        /\ \A n \in 1 .. m : Subtitles!Sums(x)[n] = Subtitles!Sums(x)[n - 1] + x[n]
        /\ Subtitles!Total(x) = Subtitles!Sums(x)[m]
    BY <2>2, SumsAre, TotalIs
  <2>4. S = Subtitles!Sums(x) /\ Subtitles!Chars(s) = Subtitles!Total(x)
    BY Zenon DEF x, Subtitles!Chars
  <2> HIDE DEF S
  <2> QED
    BY <2>2, <2>3, <2>4
<1> HIDE DEF S
<1> DEFINE T == {n \in 0 .. m : f[n] \in O /\ Subtitles!Chars(f[n]) = S[n]}
<1>9. ASSUME NEW k \in 0 .. m, k \in T, k < m
      PROVE  k + 1 \in T
  <2>1. k + 1 \in 0 .. m /\ k + 1 \in 1 .. m /\ (k + 1) - 1 = k
    BY <1>0, <1>9
  <2>2. f[k] \in O /\ Subtitles!Chars(f[k]) = S[k]
    BY <1>9
  <2>3. f[k + 1] = In(f[k], s[k + 1]) /\ S[k + 1] = S[k] + s[k + 1].text
    BY <1>6, <1>8, <2>1
  <2> HIDE DEF O
  <2>4. In(f[k], s[k + 1]) \in O
        /\ Subtitles!Chars(In(f[k], s[k + 1])) = Subtitles!Chars(f[k]) + s[k + 1].text
    BY <1>2, <2>1, <2>2
  <2> QED
    BY <2>1, <2>2, <2>3, <2>4
<1>10. Inductive(T, m)
  <2>1. 0 \in T
    <3>1. 0 \in 0 .. m
      BY <1>0
    <3>2. f[0] \in O
      BY <1>3, <1>6, Zenon
    <3>3. Subtitles!Chars(f[0]) = S[0]
      BY <1>6, <1>8, CharsOfNone, Zenon
    <3> QED
      BY <3>1, <3>2, <3>3
  <2> QED
    BY <1>9, <2>1 DEF Inductive
<1> HIDE DEF T
<1>11. m \in T
  <2>1. \A k \in 0 .. m : k \in T
    BY <1>0, <1>10, CountsOn
  <2>2. m \in 0 .. m
    BY <1>0
  <2> QED
    BY <2>1, <2>2
<1> QED
  BY <1>1, <1>8, <1>11 DEF T

\* Where a cue ends that would end less than a gap before the next one.
LEMMA EndsBefore ==
  ASSUME NEW start \in Nat, NEW next \in Nat, NEW gap \in Nat, NEW least \in Nat, start <= next
  PROVE  LET e == Subtitles!Max2(Subtitles!Max2(next - gap, 0), start + 1)
         IN /\ e \in Nat /\ start < e
            /\ e <= next \/ (next = start /\ e = start + 1)
            /\ e - start < least => next < start + least + gap
<1> DEFINE b == Subtitles!Max2(next - gap, 0)
           e == Subtitles!Max2(b, start + 1)
<1>1. b \in Nat /\ next - gap <= b /\ (b = 0 \/ b = next - gap)
  BY DEF Subtitles!Max2
<1> HIDE DEF b
<1>2. e \in Nat /\ b <= e /\ start + 1 <= e /\ (e = b \/ e = start + 1)
  BY <1>1 DEF Subtitles!Max2
<1> HIDE DEF e
<1>3. e \in Nat /\ start < e /\ (e <= next \/ (next = start /\ e = start + 1))
  BY <1>1, <1>2
<1>4. e - start < least => next < start + least + gap
  BY <1>1, <1>2
<1> QED
  BY <1>3, <1>4 DEF e, b

\* The end of a cue, as the next one allows.
LEMMA ApartIs ==
  ASSUME Subtitles!CuesAssumption, NEW s \in Seq(Shown), Ordered(s), NEW i \in 1 .. Len(s)
  PROVE  LET c == Subtitles!Apart(s)[i]
         IN /\ c \in Shown /\ c.start = s[i].start /\ c.text = s[i].text
            /\ i < Len(s) => \/ c.end <= s[i + 1].start
                             \/ s[i + 1].start = c.start /\ c.end = c.start + 1
            /\ c.end - c.start < MIN_CUE_MS =>
                 i < Len(s) /\ s[i + 1].start < c.start + MIN_CUE_MS + CUE_GAP_MS
<1> DEFINE n == Len(s)
           start == s[i].start
           end == Subtitles!Max2(s[i].end, s[i].start + MIN_CUE_MS)
           next == s[i + 1].start
           e == Subtitles!Max2(Subtitles!Max2(next - CUE_GAP_MS, 0), s[i].start + 1)
           near == i < Len(s) /\ end + CUE_GAP_MS > next
           c == Subtitles!Apart(s)[i]
           Kept(x) == /\ x \in Shown /\ x.start = start /\ x.text = s[i].text
                      /\ i < n => x.end <= next \/ (next = x.start /\ x.end = x.start + 1)
                      /\ x.end - x.start < MIN_CUE_MS =>
                           i < n /\ next < x.start + MIN_CUE_MS + CUE_GAP_MS
<1>0. n \in Nat /\ s[i] \in Shown /\ MIN_CUE_MS \in Nat \ {0} /\ CUE_GAP_MS \in Nat
  BY LenProperties, ElementOfSeq DEF Subtitles!CuesAssumption
<1>1. start \in Nat /\ s[i].end \in Nat /\ s[i].text \in Nat /\ s[i] = [start |-> start, end |-> s[i].end, text |-> s[i].text]
  BY <1>0 DEF Shown, Timed
<1>2. c = [s[i] EXCEPT !.end = IF near THEN e ELSE end]
  BY Zenon DEF Subtitles!Apart
<1> HIDE DEF c
<1>3. end \in Nat /\ start + MIN_CUE_MS <= end
  BY <1>0, <1>1 DEF Subtitles!Max2
<1>4. i < n => next \in Nat /\ start <= next
  <2> SUFFICES ASSUME i < n
               PROVE  next \in Nat /\ start <= next
    OBVIOUS
  <2>1. i + 1 \in 1 .. n /\ i < i + 1
    BY <1>0
  <2>2. s[i + 1] \in Shown
    BY <2>1, ElementOfSeq
  <2> QED
    BY <2>1, <2>2 DEF Ordered, Shown, Timed
<1>5. near => i < n /\ end + CUE_GAP_MS > next
  OBVIOUS
<1>6. ~near => (i < n => ~(end + CUE_GAP_MS > next))
  OBVIOUS
<1>7. near => /\ e \in Nat /\ start < e
              /\ e <= next \/ (next = start /\ e = start + 1)
              /\ e - start < MIN_CUE_MS => next < start + MIN_CUE_MS + CUE_GAP_MS
  <2> SUFFICES ASSUME near
               PROVE  /\ e \in Nat /\ start < e
                      /\ e <= next \/ (next = start /\ e = start + 1)
                      /\ e - start < MIN_CUE_MS => next < start + MIN_CUE_MS + CUE_GAP_MS
    OBVIOUS
  <2>1. start \in Nat /\ next \in Nat /\ CUE_GAP_MS \in Nat /\ MIN_CUE_MS \in Nat /\ start <= next
    BY <1>0, <1>1, <1>4, <1>5
  <2> HIDE DEF start, next
  <2>2. LET x == Subtitles!Max2(Subtitles!Max2(next - CUE_GAP_MS, 0), start + 1)
        IN /\ x \in Nat /\ start < x
           /\ x <= next \/ (next = start /\ x = start + 1)
           /\ x - start < MIN_CUE_MS => next < start + MIN_CUE_MS + CUE_GAP_MS
    BY <2>1, EndsBefore
  <2> QED
    BY <2>2 DEF start
<1>8. near \in BOOLEAN
  OBVIOUS
<1>9. \A x \in Nat : /\ [s[i] EXCEPT !.end = x].start = start
                     /\ [s[i] EXCEPT !.end = x].end = x
                     /\ [s[i] EXCEPT !.end = x].text = s[i].text
                     /\ [s[i] EXCEPT !.end = x] \in Timed
  BY <1>0, <1>1 DEF Timed, Shown
<1> HIDE DEF e, near, end
<1>10. ASSUME near PROVE Kept(c)
  <2>1. c = [s[i] EXCEPT !.end = e]
    BY <1>2, <1>10
  <2>2. c.start = start /\ c.end = e /\ c.text = s[i].text /\ c \in Timed
    BY <1>7, <1>9, <1>10, <2>1
  <2>3. c \in Shown
    BY <1>7, <1>10, <2>2 DEF Shown
  <2> HIDE DEF start, next, n
  <2>4. e <= next \/ (next = start /\ e = start + 1)
    BY <1>7, <1>10
  <2>5. e - start < MIN_CUE_MS => i < n /\ next < start + MIN_CUE_MS + CUE_GAP_MS
    BY <1>5, <1>7, <1>10
  <2> QED
    BY <2>2, <2>3, <2>4, <2>5, Zenon DEF Kept
<1>11. ASSUME ~near PROVE Kept(c)
  <2>1. c = [s[i] EXCEPT !.end = end]
    BY <1>2, <1>11
  <2>2. c.start = start /\ c.end = end /\ c.text = s[i].text /\ c \in Timed
    BY <1>3, <1>9, <2>1
  <2>3. c \in Shown
    BY <1>0, <1>1, <1>3, <2>2 DEF Shown
  <2>4. i < n => end <= next
    <3> HIDE DEF n, start, next
    <3> QED
      BY <1>0, <1>3, <1>4, <1>6, <1>11
  <2>5. ~(end - start < MIN_CUE_MS)
    <3> HIDE DEF start
    <3> QED
      BY <1>0, <1>1, <1>3
  <2> HIDE DEF start, next, n
  <2> QED
    BY <2>2, <2>3, <2>4, <2>5, Zenon DEF Kept
<1>12. Kept(c)
  BY <1>8, <1>10, <1>11
<1> HIDE DEF Kept
<1> QED
  BY <1>12, Zenon DEF Kept, c, start, next, n

\* Cues of equal texts have as many characters.
LEMMA SameTexts ==
  ASSUME NEW s \in Seq(Timed), NEW t \in Seq(Timed), Len(s) = Len(t),
         \A i \in 1 .. Len(s) : t[i].text = s[i].text
  PROVE  Subtitles!Chars(t) = Subtitles!Chars(s)
<1> DEFINE x == Subtitles!TextsOf(s)
           y == Subtitles!TextsOf(t)
<1>1. /\ x \in Seq(Nat) /\ Len(x) = Len(s) /\ \A i \in 1 .. Len(s) : x[i] = s[i].text
      /\ y \in Seq(Nat) /\ Len(y) = Len(t) /\ \A i \in 1 .. Len(t) : y[i] = t[i].text
  BY TextsAre
<1> HIDE DEF x, y
<1>2. x = y
  <2>1. Len(x) = Len(y) /\ \A i \in 1 .. Len(x) : x[i] = y[i]
    BY <1>1
  <2> QED
    BY <1>1, <2>1, SeqEqual
<1> QED
  BY <1>2, Zenon DEF x, y, Subtitles!Chars

\* What is on screen when the cues are kept apart.
Followed(t) ==
  \A i \in 1 .. Len(t) :
    /\ \A j \in i + 1 .. Len(t) :
         t[i].end <= t[j].start \/ (t[i].start = t[j].start /\ t[i].end = t[i].start + 1)
    /\ t[i].end - t[i].start < MIN_CUE_MS =>
         i < Len(t) /\ t[i + 1].start < t[i].start + MIN_CUE_MS + CUE_GAP_MS

LEMMA ApartStays ==
  ASSUME Subtitles!CuesAssumption, NEW s \in Seq(Shown), Ordered(s)
  PROVE  /\ Subtitles!Apart(s) \in Seq(Shown) /\ Followed(Subtitles!Apart(s))
         /\ Subtitles!Chars(Subtitles!Apart(s)) = Subtitles!Chars(s)
<1> DEFINE n == Len(s)
           t == Subtitles!Apart(s)
<1>0. n \in Nat /\ \A i \in 1 .. n : s[i] \in Shown
  BY LenProperties, ElementOfSeq
<1>1. DOMAIN t = 1 .. n /\ t = [i \in 1 .. n |-> t[i]]
  BY DEF Subtitles!Apart
<1>2. \A i \in 1 .. n :
        /\ t[i] \in Shown /\ t[i].start = s[i].start /\ t[i].text = s[i].text
        /\ i < n => \/ t[i].end <= s[i + 1].start
                    \/ s[i + 1].start = t[i].start /\ t[i].end = t[i].start + 1
        /\ t[i].end - t[i].start < MIN_CUE_MS =>
             i < n /\ s[i + 1].start < t[i].start + MIN_CUE_MS + CUE_GAP_MS
  BY ApartIs
<1> HIDE DEF t
<1>3. t \in Seq(Shown) /\ Len(t) = n
  BY <1>0, <1>1, <1>2
<1>4. Subtitles!Chars(t) = Subtitles!Chars(s)
  <2>1. s \in Seq(Timed) /\ t \in Seq(Timed)
    BY <1>3, ShownGoOn
  <2> QED
    BY <1>2, <1>3, <2>1, SameTexts
<1>5. \A i \in 1 .. n : t[i].start \in Nat /\ t[i].end \in Nat
  BY <1>2 DEF Shown, Timed
<1>6. ASSUME NEW i \in 1 .. n, NEW j \in i + 1 .. n
      PROVE  t[i].end <= t[j].start \/ (t[i].start = t[j].start /\ t[i].end = t[i].start + 1)
  <2>1. i + 1 \in 1 .. n /\ j \in 1 .. n /\ i < n /\ (i + 1 = j \/ i + 1 < j)
    BY <1>0
  <2>2. s[i + 1].start <= s[j].start
    <3>1. CASE i + 1 < j
      BY <2>1, <3>1 DEF Ordered
    <3>2. CASE i + 1 = j
      BY <1>2, <1>5, <2>1, <3>2
    <3> QED
      BY <2>1, <3>1, <3>2
  <2> DEFINE a == t[i].start
             e == t[i].end
             b == s[i + 1].start
             c == t[j].start
  <2>3. e <= b \/ (b = a /\ e = a + 1)
    BY <1>2, <2>1
  <2>4. b <= c /\ a \in Nat /\ e \in Nat /\ b \in Nat /\ c \in Nat
    BY <1>2, <1>5, <2>1, <2>2
  <2> HIDE DEF a, b, c, e
  <2>5. e <= c \/ (a = c /\ e = a + 1)
    BY ONLY <2>3, <2>4
  <2> QED
    BY <2>5 DEF a, c, e
<1>7. ASSUME NEW i \in 1 .. n, t[i].end - t[i].start < MIN_CUE_MS
      PROVE  i < n /\ t[i + 1].start < t[i].start + MIN_CUE_MS + CUE_GAP_MS
  <2>1. i < n /\ s[i + 1].start < t[i].start + MIN_CUE_MS + CUE_GAP_MS
    BY <1>2, <1>7
  <2>2. t[i + 1].start = s[i + 1].start
    <3>1. i + 1 \in 1 .. n
      BY <1>0, <2>1
    <3> QED
      BY <1>2, <3>1
  <2> QED
    BY <2>1, <2>2
<1>8. Followed(t)
  BY <1>3, <1>6, <1>7 DEF Followed
<1> QED
  BY <1>3, <1>4, <1>8 DEF t

\* Cues that are on screen at all.
LEMMA ShownIs ==
  ASSUME NEW s
  PROVE  s \in Seq(Shown) <=>
           /\ \A i \in 1 .. Len(s) : s[i].start \in Nat /\ s[i].end \in Nat /\ s[i].text \in Nat
           /\ s \in Seq(Timed)
           /\ \A i \in 1 .. Len(s) : s[i].start < s[i].end
<1>1. ASSUME s \in Seq(Shown)
      PROVE  /\ s \in Seq(Timed)
             /\ \A i \in 1 .. Len(s) : /\ s[i].start < s[i].end
                                       /\ s[i].start \in Nat /\ s[i].end \in Nat /\ s[i].text \in Nat
  <2>1. \A i \in 1 .. Len(s) : s[i] \in Shown
    BY <1>1, ElementOfSeq
  <2>2. s \in Seq(Timed)
    BY <1>1, ShownGoOn
  <2> QED
    BY <2>1, <2>2 DEF Shown, Timed
<1>2. ASSUME s \in Seq(Timed), \A i \in 1 .. Len(s) : s[i].start < s[i].end
      PROVE  s \in Seq(Shown)
  <2>1. Len(s) \in Nat /\ s \in [1 .. Len(s) -> Timed]
    BY <1>2, LenProperties
  <2>2. s \in [1 .. Len(s) -> Shown]
    BY <1>2, <2>1 DEF Shown
  <2> QED
    BY <2>1, <2>2
<1> QED
  BY <1>1, <1>2

\* The invariant of cues c after w windows with n characters, d of them not in
\* any, all in order if o.
CuesAre(c, w, n, o, d) ==
  /\ w \in 0 .. NumWindows /\ n \in Nat /\ o \in BOOLEAN /\ d \in Nat
  /\ c \in Seq(Shown) /\ Subtitles!Chars(c) + d = n
  /\ o => w = NumWindows /\ Followed(c)

LEMMA CuesInvIs == Subtitles!CuesInv <=> CuesAre(v1, v2, v3, v4, v5)
<1>1. v1 \in Seq(Shown) <=>
        /\ \A i \in 1 .. Len(v1) : v1[i].start \in Nat /\ v1[i].end \in Nat /\ v1[i].text \in Nat
        /\ v1 \in Seq(Timed)
        /\ \A i \in 1 .. Len(v1) : v1[i].start < v1[i].end
  BY ShownIs
<1> QED
  BY <1>1, Zenon DEF Subtitles!CuesInv, Subtitles!TypeOK, Subtitles!CuesFollowOneAnother,
                     Followed, Timed, CuesAre

LEMMA CuesInvNext == Subtitles!CuesInv' <=> CuesAre(v1', v2', v3', v4', v5')
<1>1. v1' \in Seq(Shown) <=>
        /\ \A i \in 1 .. Len(v1') : v1'[i].start \in Nat /\ v1'[i].end \in Nat /\ v1'[i].text \in Nat
        /\ v1' \in Seq(Timed)
        /\ \A i \in 1 .. Len(v1') : v1'[i].start < v1'[i].end
  BY ShownIs
<1> QED
  BY <1>1, Zenon DEF Subtitles!CuesInv, Subtitles!TypeOK, Subtitles!CuesFollowOneAnother,
                     Followed, Timed, CuesAre

LEMMA CuesInit ==
  ASSUME Subtitles!CuesAssumption, Subtitles!Init
  PROVE  Subtitles!CuesInv
<1>1. v1 = << >> /\ v2 = 0 /\ v3 = 0 /\ v4 = FALSE /\ v5 = 0
  BY DEF Subtitles!Init
<1>2. v1 \in Seq(Shown) /\ Subtitles!Chars(v1) + v5 = v3 /\ v5 \in Nat
  BY <1>1, CharsOfNone
<1>3. v2 \in 0 .. NumWindows /\ v3 \in Nat /\ v4 \in BOOLEAN
  <2>1. NumWindows \in Nat
    BY DEF Subtitles!CuesAssumption
  <2>2. v2 \in 0 .. NumWindows /\ v3 \in Nat
    BY <1>1, <2>1
  <2>3. v4 \in BOOLEAN
    BY <1>1, Zenon
  <2> QED
    BY <2>2, <2>3
<1> QED
  BY <1>1, <1>2, <1>3, CuesInvIs, Zenon DEF CuesAre

\* What engines answer.
LEMMA Answered ==
  ASSUME Subtitles!CuesAssumption
  PROVE  (\A segments \in Segments : segments \in Seq(Timed)) /\ Subtitles!Spoken \subseteq Nat
<1>1. \A segments \in Segments : segments \in Seq(Timed)
  BY DEF Subtitles!CuesAssumption, Timed
<1>2. ASSUME NEW text \in Subtitles!Spoken
      PROVE  text \in Nat
  <2>1. PICK segments \in Segments : \E segment \in Subtitles!Range(segments) : text = segment.text
    BY DEF Subtitles!Spoken
  <2> PICK segment \in Subtitles!Range(segments) : text = segment.text
    BY <2>1
  <2>2. PICK i \in DOMAIN segments : segment = segments[i]
    BY DEF Subtitles!Range
  <2>3. segments \in Seq(Timed)
    BY <1>1
  <2>4. i \in 1 .. Len(segments)
    BY <2>3, LenProperties
  <2>5. segment \in Timed
    BY <2>2, <2>3, <2>4, ElementOfSeq
  <2> QED
    BY <2>5 DEF Timed
<1> QED
  BY <1>1, <1>2

\* The cues of a window behind those of the windows before.
LEMMA WindowStays ==
  ASSUME Subtitles!CuesAssumption, Subtitles!CuesInv, v2 < NumWindows,
         NEW more \in Seq(Shown), NEW lost \in Nat, v1' = v1 \o more,
         v3' = v3 + Subtitles!Chars(more) + lost, v5' = v5 + lost, v2' = v2 + 1, v4' = v4
  PROVE  Subtitles!CuesInv'
<1>1. /\ v2 \in 0 .. NumWindows /\ v3 \in Nat /\ v4 \in BOOLEAN /\ v5 \in Nat
      /\ v1 \in Seq(Shown) /\ Subtitles!Chars(v1) + v5 = v3
      /\ v4 => v2 = NumWindows /\ Followed(v1)
  BY CuesInvIs, Zenon DEF CuesAre
<1>2. NumWindows \in Nat
  BY DEF Subtitles!CuesAssumption
<1>3. v2' \in 0 .. NumWindows /\ ~v4
  BY <1>1, <1>2
<1>4. /\ v1 \o more \in Seq(Shown)
      /\ Subtitles!Chars(v1 \o more) = Subtitles!Chars(v1) + Subtitles!Chars(more)
  BY <1>1, ShownGoOn
<1>5. more \in Seq(Timed) /\ v1 \in Seq(Timed)
  BY ShownGoOn, <1>1
<1>6. Subtitles!Chars(more) \in Nat /\ Subtitles!Chars(v1) \in Nat
  BY <1>5, CharsGoOn
<1>7. v1' \in Seq(Shown) /\ Subtitles!Chars(v1') = Subtitles!Chars(v1) + Subtitles!Chars(more)
  BY <1>4, Zenon
<1>8. v3' \in Nat /\ v5' \in Nat /\ Subtitles!Chars(v1') + v5' = v3'
  BY <1>1, <1>6, <1>7
<1>9. v4' \in BOOLEAN /\ ~v4'
  BY <1>1, <1>3, Zenon
<1> QED
  BY <1>3, <1>7, <1>8, <1>9, CuesInvNext, Zenon DEF CuesAre

\* A window that gives no cue.
LEMMA SilentStays ==
  ASSUME Subtitles!CuesAssumption, Subtitles!CuesInv, v2 < NumWindows,
         NEW lost \in Nat, v1' = v1, v3' = v3 + lost, v5' = v5 + lost, v2' = v2 + 1, v4' = v4
  PROVE  Subtitles!CuesInv'
<1>1. v1 \in Seq(Shown) /\ v3 \in Nat
  BY CuesInvIs, Zenon DEF CuesAre
<1> DEFINE more == << >>
<1>2. v1' = v1 \o more
  BY <1>1, ConcatEmptySeq
<1>3. more \in Seq(Shown) /\ Subtitles!Chars(more) = 0
  BY CharsOfNone
<1> HIDE DEF more
<1>4. v3' = v3 + Subtitles!Chars(more) + lost
  BY <1>1, <1>3
<1> QED
  BY <1>2, <1>3, <1>4, WindowStays

LEMMA CuesStays ==
  ASSUME Subtitles!CuesAssumption, Subtitles!CuesInv, [Subtitles!Next]_(Subtitles!vars)
  PROVE  Subtitles!CuesInv'
<1>0. NumWindows \in Nat /\ WindowMs \in Nat
  BY DEF Subtitles!CuesAssumption
<1>1. /\ v2 \in 0 .. NumWindows /\ v3 \in Nat /\ v4 \in BOOLEAN /\ v5 \in Nat
      /\ v1 \in Seq(Shown) /\ Subtitles!Chars(v1) + v5 = v3
      /\ v4 => v2 = NumWindows /\ Followed(v1)
  BY CuesInvIs, Zenon DEF CuesAre
<1>o. v2 * WindowMs \in Nat
  BY <1>0, <1>1
<1>2. ASSUME NEW segments \in Segments, Subtitles!TranscribeWindow(segments)
      PROVE  Subtitles!CuesInv'
  <2> DEFINE x == Subtitles!TextsOf(segments)
             m == Len(segments)
             offset == v2 * WindowMs
             Ways(i) == Subtitles!CuesOf(v2 * WindowMs, segments[i])
  <2>1. segments \in Seq(Timed)
    BY Answered
  <2>2. PICK q \in [1 .. m -> UNION {Ways(i) : i \in 1 .. m}] :
          /\ \A i \in 1 .. m : q[i] \in Ways(i)
          /\ v1' = v1 \o Subtitles!FlattenSeq(q)
          /\ v3' = v3 + Subtitles!Chars(segments)
    BY <1>2, Zenon DEF Subtitles!TranscribeWindow
  <2>3. v2 < NumWindows /\ v2' = v2 + 1 /\ v4' = v4 /\ v5' = v5
    BY <1>2, Zenon DEF Subtitles!TranscribeWindow
  <2>4. x \in Seq(Nat) /\ Len(x) = m /\ \A i \in 1 .. m : x[i] = segments[i].text
    BY <2>1, TextsAre
  <2>5. ASSUME NEW i \in 1 .. m
        PROVE  q[i] \in Seq(Shown) /\ Subtitles!Chars(q[i]) = x[i]
    <3>1. segments[i] \in Timed /\ offset \in Nat
      BY <1>o, <2>1, ElementOfSeq
    <3>2. q[i] \in Subtitles!CuesOf(offset, segments[i])
      BY <2>2, Zenon
    <3> HIDE DEF offset
    <3> DEFINE segment == segments[i]
               split == q[i]
    <3>3. segment \in Timed /\ split \in Subtitles!CuesOf(offset, segment)
      BY <3>1, <3>2, Zenon
    <3> HIDE DEF segment, split
    <3>4. split \in Seq(Shown) /\ Subtitles!Chars(split) = segment.text
      BY <3>1, <3>3, CuesOfIs
    <3> QED
      BY <2>4, <3>4 DEF split, segment
  <2> HIDE DEF x
  <2>6. q \in [1 .. Len(x) -> Seq(Shown)] /\ HaveChars(q, x)
    <3>1. q \in [1 .. m -> Seq(Shown)]
      BY <2>2, <2>5
    <3> QED
      BY <2>4, <2>5, <3>1 DEF HaveChars
  <2> DEFINE more == Subtitles!FlattenSeq(q)
  <2>7. more \in Seq(Shown) /\ Subtitles!Chars(more) = Subtitles!Total(x)
    BY <2>4, <2>6, Flattens
  <2>8. Subtitles!Total(x) = Subtitles!Chars(segments)
    BY Zenon DEF x, Subtitles!Chars
  <2>9. v1' = v1 \o more /\ v3' = v3 + Subtitles!Chars(more)
    BY <2>2, <2>7, <2>8, Zenon
  <2> HIDE DEF more
  <2>10. Subtitles!Chars(more) \in Nat
    BY <2>7, ShownGoOn, CharsGoOn
  <2>11. v3' = v3 + Subtitles!Chars(more) + 0 /\ v5' = v5 + 0
    BY <1>1, <2>3, <2>9, <2>10
  <2> QED
    BY <2>3, <2>7, <2>9, <2>11, WindowStays
<1>6. ASSUME NEW segments \in Segments, NEW text \in Subtitles!Spoken,
             Subtitles!TranscribeMarkers(segments, text)
      PROVE  Subtitles!CuesInv'
  <2>1. text \in Nat
    BY Answered
  <2>2. /\ v2 < NumWindows /\ v2' = v2 + 1 /\ v4' = v4 /\ v3' = v3 + text
        /\ v5' = v5 + text /\ v1' = v1
    BY <1>6, Zenon DEF Subtitles!TranscribeMarkers
  <2> QED
    BY <2>1, <2>2, SilentStays
<1>3. ASSUME NEW text \in Subtitles!Spoken, Subtitles!TranscribeUntimed(text)
      PROVE  Subtitles!CuesInv'
  <2>1. text \in Nat
    BY Answered
  <2>2. /\ v2 < NumWindows /\ v2' = v2 + 1 /\ v4' = v4 /\ v3' = v3 + text /\ v5' = v5
        /\ \/ text = 0 /\ v1' = v1
           \/ \E split \in Subtitles!Splits(Subtitles!Fallback(v2 * WindowMs, text)) : v1' = v1 \o split
    BY <1>3, Zenon DEF Subtitles!TranscribeUntimed
  <2>3. CASE text = 0 /\ v1' = v1
    <3>1. v3' = v3 + 0 /\ v5' = v5 + 0
      BY <1>1, <2>2, <2>3
    <3> QED
      BY <2>2, <2>3, <3>1, SilentStays
  <2>4. ASSUME NEW split \in Subtitles!Splits(Subtitles!Fallback(v2 * WindowMs, text)), v1' = v1 \o split
        PROVE  Subtitles!CuesInv'
    <3> DEFINE offset == v2 * WindowMs
               cue == Subtitles!Fallback(offset, text)
    <3>1. offset \in Nat
      BY <1>o
    <3>2. split \in Subtitles!Splits(cue)
      BY <2>4
    <3> HIDE DEF offset
    <3>3. cue \in Shown /\ cue.text = text
      BY <2>1, <3>1, FallbackIs
    <3> HIDE DEF cue
    <3>4. split \in Seq(Shown) /\ Subtitles!Chars(split) = text
      BY <3>2, <3>3, SplitIs
    <3>5. v3' = v3 + Subtitles!Chars(split) + 0 /\ v5' = v5 + 0
      BY <1>1, <2>1, <2>2, <3>4
    <3> QED
      BY <2>2, <2>4, <3>4, <3>5, WindowStays
  <2> QED
    BY <2>2, <2>3, <2>4
<1>4. CASE Subtitles!Normalize
  <2>1. v2 = NumWindows /\ v1' = Subtitles!Apart(Subtitles!Sorted(v1)) /\ v4' = TRUE
        /\ v2' = v2 /\ v3' = v3 /\ v5' = v5
    BY <1>4, Zenon DEF Subtitles!Normalize
  <2> DEFINE s == Subtitles!Sorted(v1)
  <2>2. s \in Seq(Shown) /\ Ordered(s) /\ Subtitles!Chars(s) = Subtitles!Chars(v1)
    BY <1>1, SortedIs
  <2> HIDE DEF s
  <2>3. /\ Subtitles!Apart(s) \in Seq(Shown) /\ Followed(Subtitles!Apart(s))
        /\ Subtitles!Chars(Subtitles!Apart(s)) = Subtitles!Chars(s)
    BY <2>2, ApartStays
  <2>4. v1' = Subtitles!Apart(s)
    BY <2>1 DEF s
  <2>c. Subtitles!Chars(v1') = Subtitles!Chars(v1)
    BY <2>2, <2>3, <2>4, Zenon
  <2>5. v1' \in Seq(Shown) /\ Followed(v1') /\ Subtitles!Chars(v1') + v5' = v3'
    BY <1>1, <2>1, <2>3, <2>4, <2>c, Zenon
  <2>6. v2' \in 0 .. NumWindows /\ v3' \in Nat /\ v4' \in BOOLEAN /\ v2' = NumWindows
          /\ v5' \in Nat
    BY <1>1, <2>1, Zenon
  <2> QED
    BY <2>5, <2>6, CuesInvNext, Zenon DEF CuesAre
<1>5. CASE UNCHANGED Subtitles!vars
  <2>1. v1' = v1 /\ v2' = v2 /\ v3' = v3 /\ v4' = v4 /\ v5' = v5
    BY <1>5, Zenon DEF Subtitles!vars
  <2> QED
    BY <1>1, <2>1, CuesInvNext, Zenon DEF CuesAre
<1> QED
  BY <1>2, <1>3, <1>4, <1>5, <1>6 DEF Subtitles!Next

\* Cues follow one another and keep all that was said outside windows of silence
\* markers (cues.rs: cues_from_segments, split_long and normalize), and resampled audio does not drift from what was fed
\* (Resampler of media.rs), whatever the segments, rates and packets.
THEOREM SubtitlesCorrect == AppSpec => []SubtitlesAreInPlace
<1> DEFINE Inv == /\ part = "cues" => Subtitles!CuesInv
                  /\ part = "audio" => Audio!DriftInv
<1>1. AppInit => Inv
  BY AppPartsAssumption, AppPartStarts, CuesInit, AudioInit
<1>2. Inv /\ [AppNext]_vars => Inv'
  BY AppPartsAssumption, AppPartMoves, CuesStays, AudioStays
<1>3. Inv => SubtitlesAreInPlace
  BY DEF SubtitlesAreInPlace, Subtitles!CuesInv, Audio!DriftInv
<1> HIDE DEF Inv
<1> QED
  BY <1>1, <1>2, <1>3, PTL DEF AppSpec

-----------------------------------------------------------------------------
(* What every part's variables are.                                        *)

\* What a host call holds.
LEMMA CallTypes ==
  ASSUME Call!HostCallsAssumption, Call!HonestInv, Call!TypeOK, [Call!Next]_(Call!vars)
  PROVE  Call!TypeOK'
<1> DEFINE most == MAX_TIMEOUT + TIMEOUT_MARGIN + ClientBound
<1>0. /\ MAX_TIMEOUT \in Nat /\ TIMEOUT_MARGIN \in Nat /\ ClientBound \in Nat /\ most \in Nat
      /\ Call!Deadline \in 0 .. most /\ v7 \in 0 .. most
  <2>1. MAX_TIMEOUT \in Nat /\ TIMEOUT_MARGIN \in Nat /\ ClientBound \in Nat
    BY DEF Call!HostCallsAssumption
  <2>2. v2.timeout \in 0 .. MAX_TIMEOUT
    BY DEF Call!HonestInv
  <2> QED
    BY <2>1, <2>2 DEF Call!Deadline, Call!TypeOK
<1>1. v7' \in 0 .. most
  <2>1. v7' = v7 \/ (v7 < Call!Deadline /\ v7' = v7 + 1)
    BY DEF Call!Next, Call!vars, Call!SendCall, Call!CoreTakes, Call!CoreAnswers, Call!Tick,
      Call!TimesOut, Call!ConnectionFails, Call!ReadAnswer
  <2> QED
    BY <1>0, <2>1
<1> HIDE DEF most
<1>2. Call!Outcome \in Call!Results
  BY DEF Call!Outcome, Call!Results
<1>3. /\ v3' \in {"idle", "sent", "over"}
      /\ v4' \in {"unseen", "taken", "refused"} /\ v5' \in {"yes", "no", "unsaid"}
      /\ v6' \in {"none", "good", "garbled", "error"}
  BY DEF Call!TypeOK, Call!Next, Call!vars, Call!SendCall, Call!CoreTakes, Call!CoreAnswers,
    Call!Tick, Call!TimesOut, Call!ConnectionFails, Call!ReadAnswer, Call!Return
<1>4. v8' \in Call!Results /\ v9' \in Call!Results \cup {"nothing"}
  <2>1. \/ v8' = v8 /\ v9' = v9
        \/ \E o \in Call!Results : v8' = o /\ v9' = IF v2.quiet THEN "nothing" ELSE o
    <3>1. {"invalid", "not_hosted", "transport", "timed_out"} \subseteq Call!Results
      BY DEF Call!Results
    <3> QED
      BY <1>2, <3>1 DEF Call!Next, Call!vars, Call!SendCall, Call!CoreTakes, Call!CoreAnswers,
        Call!Tick, Call!TimesOut, Call!ConnectionFails, Call!ReadAnswer, Call!Return
  <2> QED
    BY <2>1 DEF Call!TypeOK
<1> QED
  BY <1>1, <1>3, <1>4 DEF Call!TypeOK, most

\* What a translation holds.
LEMMA TranslationTypes ==
  ASSUME Translate!TranslationAssumption, Translate!InPlaceInv, Translate!TypeOK,
         [Translate!Next]_(Translate!vars)
  PROVE  Translate!TypeOK'
<1>1. Translate!InPlaceInv'
  BY TranslationStays
<1>2. v4' \in 0 .. BATCH /\ v7' \in 0 .. NumCues
  <2>0. /\ BATCH \in Nat \ {0} /\ NumCues \in Nat /\ v2 \in 0 .. NumCues /\ v4 \in 0 .. BATCH
        /\ v7 \in 0 .. NumCues
    BY DEF Translate!TranslationAssumption, Translate!TypeOK
  <2>1. Translate!BatchLen \in 0 .. BATCH /\ Translate!BatchLen <= NumCues - v2
    BY <2>0, LeastOfTwo DEF Translate!BatchLen
  <2>2. v7' = v7 \/ v7' = Translate!Min({v2 + Translate!BatchLen, NumCues})
    BY DEF Translate!Next, Translate!vars, Translate!AskBatch, Translate!Skip, Translate!RetryLine,
      Translate!Retried, Translate!Apply, Translate!Cancel
  <2>3. Translate!Min({v2 + Translate!BatchLen, NumCues}) \in 0 .. NumCues
    BY <2>0, <2>1, LeastOfTwo
  <2>4. v4' = v4 \/ v4' = 0 \/ (v4 < Translate!BatchLen /\ v4' = v4 + 1)
    BY DEF Translate!Next, Translate!vars, Translate!AskBatch, Translate!Skip, Translate!RetryLine,
      Translate!Retried, Translate!Apply, Translate!Cancel
  <2> QED
    BY <2>0, <2>1, <2>2, <2>3, <2>4
<1> QED
  BY <1>1, <1>2 DEF Translate!TypeOK, Translate!InPlaceInv

\* At first.
LEMMA TranslationTyped ==
  ASSUME Translate!TranslationAssumption, Translate!Init
  PROVE  Translate!TypeOK
<1>1. Translate!InPlaceInv
  BY TranslationInit
<1>2. v4 = 0 /\ v7 = 0
  BY DEF Translate!Init
<1> QED
  BY <1>1, <1>2 DEF Translate!TypeOK, Translate!InPlaceInv, Translate!TranslationAssumption

\* What the resampler carries and has given is bounded by what it was fed.
LEMMA AudioTyped ==
  ASSUME Audio!ResamplerAssumption, Audio!DriftInv, v4 <= MaxFed
  PROVE  Audio!TypeOK
<1>1. /\ v1 \in Seq(Nat) /\ v2 \in Nat /\ v3 \in Rates \cup {0} /\ v4 \in Nat
      /\ v5 \in Seq(Seq(Nat)) /\ v6 \in [fed : Nat, out : Nat] /\ Audio!CarryIsInPlace
  BY Zenon DEF Audio!DriftInv
<1>2. v4 - Len(v1) >= v6.fed /\ Len(v5) - v6.out \in Nat
  BY <1>1, Zenon DEF Audio!CarryIsInPlace
<1>3. Len(v1) \in Nat /\ Len(v5) \in Nat
  BY <1>1, LenProperties
<1>4. v6.fed \in 0 .. v4 /\ v6.out \in 0 .. Len(v5)
  BY <1>1, <1>2, <1>3
<1>5. v4 \in 0 .. MaxFed
  BY <1>1 DEF Audio!ResamplerAssumption
<1> QED
  BY <1>1, <1>4, <1>5 DEF Audio!TypeOK

\* It is fed up to the bound.
LEMMA FedStays ==
  ASSUME v4 <= MaxFed, [Audio!Next]_(Audio!vars)
  PROVE  v4' <= MaxFed
BY DEF Audio!Next, Audio!vars, Audio!PushPacket, Audio!Average, Audio!Rebase

\* What is in the settings or in a request's hand.
SettingsTyped ==
  Requests!TypeOK /\ v3 \in [Puts -> [Fields -> {Requests!Default, -1} \cup Puts]]

\* What the settings hold, and each request of them.
LEMMA SettingsTypes ==
  /\ Requests!Init => SettingsTyped
  /\ SettingsTyped /\ [Requests!Next]_(Requests!vars) => SettingsTyped'
<1> DEFINE V == {Requests!Default, -1} \cup Puts
<1> USE DEF SettingsTyped, Requests!TypeOK
<1>1. Requests!Init => SettingsTyped
  BY DEF Requests!Init, Requests!Defaults
<1>2. ASSUME SettingsTyped, NEW p \in Puts, Requests!ReadSettings(p)
      PROVE  SettingsTyped'
  <2>1. \A base \in [Fields -> V] : Requests!Named(p, base) \in [Fields -> V]
    BY DEF Requests!Named
  <2>2. Requests!Defaults \in [Fields -> V]
    BY DEF Requests!Defaults
  <2> QED
    BY <1>2, <2>1, <2>2 DEF Requests!ReadSettings
<1>3. ASSUME SettingsTyped, NEW p \in Puts, Requests!RefuseSettings(p)
      PROVE  SettingsTyped'
  BY <1>3 DEF Requests!RefuseSettings
<1>4. ASSUME SettingsTyped, NEW p \in Puts, Requests!SaveSettings(p)
      PROVE  SettingsTyped'
  BY <1>4 DEF Requests!SaveSettings
<1>5. ASSUME SettingsTyped, UNCHANGED Requests!vars
      PROVE  SettingsTyped'
  BY <1>5 DEF Requests!vars
<1> QED
  BY <1>1, <1>2, <1>3, <1>4, <1>5 DEF Requests!Next

\* The variables of every part are what its module says they are.
THEOREM AppTypesCorrect == AppSpec => []AppTypeOK
<1> DEFINE Inv == /\ part = "stream" => Stream!StreamInv
                  /\ part = "call" => Call!HonestInv /\ Call!TypeOK
                  /\ part = "translation" => Translate!InPlaceInv /\ Translate!TypeOK
                  /\ part = "cues" => Subtitles!CuesInv
                  /\ part = "audio" => Audio!DriftInv /\ v4 <= MaxFed
                  /\ part = "settings" => SettingsTyped
<1>1. AppInit => Inv
  <2>1. Call!Init => Call!TypeOK
    BY AppPartsAssumption DEF Call!Init, Call!TypeOK, Call!HostCallsAssumption, Call!Results
  <2>2. Audio!Init => v4 <= MaxFed
    BY AppPartsAssumption DEF Audio!Init, Audio!ResamplerAssumption
  <2> QED
    BY AppPartsAssumption, AppPartStarts, StreamInit, CallInit, TranslationInit, TranslationTyped, CuesInit,
      AudioInit, SettingsTypes, <2>1, <2>2
<1>2. Inv /\ [AppNext]_vars => Inv'
  BY AppPartsAssumption, AppPartMoves, StreamStays, CallStays, CallTypes, TranslationStays,
    TranslationTypes, CuesStays, AudioStays, FedStays, SettingsTypes
<1>3. Inv => AppTypeOK
  <2>1. Stream!StreamInv => Stream!TypeOK
    BY DEF Stream!StreamInv
  <2>2. Subtitles!CuesInv => Subtitles!TypeOK
    BY DEF Subtitles!CuesInv
  <2>3. Audio!DriftInv /\ v4 <= MaxFed => Audio!TypeOK
    BY AppPartsAssumption, AudioTyped
  <2>4. SettingsTyped => Requests!TypeOK
    BY DEF SettingsTyped
  <2> QED
    BY <2>1, <2>2, <2>3, <2>4, Zenon DEF AppTypeOK
<1> HIDE DEF Inv
<1> QED
  BY <1>1, <1>2, <1>3, PTL DEF AppSpec

=============================================================================
