------------------------ MODULE TranscriptionProofs ------------------------
(***************************************************************************)
(* Theorems about Transcription, for every length of frame, window, packet *)
(* and file, every capacity of the channel and every interleaving.         *)
(*                                                                         *)
(* A window passes from the accumulator to the decoder's hand, to the      *)
(* channel, to the engine; Flow is the line they stand in.  Handing one on *)
(* leaves Flow alone, and only a cut and the remainder add to it: what is  *)
(* to be shown is that they add the right window.                          *)
(***************************************************************************)
EXTENDS Transcription, LeastNumbers, SequenceTheorems, TLAPS

-----------------------------------------------------------------------------
(* What a push leaves of a window accumulator.                             *)

\* The band's first frame begins at Lo or later, and the last ends at Hi or earlier.
LEMMA BandBounds ==
  ASSUME NEW a \in WindowAccumulator, NEW i \in Band(a)
  PROVE  /\ i \in Nat /\ i + 1 \in 1..Len(a.energy)
         /\ i * Frame >= Lo
         /\ i * Frame + Frame <= Hi
<1>1. PICK l \in 1..Lo : Lo = l * Frame
  BY CutterAssumption
<1>2. PICK b \in 0..Hi : Hi = b * Frame
  BY CutterAssumption
<1>3. Frame \in Nat \ {0} /\ Lo \in Nat /\ Hi \in Nat
  BY CutterAssumption
<1>4. Lo \div Frame = l /\ Hi \div Frame = b
  BY <1>1, <1>2, <1>3
<1>5. i \in l..b /\ i < b /\ i < Len(a.energy)
  BY <1>4 DEF Band
<1>6. i \in Nat /\ i >= l /\ i + 1 <= b
  BY <1>1, <1>2, <1>5
<1>7. i * Frame >= l * Frame /\ (i + 1) * Frame <= b * Frame
  BY <1>1, <1>2, <1>3, <1>6
<1>8. Len(a.energy) \in Nat
  BY DEF WindowAccumulator
<1> QED
  BY <1>1, <1>2, <1>3, <1>5, <1>6, <1>7, <1>8

\* A band that is not empty has a quietest frame.
LEMMA QuietestInBand ==
  ASSUME NEW a \in WindowAccumulator, Band(a) # {}
  PROVE  Quietest(a) \in Band(a)
<1> DEFINE E == {a.energy[i + 1] : i \in Band(a)}
<1>1. \A i \in Band(a) : i \in Nat /\ a.energy[i + 1] \in Nat
  BY BandBounds, ElementOfSeq DEF WindowAccumulator
<1>2. PICK m \in E : \A k \in E : m <= k
  <2>1. E \subseteq Nat /\ E # {}
    BY <1>1
  <2> HIDE DEF E
  <2> QED
    BY <2>1, LeastNumber
<1> DEFINE F == {i \in Band(a) : a.energy[i + 1] = m}
<1>3. PICK j \in F : \A k \in F : j <= k
  <2>1. F \subseteq Nat /\ F # {}
    BY <1>1
  <2> HIDE DEF F
  <2> QED
    BY <2>1, LeastNumber
<1>4. \A k \in Band(a) : /\ a.energy[j + 1] <= a.energy[k + 1]
                         /\ a.energy[j + 1] = a.energy[k + 1] => j <= k
  BY <1>2, <1>3
<1>5. j \in Band(a)
  BY <1>3
<1> QED
  BY <1>4, <1>5 DEF Quietest

\* A cut leaves a window that is as long as the band allows, in whole milliseconds.
LEMMA CutPlace ==
  ASSUME NEW a \in WindowAccumulator
  PROVE  /\ quietest_cut(a) \in Nat
         /\ Lo <= quietest_cut(a) /\ quietest_cut(a) < Hi
         /\ \E k \in Nat : quietest_cut(a) = k * PerMs
<1>1. CASE Band(a) = {}
  BY <1>1, CutterAssumption DEF quietest_cut
<1>2. CASE Band(a) # {}
  <2> DEFINE i == Quietest(a)
  <2>1. i \in Nat /\ i * Frame >= Lo /\ i * Frame + Frame <= Hi
    BY <1>2, QuietestInBand, BandBounds
  <2> HIDE DEF i
  <2>2. PICK h \in 1..Frame : Frame = 2 * (h * PerMs)
    BY CutterAssumption
  <2>3. /\ Frame \in Nat \ {0} /\ PerMs \in Nat \ {0} /\ h \in Nat \ {0}
        /\ Lo \in Nat /\ Hi \in Nat
    BY <2>2, CutterAssumption
  <2>4. h * PerMs \in Nat \ {0} /\ i * Frame \in Nat
    BY <2>1, <2>3
  <2>5. Frame \div 2 = h * PerMs
    <3> DEFINE q == h * PerMs
    <3>1. q \in Nat /\ Frame = 2 * q
      BY <2>2, <2>4
    <3> HIDE DEF q
    <3>2. Frame \div 2 = q
      BY <3>1
    <3> QED
      BY <3>2 DEF q
  <2>6. quietest_cut(a) = i * Frame + h * PerMs
    BY <1>2, <2>5 DEF quietest_cut, i
  <2>7. i * Frame + h * PerMs = (i * (2 * h) + h) * PerMs
    BY <2>1, <2>2, <2>3
  <2>8. i * (2 * h) + h \in Nat
    BY <2>1, <2>3
  <2>9. Lo <= i * Frame + h * PerMs /\ i * Frame + h * PerMs < Hi
    BY <2>1, <2>2, <2>3, <2>4
  <2> QED
    BY <2>4, <2>6, <2>7, <2>8, <2>9
<1> QED
  BY <1>1, <1>2

\* Measuring a sample appends it and touches nothing else a window is made of.
LEMMA MeasuredEffect ==
  ASSUME NEW a \in WindowAccumulator, NEW s \in Nat
  PROVE  /\ Measured(a, s) \in WindowAccumulator
         /\ Measured(a, s).samples = Append(a.samples, s)
         /\ Measured(a, s).start = a.start
         /\ Measured(a, s).ready = a.ready
<1>1. /\ a.samples \in Seq(Nat) /\ a.start \in Nat /\ a.energy \in Seq(Nat)
      /\ a.current \in Nat /\ a.count \in Nat /\ a.ready \in Seq(Window)
  BY DEF WindowAccumulator
<1> DEFINE full == a.count + 1 >= Frame
           energy == IF full THEN Append(a.energy, a.current + s) ELSE a.energy
           current == IF full THEN 0 ELSE a.current + s
           count == IF full THEN 0 ELSE a.count + 1
<1>2. /\ Append(a.samples, s) \in Seq(Nat) /\ energy \in Seq(Nat)
      /\ current \in Nat /\ count \in Nat
  BY <1>1
<1>3. Measured(a, s) =
        [samples |-> Append(a.samples, s), start |-> a.start, energy |-> energy,
         current |-> current, count |-> count, ready |-> a.ready]
  BY DEF Measured
<1> HIDE DEF energy, current, count
<1> QED
  BY <1>1, <1>2, <1>3 DEF WindowAccumulator

\* A push short of the hard maximum cuts nothing.
LEMMA PushShort ==
  ASSUME NEW a \in WindowAccumulator, NEW s \in Nat, Len(a.samples) + 1 < Hi
  PROVE  /\ Push(a, s) \in WindowAccumulator
         /\ Push(a, s).samples = Append(a.samples, s)
         /\ Push(a, s).start = a.start
         /\ Push(a, s).ready = a.ready
<1> DEFINE b == Measured(a, s)
<1>1. /\ b \in WindowAccumulator
      /\ b.samples = Append(a.samples, s) /\ b.start = a.start /\ b.ready = a.ready
  BY MeasuredEffect
<1>2. Len(b.samples) = Len(a.samples) + 1 /\ Len(a.samples) \in Nat /\ Hi \in Nat
  BY <1>1, CutterAssumption DEF WindowAccumulator
<1> HIDE DEF b
<1>3. ~(Len(b.samples) >= Hi)
  BY <1>2
<1> QED
  BY <1>1, <1>3 DEF Push, b

\* The push that reaches it stages a window of the head, which names its place, and
\* keeps the rest.
LEMMA PushCut ==
  ASSUME NEW a \in WindowAccumulator, NEW s \in Nat, Len(a.samples) + 1 = Hi
  PROVE  \E at \in Lo..(Hi - 1), k \in Nat :
           LET all == Append(a.samples, s)
               w   == [offset |-> samples_to_ms(a.start), samples |-> SubSeq(all, 1, at)]
           IN /\ at = k * PerMs
              /\ w \in Window
              /\ Push(a, s) \in WindowAccumulator
              /\ Push(a, s).samples = SubSeq(all, at + 1, Hi)
              /\ Push(a, s).start = a.start + at
              /\ Push(a, s).ready = Append(a.ready, w)
<1> DEFINE b == Measured(a, s)
           all == Append(a.samples, s)
           at == quietest_cut(b)
           w == [offset |-> samples_to_ms(a.start), samples |-> SubSeq(all, 1, at)]
<1>1. /\ b \in WindowAccumulator
      /\ b.samples = all /\ b.start = a.start /\ b.ready = a.ready
  BY MeasuredEffect
<1>2. /\ at \in Nat /\ Lo <= at /\ at < Hi
      /\ \E k \in Nat : at = k * PerMs
  BY <1>1, CutPlace
<1>3. Hi \in Nat /\ Lo \in Nat /\ PerMs \in Nat \ {0}
  BY CutterAssumption
<1>4. all \in Seq(Nat) /\ Len(all) = Hi
  BY DEF WindowAccumulator
<1> HIDE DEF b, all, at
<1>5. SubSeq(all, 1, at) \in Seq(Nat) /\ SubSeq(all, at + 1, Hi) \in Seq(Nat)
  <2>1. \A i \in 1..Hi : all[i] \in Nat
    BY <1>4
  <2> QED
    BY <1>2, <1>3, <2>1, SubSeqProperties
<1>6. a.start \in Nat /\ samples_to_ms(a.start) \in Nat /\ a.ready \in Seq(Window)
  <2>1. a.start \in Nat /\ a.ready \in Seq(Window)
    BY DEF WindowAccumulator
  <2>2. \A n \in Nat : n \div PerMs \in Nat
    BY <1>3
  <2> QED
    BY <2>1, <2>2 DEF samples_to_ms
<1>7. w \in Window
  BY <1>5, <1>6 DEF Window
<1> DEFINE rest == SubSeq(all, at + 1, Hi)
           ready == Append(a.ready, w)
           start == a.start + at
<1>8. Push(a, s) = [samples |-> rest, start |-> start, energy |-> <<>>,
                    current |-> 0, count |-> 0, ready |-> ready]
  <2>1. Len(b.samples) >= Hi
    BY <1>1, <1>3, <1>4
  <2>2. Push(a, s) = Cut(b)
    BY <2>1 DEF Push, b
  <2> QED
    BY <1>1, <1>4, <2>2 DEF Cut, at, w
<1>9. rest \in Seq(Nat) /\ start \in Nat /\ ready \in Seq(Window)
  BY <1>2, <1>5, <1>6, <1>7
<1>10. <<>> \in Seq(Nat) /\ 0 \in Nat
  OBVIOUS
<1> HIDE DEF rest, ready, start
<1>11. /\ Push(a, s) \in WindowAccumulator
       /\ Push(a, s).samples = rest
       /\ Push(a, s).start = start
       /\ Push(a, s).ready = ready
  BY <1>8, <1>9, <1>10 DEF WindowAccumulator
<1> USE DEF rest, ready, start
<1>12. PICK k \in Nat : at = k * PerMs
  BY <1>2
<1>13. at \in Lo..(Hi - 1)
  BY <1>2, <1>3
<1> WITNESS at \in Lo..(Hi - 1), k \in Nat
<1> QED
  BY <1>7, <1>11, <1>12 DEF w, all

-----------------------------------------------------------------------------
(* The line the windows stand in.                                          *)

Flow == ((taken \o chan) \o hand) \o acc.ready

\* Where the windows of s end.
EndOf(s) == IF s = <<>> THEN 0 ELSE End(s[Len(s)])

\* The window holds the stretch of d it names.
Faithful(d, w) ==
  /\ End(w) <= Len(d)
  /\ \A j \in 1..Len(w.samples) : w.samples[j] = d[Begin(w) + j]

\* Windows that cut d from its first sample on, all but the last at full length.
Chain(d, s) ==
  \A i \in 1..Len(s) :
    /\ Begin(s[i]) = IF i = 1 THEN 0 ELSE End(s[i - 1])
    /\ Faithful(d, s[i])
    /\ Len(s[i].samples) < Hi
    /\ Len(s[i].samples) >= IF i < Len(s) THEN Lo ELSE MinTail

\* All of them at full length.
Full(s) == \A i \in 1..Len(s) : Len(s[i].samples) >= Lo

\* The stream has not ended, and the accumulator stands at a whole millisecond.
Cutting == dec \in {"packet", "push", "drain", "send", "remainder"}

AccInv ==
  /\ acc.start + Len(acc.samples) = Len(decoded)
  /\ \A j \in 1..Len(acc.samples) : acc.samples[j] = decoded[acc.start + j]
  /\ Len(acc.samples) < Hi
  /\ Cutting => \E k \in 0..acc.start : acc.start = k * PerMs

\* A packet completes at most one window, and its windows leave before the next.
BufferInv ==
  /\ Len(chan) <= WindowQueue
  /\ Len(left) <= Lo
  /\ acc.ready # <<>> => /\ dec \in {"push", "drain"}
                         /\ Len(acc.ready) = 1
                         /\ Len(acc.samples) + Len(left) < Hi

\* While there is somebody to hear them, the windows follow one another.
FlowInv ==
  rxOpen => /\ Chain(decoded, Flow)
            /\ EndOf(Flow) = acc.start
            /\ Cutting => Full(Flow)

\* Once there is not, those that were heard did.
TakenInv == ~rxOpen => Chain(decoded, taken)

\* A decoder that is through has left a sliver, unless it failed.
SliverInv ==
  /\ rxOpen /\ dec \in {"sendLast", "done"} /\ ~errMsg => Len(acc.samples) < MinTail
  /\ errMsg => dec = "done"
  /\ rxOpen <=> con \in {"recv", "check", "transcribe", "finished"}
  /\ con = "finished" => dec = "done" /\ chan = <<>> /\ ~errMsg

\* How far the decoder has come since the receiver was dropped.
StopInv ==
  ~rxOpen => /\ closedAt <= Len(decoded)
             /\ Len(decoded) + Len(left) < closedAt + Hi + Lo
             /\ dec \in {"packet", "push", "drain", "remainder"} /\ acc.ready = <<>>
                  => Len(decoded) <= closedAt + Len(acc.samples)

IInv ==
  /\ TypeOK
  /\ AccInv
  /\ BufferInv
  /\ FlowInv
  /\ TakenInv
  /\ SliverInv
  /\ StopInv

-----------------------------------------------------------------------------
\* About chains of windows.

\* A longer recording changes nothing about the windows cut from it.
LEMMA ChainLonger ==
  ASSUME NEW d \in Seq(Nat), NEW x \in Nat, NEW s \in Seq(Window), Chain(d, s)
  PROVE  Chain(Append(d, x), s)
<1>1. \A w \in Window : Faithful(d, w) => Faithful(Append(d, x), w)
  <2> SUFFICES ASSUME NEW w \in Window, Faithful(d, w)
               PROVE  Faithful(Append(d, x), w)
    OBVIOUS
  <2>1. Begin(w) \in Nat /\ Len(w.samples) \in Nat
    BY CutterAssumption DEF Window, Begin
  <2>2. Begin(w) + Len(w.samples) <= Len(d)
    BY DEF Faithful, End
  <2>3. /\ Len(Append(d, x)) = Len(d) + 1 /\ Len(d) \in Nat
        /\ \A i \in 1..Len(d) : Append(d, x)[i] = d[i]
    BY AppendProperties
  <2>4. \A j \in 1..Len(w.samples) : w.samples[j] = Append(d, x)[Begin(w) + j]
    <3> TAKE j \in 1..Len(w.samples)
    <3>1. Begin(w) + j \in 1..Len(d)
      BY <2>1, <2>2, <2>3
    <3> QED
      BY <2>3, <3>1 DEF Faithful
  <2>5. End(w) <= Len(Append(d, x))
    BY <2>1, <2>2, <2>3 DEF End
  <2> QED
    BY <2>4, <2>5 DEF Faithful
<1>2. \A i \in 1..Len(s) : s[i] \in Window
  BY ElementOfSeq
<1> QED
  BY <1>1, <1>2 DEF Chain

\* The windows that come first are a chain without the rest.
LEMMA ChainPrefix ==
  ASSUME NEW d, NEW s \in Seq(Window), NEW t \in Seq(Window), Chain(d, s \o t)
  PROVE  Chain(d, s)
<1>1. /\ Len(s) \in Nat /\ Len(t) \in Nat
      /\ Len(s \o t) = Len(s) + Len(t)
      /\ \A i \in 1..Len(s) : (s \o t)[i] = s[i]
  BY ConcatProperties
<1>2. Lo \in Nat /\ MinTail \in Nat /\ MinTail <= Lo
  BY CutterAssumption
<1>3. \A i \in 1..Len(s) : Len(s[i].samples) \in Nat
  BY ElementOfSeq DEF Window
<1> SUFFICES ASSUME NEW i \in 1..Len(s)
             PROVE  /\ Begin(s[i]) = IF i = 1 THEN 0 ELSE End(s[i - 1])
                    /\ Faithful(d, s[i])
                    /\ Len(s[i].samples) < Hi
                    /\ Len(s[i].samples) >= IF i < Len(s) THEN Lo ELSE MinTail
  BY DEF Chain
<1>4. i \in 1..Len(s \o t) /\ (i # 1 => i - 1 \in 1..Len(s))
  BY <1>1
<1>5. /\ Begin(s[i]) = IF i = 1 THEN 0 ELSE End((s \o t)[i - 1])
      /\ Faithful(d, s[i])
      /\ Len(s[i].samples) < Hi
      /\ Len(s[i].samples) >= IF i < Len(s \o t) THEN Lo ELSE MinTail
  BY <1>1, <1>4 DEF Chain
<1>6. Len(s[i].samples) >= IF i < Len(s) THEN Lo ELSE MinTail
  BY <1>1, <1>2, <1>3, <1>5
<1> QED
  BY <1>1, <1>4, <1>5, <1>6

\* A window that begins where the others end joins them, and ends the chain.
LEMMA ChainAppend ==
  ASSUME NEW d, NEW s \in Seq(Window), NEW w \in Window,
         Chain(d, s), Full(s), Begin(w) = EndOf(s), Faithful(d, w),
         Len(w.samples) < Hi, Len(w.samples) >= MinTail
  PROVE  /\ Chain(d, Append(s, w))
         /\ EndOf(Append(s, w)) = End(w)
         /\ Len(w.samples) >= Lo => Full(Append(s, w))
<1> DEFINE t == Append(s, w)
           n == Len(s)
<1>1. /\ n \in Nat /\ Len(t) = n + 1 /\ t[n + 1] = w
      /\ \A i \in 1..n : t[i] = s[i]
      /\ t # <<>>
  BY AppendProperties
<1>2. \A i \in 1..n : Len(s[i].samples) >= Lo
  BY DEF Full
<1> HIDE DEF t
<1>3. ASSUME NEW i \in 1..Len(t)
      PROVE  /\ Begin(t[i]) = IF i = 1 THEN 0 ELSE End(t[i - 1])
             /\ Faithful(d, t[i])
             /\ Len(t[i].samples) < Hi
             /\ Len(t[i].samples) >= IF i < Len(t) THEN Lo ELSE MinTail
  <2>1. CASE i = n + 1
    <3>1. Begin(w) = IF n = 0 THEN 0 ELSE End(s[n])
      BY <1>1 DEF EndOf
    <3>2. n # 0 => t[i - 1] = s[n]
      BY <1>1, <2>1
    <3> QED
      BY <1>1, <2>1, <3>1, <3>2
  <2>2. CASE i # n + 1
    <3>1. i \in 1..n /\ t[i] = s[i] /\ (i # 1 => t[i - 1] = s[i - 1])
      BY <1>1, <1>3, <2>2
    <3> QED
      BY <1>1, <1>2, <3>1 DEF Chain
  <2> QED
    BY <2>1, <2>2
<1>4. Chain(d, t)
  BY <1>3 DEF Chain
<1>5. EndOf(t) = End(w)
  BY <1>1 DEF EndOf
<1>6. Len(w.samples) >= Lo => Full(t)
  BY <1>1, <1>2 DEF Full
<1> QED
  BY <1>4, <1>5, <1>6 DEF t

-----------------------------------------------------------------------------
\* What a push does to the accumulator of a decoder that has a sample in hand.

\* Either the sample joins the window, or a window is cut.
PushJoins(x) ==
  /\ Len(acc.samples) + 1 < Hi
  /\ acc'.samples = Append(acc.samples, x)
  /\ acc'.start = acc.start
  /\ acc'.ready = acc.ready

PushCuts(x) ==
  /\ Len(acc.samples) + 1 = Hi
  /\ \E at \in Lo..(Hi - 1), k \in Nat :
       LET all == Append(acc.samples, x)
           w   == [offset |-> samples_to_ms(acc.start), samples |-> SubSeq(all, 1, at)]
       IN /\ at = k * PerMs
          /\ w \in Window
          /\ acc'.samples = SubSeq(all, at + 1, Hi)
          /\ acc'.start = acc.start + at
          /\ acc'.ready = Append(acc.ready, w)

LEMMA PushEffect ==
  ASSUME IInv, PushSample
  PROVE  /\ left # <<>> /\ Head(left) \in Nat
         /\ acc' \in WindowAccumulator
         /\ PushJoins(Head(left)) \/ PushCuts(Head(left))
<1>1. left \in Seq(Nat) /\ left # <<>> /\ acc \in WindowAccumulator
  BY DEF IInv, TypeOK, PushSample
<1>2. Head(left) \in Nat
  BY <1>1
<1> DEFINE x == Head(left)
<1>3. acc' = Push(acc, x)
  BY DEF PushSample
<1>4. Len(acc.samples) \in Nat /\ Hi \in Nat /\ Len(acc.samples) < Hi
  BY <1>1, CutterAssumption DEF WindowAccumulator, IInv, AccInv
<1> HIDE DEF x
<1>5. CASE Len(acc.samples) + 1 < Hi
  <2>1. /\ Push(acc, x) \in WindowAccumulator
        /\ Push(acc, x).samples = Append(acc.samples, x)
        /\ Push(acc, x).start = acc.start
        /\ Push(acc, x).ready = acc.ready
    BY <1>1, <1>2, <1>5, PushShort DEF x
  <2> QED
    BY <1>1, <1>2, <1>3, <1>5, <2>1 DEF PushJoins, x
<1>6. CASE Len(acc.samples) + 1 = Hi
  <2>1. \E at \in Lo..(Hi - 1), k \in Nat :
           LET all == Append(acc.samples, x)
               w   == [offset |-> samples_to_ms(acc.start), samples |-> SubSeq(all, 1, at)]
           IN /\ at = k * PerMs
              /\ w \in Window
              /\ Push(acc, x) \in WindowAccumulator
              /\ Push(acc, x).samples = SubSeq(all, at + 1, Hi)
              /\ Push(acc, x).start = acc.start + at
              /\ Push(acc, x).ready = Append(acc.ready, w)
    BY <1>1, <1>2, <1>6, PushCut DEF x
  <2> QED
    BY <1>1, <1>2, <1>3, <1>6, <2>1 DEF PushCuts, x
<1> QED
  BY <1>4, <1>5, <1>6

-----------------------------------------------------------------------------
\* Types.

LEMMA NewIsAccumulator == New \in WindowAccumulator
  BY DEF New, WindowAccumulator

LEMMA TypeInit == Init => TypeOK
<1> SUFFICES ASSUME Init PROVE TypeOK
  OBVIOUS
<1>1. <<>> \in Seq(Nat) /\ <<>> \in Seq(Window) /\ Len(<<>>) = 0
  OBVIOUS
<1>2. errMsg \in BOOLEAN /\ rxOpen \in BOOLEAN
  BY Zenon DEF Init
<1>3. acc \in WindowAccumulator
  BY NewIsAccumulator DEF Init
<1> QED
  BY <1>1, <1>2, <1>3 DEF Init, TypeOK

LEMMA ReadyHead ==
  ASSUME NEW a \in WindowAccumulator, a.ready # <<>>
  PROVE  /\ Head(a.ready) \in Window
         /\ TakeReady(a) \in WindowAccumulator
         /\ TakeReady(a).samples = a.samples /\ TakeReady(a).start = a.start
         /\ TakeReady(a).ready = Tail(a.ready)
<1>1. a.ready \in Seq(Window)
  BY DEF WindowAccumulator
<1>2. Head(a.ready) \in Window /\ Tail(a.ready) \in Seq(Window)
  BY <1>1, HeadTailProperties
<1> QED
  BY <1>2 DEF TakeReady, WindowAccumulator

LEMMA RemainderEffect ==
  ASSUME NEW a \in WindowAccumulator
  PROVE  /\ Remainder(a) \in Window
         /\ TakeRemainder(a) \in WindowAccumulator
         /\ TakeRemainder(a).samples = <<>>
         /\ TakeRemainder(a).start = a.start + Len(a.samples)
         /\ TakeRemainder(a).ready = a.ready
<1>1. a.samples \in Seq(Nat) /\ a.start \in Nat /\ Len(a.samples) \in Nat
  BY DEF WindowAccumulator
<1>2. samples_to_ms(a.start) \in Nat
  <2>1. PerMs \in Nat \ {0}
    BY CutterAssumption
  <2>2. a.start \div PerMs \in Nat
    BY SMTT(30), <1>1, <2>1
  <2> QED
    BY <2>2 DEF samples_to_ms
<1>3. a.start + Len(a.samples) \in Nat /\ <<>> \in Seq(Nat)
  BY <1>1
<1>4. Remainder(a) \in Window
  BY <1>1, <1>2 DEF Remainder, Window
<1> QED
  BY <1>3, <1>4 DEF TakeRemainder, WindowAccumulator

LEMMA TypeStep == IInv /\ [Next]_vars => TypeOK'
<1> SUFFICES ASSUME IInv, [Next]_vars PROVE TypeOK'
  OBVIOUS
<1>1. TypeOK
  BY DEF IInv
<1>2. /\ <<>> \in Seq(Nat) /\ <<>> \in Seq(Window) /\ Len(<<>>) = 0
      /\ \A s \in Seq(Window) : s # <<>> => Head(s) \in Window /\ Tail(s) \in Seq(Window)
      /\ \A s \in Seq(Window), w \in Window : Append(s, w) \in Seq(Window)
      /\ \A w \in Window : <<w>> \in Seq(Window) /\ Len(<<w>>) = 1
  OBVIOUS
<1>3. ASSUME NEW p \in Packets, NextPacket(p) PROVE TypeOK'
  <2>1. p \in Seq(Nat) /\ p # <<>>
    BY TranscriptionAssumption
  <2> QED
    BY <1>1, <1>3, <2>1 DEF TypeOK, NextPacket, conVars
<1>4. CASE EndOfStream \/ StreamError
  BY <1>1, <1>4 DEF TypeOK, EndOfStream, StreamError, conVars
<1>5. CASE PushSample
  <2>1. left \in Seq(Nat) /\ left # <<>> /\ Head(left) \in Nat /\ acc' \in WindowAccumulator
    BY <1>1, <1>5, PushEffect DEF TypeOK
  <2>2. /\ Tail(left) \in Seq(Nat) /\ (Len(left) = 1 <=> Tail(left) = <<>>)
        /\ Append(decoded, Head(left)) \in Seq(Nat)
    <3>1. Tail(left) \in Seq(Nat) /\ Len(Tail(left)) = Len(left) - 1 /\ Len(left) \in Nat
      BY <2>1, HeadTailProperties
    <3>2. Len(Tail(left)) = 0 <=> Tail(left) = <<>>
      BY <3>1, EmptySeq
    <3>3. decoded \in Seq(Nat)
      BY <1>1 DEF TypeOK
    <3>4. Append(decoded, Head(left)) \in Seq(Nat)
      BY <2>1, <3>3
    <3>5. Len(left) = 1 <=> Len(Tail(left)) = 0
      BY <3>1
    <3> QED
      BY <3>1, <3>2, <3>4, <3>5
  <2>3. dec' = IF Len(left) = 1 THEN "drain" ELSE "push"
    BY <1>5 DEF PushSample
  <2>4. left' = Tail(left)
    BY <1>5 DEF PushSample
  <2>5. dec' \in {"drain", "push"} /\ (dec' = "push" <=> left' # <<>>)
    BY <2>2, <2>3, <2>4
  <2>6. hand' = hand /\ Len(hand) = 0
    BY <1>1, <1>5 DEF TypeOK, PushSample
  <2> QED
    BY <1>1, <1>5, <2>1, <2>2, <2>5, <2>6 DEF TypeOK, PushSample, conVars
<1>6. CASE DrainReady
  <2>1. /\ Head(acc.ready) \in Window /\ TakeReady(acc) \in WindowAccumulator
    BY <1>1, <1>6, ReadyHead DEF TypeOK, DrainReady, HasReady
  <2> QED
    BY <1>1, <1>2, <1>6, <2>1 DEF TypeOK, DrainReady, conVars
<1>7. CASE Drained
  BY <1>1, <1>7 DEF TypeOK, Drained, conVars
<1>8. CASE Send
  <2>1. hand # <<>> /\ hand \in Seq(Window)
    <3>1. hand \in Seq(Window) /\ Len(hand) = 1
      BY <1>1, <1>8 DEF TypeOK, Send
    <3> QED
      BY <1>2, <3>1
  <2>2. Append(chan, Head(hand)) \in Seq(Window)
    BY <1>1, <1>2, <2>1 DEF TypeOK
  <2>3. /\ dec' \in {"drain", "done"} /\ hand' = <<>> /\ left' = left /\ left = <<>>
        /\ chan' \in Seq(Window)
    BY <1>1, <1>8, <2>2 DEF TypeOK, Send
  <2> QED
    BY <1>1, <1>2, <1>8, <2>3 DEF TypeOK, Send, conVars
<1>9. CASE SendRefused
  BY <1>1, <1>2, <1>9 DEF TypeOK, SendRefused, conVars
<1>10. CASE LastWindow
  <2>1. CASE HasRemainder(acc)
    <3>1. Remainder(acc) \in Window /\ TakeRemainder(acc) \in WindowAccumulator
      BY <1>1, RemainderEffect DEF TypeOK
    <3>2. hand' \in Seq(Window) /\ Len(hand') = 1 /\ acc' \in WindowAccumulator
      BY <1>2, <1>10, <2>1, <3>1 DEF LastWindow
    <3> QED
      BY <1>1, <1>10, <2>1, <3>2 DEF TypeOK, LastWindow, conVars
  <2>2. CASE ~HasRemainder(acc)
    BY <1>1, <1>10, <2>2 DEF TypeOK, LastWindow, conVars
  <2> QED
    BY <2>1, <2>2
<1>11. CASE SendError
  <2>1. errMsg' \in BOOLEAN
    BY <1>1, <1>11 DEF TypeOK, SendError
  <2> QED
    BY <1>1, <1>11, <2>1 DEF TypeOK, SendError, conVars
<1>12. CASE ReceiveWindow
  <2>1. Append(taken, Head(chan)) \in Seq(Window) /\ Tail(chan) \in Seq(Window)
    BY <1>1, <1>2, <1>12 DEF TypeOK, ReceiveWindow
  <2> QED
    BY <1>1, <1>12, <2>1 DEF TypeOK, ReceiveWindow, decVars
<1>13. CASE ReceiveError \/ Stop \/ TranscriptionFailed
  <2>1. /\ rxOpen' \in BOOLEAN /\ errMsg' \in BOOLEAN
        /\ closedAt' \in Nat /\ chan' \in Seq(Window)
    <3>1. DropReceiver
      BY <1>13 DEF ReceiveError, Stop, TranscriptionFailed
    <3>2. rxOpen' \in BOOLEAN /\ errMsg' \in BOOLEAN
      BY <3>1, Zenon DEF DropReceiver
    <3>3. closedAt' \in Nat /\ chan' \in Seq(Window)
      BY <1>1, <3>1 DEF TypeOK, DropReceiver
    <3> QED
      BY <3>2, <3>3
  <2>2. /\ con' \in {"join", "failed"} /\ prog' \in {"running", "over"}
        /\ UNCHANGED <<decVars, reports, taken>>
    BY <1>1, <1>13 DEF TypeOK, ReceiveError, Stop, TranscriptionFailed
  <2> QED
    BY <1>1, <2>1, <2>2 DEF TypeOK, Over, decVars
<1>14. CASE ReceiveNone \/ GoOn \/ Joined \/ Transcribed
  BY <1>1, <1>14 DEF TypeOK, ReceiveNone, GoOn, Joined, Transcribed, Over, decVars
<1>15. CASE ProgressStep
  <2>1. /\ UNCHANGED <<decVars, chan, errMsg, conVars>>
        /\ reports' \in Nat /\ prog' \in {"running", "over"}
    BY <1>1, <1>15 DEF TypeOK, ProgressStep, Report, NoMoreReports
  <2> QED
    BY <1>1, <2>1 DEF TypeOK, decVars, conVars
<1>16. CASE UNCHANGED vars
  BY <1>1, <1>16 DEF TypeOK, vars
<1> QED
  BY <1>3, <1>4, <1>5, <1>6, <1>7, <1>8, <1>9, <1>10, <1>11, <1>12, <1>13, <1>14,
     <1>15, <1>16 DEF Next, DecoderStep, ConsumerStep

-----------------------------------------------------------------------------
\* The accumulator holds the audio that no window has taken.

\* The window and the pushed sample are the audio from the window's start on.
LEMMA PushedAudio ==
  ASSUME IInv, PushSample
  PROVE  LET all == Append(acc.samples, Head(left)) IN
         /\ all \in Seq(Nat) /\ Len(all) = Len(acc.samples) + 1
         /\ acc.start \in Nat /\ Len(acc.samples) \in Nat /\ Len(decoded) \in Nat
         /\ acc.start + Len(acc.samples) = Len(decoded)
         /\ Len(decoded') = Len(decoded) + 1
         /\ \A j \in 1..Len(all) : all[j] = decoded'[acc.start + j]
<1> DEFINE x == Head(left)
           all == Append(acc.samples, x)
<1>1. x \in Nat
  BY PushEffect
<1>2. /\ acc \in WindowAccumulator /\ decoded \in Seq(Nat)
      /\ acc.samples \in Seq(Nat) /\ acc.start \in Nat
      /\ Len(acc.samples) \in Nat
  BY DEF IInv, TypeOK, WindowAccumulator
<1>3. acc.start \in Nat /\ Len(acc.samples) \in Nat /\ Len(decoded) \in Nat
  BY <1>2
<1>4. acc.start + Len(acc.samples) = Len(decoded)
  BY DEF IInv, AccInv
<1>5. \A j \in 1..Len(acc.samples) : acc.samples[j] = decoded[acc.start + j]
  BY DEF IInv, AccInv
<1>6. decoded' = Append(decoded, x)
  BY DEF PushSample
<1> HIDE DEF x
<1>7. /\ Len(decoded') = Len(decoded) + 1
      /\ decoded'[Len(decoded) + 1] = x
      /\ \A j \in 1..Len(decoded) : decoded'[j] = decoded[j]
  BY <1>1, <1>2, <1>6
<1>8. /\ all \in Seq(Nat) /\ Len(all) = Len(acc.samples) + 1
      /\ all[Len(acc.samples) + 1] = x
      /\ \A j \in 1..Len(acc.samples) : all[j] = acc.samples[j]
  BY <1>1, <1>2
<1> HIDE DEF all
<1>9. \A j \in 1..Len(all) : all[j] = decoded'[acc.start + j]
  <2> TAKE j \in 1..Len(all)
  <2>1. CASE j = Len(acc.samples) + 1
    <3>1. acc.start + j = Len(decoded) + 1
      BY <1>3, <1>4, <2>1
    <3> QED
      BY <1>7, <1>8, <2>1, <3>1
  <2>2. CASE j # Len(acc.samples) + 1
    <3>1. j \in 1..Len(acc.samples)
      <4>1. Len(all) = Len(acc.samples) + 1
        BY <1>8
      <4> QED
        BY <1>3, <2>2, <4>1
    <3>2. acc.start + j \in 1..Len(decoded)
      BY <1>3, <1>4, <3>1
    <3> QED
      BY <1>5, <1>7, <1>8, <3>1, <3>2
  <2> QED
    BY <2>1, <2>2
<1> QED
  BY <1>3, <1>4, <1>7, <1>8, <1>9 DEF all, x

LEMMA PushAcc == IInv /\ PushSample => AccInv'
<1> SUFFICES ASSUME IInv, PushSample PROVE AccInv'
  OBVIOUS
<1> DEFINE x == Head(left)
           all == Append(acc.samples, x)
<1>1. x \in Nat /\ acc' \in WindowAccumulator /\ (PushJoins(x) \/ PushCuts(x))
  BY PushEffect
<1>2. /\ Hi \in Nat /\ Lo \in Nat \ {0} /\ PerMs \in Nat \ {0}
  BY CutterAssumption
<1>3. /\ acc.start \in Nat /\ Len(acc.samples) \in Nat /\ Len(decoded) \in Nat
      /\ acc.start + Len(acc.samples) = Len(decoded)
      /\ Len(decoded') = Len(decoded) + 1
  BY PushedAudio
<1>4. \E k \in 0..acc.start : acc.start = k * PerMs
  BY DEF IInv, AccInv, Cutting, PushSample
<1>5. all \in Seq(Nat) /\ Len(all) = Len(acc.samples) + 1
  BY PushedAudio
<1>6. \A j \in 1..Len(all) : all[j] = decoded'[acc.start + j]
  BY PushedAudio
<1> HIDE DEF all, x
<1>7. CASE PushJoins(x)
  <2>1. /\ Len(acc.samples) + 1 < Hi /\ acc'.samples = all /\ acc'.start = acc.start
    BY <1>7 DEF PushJoins, all
  <2>2. acc'.start + Len(acc'.samples) = Len(decoded') /\ Len(acc'.samples) < Hi
    <3>1. /\ Len(acc'.samples) = Len(acc.samples) + 1
          /\ Len(decoded') = Len(decoded) + 1
          /\ acc'.start = acc.start
      BY <1>3, <1>5, <2>1
    <3> QED
      BY <1>3, <2>1, <3>1
  <2>3. \A j \in 1..Len(acc'.samples) : acc'.samples[j] = decoded'[acc'.start + j]
    BY <1>6, <2>1
  <2>4. \E k \in 0..acc'.start : acc'.start = k * PerMs
    BY <1>4, <2>1
  <2> QED
    BY <2>2, <2>3, <2>4 DEF AccInv
<1>8. CASE PushCuts(x)
  <2>1. PICK at \in Lo..(Hi - 1), k \in Nat :
          /\ at = k * PerMs
          /\ acc'.samples = SubSeq(all, at + 1, Hi)
          /\ acc'.start = acc.start + at
    BY <1>8 DEF PushCuts, all
  <2>2. Len(acc.samples) + 1 = Hi /\ Len(all) = Hi /\ at \in Nat /\ at < Hi /\ at >= 1
    BY <1>2, <1>5, <1>8 DEF PushCuts
  <2>3. /\ Len(acc'.samples) = Hi - at
        /\ \A j \in 1..(Hi - at) : acc'.samples[j] = all[at + j]
    <3>1. \A j \in (at + 1)..Hi : all[j] \in Nat
      BY <1>5, <2>2
    <3>2. /\ Len(SubSeq(all, at + 1, Hi)) = Hi - at
          /\ \A j \in 1..(Hi - (at + 1) + 1) : SubSeq(all, at + 1, Hi)[j] = all[at + 1 + j - 1]
      BY <1>2, <2>2, <3>1, SubSeqProperties
    <3>3. Hi - (at + 1) + 1 = Hi - at /\ \A j \in Nat : at + 1 + j - 1 = at + j
      BY <1>2, <2>2
    <3> QED
      BY <1>2, <2>1, <2>2, <3>2, <3>3
  <2>4. \A j \in 1..(Hi - at) : acc'.samples[j] = decoded'[acc'.start + j]
    <3> TAKE j \in 1..(Hi - at)
    <3>1. /\ at + j \in 1..Len(all)
          /\ acc.start + (at + j) = acc'.start + j
      BY <1>2, <1>3, <2>1, <2>2
    <3> QED
      BY <1>6, <2>3, <3>1
  <2>5. acc'.start + Len(acc'.samples) = Len(decoded')
    <3>1. Len(acc'.samples) = Hi - at /\ acc'.start = acc.start + at
      BY <2>1, <2>3
    <3> DEFINE a == acc.start
               m == Len(acc.samples)
               n == Len(decoded)
    <3>2. /\ a \in Nat /\ m \in Nat /\ n \in Nat /\ Hi \in Nat /\ at \in Nat
          /\ a + m = n /\ m + 1 = Hi
      BY <1>2, <1>3, <2>2
    <3> HIDE DEF a, m, n
    <3>3. (a + at) + (Hi - at) = n + 1
      BY <3>2
    <3> QED
      BY <1>3, <3>1, <3>3 DEF a, n
  <2>6. \E n \in 0..acc'.start : acc'.start = n * PerMs
    <3>1. PICK m \in 0..acc.start : acc.start = m * PerMs
      BY <1>4
    <3> DEFINE n == m + k
    <3>2. n \in Nat /\ acc'.start = n * PerMs /\ acc'.start \in Nat
      BY <1>2, <1>3, <2>1, <2>2, <3>1
    <3>3. n \in Nat /\ n <= n * PerMs
      BY <1>2, <3>2
    <3>4. n \in 0..acc'.start
      BY <3>2, <3>3
    <3> QED
      BY <3>2, <3>4
  <2>7. Len(acc'.samples) = Hi - at /\ Len(acc'.samples) < Hi
    BY <1>2, <2>2, <2>3
  <2>8. \A j \in 1..Len(acc'.samples) : acc'.samples[j] = decoded'[acc'.start + j]
    BY <2>4, <2>7
  <2> QED
    BY <2>5, <2>6, <2>7, <2>8 DEF AccInv
<1> QED
  BY <1>1, <1>7, <1>8

LEMMA AccStep == IInv /\ [Next]_vars => AccInv'
<1> SUFFICES ASSUME IInv, [Next]_vars PROVE AccInv'
  OBVIOUS
<1>1. AccInv /\ acc \in WindowAccumulator
  BY DEF IInv, TypeOK
<1>2. CASE PushSample
  BY <1>2, PushAcc
<1>3. CASE DrainReady
  <2>1. acc'.samples = acc.samples /\ acc'.start = acc.start /\ Cutting
    BY <1>1, <1>3, ReadyHead DEF DrainReady, HasReady, Cutting
  <2> QED
    BY <1>1, <1>3, <2>1 DEF AccInv, DrainReady
<1>4. CASE LastWindow
  <2>1. CASE HasRemainder(acc)
    <3>1. /\ acc'.samples = <<>> /\ acc'.start = acc.start + Len(acc.samples)
          /\ dec' = "sendLast" /\ decoded' = decoded
      BY <1>1, <1>4, <2>1, RemainderEffect DEF LastWindow
    <3>2. acc.start + Len(acc.samples) \in Nat /\ Hi \in Nat \ {0} /\ Len(<<>>) = 0
      BY <1>1, CutterAssumption DEF WindowAccumulator
    <3> QED
      BY <1>1, <3>1, <3>2 DEF AccInv, Cutting
  <2>2. CASE ~HasRemainder(acc)
    BY <1>1, <1>4, <2>2 DEF LastWindow, AccInv, Cutting
  <2> QED
    BY <2>1, <2>2
<1>5. CASE \/ \E p \in Packets : NextPacket(p)
           \/ EndOfStream \/ StreamError \/ Drained \/ Send \/ SendRefused \/ SendError
  <2>1. acc' = acc /\ decoded' = decoded /\ (Cutting' => Cutting)
    BY <1>5 DEF NextPacket, EndOfStream, StreamError, Drained, Send, SendRefused,
                SendError, Cutting
  <2> QED
    BY <1>1, <2>1 DEF AccInv
<1>6. CASE ConsumerStep \/ ProgressStep \/ UNCHANGED vars
  <2>1. UNCHANGED decVars
    BY <1>6 DEF ConsumerStep, ProgressStep, ReceiveWindow, ReceiveError, ReceiveNone,
                GoOn, Stop, Joined, Transcribed, TranscriptionFailed, Report,
                NoMoreReports, vars, decVars
  <2> QED
    BY <1>1, <2>1 DEF AccInv, Cutting, decVars
<1> QED
  BY <1>2, <1>3, <1>4, <1>5, <1>6 DEF Next, DecoderStep

-----------------------------------------------------------------------------
\* The buffers.

LEMMA BufferStep == IInv /\ [Next]_vars => BufferInv'
<1> SUFFICES ASSUME IInv, [Next]_vars PROVE BufferInv'
  OBVIOUS
<1>1. BufferInv /\ TypeOK
  BY DEF IInv
<1>2. /\ WindowQueue \in Nat /\ Lo \in Nat \ {0} /\ Hi \in Nat
  BY CutterAssumption, TranscriptionAssumption
<1>3. ASSUME NEW p \in Packets, NextPacket(p) PROVE BufferInv'
  BY <1>1, <1>3, TranscriptionAssumption DEF BufferInv, NextPacket
<1>4. CASE PushSample
  <2> DEFINE x == Head(left)
  <2>1. /\ left \in Seq(Nat) /\ left # <<>>
        /\ acc \in WindowAccumulator /\ acc' \in WindowAccumulator
        /\ PushJoins(x) \/ PushCuts(x)
        /\ x \in Nat
    BY <1>1, <1>4, PushEffect DEF TypeOK
  <2>2. /\ Len(left') = Len(left) - 1 /\ Len(left) \in Nat /\ Len(left) >= 1
        /\ dec = "push" /\ dec' \in {"push", "drain"} /\ chan' = chan
    BY <2>1, <1>4, HeadTailProperties DEF PushSample
  <2>3. /\ Len(acc.samples) \in Nat /\ acc.samples \in Seq(Nat)
        /\ acc.ready \in Seq(Window)
    BY <2>1 DEF WindowAccumulator
  <2>4. Len(Append(acc.samples, x)) = Len(acc.samples) + 1
    BY <2>3
  <2> HIDE DEF x
  <2>5. CASE PushJoins(x)
    <3>1. acc'.ready = acc.ready /\ Len(acc'.samples) = Len(acc.samples) + 1
      BY <2>4, <2>5 DEF PushJoins
    <3> QED
      BY <1>1, <1>2, <2>2, <2>3, <3>1 DEF BufferInv
  <2>6. CASE PushCuts(x)
    <3>1. Len(acc.samples) + 1 = Hi
      BY <2>6 DEF PushCuts
    <3>2. acc.ready = <<>>
      <4>1. acc.ready # <<>> => Len(acc.samples) + Len(left) < Hi
        BY <1>1 DEF BufferInv
      <4> QED
        BY <1>2, <2>2, <2>3, <3>1, <4>1
    <3>3. PICK at \in Lo..(Hi - 1), w \in Window :
            /\ acc'.samples = SubSeq(Append(acc.samples, x), at + 1, Hi)
            /\ acc'.ready = Append(acc.ready, w)
      BY <2>6 DEF PushCuts
    <3>4. Len(acc'.ready) = 1
      BY <2>3, <3>2, <3>3
    <3>5. Len(acc'.samples) = Hi - at
      <4>1. \A j \in (at + 1)..Hi : Append(acc.samples, x)[j] \in Nat
        <5>1. x \in Nat /\ Len(Append(acc.samples, x)) = Hi
          BY <2>1, <2>4, <3>1
        <5>2. Append(acc.samples, x) \in Seq(Nat)
          BY <2>3, <5>1
        <5>3. (at + 1)..Hi \subseteq 1..Hi
          BY <1>2, <3>3
        <5> QED
          BY <5>1, <5>2, <5>3, ElementOfSeq
      <4>2. Len(SubSeq(Append(acc.samples, x), at + 1, Hi)) = Hi - (at + 1) + 1
        BY <1>2, <3>3, <4>1, SubSeqProperties
      <4> QED
        BY <1>2, <3>3, <4>2
    <3>6. Len(acc'.samples) + Len(left') < Hi /\ Len(left') <= Lo
      BY <1>1, <1>2, <2>2, <3>3, <3>5 DEF BufferInv
    <3> QED
      BY <1>1, <2>2, <3>4, <3>6 DEF BufferInv
  <2> QED
    BY <2>1, <2>5, <2>6
<1>5. CASE DrainReady
  <2>1. acc'.ready = Tail(acc.ready) /\ acc.ready # <<>> /\ acc.ready \in Seq(Window)
    BY <1>1, <1>5, ReadyHead DEF TypeOK, WindowAccumulator, DrainReady, HasReady
  <2>2. Len(acc.ready) = 1
    BY <1>1, <2>1 DEF BufferInv
  <2>3. Len(Tail(acc.ready)) = 0 /\ Tail(acc.ready) \in Seq(Window)
    BY <2>1, <2>2, HeadTailProperties
  <2>4. acc'.ready = <<>>
    BY <2>1, <2>3, EmptySeq
  <2> QED
    BY <1>1, <1>5, <2>4 DEF BufferInv, DrainReady
<1>6. CASE Drained
  BY <1>1, <1>6 DEF BufferInv, Drained, HasReady
<1>7. CASE Send
  <2>1. Len(chan') <= WindowQueue
    BY <1>1, <1>2, <1>7 DEF TypeOK, Send
  <2> QED
    BY <1>1, <1>7, <2>1 DEF BufferInv, Send
<1>8. CASE LastWindow
  <2>1. acc'.ready = acc.ready
    BY <1>1, <1>8, RemainderEffect DEF LastWindow, TypeOK
  <2> QED
    BY <1>1, <1>8, <2>1 DEF BufferInv, LastWindow
<1>9. CASE EndOfStream \/ StreamError \/ SendRefused \/ SendError
  BY <1>1, <1>9 DEF BufferInv, EndOfStream, StreamError, SendRefused, SendError
<1>10. CASE ConsumerStep \/ ProgressStep \/ UNCHANGED vars
  <2>1. UNCHANGED decVars
    BY <1>10 DEF ConsumerStep, ProgressStep, ReceiveWindow, ReceiveError, ReceiveNone,
                 GoOn, Stop, Joined, Transcribed, TranscriptionFailed, Report,
                 NoMoreReports, vars, decVars
  <2>2. chan' \in {chan, <<>>} \/ (chan # <<>> /\ chan' = Tail(chan))
    BY <1>10 DEF ConsumerStep, ProgressStep, ReceiveWindow, ReceiveError, ReceiveNone,
                 GoOn, Stop, Joined, Transcribed, TranscriptionFailed, Report,
                 NoMoreReports, vars, DropReceiver
  <2>3. Len(chan') <= WindowQueue
    <3>1. chan \in Seq(Window) /\ Len(chan) \in Nat /\ Len(<<>>) = 0
      BY <1>1 DEF TypeOK
    <3>2. chan # <<>> => Len(Tail(chan)) = Len(chan) - 1
      BY <3>1, HeadTailProperties
    <3> QED
      BY <1>1, <1>2, <2>2, <3>1, <3>2 DEF BufferInv
  <2> QED
    BY <1>1, <2>1, <2>3 DEF BufferInv, decVars
<1> QED
  BY <1>3, <1>4, <1>5, <1>6, <1>7, <1>8, <1>9, <1>10 DEF Next, DecoderStep

-----------------------------------------------------------------------------
\* The end of the stream, and the end of the receiver.

LEMMA SliverStep == IInv /\ [Next]_vars => SliverInv'
<1> SUFFICES ASSUME IInv, [Next]_vars PROVE SliverInv'
  OBVIOUS
<1>1. SliverInv /\ TypeOK
  BY DEF IInv
<1>2. CASE LastWindow
  <2>1. Len(acc'.samples) < MinTail
    <3>1. CASE HasRemainder(acc)
      <4>1. acc'.samples = <<>>
        BY <1>1, <1>2, <3>1, RemainderEffect DEF LastWindow, TypeOK
      <4>2. Len(<<>>) = 0 /\ MinTail \in Nat \ {0}
        BY CutterAssumption
      <4> QED
        BY <4>1, <4>2
    <3>2. CASE ~HasRemainder(acc)
      <4>1. Len(acc.samples) \in Nat /\ MinTail \in Nat /\ acc' = acc
        BY <1>1, <1>2, <3>2, CutterAssumption DEF LastWindow, TypeOK, WindowAccumulator
      <4> QED
        BY <3>2, <4>1 DEF HasRemainder
    <3> QED
      BY <3>1, <3>2
  <2>2. errMsg' = errMsg /\ rxOpen' = rxOpen /\ con' = con /\ dec = "remainder"
    BY <1>2 DEF LastWindow, conVars
  <2> QED
    BY <1>1, <2>1, <2>2 DEF SliverInv
<1>3. CASE PushSample \/ DrainReady
  BY <1>1, <1>3 DEF SliverInv, PushSample, DrainReady, conVars
<1>4. CASE \/ \E p \in Packets : NextPacket(p)
           \/ EndOfStream \/ StreamError \/ Drained
  BY <1>1, <1>4 DEF SliverInv, NextPacket, EndOfStream, StreamError, Drained, conVars
<1>5. CASE Send \/ SendRefused \/ SendError
  <2>1. CASE Send
    BY <1>1, <2>1 DEF SliverInv, Send, conVars
  <2>2. CASE SendRefused
    BY <1>1, <2>2 DEF SliverInv, SendRefused, conVars
  <2>3. CASE SendError
    <3>1. /\ dec = "sendError" /\ dec' = "done" /\ errMsg' = rxOpen
          /\ rxOpen' = rxOpen /\ con' = con /\ chan' = chan
      BY <2>3 DEF SendError, conVars
    <3> QED
      BY <1>1, <3>1 DEF SliverInv
  <2> QED
    BY <1>5, <2>1, <2>2, <2>3
<1>6. CASE ReceiveWindow \/ ReceiveError \/ ReceiveNone \/ GoOn \/ Stop \/ Joined
           \/ Transcribed \/ TranscriptionFailed
  BY <1>1, <1>6
     DEF SliverInv, TypeOK, ReceiveWindow, ReceiveError, ReceiveNone, GoOn, Stop, Joined,
         Transcribed, TranscriptionFailed, DropReceiver, decVars
<1>7. CASE ProgressStep \/ UNCHANGED vars
  BY <1>1, <1>7 DEF SliverInv, ProgressStep, Report, NoMoreReports, vars, decVars, conVars
<1> QED
  BY <1>2, <1>3, <1>4, <1>5, <1>6, <1>7 DEF Next, DecoderStep, ConsumerStep

-----------------------------------------------------------------------------
\* How far a decoder comes that nobody listens to.

LEMMA StopStep == IInv /\ [Next]_vars => StopInv'
<1> SUFFICES ASSUME IInv, [Next]_vars, ~rxOpen' PROVE StopInv'
  BY DEF StopInv
<1> DEFINE n == Len(decoded)
           m == Len(acc.samples)
           l == Len(left)
<1>1. /\ TypeOK /\ BufferInv /\ StopInv
      /\ Hi \in Nat \ {0} /\ Lo \in Nat \ {0}
      /\ n \in Nat /\ m \in Nat /\ l \in Nat /\ closedAt \in Nat
      /\ m < Hi /\ l <= Lo
  BY SMTT(30), CutterAssumption DEF IInv, AccInv, BufferInv, TypeOK, WindowAccumulator
<1>2. ASSUME NEW p \in Packets, NextPacket(p) PROVE StopInv'
  <2>1. /\ ~rxOpen /\ dec = "packet" /\ closedAt' = closedAt /\ decoded' = decoded
        /\ acc' = acc /\ left' = p
    BY <1>2 DEF NextPacket, conVars
  <2>2. acc.ready = <<>>
    BY <1>1, <2>1 DEF BufferInv
  <2>3. closedAt <= n /\ n <= closedAt + m
    BY <1>1, <2>1, <2>2 DEF StopInv
  <2>4. Len(p) \in Nat /\ Len(p) <= Lo
    BY TranscriptionAssumption
  <2>5. n + Len(p) < closedAt + Hi + Lo
    BY <1>1, <2>3, <2>4
  <2> QED
    BY <2>1, <2>3, <2>5 DEF StopInv
<1>3. CASE PushSample
  <2> DEFINE x == Head(left)
  <2>1. /\ ~rxOpen /\ closedAt' = closedAt /\ dec = "push" /\ left' = Tail(left)
    BY <1>3 DEF PushSample, conVars
  <2>2. /\ Len(decoded') = n + 1 /\ Len(Append(acc.samples, x)) = m + 1
    BY <1>3, PushedAudio
  <2>3. /\ left \in Seq(Nat) /\ left # <<>> /\ (PushJoins(x) \/ PushCuts(x))
    BY <1>1, <1>3, PushEffect DEF TypeOK
  <2>4. Len(left') = l - 1 /\ l >= 1
    BY <2>1, <2>3, HeadTailProperties
  <2>5. closedAt <= n /\ n + l < closedAt + Hi + Lo
    BY <1>1, <2>1 DEF StopInv
  <2>6. closedAt <= Len(decoded') /\ Len(decoded') + Len(left') < closedAt + Hi + Lo
    BY <1>1, <2>2, <2>4, <2>5
  <2>7. acc'.ready = <<>> => Len(decoded') <= closedAt + Len(acc'.samples)
    <3>1. CASE PushJoins(x)
      <4>1. acc'.ready = acc.ready /\ Len(acc'.samples) = m + 1
        BY <2>2, <3>1 DEF PushJoins
      <4>2. acc.ready = <<>> => n <= closedAt + m
        BY <1>1, <2>1 DEF StopInv
      <4> QED
        BY <1>1, <2>2, <4>1, <4>2
    <3>2. CASE PushCuts(x)
      <4>1. PICK w \in Window : acc'.ready = Append(acc.ready, w)
        BY <3>2 DEF PushCuts
      <4>2. acc.ready \in Seq(Window)
        BY <1>1 DEF TypeOK, WindowAccumulator
      <4>3. Append(acc.ready, w) # <<>>
        BY <4>1, <4>2, AppendProperties
      <4> QED
        BY <4>1, <4>3
    <3> QED
      BY <2>3, <3>1, <3>2
  <2> QED
    BY <2>1, <2>6, <2>7 DEF StopInv
<1>4. CASE DrainReady \/ LastWindow
  <2>1. /\ ~rxOpen /\ closedAt' = closedAt /\ decoded' = decoded /\ left' = left
        /\ dec' \in {"send", "sendLast", "done"}
    BY <1>4 DEF DrainReady, LastWindow, conVars
  <2> QED
    BY <1>1, <2>1 DEF StopInv
<1>5. CASE EndOfStream \/ StreamError \/ Drained \/ SendRefused \/ SendError
  <2>1. /\ ~rxOpen /\ UNCHANGED <<closedAt, decoded, left, acc>>
        /\ dec' \in {"packet", "remainder"} => dec \in {"packet", "drain"}
        /\ dec' \notin {"push", "drain"}
    BY <1>5 DEF EndOfStream, StreamError, Drained, SendRefused, SendError, conVars
  <2> QED
    BY <1>1, <2>1 DEF StopInv
<1>6. CASE ReceiveError \/ Stop \/ TranscriptionFailed
  <2>1. /\ closedAt' = n /\ UNCHANGED <<dec, acc, left, decoded>>
    BY <1>6 DEF ReceiveError, Stop, TranscriptionFailed, DropReceiver, decVars
  <2>2. n + l < n + Hi + Lo /\ n <= n + m
    BY <1>1
  <2> QED
    BY <1>1, <2>1, <2>2 DEF StopInv
<1>7. CASE Send
  BY <1>7 DEF Send, conVars
<1>8. CASE ReceiveWindow \/ ReceiveNone \/ GoOn \/ Joined \/ Transcribed
           \/ ProgressStep \/ UNCHANGED vars
  <2>1. UNCHANGED <<rxOpen, closedAt, dec, acc, left, decoded>>
    BY <1>8 DEF ReceiveWindow, ReceiveNone, GoOn, Joined, Transcribed, ProgressStep,
                Report, NoMoreReports, vars, decVars, conVars
  <2> QED
    BY <1>1, <2>1 DEF StopInv
<1> QED
  BY <1>2, <1>3, <1>4, <1>5, <1>6, <1>7, <1>8 DEF Next, DecoderStep, ConsumerStep

-----------------------------------------------------------------------------
\* The line of windows.

\* A window handed to the end of the part before it keeps its place.
LEMMA HandedOn ==
  ASSUME NEW s \in Seq(Window), NEW t \in Seq(Window), t # <<>>
  PROVE  Append(s, Head(t)) \o Tail(t) = s \o t
<1>1. /\ Head(t) \in Window /\ Tail(t) \in Seq(Window) /\ Len(Tail(t)) = Len(t) - 1
      /\ \A i \in 1..Len(Tail(t)) : Tail(t)[i] = t[i + 1]
  BY HeadTailProperties
<1>2. Head(t) = t[1] /\ Len(s) \in Nat /\ Len(t) \in Nat \ {0}
  BY EmptySeq
<1>3. /\ Append(s, Head(t)) \in Seq(Window) /\ Len(Append(s, Head(t))) = Len(s) + 1
      /\ \A i \in 1..Len(s) : Append(s, Head(t))[i] = s[i]
      /\ Append(s, Head(t))[Len(s) + 1] = Head(t)
  BY <1>1
<1> DEFINE a == Append(s, Head(t)) \o Tail(t)
           b == s \o t
<1>4. /\ a \in Seq(Window) /\ Len(a) = Len(s) + Len(t)
      /\ \A i \in 1..(Len(s) + Len(t)) :
           a[i] = IF i <= Len(s) + 1 THEN Append(s, Head(t))[i] ELSE Tail(t)[i - (Len(s) + 1)]
  <2>1. (Len(s) + 1) + (Len(t) - 1) = Len(s) + Len(t)
    BY <1>2
  <2> QED
    BY <1>1, <1>3, <2>1, ConcatProperties
<1>5. /\ b \in Seq(Window) /\ Len(b) = Len(s) + Len(t)
      /\ \A i \in 1..(Len(s) + Len(t)) : b[i] = IF i <= Len(s) THEN s[i] ELSE t[i - Len(s)]
  BY ConcatProperties
<1> HIDE DEF a, b
<1>6. ASSUME NEW i \in 1..(Len(s) + Len(t)) PROVE a[i] = b[i]
  <2>1. CASE i <= Len(s)
    BY <1>2, <1>3, <1>4, <1>5, <2>1
  <2>2. CASE i = Len(s) + 1
    <3>1. b[i] = t[1]
      BY <1>2, <1>5, <2>2
    <3>2. a[i] = Head(t)
      BY <1>2, <1>3, <1>4, <2>2
    <3> QED
      BY <1>2, <3>1, <3>2
  <2>3. CASE i > Len(s) + 1
    <3> DEFINE k == i - (Len(s) + 1)
    <3>1. k \in 1..Len(Tail(t)) /\ k + 1 = i - Len(s)
      BY <1>1, <1>2, <2>3
    <3>2. a[i] = Tail(t)[k] /\ b[i] = t[i - Len(s)]
      BY <1>2, <1>4, <1>5, <2>3
    <3> QED
      BY <1>1, <3>1, <3>2
  <2> QED
    BY <1>2, <2>1, <2>2, <2>3
<1>7. a = b
  BY <1>4, <1>5, <1>6, SeqEqual
<1> QED
  BY <1>7 DEF a, b

\* A window appended to the last part is appended to the whole.
LEMMA AppendLast ==
  ASSUME NEW s \in Seq(Window), NEW t \in Seq(Window), NEW w \in Window
  PROVE  s \o Append(t, w) = Append(s \o t, w)
<1>1. <<w>> \in Seq(Window) /\ s \o t \in Seq(Window)
  BY ConcatProperties
<1>2. Append(t, w) = t \o <<w>> /\ Append(s \o t, w) = (s \o t) \o <<w>>
  BY <1>1, AppendIsConcat
<1>3. (s \o t) \o <<w>> = s \o (t \o <<w>>)
  BY <1>1, ConcatAssociative
<1> QED
  BY <1>2, <1>3

\* The parts of Flow.
LEMMA FlowParts ==
  ASSUME TypeOK
  PROVE  /\ taken \in Seq(Window) /\ chan \in Seq(Window) /\ hand \in Seq(Window)
         /\ acc.ready \in Seq(Window)
         /\ taken \o chan \in Seq(Window) /\ (taken \o chan) \o hand \in Seq(Window)
         /\ Flow \in Seq(Window)
<1>1. /\ taken \in Seq(Window) /\ chan \in Seq(Window) /\ hand \in Seq(Window)
      /\ acc.ready \in Seq(Window)
  BY DEF TypeOK, WindowAccumulator
<1>2. taken \o chan \in Seq(Window)
  BY <1>1, ConcatProperties
<1>3. (taken \o chan) \o hand \in Seq(Window)
  BY <1>1, <1>2, ConcatProperties
<1>4. Flow \in Seq(Window)
  BY <1>1, <1>3, ConcatProperties DEF Flow
<1> QED
  BY <1>1, <1>2, <1>3, <1>4

\* A sequence of one window.
LEMMA SingleWindow ==
  ASSUME NEW s \in Seq(Window), Len(s) = 1
  PROVE  s # <<>> /\ Head(s) \in Window /\ s = <<Head(s)>> /\ Tail(s) = <<>>
<1>1. s # <<>> /\ Head(s) \in Window /\ Head(s) = s[1]
  <2>1. s # <<>>
    BY EmptySeq
  <2> QED
    BY <2>1, HeadTailProperties
<1>2. <<Head(s)>> \in Seq(Window) /\ Len(<<Head(s)>>) = 1 /\ <<Head(s)>>[1] = Head(s)
  BY <1>1
<1>3. s = <<Head(s)>>
  BY <1>1, <1>2, SeqEqual
<1>4. Tail(s) \in Seq(Window) /\ Len(Tail(s)) = 0
  BY <1>1, HeadTailProperties
<1> QED
  BY <1>1, <1>3, <1>4, EmptySeq

\* Sending, taking and receiving a window move nobody in the line.
LEMMA Transfers ==
  ASSUME IInv, Send \/ DrainReady \/ ReceiveWindow
  PROVE  Flow' = Flow
<1>1. TypeOK /\ BufferInv
  BY DEF IInv
<1>2. CASE Send
  <2>1. Len(hand) = 1
    BY <1>1, <1>2 DEF TypeOK, Send
  <2>2. hand = <<Head(hand)>> /\ Head(hand) \in Window
    BY <2>1, FlowParts, SingleWindow, <1>1
  <2>3. /\ taken' = taken /\ chan' = Append(chan, Head(hand)) /\ hand' = <<>>
        /\ acc' = acc
    BY <1>2 DEF Send, conVars
  <2>4. taken \o chan' = Append(taken \o chan, Head(hand))
    BY <1>1, <2>2, <2>3, FlowParts, AppendLast
  <2>5. (taken \o chan') \o hand' = (taken \o chan) \o hand
    <3> DEFINE front == taken \o chan
    <3>1. front \in Seq(Window) /\ front \o hand \in Seq(Window)
      BY <1>1, FlowParts
    <3>2. taken \o chan' = front \o hand
      BY <2>2, <2>4, <3>1, AppendIsConcat
    <3> HIDE DEF front
    <3>3. (front \o hand) \o <<>> = front \o hand
      BY <3>1, ConcatEmptySeq
    <3> QED
      BY <2>3, <3>2, <3>3 DEF front
  <2> QED
    BY <2>3, <2>5 DEF Flow
<1>3. CASE DrainReady
  <2>1. /\ taken' = taken /\ chan' = chan /\ hand' = <<Head(acc.ready)>>
        /\ acc.ready # <<>> /\ acc'.ready = Tail(acc.ready) /\ dec = "drain"
    BY <1>1, <1>3, ReadyHead DEF TypeOK, DrainReady, HasReady, conVars
  <2>2. hand = <<>>
    BY <1>1, <2>1, EmptySeq DEF TypeOK
  <2>3. Len(acc.ready) = 1
    BY <1>1, <2>1 DEF BufferInv
  <2>4. acc.ready = hand' /\ acc'.ready = <<>>
    BY <1>1, <2>1, <2>3, FlowParts, SingleWindow
  <2>5. Flow' = ((taken \o chan) \o acc.ready) \o <<>>
    BY <2>1, <2>4 DEF Flow
  <2>6. Flow = ((taken \o chan) \o <<>>) \o acc.ready
    BY <2>2 DEF Flow
  <2>7. (taken \o chan) \o acc.ready \in Seq(Window)
    BY <1>1, FlowParts, ConcatProperties
  <2> QED
    BY <1>1, <2>5, <2>6, <2>7, FlowParts, ConcatEmptySeq
<1>4. CASE ReceiveWindow
  <2>1. /\ taken' = Append(taken, Head(chan)) /\ chan' = Tail(chan) /\ chan # <<>>
        /\ hand' = hand /\ acc' = acc
    BY <1>4 DEF ReceiveWindow, decVars
  <2>2. taken' \o chan' = taken \o chan
    BY <1>1, <2>1, FlowParts, HandedOn
  <2> QED
    BY <2>1, <2>2 DEF Flow
<1> QED
  BY <1>2, <1>3, <1>4

\* A window that joins the line names its place.
LEMMA InMilliseconds ==
  ASSUME NEW k \in Nat
  PROVE  (k * PerMs) \div PerMs = k
<1>1. PerMs \in Nat \ {0}
  BY CutterAssumption
<1> QED
  BY <1>1

LEMMA InFlow ==
  ASSUME NEW f \in Seq(Window), FlowInv, rxOpen, f = Flow, Cutting,
         TypeOK, AccInv
  PROVE  /\ Chain(decoded, f) /\ EndOf(f) = acc.start /\ Full(f)
         /\ samples_to_ms(acc.start) * PerMs = acc.start
<1>1. PICK k \in 0..acc.start : acc.start = k * PerMs
  BY DEF AccInv
<1>2. k \in Nat
  BY <1>1 DEF TypeOK, WindowAccumulator
<1>3. (k * PerMs) \div PerMs = k
  BY <1>2, InMilliseconds
<1>4. samples_to_ms(acc.start) * PerMs = acc.start
  BY <1>1, <1>3 DEF samples_to_ms
<1> QED
  BY <1>4 DEF FlowInv

LEMMA PushFlow == IInv /\ PushSample => FlowInv'
<1> SUFFICES ASSUME IInv, PushSample, rxOpen PROVE FlowInv'
  BY DEF PushSample, conVars, FlowInv
<1> DEFINE x == Head(left)
           all == Append(acc.samples, x)
<1>1. x \in Nat /\ (PushJoins(x) \/ PushCuts(x))
  BY PushEffect
<1>2. /\ TypeOK /\ AccInv /\ Cutting /\ Flow \in Seq(Window) /\ decoded \in Seq(Nat)
      /\ taken' = taken /\ chan' = chan /\ hand' = hand
      /\ decoded' = Append(decoded, x)
  BY FlowParts DEF IInv, TypeOK, Cutting, PushSample, conVars
<1>3. /\ Chain(decoded, Flow) /\ EndOf(Flow) = acc.start /\ Full(Flow)
      /\ samples_to_ms(acc.start) * PerMs = acc.start
  BY <1>2, InFlow DEF IInv
<1>4. Chain(decoded', Flow)
  BY <1>1, <1>2, <1>3, ChainLonger
<1>5. /\ all \in Seq(Nat) /\ Len(all) = Len(acc.samples) + 1
      /\ acc.start \in Nat /\ Len(acc.samples) \in Nat /\ Len(decoded) \in Nat
      /\ acc.start + Len(acc.samples) = Len(decoded)
      /\ Len(decoded') = Len(decoded) + 1
  BY PushedAudio
<1>6. \A j \in 1..Len(all) : all[j] = decoded'[acc.start + j]
  BY PushedAudio
<1> HIDE DEF all, x
<1>7. CASE PushJoins(x)
  <2>1. acc'.ready = acc.ready /\ acc'.start = acc.start
    BY <1>7 DEF PushJoins
  <2>2. Flow' = Flow
    BY <1>2, <2>1 DEF Flow
  <2> QED
    BY <1>3, <1>4, <2>1, <2>2 DEF FlowInv
<1>8. CASE PushCuts(x)
  <2> DEFINE W(at) == [offset |-> samples_to_ms(acc.start), samples |-> SubSeq(all, 1, at)]
  <2>1. PICK at \in Lo..(Hi - 1) :
          /\ W(at) \in Window
          /\ acc'.start = acc.start + at
          /\ acc'.ready = Append(acc.ready, W(at))
    BY <1>8 DEF PushCuts, all
  <2> DEFINE w == W(at)
  <2>2. /\ Hi \in Nat /\ Lo \in Nat \ {0} /\ MinTail \in Nat /\ MinTail <= Lo
        /\ at \in Nat /\ at < Hi /\ at >= Lo /\ at >= 1
        /\ Len(acc.samples) + 1 = Hi
    <3>1. Len(acc.samples) + 1 = Hi
      BY <1>8 DEF PushCuts
    <3>2. Hi \in Nat /\ Lo \in Nat \ {0} /\ MinTail \in Nat /\ MinTail <= Lo
      BY CutterAssumption
    <3> QED
      BY <3>1, <3>2
  <2>3. /\ Len(w.samples) = at
        /\ \A j \in 1..at : w.samples[j] = all[j]
    <3>1. \A j \in 1..at : all[j] \in Nat
      BY <1>5, <2>2
    <3>2. /\ Len(SubSeq(all, 1, at)) = at - 1 + 1
          /\ \A j \in 1..(at - 1 + 1) : SubSeq(all, 1, at)[j] = all[1 + j - 1]
      BY <2>2, <3>1, SubSeqProperties
    <3>3. at - 1 + 1 = at /\ \A j \in Nat : 1 + j - 1 = j
      BY <2>2
    <3> QED
      BY <2>2, <3>2, <3>3
  <2>4. Begin(w) = acc.start
    BY <1>3 DEF Begin
  <2> HIDE DEF w
  <2>5. w \in Window /\ acc'.ready = Append(acc.ready, w)
    BY <2>1 DEF w
  <2>6. End(w) = acc'.start
    BY <2>1, <2>3, <2>4 DEF End
  <2>7. Faithful(decoded', w)
    <3>1. End(w) <= Len(decoded')
      BY <1>5, <2>1, <2>2, <2>6
    <3>2. \A j \in 1..Len(w.samples) : w.samples[j] = decoded'[Begin(w) + j]
      <4> TAKE j \in 1..Len(w.samples)
      <4>1. j \in 1..at /\ j \in 1..Len(all)
        BY <1>5, <2>2, <2>3
      <4> QED
        BY <1>6, <2>3, <2>4, <4>1
    <3> QED
      BY <3>1, <3>2 DEF Faithful
  <2>8. Flow' = Append(Flow, w)
    <3> DEFINE front == (taken \o chan) \o hand
    <3>1. front \in Seq(Window) /\ acc.ready \in Seq(Window)
      BY <1>2, FlowParts
    <3>2. Flow = front \o acc.ready /\ Flow' = front \o Append(acc.ready, w)
      BY <1>2, <2>5 DEF Flow
    <3> HIDE DEF front
    <3>3. front \o Append(acc.ready, w) = Append(front \o acc.ready, w)
      BY <2>5, <3>1, AppendLast
    <3> QED
      BY <3>2, <3>3
  <2>9. Len(w.samples) < Hi /\ Len(w.samples) >= MinTail /\ Len(w.samples) >= Lo
    BY <2>2, <2>3
  <2>10. /\ Chain(decoded', Append(Flow, w)) /\ EndOf(Append(Flow, w)) = End(w)
         /\ Full(Append(Flow, w))
    BY <1>2, <1>3, <1>4, <2>4, <2>5, <2>7, <2>9, ChainAppend
  <2> QED
    BY <2>6, <2>8, <2>10 DEF FlowInv
<1> QED
  BY <1>1, <1>7, <1>8

LEMMA LastWindowFlow == IInv /\ LastWindow => FlowInv'
<1> SUFFICES ASSUME IInv, LastWindow, rxOpen PROVE FlowInv'
  BY DEF LastWindow, conVars, FlowInv
<1>1. /\ TypeOK /\ AccInv /\ Cutting /\ Flow \in Seq(Window) /\ decoded' = decoded
      /\ taken' = taken /\ chan' = chan
      /\ acc \in WindowAccumulator /\ dec = "remainder"
  BY FlowParts DEF IInv, TypeOK, Cutting, LastWindow, conVars
<1>2. /\ Chain(decoded, Flow) /\ EndOf(Flow) = acc.start /\ Full(Flow)
      /\ samples_to_ms(acc.start) * PerMs = acc.start
  BY <1>1, InFlow DEF IInv
<1>3. acc.ready = <<>> /\ hand = <<>>
  <2>1. acc.ready = <<>>
    BY <1>1 DEF IInv, BufferInv
  <2>2. hand \in Seq(Window) /\ Len(hand) = 0
    BY <1>1 DEF TypeOK
  <2> QED
    BY <2>1, <2>2, EmptySeq
<1>4. CASE ~HasRemainder(acc)
  <2>1. Flow' = Flow /\ acc' = acc
    BY <1>1, <1>4 DEF LastWindow, Flow
  <2> QED
    BY <1>1, <1>2, <2>1 DEF FlowInv
<1>5. CASE HasRemainder(acc)
  <2> DEFINE w == Remainder(acc)
  <2>1. /\ w \in Window /\ acc'.start = acc.start + Len(acc.samples)
        /\ acc'.ready = <<>> /\ hand' = <<w>> /\ dec' = "sendLast"
    BY <1>1, <1>3, <1>5, RemainderEffect DEF LastWindow
  <2>2. w.samples = acc.samples /\ Begin(w) = acc.start
    BY <1>2 DEF Remainder, Begin
  <2> HIDE DEF w
  <2>3. Len(w.samples) >= MinTail /\ Len(w.samples) < Hi
    BY <1>1, <1>5, <2>2 DEF HasRemainder, AccInv
  <2>4. End(w) = acc'.start
    BY <2>1, <2>2 DEF End
  <2>5. Faithful(decoded, w)
    <3>1. acc'.start = Len(decoded) /\ Len(decoded) \in Nat
      BY <1>1, <2>1 DEF AccInv, TypeOK
    <3>2. \A j \in 1..Len(w.samples) : w.samples[j] = decoded[Begin(w) + j]
      BY <1>1, <2>2 DEF AccInv
    <3> QED
      BY <2>4, <3>1, <3>2 DEF Faithful
  <2>6. Flow' = Append(Flow, w)
    <3> DEFINE front == taken \o chan
    <3>1. front \in Seq(Window) /\ <<w>> \in Seq(Window)
      BY <1>1, <2>1, FlowParts
    <3>2. Flow = (front \o <<>>) \o <<>> /\ Flow' = (front \o <<w>>) \o <<>>
      BY <1>1, <1>3, <2>1 DEF Flow
    <3> HIDE DEF front
    <3>3. Flow = front
      BY <3>1, <3>2, ConcatEmptySeq
    <3>4. front \o <<w>> \in Seq(Window) /\ Append(front, w) = front \o <<w>>
      BY <2>1, <3>1, AppendIsConcat, ConcatProperties
    <3> QED
      BY <3>2, <3>3, <3>4, ConcatEmptySeq
  <2>7. Chain(decoded, Append(Flow, w)) /\ EndOf(Append(Flow, w)) = End(w)
    BY <1>1, <1>2, <2>1, <2>2, <2>3, <2>5, ChainAppend
  <2> QED
    BY <1>1, <2>1, <2>4, <2>6, <2>7 DEF FlowInv, Cutting
<1> QED
  BY <1>4, <1>5

LEMMA FlowStep == IInv /\ [Next]_vars => FlowInv'
<1> SUFFICES ASSUME IInv, [Next]_vars, rxOpen' PROVE FlowInv'
  BY DEF FlowInv
<1>1. FlowInv /\ TypeOK
  BY DEF IInv
<1>2. CASE PushSample
  BY <1>2, PushFlow
<1>3. CASE LastWindow
  BY <1>3, LastWindowFlow
<1>4. CASE Send \/ DrainReady \/ ReceiveWindow
  <2>1. Flow' = Flow
    BY <1>4, Transfers
  <2>2. /\ rxOpen /\ decoded' = decoded /\ acc'.start = acc.start /\ (Cutting' => Cutting)
    <3>1. CASE DrainReady
      BY <1>1, <3>1, ReadyHead DEF TypeOK, DrainReady, HasReady, conVars, Cutting
    <3>2. CASE Send \/ ReceiveWindow
      BY <3>2 DEF Send, ReceiveWindow, decVars, conVars, Cutting
    <3> QED
      BY <1>4, <3>1, <3>2
  <2> QED
    BY <1>1, <2>1, <2>2 DEF FlowInv
<1>5. CASE ReceiveError \/ Stop \/ TranscriptionFailed \/ SendRefused
  BY <1>5 DEF ReceiveError, Stop, TranscriptionFailed, DropReceiver, SendRefused, conVars
<1>6. CASE \/ \E p \in Packets : NextPacket(p)
           \/ EndOfStream \/ StreamError \/ Drained \/ SendError
           \/ ReceiveNone \/ GoOn \/ Joined \/ Transcribed \/ ProgressStep \/ UNCHANGED vars
  <2>1. /\ UNCHANGED <<taken, chan, hand, acc, decoded, rxOpen>> /\ (Cutting' => Cutting)
    BY <1>6 DEF NextPacket, EndOfStream, StreamError, Drained, SendError, ReceiveNone,
                GoOn, Joined, Transcribed, ProgressStep, Report, NoMoreReports, vars,
                decVars, conVars, Cutting
  <2> QED
    BY <1>1, <2>1 DEF FlowInv, Flow
<1> QED
  BY <1>2, <1>3, <1>4, <1>5, <1>6 DEF Next, DecoderStep, ConsumerStep

LEMMA TakenStep == IInv /\ [Next]_vars => TakenInv'
<1> SUFFICES ASSUME IInv, [Next]_vars, ~rxOpen' PROVE Chain(decoded', taken')
  BY DEF TakenInv
<1>1. /\ TypeOK /\ TakenInv /\ FlowInv /\ SliverInv
      /\ decoded \in Seq(Nat) /\ taken \in Seq(Window)
  BY DEF IInv, TypeOK
<1>2. CASE ReceiveError \/ Stop \/ TranscriptionFailed
  <2>1. rxOpen /\ UNCHANGED <<taken, decoded>>
    BY <1>1, <1>2 DEF ReceiveError, Stop, TranscriptionFailed, SliverInv, decVars
  <2>2. Chain(decoded, Flow)
    BY <1>1, <2>1 DEF FlowInv
  <2>3. Chain(decoded, (taken \o chan) \o hand)
    BY <1>1, <2>2, FlowParts, ChainPrefix DEF Flow
  <2>4. Chain(decoded, taken \o chan)
    BY <1>1, <2>3, FlowParts, ChainPrefix
  <2>5. Chain(decoded, taken)
    BY <1>1, <2>4, FlowParts, ChainPrefix
  <2> QED
    BY <2>1, <2>5
<1>3. CASE PushSample
  <2>1. /\ ~rxOpen /\ taken' = taken /\ decoded' = Append(decoded, Head(left))
    BY <1>3 DEF PushSample, conVars
  <2>2. Head(left) \in Nat /\ Chain(decoded, taken)
    BY <1>1, <1>3, <2>1, PushEffect DEF TakenInv
  <2> QED
    BY <1>1, <2>1, <2>2, ChainLonger
<1>4. CASE ReceiveWindow
  BY <1>1, <1>4 DEF ReceiveWindow, SliverInv
<1>5. CASE \/ \E p \in Packets : NextPacket(p)
           \/ EndOfStream \/ StreamError \/ DrainReady \/ Drained \/ Send \/ SendRefused
           \/ LastWindow \/ SendError
           \/ ReceiveNone \/ GoOn \/ Joined \/ Transcribed \/ ProgressStep \/ UNCHANGED vars
  <2>1. UNCHANGED <<taken, decoded, rxOpen>>
    BY <1>5 DEF NextPacket, EndOfStream, StreamError, DrainReady, Drained, Send,
                SendRefused, LastWindow, SendError, ReceiveNone, GoOn, Joined,
                Transcribed, ProgressStep, Report, NoMoreReports, vars, decVars, conVars
  <2> QED
    BY <1>1, <2>1 DEF TakenInv
<1> QED
  BY <1>2, <1>3, <1>4, <1>5 DEF Next, DecoderStep, ConsumerStep

-----------------------------------------------------------------------------
\* The invariant, and the theorems.

LEMMA InvInit == Init => IInv
<1> SUFFICES ASSUME Init PROVE IInv
  OBVIOUS
<1>1. TypeOK
  BY TypeInit
<1>2. /\ acc.samples = <<>> /\ acc.start = 0 /\ acc.ready = <<>>
      /\ taken = <<>> /\ chan = <<>> /\ hand = <<>> /\ left = <<>> /\ decoded = <<>>
      /\ dec = "packet" /\ con = "recv" /\ rxOpen /\ ~errMsg
  BY DEF Init, New
<1>3. /\ Len(<<>>) = 0 /\ Hi \in Nat \ {0} /\ Lo \in Nat /\ PerMs \in Nat /\ WindowQueue \in Nat
  BY CutterAssumption, TranscriptionAssumption
<1>4. AccInv
  <2>1. \E k \in 0..acc.start : acc.start = k * PerMs
    BY <1>2, <1>3
  <2> QED
    BY <1>2, <1>3, <2>1 DEF AccInv
<1>5. BufferInv
  BY <1>2, <1>3 DEF BufferInv
<1>6. FlowInv
  <2>1. Flow = <<>>
    <3>1. <<>> \in Seq(Window)
      OBVIOUS
    <3>2. (<<>> \o <<>>) = <<>>
      BY <3>1, ConcatEmptySeq
    <3> QED
      BY <1>2, <3>2 DEF Flow
  <2> QED
    BY <1>2, <1>3, <2>1 DEF FlowInv, Chain, EndOf, Full
<1>7. TakenInv /\ StopInv
  BY <1>2 DEF TakenInv, StopInv
<1>8. SliverInv
  BY <1>2 DEF SliverInv
<1> QED
  BY <1>1, <1>4, <1>5, <1>6, <1>7, <1>8 DEF IInv

LEMMA InvStep == IInv /\ [Next]_vars => IInv'
  BY TypeStep, AccStep, BufferStep, FlowStep, TakenStep, SliverStep, StopStep DEF IInv

LEMMA Invariant == Spec => []IInv
  BY InvInit, InvStep, PTL DEF Spec

\* The windows heard are a chain, whether or not the receiver is still there.
LEMMA HeardChain == IInv => Chain(decoded, taken)
<1> SUFFICES ASSUME IInv PROVE Chain(decoded, taken)
  OBVIOUS
<1>1. CASE rxOpen
  <2>1. TypeOK /\ Chain(decoded, Flow)
    BY <1>1 DEF IInv, FlowInv
  <2>2. Chain(decoded, (taken \o chan) \o hand)
    BY <2>1, FlowParts, ChainPrefix DEF Flow
  <2>3. Chain(decoded, taken \o chan)
    BY <2>1, <2>2, FlowParts, ChainPrefix
  <2> QED
    BY <2>1, <2>3, FlowParts, ChainPrefix
<1>2. CASE ~rxOpen
  BY <1>2 DEF IInv, TakenInv
<1> QED
  BY <1>1, <1>2

\* Every variable of the decoder, the channel and the two tasks keeps its type; a
\* sample in hand and a window in hand are what the decoder's step says they are.
THEOREM TranscriptionTypes == Spec => []TypeOK
<1>1. IInv => TypeOK
  BY DEF IInv
<1> QED
  BY <1>1, Invariant, PTL

\* The windows the engine hears are, one after the other from the first sample on,
\* the decoded audio, and their offsets name their places to the sample.
THEOREM WindowsFaithful == Spec => []WindowsAreTheAudio
<1>1. IInv => WindowsAreTheAudio
  <2> SUFFICES ASSUME IInv, NEW i \in 1..Len(taken)
               PROVE  /\ Begin(taken[i]) = IF i = 1 THEN 0 ELSE End(taken[i - 1])
                      /\ End(taken[i]) <= Len(decoded)
                      /\ taken[i].samples =
                           SubSeq(decoded, Begin(taken[i]) + 1, End(taken[i]))
    BY DEF WindowsAreTheAudio
  <2> DEFINE w == taken[i]
             b == Begin(w)
             n == Len(w.samples)
  <2>1. /\ Begin(w) = IF i = 1 THEN 0 ELSE End(taken[i - 1])
        /\ Faithful(decoded, w)
    BY HeardChain DEF Chain
  <2>2. taken \in Seq(Window) /\ decoded \in Seq(Nat)
    BY DEF IInv, TypeOK
  <2>3. w \in Window /\ w.samples \in Seq(Nat) /\ w.offset \in Nat
    <3>1. w \in Window
      BY <2>2, ElementOfSeq
    <3> QED
      BY <3>1 DEF Window
  <2>4. b \in Nat /\ n \in Nat /\ End(w) = b + n
    BY <2>3, CutterAssumption DEF Begin, End
  <2>5. End(w) <= Len(decoded) /\ \A j \in 1..n : w.samples[j] = decoded[b + j]
    BY <2>1 DEF Faithful
  <2> HIDE DEF w, b, n
  <2> DEFINE t == SubSeq(decoded, b + 1, b + n)
  <2>6. /\ t \in Seq(Nat) /\ Len(t) = n
        /\ \A j \in 1..n : t[j] = decoded[b + j]
    <3>1. \A j \in (b + 1)..(b + n) : decoded[j] \in Nat
      BY <2>2, <2>4, <2>5
    <3>2. /\ t \in Seq(Nat)
          /\ Len(t) = IF b + 1 <= b + n THEN b + n - (b + 1) + 1 ELSE 0
          /\ \A j \in 1..(b + n - (b + 1) + 1) : t[j] = decoded[b + 1 + j - 1]
      BY <2>4, <3>1, SubSeqProperties
    <3>3. /\ b + n - (b + 1) + 1 = n
          /\ b + 1 <= b + n <=> n >= 1
          /\ \A j \in Nat : b + 1 + j - 1 = b + j
      BY <2>4
    <3>4. Len(t) = n
      BY <2>4, <3>2, <3>3
    <3>5. \A j \in 1..n : t[j] = decoded[b + j]
      <4> TAKE j \in 1..n
      <4>1. j \in Nat /\ j \in 1..(b + n - (b + 1) + 1)
        BY <2>4, <3>3
      <4>2. b + 1 + j - 1 = b + j
        BY <2>4, <4>1
      <4> QED
        BY <3>2, <4>1, <4>2
    <3> QED
      BY <3>2, <3>4, <3>5
  <2> HIDE DEF t
  <2>7. w.samples = t
    BY <2>3, <2>5, <2>6, SeqEqual DEF n
  <2> QED
    BY <2>1, <2>4, <2>5, <2>7 DEF w, b, t
<1> QED
  BY <1>1, Invariant, PTL

\* A window is never as long as the hard maximum, and only the last one is shorter
\* than the place where the search for a cut begins.
THEOREM WindowsBounded == Spec => []WindowBounds
<1>1. IInv => WindowBounds
  BY HeardChain DEF Chain, WindowBounds
<1> QED
  BY <1>1, Invariant, PTL

\* A run that reaches the end of the stream has heard all of it but a sliver.
THEOREM AllIsHeard == Spec => []NothingIsLost
<1>1. IInv => NothingIsLost
  <2> SUFFICES ASSUME IInv, con = "finished"
               PROVE  Len(decoded) < MinTail + IF taken = <<>> THEN 0 ELSE End(taken[Len(taken)])
    BY DEF NothingIsLost
  <2>1. TypeOK /\ rxOpen /\ dec = "done" /\ chan = <<>> /\ ~errMsg
    BY DEF IInv, SliverInv
  <2>2. hand = <<>> /\ acc.ready = <<>>
    <3>1. acc.ready = <<>>
      BY <2>1 DEF IInv, BufferInv
    <3>2. hand \in Seq(Window) /\ Len(hand) = 0
      BY <2>1 DEF TypeOK
    <3> QED
      BY <3>1, <3>2, EmptySeq
  <2>3. Flow = taken
    <3>1. taken \in Seq(Window)
      BY <2>1 DEF TypeOK
    <3> QED
      BY <2>1, <2>2, <3>1, ConcatEmptySeq DEF Flow
  <2>4. EndOf(taken) = acc.start
    BY <2>1, <2>3 DEF IInv, FlowInv
  <2>5. Len(acc.samples) < MinTail /\ acc.start + Len(acc.samples) = Len(decoded)
    BY <2>1 DEF IInv, SliverInv, AccInv
  <2>6. /\ acc.start \in Nat /\ Len(acc.samples) \in Nat /\ Len(decoded) \in Nat
        /\ MinTail \in Nat
    BY <2>1, CutterAssumption DEF TypeOK, WindowAccumulator
  <2>7. Len(decoded) < MinTail + acc.start
    BY <2>5, <2>6
  <2> QED
    BY <2>4, <2>7 DEF EndOf
<1> QED
  BY <1>1, Invariant, PTL

\* However the decoder outruns the engine, the windows waiting are bounded by the
\* channel's capacity and one, and the one under construction by the hard maximum.
LEMMA MemoryBounded == Spec => []MemoryIsBounded
<1>1. IInv => MemoryIsBounded
  <2> SUFFICES ASSUME IInv PROVE MemoryIsBounded
    OBVIOUS
  <2>1. TypeOK /\ BufferInv /\ Len(acc.samples) < Hi /\ WindowQueue \in Nat
    BY TranscriptionAssumption DEF IInv, AccInv
  <2>2. /\ Len(chan) \in Nat /\ Len(chan) <= WindowQueue
        /\ Len(hand) = IF dec \in {"send", "sendLast"} THEN 1 ELSE 0
    BY <2>1 DEF TypeOK, BufferInv
  <2>3. Len(acc.ready) = 0 \/ (Len(acc.ready) = 1 /\ dec \in {"push", "drain"})
    BY <2>1, EmptySeq DEF BufferInv
  <2> DEFINE c == Len(chan)
             h == Len(hand)
             r == Len(acc.ready)
  <2>4. (h = 0 \/ h = 1) /\ (r = 0 \/ r = 1) /\ ~(h = 1 /\ r = 1)
    BY <2>2, <2>3
  <2>5. c \in Nat /\ c <= WindowQueue
    BY <2>2
  <2> HIDE DEF c, h, r
  <2>6. c + h + r <= WindowQueue + 1
    BY <2>1, <2>4, <2>5
  <2> QED
    BY <2>1, <2>5, <2>6 DEF MemoryIsBounded, c, h, r
<1> QED
  BY <1>1, Invariant, PTL

\* A decoder whose receiver is gone decodes less than one window and one packet
\* more, however long the file.
LEMMA DecoderStops == Spec => []StopReachesTheDecoder
<1>1. IInv => StopReachesTheDecoder
  <2> SUFFICES ASSUME IInv, ~rxOpen PROVE Len(decoded) < closedAt + Hi + Lo
    BY DEF StopReachesTheDecoder
  <2>1. Len(decoded) + Len(left) < closedAt + Hi + Lo
    BY DEF IInv, StopInv
  <2>2. /\ Len(decoded) \in Nat /\ Len(left) \in Nat /\ closedAt \in Nat
        /\ Hi \in Nat /\ Lo \in Nat
    BY CutterAssumption DEF IInv, TypeOK
  <2> QED
    BY <2>1, <2>2
<1> QED
  BY <1>1, Invariant, PTL

\* The decoder of a run, however long the file and slow the engine, keeps a bounded
\* part of it in memory and stops within a bounded part once nobody listens.
THEOREM DecoderBounded == Spec => []DecoderIsBounded
<1>1. MemoryIsBounded /\ StopReachesTheDecoder => DecoderIsBounded
  BY DEF DecoderIsBounded
<1> QED
  BY <1>1, MemoryBounded, DecoderStops, PTL

=============================================================================
