---------------------------- MODULE WindowCutter ----------------------------
(***************************************************************************)
(* The WindowAccumulator of backend/src/media.rs: decoded samples go in    *)
(* one by one, windows that end in the middle of a quiet frame come out.   *)
(*                                                                         *)
(* A sample is the energy it contributes, a natural number.  Positions and *)
(* lengths count samples; the code's constants are 1600 for Frame, 25 s,   *)
(* 30 s and 35 s of samples for Lo, Nominal and Hi, 4000 for MinTail and   *)
(* 16 for PerMs.                                                           *)
(***************************************************************************)
EXTENDS Naturals, Sequences

CONSTANTS
  Frame,     \* samples of one silence frame
  Lo,        \* first sample of the search band
  Nominal,   \* where a window ends when the band holds no measured frame
  Hi,        \* end of the search band: the longest window
  MinTail,   \* shortest remainder worth transcribing
  PerMs      \* samples of one millisecond

\* What the code's numbers have in common: the band is made of whole frames, and
\* every place a cut can be is a whole millisecond.
ASSUME CutterAssumption ==
  /\ Frame \in Nat \ {0} /\ PerMs \in Nat \ {0} /\ MinTail \in Nat \ {0}
  /\ Lo \in Nat \ {0} /\ Nominal \in Nat /\ Hi \in Nat
  /\ \E h \in 1..Frame : Frame = 2 * (h * PerMs)
  /\ \E l \in 1..Lo : Lo = l * Frame
  /\ \E n \in 0..Nominal : Nominal = n * PerMs
  /\ \E b \in 0..Hi : Hi = b * Frame
  /\ MinTail <= Lo /\ Lo <= Nominal /\ Nominal < Hi

-----------------------------------------------------------------------------

Window == [offset : Nat, samples : Seq(Nat)]    \* the offset in milliseconds

WindowAccumulator ==
  [samples : Seq(Nat),      \* the window under construction
   start   : Nat,           \* the position of its first sample
   energy  : Seq(Nat),      \* the energies of its measured frames
   current : Nat,           \* the energy of the frame being measured, so far
   count   : Nat,           \* and the samples in it
   ready   : Seq(Window)]   \* windows cut and not yet taken

New == [samples |-> <<>>, start |-> 0, energy |-> <<>>, current |-> 0,
        count |-> 0, ready |-> <<>>]

samples_to_ms(n) == n \div PerMs

\* The frames of the search band that were measured, counted from 0.
Band(a) == {i \in (Lo \div Frame)..(Hi \div Frame) : i < Hi \div Frame /\ i < Len(a.energy)}

\* The first of the frames with the least energy.
Quietest(a) ==
  CHOOSE i \in Band(a) : \A k \in Band(a) :
    /\ a.energy[i + 1] <= a.energy[k + 1]
    /\ a.energy[i + 1] = a.energy[k + 1] => i <= k

\* Mutant: the hunt does not skip the frames before the band.
quietest_cut_anywhere(a) ==
  LET all == {i \in 0..(Hi \div Frame) : i < Hi \div Frame /\ i < Len(a.energy)} IN
  IF all = {}
  THEN Nominal
  ELSE (CHOOSE i \in all : \A k \in all : a.energy[i + 1] <= a.energy[k + 1])
         * Frame + Frame \div 2

\* The middle of the quietest frame, as a position in the window.
quietest_cut(a) ==
  IF Band(a) = {} THEN Nominal ELSE Quietest(a) * Frame + Frame \div 2

\* Mutant: the next window is taken to start at the nominal point.
CutAtNominalOffset(a) ==
  LET at == quietest_cut(a) IN
  [samples |-> SubSeq(a.samples, at + 1, Len(a.samples)),
   start   |-> a.start + Nominal,
   energy  |-> <<>>, current |-> 0, count |-> 0,
   ready   |-> Append(a.ready, [offset  |-> samples_to_ms(a.start),
                                samples |-> SubSeq(a.samples, 1, at)])]

\* cut: the head is staged and the tail begins the next window, with no frame
\* measured.  (The code's min(samples.len()) never acts: a cut is made at Hi.)
Cut(a) ==
  LET at == quietest_cut(a) IN
  [samples |-> SubSeq(a.samples, at + 1, Len(a.samples)),
   start   |-> a.start + at,
   energy  |-> <<>>, current |-> 0, count |-> 0,
   ready   |-> Append(a.ready, [offset  |-> samples_to_ms(a.start),
                                samples |-> SubSeq(a.samples, 1, at)])]

\* The sample joins the window and the frame being measured.
Measured(a, s) ==
  LET full == a.count + 1 >= Frame IN
  [samples |-> Append(a.samples, s),
   start   |-> a.start,
   energy  |-> IF full THEN Append(a.energy, a.current + s) ELSE a.energy,
   current |-> IF full THEN 0 ELSE a.current + s,
   count   |-> IF full THEN 0 ELSE a.count + 1,
   ready   |-> a.ready]

Push(a, s) ==
  LET b == Measured(a, s) IN IF Len(b.samples) >= Hi THEN Cut(b) ELSE b

HasReady(a) == a.ready # <<>>

\* take_ready: the window it returns is Head(a.ready), and this is what it leaves.
TakeReady(a) == [a EXCEPT !.ready = Tail(@)]

\* Mutant: a remainder shorter than a window is taken for a sliver.
HasRemainderLong(a) == Len(a.samples) >= Lo

\* take_remainder, of an accumulator with no ready window.
HasRemainder(a) == Len(a.samples) >= MinTail

Remainder(a) == [offset |-> samples_to_ms(a.start), samples |-> a.samples]

TakeRemainder(a) ==
  [a EXCEPT !.samples = <<>>, !.start = @ + Len(a.samples)]

=============================================================================
