------------------------------- MODULE Resampler -------------------------------
(***************************************************************************)
(* Resampler::push (media.rs): source samples of any rate, in packets of   *)
(* any length, become samples of TARGET_RATE, each the average of the      *)
(* source samples it spans.                                                *)
(*                                                                         *)
(* A sample is known by its number; a position is counted in parts, of     *)
(* which a source sample has TARGET_RATE, so that the step from one output *)
(* sample to the next is the source rate.  (The code keeps positions as    *)
(* floating point numbers; their rounding is left out.)                    *)
(***************************************************************************)
EXTENDS Integers, Sequences

CONSTANTS
  TARGET_RATE,
  Rates,       \* the rates of packets; one without a rate is ignored
  MaxPacket,   \* bound: samples of a packet
  MaxFed       \* bound: samples in all

ResamplerAssumption ==
  TARGET_RATE \in Nat \ {0} /\ Rates \subseteq Nat \ {0} /\ MaxPacket \in Nat /\ MaxFed \in Nat

VARIABLES
  carry,     \* source samples not yet consumed
  position,  \* of the next output sample, from carry[1], in parts
  rate,      \* the rate seen last
  fed,       \* source samples decoded
  out,       \* the output samples: the source samples each is the average of
  since,     \* history: where the samples of the present rate begin: [fed, out]
  sampling   \* a packet is being averaged

vars == <<carry, position, rate, fed, out, since, sampling>>

CeilDiv(a, b) == (a + b - 1) \div b
Numbers(from, n) == [i \in 1 .. n |-> from + i]

Init ==
  /\ carry = <<>> /\ position = 0 /\ rate = 0 /\ fed = 0 /\ out = <<>>
  /\ since = [fed |-> 0, out |-> 0] /\ sampling = FALSE

\* A packet joins the carry; of another rate, it restarts the box; of the
\* target rate it goes out as it is.
PushPacket(r, n) ==
  /\ ~sampling
  /\ fed + n <= MaxFed
  /\ fed' = fed + n
  /\ rate' = r
  /\ since' = IF r # rate THEN [fed |-> fed, out |-> Len(out)] ELSE since
  /\ position' = IF r # rate THEN 0 ELSE position
  /\ LET kept == IF r # rate THEN <<>> ELSE carry
     IN IF r = TARGET_RATE
        THEN carry' = kept /\ out' = out \o [i \in 1 .. n |-> <<fed + i>>] /\ UNCHANGED sampling
        ELSE carry' = kept \o Numbers(fed, n) /\ UNCHANGED out /\ sampling' = TRUE

Low == position \div TARGET_RATE
High == CeilDiv(position + rate, TARGET_RATE)

\* An output sample whose whole span is there.
Average ==
  /\ sampling
  /\ High <= Len(carry)
  /\ out' = Append(out, SubSeq(carry, Low + 1, IF High > Low + 1 THEN High ELSE Low + 1))
  /\ position' = position + rate
  /\ UNCHANGED <<carry, rate, fed, since, sampling>>

\* What the last output sample began after is dropped from the carry.
Rebase ==
  /\ sampling
  /\ High > Len(carry)
  /\ LET averaged == position >= rate
         consumed == IF averaged THEN (position - rate) \div TARGET_RATE ELSE 0
     IN /\ carry' = SubSeq(carry, consumed + 1, Len(carry))
        /\ position' = position - consumed * TARGET_RATE
  /\ sampling' = FALSE
  /\ UNCHANGED <<rate, fed, out, since>>

Next ==
  \/ \E r \in Rates, n \in 0 .. MaxPacket : PushPacket(r, n)
  \/ Average \/ Rebase

Spec == Init /\ [][Next]_vars

-----------------------------------------------------------------------------
TypeOK ==
  /\ carry \in Seq(Nat) /\ position \in Nat /\ fed \in 0 .. MaxFed
  /\ rate \in Rates \cup {0} /\ since.fed \in 0 .. fed /\ since.out \in 0 .. Len(out)

\* However the samples of one rate are cut into packets, output sample k is the
\* average of the source samples it spans in the whole of them, and every one
\* whose span has been decoded is there: the output does not drift.
OutputDoesNotDrift ==
  rate # 0 =>
    LET n == Len(out) - since.out
        Spans(k) == Numbers(since.fed + ((k - 1) * rate) \div TARGET_RATE,
                            CeilDiv(k * rate, TARGET_RATE) - ((k - 1) * rate) \div TARGET_RATE)
    IN /\ \A k \in 1 .. n : out[since.out + k] = Spans(k)
       /\ ~sampling => since.fed + CeilDiv((n + 1) * rate, TARGET_RATE) > fed

\* The carry ends with what was decoded last, and the next output sample begins
\* where as many steps from the restart of the box lead, not behind the carry.
CarryIsInPlace ==
  LET base == fed - Len(carry)
      n == Len(out) - since.out
  IN /\ base >= since.fed /\ n \in Nat
     /\ \A i \in 1 .. Len(carry) : carry[i] = base + i
     /\ (base - since.fed) * TARGET_RATE + position = n * rate
     /\ CeilDiv(position, TARGET_RATE) <= Len(carry)

DriftInv ==
  /\ carry \in Seq(Nat) /\ position \in Nat /\ rate \in Rates \cup {0} /\ fed \in Nat
  /\ out \in Seq(Seq(Nat)) /\ since \in [fed : Nat, out : Nat] /\ sampling \in BOOLEAN
  /\ CarryIsInPlace
  /\ rate \in {0, TARGET_RATE} => carry = <<>> /\ position = 0 /\ ~sampling
  /\ OutputDoesNotDrift

=============================================================================
