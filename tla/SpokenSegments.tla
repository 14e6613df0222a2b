---------------------------- MODULE SpokenSegments ----------------------------
(***************************************************************************)
(* What an engine answers where Cues is checked: segments that touch,      *)
(* overlap, are inverted, too long, too short and empty, alone and in      *)
(* pairs.                                                                  *)
(***************************************************************************)
EXTENDS Naturals, Sequences

LOCAL Segment(from, to, text) == [start |-> from, end |-> to, text |-> text]

MCSegments ==
  LET all == {Segment(0, 0, 1), Segment(0, 3, 3), Segment(3, 9, 4), Segment(3, 8, 1),
              Segment(5, 1, 1), Segment(2, 6, 0)}
  IN {<<s>> : s \in all} \cup {<<s, t>> : s \in all, t \in all}

=============================================================================
