----------------------------- MODULE MCSidecar -----------------------------
(***************************************************************************)
(* Sidecar for TLC.  Requests differ only in what they do, so the clients  *)
(* of the safety runs are interchangeable.                                 *)
(***************************************************************************)
EXTENDS Sidecar, TLC

Symmetry == Permutations(Clients)

=============================================================================
