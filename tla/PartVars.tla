------------------------------ MODULE PartVars ------------------------------
(***************************************************************************)
(* The variables of the parts of the system that share no state with one   *)
(* another. A behavior is one of a single part, which part says. A part    *)
(* keeps its variables in v1, v2, ... as its INSTANCE lists them; the      *)
(* remaining ones stay Unused.                                             *)
(***************************************************************************)
VARIABLES
  part,
  v1, v2, v3, v4, v5, v6, v7, v8, v9, v10,
  v11, v12, v13, v14, v15, v16, v17, v18, v19, v20

Unused == <<>>

\* What the parts of so many variables leave alone, and leave out.
Rest15 == <<v16, v17, v18, v19, v20>>
Rest11 == <<v12, v13, v14, v15, Rest15>>
Rest10 == <<v11, Rest11>>
Rest9 == <<v10, Rest10>>
Rest8 == <<v9, Rest9>>
Rest7 == <<v8, Rest8>>
Rest6 == <<v7, Rest7>>
Rest5 == <<v6, Rest6>>

Unused15 ==
  /\ v16 = Unused /\ v17 = Unused /\ v18 = Unused /\ v19 = Unused
  /\ v20 = Unused
Unused11 == v12 = Unused /\ v13 = Unused /\ v14 = Unused /\ v15 = Unused /\ Unused15
Unused10 == v11 = Unused /\ Unused11
Unused9 == v10 = Unused /\ Unused10
Unused8 == v9 = Unused /\ Unused9
Unused7 == v8 = Unused /\ Unused8
Unused6 == v7 = Unused /\ Unused7
Unused5 == v6 = Unused /\ Unused6

vars == <<part, v1, v2, v3, v4, v5, Rest5>>

=============================================================================
