------------------------------- MODULE Parts --------------------------------
(***************************************************************************)
(* The parts of the system that share no state with one another, side by   *)
(* side: keys and the values sealed under them, what is stored sealed, and *)
(* what the app does besides its jobs and windows. One run checks all.     *)
(***************************************************************************)
EXTENDS KeyParts, StoreParts, AppParts

Init == KeyInit \/ StoreInit \/ AppInit

Next == KeyNext \/ StoreNext \/ AppNext

Spec == Init /\ [][Next]_vars

\* The part that runs has the variables its module says it has.
TypeOK == KeyTypeOK /\ StoreTypeOK /\ AppTypeOK

=============================================================================
