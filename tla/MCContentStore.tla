---------------------------- MODULE MCContentStore ----------------------------
(***************************************************************************)
(* ContentStore on the stores of StoreFiles, one row a transaction.        *)
(***************************************************************************)
EXTENDS ContentStore, StoreFiles

=============================================================================
