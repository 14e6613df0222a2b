------------------------------ MODULE StoreFiles ------------------------------
(***************************************************************************)
(* The stores and the keys that ContentStore is checked with: two columns  *)
(* of two rows.  Root 2 replaced root 1; root 3 is of another              *)
(* installation.                                                           *)
(***************************************************************************)
EXTENDS ContentSeal

MCPlans == <<"text", "blob">>
MCCiphers == {Cipher(1, {}), Cipher(2, {1}), Cipher(3, {})}
MCTexts == {<<V1, "note">>, <<SF01, "note">>}

Note == <<"note">>
Unsealed == [state |-> "none", cursor |-> 0]
Finished == [state |-> "sealed", cursor |-> 0]

\* A store from before sealing: one value looks like an envelope.
OldStore ==
  [cells |-> <<<<Plain(<<V1, "note">>), Plain(Note)>>, <<Null, Plain(Note)>>>>,
   items |-> <<Unsealed, Unsealed>>,
   rec   |-> NoRecord]

\* A store sealed under root 1 by a version that had the first column only.
SealedStore ==
  [cells |-> <<<<Sealed(1, At(1, 1), Note), Sealed(1, At(1, 2), Note)>>,
               <<Null, Plain(Note)>>>>,
   items |-> <<Finished, Unsealed>>,
   rec   |-> [RecordKcv(NoRecord, 1) EXCEPT !.state = "vacuum_pending"]]

NewerStore == [SealedStore EXCEPT !.rec.minReader = SUPPORTED_MIN_READER + 1]

MCLegacy == {OldStore, SealedStore, NewerStore}

=============================================================================
