----------------------------- MODULE SealedValues -----------------------------
(***************************************************************************)
(* One stored secret: a field, a config value or a secret file (crypto/    *)
(* sealed.rs, secret_file.rs and the ciphers of lib.rs, process_keys.rs).  *)
(* Values were plaintext once; processes with different keys read, reseal, *)
(* load and save them, while the master key is replaced and while values   *)
(* of other stores and records are copied over this one.                   *)
(*                                                                         *)
(* A text is a sequence of tokens: all that matters is what it starts      *)
(* with. Master keys are numbers in the order they came to be; a subkey    *)
(* is the master key with the id it was derived for; the key of fields is  *)
(* the master key itself, with no id. A value also has the record it was   *)
(* sealed for, this one or another, which only a tenant's envelope binds.  *)
(***************************************************************************)
EXTENDS Naturals, Sequences

CONSTANTS
  Stores,      \* where the value may be: [kind, id, via]
  Procs,       \* processes of the store
  Texts,       \* what a user may write
  Ids,         \* the ids subkeys are derived for
  MaxKey,      \* bound: the last master key
  MaxWrites    \* bound: how often something is written

SealedValuesAssumption ==
  /\ MaxKey \in Nat \ {0} /\ MaxWrites \in Nat
  /\ Stores \subseteq [kind : {"field", "plugin", "component", "tenant"},
                       id : Ids \cup {""}, via : {"trait", "string", "file"}]
  /\ \A s \in Stores : s.kind = "field" <=> s.id = ""
  \* What other stores and records hold is told apart by these.
  /\ <<"foreign">> \notin Texts /\ <<"planted">> \notin Texts

VARIABLES
  store,     \* the store this is
  cell,      \* what is stored
  truth,     \* what was last stored, as its writer meant it
  sealedYet, \* a sealed value was stored
  key,       \* the current master key; the earlier ones are retired
  reach,     \* each process: the last key it knows, 0 for none
  draft,     \* each process: the value it has loaded, as a sequence of one
  writes

vars == <<store, cell, truth, sealedYet, key, reach, draft, writes>>

-----------------------------------------------------------------------------
\* Envelopes.

PrefixOf(kind) == CASE kind = "field" -> "enc:v1:"   [] kind = "plugin" -> "encp:v1:"
                    [] kind = "tenant" -> "enc:v2:"  [] kind = "component" -> "encc:v1:"

\* The last two are the content envelope and the cloud's, which this code
\* only recognises.
Envelopes == {"enc:v1:", "enc:v2:", "encp:v1:", "encc:v1:", "encb:v1:", "encm:v1:"}

Plain(text) ==
  [scheme |-> "plain", id |-> "", home |-> "here", key |-> 0, text |-> text]
Sealed(scheme, id, home, k, text) ==
  [scheme |-> scheme, id |-> id, home |-> home, key |-> k, text |-> text]

\* The string in the database or file.
StoredText(v) == IF v.scheme = "plain" THEN v.text ELSE <<v.scheme, "ciphertext">>

\* looks_sealed, by which envelope.
LooksLike(v) ==
  LET s == StoredText(v) IN IF s # <<>> /\ Head(s) \in Envelopes THEN Head(s) ELSE "plain"

-----------------------------------------------------------------------------
\* A sealer: FieldCipher, PluginCipher, ComponentCipher or TenantCipher.

Sealer(s, k) == [kind |-> s.kind, id |-> s.id, key |-> k]
Prefix(c) == PrefixOf(c.kind)

\* A TenantCipher is derived from the current master key only.
Opens(c, k) == k > 0 /\ (IF c.kind = "tenant" THEN k = c.key ELSE k <= c.key)

Failed == [ok |-> FALSE, text |-> <<>>, reseal |-> FALSE]
Opened(text, reseal) == [ok |-> TRUE, text |-> text, reseal |-> reseal]

\* open_body: the current key, then the retired ones. Only a FieldCipher
\* reports that it took a retired one; only a tenant's tag covers the record.
OpenBody(c, v) ==
  IF /\ v.scheme = Prefix(c) /\ v.id = c.id /\ Opens(c, v.key)
     /\ c.kind = "tenant" => v.home = "here"
  THEN Opened(v.text, c.kind = "field" /\ v.key # c.key)
  ELSE Failed

\* The ciphers' own open, which lets other envelopes pass for plaintext.
CipherOpen(c, v) ==
  IF LooksLike(v) = Prefix(c) THEN OpenBody(c, v)
  ELSE IF \/ c.kind = "tenant"
          \/ c.kind = "plugin" /\ LooksLike(v) = "enc:v1:"
          \/ c.kind = "component" /\ LooksLike(v) # "plain"
       THEN Failed
       ELSE Opened(StoredText(v), StoredText(v) # <<>>)

\* SecretSealer::open and open_tracking refuse them.
SecretOpen(c, v) ==
  IF LooksLike(v) \notin {"plain", Prefix(c)} THEN Failed ELSE CipherOpen(c, v)

\* TenantCipher::open_allowing_legacy, for a migration: a field's value under
\* the current master key, of whichever record, or a value of the tenant.
OpenAllowingLegacy(c, v) ==
  IF LooksLike(v) # "enc:v1:" THEN CipherOpen(c, v)
  ELSE IF v.scheme = "enc:v1:" /\ v.key = c.key THEN Opened(v.text, TRUE)
  ELSE Failed

Seal(c, text) == Sealed(Prefix(c), c.id, "here", c.key, text)

\* How the store opens a value; without a key only plaintext, and only where
\* the plaintext is told apart before the key is asked for.
OpenVia(s, k, v) ==
  IF k = 0
  THEN IF s.kind # "tenant" /\ s.via # "trait" /\ LooksLike(v) = "plain"
       THEN Opened(StoredText(v), StoredText(v) # <<>>) ELSE Failed
  ELSE IF s.kind = "tenant" THEN OpenAllowingLegacy(Sealer(s, k), v)
  ELSE SecretOpen(Sealer(s, k), v)

\* serialize, write_secret_file: no key, no write; an empty string stays empty
\* in a SealedString.
StoreVia(s, k, text) ==
  IF s.via = "string" /\ text = <<>> THEN {Plain(<<>>)}
  ELSE IF k = 0 THEN {} ELSE {Seal(Sealer(s, k), text)}

-----------------------------------------------------------------------------
\* What other stores and other records of this one hold, under the keys so far.
Owners == {w \in [kind : {"field", "plugin", "component", "tenant"}, id : Ids \cup {""}] :
             w.kind = "field" <=> w.id = ""}

\* Owners whose values lie under a key this store opens: fields have one key
\* between them, a plugin or component has one for all its records, and a
\* tenant's migration takes the fields' key too. Nothing in such a value says
\* where it was sealed, so it opens here as well.
SharesKey(s, w) == IF s.kind = "tenant" THEN w.kind = "field"
                   ELSE w.kind = s.kind /\ w.id = s.id

Foreign(s) ==
  {Sealed(PrefixOf(w.kind), w.id, "elsewhere", k,
          IF SharesKey(s, w) THEN <<"planted">> ELSE <<"foreign">>) :
     w \in Owners, k \in 1 .. key}

\* A value was plaintext, or a tenant's still in the fields' envelope.
Init ==
  /\ store \in Stores
  /\ truth \in Texts
  /\ \/ cell = Plain(truth)
     \/ store.kind = "tenant" /\ cell = Sealed("enc:v1:", "", "here", 1, truth)
  /\ sealedYet = (cell.scheme # "plain")
  /\ key = 1
  /\ reach = [p \in Procs |-> 0]
  /\ draft = [p \in Procs |-> <<>>]
  /\ writes = 0

\* A process starts with the keys of the day, or without any.
Boot(p) ==
  /\ reach' = [reach EXCEPT ![p] = key]
  /\ draft' = [draft EXCEPT ![p] = <<>>]
  /\ UNCHANGED <<store, cell, truth, sealedYet, key, writes>>

BootKeyless(p) ==
  /\ reach' = [reach EXCEPT ![p] = 0]
  /\ draft' = [draft EXCEPT ![p] = <<>>]
  /\ UNCHANGED <<store, cell, truth, sealedYet, key, writes>>

\* The master key is replaced; who runs keeps the keys it has.
ReplaceMasterKey ==
  /\ key < MaxKey
  /\ key' = key + 1
  /\ UNCHANGED <<store, cell, truth, sealedYet, reach, draft, writes>>

Put(v, meant) ==
  /\ writes < MaxWrites
  /\ writes' = writes + 1
  /\ cell' = v /\ truth' = meant
  /\ sealedYet' = (sealedYet \/ v.scheme # "plain")
  /\ UNCHANGED <<store, key, reach>>

Write(p, text) ==
  /\ \E v \in StoreVia(store, reach[p], text) : Put(v, text)
  /\ UNCHANGED draft

\* Deserialize, or read the file, and serialize it again later.
Load(p) ==
  /\ OpenVia(store, reach[p], cell).ok
  /\ draft' = [draft EXCEPT ![p] = <<OpenVia(store, reach[p], cell).text>>]
  /\ UNCHANGED <<store, cell, truth, sealedYet, key, reach, writes>>

Save(p) ==
  /\ draft[p] # <<>>
  /\ \E v \in StoreVia(store, reach[p], Head(draft[p])) : Put(v, Head(draft[p]))
  /\ UNCHANGED draft

\* Mutant: whatever is not this cipher's envelope is sealed as it is.
WrapEnvelope(p) ==
  /\ reach[p] > 0 /\ store.via # "string"
  /\ LooksLike(cell) # PrefixOf(store.kind) /\ StoredText(cell) # <<>>
  /\ Put(Seal(Sealer(store, reach[p]), StoredText(cell)), truth)
  /\ UNCHANGED draft

\* reseal_if_plaintext and reseal_secret_file: open, then seal.
Reseal(p) ==
  /\ reach[p] > 0 /\ store.via # "string"
  /\ LooksLike(cell) # PrefixOf(store.kind) /\ StoredText(cell) # <<>>
  /\ OpenVia(store, reach[p], cell).ok
  /\ Put(Seal(Sealer(store, reach[p]), OpenVia(store, reach[p], cell).text), truth)
  /\ UNCHANGED draft

\* A value is copied here from another store or record.
CopyIn ==
  /\ \E v \in Foreign(store) : Put(v, v.text)
  /\ UNCHANGED draft

Next ==
  \/ \E p \in Procs :
       \/ Boot(p) \/ BootKeyless(p) \/ Load(p) \/ Save(p) \/ Reseal(p)
       \/ \E t \in Texts : Write(p, t)
  \/ ReplaceMasterKey \/ CopyIn

Spec == Init /\ [][Next]_vars

-----------------------------------------------------------------------------
TypeOK ==
  /\ store \in Stores
  /\ cell.scheme \in Envelopes \cup {"plain"} /\ cell.key \in 0 .. MaxKey
  /\ sealedYet \in BOOLEAN
  /\ key \in 1 .. MaxKey /\ reach \in [Procs -> 0 .. MaxKey]
  /\ \A p \in Procs : Len(draft[p]) <= 1

\* Whoever opens the value gets what was stored last, and never a ciphertext,
\* nor what was sealed under a key that is not this store's: by a component of
\* another id, for another tenant or for another record of this tenant.
OpensToTheTruth ==
  \A p \in Procs :
    LET o == OpenVia(store, reach[p], cell) IN
      o.ok => o.text = truth /\ truth # <<"foreign">>

\* A value this store sealed opens for every process that knows the key: also
\* when the master key was replaced since, unless it is a tenant's.
OwnValuesOpen ==
  \A p \in Procs :
    cell.scheme = PrefixOf(store.kind) /\ cell.id = store.id /\ cell.home = "here"
      /\ cell.key > 0 /\ Opens(Sealer(store, reach[p]), cell.key)
    => OpenVia(store, reach[p], cell).ok

\* Once a sealed value was stored no process, with a key or without, puts a
\* plaintext in its place.
StaysSealed == sealedYet => cell.scheme # "plain" \/ cell.text = <<>>

SealedValueIsSound == OpensToTheTruth /\ OwnValuesOpen /\ StaysSealed

-----------------------------------------------------------------------------
(* What SealedValueIsSound rests on, an inductive invariant: a value is as *)
(* it was written, or sealed here under a key there was, or it is a copy;  *)
(* and nothing that is loaded lay under another store's key.               *)

Own(v, text) ==
  \/ v = Plain(text)
  \/ \E k \in 1 .. key : v = Sealed(PrefixOf(store.kind), store.id, "here", k, text)
  \/ \E k \in 1 .. key :
       store.kind = "tenant" /\ v = Sealed("enc:v1:", "", "here", k, text)

Readable == Texts \cup {<<"planted">>}

ValueInv ==
  /\ store \in Stores /\ key \in Nat \ {0} /\ reach \in [Procs -> 0 .. key]
  /\ \/ truth \in Readable /\ Own(cell, truth)
     \/ cell \in Foreign(store) /\ truth = cell.text
  /\ draft \in [Procs -> {<<>>} \cup {<<t>> : t \in Readable}]
  /\ StaysSealed

=============================================================================
