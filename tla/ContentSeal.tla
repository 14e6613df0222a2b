----------------------------- MODULE ContentSeal -----------------------------
(***************************************************************************)
(* Values sealed one by one: the ContentCipher (content.rs), how a store   *)
(* seals (plugin_keys/store_seal.rs) and how a migration seals an old      *)
(* value (content_sqlite.rs).                                              *)
(*                                                                         *)
(* What a user writes is a sequence of tokens, since all that matters of   *)
(* it is what it starts with.  A root is a number; 0 is none, and a stored *)
(* value without a root is plain.  An AEAD opens a value under the root    *)
(* and at the place it was sealed for and nowhere else.                    *)
(***************************************************************************)
EXTENDS Integers, Sequences

\* What a TEXT may start with, and what a BLOB may.
V1 == "encb:v1:"
V2 == "encb:v2:"
RAW == "encb:raw:"
CB01 == "RYU-CB01"
SF01 == "RYU-SF01"

StartsWith(text, prefixes) == text # <<>> /\ Head(text) \in prefixes

\* The envelope of a kind of column, and what is refused as another version.
Envelope(kind) == IF kind = "text" THEN {V1} ELSE {CB01}
OtherVersion(kind) == IF kind = "text" THEN {V2} ELSE {SF01}

Nowhere == <<>>
Plain(text) == [root |-> 0, at |-> Nowhere, text |-> text]
Sealed(root, at, text) == [root |-> root, at |-> at, text |-> text]
Null == [root |-> -1, at |-> Nowhere, text |-> <<>>]

\* Whether a stored value carries the envelope of its kind.
IsSealed(kind, v) == v.root > 0 \/ StartsWith(v.text, Envelope(kind))

-----------------------------------------------------------------------------
\* A cipher: the root it seals under and the retired roots it still opens.

Cipher(current, retired) == [current |-> current, retired |-> retired \ {current}]

Roots(c) == {c.current} \cup c.retired

MatchKcv(c, kcv) ==
  IF kcv = c.current THEN "Current"
  ELSE IF kcv \in c.retired THEN "Retired" ELSE "Unknown"

Failed(why) == [ok |-> FALSE, text |-> <<>>, reseal |-> FALSE, why |-> why]
Opened(text, reseal) == [ok |-> TRUE, text |-> text, reseal |-> reseal, why |-> "none"]

\* open_blob: the current key first, then the retired ones.
OpenBlob(c, v, at) ==
  IF v.at = at /\ v.root \in Roots(c)
  THEN Opened(v.text, v.root # c.current)
  ELSE Failed("DoesNotOpen")

\* open_text and open_bytes.
Open(c, kind, v, at) ==
  IF v.root > 0 THEN OpenBlob(c, v, at)
  ELSE IF StartsWith(v.text, Envelope(kind)) THEN Failed("Malformed")
  ELSE IF StartsWith(v.text, OtherVersion(kind)) THEN Failed("UnknownVersion")
  ELSE Opened(v.text, v.text # <<>>)

\* seal_text seals anything, seal_bytes no text that starts with a magic.
CanSeal(kind, text) == kind = "text" \/ ~StartsWith(text, {CB01, SF01})

-----------------------------------------------------------------------------
\* How a store seals: "sealing" with a cipher, "compat" or "unhealthy".

NoCipher == Cipher(0, {})
StoreSeal(mode, cipher) == [mode |-> mode, cipher |-> cipher]
Sealing(cipher) == StoreSeal("sealing", cipher)
Compat == StoreSeal("compat", NoCipher)
Unhealthy == StoreSeal("unhealthy", NoCipher)

\* store_state: classify a store from the key check value it recorded.
StoreState(cipher, kcv, holdsSealed) ==
  IF cipher = NoCipher
  THEN IF kcv # 0 \/ holdsSealed THEN Unhealthy ELSE Compat
  ELSE IF kcv = 0 \/ MatchKcv(cipher, kcv) # "Unknown" THEN Sealing(cipher)
  ELSE Unhealthy

\* ensure_writable.
Writable(seal) == seal.mode # "unhealthy"

\* Whether seal_text or seal_bytes succeeds, and what it stores.
Accepts(seal, kind, text) ==
  CASE seal.mode = "sealing" -> CanSeal(kind, text)
    [] seal.mode = "compat" -> kind = "text" \/ ~StartsWith(text, {CB01})
    [] OTHER -> FALSE

SealValue(seal, kind, text, at) ==
  IF seal.mode = "sealing" THEN Sealed(seal.cipher.current, at, text)
  ELSE IF kind = "text" /\ StartsWith(text, {V1, V2, RAW}) THEN Plain(<<RAW>> \o text)
  ELSE Plain(text)

\* open_text_detailed and open_bytes: the escape is stripped, the rest opened.
OpenValue(seal, kind, v, at) ==
  IF kind = "text" /\ v.root = 0 /\ StartsWith(v.text, {RAW})
  THEN Opened(Tail(v.text), seal.mode = "sealing")
  ELSE IF seal.mode = "sealing" THEN Open(seal.cipher, kind, v, at)
  ELSE IF IsSealed(kind, v) THEN Failed("NoKey")
  ELSE Opened(v.text, FALSE)

-----------------------------------------------------------------------------
\* reseal_value: what a migration makes of one value.

\* Mutant: the escape of a keyless process is sealed with the value.
StripKeeping(kind, v, opened) == opened.text

\* Plaintext loses the escape a keyless process gave it; what came out of an
\* envelope was written by a user and is sealed as it is.
Strip(kind, v, opened) ==
  IF kind = "text" /\ ~IsSealed(kind, v) /\ StartsWith(opened.text, {RAW})
  THEN Tail(opened.text) ELSE opened.text

Reseal(c, kind, v, at) ==
  LET opened == Open(c, kind, v, at)
      text   == Strip(kind, v, opened)
  IN  IF v = Null THEN [outcome |-> "Already", value |-> v]
      ELSE IF ~opened.ok THEN [outcome |-> "Unreadable", value |-> v]
      ELSE IF ~opened.reseal THEN [outcome |-> "Already", value |-> v]
      ELSE IF ~CanSeal(kind, text) THEN [outcome |-> "Unreadable", value |-> v]
      ELSE [outcome |-> "Sealed", value |-> Sealed(c.current, at, text)]

-----------------------------------------------------------------------------
\* The rows of the state table (content_sqlite.rs), and the place of a cell.

SUPPORTED_MIN_READER == 1

At(i, r) == <<i, r>>

Item(state, cursor) == [state |-> state, cursor |-> cursor]

\* The store row; "none" where there is no row, kcv = 0 where it names no key.
NoRecord == [state |-> "none", scrubbed |-> FALSE, tried |-> FALSE,
             kcv |-> 0, minReader |-> SUPPORTED_MIN_READER]

\* record_store_kcv: a new row starts as "ok", an old one keeps its state.
RecordKcv(record, kcv) ==
  [record EXCEPT !.kcv = kcv, !.state = IF @ = "none" THEN "ok" ELSE @]

=============================================================================
