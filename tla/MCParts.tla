------------------------------- MODULE MCParts -------------------------------
(***************************************************************************)
(* Parts on a few keys, folders and stores of values, with the databases   *)
(* of StoreFiles and the engine's answers of SpokenSegments, and small     *)
(* files and logs.                                                         *)
(***************************************************************************)
EXTENDS Parts

CONSTANTS k1, k2, k3     \* keys

\* A new folder, one with a key in the keychain, one whose key file and gateway
\* memory hold different keys, and one with nothing but the gateway's.
NoKey == "no key"
MCFolders ==
  {[keychain |-> NoKey, file |-> NoKey, memory |-> NoKey, used |-> {}],
   [keychain |-> k1, file |-> NoKey, memory |-> NoKey, used |-> {k1}],
   [keychain |-> NoKey, file |-> k1, memory |-> k2, used |-> {k1}],
   [keychain |-> NoKey, file |-> NoKey, memory |-> k2, used |-> {k2}]}
MCBundles == {[current |-> k2, retired |-> {k3}]}

\* A field, a plugin's value, a component's and a tenant's.
MCValueStores ==
  {[kind |-> "field", id |-> "", via |-> v] : v \in {"trait", "string", "file"}} \cup
  {[kind |-> "plugin", id |-> "mail", via |-> v] : v \in {"trait", "file"}} \cup
  {[kind |-> "component", id |-> "gateway", via |-> "string"],
   [kind |-> "tenant", id |-> "acme", via |-> "trait"]}
MCValueTexts == {<<>>, <<"note">>, <<"enc:v1:", "note">>}

Files == INSTANCE StoreFiles

MCPlans == Files!MCPlans
MCCiphers == Files!MCCiphers
MCTexts == Files!MCTexts
MCLegacy == Files!MCLegacy

Speech == INSTANCE SpokenSegments

MCSegments == Speech!MCSegments

=============================================================================
