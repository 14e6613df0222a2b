------------------------------- MODULE Settings -------------------------------
(***************************************************************************)
(* The node-wide settings (put_settings in api.rs, settings and            *)
(* save_settings in store.rs): a request reads all of them, changes the    *)
(* fields it names and saves all of them.  The two are calls of their own, *)
(* with other requests between them, and either may fail.                  *)
(***************************************************************************)
EXTENDS Integers, FiniteSets

CONSTANTS Fields, Puts
Default == 0           \* a field's default; a request writes its own number
SettingsAssumption == Puts \subseteq Nat \ {Default}

VARIABLES
  stored,   \* the row, by field
  names,    \* the fields each request names
  draft,    \* the settings a request has in hand
  at,       \* "new" | "read" | "saved" | "failed"
  first,    \* history: the row before the requests
  misread   \* history: a read failed

vars == <<stored, names, draft, at, first, misread>>

Defaults == [f \in Fields |-> Default]

Init ==
  /\ stored \in [Fields -> {Default, -1}]
  /\ first = stored
  /\ names \in [Puts -> SUBSET Fields]
  /\ draft = [p \in Puts |-> Defaults]
  /\ at = [p \in Puts |-> "new"]
  /\ misread = FALSE

\* Mutant: the fields a request does not name get their defaults.
NamedOverDefaults(p, settings) == [f \in Fields |-> IF f \in names[p] THEN p ELSE Default]

\* The fields a request names, over what it read.
Named(p, settings) == [f \in Fields |-> IF f \in names[p] THEN p ELSE settings[f]]

\* unwrap_or_default: a read that fails, or a row that does not parse, is taken
\* for the defaults.
ReadSettings(p) ==
  /\ at[p] = "new"
  /\ \/ draft' = [draft EXCEPT ![p] = Named(p, stored)] /\ UNCHANGED misread
     \/ draft' = [draft EXCEPT ![p] = Named(p, Defaults)] /\ misread' = TRUE
  /\ at' = [at EXCEPT ![p] = "read"]
  /\ UNCHANGED <<stored, names, first>>

\* A value that is not known refuses the whole request.
RefuseSettings(p) ==
  /\ at[p] = "read" /\ names[p] # {}
  /\ at' = [at EXCEPT ![p] = "failed"]
  /\ UNCHANGED <<stored, names, draft, first, misread>>

SaveSettings(p) ==
  /\ at[p] = "read"
  /\ \/ stored' = draft[p] /\ at' = [at EXCEPT ![p] = "saved"]
     \/ UNCHANGED stored /\ at' = [at EXCEPT ![p] = "failed"]
  /\ UNCHANGED <<names, draft, first, misread>>

Next == \E p \in Puts : ReadSettings(p) \/ RefuseSettings(p) \/ SaveSettings(p)

Spec == Init /\ [][Next]_vars

-----------------------------------------------------------------------------
TypeOK ==
  /\ stored \in [Fields -> {Default, -1} \cup Puts]
  /\ at \in [Puts -> {"new", "read", "saved", "failed"}]

\* A field that no request names stays what it was, however many of them are
\* under way, unless one could not read; a field that changed has the value of
\* a request that names it, or the default one took it for.
UnnamedIsKept ==
  \A f \in Fields :
    \/ stored[f] = first[f]
    \/ stored[f] \in Puts /\ f \in names[stored[f]]
    \/ misread /\ stored[f] = Default

-----------------------------------------------------------------------------
(* The inductive invariant behind UnnamedIsKept: what a request has in     *)
(* hand to save is as good as the row.                                     *)

Unnamed(settings) ==
  \A f \in Fields :
    \/ settings[f] = first[f]
    \/ settings[f] \in Puts /\ f \in names[settings[f]]
    \/ misread /\ settings[f] = Default

UnnamedInv ==
  /\ stored \in [Fields -> Int]
  /\ names \in [Puts -> SUBSET Fields]
  /\ draft \in [Puts -> [Fields -> Int]]
  /\ at \in [Puts -> {"new", "read", "saved", "failed"}]
  /\ misread \in BOOLEAN
  /\ Unnamed(stored)
  /\ \A p \in Puts : at[p] = "read" => Unnamed(draft[p])

=============================================================================
