------------------------------ MODULE VectorIndex ------------------------------
(***************************************************************************)
(* The in-memory index over sealed embeddings (crypto/vector_index.rs):    *)
(* partitions share one budget of memory, the least recently used go when  *)
(* another needs the room, and a partition that is not in memory is read   *)
(* from the sealed store again.                                            *)
(*                                                                         *)
(* The sealed store is its caller's: a hydration reads the rows first and  *)
(* hands them over later; a change is stored first and told later.         *)
(***************************************************************************)
EXTENDS Integers, FiniteSets

CONSTANTS
  Partitions, Ids,
  LIMIT,        \* the budget, in vectors
  MaxChanges    \* bound: how often the store changes

VectorIndexAssumption ==
  /\ IsFiniteSet(Partitions) /\ IsFiniteSet(Ids)
  /\ LIMIT \in Nat /\ MaxChanges \in Nat

VARIABLES
  rows,      \* the sealed store: ids by partition
  memory,    \* the vectors of each partition that is in memory
  recency,   \* Partition.last_used: of each partition in memory, those used before it
  spent,     \* BudgetState.used
  totals,    \* IndexMeta.totals
  evicted,   \* IndexMeta.evicted
  handing,   \* hydrations under way: [partition, ids, stale, built, newer], at most one
  telling,   \* changes stored and not yet told: [partition, id, put], at most one
  raced,     \* history: partitions in memory that changed on their way there
  changes    \* how often the store changed, for the bound

vars == <<rows, memory, recency, spent, totals, evicted, handing, telling, raced, changes>>

Hydrated == DOMAIN recency
Max2(a, b) == IF a > b THEN a ELSE b

\* The order without ps, and with p used after all but the newer ones.
Dropped(order, ps) == [q \in DOMAIN order \ ps |-> order[q] \ ps]
Placed(order, p, newer) ==
  [q \in DOMAIN order \cup {p} |->
     IF q = p THEN DOMAIN order \ (newer \cup {p})
     ELSE (order[q] \ {p}) \cup (IF q \in newer THEN {p} ELSE {})]
Touched(p) == Placed(recency, p, {})

\* A hydration that has its stamp is older than what is used from then on.
UsedSince(p) == {[h EXCEPT !.newer = IF h.built THEN @ \cup {p} ELSE @] : h \in handing}

Init ==
  /\ rows \in [Partitions -> SUBSET Ids]
  /\ memory = [p \in Partitions |-> {}]
  /\ recency = [p \in {} |-> {}] /\ spent = 0
  /\ totals = [p \in Partitions |-> 0] /\ evicted = {}
  /\ handing = {} /\ telling = {} /\ raced = {} /\ changes = 0

-----------------------------------------------------------------------------
\* What partitions take of the budget.
Held(ps) == UNION {{p} \X memory[p] : p \in ps}
BytesOf(ps) == Cardinality(Held(ps))

\* make_room: the least recently used but `keep`, as long as the rest and the
\* extra do not fit.
Victims(order, used, extra, keep) ==
  {q \in DOMAIN order \ {keep} : used - BytesOf(order[q] \ {keep}) + extra > LIMIT}

\* hydrate_partition: its caller reads the rows ...
ReadRows(p) ==
  /\ handing = {}
  /\ handing' = {[partition |-> p, ids |-> rows[p], stale |-> FALSE,
                  built |-> FALSE, newer |-> {}]}
  /\ UNCHANGED <<rows, memory, recency, spent, totals, evicted, telling, raced, changes>>

\* ... the partition is built of them and stamped, before the lock is taken ...
Build ==
  \E h \in handing :
    /\ ~h.built
    /\ handing' = {[h EXCEPT !.built = TRUE]}
    /\ UNCHANGED <<rows, memory, recency, spent, totals, evicted, telling, raced, changes>>

\* ... and takes the place of what was in memory, unless it alone is more than
\* the budget: then the partition goes, too.
Replace(h, left) ==
  LET p == h.partition
      needed == Cardinality(h.ids)
      fits == needed <= LIMIT
      others == Dropped(recency, {p})
      victims == IF fits THEN Victims(others, left, needed, p) ELSE {}
      rest == Dropped(others, victims)
  IN /\ h.built
     /\ memory' = [q \in Partitions |-> IF q = p THEN IF fits THEN h.ids ELSE {}
                                        ELSE IF q \in victims THEN {} ELSE memory[q]]
     /\ recency' = IF fits THEN Placed(rest, p, h.newer) ELSE rest
     /\ spent' = left - BytesOf(victims) + (IF fits THEN needed ELSE 0)
     /\ evicted' = IF fits THEN (evicted \cup victims) \ {p} ELSE evicted \cup {p}
     /\ totals' = [totals EXCEPT ![p] = Max2(@, needed)]
     /\ handing' = {}
     /\ raced' = IF h.stale THEN raced \cup {p} ELSE raced \ {p}
     /\ UNCHANGED <<rows, telling, changes>>

\* Mutant: the partition that is replaced still counts.
HydrateTwice == \E h \in handing : Replace(h, spent)

Hydrate == \E h \in handing : Replace(h, spent - BytesOf(Hydrated \cap {h.partition}))

SetPartitionTotal(p) ==
  /\ totals' = [totals EXCEPT ![p] = Cardinality(rows[p])]
  /\ UNCHANGED <<rows, memory, recency, spent, evicted, handing, telling, raced, changes>>

\* The rows on their way when a partition's rows change.
Overtaken(p) == {[h EXCEPT !.stale = @ \/ h.partition = p] : h \in handing}

\* The caller stores a vector or deletes one, then tells the index.
StoreRow(p, i) ==
  /\ telling = {}
  /\ changes < MaxChanges
  /\ changes' = changes + 1
  /\ rows' = [rows EXCEPT ![p] = IF i \in @ THEN @ \ {i} ELSE @ \cup {i}]
  /\ telling' = {[partition |-> p, id |-> i, put |-> i \notin rows[p]]}
  /\ handing' = Overtaken(p)
  /\ UNCHANGED <<memory, recency, spent, totals, evicted, raced>>

\* upsert: only into a partition in memory, which then may go past the budget
\* when nothing else is there to make room.
Upsert ==
  \E t \in {u \in telling : u.put} :
    LET p == t.partition
        new == Cardinality({t.id} \ memory[p])
        victims == Victims(Touched(p), spent + new, 0, p)
    IN /\ telling' = {}
       /\ IF p \notin Hydrated
          THEN UNCHANGED <<memory, recency, spent, totals, evicted, handing, raced>>
          ELSE /\ memory' = [q \in Partitions |->
                               IF q = p THEN memory[p] \cup {t.id}
                               ELSE IF q \in victims THEN {} ELSE memory[q]]
               /\ recency' = Dropped(Touched(p), victims)
               /\ spent' = spent + new - BytesOf(victims)
               /\ totals' = [totals EXCEPT ![p] = @ + new]
               /\ evicted' = evicted \cup victims
               /\ handing' = UsedSince(p)
               /\ raced' = IF t.id \in rows[p] THEN raced ELSE raced \cup {p}
       /\ UNCHANGED <<rows, changes>>

\* remove.
RemoveVector ==
  \E t \in {u \in telling : ~u.put} :
    LET p == t.partition
        removed == Cardinality({t.id} \cap memory[p])
    IN /\ telling' = {}
       /\ memory' = [memory EXCEPT ![p] = @ \ {t.id}]
       /\ spent' = spent - removed
       /\ totals' = [totals EXCEPT ![p] = Max2(@ - removed, 0)]
       /\ UNCHANGED <<rows, recency, evicted, handing, raced, changes>>

\* drop_partition, of a space that is deleted.
DropPartition(p) ==
  /\ changes < MaxChanges
  /\ changes' = changes + 1
  /\ rows' = [rows EXCEPT ![p] = {}]
  /\ memory' = [memory EXCEPT ![p] = {}]
  /\ recency' = Dropped(recency, {p})
  /\ spent' = spent - BytesOf({p})
  /\ totals' = [totals EXCEPT ![p] = 0]
  /\ evicted' = evicted \ {p}
  /\ handing' = Overtaken(p)
  /\ UNCHANGED <<telling, raced>>

\* A search touches its partition.
Search(p) ==
  /\ p \in Hydrated
  /\ recency' = Touched(p)
  /\ handing' = UsedSince(p)
  /\ UNCHANGED <<rows, memory, spent, totals, evicted, telling, raced, changes>>

Next ==
  \/ \E p \in Partitions :
       \/ ReadRows(p) \/ SetPartitionTotal(p) \/ DropPartition(p) \/ Search(p)
       \/ \E i \in Ids : StoreRow(p, i)
  \/ Build \/ Hydrate \/ Upsert \/ RemoveVector

Spec == Init /\ [][Next]_vars

-----------------------------------------------------------------------------
TypeOK ==
  /\ rows \in [Partitions -> SUBSET Ids] /\ memory \in [Partitions -> SUBSET Ids]
  /\ Hydrated \subseteq Partitions /\ recency \in [Hydrated -> SUBSET Hydrated]
  /\ spent \in Int /\ totals \in [Partitions -> Nat] /\ evicted \subseteq Partitions
  /\ handing \subseteq [partition : Partitions, ids : SUBSET Ids, stale : BOOLEAN,
                         built : BOOLEAN, newer : SUBSET Partitions]
  /\ telling \subseteq [partition : Partitions, id : Ids, put : BOOLEAN]
  /\ raced \subseteq Partitions /\ changes \in 0 .. MaxChanges

\* What is in memory is accounted for, and past the budget only by the one
\* partition that is left; and a partition is in memory or counted as evicted,
\* never both.
BudgetIsKept ==
  /\ spent = BytesOf(Hydrated)
  /\ \A p \in Partitions \ Hydrated : memory[p] = {}
  /\ spent > LIMIT => Cardinality(Hydrated) = 1
  /\ evicted \cap Hydrated = {}

\* A partition in memory holds what its store holds, once everything is told:
\* unless it changed while its rows were on their way.
MemoryIsTheStore ==
  telling = {} => \A p \in Hydrated \ raced : memory[p] = rows[p]

VectorsAreAccounted == BudgetIsKept /\ MemoryIsTheStore

-----------------------------------------------------------------------------
(* What the proofs need besides.                                           *)

\* Of two partitions in memory one was used before the other; a hydration with
\* its stamp is newer than all but those used since.
OrderIsTotal ==
  /\ \A p, q \in Hydrated : (p \in recency[q]) <=> (p # q /\ q \notin recency[p])
  /\ \A p, q \in Hydrated : p \in recency[q] => recency[p] \subseteq recency[q]
NewerAreLast ==
  \A h \in handing :
    /\ ~h.built => h.newer = {}
    /\ \A p \in h.newer \cap Hydrated, q \in Hydrated : p \in recency[q] => q \in h.newer

\* A change that is not told yet is all that memory lacks of the store; rows on
\* their way that did not change are the store's.
Tells(p) ==
  /\ (\A t \in telling : t.partition # p) => memory[p] = rows[p]
  /\ \A t \in telling : t.partition = p =>
       /\ ~t.put => memory[p] \ {t.id} = rows[p]
       /\ t.put => memory[p] \cup (rows[p] \cap {t.id}) = rows[p]
MemoryFollows ==
  /\ \A p \in Hydrated \ raced : Tells(p)
  /\ \A h \in handing : ~h.stale => h.ids = rows[h.partition]
  /\ \A t \in telling : ~t.put => t.id \notin rows[t.partition]
OneAtATime ==
  /\ \A h, g \in handing : h = g
  /\ \A t, u \in telling : t = u

VectorInv ==
  TypeOK /\ BudgetIsKept /\ OrderIsTotal /\ NewerAreLast /\ MemoryFollows /\ OneAtATime

=============================================================================
