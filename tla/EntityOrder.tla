----------------------------- MODULE EntityOrder -----------------------------
(***************************************************************************)
(* The order in which DDL for the entities of a DbAdapter is emitted       *)
(* (_order_entities_for_ddl in src/deev/utils.py), one action per turn of  *)
(* its loops.  An entity is the rank of its table's name in alphabetical   *)
(* order; refs[e] are the entities its foreign keys refer to.              *)
(***************************************************************************)
EXTENDS Naturals, Sequences, FiniteSets, FiniteSetsExt

CONSTANT MaxEntities     \* bound: entities of a schema

ASSUME OrderAssumption == MaxEntities \in Nat

Entities == 1..MaxEntities

VARIABLES refs, discovered,  \* the input: the schema, and the adapter's own entities
          stage,             \* the loop that runs
          queue, seen,       \* the first loop: what is still to look at; all_entities
          remaining,         \* the second loop: what is not emitted yet
          ordered            \* what is emitted

order == <<refs, discovered, stage, queue, seen, remaining, ordered>>

OrderStart(r, d) ==
  /\ refs = r /\ discovered = d
  /\ stage = "queue" /\ queue = d
  /\ seen = {} /\ remaining = {} /\ ordered = <<>>

OrderInit == \E r \in [Entities -> SUBSET Entities], d \in SUBSET Entities : OrderStart(r, d)

-----------------------------------------------------------------------------
(* Any element of the queue may be its first: the result does not depend on *)
(* it.  One that is queued twice is skipped the second time.                *)
Discover ==
  /\ stage = "queue"
  /\ \E e \in queue : /\ seen' = seen \cup {e}
                      /\ queue' = (queue \ {e}) \cup (refs[e] \ seen')
  /\ UNCHANGED <<refs, discovered, stage, remaining, ordered>>

StartSorting ==
  /\ stage = "queue" /\ queue = {}
  /\ stage' = "sort" /\ remaining' = seen
  /\ UNCHANGED <<refs, discovered, queue, seen, ordered>>

Emitted == {ordered[i] : i \in DOMAIN ordered}

Deps(e) == refs[e] \cap seen

(* Mutant of Ready: one target that is emitted suffices. *)
HalfReady == {e \in remaining : Deps(e) = {} \/ Deps(e) \cap Emitted # {}}

Ready == {e \in remaining : Deps(e) \subseteq Emitted}

Emit(e) ==
  /\ ordered' = Append(ordered, e) /\ remaining' = remaining \ {e}
  /\ UNCHANGED <<refs, discovered, stage, queue, seen>>

(* Kahn's algorithm; what is left when none is ready comes alphabetically.  *)
EmitReady == stage = "sort" /\ Ready # {} /\ Emit(Min(Ready))

FallBack ==
  /\ stage = "sort" /\ remaining # {} /\ Ready = {}
  /\ stage' = "rest"
  /\ UNCHANGED <<refs, discovered, queue, seen, remaining, ordered>>

EmitRest == stage = "rest" /\ remaining # {} /\ Emit(Min(remaining))

Finish ==
  /\ stage \in {"sort", "rest"} /\ remaining = {}
  /\ stage' = "done"
  /\ UNCHANGED <<refs, discovered, queue, seen, remaining, ordered>>

OrderNext == Discover \/ StartSorting \/ EmitReady \/ FallBack \/ EmitRest \/ Finish

OrderSpec == OrderInit /\ [][OrderNext]_order

(* The tables with their constraints, as generate_dbadapter_ddl lists them. *)
AdapterDdl == [i \in DOMAIN ordered |-> [table |-> ordered[i], foreign |-> refs[ordered[i]]]]

-----------------------------------------------------------------------------
OrderTypeOK ==
  /\ refs \in [Entities -> SUBSET Entities] /\ discovered \subseteq Entities
  /\ stage \in {"queue", "sort", "rest", "done"}
  /\ queue \subseteq Entities /\ seen \subseteq Entities /\ remaining \subseteq seen
  /\ ordered \in Seq(seen)

(* S with everything its members refer to, and the least such set above S.  *)
Complete(S) == \A e \in S : refs[e] \subseteq S

Reached(S) == {e \in Entities : \A T \in SUBSET Entities : S \subseteq T /\ Complete(T) => e \in T}

OnCycle(e) == e \in Reached(refs[e])

AboveCycle(e) == \E x \in Reached({e}) : OnCycle(x)

EmittedBefore(i) == {ordered[j] : j \in 1..(i - 1)}

(* Nothing is emitted twice. *)
EmittedOnce == \A i, j \in DOMAIN ordered : ordered[i] = ordered[j] => i = j

(* A table that does not lead into a cycle comes after those it refers to.  *)
TargetsBefore ==
  \A i \in DOMAIN ordered :
    ~ AboveCycle(ordered[i]) => AdapterDdl[i].foreign \subseteq EmittedBefore(i)

(* Between two tables only a foreign key overrules the alphabet.            *)
AlphabetBreaksTies ==
  \A i \in DOMAIN ordered : \A e \in seen \ EmittedBefore(i) :
    e < ordered[i] => ~ (Deps(e) \subseteq EmittedBefore(i))

(* The DDL of an adapter creates every entity it names or refers to, at any *)
(* remove, exactly once, in alphabetical order but for the foreign keys,    *)
(* and the target of a foreign key before the table that refers to it,      *)
(* unless that table leads into a cycle of foreign keys, a reference to     *)
(* itself included: a table above the cycle has no claim                    *)
(* (generate_dbadapter_ddl).                                                *)
ParentsFirst ==
  stage = "done" =>
    /\ Emitted = Reached(discovered) /\ EmittedOnce
    /\ AlphabetBreaksTies /\ TargetsBefore

(* ParentsFirst is inductive with these: the queue is on the way to what    *)
(* the adapter's entities reach; what is seen is emitted or remains; and    *)
(* once the alphabet decides alone, all that remains is above a cycle.      *)
QueueIsReached ==
  /\ discovered \subseteq seen \cup queue
  /\ seen \cup queue \subseteq Reached(discovered)
  /\ \A e \in seen : refs[e] \subseteq seen \cup queue
  /\ stage # "queue" => queue = {}

RestIsAboveCycle ==
  /\ stage = "queue" => ordered = <<>>
  /\ stage # "queue" => seen = Emitted \cup remaining /\ Emitted \cap remaining = {}
  /\ stage = "rest" => \A e \in remaining : AboveCycle(e)
  /\ stage = "done" => remaining = {}

OrderInv ==
  /\ OrderTypeOK /\ QueueIsReached /\ RestIsAboveCycle
  /\ EmittedOnce /\ AlphabetBreaksTies /\ TargetsBefore
=============================================================================
