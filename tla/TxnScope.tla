------------------------------ MODULE TxnScope ------------------------------
(***************************************************************************)
(* What the users of one connection are promised by begin_transaction():   *)
(* one scope after the other, all the work of each kept by one commit, or  *)
(* none of it, and a savepoint that brings back exactly the work there was *)
(* when it was made.  It knows nothing of depths, statements or servers.   *)
(***************************************************************************)
EXTENDS Sequences, Integers

CONSTANTS Name, Row

VARIABLES
  phase,     \* "idle" or "active"
  stored,    \* the rows that are kept
  pending,   \* the rows the scope sees
  points     \* the savepoints it can return to: [name, rows]

vars == <<phase, stored, pending, points>>

Init ==
  /\ phase = "idle"
  /\ stored = {} /\ pending = {}
  /\ points = <<>>

Open ==
  /\ phase = "idle"
  /\ phase' = "active"
  /\ UNCHANGED <<stored, pending, points>>

Write(r) ==
  /\ phase = "active" /\ r \notin pending
  /\ pending' = pending \cup {r}
  /\ UNCHANGED <<phase, stored, points>>

Save(n) ==
  /\ phase = "active"
  /\ points' = Append(points, [name |-> n, rows |-> pending])
  /\ UNCHANGED <<phase, stored, pending>>

(* Going back to a savepoint uses it up, and the ones made after it. *)
Return(i) ==
  /\ phase = "active"
  /\ pending' = points[i].rows
  /\ points' = SubSeq(points, 1, i - 1)
  /\ UNCHANGED <<phase, stored>>

Keep ==
  /\ phase = "active"
  /\ phase' = "idle"
  /\ stored' = pending
  /\ points' = <<>>
  /\ UNCHANGED pending

Drop ==
  /\ phase = "active"
  /\ phase' = "idle"
  /\ pending' = stored
  /\ points' = <<>>
  /\ UNCHANGED stored

Next ==
  \/ Open \/ Keep \/ Drop
  \/ \E r \in Row : Write(r)
  \/ \E n \in Name : Save(n)
  \/ \E i \in 1..Len(points) : Return(i)

Spec == Init /\ [][Next]_vars
=============================================================================
