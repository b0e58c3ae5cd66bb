--------------------------- MODULE MigratorProofs ---------------------------
(***************************************************************************)
(* Theorems about DbMigrator, for any number of scripts, invocations,      *)
(* failures and edits of the directory.                                    *)
(***************************************************************************)
EXTENDS Migrator, TLAPS

(* Operators only apply, and a script's function that returns has committed.*)
ApplyOnly ==
  /\ Commands \subseteq {"apply"}
  /\ Outcomes \subseteq {"commit", "partial"}

(* What RecordedHasRun needs: every reason an invocation can have to pass a *)
(* script by, or to record it, is a reason to know that it has run.         *)
HasRun ==
  /\ \A m \in Mig : effect[m] >= 0
  /\ RecordedHasRun
  /\ \A p \in Proc :
       /\ run[p].cmd = "apply"
       /\ \A m \in Mig : run[p].held[m] # 0 => effect[m] > 0
       /\ \A m \in Mig : run[p].at = "ran" /\ Turn(p, m) => effect[m] > 0
       /\ run[p].left # {} =>
            \A m \in run[p].list : m \in run[p].left \/ effect[m] > 0

(* One invocation at a time, none of which dies, and scripts that commit or *)
(* change nothing.                                                          *)
OneByOne ==
  /\ \A p, q \in Proc : p = q
  /\ "crash" \notin Trouble
  /\ Outcomes \subseteq {"commit"}

InStep(m) == effect[m] = IF m \in Recorded THEN 1 ELSE 0

(* What TableTellsTheSchema needs: the rows have ids and names of their     *)
(* own, the invocation knows the row of every script it has still to visit, *)
(* and table and schema differ only between a script's commit and its       *)
(* record, and then in that script alone.                                   *)
Tracked ==
  /\ nextId > 0
  /\ \A r, s \in rows : r.id = s.id \/ r.name = s.name => r = s
  /\ \A r \in rows : r.id > 0 /\ r.id < nextId
  /\ (\A p \in Proc : run[p].at # "ran") => \A m \in Mig : InStep(m)
  /\ \A p \in Proc : run[p].at # "idle" =>
       \A m \in run[p].left :
         /\ m \in Recorded <=> run[p].held[m] # 0
         /\ m \in Recorded => [id |-> run[p].held[m], name |-> m] \in rows
  /\ \A p \in Proc : run[p].at = "ran" =>
       \E m \in Mig :
         /\ Turn(p, m) /\ Wanted(p, m)
         /\ effect[m] = IF run[p].cmd = "apply" THEN 1 ELSE 0
         /\ \A k \in Mig \ {m} : InStep(k)

(* What UndoKeepsWhatIsBefore needs: while there is anything left to visit,  *)
(* the script to stop at, if the invocation listed it, is still to come.    *)
StopAhead ==
  \A p \in Proc :
    run[p].stop \in run[p].list /\ run[p].left # {} => run[p].stop \in run[p].left

UpTo(p, m) ==
  \/ run[p].held[m] # 0
  \/ run[p].stop = All
  \/ run[p].stop # All /\ m <= run[p].stop

(* What AppliedUpToStop needs of an apply nobody interferes with: ids are   *)
(* not 0, stop_at is a script it listed, what is behind it is in the table  *)
(* as far as it was to go, and of what is left the table says what it read. *)
Accounted ==
  /\ nextId > 0
  /\ \A r \in rows : r.id > 0
  /\ \A p \in Proc : run[p].at # "idle" /\ run[p].cmd = "apply" =>
       /\ run[p].stop \in run[p].list \cup {All}
       /\ run[p].left \subseteq run[p].list
       /\ \A k \in run[p].list :
            /\ k \in run[p].left => (k \in Recorded <=> run[p].held[k] # 0)
            /\ k \notin run[p].left => (k \in Recorded <=> UpTo(p, k))
       /\ run[p].at = "ran" => \E m \in Mig : Turn(p, m) /\ Wanted(p, m)
-----------------------------------------------------------------------------
(* What Advanced, Ends and Start do to the locals of one invocation. *)
LEMMA AdvancedParts ==
  ASSUME run \in [Proc -> Local], NEW p \in Proc, NEW m \in Mig
  PROVE  /\ Advanced(p, m) \in [Proc -> Local]
         /\ \A q \in Proc \ {p} : Advanced(p, m)[q] = run[q]
         /\ Advanced(p, m)[p].at = "loop"
         /\ Advanced(p, m)[p].left = IF run[p].stop = m THEN {} ELSE run[p].left \ {m}
         /\ Advanced(p, m)[p].cmd = run[p].cmd
         /\ Advanced(p, m)[p].list = run[p].list
         /\ Advanced(p, m)[p].held = run[p].held
<1> DEFINE rest == IF run[p].stop = m THEN {} ELSE run[p].left \ {m}
           looped == [run[p] EXCEPT !.at = "loop"]
<1>1. run[p] \in Local
  OBVIOUS
<1>2. looped \in Local
  BY <1>1 DEF Local
<1>3. /\ looped.at = "loop" /\ looped.left = run[p].left /\ looped.stop = run[p].stop
      /\ looped.cmd = run[p].cmd /\ looped.list = run[p].list
      /\ looped.held = run[p].held
  BY <1>1 DEF Local
<1>4. rest \in SUBSET Mig
  BY <1>1 DEF Local
<1> DEFINE next == [looped EXCEPT !.left = rest]
<1>5. Advanced(p, m) = [run EXCEPT ![p] = next]
  BY <1>1, <1>3 DEF Advanced, Local
<1> HIDE DEF rest, looped
<1>6. /\ next \in Local
      /\ next.at = looped.at /\ next.left = rest /\ next.cmd = looped.cmd
      /\ next.list = looped.list /\ next.held = looped.held
  BY <1>2, <1>4 DEF Local
<1> HIDE DEF next
<1>7. QED
  BY <1>3, <1>5, <1>6 DEF rest

(* ... and it keeps its stop_at. *)
LEMMA AdvancedStop ==
  ASSUME run \in [Proc -> Local], NEW p \in Proc, NEW m \in Mig
  PROVE  Advanced(p, m)[p].stop = run[p].stop
BY DEF Advanced, Local

(* Nothing is held by an invocation that has not started. *)
LEMMA IdleType == Idle \in Local
BY DEF Idle, NoneHeld, Local

(* A new database, and no invocation under way, are well formed. *)
LEMMA TypeInit == Init => TypeOK
BY IdleType DEF Init, TypeOK, Row

(* Every step keeps the shape of the table and of every invocation. *)
LEMMA TypeStep == TypeOK /\ [Next]_vars => TypeOK'
<1> SUFFICES ASSUME TypeOK, [Next]_vars PROVE TypeOK'
  OBVIOUS
<1> USE DEF TypeOK
<1>1. ASSUME NEW p \in Proc, NEW cmd \in Commands, NEW stop \in Mig \cup {All},
             Start(p, cmd, stop)
      PROVE  TypeOK'
  <2>1. PICK f \in Snapshots :
          run' = [run EXCEPT ![p] = [at |-> "loop", cmd |-> cmd, stop |-> stop,
                                     list |-> files, left |-> files, held |-> f]]
    BY <1>1 DEF Start
  <2>2. f \in [Mig -> Nat]
    BY <2>1 DEF Snapshots, Row
  <2>3. [at |-> "loop", cmd |-> cmd, stop |-> stop,
         list |-> files, left |-> files, held |-> f] \in Local
    BY <2>2, MigratorAssumption DEF Local
  <2>4. QED
    BY <1>1, <2>1, <2>3 DEF Start
<1>2. ASSUME NEW p \in Proc, Return(p)
      PROVE  TypeOK'
  BY <1>2, IdleType DEF Return
<1>3. ASSUME NEW p \in Proc, NEW m \in Mig, Skip(p, m)
      PROVE  TypeOK'
  BY <1>3, AdvancedParts DEF Skip
<1>4. ASSUME NEW p \in Proc, NEW m \in Mig, Record(p, m)
      PROVE  TypeOK'
  <2>1. run' \in [Proc -> Local]
    BY <1>4, AdvancedParts DEF Record
  <2>2. rows' \subseteq Row /\ nextId' \in Nat
    BY <1>4 DEF Record, Row
  <2>3. QED
    BY <1>4, <2>1, <2>2 DEF Record
<1>5. ASSUME NEW p \in Proc, NEW m \in Mig, NEW outcome, Execute(p, m, outcome)
      PROVE  TypeOK'
  <2>1. effect' \in [Mig -> Int]
    BY <1>5 DEF Execute, Change
  <2>2. run' \in [Proc -> Local] /\ failures' \in Nat
    <3>1. [run[p] EXCEPT !.at = "ran"] \in Local
      BY DEF Local
    <3>2. QED
      BY <1>5, <3>1, IdleType DEF Execute, Ends
  <2>3. QED
    BY <1>5, <2>1, <2>2 DEF Execute
<1>6. ASSUME NEW p \in Proc, Crash(p)
      PROVE  TypeOK'
  BY <1>6, IdleType DEF Crash, Ends
<1>7. ASSUME NEW m \in Mig, EditFiles(m)
      PROVE  TypeOK'
  BY <1>7 DEF EditFiles
<1>8. CASE UNCHANGED vars
  BY <1>8 DEF vars
<1>9. QED
  BY <1>1, <1>2, <1>3, <1>4, <1>5, <1>6, <1>7, <1>8 DEF Next, Invoke, Step

(* The database and the locals of every invocation stay well formed. *)
THEOREM TypeCorrect == Spec => []TypeOK
BY TypeInit, TypeStep, PTL DEF Spec
-----------------------------------------------------------------------------
(* The loop comes to one script at a time. *)
LEMMA OneTurn ==
  ASSUME run \in [Proc -> Local], NEW p \in Proc, NEW m \in Mig, NEW k \in Mig,
         Turn(p, m), Turn(p, k)
  PROVE  m = k
BY MigratorAssumption DEF Turn, Local

(* Reading the table and recording a script go by scripts that have run.    *)
LEMMA HasRunStart ==
  ASSUME TypeOK, HasRun, ApplyOnly,
         NEW p \in Proc, NEW cmd \in Commands, NEW stop \in Mig \cup {All},
         Start(p, cmd, stop)
  PROVE  HasRun'
<1>1. PICK f \in Snapshots :
        run' = [run EXCEPT ![p] = [at |-> "loop", cmd |-> cmd, stop |-> stop,
                                   list |-> files, left |-> files, held |-> f]]
  BY DEF Start
<1>2. UNCHANGED <<rows, effect>>
  BY DEF Start
<1>3. \A m \in Mig : f[m] # 0 => effect[m] > 0
  BY <1>1 DEF Snapshots, HasRun, RecordedHasRun
<1>4. /\ run'[p].cmd = "apply" /\ run'[p].held = f /\ run'[p].at = "loop"
      /\ run'[p].left = run'[p].list
  BY <1>1 DEF TypeOK, ApplyOnly
<1>5. \A q \in Proc \ {p} : run'[q] = run[q]
  BY <1>1 DEF TypeOK
<1>6. QED
  BY <1>2, <1>3, <1>4, <1>5 DEF HasRun, RecordedHasRun, Recorded, Turn, TypeOK

(* Moving past a script that has run leaves nothing behind that has not. *)
LEMMA HasRunAdvance ==
  ASSUME TypeOK, HasRun, NEW p \in Proc, NEW m \in Mig,
         run' = Advanced(p, m), effect[m] > 0, UNCHANGED effect,
         Recorded' \subseteq Recorded \cup {m}
  PROVE  HasRun'
<1>0. run \in [Proc -> Local]
  BY DEF TypeOK
<1>1. /\ \A q \in Proc \ {p} : run'[q] = run[q]
      /\ run'[p].at = "loop"
      /\ run'[p].left = IF run[p].stop = m THEN {} ELSE run[p].left \ {m}
      /\ run'[p].cmd = run[p].cmd
      /\ run'[p].list = run[p].list
      /\ run'[p].held = run[p].held
  BY <1>0, AdvancedParts
<1>2. \A k \in Mig : effect'[k] >= 0
  BY DEF HasRun
<1>3. RecordedHasRun'
  BY DEF HasRun, RecordedHasRun
<1>4. ASSUME NEW q \in Proc
      PROVE  /\ run'[q].cmd = "apply"
             /\ \A k \in Mig : run'[q].held[k] # 0 => effect'[k] > 0
             /\ \A k \in Mig : run'[q].at = "ran" /\ Turn(q, k)' => effect'[k] > 0
             /\ run'[q].left # {} =>
                  \A k \in run'[q].list : k \in run'[q].left \/ effect'[k] > 0
  BY <1>1 DEF HasRun, Turn
<1>5. QED
  BY <1>2, <1>3, <1>4 DEF HasRun

(* Running a script only adds to what has run. *)
LEMMA HasRunExecute ==
  ASSUME TypeOK, HasRun, ApplyOnly, NEW p \in Proc, NEW m \in Mig,
         NEW outcome \in Outcomes \cup {"raise"}, Execute(p, m, outcome)
  PROVE  HasRun'
<1>1. /\ effect \in [Mig -> Int]
      /\ effect' = IF outcome \in {"commit", "partial"}
                   THEN [effect EXCEPT ![m] = @ + 1] ELSE effect
  BY DEF Execute, Change, TypeOK, HasRun
<1>2. \A k \in Mig : effect'[k] >= effect[k] /\ effect'[k] \in Int
  BY <1>1
<1>3. outcome = "commit" => effect'[m] > 0
  BY <1>1 DEF HasRun
<1>4. UNCHANGED rows
  BY DEF Execute
<1>5. CASE outcome = "commit"
  <2>1. run' = [run EXCEPT ![p].at = "ran"]
    BY <1>5 DEF Execute
  <2>2. /\ \A q \in Proc \ {p} : run'[q] = run[q]
        /\ run'[p].cmd = run[p].cmd /\ run'[p].held = run[p].held
        /\ run'[p].left = run[p].left /\ run'[p].list = run[p].list
    BY <2>1 DEF TypeOK, Local
  <2>3. \A k \in Mig : Turn(p, k)' => k = m
    BY <2>2, OneTurn DEF Turn, Execute, TypeOK
  <2>4. \A k \in Mig : effect[k] > 0 => effect'[k] > 0
    BY <1>1, <1>2
  <2>5. RecordedHasRun'
    BY <1>4, <2>4 DEF HasRun, RecordedHasRun, Recorded, TypeOK, Row
  <2>6. \A k \in Mig : effect'[k] >= 0
    BY <1>1, <1>2 DEF HasRun
  <2>7. ASSUME NEW q \in Proc
        PROVE  /\ run'[q].cmd = "apply"
               /\ \A k \in Mig : run'[q].held[k] # 0 => effect'[k] > 0
               /\ \A k \in Mig : run'[q].at = "ran" /\ Turn(q, k)' => effect'[k] > 0
               /\ run'[q].left # {} =>
                    \A k \in run'[q].list : k \in run'[q].left \/ effect'[k] > 0
    <3>1. run[q].list \subseteq Mig
      BY DEF TypeOK, Local
    <3>2. CASE q = p
      BY <1>3, <1>5, <2>2, <2>3, <2>4, <3>1, <3>2 DEF HasRun
    <3>3. CASE q # p
      BY <2>2, <2>4, <3>1, <3>3 DEF HasRun, Turn
    <3>4. QED
      BY <3>2, <3>3
  <2>8. QED
    BY <2>5, <2>6, <2>7 DEF HasRun
<1>6. CASE outcome # "commit"
  <2>1. run' = [run EXCEPT ![p] = Idle]
    BY <1>6 DEF Execute, ApplyOnly, Ends
  <2>2. /\ \A q \in Proc \ {p} : run'[q] = run[q]
        /\ run'[p] = Idle
    BY <2>1 DEF TypeOK
  <2>3. \A k \in Mig : effect[k] > 0 => effect'[k] > 0
    BY <1>1, <1>2
  <2>4. RecordedHasRun'
    BY <1>4, <2>3 DEF HasRun, RecordedHasRun, Recorded, TypeOK, Row
  <2>5. \A k \in Mig : effect'[k] >= 0
    BY <1>1, <1>2 DEF HasRun
  <2>6. ASSUME NEW q \in Proc
        PROVE  /\ run'[q].cmd = "apply"
               /\ \A k \in Mig : run'[q].held[k] # 0 => effect'[k] > 0
               /\ \A k \in Mig : run'[q].at = "ran" /\ Turn(q, k)' => effect'[k] > 0
               /\ run'[q].left # {} =>
                    \A k \in run'[q].list : k \in run'[q].left \/ effect'[k] > 0
    <3>1. run[q].list \subseteq Mig
      BY DEF TypeOK, Local
    <3>2. CASE q = p
      BY <2>2, <3>2 DEF Idle, NoneHeld
    <3>3. CASE q # p
      BY <2>2, <2>3, <3>1, <3>3 DEF HasRun, Turn
    <3>4. QED
      BY <3>2, <3>3
  <2>7. QED
    BY <2>4, <2>5, <2>6 DEF HasRun
<1>7. QED
  BY <1>5, <1>6

(* An invocation that ends forgets what it knew. *)
LEMMA HasRunIdle ==
  ASSUME TypeOK, HasRun, NEW p \in Proc, run' = [run EXCEPT ![p] = Idle],
         UNCHANGED <<rows, effect>>
  PROVE  HasRun'
<1>1. /\ \A q \in Proc \ {p} : run'[q] = run[q]
      /\ run'[p] = Idle
  BY DEF TypeOK
<1>2. RecordedHasRun'
  BY DEF HasRun, RecordedHasRun, Recorded
<1>3. QED
  BY <1>1, <1>2 DEF HasRun, Idle, NoneHeld, Turn

(* Every step of a tool that only applies keeps HasRun. *)
LEMMA HasRunStep ==
  ApplyOnly /\ TypeOK /\ HasRun /\ [Next]_vars => HasRun'
<1> SUFFICES ASSUME ApplyOnly, TypeOK, HasRun, [Next]_vars PROVE HasRun'
  OBVIOUS
<1>1. ASSUME NEW p \in Proc, NEW m \in Mig, Skip(p, m)
      PROVE  HasRun'
  <2>1. effect[m] > 0
    BY <1>1 DEF Skip, Wanted, HasRun
  <2>2. Recorded' = Recorded
    BY <1>1 DEF Skip, Recorded
  <2>3. QED
    BY <1>1, <2>1, <2>2, HasRunAdvance DEF Skip
<1>2. ASSUME NEW p \in Proc, NEW m \in Mig, Record(p, m)
      PROVE  HasRun'
  <2>1. effect[m] > 0
    BY <1>2 DEF Record, HasRun
  <2>2. Recorded' \subseteq Recorded \cup {m}
    BY <1>2 DEF Record, Recorded
  <2>3. QED
    BY <1>2, <2>1, <2>2, HasRunAdvance DEF Record
<1>3. ASSUME NEW p \in Proc, Return(p) \/ Crash(p)
      PROVE  HasRun'
  BY <1>3, HasRunIdle DEF Return, Crash, Ends
<1>4. ASSUME UNCHANGED <<rows, effect, run>>
      PROVE  HasRun'
  BY <1>4 DEF HasRun, RecordedHasRun, Recorded, Turn
<1>5. QED
  BY <1>1, <1>2, <1>3, <1>4, HasRunStart, HasRunExecute
  DEF Next, Invoke, Step, EditFiles, vars

(* With nothing recorded and nothing started, HasRun holds. *)
LEMMA HasRunInit == Init => HasRun
BY DEF Init, HasRun, RecordedHasRun, Recorded, Idle, NoneHeld, Turn

(* Whatever the number of invocations, wherever they die and whatever       *)
(* happens to the files, _migrationdata lists only scripts that have run.   *)
THEOREM RecordedHaveRun ==
  ASSUME ApplyOnly
  PROVE  Spec => []RecordedHasRun
<1>1. TypeOK /\ HasRun /\ [Next]_vars => HasRun'
  BY HasRunStep
<1>2. HasRun => RecordedHasRun
  BY DEF HasRun
<1>3. QED
  BY <1>1, <1>2, HasRunInit, TypeCorrect, PTL DEF Spec

(* Under the same conditions, a script only ever runs on top of all the     *)
(* scripts that sort before it.                                             *)
THEOREM RunsOnTopOfPredecessors ==
  ASSUME ApplyOnly
  PROVE  Spec => OnTopOfPredecessors
<1>1. TypeOK /\ HasRun /\ [Next]_vars => HasRun'
  BY HasRunStep
<1> DEFINE OnTop ==
      \A p \in Proc, m \in Mig :
       /\ Turn(p, m) /\ run[p].cmd = "apply"
       /\ effect'[m] > effect[m] /\ run'[p] # run[p]
       => \A k \in run[p].list : k < m => effect[k] > 0
<1>2. TypeOK /\ HasRun => OnTop
  <2> SUFFICES ASSUME TypeOK, HasRun, NEW p \in Proc, NEW m \in Mig,
                      Turn(p, m), run[p].cmd = "apply",
                      NEW k \in run[p].list, k < m
               PROVE  effect[k] > 0
    OBVIOUS
  <2>1. k \in Mig /\ run[p].left # {}
    BY DEF TypeOK, Local, Turn
  <2>2. k \notin run[p].left
    BY <2>1, MigratorAssumption DEF Turn
  <2>3. QED
    BY <2>1, <2>2 DEF HasRun
<1>3. Spec => [](TypeOK /\ HasRun)
  BY <1>1, HasRunInit, TypeCorrect, PTL DEF Spec
<1>4. QED
  BY <1>2, <1>3, PTL DEF OnTopOfPredecessors
-----------------------------------------------------------------------------
(* The parts of Tracked that are about the rows alone. *)
RowsDistinct ==
  /\ nextId > 0
  /\ \A r, s \in rows : r.id = s.id \/ r.name = s.name => r = s
  /\ \A r \in rows : r.id > 0 /\ r.id < nextId

(* The parts about the one invocation. *)
Informed(p) ==
  /\ run[p].at # "ran" => \A m \in Mig : InStep(m)
  /\ run[p].at # "idle" =>
       \A m \in run[p].left :
         /\ m \in Recorded <=> run[p].held[m] # 0
         /\ m \in Recorded => [id |-> run[p].held[m], name |-> m] \in rows
  /\ run[p].at = "ran" =>
       \E m \in Mig :
         /\ Turn(p, m) /\ Wanted(p, m)
         /\ effect[m] = IF run[p].cmd = "apply" THEN 1 ELSE 0
         /\ \A k \in Mig \ {m} : InStep(k)

(* With at most one invocation, its view and the rows are all there is to   *)
(* Tracked.                                                                 *)
LEMMA TrackedParts ==
  ASSUME OneByOne, NEW p \in Proc
  PROVE  /\ Tracked => RowsDistinct /\ Informed(p)
         /\ RowsDistinct' /\ Informed(p)' => Tracked'
<1>1. \A q \in Proc : q = p
  BY DEF OneByOne
<1>2. Tracked => RowsDistinct /\ Informed(p)
  BY <1>1 DEF Tracked, RowsDistinct, Informed
<1>3. RowsDistinct' /\ Informed(p)' => Tracked'
  BY <1>1 DEF Tracked, RowsDistinct, Informed
<1>4. QED
  BY <1>2, <1>3

(* What an invocation reads when it starts is what the table says. *)
LEMMA TrackedStart ==
  ASSUME TypeOK, RowsDistinct, NEW p \in Proc, Informed(p),
         NEW cmd \in Commands, NEW stop \in Mig \cup {All}, Start(p, cmd, stop)
  PROVE  RowsDistinct' /\ Informed(p)'
<1>1. PICK f \in Snapshots :
        run' = [run EXCEPT ![p] = [at |-> "loop", cmd |-> cmd, stop |-> stop,
                                   list |-> files, left |-> files, held |-> f]]
  BY DEF Start
<1>2. run'[p].at = "loop" /\ run'[p].left = files /\ run'[p].held = f
  BY <1>1 DEF TypeOK
<1>3. UNCHANGED <<rows, nextId, effect>> /\ files \subseteq Mig
  BY DEF Start, TypeOK
<1>4. \A m \in Mig : InStep(m)
  BY DEF Start, Informed
<1>5. \A m \in Mig : /\ m \in Recorded <=> f[m] # 0
                     /\ m \in Recorded => [id |-> f[m], name |-> m] \in rows
  BY <1>1 DEF Snapshots, RowsDistinct
<1>6. QED
  BY <1>2, <1>3, <1>4, <1>5 DEF RowsDistinct, Informed, InStep, Recorded

(* Skipping a script leaves table and schema as they were. *)
LEMMA TrackedSkip ==
  ASSUME TypeOK, RowsDistinct, NEW p \in Proc, Informed(p), NEW m \in Mig,
         Skip(p, m)
  PROVE  RowsDistinct' /\ Informed(p)'
<1>0. run \in [Proc -> Local]
  BY DEF TypeOK
<1>1. /\ run' = Advanced(p, m) /\ run[p].at = "loop"
      /\ UNCHANGED <<rows, nextId, effect>>
  BY DEF Skip
<1>2. /\ run'[p].at = "loop"
      /\ run'[p].left = IF run[p].stop = m THEN {} ELSE run[p].left \ {m}
      /\ run'[p].held = run[p].held
  <2>1. /\ \A q \in Proc \ {p} : Advanced(p, m)[q] = run[q]
        /\ Advanced(p, m)[p].at = "loop"
        /\ Advanced(p, m)[p].left = IF run[p].stop = m THEN {} ELSE run[p].left \ {m}
        /\ Advanced(p, m)[p].held = run[p].held
    BY <1>0, AdvancedParts
  <2>2. QED
    BY <1>1, <2>1
<1>3. QED
  BY <1>1, <1>2 DEF RowsDistinct, Informed, InStep, Recorded

(* What an invocation knows of the script it has come to is true, so the    *)
(* change it makes is the change that is missing.                           *)
LEMMA TrackedExecute ==
  ASSUME TypeOK, OneByOne, RowsDistinct, NEW p \in Proc, Informed(p),
         NEW m \in Mig, NEW outcome \in Outcomes \cup {"raise"},
         Execute(p, m, outcome)
  PROVE  RowsDistinct' /\ Informed(p)'
<1>1. /\ run[p].at = "loop" /\ Turn(p, m) /\ Wanted(p, m)
      /\ UNCHANGED <<rows, nextId>>
  BY DEF Execute
<1>2. \A k \in Mig : InStep(k)
  BY <1>1 DEF Informed
<1>3. outcome \in {"commit", "raise"}
  BY DEF OneByOne
<1>4. CASE outcome = "commit"
  <2>1. run' = [run EXCEPT ![p].at = "ran"]
    BY <1>4 DEF Execute
  <2>2. /\ run'[p].at = "ran" /\ run'[p].cmd = run[p].cmd
        /\ run'[p].left = run[p].left /\ run'[p].held = run[p].held
    BY <2>1 DEF TypeOK, Local
  <2>3. /\ effect' = [effect EXCEPT ![m] = @ + Change(p)]
        /\ effect \in [Mig -> Int] /\ Change(p) \in Int
    BY <1>4 DEF Execute, TypeOK, Change
  <2>4. Turn(p, m)' /\ Wanted(p, m)'
    BY <1>1, <2>2 DEF Turn, Wanted
  <2>5. m \in Recorded <=> run[p].held[m] # 0
    BY <1>1 DEF Informed, Turn
  <2>6. effect'[m] = IF run[p].cmd = "apply" THEN 1 ELSE 0
    BY <1>1, <1>2, <2>3, <2>5 DEF InStep, Wanted, Change
  <2>7. \A k \in Mig \ {m} : InStep(k)'
    BY <1>1, <1>2, <2>3 DEF InStep, Recorded
  <2>8. QED
    BY <1>1, <2>2, <2>4, <2>6, <2>7 DEF RowsDistinct, Informed, Recorded
<1>5. CASE outcome = "raise"
  <2>1. run'[p] = Idle /\ effect' = effect
    BY <1>5 DEF Execute, Ends, TypeOK
  <2>2. run'[p].at = "idle"
    BY <2>1 DEF Idle
  <2>3. QED
    BY <1>1, <1>2, <2>1, <2>2 DEF RowsDistinct, Informed, InStep, Recorded
<1>6. QED
  BY <1>3, <1>4, <1>5

(* Recording the script brings the table back in step.                      *)
LEMMA TrackedRecord ==
  ASSUME TypeOK, RowsDistinct, NEW p \in Proc, Informed(p), NEW m \in Mig,
         Record(p, m)
  PROVE  RowsDistinct' /\ Informed(p)'
<1>0. run \in [Proc -> Local] /\ rows \subseteq Row /\ nextId \in Nat
  BY DEF TypeOK
<1>1. /\ run'[p].at = "loop" /\ run'[p].left \subseteq run[p].left \ {m}
      /\ run'[p].held = run[p].held
  BY <1>0, AdvancedParts DEF Record
<1>2. /\ run[p].at = "ran" /\ Turn(p, m) /\ m \in run[p].left
      /\ UNCHANGED effect
  BY DEF Record, Turn
<1>3. /\ Wanted(p, m)
      /\ effect[m] = IF run[p].cmd = "apply" THEN 1 ELSE 0
      /\ \A k \in Mig \ {m} : InStep(k)
  BY <1>0, <1>2, OneTurn DEF Informed
<1>4. \A k \in run[p].left :
        /\ k \in Recorded <=> run[p].held[k] # 0
        /\ k \in Recorded => [id |-> run[p].held[k], name |-> k] \in rows
  BY <1>2 DEF Informed
<1>5. run[p].left \subseteq Mig
  BY <1>0 DEF Local
<1>6. CASE run[p].cmd = "apply"
  <2> DEFINE row == [id |-> nextId, name |-> m]
  <2>1. rows' = rows \cup {row} /\ nextId' = nextId + 1
    BY <1>6 DEF Record
  <2>2. m \notin Recorded
    BY <1>2, <1>3, <1>4, <1>6 DEF Wanted
  <2>3. RowsDistinct'
    <3>1. \A r \in rows : r.id \in Nat /\ r.id # nextId /\ r.name # m
      BY <1>0, <2>2 DEF RowsDistinct, Recorded, Row
    <3>2. row.id = nextId /\ row.name = m
      OBVIOUS
    <3> HIDE DEF row
    <3>3. \A r, s \in rows' : r.id = s.id \/ r.name = s.name => r = s
      BY <2>1, <3>1, <3>2 DEF RowsDistinct
    <3>4. nextId' > 0 /\ \A r \in rows' : r.id > 0 /\ r.id < nextId'
      BY <1>0, <2>1, <3>1, <3>2 DEF RowsDistinct
    <3>5. QED
      BY <3>3, <3>4 DEF RowsDistinct
  <2>4. Recorded' = Recorded \cup {m} /\ rows \subseteq rows'
    <3>1. row.name = m
      OBVIOUS
    <3> HIDE DEF row
    <3>2. QED
      BY <2>1, <3>1 DEF Recorded
  <2>5. \A k \in Mig : InStep(k)'
    BY <1>2, <1>3, <1>6, <2>4 DEF InStep
  <2>6. QED
    BY <1>1, <1>4, <2>3, <2>4, <2>5 DEF Informed
<1>7. CASE run[p].cmd # "apply"
  <2> DEFINE row == [id |-> run[p].held[m], name |-> m]
  <2>1. rows' = {r \in rows : r.id # run[p].held[m]} /\ nextId' = nextId
    BY <1>7 DEF Record
  <2>2. m \in Recorded /\ row \in rows
    BY <1>2, <1>3, <1>4, <1>7 DEF Wanted
  <2>3. rows' = rows \ {row}
    BY <2>1, <2>2 DEF RowsDistinct
  <2>4. \A r \in rows : r.name = m => r = row
    BY <2>2 DEF RowsDistinct
  <2>5. RowsDistinct'
    BY <2>1, <2>3 DEF RowsDistinct
  <2>6. Recorded' = Recorded \ {m}
    BY <2>2, <2>3, <2>4 DEF Recorded
  <2>7. \A k \in Mig : InStep(k)'
    BY <1>2, <1>3, <1>7, <2>6 DEF InStep
  <2>8. \A k \in run'[p].left : k \in Recorded' =>
          [id |-> run'[p].held[k], name |-> k] \in rows'
    BY <1>1, <1>4, <2>3, <2>6
  <2>9. QED
    BY <1>1, <1>4, <2>5, <2>6, <2>7, <2>8 DEF Informed
<1>8. QED
  BY <1>6, <1>7

(* Every step of the only invocation keeps table and schema in step. *)
LEMMA TrackedStep ==
  OneByOne /\ TypeOK /\ Tracked /\ [Next]_vars => Tracked'
<1> SUFFICES ASSUME OneByOne, TypeOK, Tracked, [Next]_vars PROVE Tracked'
  OBVIOUS
<1>1. ASSUME NEW p \in Proc, Invoke(p) \/ Step(p) \/ Crash(p)
      PROVE  Tracked'
  <2>1. RowsDistinct /\ Informed(p)
    BY TrackedParts
  <2>2. ASSUME Return(p)
        PROVE  RowsDistinct' /\ Informed(p)'
    <3>1. run'[p].at = "idle" /\ UNCHANGED <<rows, nextId, effect>>
      BY <2>2 DEF Return, TypeOK, Idle
    <3>2. \A m \in Mig : InStep(m)
      BY <2>1, <2>2 DEF Return, Informed
    <3>3. QED
      BY <2>1, <3>1, <3>2 DEF RowsDistinct, Informed, InStep, Recorded
  <2>3. ~ Crash(p)
    BY DEF OneByOne, Crash
  <2>4. RowsDistinct' /\ Informed(p)'
    BY <1>1, <2>1, <2>2, <2>3, TrackedStart, TrackedSkip, TrackedExecute,
       TrackedRecord DEF Invoke, Step
  <2>5. QED
    BY <2>4, TrackedParts
<1>2. ASSUME UNCHANGED <<rows, nextId, effect, run>>
      PROVE  Tracked'
  BY <1>2 DEF Tracked, InStep, Recorded, Turn, Wanted
<1>3. QED
  BY <1>1, <1>2 DEF Next, EditFiles, vars

(* An empty table tells the truth about an empty schema. *)
LEMMA TrackedInit == Init => Tracked
BY DEF Init, Tracked, InStep, Recorded, Idle

(* One invocation at a time, applying or undoing, stopping anywhere and     *)
(* failing anywhere but between a script's commit and its record, leaves    *)
(* _migrationdata saying exactly what is in the schema, even when scripts   *)
(* are added to and removed from the directory meanwhile.                   *)
THEOREM TableIsTheSchema ==
  ASSUME OneByOne
  PROVE  Spec => []TableTellsTheSchema
<1>1. TypeOK /\ Tracked /\ [Next]_vars => Tracked'
  BY TrackedStep
<1>2. Tracked => TableTellsTheSchema
  BY DEF Tracked, TableTellsTheSchema, InStep
<1>3. QED
  BY <1>1, <1>2, TrackedInit, TypeCorrect, PTL DEF Spec
-----------------------------------------------------------------------------
(* Every step keeps the script to stop at ahead of the loop. *)
LEMMA StopAheadStep == TypeOK /\ StopAhead /\ [Next]_vars => StopAhead'
<1> SUFFICES ASSUME TypeOK, StopAhead, [Next]_vars PROVE StopAhead'
  OBVIOUS
<1>0. run \in [Proc -> Local]
  BY DEF TypeOK
<1>1. ASSUME NEW p \in Proc, Invoke(p)
      PROVE  StopAhead'
  <2>1. PICK cmd, stop, f :
          run' = [run EXCEPT ![p] = [at |-> "loop", cmd |-> cmd, stop |-> stop,
                                     list |-> files, left |-> files, held |-> f]]
    BY <1>1 DEF Invoke, Start
  <2>2. /\ \A q \in Proc \ {p} : run'[q] = run[q]
        /\ run'[p].left = run'[p].list
    BY <1>0, <2>1
  <2>3. QED
    BY <2>2 DEF StopAhead
<1>2. ASSUME NEW p \in Proc, NEW m \in Mig, run' = Advanced(p, m)
      PROVE  StopAhead'
  <2>1. /\ \A q \in Proc \ {p} : run'[q] = run[q]
        /\ run'[p].left = IF run[p].stop = m THEN {} ELSE run[p].left \ {m}
        /\ run'[p].list = run[p].list
    BY <1>0, <1>2, AdvancedParts
  <2>2. run'[p].stop = run[p].stop
    BY <1>0, <1>2, AdvancedStop
  <2>3. QED
    BY <2>1, <2>2 DEF StopAhead
<1>3. ASSUME NEW p \in Proc, run' = [run EXCEPT ![p] = Idle]
      PROVE  StopAhead'
  BY <1>0, <1>3 DEF StopAhead, Idle
<1>4. ASSUME NEW p \in Proc, run' = [run EXCEPT ![p].at = "ran"]
      PROVE  StopAhead'
  BY <1>0, <1>4 DEF StopAhead, Local
<1>5. ASSUME run' = run
      PROVE  StopAhead'
  BY <1>5 DEF StopAhead
<1>6. QED
  BY <1>1, <1>2, <1>3, <1>4, <1>5
  DEF Next, Step, Return, Skip, Record, Execute, Ends, Crash, EditFiles, vars

(* An undo works its way down from the last script: until it has come to    *)
(* its stop_at, all that is left before it is no reason to touch it.        *)
THEOREM UndoKeepsToStop == Spec => UndoKeepsWhatIsBefore
<1> DEFINE Keeps ==
      \A p \in Proc, m \in Mig :
        /\ run[p].cmd = "undo" /\ run[p].stop \in run[p].list
        /\ run'[p] # run[p] /\ effect'[m] < effect[m]
        => m >= run[p].stop
<1>1. TypeOK /\ StopAhead /\ [Next]_vars => Keeps
  <2> SUFFICES ASSUME TypeOK, StopAhead, [Next]_vars,
                      NEW p \in Proc, NEW m \in Mig,
                      run[p].cmd = "undo", run[p].stop \in run[p].list,
                      run'[p] # run[p], effect'[m] < effect[m]
               PROVE  m >= run[p].stop
    OBVIOUS
  <2>1. run \in [Proc -> Local] /\ effect \in [Mig -> Int]
    BY DEF TypeOK
  <2>2. effect' # effect
    BY <2>1
  <2>3. PICK q \in Proc, k \in Mig, outcome \in Outcomes \cup {"raise"} :
          Execute(q, k, outcome)
    BY <2>2 DEF Next, Invoke, Step, Start, Return, Skip, Record, Crash, EditFiles, vars
  <2>4. \A r \in Proc \ {q} : run'[r] = run[r]
    BY <2>1, <2>3 DEF Execute, Ends
  <2>5. q = p
    BY <2>4
  <2>6. k = m
    BY <2>1, <2>3 DEF Execute
  <2>7. Turn(p, m)
    BY <2>3, <2>5, <2>6 DEF Execute
  <2>8. run[p].stop \in run[p].left /\ run[p].left \subseteq Mig
    BY <2>1, <2>7 DEF StopAhead, Turn, Local
  <2>9. run[p].stop <= m
    BY <2>7, <2>8 DEF Turn
  <2>10. QED
    BY <2>8, <2>9, MigratorAssumption
<1>2. Init => StopAhead
  BY DEF Init, StopAhead, Idle
<1>3. Spec => []StopAhead
  BY <1>2, StopAheadStep, TypeCorrect, PTL DEF Spec
<1>4. QED
  BY <1>1, <1>3, TypeCorrect, PTL DEF UndoKeepsWhatIsBefore, Spec
-----------------------------------------------------------------------------
(* Accounted for one invocation. *)
AccountedOf(p) ==
  run[p].at # "idle" /\ run[p].cmd = "apply" =>
    /\ run[p].stop \in run[p].list \cup {All}
    /\ run[p].left \subseteq run[p].list
    /\ \A k \in run[p].list :
         /\ k \in run[p].left => (k \in Recorded <=> run[p].held[k] # 0)
         /\ k \notin run[p].left => (k \in Recorded <=> UpTo(p, k))
    /\ run[p].at = "ran" => \E m \in Mig : Turn(p, m) /\ Wanted(p, m)

(* Ids are counted from 1. *)
Counted == nextId > 0 /\ \A r \in rows : r.id > 0

(* Going past the script whose turn it is: it is to be in the table just if *)
(* it is in the table now, and stop_at puts the rest out of reach.          *)
LEMMA AccountedAdvance ==
  ASSUME TypeOK, StopAhead, NEW p \in Proc, AccountedOf(p), NEW m \in Mig,
         run[p].at # "idle", run[p].cmd = "apply",
         Turn(p, m), run' = Advanced(p, m), Recorded' = Recorded \cup {m}
  PROVE  AccountedOf(p)'
<1>0. run \in [Proc -> Local]
  BY DEF TypeOK
<1>1. /\ run'[p].at = "loop" /\ run'[p].cmd = "apply"
      /\ run'[p].left = IF run[p].stop = m THEN {} ELSE run[p].left \ {m}
      /\ run'[p].list = run[p].list /\ run'[p].held = run[p].held
      /\ run'[p].stop = run[p].stop
  BY <1>0, AdvancedParts, AdvancedStop
<1>2. /\ run[p].stop \in run[p].list \cup {All}
      /\ run[p].left \subseteq run[p].list /\ run[p].list \subseteq Mig
      /\ \A k \in run[p].list :
           /\ k \in run[p].left => (k \in Recorded <=> run[p].held[k] # 0)
           /\ k \notin run[p].left => (k \in Recorded <=> UpTo(p, k))
  BY <1>0 DEF AccountedOf, Local
<1>3. m \in run[p].left /\ \A k \in run[p].left : m <= k
  BY DEF Turn
<1>4. run[p].stop # All => run[p].stop \in run[p].left
  BY <1>2, <1>3 DEF StopAhead
<1>5. UpTo(p, m)
  BY <1>3, <1>4 DEF UpTo
<1>6. run[p].stop = m => \A k \in run[p].left \ {m} : UpTo(p, k) <=> run[p].held[k] # 0
  <2> SUFFICES ASSUME run[p].stop = m, NEW k \in run[p].left \ {m}
               PROVE  run[p].stop # All /\ ~ (k <= run[p].stop)
    BY DEF UpTo
  <2>1. m \in Nat /\ k \in Nat /\ m # All
    BY <1>2, MigratorAssumption
  <2>2. m <= k /\ k # m
    BY <1>3
  <2>3. QED
    BY <2>1, <2>2
<1>7. \A k \in Mig : UpTo(p, k)' <=> UpTo(p, k)
  BY <1>1 DEF UpTo
<1>8. ASSUME NEW k \in run[p].list
      PROVE  /\ k \in run'[p].left => (k \in Recorded' <=> run'[p].held[k] # 0)
             /\ k \notin run'[p].left => (k \in Recorded' <=> UpTo(p, k)')
  BY <1>1, <1>2, <1>3, <1>5, <1>6, <1>7
<1>9. QED
  BY <1>1, <1>2, <1>8 DEF AccountedOf

(* Every step of the only invocation keeps what it has done accounted for.  *)
LEMMA AccountedStep ==
  ASSUME \A p, q \in Proc : p = q
  PROVE  TypeOK /\ StopAhead /\ Accounted /\ [Next]_vars => Accounted'
<1> SUFFICES ASSUME TypeOK, StopAhead, Accounted, [Next]_vars PROVE Accounted'
  OBVIOUS
<1>0. /\ run \in [Proc -> Local] /\ rows \subseteq Row /\ nextId \in Nat
      /\ files \subseteq Mig
  BY DEF TypeOK
<1>1. ASSUME NEW p \in Proc, Invoke(p) \/ Step(p) \/ Crash(p)
      PROVE  Accounted'
  <2>1. Counted /\ AccountedOf(p)
    BY DEF Accounted, Counted, AccountedOf
  <2>2. ASSUME NEW cmd \in Commands, NEW stop \in Mig \cup {All}, Start(p, cmd, stop)
        PROVE  Counted' /\ AccountedOf(p)'
    <3>1. PICK f \in Snapshots :
            run' = [run EXCEPT ![p] = [at |-> "loop", cmd |-> cmd, stop |-> stop,
                                       list |-> files, left |-> files, held |-> f]]
      BY <2>2 DEF Start
    <3>2. /\ run'[p].at = "loop" /\ run'[p].cmd = cmd /\ run'[p].stop = stop
          /\ run'[p].list = files /\ run'[p].left = files /\ run'[p].held = f
      BY <1>0, <3>1
    <3>3. ASSUME NEW k \in Mig PROVE k \in Recorded <=> f[k] # 0
      <4> DEFINE row == [id |-> f[k], name |-> k]
      <4>1. IF k \in Recorded THEN row \in rows ELSE f[k] = 0
        BY <3>1 DEF Snapshots
      <4>2. row.id = f[k] /\ \A r \in rows : r.id # 0
        BY <1>0, <2>1 DEF Counted, Row
      <4> HIDE DEF row
      <4>3. QED
        BY <4>1, <4>2
    <3>4. UNCHANGED <<rows, nextId>> /\ (cmd = "apply" => stop \in files \cup {All})
      BY <2>2 DEF Start
    <3>5. QED
      BY <1>0, <2>1, <3>2, <3>3, <3>4 DEF AccountedOf, Counted, Recorded
  <2>3. ASSUME run' = [run EXCEPT ![p] = Idle], UNCHANGED <<rows, nextId>>
        PROVE  Counted' /\ AccountedOf(p)'
    BY <1>0, <2>1, <2>3 DEF AccountedOf, Counted, Idle
  <2>4. ASSUME NEW m \in Mig, Skip(p, m)
        PROVE  Counted' /\ AccountedOf(p)'
    <3>1. Counted' /\ Recorded' = Recorded
      BY <2>1, <2>4 DEF Skip, Counted, Recorded
    <3>2. run'[p].cmd = run[p].cmd
      BY <1>0, <2>4, AdvancedParts DEF Skip
    <3>3. CASE run[p].cmd = "apply"
      <4>1. m \in Recorded
        BY <1>0, <2>1, <2>4, <3>3 DEF Skip, Wanted, AccountedOf, Turn
      <4>2. Recorded' = Recorded \cup {m}
        BY <3>1, <4>1
      <4>3. QED
        BY <2>1, <2>4, <3>1, <3>3, <4>2, AccountedAdvance DEF Skip
    <3>4. QED
      BY <3>1, <3>2, <3>3 DEF AccountedOf
  <2>5. ASSUME NEW m \in Mig, Record(p, m)
        PROVE  Counted' /\ AccountedOf(p)'
    <3>1. Counted'
      BY <1>0, <2>1, <2>5 DEF Record, Counted
    <3>2. run'[p].cmd = run[p].cmd
      BY <1>0, <2>5, AdvancedParts DEF Record
    <3>3. CASE run[p].cmd = "apply"
      <4> DEFINE row == [id |-> nextId, name |-> m]
      <4>1. rows' = rows \cup {row} /\ row.name = m
        BY <2>5, <3>3 DEF Record
      <4> HIDE DEF row
      <4>2. Recorded' = Recorded \cup {m}
        BY <4>1 DEF Recorded
      <4>3. QED
        BY <2>1, <2>5, <3>1, <3>3, <4>2, AccountedAdvance DEF Record
    <3>4. QED
      BY <3>1, <3>2, <3>3 DEF AccountedOf
  <2>6. ASSUME NEW m \in Mig, NEW outcome \in Outcomes \cup {"raise"},
               Execute(p, m, outcome)
        PROVE  Counted' /\ AccountedOf(p)'
    <3>1. UNCHANGED <<rows, nextId>> /\ run[p].at = "loop" /\ Turn(p, m) /\ Wanted(p, m)
      BY <2>6 DEF Execute
    <3>2. CASE run' = [run EXCEPT ![p].at = "ran"]
      <4>1. /\ run'[p].at = "ran" /\ run'[p].cmd = run[p].cmd
            /\ run'[p].stop = run[p].stop /\ run'[p].list = run[p].list
            /\ run'[p].left = run[p].left /\ run'[p].held = run[p].held
        BY <1>0, <3>2 DEF Local
      <4>2. Turn(p, m)' /\ Wanted(p, m)'
        BY <3>1, <4>1 DEF Turn, Wanted
      <4>3. Recorded' = Recorded /\ Counted'
        BY <2>1, <3>1 DEF Recorded, Counted
      <4>4. \A k \in Mig : UpTo(p, k)' <=> UpTo(p, k)
        BY <4>1 DEF UpTo
      <4>5. run[p].list \subseteq Mig
        BY <1>0 DEF Local
      <4>6. QED
        BY <2>1, <3>1, <4>1, <4>2, <4>3, <4>4, <4>5 DEF AccountedOf
    <3>3. CASE run' = [run EXCEPT ![p] = Idle]
      BY <2>3, <3>1, <3>3
    <3>4. QED
      BY <2>6, <3>2, <3>3 DEF Execute, Ends
  <2>7. Counted' /\ AccountedOf(p)'
    BY <1>1, <2>2, <2>3, <2>4, <2>5, <2>6 DEF Invoke, Step, Return, Crash, Ends
  <2>8. \A q \in Proc : q = p
    OBVIOUS
  <2>9. QED
    BY <2>7, <2>8 DEF Accounted, Counted, AccountedOf
<1>2. ASSUME UNCHANGED <<rows, nextId, run>>
      PROVE  Accounted'
  BY <1>2 DEF Accounted, Recorded, UpTo, Turn, Wanted
<1>3. QED
  BY <1>1, <1>2 DEF Next, EditFiles, vars

(* One invocation at a time: an apply that returns has brought in every     *)
(* script up to its stop_at, and nothing after it, whatever other scripts   *)
(* came and went, and however earlier invocations ended.                    *)
THEOREM AppliesUpToStop ==
  ASSUME \A p, q \in Proc : p = q
  PROVE  Spec => AppliedUpToStop
<1> DEFINE Applied ==
      \A p \in Proc :
        Return(p) /\ run[p].cmd = "apply" =>
          \A m \in run[p].list :
            m \in Recorded <=>
              \/ run[p].held[m] # 0
              \/ run[p].stop = All
              \/ run[p].stop # All /\ m <= run[p].stop
<1>1. Accounted => Applied
  BY DEF Accounted, UpTo, Return
<1>2. Init => StopAhead /\ Accounted
  BY DEF Init, StopAhead, Accounted, Idle
<1>3. TypeOK /\ StopAhead /\ Accounted /\ [Next]_vars => StopAhead' /\ Accounted'
  BY StopAheadStep, AccountedStep
<1>4. Spec => []Accounted
  BY <1>2, <1>3, TypeCorrect, PTL DEF Spec
<1>5. QED
  BY <1>1, <1>4, PTL DEF AppliedUpToStop
=============================================================================
