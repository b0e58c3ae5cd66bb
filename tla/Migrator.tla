------------------------------ MODULE Migrator ------------------------------
(***************************************************************************)
(* DbMigrator (src/deev/common/db_migrator.py): any number of db-migrate   *)
(* invocations over one database and one directory of migration scripts.   *)
(*                                                                         *)
(* A script's function runs in a transaction of its own connection, and    *)
(* the row of _migrationdata is written afterwards, on another connection: *)
(* two transactions, with nothing but the order of the program to hold     *)
(* them together, and no lock between invocations.                         *)
(*                                                                         *)
(* An invocation that returns before it touches a script (no directory, no *)
(* file, an unknown stop_at) is a stuttering step.                         *)
(***************************************************************************)
EXTENDS Integers

CONSTANTS
  Proc,         \* invocations that can be under way at once
  Mig,          \* migration names, as numbers in their alphabetical order
  All,          \* stop_at = 'all', '*' or None
  Commands,     \* what operators run: "apply", "undo"
  Outcomes,     \* how a script's function may end, other than with an
                \* exception, or without commit(), and nothing done
  Trouble,      \* "crash": the process dies; "edit": files come and go
  MaxRows,      \* bound on rows ever written to _migrationdata
  MaxFailures   \* bound on invocations that end in an exception or a crash

ASSUME MigratorAssumption ==
  /\ Mig \subseteq Nat /\ All \notin Mig
  /\ Commands \subseteq {"apply", "undo"}
  /\ Outcomes \subseteq
       {"commit",     \* commit(), as the documentation asks
        "partial",    \* an exception after DDL that committed by itself
        "rollback"}   \* an explicit rollback(), and a normal return
  /\ Trouble \subseteq {"crash", "edit"}
  /\ MaxRows \in Nat /\ MaxFailures \in Nat

VARIABLES
  files,        \* the scripts in the directory
  rows,         \* _migrationdata
  nextId,       \* its auto-increment
  effect,       \* how often each migration is in the schema: applied - undone
  run,          \* the local variables of each invocation
  failures      \* invocations that have failed (bound only)

vars == <<files, rows, nextId, effect, run, failures>>

Row == [id : Nat, name : Mig]

(* The dictionary of ids read from _migrationdata; get(name, 0) of a name    *)
(* that is not in it is 0.                                                   *)
NoneHeld == [m \in Mig |-> 0]

Idle == [at |-> "idle", cmd |-> "apply", stop |-> All,
         list |-> {}, left |-> {}, held |-> NoneHeld]

Init ==
  /\ files \in IF "edit" \in Trouble THEN SUBSET Mig ELSE {Mig}
  /\ rows = {} /\ nextId = 1
  /\ effect = [m \in Mig |-> 0]
  /\ run = [p \in Proc |-> Idle]
  /\ failures = 0

-----------------------------------------------------------------------------
Recorded == {row.name : row \in rows}

(* Of several rows of one name the last the server returns is kept. *)
Snapshots ==
  {f \in [Mig -> {0} \cup {row.id : row \in rows}] :
     \A m \in Mig : IF m \in Recorded THEN [id |-> f[m], name |-> m] \in rows
                                      ELSE f[m] = 0}

(* apply() and undo() up to their loop: apply checks stop_at against the    *)
(* files, undo checks it against the table.                                 *)
Start(p, cmd, stop) ==
  /\ run[p].at = "idle"
  /\ nextId <= MaxRows
  /\ files # {}
  /\ stop = All \/ stop \in IF cmd = "apply" THEN files ELSE Recorded
  /\ \E f \in Snapshots :
       run' = [run EXCEPT ![p] = [at |-> "loop", cmd |-> cmd, stop |-> stop,
                                  list |-> files, left |-> files, held |-> f]]
  /\ UNCHANGED <<files, rows, nextId, effect, failures>>

(* Mutant of Turn: the files are taken as glob returns them. *)
AnyTurn(p, m) == m \in run[p].left

(* The script the loop has come to. *)
Turn(p, m) ==
  /\ m \in run[p].left
  /\ \A k \in run[p].left : IF run[p].cmd = "apply" THEN m <= k ELSE k <= m

(* Mutant of Advanced: the loop does not stop at stop_at. *)
NeverStopped(p, m) ==
  [run EXCEPT ![p].at = "loop", ![p].left = @ \ {m}]

(* The end of the loop's body: stop after stop_at. *)
Advanced(p, m) ==
  [run EXCEPT ![p].at = "loop",
              ![p].left = IF run[p].stop = m THEN {} ELSE @ \ {m}]

Wanted(p, m) == (run[p].cmd = "apply") = (run[p].held[m] = 0)

(* Mutant of Skip: the loop ends at the first script it need not run. *)
HaltingSkip(p, m) ==
  /\ run[p].at = "loop" /\ Turn(p, m)
  /\ ~ Wanted(p, m)
  /\ run' = [run EXCEPT ![p].left = {}]
  /\ UNCHANGED <<files, rows, nextId, effect, failures>>

Skip(p, m) ==
  /\ run[p].at = "loop" /\ Turn(p, m)
  /\ ~ Wanted(p, m)
  /\ run' = Advanced(p, m)
  /\ UNCHANGED <<files, rows, nextId, effect, failures>>

(* Mutant of Ends: the error is logged, and the run goes on. *)
LoggedEnds(p) ==
  /\ failures < MaxFailures
  /\ failures' = failures + 1
  /\ run' = [run EXCEPT ![p].at = "ran"]

(* Mutant of Ends: nothing is reset. *)
DeadEnds(p) ==
  /\ failures < MaxFailures
  /\ failures' = failures + 1
  /\ run' = [run EXCEPT ![p].at = "failed"]

Ends(p) ==
  /\ failures < MaxFailures
  /\ failures' = failures + 1
  /\ run' = [run EXCEPT ![p] = Idle]

Change(p) == IF run[p].cmd = "apply" THEN 1 ELSE -1

(* Load the script and call its function inside `with begin_transaction`.   *)
(* A file that has gone, and one without the function, raise too.           *)
Execute(p, m, outcome) ==
  /\ run[p].at = "loop" /\ Turn(p, m)
  /\ Wanted(p, m)
  /\ outcome \in {"commit", "partial", "rollback"} => m \in files
  /\ effect' = IF outcome \in {"commit", "partial"}
               THEN [effect EXCEPT ![m] = @ + Change(p)]
               ELSE effect
  /\ IF outcome \in {"commit", "rollback"}
     THEN run' = [run EXCEPT ![p].at = "ran"] /\ UNCHANGED failures
     ELSE Ends(p)
  /\ UNCHANGED <<files, rows, nextId>>

(* Mutant of Record: the commit is forgotten, so that closing the           *)
(* connection drops the row.                                                *)
UncommittedRecord(p, m) ==
  /\ run[p].at = "ran" /\ Turn(p, m)
  /\ run' = Advanced(p, m)
  /\ UNCHANGED <<files, rows, nextId, effect, failures>>

(* create() or delete(), and commit(), on the connection of _migrationdata. *)
Record(p, m) ==
  /\ run[p].at = "ran" /\ Turn(p, m)
  /\ IF run[p].cmd = "apply"
     THEN /\ rows' = rows \cup {[id |-> nextId, name |-> m]}
          /\ nextId' = nextId + 1
     ELSE /\ rows' = {row \in rows : row.id # run[p].held[m]}
          /\ UNCHANGED nextId
  /\ run' = Advanced(p, m)
  /\ UNCHANGED <<files, effect, failures>>

Return(p) ==
  /\ run[p].at = "loop" /\ run[p].left = {}
  /\ run' = [run EXCEPT ![p] = Idle]
  /\ UNCHANGED <<files, rows, nextId, effect, failures>>

(* The process dies, or _migrationdata cannot be written. *)
Crash(p) ==
  /\ "crash" \in Trouble
  /\ run[p].at # "idle"
  /\ Ends(p)
  /\ UNCHANGED <<files, rows, nextId, effect>>

(* Another branch is checked out. *)
EditFiles(m) ==
  /\ "edit" \in Trouble
  /\ files' = IF m \in files THEN files \ {m} ELSE files \cup {m}
  /\ UNCHANGED <<rows, nextId, effect, run, failures>>

-----------------------------------------------------------------------------
Step(p) ==
  \/ Return(p)
  \/ \E m \in Mig : Skip(p, m) \/ Record(p, m)
  \/ \E m \in Mig, outcome \in Outcomes \cup {"raise"} : Execute(p, m, outcome)

Invoke(p) ==
  \E cmd \in Commands, stop \in Mig \cup {All} : Start(p, cmd, stop)

Next ==
  \/ \E p \in Proc : Invoke(p) \/ Step(p) \/ Crash(p)
  \/ \E m \in Mig : EditFiles(m)

Spec == Init /\ [][Next]_vars

(* A process that runs keeps running, and between other invocations the     *)
(* operator also invokes the tool with 'all'.                               *)
FairSpec ==
  Spec /\ \A p \in Proc : WF_vars(Step(p)) /\ SF_vars(Start(p, "apply", All))

-----------------------------------------------------------------------------
Local ==
  [at : {"idle", "loop", "ran"}, cmd : {"apply", "undo"}, stop : Mig \cup {All},
   list : SUBSET Mig, left : SUBSET Mig, held : [Mig -> Nat]]

TypeOK ==
  /\ files \subseteq Mig
  /\ rows \subseteq Row
  /\ nextId \in Nat
  /\ effect \in [Mig -> Int]
  /\ run \in [Proc -> Local]
  /\ failures \in Nat

(* When no invocation is under way, _migrationdata says exactly what is in  *)
(* the schema, and nothing is in it twice.                                  *)
TableTellsTheSchema ==
  (\A p \in Proc : run[p].at = "idle") =>
     \A m \in Mig : effect[m] = IF m \in Recorded THEN 1 ELSE 0

(* A migration that _migrationdata lists has run at least once, however     *)
(* many invocations there are and wherever they die.                        *)
RecordedHasRun == \A m \in Recorded : effect[m] > 0

(* A script is run on top of every script that sorts before it, although    *)
(* the invocation decides what to skip from a table it read long before.    *)
OnTopOfPredecessors ==
  [][\A p \in Proc, m \in Mig :
       /\ Turn(p, m) /\ run[p].cmd = "apply"
       /\ effect'[m] > effect[m] /\ run'[p] # run[p]
       => \A k \in run[p].list : k < m => effect[k] > 0]_vars

(* An undo that stops at a migration whose script it can see leaves those   *)
(* before it alone.                                                         *)
UndoKeepsWhatIsBefore ==
  [][\A p \in Proc, m \in Mig :
       /\ run[p].cmd = "undo" /\ run[p].stop \in run[p].list
       /\ run'[p] # run[p] /\ effect'[m] < effect[m]
       => m >= run[p].stop]_vars

(* An apply that returns has brought in every script up to its stop_at and  *)
(* has left the later ones as it found them.                                *)
AppliedUpToStop ==
  [][\A p \in Proc :
       Return(p) /\ run[p].cmd = "apply" =>
         \A m \in run[p].list :
           m \in Recorded <=>
             \/ run[p].held[m] # 0
             \/ run[p].stop = All
             \/ run[p].stop # All /\ m <= run[p].stop]_vars

(* However often it is interrupted, re-running the tool gets every script   *)
(* into the table in the end.                                               *)
EverythingApplied == <>[](files \subseteq Recorded)

-----------------------------------------------------------------------------
(* What the documentation says, and the code does not do.                   *)

(* docs/migration.rst: undo takes "the name of the migration at which undo  *)
(* should stop processing": nothing before it is undone.                    *)
UndoStopsWhereAsked ==
  [][\A p \in Proc, m \in Mig :
       /\ run[p].cmd = "undo" /\ run[p].stop # All
       /\ run'[p] # run[p] /\ effect'[m] < effect[m]
       => m >= run[p].stop]_vars
=============================================================================
