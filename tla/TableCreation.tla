---------------------------- MODULE TableCreation ----------------------------
(***************************************************************************)
(* How the table adapters create their table, lazily on first use or by    *)
(* create_table(), and run the entity's on_create_table hook: several      *)
(* tasks, each with an adapter in a process of its own or all on one loop  *)
(* with one adapter between them, over one server.  An adapter has its own *)
(* connection, whose transaction takes in the creation, or the hook's rows *)
(* only, or nothing, as the driver has it.                                 *)
(***************************************************************************)
EXTENDS Naturals, SequencesExt

CONSTANTS Task, Adapter,
          Classes,       \* the adapter classes, by name
          IndexLists,    \* the entity's index names, sorted: the choices
          MaxCalls,      \* bound: calls the tasks make
          MaxNested,     \* bound: calls that wait for a call inside them
          MaxFaults      \* bound: refusals and deaths

(* Indexes are grouped by name, so a name is in a list once.               *)
ASSUME CreationAssumption ==
  /\ MaxCalls \in Nat /\ MaxNested \in Nat /\ MaxFaults \in Nat
  /\ \A ix \in IndexLists : /\ ix \in Seq(ToSet(ix)) /\ IsInjective(ix)
                            /\ "table" \notin ToSet(ix)
  /\ \E h \in [Task -> Adapter] : \A t, u \in Task : h[t] = h[u] => t = u

VARIABLES site,      \* class and home of the adapters, indexes of the entity
          adapter,   \* __initialized and __create_table of each adapter
          job,       \* the calls being executed
          calls,     \* how many were made
          faults,    \* how many there were
          txn,       \* what each adapter's connection has not committed
          made,      \* the server's catalog: the table and its indexes
          seeded,    \* runs of the hook whose rows are committed
          past       \* what went wrong so far (of no effect on any step)

creation == <<site, adapter, job, calls, faults, txn, made, seeded, past>>

Job == Task \cup Adapter     \* an adapter's own: the creation it scheduled

-----------------------------------------------------------------------------
(* A statement fails if it is strict and a thing it makes exists already. *)
Makes(things, strict) == [makes |-> things, strict |-> strict]

(* CREATE INDEX says no IF NOT EXISTS. *)
StrictIndexes(ix) == [i \in DOMAIN ix |-> Makes({ix[i]}, TRUE)]

(* Mutant of SqliteDdl: an index on the key too, which is the table's own. *)
KeyedSqliteDdl(ix) ==
  <<Makes({"table"}, FALSE), Makes({"key"}, TRUE)>> \o StrictIndexes(ix)

SqliteDdl(ix) == <<Makes({"table"}, FALSE)>> \o StrictIndexes(ix)

MysqlDdl(ix) == <<Makes({"table"}, FALSE)>> \o StrictIndexes(ix)

(* Mutant of MssqlDdl: CREATE TABLE IF NOT EXISTS, as on the others. *)
LenientMssqlDdl(ix) == <<Makes({"table"}, FALSE)>> \o StrictIndexes(ix)

(* Neither has CREATE TABLE here. *)
MssqlDdl(ix) == <<Makes({"table"}, TRUE)>> \o StrictIndexes(ix)

(* One statement with the skip indexes, then SYSTEM SYNC REPLICA. *)
ClickHouseDdl(ix) == <<Makes({"table"} \cup ToSet(ix), FALSE), Makes({}, FALSE)>>

(* create_index makes the collection; to make an index again is no error. *)
MongoDdl(ix) ==
  <<Makes({"table"}, FALSE)>> \o [i \in DOMAIN ix |-> Makes({ix[i]}, FALSE)]

(* Mutant of IndexOrder: the groups are not sorted. *)
AnyIndexOrder(ix) == {ix, Reverse(ix)}

(* The orders in which a process may go through the index groups. *)
IndexOrder(ix) == {ix}

-----------------------------------------------------------------------------
(* What the classes do differently.  takes: what the connection's           *)
(* transaction takes in, "all" that is sent, the "rows" only (a CREATE      *)
(* commits it), "none", or what is sent while it is "open", which a row or  *)
(* a context's BEGIN opens; loop: a coroutine of one loop; whole: one over  *)
(* the synchronous adapter, which awaits nothing between its start and the  *)
(* hook; lazily: whether __deferred_init creates the table or schedules     *)
(* that; implicit: an insert creates the collection; key: what reading      *)
(* primary_key does.                                                        *)
Class(Ddl(_), takes, loop, whole, lazily, implicit, key) ==
  [ddl |-> [ix \in IndexLists |-> {Ddl(o) : o \in IndexOrder(ix)}], takes |-> takes,
   loop |-> loop, whole |-> whole, lazily |-> lazily, implicit |-> implicit, key |-> key]

(* Mutant of Sqlite: the creation is left to the loop, as MongoDB's is. *)
ScheduledSqlite == Class(SqliteDdl, "open", FALSE, FALSE, "schedules", FALSE, "raises")

(* Mutant of Mssql: a connection in autocommit for all but the rows. *)
AutocommitMssql == Class(MssqlDdl, "rows", FALSE, FALSE, "calls", FALSE, "initializes")

Sqlite     == Class(SqliteDdl, "open", FALSE, FALSE, "calls", FALSE, "raises")
Mysql      == Class(MysqlDdl, "rows", FALSE, FALSE, "calls", FALSE, "raises")
Mssql      == Class(MssqlDdl, "all", FALSE, FALSE, "calls", FALSE, "initializes")
ClickHouse == Class(ClickHouseDdl, "none", FALSE, FALSE, "calls", FALSE, "raises")
Mongo      == Class(MongoDdl, "none", FALSE, FALSE, "calls", TRUE, "initializes")

AsyncSqlite     == Class(SqliteDdl, "open", TRUE, TRUE, "calls", FALSE, "raises")
AsyncMysql      == Class(MysqlDdl, "rows", TRUE, FALSE, "calls", FALSE, "marks")
AsyncMssql      == Class(MssqlDdl, "all", TRUE, TRUE, "calls", FALSE, "resolves")
AsyncClickHouse == Class(ClickHouseDdl, "none", TRUE, FALSE, "calls", FALSE, "raises")
AsyncMongo      == Class(MongoDdl, "none", TRUE, FALSE, "schedules", TRUE, "initializes")

AdapterClasses ==
  [sqlite |-> Sqlite, mysql |-> Mysql, mssql |-> Mssql, clickhouse |-> ClickHouse,
   mongo |-> Mongo, asyncSqlite |-> AsyncSqlite, asyncMysql |-> AsyncMysql,
   asyncMssql |-> AsyncMssql, asyncClickhouse |-> AsyncClickHouse,
   asyncMongo |-> AsyncMongo]

Together == [t \in Task |-> CHOOSE a \in Adapter : TRUE]

Apart == CHOOSE h \in [Task -> Adapter] : \A t, u \in Task : h[t] = h[u] => t = u

Sites ==
  [class   : Classes \cap DOMAIN AdapterClasses,
   home    : {Together, Apart},
   lazy    : BOOLEAN,
   indexes : IndexLists]

Shared(s) == s.home = Together

(* Threads do not share an adapter; tasks on one loop may. *)
Legal(s) == Shared(s) => AdapterClasses[s.class].loop

Idle == [at |-> "idle", frame |-> "none", waiting |-> <<>>, ddl |-> <<>>]

Enters(frame, waiting) == [Idle EXCEPT !.at = "enter", !.frame = frame, !.waiting = waiting]

(* undone: the connection has lost what it had created and not committed.  *)
FreshAdapter(s) == [ready |-> FALSE, lazy |-> s.lazy, undone |-> FALSE]

(* A connection as connect() hands it out.  A transaction is "begun" by a   *)
(* context, "written" by a statement, which also takes locks.               *)
NoTxn == [at |-> "none", made |-> {}, seeds |-> 0]

CreationStart(s) ==
  /\ site = s
  /\ adapter = [a \in Adapter |-> FreshAdapter(s)]
  /\ job = [j \in Job |-> Idle]
  /\ calls = 0 /\ faults = 0
  /\ txn = [a \in Adapter |-> NoTxn]
  /\ made = {} /\ seeded = 0 /\ past = {}

CreationInit == \E s \in {r \in Sites : Legal(r)} : CreationStart(s)

-----------------------------------------------------------------------------
Is == AdapterClasses[site.class]

HomeOf(j) == IF j \in Task THEN site.home[j] ELSE j

(* The body of a method, after its __deferred_init. *)
Body(frame) == CASE frame = "create"  -> "look"
                 [] frame = "operate" -> "operate"
                 [] frame = "key"     -> "return"
                 [] OTHER             -> frame     \* "commit", "rollback"

(* A method returns to the __deferred_init that called it, whose own method *)
(* goes on with its body.                                                   *)
Return(r) ==
  IF r.waiting = <<>> THEN Idle
  ELSE [Idle EXCEPT !.at = Body(Head(r.waiting)), !.frame = Head(r.waiting),
                    !.waiting = Tail(r.waiting)]

(* Whether j may go on: of the tasks of a loop one runs to its next await.  *)
Runs(j) ==
  ~ (Is.whole /\ Shared(site)
       /\ \E k \in Job \ {j} : job[k].at \in {"enter", "look", "ddl"})

Goes(j, r) == job' = [job EXCEPT ![j] = r]

Ends == {"commit", "rollback"}

(* commit() and rollback() of the classes over a synchronous adapter start  *)
(* with __deferred_init too.                                                *)
CallMethod(t, frame) ==
  /\ job[t] = Idle /\ calls < MaxCalls /\ Runs(t)
  /\ frame = "key" => Is.key = "initializes"
  /\ frame \in Ends => Is.takes # "none"
  /\ calls' = calls + 1
  /\ Goes(t, IF frame \in Ends /\ ~ Is.whole THEN [Idle EXCEPT !.at = frame, !.frame = frame]
             ELSE Enters(frame, <<>>))
  /\ UNCHANGED <<site, adapter, faults, txn, made, seeded, past>>

(* primary_key of the asynchronous MySQL adapter: it counts as initialized. *)
ReadPrimaryKey(t) ==
  /\ job[t] = Idle /\ Is.key = "marks"
  /\ adapter' = [adapter EXCEPT ![site.home[t]].ready = TRUE]
  /\ UNCHANGED <<site, job, calls, faults, txn, made, seeded, past>>

(* A context over the connection is entered.                                *)
BeginTransaction(t) ==
  /\ job[t] = Idle /\ Runs(t)
  /\ Is.takes = "open" /\ txn[site.home[t]].at = "none"
  /\ txn' = [txn EXCEPT ![site.home[t]].at = "begun"]
  /\ UNCHANGED <<site, adapter, job, calls, faults, made, seeded, past>>

(* Mutant of Marked: only after create_table(). *)
MarkedLate(r) == r

(* __initialized is set before create_table() is called, which enters       *)
(* __deferred_init again.                                                   *)
Marked(r) == [r EXCEPT !.ready = TRUE]

DeferredInit(j) ==
  LET a == HomeOf(j)
      creates == ~ adapter[a].ready /\ adapter[a].lazy
  IN  /\ job[j].at = "enter"
      /\ adapter' = [adapter EXCEPT ![a] = Marked(@)]
      /\ \/ /\ creates /\ Is.lazily = "calls"
            /\ Len(job[j].waiting) < MaxNested
            /\ Goes(j, Enters("create", <<job[j].frame>> \o job[j].waiting))
         \/ /\ creates /\ Is.lazily = "schedules"
            /\ job' = [job EXCEPT ![j].at = Body(job[j].frame),
                                  ![a] = Enters("create", <<>>)]
         \/ /\ ~ creates
            /\ Goes(j, [job[j] EXCEPT !.at = Body(job[j].frame)])
      /\ UNCHANGED <<site, calls, faults, txn, made, seeded, past>>

-----------------------------------------------------------------------------
(* What the connection of a finds in the catalog.                           *)
Sees(a) == made \cup txn[a].made

Things == {"table"} \cup ToSet(site.indexes)

Written(b) == txn[b].at = "written"

(* What b's transaction keeps the others from making: what it has made, or  *)
(* anything in its database, or indexes of a table that it has rows in.     *)
HeldBy(b) == CASE Is.takes = "all"                 -> txn[b].made
               [] Is.takes = "open" /\ Written(b) -> Things
               [] Is.takes = "rows" /\ Written(b) -> ToSet(site.indexes)
               [] OTHER                            -> {}

HeldFrom(a) == UNION {HeldBy(b) : b \in Adapter \ {a}}

(* A statement that needs what another connection holds.                    *)
Waits(j) ==
  \/ /\ job[j].at = "ddl"
     /\ (Head(job[j].ddl).makes \ Sees(HomeOf(j))) \cap HeldFrom(HomeOf(j)) # {}
  \/ /\ job[j].at \in {"hook", "operate"} /\ Is.takes = "open"
     /\ HeldFrom(HomeOf(j)) # {}

JoinsTxn(a) == Is.takes = "all" \/ (Is.takes = "open" /\ txn[a].at # "none")

Commits(a, things) ==
  /\ made' = made \cup txn[a].made \cup things
  /\ seeded' = seeded + txn[a].seeds
  /\ txn' = [txn EXCEPT ![a] = NoTxn]

(* The transaction of a is rolled back by or under j.                       *)
Undoes(j, a, marks) ==
  /\ txn' = [txn EXCEPT ![a] = NoTxn]
  /\ adapter' = [adapter EXCEPT ![a].undone = @ \/ txn[a].made # {} \/ txn[a].seeds > 0]
  /\ past' = past \cup marks \cup
       IF \E k \in Job \ {j} : HomeOf(k) = a /\ job[k].at \in {"ddl", "hook"}
       THEN {"cut"} ELSE {}
  /\ UNCHANGED <<made, seeded>>

Created(j) == adapter' = [adapter EXCEPT ![HomeOf(j)].lazy = FALSE]

(* "Does the table exist": create_table() of one that does runs no hook. *)
LookForTable(j) ==
  /\ job[j].at = "look"
  /\ \/ "table" \in Sees(HomeOf(j)) /\ Created(j) /\ Goes(j, Return(job[j]))
     \/ /\ "table" \notin Sees(HomeOf(j)) /\ UNCHANGED adapter
        /\ \E d \in Is.ddl[site.indexes] :
             Goes(j, [job[j] EXCEPT !.at = "ddl", !.ddl = d])
  /\ UNCHANGED <<site, calls, faults, txn, made, seeded, past>>

(* Whatever raises ends every call that waits, and resets no flag. *)
Fails(j) == Goes(j, Idle) /\ UNCHANGED <<site, calls>>

(* A statement that has nothing to commit with commits what was there.      *)
CommitsFirst(a) ==
  IF JoinsTxn(a) THEN UNCHANGED <<txn, made, seeded>> ELSE Commits(a, {})

ExecuteDdl(j) ==
  LET a == HomeOf(j)
      s == Head(job[j].ddl)
      rest == Tail(job[j].ddl)
      clashes == s.strict /\ s.makes \cap Sees(a) # {}
      lost == "table" \notin Sees(a) \cup s.makes
  IN  /\ job[j].at = "ddl" /\ ~ Waits(j)
      /\ IF clashes \/ lost
         THEN Fails(j) /\ CommitsFirst(a) /\ UNCHANGED faults
         ELSE /\ Goes(j, [job[j] EXCEPT !.ddl = rest,
                                        !.at = IF rest = <<>> THEN "hook" ELSE "ddl"])
              /\ IF JoinsTxn(a)
                 THEN /\ txn' = [txn EXCEPT ![a].made = @ \cup (s.makes \ made),
                                            ![a].at = IF s.makes \subseteq Sees(a) THEN @
                                                      ELSE "written"]
                      /\ UNCHANGED <<made, seeded>>
                 ELSE Commits(a, s.makes)
              /\ UNCHANGED <<site, calls, faults>>
      /\ UNCHANGED <<adapter, past>>

(* The rows that the hook writes.                                           *)
Seeds(a) ==
  IF Is.takes = "none"
  THEN seeded' = seeded + 1 /\ UNCHANGED txn
  ELSE txn' = [txn EXCEPT ![a].at = "written", ![a].seeds = @ + 1] /\ UNCHANGED seeded

RunHook(j) ==
  /\ job[j].at = "hook" /\ ~ Waits(j)
  /\ Seeds(HomeOf(j))
  /\ Created(j) /\ Goes(j, Return(job[j]))
  /\ UNCHANGED <<site, calls, faults, made, past>>

(* An insert, for the operations.  Without a table it raises, or creates it. *)
Operate(j) ==
  LET a == HomeOf(j) IN
  /\ job[j].at = "operate" /\ ~ Waits(j)
  /\ IF "table" \in Sees(a) \/ Is.implicit
     THEN /\ made' = IF Is.implicit THEN made \cup {"table"} ELSE made
          /\ txn' = IF Is.takes = "none" THEN txn ELSE [txn EXCEPT ![a].at = "written"]
          /\ Goes(j, Return(job[j]))
     ELSE Goes(j, Idle) /\ UNCHANGED <<txn, made>>
  /\ UNCHANGED <<site, adapter, calls, faults, seeded, past>>

KeyReturned(j) ==
  /\ job[j].at = "return" /\ Goes(j, Return(job[j]))
  /\ UNCHANGED <<site, adapter, calls, faults, txn, made, seeded, past>>

(* commit() and rollback() of the adapter, or of a context over it.         *)
EndTransaction(j) ==
  /\ Goes(j, Return(job[j])) /\ UNCHANGED <<site, calls, faults>>
  /\ \/ job[j].at = "commit" /\ Commits(HomeOf(j), {}) /\ UNCHANGED <<adapter, past>>
     \/ job[j].at = "rollback" /\ Undoes(j, HomeOf(j), {})

(* What another connection holds is not released in time. *)
TimesOut(j) ==
  /\ Waits(j) /\ Fails(j)
  /\ past' = IF job[j].at = "operate" THEN past ELSE past \cup {"timed out"}
  /\ IF job[j].at = "ddl" THEN CommitsFirst(HomeOf(j)) ELSE UNCHANGED <<txn, made, seeded>>
  /\ UNCHANGED <<adapter, faults>>

(* The server refuses a statement, or the hook raises, after its rows; the  *)
(* server may roll back the transaction at that.                            *)
Refused(j) ==
  LET a == HomeOf(j)
      mark == IF job[j].at = "hook" THEN "raised" ELSE "refused"
  IN  /\ job[j].at \in {"look", "ddl", "hook"} /\ Fails(j)
      /\ faults < MaxFaults /\ faults' = faults + 1
      /\ \/ /\ IF job[j].at = "hook" THEN Seeds(a) ELSE UNCHANGED <<txn, seeded>>
            /\ past' = past \cup {mark} /\ UNCHANGED <<adapter, made>>
         \/ Is.takes # "none" /\ Undoes(j, a, {mark})

(* The process of an adapter dies and starts again. *)
Restart(a) ==
  /\ faults < MaxFaults /\ faults' = faults + 1
  /\ past' = past \cup {"died"}
  /\ adapter' = [adapter EXCEPT ![a] = FreshAdapter(site)]
  /\ job' = [j \in Job |-> IF HomeOf(j) = a THEN Idle ELSE job[j]]
  /\ txn' = [txn EXCEPT ![a] = NoTxn]
  /\ UNCHANGED <<site, calls, made, seeded>>

JobStep(j) ==
  /\ Runs(j)
  /\ \/ DeferredInit(j) \/ LookForTable(j) \/ ExecuteDdl(j) \/ RunHook(j)
     \/ Operate(j) \/ KeyReturned(j) \/ EndTransaction(j) \/ TimesOut(j)

CreationNext ==
  \/ \E j \in Job : JobStep(j) \/ Refused(j)
  \/ \E t \in Task : ReadPrimaryKey(t) \/ BeginTransaction(t)
                       \/ \E f \in {"create", "operate", "key"} \cup Ends : CallMethod(t, f)
  \/ \E a \in Adapter : Restart(a)

CreationSpec == CreationInit /\ [][CreationNext]_creation

-----------------------------------------------------------------------------
CreationTypeOK ==
  /\ site \in Sites
  /\ adapter \in [Adapter -> [ready : BOOLEAN, lazy : BOOLEAN, undone : BOOLEAN]]
  /\ \A j \in Job :
       /\ job[j].at \in {"idle", "enter", "look", "ddl", "hook", "operate", "return"} \cup Ends
       /\ job[j].frame \in {"none", "create", "operate", "key"} \cup Ends
       /\ Len(job[j].waiting) <= MaxNested
  /\ txn \in [Adapter -> [at : {"none", "begun", "written"}, made : SUBSET Things, seeds : Nat]]
  /\ made \subseteq Things /\ seeded \in Nat
  /\ past \subseteq {"refused", "raised", "timed out", "died", "cut"}

(* A connection finds the rows of the hook once at most, after whatever     *)
(* races, faults, rollbacks and restarts, where a statement of the creation *)
(* fails for all but one: on MSSQL, and on SQLite and MySQL if the entity   *)
(* has an index.  So do tasks on one loop that SQLite's class does not      *)
(* suspend in between.  But if tasks share a connection, none rolls back    *)
(* what another one is creating.                                            *)
SeededOnce ==
  /\ \/ site.class \in {"mssql", "asyncMssql"}
     \/ site.class \in {"sqlite", "mysql", "asyncSqlite", "asyncMysql"} /\ site.indexes # <<>>
     \/ site.class = "asyncSqlite" /\ Shared(site)
  /\ "cut" \notin past
  => seeded <= 1 /\ \A a \in Adapter : seeded + txn[a].seeds <= 1

(* MSSQL's creation is all or nothing: the server has no table, or it has   *)
(* the table with every index and with the rows of one run of the hook,     *)
(* also after a process died, a transaction was rolled back or a creation   *)
(* waited for another in vain.  Not if a statement or a hook failed and the *)
(* caller committed all the same.                                           *)
AllOrNothing ==
  site.class \in {"mssql", "asyncMssql"} /\ ~ Shared(site)
    /\ past \cap {"refused", "raised"} = {}
  => \/ made = {} /\ seeded = 0
     \/ made = Things /\ seeded = 1

(* Nothing that was created has been lost, no creation was ended early.     *)
NothingLost == past = {} /\ \A a \in Adapter : ~ adapter[a].undone

(* When no statement failed but for a lost race, nothing was rolled back    *)
(* and no process died, the table that is there at rest is whole: it has    *)
(* every index of the entity and its hook ran, committed or not.  Not on    *)
(* MongoDB, where an insert creates it.                                     *)
TableIsWhole ==
  "table" \in made /\ NothingLost /\ ~ Is.implicit /\ (\A j \in Job : job[j] = Idle)
    => /\ made \cup UNION {txn[a].made : a \in Adapter} = Things
       /\ seeded > 0 \/ \E a \in Adapter : txn[a].seeds > 0

(* An operation of an adapter that creates lazily finds the table, also     *)
(* after its own creation lost a race or its process was restarted, and the *)
(* connection with it lost what it had created.  Not after a rollback that  *)
(* took the table along; for a shared adapter only if the class is not      *)
(* suspended while it creates; for the asynchronous MySQL adapter only if   *)
(* primary_key is not read.                                                 *)
FirstUseFindsTable ==
  [][\A t \in Task :
       LET a == adapter[site.home[t]] IN
       /\ Operate(t) /\ site.lazy /\ ~ Is.implicit /\ Is.key # "marks"
       /\ ~ a.undone
       /\ a.lazy => past \cap {"refused", "raised", "timed out"} = {}
       /\ Shared(site) => Is.whole
       => "table" \in Sees(site.home[t])]_creation

(* A call of an adapter returns or raises, however creation, its hook and   *)
(* the call that waits for them are interleaved: __deferred_init, which     *)
(* create_table() enters again, does not go round for ever, and what waits  *)
(* for another connection's transaction ends with the driver's timeout.     *)
EveryCallReturns == \A t \in Task : job[t].at # "idle" ~> job[t].at = "idle"
=============================================================================
