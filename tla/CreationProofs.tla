--------------------------- MODULE CreationProofs ---------------------------
(***************************************************************************)
(* What is proved of TableCreation, for any number of tasks and adapters,  *)
(* any entity, all ten classes, any number of calls and of faults.         *)
(***************************************************************************)
EXTENDS TableCreation, TLAPS, SequenceTheorems

(* What the classes do, by class: the statements of a creation, and whether *)
(* an insert creates the table too.                                         *)
LEMMA ClassFacts ==
  ASSUME NEW k \in DOMAIN AdapterClasses
  PROVE  LET C == AdapterClasses[k] IN
         /\ k \in {"sqlite", "mysql", "asyncSqlite", "asyncMysql"} =>
              /\ ~ C.implicit
              /\ \A ix \in IndexLists : C.ddl[ix] = {SqliteDdl(ix)}
         /\ k \in {"mssql", "asyncMssql"} =>
              /\ ~ C.implicit
              /\ C.takes = "all"
              /\ \A ix \in IndexLists : C.ddl[ix] = {MssqlDdl(ix)}
         /\ k \in {"clickhouse", "asyncClickhouse"} =>
              /\ ~ C.implicit
              /\ \A ix \in IndexLists : C.ddl[ix] = {ClickHouseDdl(ix)}
         /\ k \in {"mongo", "asyncMongo"} =>
              /\ C.implicit
              /\ \A ix \in IndexLists : C.ddl[ix] = {MongoDdl(ix)}
         /\ ~ C.implicit => C.lazily = "calls"
         /\ C.whole <=> k \in {"asyncSqlite", "asyncMssql"}
<1> USE DEF Class, IndexOrder
<1>1. CASE k = "sqlite"
  BY <1>1 DEF AdapterClasses, Sqlite
<1>2. CASE k = "mysql"
  BY <1>2 DEF AdapterClasses, Mysql, MysqlDdl, SqliteDdl
<1>3. CASE k = "mssql"
  BY <1>3 DEF AdapterClasses, Mssql
<1>4. CASE k = "clickhouse"
  BY <1>4 DEF AdapterClasses, ClickHouse
<1>5. CASE k = "mongo"
  BY <1>5 DEF AdapterClasses, Mongo
<1>6. CASE k = "asyncSqlite"
  BY <1>6 DEF AdapterClasses, AsyncSqlite
<1>7. CASE k = "asyncMysql"
  BY <1>7 DEF AdapterClasses, AsyncMysql, MysqlDdl, SqliteDdl
<1>8. CASE k = "asyncMssql"
  BY <1>8 DEF AdapterClasses, AsyncMssql
<1>9. CASE k = "asyncClickhouse"
  BY <1>9 DEF AdapterClasses, AsyncClickHouse
<1>10. CASE k = "asyncMongo"
  BY <1>10 DEF AdapterClasses, AsyncMongo
<1>11. QED
  BY <1>1, <1>2, <1>3, <1>4, <1>5, <1>6, <1>7, <1>8, <1>9, <1>10 DEF AdapterClasses

-----------------------------------------------------------------------------
(* What a creation makes, and the statements that make it.                  *)
Statements == [makes : SUBSET Things, strict : BOOLEAN]

(* A creation makes the table first and all the rest in the end, and no     *)
(* statement that is strict meets what an earlier one of it has made.       *)
Orderly(d) ==
  /\ d \in Seq(Statements) /\ Len(d) > 0 /\ "table" \in d[1].makes
  /\ \A x \in Things : \E i \in 1..Len(d) : x \in d[i].makes
  /\ \A q \in 1..Len(d) : d[q].strict =>
       d[q].makes # {} /\ \A i \in 1..(q - 1) : d[i].makes \cap d[q].makes = {}

(* A statement before the others.                                           *)
LEMMA FirstOf ==
  ASSUME NEW x \in Statements, NEW s \in Seq(Statements)
  PROVE  /\ <<x>> \o s \in Seq(Statements) /\ Len(<<x>> \o s) = Len(s) + 1
         /\ (<<x>> \o s)[1] = x
         /\ \A k \in 1..(Len(s) + 1) : k # 1 => (<<x>> \o s)[k] = s[k - 1]
  OBVIOUS

(* A table and its indexes, one by one.                                     *)
LEMMA ListIsOrderly ==
  ASSUME site \in Sites, NEW top \in Statements, top.makes = {"table"},
         NEW s \in Seq(Statements), Len(s) = Len(site.indexes),
         \A i \in 1..Len(s) : s[i].makes = {site.indexes[i]}
  PROVE  /\ Orderly(<<top>> \o s)
         /\ (<<top>> \o s)[1] = top /\ Len(<<top>> \o s) = Len(s) + 1
         /\ \A k \in 1..Len(s) : (<<top>> \o s)[k + 1] = s[k]
<1> DEFINE ix == site.indexes
           n == Len(ix)
           d == <<top>> \o s
<1>1. /\ ix \in Seq(ToSet(ix)) /\ IsInjective(ix) /\ "table" \notin ToSet(ix)
      /\ n \in Nat /\ DOMAIN ix = 1..n /\ Len(s) = n
  BY CreationAssumption DEF Sites
<1>2. \A i \in 1..n : ix[i] \in ToSet(ix) /\ ix[i] # "table"
  BY <1>1 DEF ToSet
<1>3. \A i, k \in 1..n : ix[i] = ix[k] => i = k
  BY <1>1 DEF IsInjective
<1>4. \A x \in ToSet(ix) : \E i \in 1..n : ix[i] = x
  BY <1>1 DEF ToSet
<1>5. \A i \in 1..n : s[i].makes = {ix[i]}
  BY <1>1
<1>7. /\ d \in Seq(Statements) /\ Len(d) = n + 1 /\ d[1] = top
      /\ \A k \in 1..(n + 1) : k # 1 => d[k] = s[k - 1]
  BY <1>1, FirstOf
<1> HIDE DEF ix, n, d
<1>8. 1 \in 1..(n + 1) /\ d[1] = top
  BY <1>1, <1>7
<1>9. \A k \in 1..(n + 1) : k # 1 => k - 1 \in 1..n /\ d[k] = s[k - 1]
  BY <1>1, <1>7
<1>10. /\ d[1].makes = {"table"}
       /\ \A k \in 1..(n + 1) : k # 1 => k - 1 \in 1..n /\ d[k].makes = {ix[k - 1]}
  BY <1>5, <1>8, <1>9
<1>11. \A x \in Things : \E i \in 1..Len(d) : x \in d[i].makes
  <2>1. TAKE x \in Things
  <2>2. CASE x = "table"
    BY <1>7, <1>8, <1>10, <2>2
  <2>3. ASSUME NEW i \in 1..n, ix[i] = x PROVE \E k \in 1..Len(d) : x \in d[k].makes
    <3>1. i + 1 \in 1..(n + 1) /\ i + 1 # 1 /\ (i + 1) - 1 = i
      BY <1>1
    <3>2. d[i + 1].makes = {x}
      BY <1>10, <2>3, <3>1
    <3>3. QED
      BY <1>7, <3>1, <3>2
  <2>4. QED
    BY <1>4, <2>1, <2>2, <2>3 DEF Things, ix
<1>12. \A q \in 1..Len(d) :
         d[q].makes # {} /\ \A i \in 1..(q - 1) : d[i].makes \cap d[q].makes = {}
  <2>1. TAKE q \in 1..Len(d)
  <2>2. q \in 1..(n + 1) /\ d[q].makes # {}
    BY <1>7, <1>10, <2>1
  <2>3. ASSUME NEW i \in 1..(q - 1) PROVE d[i].makes \cap d[q].makes = {}
    <3>0. i \in 1..(n + 1) /\ q # 1 /\ i - 1 # q - 1
      BY <1>1, <2>2, <2>3
    <3>1. q - 1 \in 1..n /\ d[q].makes = {ix[q - 1]}
      BY <1>10, <2>2, <3>0
    <3>2. CASE i = 1
      BY <1>2, <1>10, <3>1, <3>2
    <3>3. CASE i # 1
      <4>1. i - 1 \in 1..n /\ d[i].makes = {ix[i - 1]}
        BY <1>10, <3>0, <3>3
      <4>2. ix[i - 1] # ix[q - 1]
        BY <1>3, <3>0, <3>1, <4>1
      <4>3. QED
        BY <3>1, <4>1, <4>2
    <3>4. QED
      BY <3>2, <3>3
  <2>4. QED
    BY <2>2, <2>3
<1>14. Len(d) > 0 /\ "table" \in d[1].makes
  BY <1>1, <1>7, <1>8, <1>10
<1>13. QED
  <2>1. Orderly(d)
    BY <1>7, <1>11, <1>12, <1>14 DEF Orderly
  <2>2. Len(d) = n + 1 /\ \A k \in 1..n : d[k + 1] = s[k]
    BY <1>1, <1>7, <1>9
  <2>3. QED
    BY <1>1, <1>8, <2>1, <2>2 DEF d

(* ClickHouse: all in one, and then the wait for the replicas.              *)
LEMMA ClickHouseIsOrderly ==
  ASSUME site \in Sites
  PROVE  Orderly(ClickHouseDdl(site.indexes))
<1> DEFINE d == ClickHouseDdl(site.indexes)
           all == Makes(Things, FALSE)
           sync == Makes({}, FALSE)
<1>1. /\ all \in Statements /\ all.makes = Things /\ all.strict = FALSE
      /\ sync \in Statements /\ sync.strict = FALSE
      /\ d = <<all, sync>>
  BY DEF Makes, Statements, Things, ClickHouseDdl
<1> HIDE DEF d, all, sync
<1>2. d \in Seq(Statements) /\ Len(d) = 2 /\ d[1] = all /\ d[2] = sync
  BY <1>1
<1>3. d[1].makes = Things /\ \A q \in 1..Len(d) : ~ d[q].strict
  BY <1>1, <1>2
<1>4. "table" \in Things
  BY DEF Things
<1>5. Orderly(d)
  BY <1>2, <1>3, <1>4 DEF Orderly
<1>6. QED
  BY <1>5 DEF d

(* The lists of the other classes.                                          *)
LEMMA ListsAreOrderly ==
  ASSUME site \in Sites
  PROVE  LET ix == site.indexes IN
         /\ Orderly(SqliteDdl(ix)) /\ Orderly(MssqlDdl(ix)) /\ Orderly(MongoDdl(ix))
         /\ MssqlDdl(ix)[1].strict /\ MssqlDdl(ix)[1].makes = {"table"}
         /\ SqliteDdl(ix)[1].makes = {"table"}
         /\ ix = <<>> => Len(SqliteDdl(ix)) = 1
         /\ ix # <<>> => /\ Len(SqliteDdl(ix)) > 1
                         /\ SqliteDdl(ix)[2].strict /\ SqliteDdl(ix)[2].makes = {ix[1]}
<1> DEFINE ix == site.indexes
           n == Len(ix)
           strict == StrictIndexes(ix)
           again == [i \in DOMAIN ix |-> Makes({ix[i]}, FALSE)]
           table == Makes({"table"}, FALSE)
           newTable == Makes({"table"}, TRUE)
<1>1. /\ ix \in Seq(ToSet(ix)) /\ n \in Nat /\ DOMAIN ix = 1..n
  BY CreationAssumption DEF Sites
<1>2. \A i \in 1..n : ix[i] \in Things
  BY <1>1 DEF ToSet, Things
<1>3. /\ table \in Statements /\ table.makes = {"table"}
      /\ newTable \in Statements /\ newTable.makes = {"table"} /\ newTable.strict
  BY DEF Makes, Statements, Things
<1>4. /\ strict \in [1..n -> Statements]
      /\ \A i \in 1..n : strict[i].makes = {ix[i]} /\ strict[i].strict
  BY <1>1, <1>2 DEF Makes, Statements, StrictIndexes
<1>5. /\ again \in [1..n -> Statements]
      /\ \A i \in 1..n : again[i].makes = {ix[i]}
  BY <1>1, <1>2 DEF Makes, Statements
<1>6. /\ SqliteDdl(ix) = <<table>> \o strict /\ MssqlDdl(ix) = <<newTable>> \o strict
      /\ MongoDdl(ix) = <<table>> \o again
  BY DEF SqliteDdl, MssqlDdl, MongoDdl
<1> HIDE DEF strict, again, table, newTable
<1>7. /\ strict \in Seq(Statements) /\ Len(strict) = n
      /\ again \in Seq(Statements) /\ Len(again) = n
  BY <1>1, <1>4, <1>5
<1>8. Orderly(<<table>> \o strict) /\ Orderly(<<newTable>> \o strict) /\ Orderly(<<table>> \o again)
  BY <1>3, <1>4, <1>5, <1>7, ListIsOrderly
<1>9. /\ (<<newTable>> \o strict)[1] = newTable /\ (<<table>> \o strict)[1] = table
      /\ Len(<<table>> \o strict) = n + 1
  BY <1>3, <1>4, <1>7, ListIsOrderly
<1>10. ASSUME ix # <<>>
       PROVE  Len(<<table>> \o strict) > 1 /\ (<<table>> \o strict)[2] = strict[1]
  <2>1. n > 0
    BY <1>1, <1>10
  <2>2. /\ Len(<<table>> \o strict) = n + 1
        /\ \A k \in 1..n : (<<table>> \o strict)[k + 1] = strict[k]
    BY <1>3, <1>4, <1>7, ListIsOrderly
  <2>3. 1 \in 1..n /\ 1 + 1 = 2
    BY <1>1, <2>1
  <2>4. QED
    BY <1>1, <2>1, <2>2, <2>3
<1>11. ix # <<>> => strict[1].strict /\ strict[1].makes = {ix[1]}
  <2>1. ix # <<>> => 1 \in 1..n
    BY <1>1
  <2>2. QED
    BY <1>4, <2>1
<1>12. ix = <<>> => Len(<<table>> \o strict) = 1
  BY <1>9
<1>13. QED
  BY <1>3, <1>6, <1>8, <1>9, <1>10, <1>11, <1>12

(* Each class has one list of statements for an entity, and it is orderly.  *)
LEMMA OnePlan ==
  ASSUME site \in Sites
  PROVE  \E d : Is.ddl[site.indexes] = {d} /\ Orderly(d)
<1> DEFINE ix == site.indexes
<1>1. site.class \in DOMAIN AdapterClasses /\ ix \in IndexLists
  BY DEF Sites
<1>2. Orderly(SqliteDdl(ix)) /\ Orderly(MssqlDdl(ix)) /\ Orderly(MongoDdl(ix))
  BY ListsAreOrderly
<1>3. \/ site.class \in {"sqlite", "mysql", "asyncSqlite", "asyncMysql"}
      \/ site.class \in {"mssql", "asyncMssql"}
      \/ site.class \in {"clickhouse", "asyncClickhouse"}
      \/ site.class \in {"mongo", "asyncMongo"}
  BY <1>1 DEF AdapterClasses
<1>4. \/ Is.ddl[ix] = {SqliteDdl(ix)} \/ Is.ddl[ix] = {MssqlDdl(ix)}
      \/ Is.ddl[ix] = {ClickHouseDdl(ix)} \/ Is.ddl[ix] = {MongoDdl(ix)}
  BY <1>1, <1>3, ClassFacts DEF Is
<1>5. QED
  BY <1>2, <1>4, ClickHouseIsOrderly

-----------------------------------------------------------------------------
(* The shape of the state. *)

Frames == {"create", "operate", "key"} \cup Ends

Places == {"idle", "enter", "look", "ddl", "hook", "operate", "return"} \cup Ends

JobRecord ==
  [at : Places, frame : Frames \cup {"none"}, waiting : Seq(Frames), ddl : Seq(Statements)]

(* A call that is being executed has a method, and while it creates it has  *)
(* a statement to send.                                                     *)
SoundJob ==
  {r \in JobRecord :
     /\ r.at # "idle" => r.frame # "none"
     /\ r.at = "ddl" => r.ddl # <<>>
     /\ Len(r.waiting) <= MaxNested}

Flags == [ready : BOOLEAN, lazy : BOOLEAN, undone : BOOLEAN]

(* What is made in a transaction is in one that takes it in, and locked.    *)
SoundTxn ==
  {r \in [at : {"none", "begun", "written"}, made : SUBSET Things, seeds : Nat] :
     r.made # {} => Is.takes = "all" \/ (Is.takes = "open" /\ r.at = "written")}

Troubles == {"refused", "raised", "timed out", "died", "cut"}

Shape ==
  /\ site \in Sites
  /\ adapter \in [Adapter -> Flags]
  /\ job \in [Job -> SoundJob]
  /\ txn \in [Adapter -> SoundTxn]
  /\ made \subseteq Things /\ seeded \in Nat
  /\ past \subseteq Troubles

Turned(r, at, f, w) == [r EXCEPT !.at = at, !.frame = f, !.waiting = w]

LEMMA JobParts ==
  ASSUME NEW r \in JobRecord, NEW at \in Places, NEW f \in Frames, NEW w \in Seq(Frames)
  PROVE  /\ Turned(r, at, f, w) \in JobRecord /\ Turned(r, at, f, w).ddl = r.ddl
         /\ Turned(r, at, f, w).at = at /\ Turned(r, at, f, w).frame = f
         /\ Turned(r, at, f, w).waiting = w
  BY DEF JobRecord, Turned

LEMMA IdleParts ==
  Idle.at = "idle" /\ Idle.ddl = <<>> /\ Idle.waiting = <<>> /\ Idle \in SoundJob
<1>1. <<>> \in Seq(Frames) /\ <<>> \in Seq(Statements) /\ Len(<<>>) = 0 /\ MaxNested \in Nat
  BY CreationAssumption
<1>2. QED
  BY <1>1 DEF Idle, SoundJob, JobRecord, Places, Frames

LEMMA EntersParts ==
  ASSUME NEW f \in Frames, NEW w \in Seq(Frames), Len(w) <= MaxNested
  PROVE  Enters(f, w).at = "enter" /\ Enters(f, w) \in SoundJob
<1>1. Idle \in JobRecord /\ "enter" \in Places /\ f # "none"
  BY IdleParts DEF SoundJob, Places, Frames, Ends
<1>2. Enters(f, w) = Turned(Idle, "enter", f, w)
  BY DEF Enters, Turned
<1> DEFINE e == Enters(f, w)
<1>3. e \in JobRecord /\ e.at = "enter" /\ e.frame = f /\ e.waiting = w
  <2> HIDE DEF e
  <2>1. QED
    BY <1>1, <1>2, JobParts DEF e
<1> HIDE DEF e
<1>4. e.at = "enter" /\ e \in SoundJob
  BY <1>1, <1>3 DEF SoundJob
<1>5. QED
  BY <1>4 DEF e

LEMMA BodyParts ==
  ASSUME NEW f \in Frames
  PROVE  Body(f) \in {"look", "operate", "return"} \cup Ends /\ f # "none"
  BY DEF Body, Frames, Ends

(* A method that returns leaves a call that neither creates nor runs a hook.*)
LEMMA ReturnParts ==
  ASSUME NEW r \in SoundJob
  PROVE  /\ Return(r) \in SoundJob
         /\ Return(r).at \in {"idle", "look", "operate", "return"} \cup Ends
         /\ Len(r.waiting) <= 1 => Return(r).waiting = <<>>
<1>1. CASE r.waiting = <<>>
  BY <1>1, IdleParts DEF Return
<1>2. CASE r.waiting # <<>>
  <2> DEFINE f == Head(r.waiting)
             w == Tail(r.waiting)
             at == Body(f)
  <2>1. /\ r.waiting \in Seq(Frames) /\ Len(r.waiting) <= MaxNested /\ MaxNested \in Nat
    BY CreationAssumption DEF SoundJob, JobRecord
  <2>2. /\ f \in Frames /\ w \in Seq(Frames) /\ Len(w) <= MaxNested
        /\ Len(r.waiting) <= 1 => w = <<>>
    BY <1>2, <2>1
  <2> HIDE DEF f, w
  <2>3. at \in {"look", "operate", "return"} \cup Ends /\ f # "none"
    BY <2>2, BodyParts
  <2>4. Return(r) = Turned(Idle, at, f, w)
    BY <1>2 DEF Return, Turned, f, w
  <2>5. Idle \in JobRecord /\ at \in Places
    BY <2>3, IdleParts DEF SoundJob, Places
  <2> HIDE DEF at
  <2> DEFINE e == Return(r)
  <2>6. e \in JobRecord /\ e.at = at /\ e.frame = f /\ e.waiting = w
    <3> HIDE DEF e
    <3>1. QED
      BY <2>2, <2>4, <2>5, JobParts DEF e
  <2> HIDE DEF e
  <2>7. e \in SoundJob /\ e.at \in {"idle", "look", "operate", "return"} \cup Ends
    BY <2>2, <2>3, <2>6 DEF SoundJob, Ends
  <2>8. QED
    BY <2>2, <2>6, <2>7 DEF e
<1>3. QED
  BY <1>1, <1>2

(* A call that goes on with another part of its method.                     *)
LEMMA GoesOn ==
  ASSUME NEW r \in SoundJob, r.at # "idle", NEW at \in Places \ {"ddl"}
  PROVE  [r EXCEPT !.at = at] \in SoundJob /\ [r EXCEPT !.at = at].at = at
  BY DEF SoundJob, JobRecord

(* A creation that starts, and one that has sent a statement.               *)
LEMMA StartParts ==
  ASSUME NEW r \in SoundJob, r.at # "idle", NEW d \in Seq(Statements), d # <<>>
  PROVE  LET e == [r EXCEPT !.at = "ddl", !.ddl = d] IN
         e \in SoundJob /\ e.at = "ddl" /\ e.ddl = d
  BY DEF SoundJob, JobRecord, Places

LEMMA SentParts ==
  ASSUME NEW r \in SoundJob, r.at = "ddl"
  PROVE  LET rest == Tail(r.ddl)
             e == [r EXCEPT !.ddl = rest, !.at = IF rest = <<>> THEN "hook" ELSE "ddl"]
         IN  /\ Head(r.ddl) \in Statements /\ rest \in Seq(Statements)
             /\ e \in SoundJob /\ e.ddl = rest
             /\ e.at = IF rest = <<>> THEN "hook" ELSE "ddl"
<1> DEFINE rest == Tail(r.ddl)
           at == IF rest = <<>> THEN "hook" ELSE "ddl"
<1>1. r \in JobRecord /\ r.ddl \in Seq(Statements) /\ r.ddl # <<>>
      /\ r.frame # "none" /\ Len(r.waiting) <= MaxNested
  BY DEF SoundJob, JobRecord
<1>2. Head(r.ddl) \in Statements /\ rest \in Seq(Statements)
  BY <1>1
<1>3. at \in Places /\ at # "idle" /\ (at = "ddl" => rest # <<>>)
  BY DEF Places
<1> DEFINE e == [r EXCEPT !.ddl = rest, !.at = at]
<1>4. e \in SoundJob /\ e.ddl = rest /\ e.at = at
  <2> HIDE DEF rest, at
  <2>1. QED
    BY <1>1, <1>2, <1>3 DEF SoundJob, JobRecord
<1>5. QED
  BY <1>2, <1>4
LEMMA Homes ==
  ASSUME site \in Sites
  PROVE  /\ site.home \in [Task -> Adapter]
         /\ \A j \in Job : HomeOf(j) \in Adapter
<1>1. Apart \in [Task -> Adapter]
  BY CreationAssumption DEF Apart
<1>2. ASSUME NEW t \in Task PROVE (CHOOSE a \in Adapter : TRUE) \in Adapter
  <2>1. PICK h \in [Task -> Adapter] : \A u, v \in Task : h[u] = h[v] => u = v
    BY CreationAssumption
  <2>2. h[t] \in Adapter
    BY <2>1
  <2>3. QED
    BY <2>2
<1>3. Together \in [Task -> Adapter]
  BY <1>2 DEF Together
<1>4. site.home \in [Task -> Adapter]
  BY <1>1, <1>3 DEF Sites
<1>5. QED
  BY <1>4 DEF HomeOf, Job

-----------------------------------------------------------------------------
(* What a step does to the catalog and to what is not committed. *)

Spares(b) == txn'[b].made = txn[b].made /\ txn'[b].seeds = txn[b].seeds

SameBooks == UNCHANGED <<made, seeded>> /\ \A b \in Adapter : Spares(b)

(* The transaction of a is committed, and things with it.                   *)
Settled(a, things) ==
  /\ made' = (made \cup txn[a].made) \cup things /\ seeded' = seeded + txn[a].seeds
  /\ txn'[a].made = {} /\ txn'[a].seeds = 0
  /\ \A b \in Adapter \ {a} : Spares(b)

(* The transaction of a takes them in.                                      *)
Joined(a, things) ==
  /\ UNCHANGED <<made, seeded>>
  /\ txn'[a].made = txn[a].made \cup (things \ made) /\ txn'[a].seeds = txn[a].seeds
  /\ \A b \in Adapter \ {a} : Spares(b)

Dropped(a) ==
  /\ UNCHANGED <<made, seeded>>
  /\ txn'[a].made = {} /\ txn'[a].seeds = 0
  /\ \A b \in Adapter \ {a} : Spares(b)

(* The hook of a has run.                                                   *)
Sown(a) ==
  /\ made' = made /\ \A b \in Adapter : txn'[b].made = txn[b].made
  /\ \/ /\ Is.takes = "none" /\ seeded' = seeded + 1 /\ \A b \in Adapter : Spares(b)
     \/ /\ seeded' = seeded /\ txn'[a].seeds = txn[a].seeds + 1
        /\ \A b \in Adapter \ {a} : Spares(b)

SoundBooks ==
  txn' \in [Adapter -> SoundTxn] /\ made' \subseteq Things /\ seeded' \in Nat

LEMMA TxnParts ==
  /\ NoTxn \in SoundTxn /\ NoTxn.made = {} /\ NoTxn.seeds = 0
  /\ \A r \in SoundTxn :
       /\ r.made \subseteq Things /\ r.seeds \in Nat
       /\ LET w == [r EXCEPT !.at = "written"] IN
          w \in SoundTxn /\ w.made = r.made /\ w.seeds = r.seeds
       /\ r.at = "none" /\ Is.takes = "open" =>
            LET w == [r EXCEPT !.at = "begun"] IN
            w \in SoundTxn /\ w.made = r.made /\ w.seeds = r.seeds
  BY DEF SoundTxn, NoTxn

LEMMA Committing ==
  ASSUME Shape, NEW a \in Adapter, NEW things \in SUBSET Things, Commits(a, things)
  PROVE  SoundBooks /\ Settled(a, things)
<1>1. /\ txn \in [Adapter -> SoundTxn] /\ txn[a] \in SoundTxn
      /\ made \subseteq Things /\ seeded \in Nat
      /\ txn[a].made \subseteq Things /\ txn[a].seeds \in Nat
  BY DEF Shape, SoundTxn
<1>2. txn'[a] = NoTxn /\ \A b \in Adapter \ {a} : txn'[b] = txn[b]
  BY <1>1 DEF Commits
<1>3. SoundBooks
  <2>1. NoTxn \in SoundTxn
    BY TxnParts
  <2>2. QED
    BY <1>1, <2>1 DEF Commits, SoundBooks
<1>4. Settled(a, things)
  BY <1>2, TxnParts DEF Commits, Settled, Spares
<1>5. QED
  BY <1>3, <1>4

LEMMA CommittingFirst ==
  ASSUME Shape, NEW a \in Adapter, CommitsFirst(a)
  PROVE  SoundBooks /\ (SameBooks \/ (~ JoinsTxn(a) /\ Settled(a, {})))
<1>1. CASE UNCHANGED <<txn, made, seeded>>
  BY <1>1 DEF Shape, SoundBooks, SameBooks, Spares
<1>2. CASE ~ JoinsTxn(a) /\ Commits(a, {})
  BY <1>2, Committing
<1>3. QED
  BY <1>1, <1>2 DEF CommitsFirst

LEMMA Undoing ==
  ASSUME Shape, NEW j \in Job, NEW a \in Adapter, NEW marks \in SUBSET Troubles,
         Undoes(j, a, marks)
  PROVE  /\ SoundBooks /\ Dropped(a)
         /\ adapter' \in [Adapter -> Flags]
         /\ past \subseteq past' /\ marks \subseteq past' /\ past' \subseteq Troubles
         /\ \A b \in Adapter \ {a} : adapter'[b] = adapter[b]
         /\ adapter'[a].ready = adapter[a].ready /\ adapter'[a].lazy = adapter[a].lazy
         /\ adapter[a].undone => adapter'[a].undone
         /\ ~ adapter'[a].undone => txn[a].made = {} /\ txn[a].seeds = 0
         /\ \A k \in Job : k # j /\ HomeOf(k) = a /\ job[k].at \in {"ddl", "hook"} =>
              "cut" \in past'
<1>1. /\ txn \in [Adapter -> SoundTxn] /\ txn[a] \in SoundTxn /\ txn[a].seeds \in Nat
      /\ made \subseteq Things /\ seeded \in Nat /\ past \subseteq Troubles
      /\ adapter \in [Adapter -> Flags] /\ adapter[a] \in Flags
  BY TxnParts DEF Shape
<1>2. txn'[a] = NoTxn /\ \A b \in Adapter \ {a} : txn'[b] = txn[b]
  BY <1>1 DEF Undoes
<1>3. SoundBooks /\ Dropped(a)
  BY <1>1, <1>2, TxnParts DEF Undoes, SoundBooks, Dropped, Spares
<1>4. PICK lost \in BOOLEAN :
        /\ adapter' = [adapter EXCEPT ![a].undone = lost]
        /\ adapter[a].undone => lost
        /\ ~ lost => txn[a].made = {} /\ ~ (txn[a].seeds > 0)
  <2> DEFINE lost == adapter[a].undone \/ txn[a].made # {} \/ txn[a].seeds > 0
  <2>1. lost \in BOOLEAN /\ adapter' = [adapter EXCEPT ![a].undone = lost]
    BY <1>1 DEF Undoes, Flags
  <2>2. /\ adapter[a].undone => lost
        /\ ~ lost => txn[a].made = {} /\ ~ (txn[a].seeds > 0)
    OBVIOUS
  <2> HIDE DEF lost
  <2>3. QED
    BY <2>1, <2>2
<1>5. /\ adapter' \in [Adapter -> Flags]
      /\ adapter'[a].undone = lost
      /\ adapter'[a].ready = adapter[a].ready /\ adapter'[a].lazy = adapter[a].lazy
      /\ \A b \in Adapter \ {a} : adapter'[b] = adapter[b]
  BY <1>1, <1>4 DEF Flags
<1>6. past \subseteq past' /\ marks \subseteq past' /\ past' \subseteq Troubles
  BY <1>1 DEF Undoes, Troubles
<1>7. \A k \in Job : k # j /\ HomeOf(k) = a /\ job[k].at \in {"ddl", "hook"} => "cut" \in past'
  BY DEF Undoes
<1>8. ~ lost => txn[a].seeds = 0
  BY <1>1, <1>4
<1>9. QED
  BY <1>3, <1>4, <1>5, <1>6, <1>7, <1>8

LEMMA Seeding ==
  ASSUME Shape, NEW a \in Adapter, Seeds(a), made' = made
  PROVE  SoundBooks /\ Sown(a)
<1>1. /\ txn \in [Adapter -> SoundTxn] /\ txn[a] \in SoundTxn
      /\ made \subseteq Things /\ seeded \in Nat
  BY DEF Shape
<1>2. CASE Is.takes = "none" /\ seeded' = seeded + 1 /\ UNCHANGED txn
  BY <1>1, <1>2 DEF SoundBooks, Sown, Spares
<1>3. CASE /\ txn' = [txn EXCEPT ![a].at = "written", ![a].seeds = @ + 1]
           /\ UNCHANGED seeded
  <2> DEFINE n == txn[a].seeds + 1
             w == [txn[a] EXCEPT !.at = "written", !.seeds = n]
  <2>1. w \in SoundTxn /\ w.made = txn[a].made /\ w.seeds = n
    <3>1. n \in Nat
      BY <1>1 DEF SoundTxn
    <3> HIDE DEF n
    <3>2. QED
      BY <1>1, <3>1 DEF SoundTxn
  <2>2. txn' = [txn EXCEPT ![a] = w]
    BY <1>1, <1>3
  <2> HIDE DEF w
  <2>3. QED
    BY <1>1, <1>3, <2>1, <2>2 DEF SoundBooks, Sown, Spares
<1>4. QED
  BY <1>2, <1>3 DEF Seeds

(* A statement of the creation in the transaction of a.                     *)
LEMMA Joining ==
  ASSUME Shape, NEW a \in Adapter, NEW things \in SUBSET Things, JoinsTxn(a),
         txn' = [txn EXCEPT ![a].made = @ \cup (things \ made),
                            ![a].at = IF things \subseteq Sees(a) THEN @ ELSE "written"],
         UNCHANGED <<made, seeded>>
  PROVE  SoundBooks /\ Joined(a, things)
<1>1. /\ txn \in [Adapter -> SoundTxn] /\ txn[a] \in SoundTxn
      /\ made \subseteq Things /\ seeded \in Nat
      /\ txn[a].made \subseteq Things /\ txn[a].seeds \in Nat
      /\ txn[a].at \in {"none", "begun", "written"}
  BY DEF Shape, SoundTxn
<1> DEFINE m == txn[a].made \cup (things \ made)
           p == IF things \subseteq Sees(a) THEN txn[a].at ELSE "written"
           w == [txn[a] EXCEPT !.made = m, !.at = p]
<1>2. /\ m \subseteq Things /\ p \in {"none", "begun", "written"}
      /\ m # {} => Is.takes = "all" \/ (Is.takes = "open" /\ p = "written")
  <2>1. Is.takes = "all" \/ Is.takes = "open"
    BY DEF JoinsTxn
  <2>2. ASSUME things \subseteq Sees(a) PROVE m = txn[a].made
    BY <2>2 DEF Sees
  <2>3. m # {} /\ things \subseteq Sees(a) =>
          Is.takes = "all" \/ (Is.takes = "open" /\ txn[a].at = "written")
    BY <1>1, <2>2 DEF SoundTxn
  <2>4. QED
    BY <1>1, <2>1, <2>3
<1>3. txn' = [txn EXCEPT ![a] = w]
  BY <1>1
<1> HIDE DEF m, p
<1>4. w \in SoundTxn /\ w.made = m /\ w.seeds = txn[a].seeds
  BY <1>1, <1>2 DEF SoundTxn
<1> HIDE DEF w
<1>5. SoundBooks
  BY <1>1, <1>3, <1>4 DEF SoundBooks
<1>6. Joined(a, things)
  BY <1>1, <1>3, <1>4 DEF Joined, Spares, m
<1>7. QED
  BY <1>5, <1>6

LEMMA ShapeAtFirst ==
  CreationInit => Shape
<1> SUFFICES ASSUME NEW s \in Sites, CreationStart(s) PROVE Shape
  BY DEF CreationInit
<1>1. s.lazy \in BOOLEAN
  BY DEF Sites
<1>2. QED
  BY <1>1, IdleParts, TxnParts DEF CreationStart, Shape, FreshAdapter, Flags

(* Every action keeps the shape of the state.                               *)
LEMMA ShapeInductive ==
  Shape /\ [CreationNext]_creation => Shape'
<1> SUFFICES ASSUME Shape, [CreationNext]_creation PROVE Shape'
  OBVIOUS
<1> USE DEF Goes
<1>1. /\ site \in Sites /\ job \in [Job -> SoundJob] /\ Idle \in SoundJob
      /\ adapter \in [Adapter -> Flags] /\ txn \in [Adapter -> SoundTxn]
      /\ \A j \in Job : HomeOf(j) \in Adapter
      /\ \A a \in Adapter : a \in Job
  BY IdleParts, Homes DEF Shape, Job
<1>2. ASSUME site' = site, adapter' \in [Adapter -> Flags], job' \in [Job -> SoundJob],
             SoundBooks, past' \subseteq Troubles
      PROVE  Shape'
  <2>1. Things' = Things /\ Is' = Is
    BY <1>2 DEF Things, Is
  <2>2. SoundJob' = SoundJob /\ SoundTxn' = SoundTxn
    BY <2>1 DEF SoundJob, JobRecord, Statements, SoundTxn
  <2>3. QED
    BY <1>2, <2>1, <2>2 DEF Shape, SoundBooks
<1>3. UNCHANGED <<txn, made, seeded>> => SoundBooks
  BY DEF Shape, SoundBooks
<1>4. UNCHANGED past => past' \subseteq Troubles
  BY DEF Shape
<1>5. ASSUME NEW j \in Job, NEW r \in SoundJob, Goes(j, r)
      PROVE  job' \in [Job -> SoundJob]
  BY <1>1, <1>5
<1>6. ASSUME NEW j \in Job, Created(j) PROVE adapter' \in [Adapter -> Flags]
  BY <1>1, <1>6 DEF Created, Flags
<1>7. ASSUME NEW j \in Job, DeferredInit(j) PROVE Shape'
  <2> DEFINE w == job[j].waiting
  <2>1. /\ job[j].frame \in Frames /\ w \in Seq(Frames) /\ job[j].at # "idle"
        /\ MaxNested \in Nat /\ "create" \in Frames /\ <<>> \in Seq(Frames) /\ Len(<<>>) = 0
    BY <1>1, <1>7, CreationAssumption DEF DeferredInit, SoundJob, JobRecord, Frames
  <2>2. adapter' \in [Adapter -> Flags]
    BY <1>1, <1>7 DEF DeferredInit, Marked, Flags
  <2>3. Body(job[j].frame) \in Places \ {"ddl"}
    BY <2>1, BodyParts DEF Places, Ends
  <2>4. [job[j] EXCEPT !.at = Body(job[j].frame)] \in SoundJob
    <3> DEFINE at == Body(job[j].frame)
    <3> HIDE DEF at
    <3>1. QED
      BY <1>1, <2>1, <2>3, GoesOn DEF at
  <2>5. ASSUME Len(w) < MaxNested, Goes(j, Enters("create", <<job[j].frame>> \o w))
        PROVE  job' \in [Job -> SoundJob]
    <3>1. <<job[j].frame>> \o w \in Seq(Frames) /\ Len(<<job[j].frame>> \o w) <= MaxNested
      BY <2>1, <2>5
    <3>2. Enters("create", <<job[j].frame>> \o w) \in SoundJob
      BY <2>1, <3>1, EntersParts
    <3>3. QED
      BY <1>5, <2>5, <3>2
  <2>6. ASSUME job' = [job EXCEPT ![j].at = Body(job[j].frame),
                                  ![HomeOf(j)] = Enters("create", <<>>)]
        PROVE  job' \in [Job -> SoundJob]
    <3>1. Enters("create", <<>>) \in SoundJob
      <4> DEFINE none == <<>>
      <4>1. none \in Seq(Frames) /\ Len(none) <= MaxNested /\ "create" \in Frames
        BY <2>1
      <4> HIDE DEF none
      <4>2. Enters("create", none) \in SoundJob
        BY <4>1, EntersParts
      <4>3. QED
        BY <4>2 DEF none
    <3>2. job' \in [Job -> SoundJob]
      <4> DEFINE r == [job[j] EXCEPT !.at = Body(job[j].frame)]
                 e == Enters("create", <<>>)
                 h == HomeOf(j)
      <4>1. job' = [job EXCEPT ![j] = r, ![h] = e] /\ r \in SoundJob /\ e \in SoundJob
        BY <2>4, <2>6, <3>1
      <4> HIDE DEF r, e, h
      <4>2. QED
        BY <1>1, <4>1
    <3>3. QED
      BY <3>2
  <2>7. ASSUME Goes(j, [job[j] EXCEPT !.at = Body(job[j].frame)])
        PROVE  job' \in [Job -> SoundJob]
    BY <1>5, <2>4, <2>7
  <2>8. job' \in [Job -> SoundJob]
    BY <1>7, <2>5, <2>6, <2>7 DEF DeferredInit
  <2>9. QED
    BY <1>2, <1>3, <1>4, <1>7, <2>2, <2>8 DEF DeferredInit
<1>8. ASSUME NEW j \in Job, LookForTable(j) PROVE Shape'
  <2>1. job[j] \in SoundJob /\ job[j].at # "idle"
    BY <1>1, <1>8 DEF LookForTable
  <2>2. ASSUME NEW d \in Is.ddl[site.indexes] PROVE d \in Seq(Statements) /\ d # <<>>
    BY <1>1, <2>2, OnePlan DEF Orderly
  <2>3. CASE Created(j) /\ Goes(j, Return(job[j]))
    BY <1>2, <1>3, <1>4, <1>5, <1>6, <1>8, <2>1, <2>3, ReturnParts DEF LookForTable
  <2>4. ASSUME NEW d \in Is.ddl[site.indexes], UNCHANGED adapter,
               Goes(j, [job[j] EXCEPT !.at = "ddl", !.ddl = d])
        PROVE  Shape'
    <3>1. [job[j] EXCEPT !.at = "ddl", !.ddl = d] \in SoundJob
      BY <2>1, <2>2, StartParts
    <3>2. job' \in [Job -> SoundJob]
      BY <1>5, <2>4, <3>1
    <3>3. QED
      BY <1>1, <1>2, <1>3, <1>4, <1>8, <2>4, <3>2 DEF LookForTable
  <2>5. QED
    BY <1>8, <2>3, <2>4 DEF LookForTable
<1>9. ASSUME NEW j \in Job, ExecuteDdl(j) PROVE Shape'
  <2> DEFINE a == HomeOf(j)
             s == Head(job[j].ddl)
             rest == Tail(job[j].ddl)
             e == [job[j] EXCEPT !.ddl = rest, !.at = IF rest = <<>> THEN "hook" ELSE "ddl"]
  <2>1. job[j] \in SoundJob /\ job[j].at = "ddl" /\ a \in Adapter
    BY <1>1, <1>9 DEF ExecuteDdl
  <2>2. s \in Statements /\ e \in SoundJob /\ s.makes \subseteq Things
    BY <2>1, SentParts DEF Statements
  <2>3. UNCHANGED <<site, adapter, past>>
    BY <1>9 DEF ExecuteDdl, Fails
  <2>4. CASE Fails(j) /\ CommitsFirst(a)
    <3>1. SoundBooks
      BY <2>1, <2>4, CommittingFirst
    <3>2. job' \in [Job -> SoundJob]
      BY <1>1, <1>5, <2>4 DEF Fails
    <3>3. QED
      BY <1>1, <1>2, <1>4, <2>3, <3>1, <3>2
  <2>5. CASE Goes(j, e)
    <3>1. job' \in [Job -> SoundJob]
      BY <1>5, <2>2, <2>5
    <3>2. CASE Commits(a, s.makes)
      BY <1>1, <1>2, <1>4, <2>1, <2>2, <2>3, <3>1, <3>2, Committing
    <3>3. CASE /\ JoinsTxn(a) /\ UNCHANGED <<made, seeded>>
               /\ txn' = [txn EXCEPT ![a].made = @ \cup (s.makes \ made),
                                     ![a].at = IF s.makes \subseteq Sees(a) THEN @
                                               ELSE "written"]
      <4> HIDE DEF a, s
      <4>1. SoundBooks
        BY <2>1, <2>2, <3>3, Joining
      <4>2. QED
        BY <1>1, <1>2, <1>4, <2>3, <3>1, <4>1
    <3>4. \/ Commits(a, s.makes)
          \/ /\ JoinsTxn(a) /\ UNCHANGED <<made, seeded>>
             /\ txn' = [txn EXCEPT ![a].made = @ \cup (s.makes \ made),
                                   ![a].at = IF s.makes \subseteq Sees(a) THEN @
                                             ELSE "written"]
          \/ CommitsFirst(a) /\ Fails(j)
      BY <1>9 DEF ExecuteDdl
    <3>5. QED
      BY <2>4, <3>2, <3>3, <3>4
  <2>6. QED
    BY <1>9, <2>4, <2>5 DEF ExecuteDdl
<1>10. ASSUME NEW j \in Job, RunHook(j) PROVE Shape'
  <2>1. HomeOf(j) \in Adapter /\ job[j] \in SoundJob /\ Return(job[j]) \in SoundJob
    BY <1>1, ReturnParts
  <2>2. SoundBooks
    BY <1>10, <2>1, Seeding DEF RunHook
  <2>3. job' \in [Job -> SoundJob] /\ adapter' \in [Adapter -> Flags]
    BY <1>5, <1>6, <1>10, <2>1 DEF RunHook
  <2>4. QED
    BY <1>2, <1>4, <1>10, <2>2, <2>3 DEF RunHook
<1>11. ASSUME NEW j \in Job, Operate(j) PROVE Shape'
  <2>1. /\ HomeOf(j) \in Adapter /\ job[j] \in SoundJob /\ Return(job[j]) \in SoundJob
        /\ "table" \in Things
    BY <1>1, ReturnParts DEF Things
  <2>2. job' \in [Job -> SoundJob]
    BY <1>1, <1>5, <1>11, <2>1 DEF Operate
  <2>3. txn' = txn \/ txn' = [txn EXCEPT ![HomeOf(j)].at = "written"]
    BY <1>11 DEF Operate
  <2>4. txn' \in [Adapter -> SoundTxn]
    <3> DEFINE w == [txn[HomeOf(j)] EXCEPT !.at = "written"]
    <3>1. w \in SoundTxn /\ (txn' = txn \/ txn' = [txn EXCEPT ![HomeOf(j)] = w])
      BY <1>1, <2>1, <2>3, TxnParts
    <3> HIDE DEF w
    <3>2. QED
      BY <1>1, <2>1, <3>1
  <2>5. SoundBooks
    BY <1>11, <2>1, <2>4 DEF Operate, SoundBooks, Shape
  <2>6. QED
    BY <1>1, <1>2, <1>4, <1>11, <2>2, <2>5 DEF Operate
<1>12. ASSUME NEW j \in Job, KeyReturned(j) PROVE Shape'
  <2>1. Return(job[j]) \in SoundJob
    BY <1>1, ReturnParts
  <2>2. job' \in [Job -> SoundJob]
    BY <1>5, <1>12, <2>1 DEF KeyReturned
  <2>3. QED
    BY <1>1, <1>2, <1>3, <1>4, <1>12, <2>2 DEF KeyReturned
<1>13. ASSUME NEW j \in Job, EndTransaction(j) PROVE Shape'
  <2>1. Return(job[j]) \in SoundJob /\ HomeOf(j) \in Adapter
    BY <1>1, ReturnParts
  <2>2. job' \in [Job -> SoundJob]
    BY <1>5, <1>13, <2>1 DEF EndTransaction
  <2>3. CASE Commits(HomeOf(j), {}) /\ UNCHANGED <<adapter, past>>
    BY <1>1, <1>2, <1>4, <1>13, <2>1, <2>2, <2>3, Committing DEF EndTransaction
  <2>4. CASE Undoes(j, HomeOf(j), {})
    <3>1. SoundBooks /\ adapter' \in [Adapter -> Flags] /\ past' \subseteq Troubles
      BY <2>1, <2>4, Undoing
    <3>2. QED
      BY <1>2, <1>13, <2>2, <3>1 DEF EndTransaction
  <2>5. QED
    BY <1>13, <2>3, <2>4 DEF EndTransaction
<1>14. ASSUME NEW j \in Job, TimesOut(j) PROVE Shape'
  <2>1. job' \in [Job -> SoundJob] /\ HomeOf(j) \in Adapter
    BY <1>1, <1>5, <1>14 DEF TimesOut, Fails
  <2>2. SoundBooks
    BY <1>3, <1>14, <2>1, CommittingFirst DEF TimesOut
  <2>3. past' \subseteq Troubles
    BY <1>14 DEF TimesOut, Shape, Troubles
  <2>4. QED
    BY <1>1, <1>2, <1>14, <2>1, <2>2, <2>3 DEF TimesOut, Fails
<1>15. ASSUME NEW j \in Job, Refused(j) PROVE Shape'
  <2> DEFINE mark == IF job[j].at = "hook" THEN "raised" ELSE "refused"
  <2>1. job' \in [Job -> SoundJob] /\ site' = site /\ HomeOf(j) \in Adapter /\ {mark} \subseteq Troubles
    BY <1>1, <1>5, <1>15 DEF Refused, Fails, Troubles
  <2>2. CASE /\ IF job[j].at = "hook" THEN Seeds(HomeOf(j)) ELSE UNCHANGED <<txn, seeded>>
             /\ past' = past \cup {mark} /\ UNCHANGED <<adapter, made>>
    <3>1. SoundBooks
      BY <1>3, <2>1, <2>2, Seeding
    <3>2. past' \subseteq Troubles
      BY <2>1, <2>2 DEF Shape
    <3>3. QED
      BY <1>1, <1>2, <2>1, <2>2, <3>1, <3>2
  <2>3. CASE Undoes(j, HomeOf(j), {mark})
    <3>1. {mark} \in SUBSET Troubles
      BY <2>1
    <3> HIDE DEF mark
    <3>2. SoundBooks /\ adapter' \in [Adapter -> Flags] /\ past' \subseteq Troubles
      BY <2>1, <2>3, <3>1, Undoing
    <3>3. QED
      BY <1>2, <2>1, <3>2
  <2>4. QED
    BY <1>15, <2>2, <2>3 DEF Refused
<1>16. ASSUME NEW t \in Task, NEW f \in Frames, CallMethod(t, f) PROVE Shape'
  <2>1. <<>> \in Seq(Frames) /\ Len(<<>>) <= MaxNested
    BY CreationAssumption
  <2>2. Enters(f, <<>>) \in SoundJob /\ t \in Job
    BY <2>1, EntersParts DEF Job
  <2>3. f \in Ends => [Idle EXCEPT !.at = f, !.frame = f] \in SoundJob
    BY <1>1 DEF SoundJob, JobRecord, Places, Frames, Ends, Idle
  <2>4. job' \in [Job -> SoundJob]
    BY <1>5, <1>16, <2>2, <2>3 DEF CallMethod
  <2>5. QED
    BY <1>1, <1>2, <1>3, <1>4, <1>16, <2>4 DEF CallMethod
<1>17. ASSUME NEW t \in Task, ReadPrimaryKey(t) PROVE Shape'
  <2>1. adapter' \in [Adapter -> Flags]
    BY <1>1, <1>17 DEF ReadPrimaryKey, Flags
  <2>2. QED
    BY <1>1, <1>2, <1>3, <1>4, <1>17, <2>1 DEF ReadPrimaryKey
<1>18. ASSUME NEW t \in Task, BeginTransaction(t) PROVE Shape'
  <2>1. site.home[t] \in Adapter
    BY <1>1, Homes
  <2>2. txn' \in [Adapter -> SoundTxn]
    BY <1>1, <1>18, <2>1, TxnParts DEF BeginTransaction
  <2>3. SoundBooks
    BY <1>18, <2>2 DEF BeginTransaction, SoundBooks, Shape
  <2>4. QED
    BY <1>1, <1>2, <1>4, <1>18, <2>3 DEF BeginTransaction
<1>19. ASSUME NEW a \in Adapter, Restart(a) PROVE Shape'
  <2>1. job' \in [Job -> SoundJob]
    BY <1>1, <1>19 DEF Restart
  <2>2. adapter' \in [Adapter -> Flags]
    BY <1>1, <1>19 DEF Restart, FreshAdapter, Sites, Flags
  <2>3. SoundBooks
    BY <1>1, <1>19, TxnParts DEF Restart, SoundBooks, Shape
  <2>4. past' \subseteq Troubles
    BY <1>19 DEF Restart, Shape, Troubles
  <2>5. QED
    BY <1>2, <1>19, <2>1, <2>2, <2>3, <2>4 DEF Restart
<1>20. CASE UNCHANGED creation
  BY <1>1, <1>2, <1>3, <1>4, <1>20 DEF creation
<1>21. QED
  BY <1>7, <1>8, <1>9, <1>10, <1>11, <1>12, <1>13, <1>14, <1>15, <1>16, <1>17, <1>18,
     <1>19, <1>20 DEF CreationNext, JobStep, Frames

LEMMA OneSite ==
  [CreationNext]_creation => site' = site
<1> USE DEF Fails, EndTransaction, Restart, ReadPrimaryKey, BeginTransaction, CallMethod
<1>1. ASSUME NEW j \in Job, JobStep(j) PROVE site' = site
  BY <1>1 DEF JobStep, DeferredInit, LookForTable, ExecuteDdl, RunHook, Operate,
              KeyReturned, TimesOut
<1>2. ASSUME NEW j \in Job, Refused(j) PROVE site' = site
  BY <1>2 DEF Refused
<1>3. QED
  BY <1>1, <1>2 DEF CreationNext, creation

(* The flags, the calls, the transactions and the catalog keep their shape. *)
THEOREM CreationTypeCorrect == CreationSpec => []CreationTypeOK
<1>1. CreationInit => Shape
  BY ShapeAtFirst
<1>2. Shape /\ [CreationNext]_creation => Shape'
  BY ShapeInductive
<1>3. Shape => CreationTypeOK
  <2> SUFFICES ASSUME Shape PROVE CreationTypeOK
    OBVIOUS
  <2>1. txn \in [Adapter -> [at : {"none", "begun", "written"}, made : SUBSET Things, seeds : Nat]]
    BY DEF Shape, SoundTxn
  <2>2. \A j \in Job :
          /\ job[j].at \in {"idle", "enter", "look", "ddl", "hook", "operate", "return"} \cup Ends
          /\ job[j].frame \in {"none", "create", "operate", "key"} \cup Ends
          /\ Len(job[j].waiting) <= MaxNested
    BY DEF Shape, SoundJob, JobRecord, Places, Frames
  <2>3. QED
    BY <2>1, <2>2 DEF Shape, CreationTypeOK, Flags, Troubles
<1>4. QED
  BY <1>1, <1>2, <1>3, PTL DEF CreationSpec

-----------------------------------------------------------------------------
(* What a step does to the creations, where an insert is none of them.      *)

Creating(r) == r.at \in {"ddl", "hook"}

Others(j) == \A k \in Job : k # j => job'[k] = job[k]

Keeps == UNCHANGED <<site, past>>

(* No creation takes part; a transaction may be committed.                  *)
Aside ==
  /\ Keeps
  /\ \A k \in Job : job'[k] = job[k] \/ (~ Creating(job[k]) /\ ~ Creating(job'[k]))
  /\ \/ SameBooks
     \/ \E j \in Job : job[j].at = "commit" /\ Runs(j) /\ Settled(HomeOf(j), {})

(* The transaction under j is rolled back, by j or at a fault of it.        *)
RollsBack(j) ==
  LET a == HomeOf(j) IN
  /\ Dropped(a) /\ site' = site /\ past \subseteq past'
  /\ Others(j) /\ job[j].at # "idle" /\ ~ Creating(job'[j])
  /\ job[j].at = "rollback" \/ past' \cap {"refused", "raised"} # {}
  /\ \A k \in Job : k # j /\ HomeOf(k) = a /\ Creating(job[k]) => "cut" \in past'
  /\ ~ adapter'[a].undone => txn[a].made = {} /\ txn[a].seeds = 0

Dies(a) ==
  /\ Restart(a) /\ Dropped(a) /\ site' = site /\ past \subseteq past' /\ "died" \in past'
  /\ \A k \in Job : job'[k] = IF HomeOf(k) = a THEN Idle ELSE job[k]

(* A statement is refused, and the transaction stays.                       *)
Stops(j) ==
  /\ job'[j] = Idle /\ Others(j) /\ SameBooks
  /\ site' = site /\ past' = past \cup {"refused"}

Looks(j) ==
  /\ job[j].at = "look" /\ "table" \notin Sees(HomeOf(j))
  /\ job'[j].at = "ddl" /\ job'[j].ddl \in Is.ddl[site.indexes]
  /\ Others(j) /\ SameBooks /\ Keeps

(* The next statement of j cannot succeed.                                  *)
Stuck(j) ==
  LET s == Head(job[j].ddl)
      a == HomeOf(j)
  IN  (s.strict /\ s.makes \cap Sees(a) # {}) \/ "table" \notin Sees(a) \cup s.makes

Sends(j) ==
  LET a == HomeOf(j) IN
  /\ job[j].at = "ddl" /\ ~ Stuck(j) /\ ~ Waits(j) /\ Runs(j)
  /\ IF JoinsTxn(a) THEN Joined(a, Head(job[j].ddl).makes)
     ELSE Settled(a, Head(job[j].ddl).makes)
  /\ job'[j].ddl = Tail(job[j].ddl)
  /\ job'[j].at = IF Tail(job[j].ddl) = <<>> THEN "hook" ELSE "ddl"
  /\ Others(j) /\ Keeps

(* The creation of j ends without its hook: a lost race, or a timeout.      *)
Loses(j) ==
  LET a == HomeOf(j) IN
  /\ Runs(j) /\ Others(j) /\ job'[j] = Idle /\ site' = site
  /\ SameBooks \/ (~ JoinsTxn(a) /\ Settled(a, {}))
  /\ \/ job[j].at = "ddl" /\ Stuck(j) /\ past' = past
     \/ Creating(job[j]) /\ Waits(j) /\ past' = past \cup {"timed out"}

Hooks(j) ==
  /\ job[j].at = "hook" /\ ~ Creating(job'[j]) /\ Sown(HomeOf(j)) /\ Others(j)
  /\ site' = site /\ past' \in {past, past \cup {"raised"}}

LEMMA StepKinds ==
  ASSUME Shape, [CreationNext]_creation, ~ Is.implicit
  PROVE  \/ Aside
         \/ \E j \in Job : \/ Looks(j) \/ Sends(j) \/ Loses(j) \/ Hooks(j)
                           \/ Stops(j) \/ RollsBack(j)
         \/ \E a \in Adapter : Dies(a)
<1>1. /\ job \in [Job -> SoundJob] /\ Idle.at = "idle" /\ Is.lazily = "calls"
      /\ \A t \in Task : t \in Job
      /\ \A j \in Job : HomeOf(j) \in Adapter
  <2>1. site.class \in DOMAIN AdapterClasses
    BY DEF Shape, Sites
  <2>2. QED
    BY <2>1, ClassFacts, IdleParts, Homes DEF Shape, Is, Job
<1>2. ASSUME NEW j \in Job, NEW r, Goes(j, r) PROVE job'[j] = r /\ Others(j)
  BY <1>1, <1>2 DEF Goes, Others
<1>3. UNCHANGED <<txn, made, seeded>> => SameBooks
  BY DEF SameBooks, Spares
<1>4. ASSUME NEW j \in Job, NEW r, Goes(j, r), ~ Creating(job[j]), ~ Creating(r),
             Keeps, SameBooks
      PROVE  Aside
  BY <1>2, <1>4 DEF Aside, Others
<1>5. \A r \in SoundJob : ~ Creating(Return(r))
  BY ReturnParts DEF Creating, Ends
<1>6. ~ Creating(Idle)
  BY <1>1 DEF Creating
<1>7. ASSUME NEW j \in Job, DeferredInit(j) PROVE Aside
  <2> DEFINE f == job[j].frame
             w == <<f>> \o job[j].waiting
             at == Body(f)
  <2>1. /\ f \in Frames /\ job[j] \in SoundJob /\ job[j].at = "enter"
        /\ job[j].waiting \in Seq(Frames)
    BY <1>1, <1>7 DEF DeferredInit, SoundJob, JobRecord
  <2>2. ~ Creating(job[j]) /\ job[j].at # "idle" /\ Keeps /\ SameBooks
    BY <1>3, <1>7, <2>1 DEF Creating, DeferredInit, Keeps
  <2>3. CASE Goes(j, Enters("create", w))
    <3>1. Enters("create", w).at = "enter"
      BY IdleParts DEF Enters, Idle
    <3>2. ~ Creating(Enters("create", w))
      BY <3>1 DEF Creating
    <3>3. QED
      BY <1>4, <2>2, <2>3, <3>2
  <2>4. CASE Goes(j, [job[j] EXCEPT !.at = at])
    <3>1. at \in Places \ {"ddl"} /\ at \notin {"ddl", "hook"}
      BY <2>1, BodyParts DEF Places, Ends
    <3> HIDE DEF at
    <3>2. [job[j] EXCEPT !.at = at].at = at
      BY <2>1, <2>2, <3>1, GoesOn
    <3>3. ~ Creating([job[j] EXCEPT !.at = at])
      BY <3>1, <3>2 DEF Creating
    <3>4. QED
      BY <1>4, <2>2, <2>4, <3>3
  <2>5. QED
    BY <1>1, <1>7, <2>3, <2>4 DEF DeferredInit
<1>8. ASSUME NEW j \in Job, LookForTable(j) PROVE Aside \/ Looks(j)
  <2>1. /\ job[j] \in SoundJob /\ ~ Creating(job[j]) /\ job[j].at = "look"
        /\ Keeps /\ SameBooks
    BY <1>1, <1>3, <1>8 DEF LookForTable, Creating, Keeps
  <2>2. CASE Goes(j, Return(job[j]))
    BY <1>4, <1>5, <2>1, <2>2
  <2>3. ASSUME NEW d \in Is.ddl[site.indexes], "table" \notin Sees(HomeOf(j)),
               Goes(j, [job[j] EXCEPT !.at = "ddl", !.ddl = d])
        PROVE  Looks(j)
    <3>1. d \in Seq(Statements) /\ d # <<>>
      BY <2>3, OnePlan DEF Orderly, Shape
    <3> DEFINE e == [job[j] EXCEPT !.at = "ddl", !.ddl = d]
    <3>2. e.at = "ddl" /\ e.ddl = d /\ Goes(j, e)
      BY <2>1, <2>3, <3>1, StartParts
    <3> HIDE DEF e
    <3>3. job'[j].at = "ddl" /\ job'[j].ddl = d /\ Others(j)
      BY <1>2, <3>2
    <3>4. QED
      BY <2>1, <2>3, <3>3 DEF Looks
  <2>4. QED
    BY <1>8, <2>2, <2>3 DEF LookForTable
<1>9. ASSUME NEW j \in Job, ExecuteDdl(j), Runs(j) PROVE Loses(j) \/ Sends(j)
  <2> DEFINE a == HomeOf(j)
             s == Head(job[j].ddl)
             rest == Tail(job[j].ddl)
             e == [job[j] EXCEPT !.ddl = rest, !.at = IF rest = <<>> THEN "hook" ELSE "ddl"]
  <2>1. /\ job[j] \in SoundJob /\ job[j].at = "ddl" /\ a \in Adapter /\ ~ Waits(j)
        /\ Keeps /\ s \in Statements /\ s.makes \subseteq Things
    BY <1>1, <1>9, SentParts DEF ExecuteDdl, Fails, Keeps, Statements
  <2>2. CASE Stuck(j)
    <3>1. Fails(j) /\ CommitsFirst(a)
      BY <1>9, <2>2 DEF ExecuteDdl, Stuck
    <3>2. SameBooks \/ (~ JoinsTxn(a) /\ Settled(a, {}))
      BY <2>1, <3>1, CommittingFirst
    <3>3. QED
      BY <1>2, <1>9, <2>1, <2>2, <3>1, <3>2 DEF Fails, Keeps, Loses
  <2>3. CASE ~ Stuck(j)
    <3>1. /\ Goes(j, e)
          /\ IF JoinsTxn(a)
             THEN /\ txn' = [txn EXCEPT ![a].made = @ \cup (s.makes \ made),
                                        ![a].at = IF s.makes \subseteq Sees(a) THEN @
                                                  ELSE "written"]
                  /\ UNCHANGED <<made, seeded>>
             ELSE Commits(a, s.makes)
      BY <1>9, <2>3 DEF ExecuteDdl, Stuck
    <3>2. e.ddl = rest /\ e.at = IF rest = <<>> THEN "hook" ELSE "ddl"
      BY <2>1, SentParts
    <3> HIDE DEF e, a, s
    <3>3. job'[j] = e /\ Others(j)
      BY <1>2, <3>1
    <3>4. IF JoinsTxn(a) THEN Joined(a, s.makes) ELSE Settled(a, s.makes)
      BY <2>1, <3>1, Joining, Committing
    <3>5. QED
      BY <1>9, <2>1, <2>3, <3>2, <3>3, <3>4 DEF Sends, a, s
  <2>4. QED
    BY <2>2, <2>3
<1>10. ASSUME NEW j \in Job, RunHook(j) PROVE Hooks(j)
  <2>1. /\ job[j] \in SoundJob /\ job'[j] = Return(job[j]) /\ Others(j)
        /\ Sown(HomeOf(j))
    BY <1>1, <1>2, <1>10, Seeding DEF RunHook
  <2>2. QED
    BY <1>5, <1>10, <2>1 DEF RunHook, Hooks
<1>11. ASSUME NEW j \in Job, Operate(j) \/ KeyReturned(j) PROVE Aside
  <2>1. job[j] \in SoundJob /\ ~ Creating(job[j])
    BY <1>1, <1>11 DEF Operate, KeyReturned, Creating
  <2>2. Keeps /\ UNCHANGED <<made, seeded>>
    BY <1>11 DEF Operate, KeyReturned, Keeps
  <2>3. \/ UNCHANGED txn
        \/ txn' = [txn EXCEPT ![HomeOf(j)].at = "written"]
    BY <1>11 DEF Operate, KeyReturned
  <2>4. SameBooks
    BY <2>2, <2>3, TxnParts DEF SameBooks, Spares, Shape
  <2>5. Goes(j, Return(job[j])) \/ Goes(j, Idle)
    BY <1>11 DEF Operate, KeyReturned
  <2>6. QED
    BY <1>4, <1>5, <1>6, <2>1, <2>2, <2>4, <2>5
<1>12. ASSUME NEW j \in Job, EndTransaction(j), Runs(j) PROVE Aside \/ RollsBack(j)
  <2>1. /\ job[j] \in SoundJob /\ job'[j] = Return(job[j]) /\ Others(j)
        /\ HomeOf(j) \in Adapter /\ site' = site
    BY <1>1, <1>2, <1>12 DEF EndTransaction
  <2>2. CASE job[j].at = "commit" /\ Commits(HomeOf(j), {}) /\ UNCHANGED <<adapter, past>>
    <3>1. Settled(HomeOf(j), {})
      BY <2>1, <2>2, Committing
    <3>2. Keeps /\ ~ Creating(job[j])
      BY <2>1, <2>2 DEF Keeps, Creating
    <3>3. QED
      BY <1>5, <1>12, <2>1, <2>2, <3>1, <3>2 DEF Aside, Others
  <2>3. CASE job[j].at = "rollback" /\ Undoes(j, HomeOf(j), {})
    <3>1. /\ Dropped(HomeOf(j)) /\ past \subseteq past'
          /\ ~ adapter'[HomeOf(j)].undone => txn[HomeOf(j)].made = {} /\ txn[HomeOf(j)].seeds = 0
          /\ \A k \in Job : k # j /\ HomeOf(k) = HomeOf(j) /\ job[k].at \in {"ddl", "hook"} =>
               "cut" \in past'
      BY <2>1, <2>3, Undoing
    <3>2. QED
      BY <1>5, <2>1, <2>3, <3>1 DEF RollsBack, Creating
  <2>4. QED
    BY <1>12, <2>2, <2>3 DEF EndTransaction
<1>13. ASSUME NEW j \in Job, TimesOut(j), Runs(j) PROVE Aside \/ Loses(j)
  <2>1. /\ job'[j] = Idle /\ Others(j) /\ site' = site /\ HomeOf(j) \in Adapter
        /\ job[j].at \in {"ddl", "hook", "operate"}
    BY <1>1, <1>2, <1>13 DEF TimesOut, Fails, Waits
  <2>2. CASE job[j].at = "operate"
    <3>1. SameBooks /\ Keeps
      BY <1>3, <1>13, <2>1, <2>2 DEF TimesOut, Keeps
    <3>2. ~ Creating(job[j])
      BY <2>2 DEF Creating
    <3>3. QED
      BY <1>4, <1>6, <1>13, <3>1, <3>2 DEF TimesOut, Fails
  <2>3. CASE job[j].at # "operate"
    <3>1. past' = past \cup {"timed out"} /\ Creating(job[j]) /\ Waits(j)
      BY <1>13, <2>1, <2>3 DEF TimesOut, Creating
    <3>2. SameBooks \/ (~ JoinsTxn(HomeOf(j)) /\ Settled(HomeOf(j), {}))
      BY <1>3, <1>13, <2>1, CommittingFirst DEF TimesOut
    <3>3. QED
      BY <1>13, <2>1, <3>1, <3>2 DEF Loses
  <2>4. QED
    BY <2>2, <2>3
<1>14. ASSUME NEW j \in Job, Refused(j) PROVE Stops(j) \/ Hooks(j) \/ RollsBack(j)
  <2> DEFINE mark == IF job[j].at = "hook" THEN "raised" ELSE "refused"
  <2>1. /\ job'[j] = Idle /\ Others(j) /\ site' = site /\ HomeOf(j) \in Adapter
        /\ job[j].at \in {"look", "ddl", "hook"}
        /\ {mark} \in SUBSET Troubles /\ mark \in {"refused", "raised"}
    BY <1>1, <1>2, <1>14 DEF Refused, Fails, Troubles
  <2>2. CASE /\ IF job[j].at = "hook" THEN Seeds(HomeOf(j)) ELSE UNCHANGED <<txn, seeded>>
             /\ past' = past \cup {mark} /\ UNCHANGED <<adapter, made>>
    <3>1. CASE job[j].at = "hook"
      BY <1>6, <2>1, <2>2, <3>1, Seeding DEF Hooks
    <3>2. CASE job[j].at # "hook"
      BY <1>3, <2>1, <2>2, <3>2 DEF Stops
    <3>3. QED
      BY <3>1, <3>2
  <2>3. CASE Undoes(j, HomeOf(j), {mark})
    <3> HIDE DEF mark
    <3>1. /\ Dropped(HomeOf(j)) /\ past \subseteq past' /\ {mark} \subseteq past'
          /\ ~ adapter'[HomeOf(j)].undone => txn[HomeOf(j)].made = {} /\ txn[HomeOf(j)].seeds = 0
          /\ \A k \in Job : k # j /\ HomeOf(k) = HomeOf(j) /\ job[k].at \in {"ddl", "hook"} =>
               "cut" \in past'
      BY <2>1, <2>3, Undoing
    <3>2. past' \cap {"refused", "raised"} # {}
      BY <2>1, <3>1
    <3>3. QED
      BY <1>6, <2>1, <3>1, <3>2 DEF RollsBack, Creating
  <2>4. QED
    BY <1>14, <2>2, <2>3 DEF Refused
<1>15. ASSUME NEW t \in Task, NEW f \in Frames, CallMethod(t, f) PROVE Aside
  <2>1. Enters(f, <<>>).at = "enter" /\ [Idle EXCEPT !.at = f, !.frame = f].at = f
    BY DEF Enters, Idle
  <2>2. /\ ~ Creating(job[t]) /\ ~ Creating(Enters(f, <<>>))
        /\ f \in Ends => ~ Creating([Idle EXCEPT !.at = f, !.frame = f])
    BY <1>1, <1>15, <2>1 DEF CallMethod, Creating, Ends
  <2>3. Keeps /\ SameBooks
    BY <1>3, <1>15 DEF CallMethod, Keeps
  <2>4. \/ Goes(t, Enters(f, <<>>))
        \/ f \in Ends /\ Goes(t, [Idle EXCEPT !.at = f, !.frame = f])
    BY <1>15 DEF CallMethod
  <2>5. QED
    BY <1>1, <1>4, <2>2, <2>3, <2>4
<1>16. ASSUME NEW t \in Task, BeginTransaction(t) PROVE Aside
  <2>1. Keeps /\ UNCHANGED <<job, made, seeded>>
    BY <1>16 DEF BeginTransaction, Keeps
  <2>2. SameBooks
    BY <1>16, <2>1, TxnParts DEF BeginTransaction, SameBooks, Spares, Shape
  <2>3. QED
    BY <2>1, <2>2 DEF Aside
<1>17. CASE UNCHANGED creation \/ \E t \in Task : ReadPrimaryKey(t)
  BY <1>3, <1>17 DEF creation, ReadPrimaryKey, Aside, Keeps
<1>18. ASSUME NEW a \in Adapter, Restart(a) PROVE Dies(a)
  <2>1. Dropped(a)
    BY <1>18, TxnParts DEF Restart, Dropped, Spares, Shape
  <2>2. QED
    BY <1>18, <2>1 DEF Restart, Dies
<1>19. QED
  BY <1>7, <1>8, <1>9, <1>10, <1>11, <1>12, <1>13, <1>14, <1>15, <1>16, <1>17, <1>18
     DEF CreationNext, JobStep, Frames

-----------------------------------------------------------------------------
(* What the connections see after a step. *)

LEMMA SeesAfter ==
  ASSUME NEW a \in Adapter
  PROVE  /\ SameBooks => \A b \in Adapter : Sees(b)' = Sees(b)
         /\ \A things : Settled(a, things) =>
              /\ Sees(a)' = Sees(a) \cup things
              /\ \A b \in Adapter : Sees(b) \subseteq Sees(b)'
         /\ \A things : Joined(a, things) =>
              /\ Sees(a)' = Sees(a) \cup things
              /\ \A b \in Adapter \ {a} : Sees(b)' = Sees(b)
         /\ Dropped(a) =>
              /\ \A b \in Adapter \ {a} : Sees(b)' = Sees(b)
              /\ \A b \in Adapter : Sees(b)' \subseteq Sees(b)
         /\ Sown(a) => \A b \in Adapter : Sees(b)' = Sees(b)
<1>1. SameBooks => \A b \in Adapter : Sees(b)' = Sees(b)
  BY DEF SameBooks, Spares, Sees
<1>2. ASSUME NEW things, Settled(a, things)
      PROVE  /\ Sees(a)' = Sees(a) \cup things
             /\ \A b \in Adapter : Sees(b) \subseteq Sees(b)'
  BY <1>2 DEF Settled, Spares, Sees
<1>3. ASSUME NEW things, Joined(a, things)
      PROVE  /\ Sees(a)' = Sees(a) \cup things
             /\ \A b \in Adapter \ {a} : Sees(b)' = Sees(b)
  BY <1>3 DEF Joined, Spares, Sees
<1>4. ASSUME Dropped(a)
      PROVE  /\ \A b \in Adapter \ {a} : Sees(b)' = Sees(b)
             /\ \A b \in Adapter : Sees(b)' \subseteq Sees(b)
  BY <1>4 DEF Dropped, Spares, Sees
<1>5. Sown(a) => \A b \in Adapter : Sees(b)' = Sees(b)
  BY DEF Sown, Sees
<1>6. QED
  BY <1>1, <1>2, <1>3, <1>4, <1>5

(* What one connection has made, another one that wants to make it waits for.*)
LEMMA HeldBack ==
  ASSUME Shape, NEW a \in Adapter, NEW b \in Adapter, b # a, NEW x, x \in txn[b].made
  PROVE  x \in HeldFrom(a)
<1>1. /\ txn[b] \in SoundTxn /\ x \in Things
  BY DEF Shape, SoundTxn
<1>2. Is.takes = "all" \/ (Is.takes = "open" /\ Written(b))
  BY <1>1 DEF SoundTxn, Written
<1>3. x \in HeldBy(b)
  BY <1>1, <1>2 DEF HeldBy
<1>4. QED
  BY <1>3 DEF HeldFrom

-----------------------------------------------------------------------------
(* The rows of the hook are there once. *)

OnceSite ==
  \/ site.class \in {"mssql", "asyncMssql"}
  \/ site.class \in {"sqlite", "mysql", "asyncSqlite", "asyncMysql"} /\ site.indexes # <<>>
  \/ site.class = "asyncSqlite" /\ Shared(site)

(* Without an index, on a shared adapter of SQLite's asynchronous class, it *)
(* is the loop and no statement that lets one creation through.             *)
Single ==
  site.class = "asyncSqlite" /\ Shared(site) /\ site.indexes = <<>>

(* What one creation alone gets to make.                                    *)
Gate ==
  IF site.class \in {"mssql", "asyncMssql"} \/ site.indexes = <<>> THEN "table"
  ELSE site.indexes[1]

Guards(s) == Gate \in s.makes /\ (s.strict \/ Single)

(* The creation of j is past the statement that makes the gate.             *)
Passed(j) ==
  \/ job[j].at = "hook"
  \/ job[j].at = "ddl" /\ \A i \in 1..Len(job[j].ddl) : ~ Guards(job[j].ddl[i])

Inside(j) == job[j].at \in {"enter", "look", "ddl"}

OneInside == \A j, k \in Job : Inside(j) /\ Inside(k) => j = k

Unclaimed == seeded = 0 /\ \A a \in Adapter : txn[a].seeds = 0

(* The hook's rows are in one place at most, and whoever finds them there   *)
(* finds the gate.                                                          *)
Claims ==
  /\ seeded <= 1 /\ \A a \in Adapter : seeded + txn[a].seeds <= 1
  /\ \A a, b \in Adapter : txn[a].seeds > 0 /\ txn[b].seeds > 0 => a = b
  /\ seeded > 0 => Gate \in made
  /\ \A a \in Adapter : txn[a].seeds > 0 => Gate \in Sees(a)

(* The one creation that is past the gate has it, and no hook has run.      *)
OnceInv ==
  /\ Claims
  /\ \A j \in Job : Passed(j) => Gate \in Sees(HomeOf(j)) /\ Unclaimed
  /\ \A j, k \in Job : Passed(j) /\ Passed(k) => j = k
  /\ Single => /\ OneInside
               /\ \A j \in Job : job[j].at = "ddl" =>
                    Gate \notin Sees(HomeOf(j)) /\ Len(job[j].ddl) = 1

(* One of a creation's statements makes the gate, and lets one through.     *)
LEMMA GateFacts ==
  ASSUME site \in Sites, OnceSite
  PROVE  /\ ~ Is.implicit
         /\ \A d \in Is.ddl[site.indexes] :
              /\ d \in Seq(Statements) /\ \E i \in 1..Len(d) : Guards(d[i])
              /\ Single => Len(d) = 1
         /\ Single => Gate = "table" /\ Is.whole
<1> DEFINE ix == site.indexes
<1>1. site.class \in DOMAIN AdapterClasses /\ ix \in IndexLists
  BY DEF Sites
<1>2. CASE site.class \in {"mssql", "asyncMssql"}
  <2>1. ~ Is.implicit /\ Is.ddl[ix] = {MssqlDdl(ix)} /\ Gate = "table" /\ ~ Single
    BY <1>1, <1>2, ClassFacts DEF Is, Gate, Single
  <2> DEFINE d == MssqlDdl(ix)
  <2>2. Orderly(d) /\ d[1].strict /\ d[1].makes = {"table"}
    BY ListsAreOrderly
  <2> HIDE DEF d
  <2>3. d \in Seq(Statements) /\ 1 \in 1..Len(d)
    BY <2>2 DEF Orderly
  <2>4. Guards(d[1])
    BY <2>1, <2>2 DEF Guards
  <2>5. QED
    BY <2>1, <2>3, <2>4 DEF d
<1>3. CASE site.class \in {"sqlite", "mysql", "asyncSqlite", "asyncMysql"}
  <2>1. ~ Is.implicit /\ Is.ddl[ix] = {SqliteDdl(ix)}
    BY <1>1, <1>3, ClassFacts DEF Is
  <2> DEFINE d == SqliteDdl(ix)
  <2>2. /\ Orderly(d) /\ d[1].makes = {"table"}
        /\ ix = <<>> => Len(d) = 1
        /\ ix # <<>> => Len(d) > 1 /\ d[2].strict /\ d[2].makes = {ix[1]}
    BY ListsAreOrderly
  <2> HIDE DEF d
  <2>3. /\ d \in Seq(Statements) /\ 1 \in 1..Len(d)
        /\ ix # <<>> => 2 \in 1..Len(d)
    BY <2>2 DEF Orderly
  <2>4. CASE ix = <<>>
    <3>1. Single /\ Gate = "table"
      BY <1>3, <2>4 DEF OnceSite, Single, Gate
    <3>2. Guards(d[1])
      BY <2>2, <3>1 DEF Guards
    <3>3. Is.whole
      BY <1>1, <3>1, ClassFacts DEF Single, Is
    <3>4. QED
      BY <2>1, <2>2, <2>3, <2>4, <3>1, <3>2, <3>3 DEF d
  <2>5. CASE ix # <<>>
    <3>1. ~ Single /\ Gate = ix[1]
      BY <1>3, <2>5 DEF Single, Gate
    <3>2. Guards(d[2])
      BY <2>2, <2>5, <3>1 DEF Guards
    <3>3. QED
      BY <2>1, <2>3, <2>5, <3>1, <3>2 DEF d
  <2>6. QED
    BY <2>4, <2>5
<1>4. QED
  BY <1>2, <1>3 DEF OnceSite


(* Of the coroutines of a loop one is between its start and its hook.       *)
LEMMA InsideOneByOne ==
  ASSUME Shape, [CreationNext]_creation, Is.whole, Shared(site), ~ Is.implicit, OneInside
  PROVE  OneInside'
<1>1. /\ job \in [Job -> SoundJob] /\ Idle.at = "idle" /\ Is.lazily = "calls"
      /\ \A t \in Task : t \in Job
  <2>1. site.class \in DOMAIN AdapterClasses
    BY DEF Shape, Sites
  <2>2. QED
    BY <2>1, ClassFacts, IdleParts DEF Shape, Is, Job
<1>2. ASSUME NEW j \in Job, Runs(j), \E r : Goes(j, r) PROVE OneInside'
  <2>1. \A k \in Job : k # j => job'[k] = job[k] /\ ~ Inside(k)
    BY <1>1, <1>2 DEF Goes, Runs, Inside
  <2>2. QED
    BY <2>1 DEF OneInside, Inside
<1>3. ASSUME \A k \in Job : job'[k] = job[k] \/ job'[k] = Idle PROVE OneInside'
  BY <1>1, <1>3 DEF OneInside, Inside
<1>4. ASSUME NEW j \in Job, JobStep(j) PROVE OneInside'
  <2>1. \E r : Goes(j, r)
    BY <1>1, <1>4 DEF JobStep, DeferredInit, LookForTable, ExecuteDdl, Fails, RunHook,
                      Operate, KeyReturned, EndTransaction, TimesOut
  <2>2. QED
    BY <1>2, <1>4, <2>1 DEF JobStep
<1>5. ASSUME NEW j \in Job, Refused(j) PROVE OneInside'
  BY <1>1, <1>3, <1>5 DEF Refused, Fails, Goes
<1>6. ASSUME NEW t \in Task, NEW f \in Frames, CallMethod(t, f) PROVE OneInside'
  <2>1. \E r : Goes(t, r)
    BY <1>6 DEF CallMethod
  <2>2. QED
    BY <1>1, <1>2, <1>6, <2>1 DEF CallMethod
<1>7. ASSUME NEW a \in Adapter, Restart(a) PROVE OneInside'
  BY <1>3, <1>7 DEF Restart
<1>8. CASE UNCHANGED creation \/ \E t \in Task : ReadPrimaryKey(t) \/ BeginTransaction(t)
  BY <1>3, <1>8 DEF creation, ReadPrimaryKey, BeginTransaction
<1>9. QED
  BY <1>4, <1>5, <1>6, <1>7, <1>8 DEF CreationNext, Frames

(* The head of a list and the rest of it.                                   *)
LEMMA HeadOrTail ==
  ASSUME NEW s \in Seq(Statements), s # <<>>
  PROVE  /\ Head(s) = s[1] /\ Tail(s) \in Seq(Statements) /\ Len(Tail(s)) = Len(s) - 1
         /\ 1 \in 1..Len(s)
         /\ \A i \in 1..Len(s) : i # 1 => i - 1 \in 1..Len(Tail(s)) /\ s[i] = Tail(s)[i - 1]
         /\ \A i \in 1..Len(Tail(s)) : i + 1 \in 1..Len(s) /\ Tail(s)[i] = s[i + 1]
  OBVIOUS

(* Which creations have passed changes with the calls alone.                *)
LEMMA PassedStays ==
  ASSUME site' = site
  PROVE  /\ Gate' = Gate /\ Single' = Single
         /\ \A k \in Job : job'[k] = job[k] => Passed(k)' = Passed(k)
         /\ \A k \in Job : ~ Creating(job'[k]) => ~ Passed(k)'
<1>1. Gate' = Gate /\ Single' = Single
  BY DEF Gate, Single, Shared, Together
<1>2. ASSUME NEW s PROVE Guards(s)' = Guards(s)
  BY <1>1 DEF Guards
<1>3. ASSUME NEW k \in Job, job'[k] = job[k] PROVE Passed(k)' = Passed(k)
  BY <1>2, <1>3 DEF Passed
<1>4. ASSUME NEW k \in Job, ~ Creating(job'[k]) PROVE ~ Passed(k)'
  BY <1>4 DEF Passed, Creating
<1>5. QED
  BY <1>1, <1>3, <1>4

(* The creation that passes is the first to make the gate.                  *)

LEMMA ClaimsStay ==
  ASSUME Shape, Claims, site' = site, NEW a \in Adapter, NEW things,
         SameBooks \/ Settled(a, things) \/ Joined(a, things) \/ Dropped(a)
  PROVE  Claims' /\ (Unclaimed => Unclaimed')
<1>1. /\ seeded \in Nat /\ \A b \in Adapter : txn[b].seeds \in Nat
  BY DEF Shape, SoundTxn
<1>2. Gate' = Gate
  BY DEF Gate
<1>3. CASE SameBooks
  BY <1>1, <1>2, <1>3, SeesAfter DEF SameBooks, Spares, Claims, Unclaimed
<1>4. CASE Joined(a, things)
  <2>1. /\ UNCHANGED <<made, seeded>> /\ \A b \in Adapter : txn'[b].seeds = txn[b].seeds
    BY <1>4 DEF Joined, Spares
  <2>2. \A b \in Adapter : Sees(b) \subseteq Sees(b)'
    BY <1>4, SeesAfter
  <2>3. QED
    BY <1>1, <1>2, <2>1, <2>2 DEF Claims, Unclaimed
<1>5. CASE Dropped(a)
  <2>1. /\ UNCHANGED <<made, seeded>> /\ txn'[a].seeds = 0
        /\ \A b \in Adapter \ {a} : txn'[b].seeds = txn[b].seeds /\ Sees(b)' = Sees(b)
    BY <1>5, SeesAfter DEF Dropped, Spares
  <2>2. \A b \in Adapter : txn'[b].seeds > 0 => b # a /\ txn[b].seeds > 0
    BY <2>1
  <2>3. \A b \in Adapter : seeded' + txn'[b].seeds <= 1
    BY <1>1, <2>1 DEF Claims
  <2>4. QED
    BY <1>1, <1>2, <2>1, <2>2, <2>3 DEF Claims, Unclaimed
<1>6. CASE Settled(a, things)
  <2>1. /\ seeded' = seeded + txn[a].seeds /\ txn'[a].seeds = 0
        /\ \A b \in Adapter \ {a} : txn'[b].seeds = txn[b].seeds
        /\ \A b \in Adapter : Sees(b) \subseteq Sees(b)'
        /\ made \subseteq made' /\ Sees(a) \subseteq made'
    BY <1>6, SeesAfter DEF Settled, Spares, Sees
  <2>2. \A b \in Adapter : txn'[b].seeds > 0 => b # a /\ txn[b].seeds > 0
    BY <2>1
  <2>3. seeded' <= 1 /\ \A b \in Adapter : seeded' + txn'[b].seeds <= 1
    <3>1. seeded' <= 1
      BY <2>1 DEF Claims
    <3>2. ASSUME NEW b \in Adapter, b # a PROVE seeded' + txn'[b].seeds <= 1
      <4>1. ~ (txn[a].seeds > 0 /\ txn[b].seeds > 0)
        BY <3>2 DEF Claims
      <4>2. seeded + txn[a].seeds <= 1 /\ seeded + txn[b].seeds <= 1
        BY DEF Claims
      <4>3. QED
        BY <1>1, <2>1, <3>2, <4>1, <4>2
    <3>3. QED
      BY <1>1, <2>1, <3>1, <3>2
  <2>4. seeded' > 0 => Gate \in made'
    <3>1. seeded' > 0 => seeded > 0 \/ txn[a].seeds > 0
      BY <1>1, <2>1
    <3>2. QED
      BY <2>1, <3>1 DEF Claims
  <2>5. Unclaimed => Unclaimed'
    BY <2>1 DEF Unclaimed
  <2>6. \A b \in Adapter : txn'[b].seeds > 0 => Gate \in Sees(b)'
    BY <2>1, <2>2 DEF Claims
  <2>7. QED
    BY <1>2, <2>2, <2>3, <2>4, <2>5, <2>6 DEF Claims
<1>7. QED
  BY <1>3, <1>4, <1>5, <1>6

(* The creation that passes is the first to make the gate: whoever has made *)
(* it before keeps it from the others.                                      *)
LEMMA FirstPasses ==
  ASSUME Shape, OnceInv, NEW j \in Job, Sends(j), Passed(j)'
  PROVE  /\ Passed(j) \/ (Unclaimed /\ \A k \in Job : ~ Passed(k))
         /\ Gate \in Sees(HomeOf(j))'
<1> DEFINE a == HomeOf(j)
           d == job[j].ddl
           rest == Tail(d)
<1>1. /\ job[j].at = "ddl" /\ d \in Seq(Statements) /\ d # <<>> /\ site' = site
      /\ \A k \in Job : HomeOf(k) \in Adapter
  BY Homes DEF Shape, SoundJob, JobRecord, Sends, Keeps
<1>2. /\ Head(d) = d[1] /\ rest \in Seq(Statements) /\ 1 \in 1..Len(d)
      /\ \A i \in 1..Len(d) : i # 1 => i - 1 \in 1..Len(rest) /\ d[i] = rest[i - 1]
  BY <1>1, HeadOrTail
<1>3. Gate' = Gate /\ \A s : Guards(s)' = Guards(s)
  <2>1. Gate' = Gate /\ Single' = Single
    BY <1>1, PassedStays
  <2>2. QED
    BY <2>1 DEF Guards
<1>4. /\ job'[j].ddl = rest /\ job'[j].at = IF rest = <<>> THEN "hook" ELSE "ddl"
      /\ d[1].strict => d[1].makes \cap Sees(a) = {}
      /\ ~ Waits(j)
  BY <1>2 DEF Sends, Stuck
<1>5. Sees(a)' = Sees(a) \cup d[1].makes
  <2>1. HomeOf(j)' = HomeOf(j)
    BY <1>1 DEF HomeOf
  <2>2. Joined(a, d[1].makes) \/ Settled(a, d[1].makes)
    BY <1>2 DEF Sends
  <2> HIDE DEF d
  <2>3. QED
    BY <1>1, <2>1, <2>2, SeesAfter
<1> HIDE DEF d, rest
<1>6. \A i \in 1..Len(rest) : ~ Guards(rest[i])
  <2>1. rest = <<>> => Len(rest) = 0
    BY <1>2
  <2>2. QED
    BY <1>3, <1>4, <2>1 DEF Passed
<1>7. CASE Passed(j)
  BY <1>3, <1>5, <1>7 DEF OnceInv
<1>8. CASE ~ Passed(j)
  <2>1. PICK i \in 1..Len(d) : Guards(d[i])
    BY <1>1, <1>8 DEF Passed, d
  <2>2. Gate \in d[1].makes /\ (d[1].strict \/ Single)
    BY <1>2, <1>6, <2>1 DEF Guards
  <2>3. Gate \notin Sees(a)
    BY <1>1, <1>4, <2>2 DEF OnceInv
  <2>4. ASSUME NEW b \in Adapter PROVE Gate \notin Sees(b)
    <3>1. SUFFICES ASSUME Gate \in Sees(b) PROVE FALSE
      OBVIOUS
    <3>2. b # a /\ Gate \in txn[b].made
      BY <2>3, <3>1 DEF Sees
    <3>3. Gate \in HeldFrom(a)
      BY <1>1, <3>2, HeldBack
    <3>4. Head(job[j].ddl).makes = d[1].makes
      BY <1>2 DEF d
    <3>5. Waits(j)
      BY <1>1, <2>2, <2>3, <3>3, <3>4 DEF Waits
    <3>6. QED
      BY <1>4, <3>5
  <2>5. \A k \in Job : ~ Passed(k)
    BY <1>1, <2>4 DEF OnceInv
  <2>6. Unclaimed
    <3>1. /\ seeded \in Nat /\ \A b \in Adapter : txn[b].seeds \in Nat
      BY DEF Shape, SoundTxn
    <3>2. Gate \notin made
      BY <2>3 DEF Sees
    <3>3. QED
      BY <2>4, <3>1, <3>2 DEF OnceInv, Claims, Unclaimed
  <2>7. QED
    BY <1>3, <1>5, <2>2, <2>5, <2>6
<1>9. QED
  BY <1>7, <1>8

LEMMA OnceInductive ==
  ASSUME OnceSite, Shape, OnceInv, [CreationNext]_creation, "cut" \notin past'
  PROVE  OnceInv'
<1>1. /\ site \in Sites /\ job \in [Job -> SoundJob] /\ Idle.at = "idle" /\ ~ Creating(Idle)
      /\ \A j \in Job : HomeOf(j) \in Adapter
  BY IdleParts, Homes DEF Shape, Creating
<1>2. /\ ~ Is.implicit
      /\ \A d \in Is.ddl[site.indexes] :
           /\ d \in Seq(Statements) /\ \E i \in 1..Len(d) : Guards(d[i])
           /\ Single => Len(d) = 1
      /\ Single => Gate = "table" /\ Is.whole /\ Shared(site)
  BY <1>1, GateFacts DEF Single
<1>3. Single => OneInside'
  BY <1>2, InsideOneByOne DEF OnceInv
<1>4. \/ Aside
      \/ \E j \in Job : \/ Looks(j) \/ Sends(j) \/ Loses(j) \/ Hooks(j)
                        \/ Stops(j) \/ RollsBack(j)
      \/ \E a \in Adapter : Dies(a)
  BY <1>2, StepKinds
<1>5. site' = site /\ \A j \in Job : HomeOf(j)' = HomeOf(j)
  BY OneSite DEF HomeOf
<1>6. /\ Gate' = Gate /\ Single' = Single
      /\ \A k \in Job : job'[k] = job[k] => Passed(k)' = Passed(k)
      /\ \A k \in Job : ~ Creating(job'[k]) => ~ Passed(k)'
  BY <1>5, PassedStays
(* Where the loop lets one through, none moves while another one creates.   *)
<1>7. ASSUME Single, NEW j \in Job, Runs(j), NEW k \in Job, job[k].at = "ddl" PROVE k = j
  BY <1>2, <1>7 DEF Runs
(* No creation passes that had not, and who has passed keeps the gate.      *)
<1>8. ASSUME NEW a \in Adapter,
             \/ SameBooks
             \/ Settled(a, {}) /\ (Single => \A k \in Job : job'[k].at # "ddl")
             \/ Dropped(a) /\ \A k \in Job : HomeOf(k) = a => ~ Creating(job'[k]),
             \A k \in Job : job'[k] = job[k] \/ ~ Creating(job'[k])
      PROVE  OnceInv'
  <2>1. \A k \in Job : Passed(k)' => Passed(k)
    BY <1>6, <1>8
  <2>2. \A k \in Job : job'[k].at = "ddl" => job'[k] = job[k]
    BY <1>8 DEF Creating
  <2>3. Claims' /\ (Unclaimed => Unclaimed')
    BY <1>5, <1>8, ClaimsStay DEF OnceInv
  <2>4. ASSUME NEW k \in Job, Passed(k)' PROVE Gate \in Sees(HomeOf(k))'
    <3>1. Gate \in Sees(HomeOf(k)) /\ Creating(job'[k]) /\ HomeOf(k) \in Adapter
      BY <1>1, <1>6, <2>1, <2>4 DEF OnceInv
    <3>2. Dropped(a) /\ HomeOf(k) # a => Sees(HomeOf(k))' = Sees(HomeOf(k))
      BY <1>5, <3>1, SeesAfter
    <3>3. SameBooks \/ Settled(a, {}) => Sees(HomeOf(k)) \subseteq Sees(HomeOf(k))'
      BY <1>5, <3>1, SeesAfter
    <3>4. QED
      BY <1>8, <3>1, <3>2, <3>3
  <2>5. ASSUME Single, NEW k \in Job, job'[k].at = "ddl"
        PROVE  Gate \notin Sees(HomeOf(k))' /\ Len(job'[k].ddl) = 1
    <3>1. Gate \notin Sees(HomeOf(k)) /\ Len(job[k].ddl) = 1 /\ HomeOf(k) \in Adapter
      BY <1>1, <2>2, <2>5 DEF OnceInv
    <3>2. Sees(HomeOf(k))' \subseteq Sees(HomeOf(k))
      BY <1>5, <1>8, <2>5, <3>1, SeesAfter
    <3>3. QED
      BY <2>2, <2>5, <3>1, <3>2
  <2>6. QED
    BY <1>3, <1>5, <1>6, <2>1, <2>3, <2>4, <2>5 DEF OnceInv
<1>9. CASE Aside
  <2>1. \A k \in Job : job'[k] = job[k] \/ (~ Creating(job[k]) /\ ~ Creating(job'[k]))
    BY <1>9 DEF Aside
  <2>2. CASE SameBooks
    <3>1. CASE Job = {}
      <4>1. Adapter = {}
        BY <3>1 DEF Job
      <4>2. QED
        BY <1>3, <1>6, <2>2, <3>1, <4>1 DEF SameBooks, OnceInv, Claims
    <3>2. ASSUME NEW j \in Job PROVE OnceInv'
      BY <1>1, <1>8, <2>1, <2>2
    <3>3. QED
      BY <3>1, <3>2
  <2>3. ASSUME NEW j \in Job, job[j].at = "commit", Runs(j), Settled(HomeOf(j), {})
        PROVE  OnceInv'
    <3>1. Single => \A k \in Job : job'[k].at # "ddl"
      <4>1. SUFFICES ASSUME Single, NEW k \in Job, job'[k].at = "ddl" PROVE FALSE
        OBVIOUS
      <4>2. job[k].at = "ddl"
        BY <2>1, <4>1 DEF Creating
      <4>3. QED
        BY <1>7, <2>3, <4>1, <4>2
    <3>2. QED
      BY <1>1, <1>8, <2>1, <2>3, <3>1
  <2>4. QED
    BY <1>9, <2>2, <2>3 DEF Aside
<1>10. ASSUME NEW j \in Job, RollsBack(j) PROVE OnceInv'
  <2>1. /\ Dropped(HomeOf(j)) /\ ~ Creating(job'[j])
        /\ \A k \in Job : k # j => job'[k] = job[k]
        /\ \A k \in Job : k # j /\ HomeOf(k) = HomeOf(j) => ~ Creating(job[k])
    BY <1>10 DEF RollsBack, Others
  <2>2. \A k \in Job : HomeOf(k) = HomeOf(j) => ~ Creating(job'[k])
    BY <2>1
  <2>3. QED
    BY <1>1, <1>8, <2>1, <2>2
<1>11. ASSUME NEW a \in Adapter, Dies(a) PROVE OnceInv'
  <2>1. \A k \in Job : job'[k] = IF HomeOf(k) = a THEN Idle ELSE job[k]
    BY <1>11 DEF Dies
  <2>2. Dropped(a)
    BY <1>11 DEF Dies
  <2>3. QED
    BY <1>1, <1>8, <2>1, <2>2
<1>12. ASSUME NEW j \in Job, Stops(j) PROVE OnceInv'
  BY <1>1, <1>8, <1>12 DEF Stops, Others
<1>13. ASSUME NEW j \in Job, Loses(j) PROVE OnceInv'
  <2>1. /\ job'[j] = Idle /\ Runs(j) /\ \A k \in Job : k # j => job'[k] = job[k]
        /\ SameBooks \/ Settled(HomeOf(j), {})
    BY <1>13 DEF Loses, Others
  <2>2. Single => \A k \in Job : job'[k].at # "ddl"
    BY <1>1, <1>7, <2>1
  <2>3. \A k \in Job : job'[k] = job[k] \/ ~ Creating(job'[k])
    BY <1>1, <2>1
  <2>4. QED
    BY <1>1, <1>8, <2>1, <2>2, <2>3
<1>14. ASSUME NEW j \in Job, Looks(j) PROVE OnceInv'
  <2>1. /\ job'[j].at = "ddl" /\ job'[j].ddl \in Is.ddl[site.indexes]
        /\ \A k \in Job : k # j => job'[k] = job[k]
        /\ "table" \notin Sees(HomeOf(j)) /\ SameBooks
        /\ \A k \in Job : Sees(HomeOf(k))' = Sees(HomeOf(k))
    <3>1. SameBooks
      BY <1>14 DEF Looks
    <3>2. \A k \in Job : Sees(HomeOf(k))' = Sees(HomeOf(k))
      BY <1>1, <1>5, <3>1, SeesAfter
    <3>3. QED
      BY <1>14, <3>2 DEF Looks, Others
  <2>2. ~ Passed(j)'
    <3>1. \E i \in 1..Len(job'[j].ddl) : Guards(job'[j].ddl[i])
      BY <1>2, <2>1
    <3>2. PICK i \in 1..Len(job'[j].ddl) :
            Gate \in job'[j].ddl[i].makes /\ (job'[j].ddl[i].strict \/ Single)
      BY <3>1 DEF Guards
    <3>3. QED
      BY <1>6, <2>1, <3>2 DEF Passed, Guards
  <2>3. \A k \in Job : Passed(k)' => Passed(k)
    BY <1>6, <2>1, <2>2
  <2>4. Claims' /\ (Unclaimed => Unclaimed')
    BY <1>1, <1>5, <2>1, ClaimsStay DEF OnceInv
  <2>5. Single => \A k \in Job : job'[k].at = "ddl" =>
                    Gate \notin Sees(HomeOf(k))' /\ Len(job'[k].ddl) = 1
    BY <1>2, <2>1 DEF OnceInv
  <2>6. QED
    BY <1>3, <1>5, <1>6, <2>1, <2>3, <2>4, <2>5 DEF OnceInv
<1>15. ASSUME NEW j \in Job, Sends(j) PROVE OnceInv'
  <2> DEFINE a == HomeOf(j)
  <2>1. /\ \A k \in Job : k # j => job'[k] = job[k] /\ (Passed(k)' = Passed(k))
        /\ job[j].at = "ddl" /\ Runs(j)
        /\ Joined(a, Head(job[j].ddl).makes) \/ Settled(a, Head(job[j].ddl).makes)
    BY <1>6, <1>15 DEF Sends, Others
  <2>2. Claims' /\ (Unclaimed => Unclaimed')
    BY <1>1, <1>5, <2>1, ClaimsStay DEF OnceInv
  <2>3. Passed(j)' => /\ Passed(j) \/ (Unclaimed /\ \A k \in Job : ~ Passed(k))
                      /\ Gate \in Sees(a)'
    BY <1>15, FirstPasses
  <2>4. \A b \in Adapter : Sees(b) \subseteq Sees(b)'
    BY <1>1, <2>1, SeesAfter
  <2>5. \A k \in Job : Passed(k)' => Gate' \in Sees(HomeOf(k))' /\ Unclaimed'
    BY <1>1, <1>5, <1>6, <2>1, <2>2, <2>3, <2>4 DEF OnceInv
  <2>6. \A k, l \in Job : Passed(k)' /\ Passed(l)' => k = l
    BY <2>1, <2>3 DEF OnceInv
  <2>7. ASSUME Single, NEW k \in Job, job'[k].at = "ddl" PROVE FALSE
    <3>1. job[j].at = "ddl" /\ Len(job[j].ddl) = 1
      BY <2>1, <2>7 DEF OnceInv
    <3>2. Tail(job[j].ddl) = <<>>
      <4> DEFINE d == job[j].ddl
      <4>1. d \in Seq(Statements)
        BY <1>1 DEF SoundJob, JobRecord
      <4>2. Len(d) = 1
        BY <3>1
      <4> HIDE DEF d
      <4>3. d # <<>>
        BY <4>2
      <4> DEFINE rest == Tail(d)
      <4>4. rest \in Seq(Statements) /\ Len(rest) = 0
        BY <4>1, <4>2, <4>3, HeadOrTail
      <4> HIDE DEF rest
      <4>5. rest = <<>>
        BY <4>4
      <4>6. QED
        BY <4>5 DEF d, rest
    <3>3. k # j
      BY <1>15, <2>7, <3>2 DEF Sends
    <3>4. QED
      BY <1>7, <2>1, <2>7, <3>3
  <2>8. QED
    BY <1>3, <1>5, <1>6, <2>2, <2>5, <2>6, <2>7 DEF OnceInv
<1>16. ASSUME NEW j \in Job, Hooks(j) PROVE OnceInv'
  <2> DEFINE a == HomeOf(j)
  <2>1. /\ \A k \in Job : k # j => job'[k] = job[k] /\ (Passed(k)' = Passed(k))
        /\ ~ Passed(j)' /\ Passed(j) /\ job'[j].at # "ddl"
        /\ Sown(a) /\ a \in Adapter
    BY <1>1, <1>6, <1>16 DEF Hooks, Others, Passed, Creating
  <2>2. Gate \in Sees(a) /\ Unclaimed /\ \A k \in Job : k # j => ~ Passed(k)
    BY <2>1 DEF OnceInv
  <2>3. /\ \A k \in Job : ~ Passed(k)'
        /\ made' = made /\ \A b \in Adapter : Sees(b)' = Sees(b)
    BY <2>1, <2>2, SeesAfter DEF Sown
  <2>4. ASSUME Is.takes = "none", seeded' = seeded + 1, \A b \in Adapter : Spares(b)
        PROVE  Claims'
    <3>1. seeded' = 1 /\ \A b \in Adapter : txn'[b].seeds = 0
      BY <2>2, <2>4 DEF Unclaimed, Spares
    <3>2. txn[a] \in SoundTxn
      BY <2>1 DEF Shape
    <3>3. txn[a].made = {}
      BY <2>4, <3>2 DEF SoundTxn
    <3>4. Gate \in made
      BY <2>2, <3>3 DEF Sees
    <3>5. QED
      BY <1>6, <2>3, <3>1, <3>4 DEF Claims
  <2>5. ASSUME seeded' = seeded, txn'[a].seeds = txn[a].seeds + 1,
               \A b \in Adapter \ {a} : Spares(b)
        PROVE  Claims'
    <3>1. /\ seeded' = 0 /\ txn'[a].seeds = 1
          /\ \A b \in Adapter : b # a => txn'[b].seeds = 0
      BY <2>1, <2>2, <2>5 DEF Unclaimed, Spares
    <3>2. \A b \in Adapter : txn'[b].seeds > 0 => b = a
      BY <3>1
    <3>3. Gate \in Sees(a) /\ \A b \in Adapter : Sees(b)' = Sees(b)
      BY <2>2, <2>3
    <3> HIDE DEF a
    <3>4. \A b \in Adapter : txn'[b].seeds > 0 => Gate' \in Sees(b)'
      BY <1>6, <3>2, <3>3
    <3>5. seeded' <= 1 /\ \A b \in Adapter : seeded' + txn'[b].seeds <= 1
      BY <3>1
    <3>6. QED
      BY <3>1, <3>2, <3>4, <3>5 DEF Claims
  <2>6. Claims'
    BY <2>1, <2>4, <2>5 DEF Sown
  <2>7. ASSUME Single, NEW k \in Job, job'[k].at = "ddl"
        PROVE  Gate \notin Sees(HomeOf(k))' /\ Len(job'[k].ddl) = 1
    <3>1. job'[k] = job[k]
      BY <2>1, <2>7
    <3>2. Sees(HomeOf(k))' = Sees(HomeOf(k))
      BY <1>1, <1>5, <2>3
    <3>3. QED
      BY <2>7, <3>1, <3>2 DEF OnceInv
  <2>8. QED
    BY <1>3, <1>5, <1>6, <2>3, <2>6, <2>7 DEF OnceInv
<1>17. QED
  BY <1>4, <1>9, <1>10, <1>11, <1>12, <1>13, <1>14, <1>15, <1>16

(* The rows of the hook are found once by each connection, and no faults,   *)
(* rollbacks, restarts or races make them twice, where a statement of the   *)
(* creation fails for all but one.                                          *)
THEOREM RowsAreThereOnce == CreationSpec => []SeededOnce
<1> DEFINE Once == OnceSite /\ "cut" \notin past => OnceInv
<1>1. CreationInit => Once
  <2>1. SUFFICES ASSUME CreationInit PROVE OnceInv
    OBVIOUS
  <2>2. /\ job = [j \in Job |-> Idle] /\ txn = [a \in Adapter |-> NoTxn]
        /\ made = {} /\ seeded = 0
    BY <2>1 DEF CreationInit, CreationStart
  <2>3. \A j \in Job : job[j].at = "idle"
    BY <2>2, IdleParts
  <2>4. \A a \in Adapter : txn[a].seeds = 0
    BY <2>2, TxnParts
  <2>5. Claims
    BY <2>2, <2>4 DEF Claims
  <2>6. QED
    BY <2>3, <2>5 DEF OnceInv, Passed, OneInside, Inside
<1>2. Shape /\ Once /\ [CreationNext]_creation => Once'
  <2>1. SUFFICES ASSUME Shape, Once, [CreationNext]_creation, OnceSite', "cut" \notin past'
                 PROVE  OnceInv'
    OBVIOUS
  <2>2. site' = site
    BY <2>1, OneSite
  <2>3. OnceSite
    BY <2>1, <2>2 DEF OnceSite, Shared, Together
  <2>4. ~ Is.implicit
    BY <2>1, <2>3, GateFacts DEF Shape
  <2>5. past \subseteq past'
    BY <2>1, <2>4, StepKinds DEF Aside, Keeps, Looks, Sends, Loses, Hooks, Stops, RollsBack, Dies
  <2>6. QED
    BY <2>1, <2>3, <2>5, OnceInductive
<1>3. Once => SeededOnce
  BY DEF OnceSite, OnceInv, Claims, SeededOnce
<1>4. QED
  BY <1>1, <1>2, <1>3, ShapeAtFirst, ShapeInductive, PTL DEF CreationSpec

-----------------------------------------------------------------------------
(* How far a creation is. *)

Plan == CHOOSE d : Is.ddl[site.indexes] = {d}

(* What the first m statements make.                                        *)
First(m) == {x \in Things : \E i \in 1..m : x \in Plan[i].makes}

LEMMA PlanFacts ==
  ASSUME site \in Sites
  PROVE  /\ Is.ddl[site.indexes] = {Plan}
         /\ Plan \in Seq(Statements) /\ Len(Plan) \in Nat /\ Len(Plan) > 0
         /\ 1 \in 1..Len(Plan) /\ "table" \in Plan[1].makes
         /\ \A x \in Things : \E i \in 1..Len(Plan) : x \in Plan[i].makes
         /\ \A q \in 1..Len(Plan) :
              /\ Plan[q].makes \subseteq Things
              /\ Plan[q].strict =>
                   /\ Plan[q].makes # {}
                   /\ \A i \in 1..(q - 1) : Plan[i].makes \cap Plan[q].makes = {}
<1>1. Is.ddl[site.indexes] = {Plan} /\ Orderly(Plan)
  <2>1. PICK d : Is.ddl[site.indexes] = {d} /\ Orderly(d)
    BY OnePlan
  <2>2. Plan = d
    BY <2>1 DEF Plan
  <2>3. QED
    BY <2>1, <2>2
<1>2. \A q \in 1..Len(Plan) : Plan[q] \in Statements
  BY <1>1 DEF Orderly
<1>3. \A q \in 1..Len(Plan) : Plan[q].makes \subseteq Things
  BY <1>2 DEF Statements
<1>4. QED
  BY <1>1, <1>3 DEF Orderly

LEMMA FirstParts ==
  ASSUME site \in Sites
  PROVE  /\ First(0) = {} /\ First(Len(Plan)) = Things /\ "table" \in Things
         /\ \A m \in 1..Len(Plan) : First(m) = First(m - 1) \cup Plan[m].makes
         /\ \A m \in Nat : (First(m) # {} => m > 0) /\ (m > 0 => "table" \in First(m))
         /\ \A m \in Nat : \A n \in 0..m : First(n) \subseteq First(m)
<1>1. Len(Plan) \in Nat /\ "table" \in Things
  BY PlanFacts DEF Things
<1>2. First(0) = {} /\ First(Len(Plan)) = Things
  BY PlanFacts DEF First
<1>3. ASSUME NEW m \in 1..Len(Plan) PROVE First(m) = First(m - 1) \cup Plan[m].makes
  <2>1. \A i : i \in 1..m <=> i \in 1..(m - 1) \/ i = m
    BY <1>1
  <2>2. Plan[m].makes \subseteq Things
    BY PlanFacts
  <2>3. QED
    BY <2>1, <2>2 DEF First
<1>4. ASSUME NEW m \in Nat PROVE (First(m) # {} => m > 0) /\ (m > 0 => "table" \in First(m))
  <2>1. m > 0 => 1 \in 1..m
    OBVIOUS
  <2>2. "table" \in Plan[1].makes
    BY PlanFacts
  <2>3. First(m) # {} => \E i \in 1..m : TRUE
    BY DEF First
  <2>4. QED
    BY <1>1, <2>1, <2>2, <2>3 DEF First
<1>5. ASSUME NEW m \in Nat, NEW n \in 0..m PROVE First(n) \subseteq First(m)
  <2>1. \A i \in 1..n : i \in 1..m
    OBVIOUS
  <2>2. QED
    BY <2>1 DEF First
<1>6. QED
  BY <1>1, <1>2, <1>3, <1>4, <1>5

(* What is left of a creation whose next statement is the p-th.             *)
LeftFrom(s, p) ==
  /\ p \in 1..Len(Plan) /\ s \in Seq(Statements) /\ Len(s) = (Len(Plan) - p) + 1
  /\ \A i \in 1..Len(s) : s[i] = Plan[(p + i) - 1]

Stands(j, p) == job[j].at = "ddl" /\ LeftFrom(job[j].ddl, p)

LEMMA PlanStays ==
  ASSUME site' = site
  PROVE  /\ Plan' = Plan /\ Things' = Things /\ \A m : First(m)' = First(m)
         /\ \A p : \A j \in Job : (Stands(j, p)' <=> job'[j].at = "ddl" /\ LeftFrom(job'[j].ddl, p))
<1>1. Plan' = Plan /\ Things' = Things
  BY DEF Plan, Is, Things
<1>2. Statements' = Statements /\ \A m : First(m)' = First(m)
  BY <1>1 DEF Statements, First
<1>3. QED
  BY <1>1, <1>2 DEF Stands, LeftFrom

(* A creation starts at the first statement of the plan.                    *)
LEMMA FirstOfPlan ==
  ASSUME site \in Sites, NEW d \in Is.ddl[site.indexes]
  PROVE  d = Plan /\ LeftFrom(d, 1)
<1>1. d = Plan /\ Plan \in Seq(Statements) /\ Len(Plan) \in Nat /\ 1 \in 1..Len(Plan)
  BY PlanFacts
<1>2. QED
  BY <1>1 DEF LeftFrom

(* Sending a statement of the plan.                                         *)
LEMMA NextOfPlan ==
  ASSUME site \in Sites, NEW s, NEW p, LeftFrom(s, p)
  PROVE  /\ p \in 1..Len(Plan) /\ s # <<>> /\ Head(s) = Plan[p]
         /\ p = Len(Plan) => Tail(s) = <<>>
         /\ p # Len(Plan) => Tail(s) # <<>> /\ LeftFrom(Tail(s), p + 1)
<1> DEFINE N == Len(Plan)
           rest == Tail(s)
<1>1. /\ N \in Nat /\ p \in 1..N /\ s \in Seq(Statements) /\ Len(s) = (N - p) + 1
      /\ \A i \in 1..Len(s) : s[i] = Plan[(p + i) - 1]
  BY PlanFacts DEF LeftFrom
<1>2. s # <<>>
  BY <1>1
<1>3. /\ Head(s) = s[1] /\ rest \in Seq(Statements) /\ Len(rest) = Len(s) - 1
      /\ 1 \in 1..Len(s)
      /\ \A i \in 1..Len(rest) : i + 1 \in 1..Len(s) /\ rest[i] = s[i + 1]
  BY <1>1, <1>2, HeadOrTail
<1> HIDE DEF N, rest
<1>4. (p + 1) - 1 = p
  BY <1>1
<1>5. Head(s) = Plan[p]
  BY <1>1, <1>3, <1>4
<1>6. p = N => rest = <<>>
  BY <1>1, <1>3
<1>7. ASSUME p # N PROVE rest # <<>> /\ LeftFrom(rest, p + 1)
  <2>1. p + 1 \in 1..N /\ Len(rest) = (N - (p + 1)) + 1 /\ Len(rest) > 0
    BY <1>1, <1>3, <1>7
  <2>2. ASSUME NEW i \in 1..Len(rest) PROVE rest[i] = Plan[((p + 1) + i) - 1]
    <3>1. i + 1 \in 1..Len(s) /\ rest[i] = s[i + 1]
      BY <1>3
    <3>2. s[i + 1] = Plan[(p + (i + 1)) - 1]
      BY <1>1, <3>1
    <3>3. (p + (i + 1)) - 1 = ((p + 1) + i) - 1
      BY <1>1, <1>3
    <3>4. QED
      BY <3>1, <3>2, <3>3
  <2>3. rest # <<>>
    BY <2>1
  <2>4. QED
    BY <1>3, <2>1, <2>2, <2>3 DEF LeftFrom, N
<1>8. QED
  BY <1>1, <1>2, <1>5, <1>6, <1>7 DEF N, rest

-----------------------------------------------------------------------------
(* Who calls. *)

(* Only a class that schedules its creations has calls of adapters.         *)
TasksOnly == \A j \in Job : j \notin Task => job[j].at = "idle"

LEMMA TasksCall ==
  ASSUME Shape, ~ Is.implicit, TasksOnly, [CreationNext]_creation
  PROVE  TasksOnly'
<1>1. /\ job \in [Job -> SoundJob] /\ Idle.at = "idle" /\ Is.lazily = "calls"
      /\ \A t \in Task : t \in Job
  <2>1. site.class \in DOMAIN AdapterClasses
    BY DEF Shape, Sites
  <2>2. QED
    BY <2>1, ClassFacts, IdleParts DEF Shape, Is, Job
<1>2. ASSUME NEW j \in Job, j \in Task, \E r : Goes(j, r) PROVE TasksOnly'
  BY <1>1, <1>2 DEF Goes, TasksOnly
<1>3. ASSUME \A k \in Job : job'[k] = job[k] \/ job'[k] = Idle PROVE TasksOnly'
  BY <1>1, <1>3 DEF TasksOnly
<1>4. ASSUME NEW j \in Job, JobStep(j) PROVE TasksOnly'
  <2>1. \E r : Goes(j, r)
    BY <1>1, <1>4 DEF JobStep, DeferredInit, LookForTable, ExecuteDdl, Fails, RunHook,
                      Operate, KeyReturned, EndTransaction, TimesOut
  <2>2. job[j].at # "idle"
    BY <1>4 DEF JobStep, DeferredInit, LookForTable, ExecuteDdl, RunHook,
                Operate, KeyReturned, EndTransaction, TimesOut, Waits
  <2>3. QED
    BY <1>2, <2>1, <2>2 DEF TasksOnly
<1>5. ASSUME NEW j \in Job, Refused(j) PROVE TasksOnly'
  BY <1>1, <1>3, <1>5 DEF Refused, Fails, Goes
<1>6. ASSUME NEW t \in Task, NEW f \in Frames, CallMethod(t, f) PROVE TasksOnly'
  <2>1. \E r : Goes(t, r)
    BY <1>6 DEF CallMethod
  <2>2. QED
    BY <1>1, <1>2, <2>1
<1>7. ASSUME NEW a \in Adapter, Restart(a) PROVE TasksOnly'
  BY <1>3, <1>7 DEF Restart
<1>8. CASE UNCHANGED creation \/ \E t \in Task : ReadPrimaryKey(t) \/ BeginTransaction(t)
  BY <1>3, <1>8 DEF creation, ReadPrimaryKey, BeginTransaction
<1>9. QED
  BY <1>4, <1>5, <1>6, <1>7, <1>8 DEF CreationNext, Frames

(* With an adapter of its own each, of the calls of an adapter one is made. *)
LEMMA OneCall ==
  ASSUME Shape, TasksOnly, ~ Shared(site), NEW j \in Job, NEW k \in Job,
         job[j].at # "idle", job[k].at # "idle", HomeOf(j) = HomeOf(k)
  PROVE  j = k
<1>1. j \in Task /\ k \in Task
  BY DEF TasksOnly
<1>2. site.home[k] = site.home[j]
  BY <1>1 DEF HomeOf
<1>3. site.home = Apart
  BY DEF Shape, Sites, Shared
<1>4. \A t, u \in Task : Apart[t] = Apart[u] => t = u
  BY CreationAssumption DEF Apart
<1>5. QED
  BY <1>1, <1>2, <1>3, <1>4

-----------------------------------------------------------------------------
(* MSSQL's creation is all or nothing. *)

AllSite == site.class \in {"mssql", "asyncMssql"} /\ ~ Shared(site)

Even(things, seeds) == (things = {} /\ seeds = 0) \/ (things = Things /\ seeds = 1)

(* A connection has made nothing, or is creating, or has done it all, and   *)
(* while it has not committed that no other one has any of it.              *)
AllInv ==
  /\ TasksOnly
  /\ Even(made, seeded)
  /\ \A a \in Adapter : txn[a].made # {} =>
       /\ "table" \in txn[a].made /\ made = {}
       /\ \A b \in Adapter \ {a} : txn[b].made = {}
  /\ \A j \in Job : job[j].at = "ddl" =>
       /\ txn[HomeOf(j)].seeds = 0
       /\ \E p \in 1..Len(Plan) : Stands(j, p) /\ txn[HomeOf(j)].made = First(p - 1)
  /\ \A j \in Job : job[j].at = "hook" =>
       txn[HomeOf(j)].made = Things /\ txn[HomeOf(j)].seeds = 0
  /\ \A a \in Adapter : (\A j \in Job : HomeOf(j) = a => ~ Creating(job[j])) =>
       Even(txn[a].made, txn[a].seeds)

LEMMA AllFacts ==
  ASSUME site \in Sites, AllSite
  PROVE  /\ ~ Is.implicit /\ Is.takes = "all" /\ \A a : JoinsTxn(a)
         /\ Plan[1].strict
<1>1. site.class \in DOMAIN AdapterClasses /\ site.indexes \in IndexLists
  BY DEF Sites
<1>2. ~ Is.implicit /\ Is.takes = "all" /\ Is.ddl[site.indexes] = {MssqlDdl(site.indexes)}
  BY <1>1, ClassFacts DEF AllSite, Is
<1>3. Plan = MssqlDdl(site.indexes)
  BY <1>2, PlanFacts
<1>4. QED
  BY <1>2, <1>3, ListsAreOrderly DEF JoinsTxn

(* The connection of b is where it was, or has no creation any more.        *)
AsBefore(b) ==
  /\ Spares(b)
  /\ \A k \in Job : HomeOf(k) = b =>
       job'[k] = job[k] \/ (~ Creating(job[k]) /\ ~ Creating(job'[k]))

Over(b) ==
  /\ \A k \in Job : HomeOf(k) = b => ~ Creating(job'[k])
  /\ Even(txn'[b].made, txn'[b].seeds)
  /\ txn'[b].made \subseteq txn[b].made

LEMMA NoneGoesOn ==
  ASSUME Shape, AllInv, site' = site, TasksOnly',
         \A b \in Adapter : AsBefore(b) \/ Over(b),
         Even(made', seeded'), made' = made \/ \A b \in Adapter : txn'[b].made = {}
  PROVE  AllInv'
<1>1. /\ \A j \in Job : HomeOf(j) \in Adapter /\ HomeOf(j)' = HomeOf(j)
      /\ "table" \in Things
  BY Homes, FirstParts DEF Shape, HomeOf
<1>2. /\ Plan' = Plan /\ Things' = Things /\ \A m : First(m)' = First(m)
      /\ \A p : \A j \in Job : (Stands(j, p)' <=> job'[j].at = "ddl" /\ LeftFrom(job'[j].ddl, p))
  BY PlanStays
<1>3. \A b \in Adapter : txn'[b].made \subseteq txn[b].made
  BY DEF AsBefore, Over, Spares
<1>4. ASSUME NEW j \in Job, Creating(job'[j])
      PROVE  /\ job'[j] = job[j] /\ Spares(HomeOf(j))
             /\ \A p : Stands(j, p)' <=> Stands(j, p)
  <2>1. AsBefore(HomeOf(j))
    BY <1>1, <1>4 DEF Over
  <2>2. job'[j] = job[j] /\ Spares(HomeOf(j))
    BY <1>4, <2>1 DEF AsBefore
  <2>3. QED
    BY <1>2, <2>2 DEF Stands
<1>5. ASSUME NEW a \in Adapter, txn'[a].made # {}
      PROVE  /\ "table" \in txn'[a].made /\ made' = {}
             /\ \A b \in Adapter \ {a} : txn'[b].made = {}
  <2>1. txn[a].made # {} /\ made' = made
    BY <1>3, <1>5
  <2>2. made = {} /\ \A b \in Adapter \ {a} : txn[b].made = {}
    BY <2>1 DEF AllInv
  <2>3. "table" \in txn'[a].made
    BY <1>1, <1>5, <2>1 DEF AllInv, AsBefore, Over, Spares, Even
  <2>4. QED
    BY <1>3, <2>1, <2>2, <2>3
<1>6. ASSUME NEW j \in Job, job'[j].at = "ddl"
      PROVE  /\ txn'[HomeOf(j)].seeds = 0
             /\ \E p \in 1..Len(Plan) : Stands(j, p)' /\ txn'[HomeOf(j)].made = First(p - 1)
  <2>1. job[j].at = "ddl" /\ Spares(HomeOf(j)) /\ \A p : Stands(j, p)' <=> Stands(j, p)
    BY <1>4, <1>6 DEF Creating
  <2>2. QED
    BY <2>1 DEF AllInv, Spares
<1>7. ASSUME NEW j \in Job, job'[j].at = "hook"
      PROVE  txn'[HomeOf(j)].made = Things /\ txn'[HomeOf(j)].seeds = 0
  <2>1. job[j].at = "hook" /\ Spares(HomeOf(j))
    BY <1>4, <1>7 DEF Creating
  <2>2. QED
    BY <2>1 DEF AllInv, Spares
<1>8. ASSUME NEW a \in Adapter, \A j \in Job : HomeOf(j) = a => ~ Creating(job'[j])
      PROVE  Even(txn'[a].made, txn'[a].seeds)
  <2>1. CASE AsBefore(a)
    <3>1. \A j \in Job : HomeOf(j) = a => ~ Creating(job[j])
      BY <1>8, <2>1 DEF AsBefore
    <3>2. QED
      BY <2>1, <3>1 DEF AllInv, AsBefore, Spares
  <2>2. QED
    BY <2>1 DEF Over
<1>9. QED
  BY <1>1, <1>2, <1>5, <1>6, <1>7, <1>8 DEF AllInv, Even

LEMMA AllInductive ==
  ASSUME Shape, AllSite, AllInv, [CreationNext]_creation, past' \cap {"refused", "raised"} = {}
  PROVE  AllInv'
<1>1. /\ site \in Sites /\ job \in [Job -> SoundJob] /\ Idle.at = "idle" /\ ~ Creating(Idle)
      /\ \A j \in Job : HomeOf(j) \in Adapter
      /\ ~ Is.implicit /\ \A a : JoinsTxn(a)
      /\ Plan[1].strict /\ Is.takes = "all" /\ Things # {} /\ "table" \in Things
  BY IdleParts, Homes, AllFacts, FirstParts DEF Shape, Creating
<1>2. /\ site' = site /\ TasksOnly' /\ \A j \in Job : HomeOf(j)' = HomeOf(j)
  BY <1>1, OneSite, TasksCall DEF HomeOf, AllInv
<1>3. \/ Aside
      \/ \E j \in Job : \/ Looks(j) \/ Sends(j) \/ Loses(j) \/ Hooks(j)
                        \/ Stops(j) \/ RollsBack(j)
      \/ \E a \in Adapter : Dies(a)
  BY <1>1, StepKinds
<1>4. ASSUME NEW j \in Job, NEW k \in Job, job[j].at # "idle", job[k].at # "idle",
             HomeOf(k) = HomeOf(j)
      PROVE  k = j
  BY <1>4, OneCall DEF AllInv, AllSite
<1>5. ASSUME NEW j \in Job, job[j].at # "idle", ~ Creating(job[j])
      PROVE  Even(txn[HomeOf(j)].made, txn[HomeOf(j)].seeds)
  <2>1. \A k \in Job : HomeOf(k) = HomeOf(j) => ~ Creating(job[k])
    BY <1>4, <1>5 DEF Creating
  <2>2. QED
    BY <1>1, <2>1 DEF AllInv
(* A step of j alone leaves the others as they were.                        *)
<1>6. ASSUME NEW j \in Job, \A k \in Job : k # j => job'[k] = job[k],
             NEW b \in Adapter, b # HomeOf(j), Spares(b)
      PROVE  AsBefore(b)
  BY <1>6 DEF AsBefore
<1>7. ASSUME NEW j \in Job, Others(j), job[j].at # "idle", ~ Creating(job'[j]),
             Even(txn'[HomeOf(j)].made, txn'[HomeOf(j)].seeds),
             txn'[HomeOf(j)].made \subseteq txn[HomeOf(j)].made,
             \A b \in Adapter \ {HomeOf(j)} : Spares(b),
             UNCHANGED <<made, seeded>>
      PROVE  AllInv'
  <2>1. ASSUME NEW k \in Job, HomeOf(k) = HomeOf(j) PROVE ~ Creating(job'[k])
    <3>1. CASE job[k].at = "idle" /\ k # j
      BY <1>7, <3>1 DEF Others, Creating
    <3>2. QED
      BY <1>4, <1>7, <2>1, <3>1
  <2>2. Over(HomeOf(j))
    BY <1>7, <2>1 DEF Over
  <2>3. \A b \in Adapter : AsBefore(b) \/ Over(b)
    BY <1>6, <1>7, <2>2 DEF Others
  <2>4. Even(made', seeded')
    BY <1>7 DEF AllInv
  <2>5. QED
    BY <1>2, <1>7, <2>3, <2>4, NoneGoesOn
<1>8. CASE Aside
  <2>1. \A k \in Job : job'[k] = job[k] \/ (~ Creating(job[k]) /\ ~ Creating(job'[k]))
    BY <1>8 DEF Aside
  <2>2. CASE SameBooks
    <3>1. \A b \in Adapter : AsBefore(b)
      BY <2>1, <2>2 DEF SameBooks, AsBefore
    <3>2. Even(made', seeded') /\ made' = made
      BY <2>2 DEF SameBooks, AllInv
    <3>3. QED
      BY <1>2, <3>1, <3>2, NoneGoesOn
  <2>3. ASSUME NEW j \in Job, job[j].at = "commit", Settled(HomeOf(j), {}) PROVE AllInv'
    <3> DEFINE a == HomeOf(j)
    <3>1. Even(txn[a].made, txn[a].seeds)
      BY <1>5, <2>3 DEF Creating
    <3>2. ASSUME NEW k \in Job, HomeOf(k) = a PROVE ~ Creating(job'[k])
      <4>1. ~ Creating(job[k])
        BY <1>4, <2>3, <3>2 DEF Creating
      <4>2. QED
        BY <2>1, <4>1
    <3>3. /\ made' = made \cup txn[a].made /\ seeded' = seeded + txn[a].seeds
          /\ txn'[a].made = {} /\ txn'[a].seeds = 0
          /\ \A b \in Adapter \ {a} : Spares(b)
      BY <2>3 DEF Settled
    <3>4. /\ Even(made', seeded')
          /\ made' = made \/ \A b \in Adapter \ {a} : txn[b].made = {}
      <4>1. CASE txn[a].made = {}
        <5>1. txn[a].seeds = 0 /\ seeded \in Nat
          BY <1>1, <3>1, <4>1 DEF Even, Shape
        <5>2. QED
          BY <3>3, <4>1, <5>1 DEF AllInv
      <4>2. CASE txn[a].made # {}
        <5>1. /\ made = {} /\ txn[a].made = Things /\ txn[a].seeds = 1
              /\ \A b \in Adapter \ {a} : txn[b].made = {}
          BY <1>1, <3>1, <4>2 DEF AllInv, Even
        <5>2. seeded = 0
          BY <1>1, <5>1 DEF AllInv, Even
        <5>3. QED
          BY <3>3, <5>1, <5>2 DEF Even
      <4>3. QED
        BY <4>1, <4>2
    <3>5. Over(a)
      BY <3>2, <3>3 DEF Over, Even
    <3>6. \A b \in Adapter : AsBefore(b) \/ Over(b)
      BY <2>1, <3>3, <3>5 DEF AsBefore
    <3>7. made' = made \/ \A b \in Adapter : txn'[b].made = {}
      BY <3>3, <3>4 DEF Spares
    <3>8. QED
      BY <1>2, <3>4, <3>6, <3>7, NoneGoesOn
  <2>4. QED
    BY <1>8, <2>2, <2>3 DEF Aside
<1>9. ASSUME NEW j \in Job, RollsBack(j) PROVE AllInv'
  BY <1>1, <1>7, <1>9 DEF RollsBack, Dropped, Even
<1>10. ASSUME NEW a \in Adapter, Dies(a) PROVE AllInv'
  <2>1. /\ Dropped(a) /\ \A k \in Job : job'[k] = IF HomeOf(k) = a THEN Idle ELSE job[k]
    BY <1>10 DEF Dies
  <2>2. Over(a)
    BY <1>1, <2>1 DEF Over, Dropped, Even
  <2>3. \A b \in Adapter : b # a => AsBefore(b)
    BY <2>1 DEF AsBefore, Dropped
  <2>4. Even(made', seeded') /\ made' = made
    BY <2>1 DEF Dropped, AllInv
  <2>5. QED
    BY <1>2, <2>2, <2>3, <2>4, NoneGoesOn
<1>11. ASSUME NEW j \in Job, Stops(j) PROVE AllInv'
  BY <1>11 DEF Stops
<1>12. ASSUME NEW j \in Job, Hooks(j) PROVE AllInv'
  <2> DEFINE a == HomeOf(j)
  <2>1. /\ job[j].at = "hook" /\ Sown(a) /\ Others(j) /\ ~ Creating(job'[j]) /\ a \in Adapter
    BY <1>1, <1>12 DEF Hooks
  <2>2. txn[a].made = Things /\ txn[a].seeds = 0
    BY <2>1 DEF AllInv
  <2>3. /\ UNCHANGED <<made, seeded>> /\ txn'[a].made = Things /\ txn'[a].seeds = 1
        /\ \A b \in Adapter \ {a} : Spares(b)
    BY <1>1, <2>1, <2>2 DEF Sown
  <2>4. Even(txn'[a].made, txn'[a].seeds) /\ txn'[a].made \subseteq txn[a].made
    BY <2>2, <2>3 DEF Even
  <2>5. QED
    BY <1>7, <2>1, <2>3, <2>4
(* Who has made the table keeps the others from it, so that it meets        *)
(* nothing that exists and waits for nothing.                               *)
<1>13. ASSUME NEW j \in Job, NEW p \in 1..Len(Plan), Stands(j, p),
              txn[HomeOf(j)].made = First(p - 1), p # 1
       PROVE  ~ Stuck(j) /\ ~ Waits(j) /\ "table" \in txn[HomeOf(j)].made
  <2> DEFINE a == HomeOf(j)
  <2>1. /\ p - 1 \in Nat /\ p - 1 > 0 /\ Len(Plan) \in Nat /\ a \in Adapter
    BY <1>1, <1>13, PlanFacts
  <2>2. "table" \in txn[a].made
    BY <1>1, <1>13, <2>1, FirstParts
  <2>3. made = {} /\ \A b \in Adapter \ {a} : txn[b].made = {}
    BY <2>1, <2>2 DEF AllInv
  <2>4. Head(job[j].ddl) = Plan[p] /\ job[j].at = "ddl"
    BY <1>1, <1>13, NextOfPlan DEF Stands
  <2>5. Sees(a) = First(p - 1)
    BY <1>13, <2>3 DEF Sees
  <2>6. Plan[p].strict => Plan[p].makes \cap First(p - 1) = {}
    BY <1>1, PlanFacts DEF First
  <2>7. ~ Stuck(j)
    BY <1>13, <2>2, <2>4, <2>5, <2>6 DEF Stuck
  <2>8. HeldFrom(a) = {}
    BY <1>1, <2>3 DEF HeldFrom, HeldBy
  <2>9. ~ Waits(j)
    BY <1>1, <2>4, <2>8 DEF Waits
  <2>10. QED
    BY <2>2, <2>7, <2>9
<1>14. ASSUME NEW j \in Job, Loses(j) PROVE AllInv'
  <2> DEFINE a == HomeOf(j)
  <2>1. /\ Others(j) /\ job'[j] = Idle /\ SameBooks /\ a \in Adapter
        /\ job[j].at = "ddl" /\ (Stuck(j) \/ Waits(j))
    BY <1>1, <1>14 DEF Loses, Waits, Creating
  <2>2. PICK p \in 1..Len(Plan) : Stands(j, p) /\ txn[a].made = First(p - 1)
    BY <2>1 DEF AllInv
  <2>3. p = 1
    BY <1>13, <2>1, <2>2
  <2>4. txn[a].made = {} /\ txn[a].seeds = 0
    BY <1>1, <2>1, <2>2, <2>3, FirstParts DEF AllInv
  <2>5. Even(txn'[a].made, txn'[a].seeds) /\ txn'[a].made \subseteq txn[a].made
    BY <2>1, <2>4 DEF SameBooks, Spares, Even
  <2>6. QED
    BY <1>1, <1>7, <2>1, <2>5 DEF SameBooks
<1>15. ASSUME NEW j \in Job, Looks(j) PROVE AllInv'
  <2> DEFINE a == HomeOf(j)
  <2>1. /\ job[j].at = "look" /\ job'[j].at = "ddl" /\ LeftFrom(job'[j].ddl, 1)
        /\ "table" \notin Sees(a) /\ SameBooks /\ a \in Adapter
        /\ \A k \in Job : k # j => job'[k] = job[k]
    BY <1>1, <1>15, FirstOfPlan DEF Looks, Others
  <2>2. txn[a].made = {} /\ txn[a].seeds = 0
    <3>1. Even(txn[a].made, txn[a].seeds)
      BY <1>5, <2>1 DEF Creating
    <3>2. QED
      BY <1>1, <2>1, <3>1 DEF Even, Sees
  <2>3. /\ Plan' = Plan /\ Things' = Things /\ \A m : First(m)' = First(m)
        /\ \A p : \A k \in Job : (Stands(k, p)' <=> job'[k].at = "ddl" /\ LeftFrom(job'[k].ddl, p))
    BY <1>2, PlanStays
  <2>4. Stands(j, 1)' /\ First(1 - 1) = {} /\ 1 \in 1..Len(Plan)
    BY <1>1, <2>1, <2>3, FirstParts, PlanFacts
  <2>5. \A p : \A k \in Job : k # j => (Stands(k, p)' <=> Stands(k, p))
    BY <2>1, <2>3 DEF Stands
  <2>6. \A b \in Adapter : txn'[b].made = txn[b].made /\ txn'[b].seeds = txn[b].seeds
    BY <2>1 DEF SameBooks, Spares
  <2>7. ASSUME NEW k \in Job, job'[k].at = "ddl"
        PROVE  /\ txn'[HomeOf(k)].seeds = 0
               /\ \E p \in 1..Len(Plan) : Stands(k, p)' /\ txn'[HomeOf(k)].made = First(p - 1)
    <3>1. CASE k = j
      BY <2>1, <2>2, <2>4, <2>6, <3>1
    <3>2. CASE k # j
      <4>1. job[k].at = "ddl" /\ HomeOf(k) \in Adapter
        BY <1>1, <2>1, <2>7, <3>2
      <4>2. PICK p \in 1..Len(Plan) : Stands(k, p) /\ txn[HomeOf(k)].made = First(p - 1)
        BY <4>1 DEF AllInv
      <4>3. QED
        BY <2>5, <2>6, <3>2, <4>1, <4>2 DEF AllInv
    <3>3. QED
      BY <3>1, <3>2
  <2>8. ASSUME NEW k \in Job, job'[k].at = "hook"
        PROVE  txn'[HomeOf(k)].made = Things /\ txn'[HomeOf(k)].seeds = 0
    BY <1>1, <2>1, <2>6, <2>8 DEF AllInv
  <2>9. ASSUME NEW b \in Adapter, \A k \in Job : HomeOf(k) = b => ~ Creating(job'[k])
        PROVE  Even(txn'[b].made, txn'[b].seeds)
    <3>1. b # a
      BY <2>1, <2>9 DEF Creating
    <3>2. \A k \in Job : HomeOf(k) = b => ~ Creating(job[k])
      BY <2>1, <2>9, <3>1
    <3>3. QED
      BY <2>6, <3>2 DEF AllInv
  <2>10. UNCHANGED <<made, seeded>>
    BY <2>1 DEF SameBooks
  <2>11. QED
    BY <1>2, <2>3, <2>6, <2>7, <2>8, <2>9, <2>10 DEF AllInv, Even
<1>16. ASSUME NEW j \in Job, Sends(j) PROVE AllInv'
  <2> DEFINE a == HomeOf(j)
             d == job[j].ddl
  <2>1. /\ job[j].at = "ddl" /\ ~ Stuck(j) /\ ~ Waits(j) /\ a \in Adapter
        /\ Joined(a, Head(d).makes) /\ job'[j].ddl = Tail(d)
        /\ job'[j].at = IF Tail(d) = <<>> THEN "hook" ELSE "ddl"
        /\ \A k \in Job : k # j => job'[k] = job[k]
    BY <1>1, <1>16 DEF Sends, Others
  <2>2. PICK p \in 1..Len(Plan) : Stands(j, p) /\ txn[a].made = First(p - 1)
    BY <2>1 DEF AllInv
  <2>3. /\ Head(d) = Plan[p] /\ Len(Plan) \in Nat
        /\ p = Len(Plan) => Tail(d) = <<>>
        /\ p # Len(Plan) => Tail(d) # <<>> /\ LeftFrom(Tail(d), p + 1)
    BY <1>1, <2>2, NextOfPlan, PlanFacts DEF Stands
  <2>4. /\ First(p) = First(p - 1) \cup Plan[p].makes /\ First(0) = {}
        /\ First(Len(Plan)) = Things /\ "table" \in First(p)
        /\ "table" \in Plan[1].makes
    BY <1>1, <2>3, FirstParts, PlanFacts
  <2> HIDE DEF d
  <2>5. made = {} /\ \A b \in Adapter \ {a} : txn[b].made = {}
    <3>1. CASE p # 1
      BY <1>13, <2>1, <2>2, <3>1 DEF AllInv
    <3>2. CASE p = 1
      <4>1. "table" \notin Sees(a) /\ Head(d).makes = Plan[1].makes
        BY <1>1, <2>1, <2>3, <2>4, <3>2 DEF Stuck, d
      <4>2. made = {}
        BY <1>1, <4>1 DEF AllInv, Even, Sees
      <4>3. ASSUME NEW b \in Adapter, b # a, txn[b].made # {} PROVE FALSE
        <5>1. "table" \in txn[b].made
          BY <4>3 DEF AllInv
        <5>2. "table" \in HeldFrom(a)
          BY <2>1, <4>3, <5>1, HeldBack
        <5>3. Waits(j)
          BY <2>1, <2>4, <4>1, <5>2 DEF Waits, d
        <5>4. QED
          BY <2>1, <5>3
      <4>4. QED
        BY <4>2, <4>3
    <3>3. QED
      BY <3>1, <3>2
  <2>6. /\ UNCHANGED <<made, seeded>> /\ txn'[a].made = First(p) /\ txn'[a].seeds = 0
        /\ \A b \in Adapter \ {a} : txn'[b].made = txn[b].made /\ txn'[b].seeds = txn[b].seeds
    BY <2>1, <2>2, <2>3, <2>4, <2>5 DEF Joined, Spares, AllInv
  <2>7. /\ Plan' = Plan /\ Things' = Things /\ \A m : First(m)' = First(m)
        /\ \A q : \A k \in Job : (Stands(k, q)' <=> job'[k].at = "ddl" /\ LeftFrom(job'[k].ddl, q))
    BY <1>2, PlanStays
  <2>8. /\ p = Len(Plan) => job'[j].at = "hook"
        /\ p # Len(Plan) => job'[j].at = "ddl" /\ Stands(j, p + 1)'
    BY <2>1, <2>3, <2>7
  <2>9. \A k \in Job : k # j /\ job'[k].at # "idle" => HomeOf(k) # a
    BY <1>4, <2>1
  <2>10. \A q : \A k \in Job : k # j => (Stands(k, q)' <=> Stands(k, q))
    BY <2>1, <2>7 DEF Stands
  <2>11. ASSUME NEW k \in Job, job'[k].at = "ddl"
         PROVE  /\ txn'[HomeOf(k)].seeds = 0
                /\ \E q \in 1..Len(Plan) : Stands(k, q)' /\ txn'[HomeOf(k)].made = First(q - 1)
    <3>1. CASE k = j
      <4>1. p # Len(Plan) /\ Stands(j, p + 1)'
        BY <2>8, <2>11, <3>1
      <4>2. p + 1 \in 1..Len(Plan) /\ (p + 1) - 1 = p
        BY <2>3, <4>1
      <4>3. QED
        BY <2>6, <3>1, <4>1, <4>2
    <3>2. CASE k # j
      <4>1. job[k].at = "ddl" /\ HomeOf(k) \in Adapter \ {a}
        BY <1>1, <2>1, <2>9, <2>11, <3>2
      <4>2. PICK q \in 1..Len(Plan) : Stands(k, q) /\ txn[HomeOf(k)].made = First(q - 1)
        BY <4>1 DEF AllInv
      <4>3. QED
        BY <2>6, <2>10, <3>2, <4>1, <4>2 DEF AllInv
    <3>3. QED
      BY <3>1, <3>2
  <2>12. ASSUME NEW k \in Job, job'[k].at = "hook"
         PROVE  txn'[HomeOf(k)].made = Things /\ txn'[HomeOf(k)].seeds = 0
    <3>1. CASE k = j
      <4>1. p = Len(Plan)
        BY <2>8, <2>12, <3>1
      <4>2. QED
        BY <2>4, <2>6, <3>1, <4>1
    <3>2. CASE k # j
      <4>1. job[k].at = "hook" /\ HomeOf(k) \in Adapter \ {a}
        BY <1>1, <2>1, <2>9, <2>12, <3>2
      <4>2. QED
        BY <2>6, <4>1 DEF AllInv
    <3>3. QED
      BY <3>1, <3>2
  <2>13. ASSUME NEW b \in Adapter, \A k \in Job : HomeOf(k) = b => ~ Creating(job'[k])
         PROVE  Even(txn'[b].made, txn'[b].seeds)
    <3>1. b # a
      BY <2>8, <2>13 DEF Creating
    <3>2. \A k \in Job : HomeOf(k) = b => ~ Creating(job[k])
      BY <2>1, <2>13, <3>1
    <3>3. QED
      BY <2>6, <3>1, <3>2 DEF AllInv
  <2>14. ASSUME NEW b \in Adapter, txn'[b].made # {}
         PROVE  /\ "table" \in txn'[b].made /\ made' = {}
                /\ \A c \in Adapter \ {b} : txn'[c].made = {}
    <3>1. b = a
      BY <2>5, <2>6, <2>14
    <3>2. QED
      BY <2>4, <2>5, <2>6, <3>1
  <2>15. QED
    BY <1>2, <2>6, <2>7, <2>11, <2>12, <2>13, <2>14 DEF AllInv, Even
<1>17. QED
  BY <1>3, <1>8, <1>9, <1>10, <1>11, <1>12, <1>14, <1>15, <1>16

(* Whatever races, deaths, rollbacks and timeouts, the server has MSSQL's   *)
(* table with all its indexes and one run of the hook, or none of it.       *)
THEOREM CreatesAllOrNothing == CreationSpec => []AllOrNothing
<1> DEFINE All == AllSite /\ past \cap {"refused", "raised"} = {} => AllInv
<1>1. CreationInit => All
  <2>1. SUFFICES ASSUME CreationInit PROVE AllInv
    OBVIOUS
  <2>2. /\ job = [j \in Job |-> Idle] /\ txn = [a \in Adapter |-> NoTxn]
        /\ made = {} /\ seeded = 0
    BY <2>1 DEF CreationInit, CreationStart
  <2>3. \A j \in Job : job[j].at = "idle"
    BY <2>2, IdleParts
  <2>4. \A a \in Adapter : txn[a].made = {} /\ txn[a].seeds = 0
    BY <2>2, TxnParts
  <2>5. QED
    BY <2>2, <2>3, <2>4 DEF AllInv, Even, TasksOnly
<1>2. Shape /\ All /\ [CreationNext]_creation => All'
  <2>1. SUFFICES ASSUME Shape, All, [CreationNext]_creation, AllSite',
                        past' \cap {"refused", "raised"} = {}
                 PROVE  AllInv'
    OBVIOUS
  <2>2. site' = site
    BY <2>1, OneSite
  <2>3. AllSite
    BY <2>1, <2>2 DEF AllSite, Shared, Together
  <2>4. ~ Is.implicit
    BY <2>1, <2>3, AllFacts DEF Shape
  <2>5. past \subseteq past'
    BY <2>1, <2>4, StepKinds DEF Aside, Keeps, Looks, Sends, Loses, Hooks, Stops, RollsBack, Dies
  <2>6. QED
    BY <2>1, <2>3, <2>5, AllInductive
<1>3. All => AllOrNothing
  BY DEF AllSite, AllInv, Even, AllOrNothing
<1>4. QED
  BY <1>1, <1>2, <1>3, ShapeAtFirst, ShapeInductive, PTL DEF CreationSpec

-----------------------------------------------------------------------------
(* The table is whole. *)

All == made \cup UNION {txn[a].made : a \in Adapter}

HookRan == seeded > 0 \/ \E a \in Adapter : txn[a].seeds > 0

(* Committed or not, there is what the first m statements make.  No         *)
(* creation is further than the next one, and one is there, or has made     *)
(* everything and goes to the hook or is through it.                        *)
Progress(m) ==
  /\ m \in 0..Len(Plan) /\ All = First(m)
  /\ \A j \in Job : job[j].at = "ddl" =>
       \E p \in 1..(m + 1) : Stands(j, p) /\ (p = 1 \/ "table" \in Sees(HomeOf(j)))
  /\ \A j \in Job : job[j].at = "hook" => m = Len(Plan)
  /\ HookRan => m = Len(Plan)
  /\ m > 0 => HookRan \/ \E j \in Job : job[j].at = "hook" \/ Stands(j, m + 1)

LEMMA AllAfter ==
  ASSUME Shape, NEW a \in Adapter
  PROVE  /\ SameBooks => All' = All /\ (HookRan' <=> HookRan)
         /\ \A things : Settled(a, things) \/ Joined(a, things) =>
              All' = All \cup things /\ (HookRan' <=> HookRan)
         /\ Sown(a) => All' = All /\ HookRan'
<1>1. /\ seeded \in Nat /\ \A b \in Adapter : txn[b].seeds \in Nat
  BY DEF Shape, SoundTxn
<1>2. SameBooks => All' = All /\ (HookRan' <=> HookRan)
  BY DEF SameBooks, Spares, All, HookRan
<1>3. ASSUME NEW things, Settled(a, things)
      PROVE  All' = All \cup things /\ (HookRan' <=> HookRan)
  <2>1. /\ made' = (made \cup txn[a].made) \cup things /\ seeded' = seeded + txn[a].seeds
        /\ txn'[a].made = {} /\ txn'[a].seeds = 0
        /\ \A b \in Adapter : b # a => txn'[b].made = txn[b].made /\ txn'[b].seeds = txn[b].seeds
    BY <1>3 DEF Settled, Spares
  <2>2. ASSUME NEW x PROVE x \in All' <=> x \in All \cup things
    BY <2>1 DEF All
  <2>3. HookRan' <=> HookRan
    BY <1>1, <2>1 DEF HookRan
  <2>4. QED
    BY <2>2, <2>3
<1>4. ASSUME NEW things, Joined(a, things)
      PROVE  All' = All \cup things /\ (HookRan' <=> HookRan)
  <2>1. /\ made' = made /\ seeded' = seeded
        /\ txn'[a].made = txn[a].made \cup (things \ made)
        /\ \A b \in Adapter : txn'[b].seeds = txn[b].seeds
        /\ \A b \in Adapter : b # a => txn'[b].made = txn[b].made
    BY <1>4 DEF Joined, Spares
  <2>2. ASSUME NEW x PROVE x \in All' <=> x \in All \cup things
    BY <2>1 DEF All
  <2>3. HookRan' <=> HookRan
    BY <2>1 DEF HookRan
  <2>4. QED
    BY <2>2, <2>3
<1>5. ASSUME Sown(a) PROVE All' = All /\ HookRan'
  BY <1>1, <1>5 DEF Sown, All, HookRan
<1>6. QED
  BY <1>2, <1>3, <1>4, <1>5

(* A step that makes nothing: who creates after it created before it, and   *)
(* who was next still is.                                                   *)
LEMMA NothingMade ==
  ASSUME Shape, NEW m, Progress(m), site' = site, All' = All,
         HookRan => HookRan', HookRan' => HookRan \/ m = Len(Plan),
         \A b \in Adapter : Sees(b) \subseteq Sees(b)',
         \A k \in Job : job'[k] = job[k] \/ ~ Creating(job'[k]),
         HookRan' \/ \A k \in Job : job[k].at = "hook" \/ Stands(k, m + 1) => job'[k] = job[k]
  PROVE  Progress(m)'
<1>1. /\ Plan' = Plan /\ \A n : First(n)' = First(n)
      /\ \A p : \A j \in Job : (Stands(j, p)' <=> job'[j].at = "ddl" /\ LeftFrom(job'[j].ddl, p))
      /\ \A j \in Job : HomeOf(j) \in Adapter /\ HomeOf(j)' = HomeOf(j)
  BY PlanStays, Homes DEF Shape, HomeOf
<1>2. \A k \in Job : job'[k].at \in {"ddl", "hook"} => job'[k] = job[k]
  BY DEF Creating
<1>3. \A p : \A k \in Job : job'[k] = job[k] => (Stands(k, p)' <=> Stands(k, p))
  BY <1>1 DEF Stands
<1>4. All' = First(m)' /\ m \in 0..Len(Plan')
  BY <1>1 DEF Progress
<1>5. ASSUME NEW k \in Job, job'[k].at = "ddl"
      PROVE  \E p \in 1..(m + 1) : Stands(k, p)' /\ (p = 1 \/ "table" \in Sees(HomeOf(k))')
  <2>1. job'[k] = job[k]
    BY <1>2, <1>5
  <2>2. PICK p \in 1..(m + 1) : Stands(k, p) /\ (p = 1 \/ "table" \in Sees(HomeOf(k)))
    BY <1>5, <2>1 DEF Progress
  <2>3. Sees(HomeOf(k)) \subseteq Sees(HomeOf(k))'
    BY <1>1
  <2>4. QED
    BY <1>3, <2>1, <2>2, <2>3
<1>6. \A k \in Job : job'[k].at = "hook" => m = Len(Plan')
  BY <1>1, <1>2 DEF Progress
<1>7. HookRan' => m = Len(Plan')
  BY <1>1 DEF Progress
<1>8. m > 0 => HookRan' \/ \E k \in Job : job'[k].at = "hook" \/ Stands(k, m + 1)'
  <2> SUFFICES ASSUME m > 0, ~ HookRan'
               PROVE  \E k \in Job : job'[k].at = "hook" \/ Stands(k, m + 1)'
    OBVIOUS
  <2>1. \A k \in Job : job[k].at = "hook" \/ Stands(k, m + 1) => job'[k] = job[k]
    OBVIOUS
  <2>2. PICK k \in Job : job[k].at = "hook" \/ Stands(k, m + 1)
    BY DEF Progress
  <2>3. job'[k] = job[k]
    BY <2>1, <2>2
  <2>4. QED
    BY <1>3, <2>2, <2>3
<1>9. QED
  BY <1>4, <1>5, <1>6, <1>7, <1>8 DEF Progress

(* Who sends the next statement of the plan is not refused.                 *)
LEMMA Pioneers ==
  ASSUME Shape, NEW m, Progress(m), NEW j \in Job, Stands(j, m + 1)
  PROVE  ~ Stuck(j)
<1> DEFINE a == HomeOf(j)
           p == m + 1
<1>1. /\ m \in Nat /\ Len(Plan) \in Nat /\ a \in Adapter /\ job[j].at = "ddl"
      /\ p \in 1..Len(Plan) /\ Head(job[j].ddl) = Plan[p]
  <2>1. /\ site \in Sites /\ LeftFrom(job[j].ddl, p) /\ job[j].at = "ddl"
        /\ m \in 0..Len(Plan)
    BY DEF Shape, Stands, Progress
  <2>2. Len(Plan) \in Nat /\ a \in Adapter
    BY <2>1, PlanFacts, Homes
  <2> HIDE DEF p
  <2>3. p \in 1..Len(Plan) /\ Head(job[j].ddl) = Plan[p]
    BY <2>1, NextOfPlan
  <2>4. QED
    BY <2>1, <2>2, <2>3
<1>2. Plan[p].strict => Plan[p].makes \cap First(m) = {}
  <2>1. p - 1 = m
    BY <1>1
  <2>2. Plan[p].strict => \A i \in 1..m : Plan[i].makes \cap Plan[p].makes = {}
    BY <1>1, <2>1, PlanFacts DEF Shape
  <2>3. QED
    BY <2>2 DEF First
<1>3. Sees(a) \subseteq First(m)
  <2>1. Sees(a) \subseteq All
    BY <1>1 DEF Sees, All
  <2>2. QED
    BY <2>1 DEF Progress
<1>4. "table" \in Sees(a) \cup Plan[p].makes
  <2>1. PICK q \in 1..(m + 1) : Stands(j, q) /\ (q = 1 \/ "table" \in Sees(a))
    BY <1>1 DEF Progress
  <2>2. q = p
    <3>1. Len(job[j].ddl) = (Len(Plan) - p) + 1 /\ Len(job[j].ddl) = (Len(Plan) - q) + 1
      BY <2>1 DEF Stands, LeftFrom
    <3>2. QED
      BY <1>1, <3>1
  <2>3. QED
    BY <2>1, <2>2, PlanFacts DEF Shape
<1>5. QED
  BY <1>1, <1>2, <1>3, <1>4 DEF Stuck

LEMMA ProgressInductive ==
  ASSUME Shape, [CreationNext]_creation, ~ Is.implicit, NothingLost', NEW m, Progress(m)
  PROVE  \E n : Progress(n)'
<1>1. /\ site \in Sites /\ job \in [Job -> SoundJob] /\ Idle.at = "idle"
      /\ m \in 0..Len(Plan) /\ Len(Plan) \in Nat /\ ~ Creating(Idle)
      /\ \A j \in Job : HomeOf(j) \in Adapter
  BY IdleParts, PlanFacts, Homes DEF Shape, Creating, Progress
<1>2. \/ Aside
      \/ \E j \in Job : \/ Looks(j) \/ Sends(j) \/ Loses(j) \/ Hooks(j)
                        \/ Stops(j) \/ RollsBack(j)
      \/ \E a \in Adapter : Dies(a)
  BY StepKinds
<1>3. \A k \in Job : job[k].at = "hook" \/ Stands(k, m + 1) => Creating(job[k])
  BY DEF Creating, Stands
<1>4. past' = {} /\ \A a \in Adapter : ~ adapter'[a].undone
  BY DEF NothingLost
<1>5. site' = site /\ \A j \in Job : HomeOf(j)' = HomeOf(j)
  BY OneSite DEF HomeOf
<1>6. ASSUME NEW j \in Job, SameBooks \/ Settled(HomeOf(j), {})
      PROVE  All' = All /\ (HookRan' <=> HookRan) /\ \A b \in Adapter : Sees(b) \subseteq Sees(b)'
  <2> DEFINE a == HomeOf(j)
  <2>1. a \in Adapter /\ (SameBooks \/ Settled(a, {})) /\ All \cup {} = All
    BY <1>1, <1>6
  <2> HIDE DEF a
  <2>2. All' = All /\ (HookRan' <=> HookRan)
    BY <2>1, AllAfter
  <2>3. \A b \in Adapter : Sees(b) \subseteq Sees(b)'
    BY <2>1, SeesAfter
  <2>4. QED
    BY <2>2, <2>3
<1>7. CASE Aside
  <2>1. \A k \in Job : job'[k] = job[k] \/ (~ Creating(job[k]) /\ ~ Creating(job'[k]))
    BY <1>7 DEF Aside
  <2>2. ASSUME NEW j \in Job, SameBooks \/ Settled(HomeOf(j), {}) PROVE Progress(m)'
    <3>1. All' = All /\ (HookRan' <=> HookRan) /\ \A b \in Adapter : Sees(b) \subseteq Sees(b)'
      BY <1>6, <2>2
    <3>2. QED
      BY <1>3, <1>5, <2>1, <3>1, NothingMade
  <2>3. ASSUME SameBooks PROVE Progress(m)'
    <3>1. All' = All /\ (HookRan' <=> HookRan) /\ \A b \in Adapter : Sees(b) \subseteq Sees(b)'
      BY <2>3 DEF SameBooks, Spares, All, HookRan, Sees
    <3>2. QED
      BY <1>3, <1>5, <2>1, <3>1, NothingMade
  <2>4. Progress(m)'
    BY <1>7, <2>2, <2>3 DEF Aside
  <2>5. QED
    BY <2>4
<1>8. ASSUME NEW j \in Job, RollsBack(j) PROVE Progress(m)'
  <2>1. /\ Dropped(HomeOf(j)) /\ job[j].at = "rollback" /\ ~ Creating(job'[j])
        /\ \A k \in Job : k # j => job'[k] = job[k]
        /\ txn[HomeOf(j)].made = {} /\ txn[HomeOf(j)].seeds = 0
    BY <1>1, <1>4, <1>8 DEF RollsBack, Others
  <2>2. SameBooks
    BY <2>1 DEF Dropped, SameBooks, Spares
  <2>3. All' = All /\ (HookRan' <=> HookRan) /\ \A b \in Adapter : Sees(b) \subseteq Sees(b)'
    BY <1>6, <2>2
  <2>4. \A k \in Job : Creating(job[k]) => job'[k] = job[k]
    BY <2>1 DEF Creating
  <2>5. QED
    BY <1>3, <1>5, <2>1, <2>3, <2>4, NothingMade
<1>9. ASSUME NEW j \in Job, Stops(j) PROVE FALSE
  BY <1>4, <1>9 DEF Stops
<1>10. ASSUME NEW a \in Adapter, Dies(a) PROVE FALSE
  BY <1>4, <1>10 DEF Dies
<1>11. ASSUME NEW j \in Job, Loses(j) PROVE Progress(m)'
  <2>1. All' = All /\ (HookRan' <=> HookRan) /\ \A b \in Adapter : Sees(b) \subseteq Sees(b)'
    BY <1>6, <1>11 DEF Loses
  <2>2. ~ Stands(j, m + 1) /\ job[j].at = "ddl"
    BY <1>4, <1>11, Pioneers DEF Loses
  <2>3. /\ job'[j] = Idle /\ \A k \in Job : k # j => job'[k] = job[k]
    BY <1>11 DEF Loses, Others
  <2>4. \A k \in Job : job[k].at = "hook" \/ Stands(k, m + 1) => job'[k] = job[k]
    BY <2>2, <2>3
  <2>5. \A k \in Job : job'[k] = job[k] \/ ~ Creating(job'[k])
    BY <1>1, <2>3
  <2>6. QED
    BY <1>5, <2>1, <2>4, <2>5, NothingMade
<1>12. ASSUME NEW j \in Job, Hooks(j) PROVE Progress(m)'
  <2>1. /\ job[j].at = "hook" /\ ~ Creating(job'[j]) /\ Sown(HomeOf(j))
        /\ \A k \in Job : k # j => job'[k] = job[k]
    BY <1>12 DEF Hooks, Others
  <2>2. m = Len(Plan)
    BY <1>1, <2>1 DEF Progress
  <2>3. All' = All /\ HookRan' /\ \A b \in Adapter : Sees(b) \subseteq Sees(b)'
    BY <1>1, <2>1, AllAfter, SeesAfter
  <2>4. \A k \in Job : job'[k] = job[k] \/ ~ Creating(job'[k])
    BY <2>1
  <2>5. QED
    BY <1>5, <2>2, <2>3, <2>4, NothingMade
<1>13. ASSUME NEW j \in Job, Looks(j) PROVE Progress(m)'
  <2>1. /\ job[j].at = "look" /\ job'[j].at = "ddl" /\ LeftFrom(job'[j].ddl, 1) /\ SameBooks
        /\ \A k \in Job : k # j => job'[k] = job[k]
    BY <1>1, <1>13, FirstOfPlan DEF Looks, Others
  <2>2. All' = All /\ (HookRan' <=> HookRan) /\ \A b \in Adapter : Sees(b) \subseteq Sees(b)'
    BY <1>6, <2>1
  <2>3. /\ Plan' = Plan /\ \A n : First(n)' = First(n)
        /\ \A p : \A k \in Job : (Stands(k, p)' <=> job'[k].at = "ddl" /\ LeftFrom(job'[k].ddl, p))
    BY <1>5, PlanStays
  <2>4. \A p : \A k \in Job : k # j => (Stands(k, p)' <=> Stands(k, p))
    BY <2>1, <2>3 DEF Stands
  <2>5. Stands(j, 1)' /\ 1 \in 1..(m + 1)
    BY <1>1, <2>1, <2>3
  <2>6. All' = First(m)' /\ m \in 0..Len(Plan')
    BY <1>1, <2>2, <2>3 DEF Progress
  <2>7. ASSUME NEW k \in Job, job'[k].at = "ddl"
        PROVE  \E p \in 1..(m + 1) : Stands(k, p)' /\ (p = 1 \/ "table" \in Sees(HomeOf(k))')
    <3>1. CASE k = j
      BY <2>5, <3>1
    <3>2. CASE k # j
      <4>1. PICK p \in 1..(m + 1) : Stands(k, p) /\ (p = 1 \/ "table" \in Sees(HomeOf(k)))
        BY <2>1, <2>7, <3>2 DEF Progress
      <4>2. Sees(HomeOf(k)) \subseteq Sees(HomeOf(k))'
        BY <1>1, <1>5, <2>2
      <4>3. QED
        BY <2>4, <3>2, <4>1, <4>2
    <3>3. QED
      BY <3>1, <3>2
  <2>8. \A k \in Job : job'[k].at = "hook" => m = Len(Plan')
    BY <2>1, <2>3 DEF Progress
  <2>9. HookRan' => m = Len(Plan')
    BY <2>2, <2>3 DEF Progress
  <2>10. m > 0 => HookRan' \/ \E k \in Job : job'[k].at = "hook" \/ Stands(k, m + 1)'
    <3> SUFFICES ASSUME m > 0, ~ HookRan'
                 PROVE  \E k \in Job : job'[k].at = "hook" \/ Stands(k, m + 1)'
      OBVIOUS
    <3>1. PICK k \in Job : job[k].at = "hook" \/ Stands(k, m + 1)
      BY <2>2 DEF Progress
    <3>2. k # j
      BY <2>1, <3>1 DEF Stands
    <3>3. QED
      BY <2>1, <2>4, <3>1, <3>2
  <2>11. QED
    BY <2>6, <2>7, <2>8, <2>9, <2>10 DEF Progress
<1>14. ASSUME NEW j \in Job, Sends(j) PROVE \E n : Progress(n)'
  <2> DEFINE d == job[j].ddl
             a == HomeOf(j)
  <2>1. /\ job[j].at = "ddl" /\ a \in Adapter
        /\ Joined(a, Head(d).makes) \/ Settled(a, Head(d).makes)
        /\ job'[j].ddl = Tail(d)
        /\ job'[j].at = IF Tail(d) = <<>> THEN "hook" ELSE "ddl"
        /\ \A k \in Job : k # j => job'[k] = job[k]
    BY <1>1, <1>14 DEF Sends, Others
  <2>2. PICK p \in 1..(m + 1) : Stands(j, p) /\ (p = 1 \/ "table" \in Sees(a))
    BY <2>1 DEF Progress
  <2>3. /\ p \in 1..Len(Plan) /\ Head(d) = Plan[p]
        /\ p = Len(Plan) => Tail(d) = <<>>
        /\ p # Len(Plan) => Tail(d) # <<>> /\ LeftFrom(Tail(d), p + 1)
    BY <1>1, <2>2, NextOfPlan DEF Stands
  <2>4. /\ Plan' = Plan /\ \A n : First(n)' = First(n)
        /\ \A q : \A k \in Job : (Stands(k, q)' <=> job'[k].at = "ddl" /\ LeftFrom(job'[k].ddl, q))
    BY <1>5, PlanStays
  <2>5. \A q : \A k \in Job : k # j => (Stands(k, q)' <=> Stands(k, q))
    BY <2>1, <2>4 DEF Stands
  <2>6. /\ p = Len(Plan) => job'[j].at = "hook"
        /\ p # Len(Plan) => job'[j].at = "ddl" /\ Stands(j, p + 1)'
    BY <2>1, <2>3, <2>4
  <2>7. /\ First(p) = First(p - 1) \cup Plan[p].makes
        /\ \A q \in 0..m : First(q) \subseteq First(m)
    BY <1>1, <2>3, FirstParts
  <2>8. /\ All' = First(m) \cup Plan[p].makes /\ (HookRan' <=> HookRan)
        /\ \A b \in Adapter : Sees(b) \subseteq Sees(b)'
        /\ "table" \in Sees(a)'
    <3>1. Joined(a, Plan[p].makes) \/ Settled(a, Plan[p].makes)
      BY <2>1, <2>3
    <3>2. All' = First(m) \cup Plan[p].makes /\ (HookRan' <=> HookRan)
      BY <2>1, <3>1, AllAfter DEF Progress
    <3>3. Sees(a)' = Sees(a) \cup Plan[p].makes /\ \A b \in Adapter : Sees(b) \subseteq Sees(b)'
      BY <1>5, <2>1, <3>1, SeesAfter
    <3>4. "table" \in Sees(a) \cup Plan[p].makes
      BY <1>1, <2>2, PlanFacts
    <3>5. QED
      BY <3>2, <3>3, <3>4
  <2> HIDE DEF d
  <2>9. ASSUME NEW k \in Job, k # j, job'[k].at = "ddl"
        PROVE  \E q \in 1..(m + 1) : Stands(k, q)' /\ (q = 1 \/ "table" \in Sees(HomeOf(k))')
    <3>1. PICK q \in 1..(m + 1) : Stands(k, q) /\ (q = 1 \/ "table" \in Sees(HomeOf(k)))
      BY <2>1, <2>9 DEF Progress
    <3>2. Sees(HomeOf(k)) \subseteq Sees(HomeOf(k))'
      BY <1>1, <1>5, <2>8
    <3>3. QED
      BY <2>5, <2>9, <3>1, <3>2
  <2>10. CASE p <= m
    <3>1. All' = First(m)' /\ m \in 0..Len(Plan')
      <4>1. Plan[p].makes \subseteq First(p) /\ First(p) \subseteq First(m)
        BY <1>1, <2>3, <2>7, <2>10
      <4>2. QED
        BY <1>1, <2>4, <2>8, <4>1
    <3>2. p + 1 \in 1..(m + 1)
      BY <1>1, <2>2, <2>10
    <3>3. \A k \in Job : job'[k].at = "ddl" =>
            \E q \in 1..(m + 1) : Stands(k, q)' /\ (q = 1 \/ "table" \in Sees(HomeOf(k))')
      BY <2>6, <2>8, <2>9, <3>2
    <3>4. \A k \in Job : job'[k].at = "hook" => m = Len(Plan')
      <4>1. p = Len(Plan) => m = Len(Plan)
        BY <1>1, <2>3, <2>10
      <4>2. job'[j].at = "hook" => p = Len(Plan)
        BY <2>6
      <4>3. QED
        BY <2>1, <2>4, <4>1, <4>2 DEF Progress
    <3>5. ~ Stands(j, m + 1)
      <4>1. ASSUME Stands(j, m + 1) PROVE FALSE
        <5>1. Len(d) = (Len(Plan) - p) + 1 /\ Len(d) = (Len(Plan) - (m + 1)) + 1
          BY <2>2, <4>1 DEF Stands, LeftFrom, d
        <5>2. QED
          BY <1>1, <2>3, <2>10, <5>1
      <4>2. QED
        BY <4>1
    <3>6. m > 0 => HookRan' \/ \E k \in Job : job'[k].at = "hook" \/ Stands(k, m + 1)'
      <4> SUFFICES ASSUME m > 0, ~ HookRan'
                   PROVE  \E k \in Job : job'[k].at = "hook" \/ Stands(k, m + 1)'
        OBVIOUS
      <4>1. PICK k \in Job : job[k].at = "hook" \/ Stands(k, m + 1)
        BY <2>8 DEF Progress
      <4>2. k # j
        BY <2>1, <3>5, <4>1
      <4>3. QED
        BY <2>1, <2>5, <4>1, <4>2
    <3>7. HookRan' => m = Len(Plan')
      BY <2>4, <2>8 DEF Progress
    <3>8. Progress(m)'
      BY <3>1, <3>3, <3>4, <3>6, <3>7 DEF Progress
    <3>9. QED
      BY <3>8
  <2>11. CASE p = m + 1
    <3> DEFINE n == m + 1
    <3>1. n \in 1..Len(Plan) /\ n \in 0..Len(Plan') /\ p = n /\ m # Len(Plan) /\ m \in Nat
      BY <1>1, <2>3, <2>4, <2>11
    <3>2. All' = First(n)'
      <4>1. n - 1 = m
        BY <3>1
      <4>2. QED
        BY <2>4, <2>7, <2>8, <3>1, <4>1
    <3>3. (\A k \in Job : job[k].at # "hook") /\ ~ HookRan'
      BY <2>8, <3>1 DEF Progress
    <3>4. p + 1 \in 1..(n + 1) /\ \A q \in 1..(m + 1) : q \in 1..(n + 1)
      BY <3>1
    <3>5. \A k \in Job : job'[k].at = "ddl" =>
            \E q \in 1..(n + 1) : Stands(k, q)' /\ (q = 1 \/ "table" \in Sees(HomeOf(k))')
      <4>1. TAKE k \in Job
      <4>2. CASE k = j
        BY <2>6, <2>8, <3>4, <4>2
      <4>3. CASE k # j
        BY <2>9, <3>4, <4>3
      <4>4. QED
        BY <4>2, <4>3
    <3> HIDE DEF n
    <3>6. \A k \in Job : job'[k].at = "hook" => n = Len(Plan')
      BY <2>1, <2>4, <2>6, <3>1, <3>3
    <3>7. \E k \in Job : job'[k].at = "hook" \/ Stands(k, n + 1)'
      BY <2>6, <3>1
    <3>8. Progress(n)'
      BY <3>1, <3>2, <3>3, <3>5, <3>6, <3>7 DEF Progress
    <3>9. QED
      BY <3>8
  <2>12. QED
    BY <1>1, <2>2, <2>10, <2>11
<1>15. QED
  BY <1>2, <1>7, <1>8, <1>9, <1>10, <1>11, <1>12, <1>13, <1>14

(* What an adapter has lost stays lost until its process dies.              *)
LEMMA LostStaysLost ==
  ASSUME Shape, [CreationNext]_creation
  PROVE  \/ \E a \in Adapter : Restart(a)
         \/ \A a \in Adapter : adapter[a].undone => adapter'[a].undone
<1> DEFINE Stays == \A a \in Adapter : adapter[a].undone => adapter'[a].undone
<1>1. /\ adapter \in [Adapter -> Flags] /\ \A j \in Job : HomeOf(j) \in Adapter
      /\ site.home \in [Task -> Adapter]
  BY Homes DEF Shape
<1>2. UNCHANGED adapter => Stays
  OBVIOUS
<1>3. ASSUME NEW a \in Adapter, NEW v,
             \/ adapter' = [adapter EXCEPT ![a].ready = v]
             \/ adapter' = [adapter EXCEPT ![a].lazy = v]
             \/ adapter' = [adapter EXCEPT ![a] = [@ EXCEPT !.ready = v]]
      PROVE  Stays
  BY <1>1, <1>3 DEF Flags
<1>4. ASSUME NEW j \in Job, NEW marks \in SUBSET Troubles, Undoes(j, HomeOf(j), marks)
      PROVE  Stays
  <2>1. /\ \A b \in Adapter \ {HomeOf(j)} : adapter'[b] = adapter[b]
        /\ adapter[HomeOf(j)].undone => adapter'[HomeOf(j)].undone
    BY <1>1, <1>4, Undoing
  <2>2. QED
    BY <2>1
<1> HIDE DEF Stays
<1>5. ASSUME NEW j \in Job, JobStep(j) PROVE Stays
  <2>1. CASE DeferredInit(j)
    BY <1>1, <1>3, <2>1 DEF DeferredInit, Marked
  <2>2. CASE LookForTable(j) \/ RunHook(j)
    BY <1>1, <1>2, <1>3, <2>2 DEF LookForTable, RunHook, Created
  <2>3. CASE ExecuteDdl(j) \/ Operate(j) \/ KeyReturned(j) \/ TimesOut(j)
    BY <1>2, <2>3 DEF ExecuteDdl, Operate, KeyReturned, TimesOut
  <2>4. CASE EndTransaction(j)
    <3>1. {} \in SUBSET Troubles
      OBVIOUS
    <3>2. QED
      BY <1>2, <1>4, <2>4, <3>1 DEF EndTransaction
  <2>5. QED
    BY <1>5, <2>1, <2>2, <2>3, <2>4 DEF JobStep
<1>6. ASSUME NEW j \in Job, Refused(j) PROVE Stays
  <2>1. {"raised"} \in SUBSET Troubles /\ {"refused"} \in SUBSET Troubles
    BY DEF Troubles
  <2>2. QED
    BY <1>2, <1>4, <1>6, <2>1 DEF Refused
<1>7. ASSUME NEW t \in Task,
             \/ ReadPrimaryKey(t) \/ BeginTransaction(t) \/ \E f \in Frames : CallMethod(t, f)
      PROVE  Stays
  BY <1>1, <1>2, <1>3, <1>7 DEF ReadPrimaryKey, BeginTransaction, CallMethod
<1>8. UNCHANGED creation => Stays
  BY <1>2 DEF creation
<1>9. Stays \/ \E a \in Adapter : Restart(a)
  BY <1>5, <1>6, <1>7, <1>8 DEF CreationNext, Frames
<1>10. QED
  BY <1>9 DEF Stays

(* At rest the table is there with every index and the rows of the hook, or *)
(* it is not there, if nothing was lost and no creation was ended early:    *)
(* however many tasks created it.                                           *)
THEOREM WholeOrNot == CreationSpec => []TableIsWhole
<1> DEFINE Whole == ~ Is.implicit /\ NothingLost => \E m : Progress(m)
<1>1. CreationInit => Whole
  <2>1. SUFFICES ASSUME CreationInit PROVE \E m : Progress(m)
    OBVIOUS
  <2>2. /\ job = [j \in Job |-> Idle] /\ txn = [a \in Adapter |-> NoTxn]
        /\ made = {} /\ seeded = 0
    BY <2>1 DEF CreationInit, CreationStart
  <2>3. \A j \in Job : job[j].at = "idle"
    BY <2>2, IdleParts
  <2>4. \A a \in Adapter : txn[a].made = {} /\ txn[a].seeds = 0
    BY <2>2, TxnParts
  <2>5. All = {} /\ ~ HookRan
    BY <2>2, <2>4 DEF All, HookRan
  <2>6. Len(Plan) \in Nat /\ First(0) = {}
    BY <2>1, ShapeAtFirst, PlanFacts, FirstParts DEF Shape
  <2>7. Progress(0)
    BY <2>3, <2>5, <2>6 DEF Progress
  <2>8. QED
    BY <2>7
<1>2. Shape /\ Whole /\ [CreationNext]_creation => Whole'
  <2>1. SUFFICES ASSUME Shape, Whole, [CreationNext]_creation, ~ Is'.implicit, NothingLost'
                 PROVE  (\E m : Progress(m))'
    OBVIOUS
  <2>2. ~ Is.implicit
    BY <2>1, OneSite DEF Is
  <2>3. past \subseteq past' /\ past' = {}
    BY <2>1, <2>2, StepKinds
       DEF Aside, Keeps, Looks, Sends, Loses, Hooks, Stops, RollsBack, Dies, NothingLost
  <2>4. NothingLost
    BY <2>1, <2>3, LostStaysLost DEF NothingLost, Restart
  <2>5. PICK m : Progress(m)
    BY <2>1, <2>2, <2>4
  <2>6. QED
    BY <2>1, <2>2, <2>5, ProgressInductive
<1>3. Shape /\ Whole => TableIsWhole
  <2> SUFFICES ASSUME Shape, Whole, "table" \in made, NothingLost, ~ Is.implicit,
                      \A j \in Job : job[j] = Idle
               PROVE  All = Things /\ HookRan
    BY DEF TableIsWhole, All, HookRan
  <2>1. PICK m : Progress(m)
    OBVIOUS
  <2>2. m \in 0..Len(Plan) /\ All = First(m) /\ First(Len(Plan)) = Things /\ First(0) = {}
    BY <2>1, FirstParts DEF Shape, Progress
  <2>3. m > 0
    BY <2>2 DEF All
  <2>4. \A j \in Job : job[j].at = "idle"
    BY IdleParts
  <2>5. HookRan /\ m = Len(Plan)
    BY <2>1, <2>3, <2>4 DEF Progress, Stands
  <2>6. QED
    BY <2>2, <2>5
<1>4. QED
  BY <1>1, <1>2, <1>3, ShapeAtFirst, ShapeInductive, PTL DEF CreationSpec

-----------------------------------------------------------------------------
(* The first use finds the table. *)

(* The table comes first, so something is there only with the table.        *)
TableFirst ==
  /\ made # {} => "table" \in made
  /\ \A a \in Adapter : txn[a].made # {} => "table" \in Sees(a)

LEMMA TableComesFirst ==
  ASSUME Shape, ~ Is.implicit, TableFirst, [CreationNext]_creation
  PROVE  TableFirst'
<1>1. \A j \in Job : HomeOf(j) \in Adapter
  BY Homes DEF Shape
<1>2. CASE SameBooks
  <2>1. made' = made /\ \A a \in Adapter : txn'[a].made = txn[a].made
    BY <1>2 DEF SameBooks, Spares
  <2>2. QED
    BY <2>1 DEF TableFirst, Sees
<1>3. ASSUME NEW a \in Adapter, Dropped(a) PROVE TableFirst'
  <2>1. /\ made' = made /\ txn'[a].made = {}
        /\ \A b \in Adapter : b # a => txn'[b].made = txn[b].made
    BY <1>3 DEF Dropped, Spares
  <2>2. QED
    BY <2>1 DEF TableFirst, Sees
<1>4. ASSUME NEW a \in Adapter, NEW things,
             Settled(a, things), "table" \in Sees(a) \cup things \/ things = {}
      PROVE  TableFirst'
  <2>1. /\ made' = (made \cup txn[a].made) \cup things /\ txn'[a].made = {}
        /\ \A b \in Adapter : b # a => txn'[b].made = txn[b].made
    BY <1>4 DEF Settled, Spares
  <2>2. made' # {} => "table" \in made'
    BY <1>4, <2>1 DEF TableFirst, Sees
  <2>3. QED
    BY <2>1, <2>2 DEF TableFirst, Sees
<1>5. ASSUME NEW a \in Adapter, NEW things,
             Joined(a, things), "table" \in Sees(a) \cup things
      PROVE  TableFirst'
  <2>1. /\ made' = made /\ txn'[a].made = txn[a].made \cup (things \ made)
        /\ \A b \in Adapter : b # a => txn'[b].made = txn[b].made
    BY <1>5 DEF Joined, Spares
  <2>2. "table" \in made' \cup txn'[a].made
    BY <1>5, <2>1 DEF Sees
  <2>3. QED
    BY <2>1, <2>2 DEF TableFirst, Sees
<1>6. ASSUME NEW j \in Job, Sends(j) PROVE TableFirst'
  <2> DEFINE a == HomeOf(j)
             things == Head(job[j].ddl).makes
  <2>1. /\ a \in Adapter /\ "table" \in Sees(a) \cup things
        /\ Joined(a, things) \/ Settled(a, things)
    BY <1>1, <1>6 DEF Sends, Stuck
  <2> HIDE DEF a, things
  <2>2. QED
    BY <1>4, <1>5, <2>1
<1>7. CASE Aside
  BY <1>1, <1>2, <1>4, <1>7 DEF Aside
<1>8. ASSUME NEW j \in Job, Looks(j) \/ Loses(j) \/ Stops(j) \/ RollsBack(j) PROVE TableFirst'
  BY <1>1, <1>2, <1>3, <1>4, <1>8 DEF Looks, Loses, Stops, RollsBack
<1>9. ASSUME NEW j \in Job, Hooks(j) PROVE TableFirst'
  BY <1>9 DEF Hooks, Sown, TableFirst, Sees
<1>10. ASSUME NEW a \in Adapter, Dies(a) PROVE TableFirst'
  BY <1>3, <1>10 DEF Dies
<1>11. QED
  BY <1>6, <1>7, <1>8, <1>9, <1>10, StepKinds

(* A method waits for nothing but the creation that it asked for, and asks  *)
(* for it once, as the adapter counts as initialized from then on.          *)
Nested(j) ==
  /\ job[j].at \in Ends => job[j].frame = job[j].at
  /\ \/ job[j].waiting = <<>>
     \/ /\ Len(job[j].waiting) = 1 /\ job[j].frame = "create"
        /\ adapter[HomeOf(j)].ready

LEMMA Nesting ==
  ASSUME Shape, ~ Is.implicit, \A j \in Job : Nested(j), [CreationNext]_creation
  PROVE  \A j \in Job : Nested(j)'
<1>1. /\ job \in [Job -> SoundJob] /\ Is.lazily = "calls"
      /\ Idle.at = "idle" /\ Idle.waiting = <<>>
      /\ adapter \in [Adapter -> Flags] /\ \A t \in Task : t \in Job
      /\ \A j \in Job : HomeOf(j) \in Adapter /\ HomeOf(j)' = HomeOf(j)
      /\ site.home \in [Task -> Adapter]
  <2>1. site.class \in DOMAIN AdapterClasses
    BY DEF Shape, Sites
  <2>2. QED
    BY <2>1, ClassFacts, IdleParts, Homes, OneSite DEF Shape, Is, Job, HomeOf
<1>2. "idle" \notin Ends
  BY DEF Ends
(* A call that ends, and one that goes on elsewhere with who waits for it.  *)
<1>3. ASSUME NEW j \in Job, NEW r, Goes(j, r),
             \A a \in Adapter : adapter[a].ready => adapter'[a].ready,
             /\ r.at \in Ends => r.frame = r.at
             /\ \/ r.waiting = <<>>
                \/ /\ Len(r.waiting) = 1 /\ r.frame = "create"
                   /\ adapter'[HomeOf(j)].ready
      PROVE  \A k \in Job : Nested(k)'
  <2>1. job'[j] = r /\ \A k \in Job : k # j => job'[k] = job[k]
    BY <1>1, <1>3 DEF Goes
  <2>2. QED
    BY <1>1, <1>3, <2>1 DEF Nested
<1>4. UNCHANGED adapter => \A a \in Adapter : adapter[a].ready => adapter'[a].ready
  OBVIOUS
<1>5. \A a \in Adapter : adapter' = [adapter EXCEPT ![a].lazy = FALSE] =>
        \A b \in Adapter : adapter[b].ready => adapter'[b].ready
  BY <1>1 DEF Flags
<1>6. ASSUME NEW j \in Job, Goes(j, Idle),
             \A a \in Adapter : adapter[a].ready => adapter'[a].ready
      PROVE  \A k \in Job : Nested(k)'
  BY <1>1, <1>2, <1>3, <1>6
<1>7. ASSUME NEW j \in Job, Goes(j, Return(job[j])),
             \A a \in Adapter : adapter[a].ready => adapter'[a].ready
      PROVE  \A k \in Job : Nested(k)'
  <2> DEFINE w == job[j].waiting
             r == Return(job[j])
  <2>1. job[j] \in SoundJob /\ w \in Seq(Frames) /\ Len(w) <= 1
    <3>1. job[j] \in SoundJob
      BY <1>1
    <3>2. w \in Seq(Frames)
      BY <3>1 DEF SoundJob, JobRecord
    <3>3. Nested(j)
      BY <1>1
    <3>4. w = <<>> \/ Len(w) = 1
      BY <3>3 DEF Nested
    <3>5. Len(w) <= 1
      <4>1. CASE w = <<>>
        <5>1. Len(w) = 0
          BY <4>1
        <5>2. QED
          BY <5>1
      <4>2. CASE Len(w) = 1
        BY <4>2
      <4>3. QED
        BY <3>4, <4>1, <4>2
    <3>6. QED
      BY <3>1, <3>2, <3>5
  <2>2. r.waiting = <<>>
    BY <2>1, ReturnParts
  <2>3. r.at \in Ends => r.frame = r.at
    <3>1. CASE w = <<>>
      BY <1>1, <1>2, <3>1 DEF Return
    <3>2. CASE w # <<>>
      <4>1. Head(w) \in Frames /\ r.at = Body(Head(w)) /\ r.frame = Head(w)
        BY <2>1, <3>2 DEF Return, Idle
      <4>2. QED
        BY <4>1 DEF Body, Frames, Ends
    <3>3. QED
      BY <3>1, <3>2
  <2> HIDE DEF r
  <2>4. Goes(j, r)
    BY <1>7 DEF r
  <2>5. QED
    BY <1>3, <1>7, <2>2, <2>3, <2>4
<1>8. ASSUME NEW j \in Job, DeferredInit(j) PROVE \A k \in Job : Nested(k)'
  <2> DEFINE a == HomeOf(j)
             f == job[j].frame
             w == job[j].waiting
             at == Body(f)
  <2>1. /\ a \in Adapter /\ f \in Frames /\ job[j] \in SoundJob /\ job[j].at = "enter"
        /\ w \in Seq(Frames)
    BY <1>1, <1>8 DEF DeferredInit, SoundJob, JobRecord
  <2>2. adapter'[a].ready /\ \A b \in Adapter : adapter[b].ready => adapter'[b].ready
    BY <1>1, <1>8, <2>1 DEF DeferredInit, Marked, Flags
  <2>3. CASE ~ adapter[a].ready /\ Goes(j, Enters("create", <<f>> \o w))
    <3>1. w = <<>>
      BY <2>3 DEF Nested
    <3> DEFINE r == Enters("create", <<f>> \o w)
    <3>2. r.at = "enter" /\ r.frame = "create" /\ Len(r.waiting) = 1
      BY <2>1, <3>1 DEF Enters, Idle
    <3>3. r.at \notin Ends
      BY <3>2 DEF Ends
    <3> HIDE DEF r
    <3>4. Goes(j, r)
      BY <2>3 DEF r
    <3>5. QED
      BY <1>3, <2>2, <3>2, <3>3, <3>4
  <2>4. CASE Goes(j, [job[j] EXCEPT !.at = at])
    <3>1. at \in Places \ {"ddl"} /\ (at \in Ends => f = at)
      BY <2>1 DEF Places, Body, Frames, Ends
    <3> DEFINE r == [job[j] EXCEPT !.at = at]
    <3>2. r.at = at /\ r.frame = f /\ r.waiting = w
      <4> HIDE DEF at
      <4>1. QED
        BY <2>1, <3>1 DEF SoundJob, JobRecord
    <3> HIDE DEF r
    <3>3. Goes(j, r)
      BY <2>4 DEF r
    <3>4. w = <<>> \/ (Len(w) = 1 /\ f = "create")
      BY DEF Nested
    <3>5. QED
      BY <1>3, <2>2, <3>1, <3>2, <3>3, <3>4
  <2>5. QED
    BY <1>1, <1>8, <2>3, <2>4 DEF DeferredInit
<1>9. ASSUME NEW j \in Job, NEW r, Goes(j, r), r.at \in {"ddl", "hook"},
             r.frame = job[j].frame, r.waiting = job[j].waiting, UNCHANGED adapter
      PROVE  \A k \in Job : Nested(k)'
  <2>1. r.at \notin Ends
    BY <1>9 DEF Ends
  <2>2. \/ job[j].waiting = <<>>
        \/ /\ Len(job[j].waiting) = 1 /\ job[j].frame = "create"
           /\ adapter[HomeOf(j)].ready
    BY DEF Nested
  <2>3. QED
    BY <1>3, <1>9, <2>1, <2>2
<1>10. ASSUME NEW j \in Job, LookForTable(j) PROVE \A k \in Job : Nested(k)'
  <2>1. CASE Created(j) /\ Goes(j, Return(job[j]))
    BY <1>1, <1>5, <1>7, <2>1 DEF Created
  <2>2. ASSUME NEW d, UNCHANGED adapter, Goes(j, [job[j] EXCEPT !.at = "ddl", !.ddl = d])
        PROVE  \A k \in Job : Nested(k)'
    <3> DEFINE r == [job[j] EXCEPT !.at = "ddl", !.ddl = d]
    <3>1. r.at = "ddl" /\ r.frame = job[j].frame /\ r.waiting = job[j].waiting
      BY <1>1 DEF SoundJob, JobRecord
    <3> HIDE DEF r
    <3>2. Goes(j, r)
      BY <2>2 DEF r
    <3>3. QED
      BY <1>9, <2>2, <3>1, <3>2
  <2>3. QED
    BY <1>10, <2>1, <2>2 DEF LookForTable
<1>11. ASSUME NEW j \in Job, ExecuteDdl(j) PROVE \A k \in Job : Nested(k)'
  <2> DEFINE rest == Tail(job[j].ddl)
             at == IF rest = <<>> THEN "hook" ELSE "ddl"
             r == [job[j] EXCEPT !.ddl = rest, !.at = at]
  <2>1. UNCHANGED adapter /\ (Goes(j, Idle) \/ Goes(j, r))
    BY <1>11 DEF ExecuteDdl, Fails
  <2>2. r.at \in {"ddl", "hook"} /\ r.frame = job[j].frame /\ r.waiting = job[j].waiting
    <3>1. at \in {"ddl", "hook"}
      OBVIOUS
    <3> HIDE DEF at, rest
    <3>2. QED
      BY <1>1, <3>1 DEF SoundJob, JobRecord
  <2> HIDE DEF r
  <2>3. QED
    BY <1>4, <1>6, <1>9, <2>1, <2>2
<1>12. ASSUME NEW j \in Job, RunHook(j) PROVE \A k \in Job : Nested(k)'
  BY <1>1, <1>5, <1>7, <1>12 DEF RunHook, Created
<1>13. ASSUME NEW j \in Job, Operate(j) \/ KeyReturned(j) \/ TimesOut(j)
       PROVE  \A k \in Job : Nested(k)'
  BY <1>4, <1>6, <1>7, <1>13 DEF Operate, KeyReturned, TimesOut, Fails
<1>14. ASSUME NEW j \in Job, NEW marks \in SUBSET Troubles, Undoes(j, HomeOf(j), marks)
       PROVE  \A a \in Adapter : adapter[a].ready => adapter'[a].ready
  <2>1. /\ \A b \in Adapter \ {HomeOf(j)} : adapter'[b] = adapter[b]
        /\ adapter'[HomeOf(j)].ready = adapter[HomeOf(j)].ready
    BY <1>1, <1>14, Undoing
  <2>2. QED
    BY <2>1
<1>15. ASSUME NEW j \in Job, EndTransaction(j) PROVE \A k \in Job : Nested(k)'
  <2>1. {} \in SUBSET Troubles
    OBVIOUS
  <2>2. QED
    BY <1>4, <1>7, <1>14, <1>15, <2>1 DEF EndTransaction
<1>16. ASSUME NEW j \in Job, Refused(j) PROVE \A k \in Job : Nested(k)'
  <2>1. {"raised"} \in SUBSET Troubles /\ {"refused"} \in SUBSET Troubles
    BY DEF Troubles
  <2>2. QED
    BY <1>4, <1>6, <1>14, <1>16, <2>1 DEF Refused, Fails
<1>17. ASSUME NEW t \in Task, NEW f \in Frames, CallMethod(t, f)
       PROVE  \A k \in Job : Nested(k)'
  <2> DEFINE r == IF f \in Ends /\ ~ Is.whole THEN [Idle EXCEPT !.at = f, !.frame = f]
                  ELSE Enters(f, <<>>)
  <2>1. r.waiting = <<>> /\ (r.at \in Ends => r.frame = r.at)
    BY DEF Enters, Idle, Ends
  <2> HIDE DEF r
  <2>2. UNCHANGED adapter /\ Goes(t, r)
    BY <1>17 DEF CallMethod, r
  <2>3. QED
    BY <1>1, <1>3, <1>4, <2>1, <2>2
<1>18. ASSUME NEW t \in Task, ReadPrimaryKey(t) \/ BeginTransaction(t)
       PROVE  \A k \in Job : Nested(k)'
  <2>1. UNCHANGED job /\ \A a \in Adapter : adapter[a].ready => adapter'[a].ready
    BY <1>1, <1>18 DEF ReadPrimaryKey, BeginTransaction, Flags
  <2>2. QED
    BY <1>1, <2>1 DEF Nested
<1>19. ASSUME NEW a \in Adapter, Restart(a) PROVE \A k \in Job : Nested(k)'
  <2>1. TAKE k \in Job
  <2>2. CASE HomeOf(k) = a
    BY <1>1, <1>2, <1>19, <2>2 DEF Restart, Nested
  <2>3. CASE HomeOf(k) # a
    <3>1. job'[k] = job[k] /\ adapter'[HomeOf(k)] = adapter[HomeOf(k)]
      BY <1>1, <1>19, <2>3 DEF Restart
    <3>2. QED
      BY <1>1, <3>1 DEF Nested
  <2>4. QED
    BY <2>2, <2>3
<1>20. CASE UNCHANGED creation
  BY <1>1, <1>20 DEF creation, Nested
<1>21. QED
  BY <1>8, <1>10, <1>11, <1>12, <1>13, <1>15, <1>16, <1>17, <1>18, <1>19, <1>20
     DEF CreationNext, JobStep, Frames

-----------------------------------------------------------------------------
(* Adapters that create lazily, alone or on a loop that suspends none of    *)
(* them while it creates.                                                   *)
Tame ==
  ~ Is.implicit /\ site.lazy /\ Is.key # "marks" /\ (Shared(site) => Is.whole)

(* A call on its way to create the table.                                   *)
Pending(j) ==
  job[j].at \in {"look", "ddl"} \/ (job[j].at = "enter" /\ job[j].frame = "create")

Quiet == past \cap {"refused", "raised", "timed out"} = {}

(* An adapter that has not lost the table and does not find it.             *)
Lacks(a) == ~ adapter[a].undone /\ "table" \notin Sees(a)

(* It keeps the wish to create the table, and if it counts as initialized a *)
(* call is on its way to do it; no operation starts.                        *)
Wishes(a) ==
  /\ adapter[a].lazy
  /\ \A j \in Job : HomeOf(j) = a =>
       /\ job[j].at # "hook"
       /\ job[j].at = "ddl" => "table" \in Head(job[j].ddl).makes
       /\ Quiet => job[j].at \notin {"operate", "return"}
  /\ Quiet /\ adapter[a].ready => \E j \in Job : HomeOf(j) = a /\ Pending(j)

Awaited == \A a \in Adapter : Lacks(a) => Wishes(a)

(* The call that an adapter waits for is the one that is moving.            *)
LEMMA OnlyOneHere ==
  ASSUME Shape, Tame, TasksOnly, NEW j \in Job, NEW k \in Job, Runs(j), job[j].at # "idle",
         HomeOf(k) = HomeOf(j), Pending(k)
  PROVE  k = j
<1>1. CASE Shared(site)
  BY <1>1 DEF Tame, Runs, Pending
<1>2. CASE ~ Shared(site)
  BY <1>2, OneCall DEF Pending
<1>3. QED
  BY <1>1, <1>2

(* What an adapter lacks it lacked before, or its process has just started. *)
LEMMA LackedBefore ==
  ASSUME Shape, ~ Is.implicit, [CreationNext]_creation, NEW a \in Adapter, Lacks(a)'
  PROVE  Lacks(a) \/ Restart(a)
<1>1. \A j \in Job : HomeOf(j) \in Adapter
  BY Homes DEF Shape
<1>2. CASE \E b \in Adapter : Restart(b)
  <2>1. PICK b \in Adapter : Restart(b)
    BY <1>2
  <2>2. b # a => adapter'[a] = adapter[a] /\ txn'[a] = txn[a] /\ made' = made
    BY <2>1 DEF Restart, Shape
  <2>3. QED
    BY <2>1, <2>2 DEF Lacks, Sees
<1>3. CASE ~ \E b \in Adapter : Restart(b)
  <2>1. ~ adapter[a].undone
    BY <1>3, LostStaysLost DEF Lacks
  <2>2. Sees(a) \subseteq Sees(a)'
    <3>1. ASSUME NEW j \in Job, RollsBack(j) PROVE Sees(a) \subseteq Sees(a)'
      <4>1. Dropped(HomeOf(j)) /\ (a = HomeOf(j) => txn[a].made = {})
        BY <3>1 DEF RollsBack, Lacks
      <4>2. QED
        BY <1>1, <4>1 DEF Dropped, Spares, Sees
    <3>2. ASSUME SameBooks PROVE Sees(a) \subseteq Sees(a)'
      BY <3>2 DEF SameBooks, Spares, Sees
    <3>3. ASSUME NEW j \in Job, NEW things, Settled(HomeOf(j), things) \/ Joined(HomeOf(j), things)
          PROVE  Sees(a) \subseteq Sees(a)'
      BY <1>1, <3>3 DEF Settled, Joined, Spares, Sees
    <3>4. ASSUME NEW j \in Job, Hooks(j) PROVE Sees(a) \subseteq Sees(a)'
      BY <3>4 DEF Hooks, Sown, Sees
    <3>5. QED
      BY <1>3, <3>1, <3>2, <3>3, <3>4, StepKinds
         DEF Aside, Looks, Sends, Loses, Stops, Dies
  <2>3. QED
    BY <2>1, <2>2 DEF Lacks
<1>4. QED
  BY <1>2, <1>3

(* A step of j alone: it comes no further than to the creation.             *)
LEMMA StillWishes ==
  ASSUME site' = site, NEW a \in Adapter, Wishes(a), Quiet' => Quiet, adapter'[a].lazy,
         NEW j \in Job, \A k \in Job : k # j => job'[k] = job[k],
         HomeOf(j) # a => adapter'[a].ready = adapter[a].ready,
         HomeOf(j) = a =>
           /\ job'[j].at # "hook"
           /\ job'[j].at = "ddl" => "table" \in Head(job'[j].ddl).makes
           /\ Quiet' =>
                /\ job'[j].at \notin {"operate", "return"}
                /\ adapter'[a].ready =>
                     \/ job'[j].at \in {"look", "ddl"}
                     \/ job'[j].at = "enter" /\ job'[j].frame = "create"
                     \/ adapter[a].ready /\ ~ Pending(j)
  PROVE  Wishes(a)'
<1>1. \A k \in Job : HomeOf(k)' = HomeOf(k)
  BY DEF HomeOf
<1>2. \A k \in Job : k # j => (Pending(k)' <=> Pending(k))
  BY DEF Pending
<1>3. ASSUME NEW k \in Job, HomeOf(k) = a
      PROVE  /\ job'[k].at # "hook"
             /\ job'[k].at = "ddl" => "table" \in Head(job'[k].ddl).makes
             /\ Quiet' => job'[k].at \notin {"operate", "return"}
  <2>1. CASE k = j
    BY <1>3, <2>1
  <2>2. CASE k # j
    BY <1>3, <2>2 DEF Wishes
  <2>3. QED
    BY <2>1, <2>2
<1>4. ASSUME Quiet', adapter'[a].ready PROVE \E k \in Job : HomeOf(k) = a /\ Pending(k)'
  <2>1. CASE HomeOf(j) = a /\ (job'[j].at \in {"look", "ddl"}
                                \/ (job'[j].at = "enter" /\ job'[j].frame = "create"))
    BY <2>1 DEF Pending
  <2>2. CASE adapter[a].ready /\ ~ (HomeOf(j) = a /\ Pending(j))
    <3>1. PICK k \in Job : HomeOf(k) = a /\ Pending(k)
      BY <1>4, <2>2 DEF Wishes
    <3>2. QED
      BY <1>2, <2>2, <3>1
  <2>3. QED
    BY <1>4, <2>1, <2>2
<1>5. QED
  BY <1>1, <1>3, <1>4 DEF Wishes

LEMMA AwaitedInductive ==
  ASSUME Shape, Tame, TasksOnly, \A k \in Job : Nested(k), TableFirst, Awaited,
         [CreationNext]_creation
  PROVE  Awaited'
<1> SUFFICES ASSUME NEW a \in Adapter, Lacks(a)' PROVE Wishes(a)'
  BY DEF Awaited
<1>1. /\ job \in [Job -> SoundJob] /\ Idle.at = "idle" /\ Is.lazily = "calls" /\ ~ Is.implicit
      /\ adapter \in [Adapter -> Flags] /\ \A t \in Task : t \in Job
      /\ \A j \in Job : HomeOf(j) \in Adapter
      /\ site \in Sites /\ site.home \in [Task -> Adapter]
  <2>1. site.class \in DOMAIN AdapterClasses
    BY DEF Shape, Sites
  <2>2. QED
    BY <2>1, ClassFacts, IdleParts, Homes DEF Shape, Tame, Is, Job
<1>2. site' = site /\ \A j \in Job : HomeOf(j)' = HomeOf(j)
  BY OneSite DEF HomeOf
<1>3. Quiet' => Quiet
  <2>1. past \subseteq past'
    BY <1>1, StepKinds
       DEF Aside, Keeps, Looks, Sends, Loses, Hooks, Stops, RollsBack, Dies
  <2>2. QED
    BY <2>1 DEF Quiet
<1>4. CASE Restart(a)
  <2>1. /\ adapter'[a] = FreshAdapter(site)
        /\ \A k \in Job : HomeOf(k) = a => job'[k] = Idle
    BY <1>1, <1>4 DEF Restart
  <2>2. adapter'[a].lazy /\ adapter'[a].ready = FALSE
    BY <2>1 DEF FreshAdapter, Tame
  <2>3. QED
    BY <1>1, <1>2, <2>1, <2>2 DEF Wishes
<1> SUFFICES ASSUME ~ Restart(a) PROVE Wishes(a)'
  BY <1>4
<1>5. Lacks(a) /\ Wishes(a)
  BY <1>1, LackedBefore DEF Awaited
<1>6. "table" \notin Sees(a) /\ Sees(a) = {}
  BY <1>5 DEF Lacks, TableFirst, Sees
<1>7. /\ adapter[a].lazy /\ \A k \in Job : HomeOf(k) = a => job[k].at # "hook"
      /\ \A k \in Job : HomeOf(k) = a /\ job[k].at = "ddl" => "table" \in Head(job[k].ddl).makes
      /\ Quiet => \A k \in Job : HomeOf(k) = a => job[k].at \notin {"operate", "return"}
  BY <1>5 DEF Wishes
<1>8. ASSUME adapter'[a] = adapter[a], \A k \in Job : HomeOf(k) = a => job'[k] = job[k]
      PROVE  Wishes(a)'
  <2>1. \A k \in Job : HomeOf(k) = a => (Pending(k)' <=> Pending(k))
    BY <1>8 DEF Pending
  <2>2. QED
    BY <1>2, <1>3, <1>5, <1>8, <2>1 DEF Wishes
<1>9. ASSUME NEW j \in Job, NEW r, Goes(j, r)
      PROVE  job'[j] = r /\ \A k \in Job : k # j => job'[k] = job[k]
  BY <1>1, <1>9 DEF Goes
(* A step of a job of another adapter.                                      *)
<1>10. ASSUME NEW j \in Job, HomeOf(j) # a, \E r : Goes(j, r), adapter'[a] = adapter[a]
       PROVE  Wishes(a)'
  BY <1>8, <1>9, <1>10
(* A step that ends the call, or leaves it outside of the creation.         *)
<1>11. ASSUME NEW j \in Job, HomeOf(j) = a, NEW r, Goes(j, r),
              r.at \in {"idle", "look", "operate", "return", "enter"} \cup Ends,
              adapter'[a].lazy, adapter'[a].ready = adapter[a].ready,
              Quiet' => r.at \in {"idle", "enter"} \cup Ends /\ ~ Pending(j)
       PROVE  Wishes(a)'
  <2>1. job'[j] = r /\ \A k \in Job : k # j => job'[k] = job[k]
    BY <1>9, <1>11
  <2>2. r.at # "hook" /\ r.at # "ddl" /\ (Quiet' => r.at \notin {"operate", "return"})
    BY <1>11 DEF Ends
  <2>3. QED
    BY <1>2, <1>3, <1>5, <1>11, <2>1, <2>2, StillWishes
(* A step that takes the call towards the creation.                         *)
<1>12. ASSUME NEW j \in Job, HomeOf(j) = a, NEW r, Goes(j, r), adapter'[a].lazy,
              \/ r.at = "look"
              \/ r.at = "enter" /\ r.frame = "create"
              \/ r.at = "ddl" /\ "table" \in Head(r.ddl).makes
       PROVE  Wishes(a)'
  <2>1. job'[j] = r /\ \A k \in Job : k # j => job'[k] = job[k]
    BY <1>9, <1>12
  <2>2. QED
    BY <1>2, <1>3, <1>5, <1>12, <2>1, StillWishes
<1>13. ASSUME NEW j \in Job, DeferredInit(j), Runs(j) PROVE Wishes(a)'
  <2> DEFINE f == job[j].frame
             w == <<f>> \o job[j].waiting
             at == Body(f)
  <2>1. /\ f \in Frames /\ job[j] \in SoundJob /\ job[j].at = "enter"
    BY <1>1, <1>13 DEF DeferredInit, SoundJob, JobRecord
  <2>2. /\ adapter'[a].lazy = adapter[a].lazy
        /\ HomeOf(j) # a => adapter'[a] = adapter[a]
        /\ HomeOf(j) = a => adapter'[a].ready = TRUE
    BY <1>1, <1>13 DEF DeferredInit, Marked, Flags
  <2>3. \E r : Goes(j, r)
    BY <1>1, <1>13 DEF DeferredInit
  <2>4. CASE HomeOf(j) # a
    BY <1>10, <2>2, <2>3, <2>4
  <2>5. CASE HomeOf(j) = a /\ Goes(j, Enters("create", w))
    <3>1. Enters("create", w).at = "enter" /\ Enters("create", w).frame = "create"
      BY DEF Enters, Idle
    <3>2. QED
      BY <1>7, <1>12, <2>2, <2>5, <3>1
  <2>6. CASE /\ HomeOf(j) = a /\ ~ (~ adapter[a].ready /\ adapter[a].lazy)
             /\ Goes(j, [job[j] EXCEPT !.at = at])
    <3>1. /\ at \in Places \ {"ddl"} /\ (f = "create" => at = "look")
          /\ at \in {"look", "operate", "return"} \cup Ends
      BY <2>1, BodyParts DEF Places, Body, Ends
    <3> HIDE DEF at
    <3> DEFINE r == [job[j] EXCEPT !.at = at]
    <3>2. r.at = at
      BY <2>1, <3>1, GoesOn
    <3> HIDE DEF r
    <3>3. Goes(j, r)
      BY <2>6 DEF r
    <3>4. adapter[a].ready
      BY <1>7, <2>6
    <3>5. ASSUME Quiet' PROVE f = "create"
      <4>1. PICK k \in Job : HomeOf(k) = a /\ Pending(k)
        BY <1>3, <1>5, <3>4, <3>5 DEF Wishes
      <4>2. k = j
        BY <1>13, <2>1, <2>6, <4>1, OnlyOneHere
      <4>3. QED
        BY <2>1, <4>1, <4>2 DEF Pending
    <3>6. CASE Quiet'
      BY <1>7, <1>12, <2>2, <2>6, <3>1, <3>2, <3>3, <3>5, <3>6
    <3>7. CASE ~ Quiet'
      BY <1>7, <1>11, <2>2, <2>6, <3>1, <3>2, <3>3, <3>4, <3>7
    <3>8. QED
      BY <3>6, <3>7
  <2>7. QED
    BY <1>1, <1>13, <2>4, <2>5, <2>6 DEF DeferredInit
<1>14. ASSUME NEW j \in Job, LookForTable(j) PROVE Wishes(a)'
  <2>1. job[j].at = "look" /\ job[j] \in SoundJob
    BY <1>1, <1>14 DEF LookForTable
  <2>2. CASE HomeOf(j) # a
    <3>1. adapter'[a] = adapter[a]
      BY <1>1, <1>14, <2>2 DEF LookForTable, Created
    <3>2. \E r : Goes(j, r)
      BY <1>14 DEF LookForTable
    <3>3. QED
      BY <1>10, <2>2, <3>1, <3>2
  <2>3. CASE HomeOf(j) = a
    <3>1. UNCHANGED adapter
      BY <1>6, <1>14, <2>3 DEF LookForTable
    <3>2. PICK d \in Is.ddl[site.indexes] : Goes(j, [job[j] EXCEPT !.at = "ddl", !.ddl = d])
      BY <1>6, <1>14, <2>3 DEF LookForTable
    <3>3. d = Plan /\ LeftFrom(d, 1) /\ d \in Seq(Statements) /\ d # <<>>
      <4>1. d = Plan /\ LeftFrom(d, 1)
        BY <1>1, FirstOfPlan
      <4>2. QED
        BY <1>1, <4>1, NextOfPlan DEF LeftFrom
    <3>4. "table" \in Head(d).makes
      BY <1>1, <3>3, NextOfPlan, PlanFacts
    <3> DEFINE r == [job[j] EXCEPT !.at = "ddl", !.ddl = d]
    <3>5. r.at = "ddl" /\ r.ddl = d
      BY <2>1, <3>3, StartParts
    <3> HIDE DEF r
    <3>6. Goes(j, r)
      BY <3>2 DEF r
    <3>7. QED
      BY <1>7, <1>12, <2>3, <3>1, <3>4, <3>5, <3>6
  <2>4. QED
    BY <2>2, <2>3
<1>15. ASSUME NEW j \in Job, ExecuteDdl(j) PROVE Wishes(a)'
  <2>1. job[j] \in SoundJob /\ job[j].at = "ddl" /\ UNCHANGED adapter
    BY <1>1, <1>15 DEF ExecuteDdl
  <2>2. CASE HomeOf(j) # a
    <3>1. \E r : Goes(j, r)
      BY <1>15 DEF ExecuteDdl, Fails
    <3>2. QED
      BY <1>10, <2>1, <2>2, <3>1
  <2>3. CASE HomeOf(j) = a
    <3> DEFINE things == Head(job[j].ddl).makes
    <3>1. "table" \in things /\ things \cap Sees(a) = {} /\ things \subseteq Things
      BY <1>6, <1>7, <2>1, <2>3, SentParts DEF Statements
    <3>2. IF JoinsTxn(a)
          THEN /\ txn' = [txn EXCEPT ![a].made = @ \cup (things \ made),
                                     ![a].at = IF things \subseteq Sees(a) THEN @
                                               ELSE "written"]
               /\ UNCHANGED <<made, seeded>>
          ELSE Commits(a, things)
      BY <1>15, <2>3, <3>1 DEF ExecuteDdl
    <3> HIDE DEF things
    <3>3. Joined(a, things) \/ Settled(a, things)
      BY <3>1, <3>2, Joining, Committing
    <3>4. "table" \in Sees(a)'
      BY <3>1, <3>3, SeesAfter
    <3>5. QED
      BY <3>4 DEF Lacks
  <2>4. QED
    BY <2>2, <2>3
<1>16. ASSUME NEW j \in Job, RunHook(j) PROVE Wishes(a)'
  <2>1. HomeOf(j) # a
    BY <1>7, <1>16 DEF RunHook
  <2>2. adapter'[a] = adapter[a] /\ \E r : Goes(j, r)
    BY <1>1, <1>16, <2>1 DEF RunHook, Created
  <2>3. QED
    BY <1>10, <2>1, <2>2
<1>17. ASSUME NEW j \in Job, Operate(j) \/ KeyReturned(j) PROVE Wishes(a)'
  <2>1. /\ job[j].at \in {"operate", "return"} /\ UNCHANGED adapter /\ job[j] \in SoundJob
        /\ Goes(j, Return(job[j])) \/ Goes(j, Idle)
    BY <1>1, <1>17 DEF Operate, KeyReturned
  <2>2. CASE HomeOf(j) # a
    BY <1>10, <2>1, <2>2
  <2>3. CASE HomeOf(j) = a
    <3>1. ~ Quiet'
      BY <1>3, <1>7, <2>1, <2>3
    <3>2. /\ Return(job[j]).at \in {"idle", "look", "operate", "return"} \cup Ends
      BY <2>1, ReturnParts
    <3>3. QED
      BY <1>1, <1>7, <1>11, <2>1, <2>3, <3>1, <3>2
  <2>4. QED
    BY <2>2, <2>3
<1>18. ASSUME NEW j \in Job, NEW marks \in SUBSET Troubles, Undoes(j, HomeOf(j), marks)
       PROVE  /\ adapter'[a].lazy = adapter[a].lazy /\ adapter'[a].ready = adapter[a].ready
              /\ HomeOf(j) # a => adapter'[a] = adapter[a]
  <2>1. HomeOf(j) \in Adapter
    BY <1>1
  <2>2. QED
    BY <1>18, <2>1, Undoing
<1>19. ASSUME NEW j \in Job, EndTransaction(j) PROVE Wishes(a)'
  <2>1. /\ job[j].at \in Ends /\ Goes(j, Return(job[j]))
        /\ adapter'[a].lazy = adapter[a].lazy /\ adapter'[a].ready = adapter[a].ready
        /\ HomeOf(j) # a => adapter'[a] = adapter[a]
    <3>1. {} \in SUBSET Troubles
      OBVIOUS
    <3>2. QED
      BY <1>18, <1>19, <3>1 DEF EndTransaction, Ends
  <2>2. Return(job[j]) = Idle
    BY <2>1 DEF Nested, Return, Ends
  <2>3. ~ Pending(j)
    BY <2>1 DEF Pending, Ends
  <2>4. QED
    BY <1>1, <1>7, <1>10, <1>11, <2>1, <2>2, <2>3
<1>20. ASSUME NEW j \in Job, Goes(j, Idle), adapter'[a].lazy = adapter[a].lazy,
              adapter'[a].ready = adapter[a].ready,
              HomeOf(j) # a => adapter'[a] = adapter[a],
              HomeOf(j) = a => ~ Quiet'
       PROVE  Wishes(a)'
  BY <1>1, <1>7, <1>10, <1>11, <1>20
<1>21. ASSUME NEW j \in Job, TimesOut(j) PROVE Wishes(a)'
  <2>1. Goes(j, Idle) /\ UNCHANGED adapter /\ job[j].at \in {"ddl", "hook", "operate"}
    BY <1>21 DEF TimesOut, Fails, Waits
  <2>2. HomeOf(j) = a => ~ Quiet'
    <3>1. job[j].at # "operate" => ~ Quiet'
      BY <1>21 DEF TimesOut, Quiet
    <3>2. QED
      BY <1>3, <1>7, <3>1
  <2>3. QED
    BY <1>20, <2>1, <2>2
<1>22. ASSUME NEW j \in Job, Refused(j) PROVE Wishes(a)'
  <2> DEFINE mark == IF job[j].at = "hook" THEN "raised" ELSE "refused"
  <2>1. Goes(j, Idle) /\ mark \in {"raised", "refused"} /\ {mark} \in SUBSET Troubles
    BY <1>22 DEF Refused, Fails, Troubles
  <2>2. \/ past' = past \cup {mark} /\ UNCHANGED adapter
        \/ Undoes(j, HomeOf(j), {mark})
    BY <1>22 DEF Refused
  <2> HIDE DEF mark
  <2>3. mark \in past'
    BY <2>2 DEF Undoes
  <2>4. ~ Quiet'
    BY <2>1, <2>3 DEF Quiet
  <2>5. /\ adapter'[a].lazy = adapter[a].lazy /\ adapter'[a].ready = adapter[a].ready
        /\ HomeOf(j) # a => adapter'[a] = adapter[a]
    BY <1>18, <2>1, <2>2
  <2>6. QED
    BY <1>20, <2>1, <2>4, <2>5
<1>23. ASSUME NEW t \in Task, NEW f \in Frames, CallMethod(t, f) PROVE Wishes(a)'
  <2> DEFINE r == IF f \in Ends /\ ~ Is.whole THEN [Idle EXCEPT !.at = f, !.frame = f]
                  ELSE Enters(f, <<>>)
  <2>1. r.at \in {"enter"} \cup Ends
    BY DEF Enters, Idle
  <2> HIDE DEF r
  <2>2. UNCHANGED adapter /\ Goes(t, r) /\ t \in Job /\ ~ Pending(t)
    BY <1>1, <1>23 DEF CallMethod, r, Pending
  <2>3. CASE HomeOf(t) # a
    BY <1>10, <2>2, <2>3
  <2>4. CASE HomeOf(t) = a
    BY <1>7, <1>11, <2>1, <2>2, <2>4
  <2>5. QED
    BY <2>3, <2>4
<1>24. CASE UNCHANGED creation \/ \E t \in Task : ReadPrimaryKey(t) \/ BeginTransaction(t)
  BY <1>8, <1>24 DEF creation, ReadPrimaryKey, BeginTransaction, Tame
<1>25. ASSUME NEW b \in Adapter, Restart(b) PROVE Wishes(a)'
  <2>1. b # a
    BY <1>25
  <2>2. adapter'[a] = adapter[a] /\ \A k \in Job : HomeOf(k) = a => job'[k] = job[k]
    BY <1>1, <1>25, <2>1 DEF Restart
  <2>3. QED
    BY <1>8, <2>2
<1>26. QED
  BY <1>13, <1>14, <1>15, <1>16, <1>17, <1>19, <1>21, <1>22, <1>23, <1>24, <1>25
     DEF CreationNext, JobStep, Frames

(* An operation of an adapter that creates lazily finds the table, also     *)
(* after its creation lost a race or its process was restarted, unless its  *)
(* connection has rolled back what it had created.                          *)
THEOREM TableIsFound == CreationSpec => FirstUseFindsTable
<1> DEFINE Found == ~ Is.implicit =>
                      TasksOnly /\ (\A j \in Job : Nested(j)) /\ TableFirst
           Waited == Tame => Awaited
           Finds(t) ==
             LET a == adapter[site.home[t]] IN
             /\ Operate(t) /\ site.lazy /\ ~ Is.implicit /\ Is.key # "marks"
             /\ ~ a.undone
             /\ a.lazy => past \cap {"refused", "raised", "timed out"} = {}
             /\ Shared(site) => Is.whole
             => "table" \in Sees(site.home[t])
<1>1. CreationInit => Found /\ Waited
  <2> SUFFICES ASSUME NEW s \in Sites, CreationStart(s) PROVE Found /\ Waited
    BY DEF CreationInit
  <2>1. /\ job = [j \in Job |-> Idle] /\ txn = [b \in Adapter |-> NoTxn]
        /\ made = {} /\ site = s
        /\ \A b \in Adapter : adapter[b].lazy = s.lazy /\ adapter[b].ready = FALSE
    BY DEF CreationStart, FreshAdapter
  <2>2. \A j \in Job : job[j].at = "idle" /\ job[j].waiting = <<>>
    BY <2>1, IdleParts
  <2>3. \A b \in Adapter : txn[b].made = {}
    BY <2>1, TxnParts
  <2>4. Found
    BY <2>1, <2>2, <2>3 DEF TasksOnly, Nested, Ends, TableFirst
  <2>5. Waited
    BY <2>1, <2>2 DEF Tame, Awaited, Wishes
  <2>6. QED
    BY <2>4, <2>5
<1>2. Shape /\ Found /\ Waited /\ [CreationNext]_creation => Found' /\ Waited'
  <2> SUFFICES ASSUME Shape, Found, Waited, [CreationNext]_creation PROVE Found' /\ Waited'
    OBVIOUS
  <2>1. site' = site
    BY OneSite
  <2>2. Is' = Is /\ Tame' = Tame
    BY <2>1 DEF Is, Tame, Shared, Together
  <2>3. Found'
    BY <2>2, TasksCall, Nesting, TableComesFirst
  <2>4. Waited'
    <3>1. SUFFICES ASSUME Tame PROVE Awaited'
      BY <2>2
    <3>2. QED
      BY <3>1, AwaitedInductive DEF Tame
  <2>5. QED
    BY <2>3, <2>4
<1>3. Shape /\ Found /\ Waited /\ [CreationNext]_creation => [\A t \in Task : Finds(t)]_creation
  <2> SUFFICES ASSUME Shape, Waited, NEW t \in Task, Operate(t), site.lazy,
                      ~ Is.implicit, Is.key # "marks", ~ adapter[site.home[t]].undone,
                      adapter[site.home[t]].lazy =>
                        past \cap {"refused", "raised", "timed out"} = {},
                      Shared(site) => Is.whole
               PROVE  "table" \in Sees(site.home[t])
    OBVIOUS
  <2>1. Awaited /\ t \in Job /\ job[t].at = "operate" /\ HomeOf(t) = site.home[t]
    BY DEF Tame, Operate, Job, HomeOf
  <2>2. site.home[t] \in Adapter
    BY Homes DEF Shape
  <2>3. Lacks(site.home[t]) => FALSE
    BY <2>1, <2>2 DEF Awaited, Wishes, Quiet
  <2>4. QED
    BY <2>3 DEF Lacks
<1>4. QED
  BY <1>1, <1>2, <1>3, ShapeAtFirst, ShapeInductive, PTL DEF CreationSpec, FirstUseFindsTable
=============================================================================
