---------------------------- MODULE Translation ----------------------------
(***************************************************************************)
(* The translation layer: what a field's value becomes on its way into a    *)
(* store and back (translation/utils.py, datetime_utils.py and the JSON     *)
(* encoder and decoder), containers and whole entities.  No state: the      *)
(* functions are pure, and the module checks them against each other over a *)
(* bounded set of typed values.  A JSON document is a text, and so is what  *)
(* the JSON encoder marks in it.                                            *)
(***************************************************************************)
EXTENDS Scalars, Sequences, FiniteSets

Tagged(v) == [str |-> [marked |-> v]]
Json(v) == [str |-> [json |-> v]]

\* a type hint: its origin and its arguments
Hint(t, args) == [of |-> t, args |-> args]
Scalar(t) == Hint(t, <<>>)
Containers == {"list", "tuple", "set", "dict"}
Deunionize(h) == IF h.of = "optional" THEN h.args[1] ELSE h

\* apply Op to every element of a container, to every value of a dict
Over(v, Op(_)) ==
    CASE OfType(v, "list") -> [list |-> [i \in DOMAIN v.list |-> Op(v.list[i])]]
      [] OfType(v, "tuple") -> [tuple |-> [i \in DOMAIN v.tuple |-> Op(v.tuple[i])]]
      [] OfType(v, "set") -> [set |-> {Op(e) : e \in v.set}]
      [] OfType(v, "dict") -> [dict |-> [k \in DOMAIN v.dict |-> Op(v.dict[k])]]
Holds(v) == \E t \in Containers : OfType(v, t)

(***************************** JSON documents ******************************)

RECURSIVE Encode(_)
Encode(v) ==
    CASE OfType(v, "datetime") -> Tagged([datetime |-> EnsureUtcAware(v.datetime)])
      [] OfType(v, "time") -> Tagged([time |-> SpelledTime(v.time)])
      [] \E t \in {"date", "decimal", "uuid", "bytes"} : OfType(v, t) -> Tagged(v)
      [] OfType(v, "set") \/ OfType(v, "tuple") -> Tagged(Over(v, Encode))
      [] OfType(v, "list") \/ OfType(v, "dict") -> Over(v, Encode)
      [] OTHER -> v

RECURSIVE Decode(_)
Decode(d) ==
    IF OfType(d, "str") /\ OfType(d.str, "marked")
    THEN LET v == d.str.marked IN
         CASE OfType(v, "datetime") -> [datetime |-> EnsureUtcAware(v.datetime)]
           [] Holds(v) -> Over(v, Decode)
           [] OTHER -> v
    ELSE IF Holds(d) THEN Over(d, Decode) ELSE d

(********************************* writing *********************************)

ToSql(store, v, hint) ==
    LET h == Deunionize(hint) IN
    IF ~ Absent(v) /\ h.of \in Containers /\ h.args # <<>> THEN Json(Encode(v))
    ELSE WriteScalar(store, v, h.of)

ToSqlObject(v, hint) == ToSql("sqlite", v, hint)
\* MUTANT of ToMysqlObject: SQLite's policy, whose offset the driver drops
KeptMysqlObject(v, hint) == ToSql("sqlite", v, hint)
ToMysqlObject(v, hint) == ToSql("mysql", v, hint)
ToChsqlObject(v, hint) == ToSql("chsql", v, hint)
ToMssqlObject(v, hint) == ToSql("mssql", v, hint)
ToMssqlUtcObject(v, hint) == ToSql("mssqlUtc", v, hint)

\* a set becomes a list in some order
Listed(S) == CHOOSE s \in [1..Cardinality(S) -> S] : {s[i] : i \in DOMAIN s} = S

\* element hints are passed down but the value's own type decides
RECURSIVE ToBson(_)
ToBson(v) ==
    CASE OfType(v, "set") -> Over([list |-> Listed(v.set)], ToBson)
      [] \E t \in {"list", "tuple", "dict"} : OfType(v, t) -> Over(v, ToBson)
      [] OTHER -> WriteScalar("bson", v, {})
ToBsonObject(v, hint) == ToBson(v)

\* the top-level value only: what a container holds is left as it is
ToJsonValue(v, hint) ==
    IF OfType(v, "set") THEN [list |-> Listed(v.set)] ELSE WriteScalar("json", v, {})

(********************************* reading *********************************)

\* hint(d): a document of another container type is turned into the hinted one
Recast(d, of) ==
    IF OfType(d, of) \/ of = "dict" THEN d
    ELSE LET elements == CASE OfType(d, "list") -> d.list
                           [] OfType(d, "tuple") -> d.tuple
                           [] OfType(d, "set") -> Listed(d.set)
         IN  CASE of = "list" -> [list |-> elements]
               [] of = "tuple" -> [tuple |-> elements]
               [] of = "set" -> [set |-> {elements[i] : i \in DOMAIN elements}]

\* inside a container the provider is forgotten: elements are read as JSON is
Elements == "json"
ElementHint(h) == h.args[IF h.of = "dict" THEN 2 ELSE 1]
Untyped(h) ==
    IF h.of = "dict" THEN Len(h.args) < 2 \/ \E i \in 1..2 : h.args[i].of = "any"
    ELSE h.args[1].of = "any"
SameFamily(v, of) ==
    IF of = "dict" THEN OfType(v, "dict") ELSE \E t \in {"list", "tuple", "set"} : OfType(v, t)

RECURSIVE ToPyObject(_, _, _)
ToPyObject(v, hint, from) ==
    LET h == Deunionize(hint) IN
    IF Absent(v) \/ h.of \notin Containers THEN ReadScalar(v, h.of, from)
    ELSE IF OfType(v, "str") THEN Recast(Decode(v.str.json), h.of)
    ELSE IF h.args = <<>> THEN v
    ELSE IF ~SameFamily(v, h.of) THEN None
    ELSE IF Untyped(h) THEN v
    ELSE Recast(Over(v, LAMBDA e : ToPyObject(e, ElementHint(h), Elements)), h.of)

\* the compiled converter: the hint resolved once, with its element converter
RECURSIVE CompileConverter(_, _)
CompileConverter(hint, from) ==
    LET h == Deunionize(hint) IN
    [of |-> h.of, from |-> from, typed |-> h.args # <<>>,
     element |-> IF h.of \notin Containers \/ h.args = <<>> \/ Untyped(h) THEN <<>>
                 ELSE <<CompileConverter(ElementHint(h), Elements)>>]

RECURSIVE Convert(_, _)
Convert(c, v) ==
    IF Absent(v) \/ c.of \notin Containers THEN ReadScalar(v, c.of, c.from)
    ELSE IF OfType(v, "str") THEN Recast(Decode(v.str.json), c.of)
    ELSE IF ~c.typed THEN v
    ELSE IF ~SameFamily(v, c.of) THEN None
    ELSE IF c.element = <<>> THEN v
    ELSE Recast(Over(v, LAMBDA e : Convert(c.element[1], e)), c.of)

CompileHydratePlan(spec, from) ==
    [i \in DOMAIN spec.order |->
        LET n == spec.order[i] IN
        [name |-> n,
         convert |-> IF spec.fields[n].mapped THEN <<CompileConverter(spec.attrs[n], from)>> ELSE <<>>]]

(******************************** entities *********************************)

\* an entity is the function of the attributes it has
Splat(e, spec, attrs, To(_, _)) ==
    LET written == {n \in DOMAIN spec.attrs \cap attrs \cap DOMAIN spec.fields :
                        /\ spec.fields[n].mapped
                        /\ n \in DOMAIN e \/ spec.fields[n].nullable}
    IN  [n \in written |-> IF n \in DOMAIN e THEN To(e[n], spec.attrs[n]) ELSE None]

SplatSqlite(e, spec, attrs) == Splat(e, spec, attrs, ToSqlObject)
SplatMysql(e, spec, attrs) == Splat(e, spec, attrs, ToMysqlObject)
SplatChsql(e, spec, attrs) == Splat(e, spec, attrs, ToChsqlObject)
SplatMssql(e, spec, attrs) == Splat(e, spec, attrs, ToMssqlObject)
SplatMssqlUtc(e, spec, attrs) == Splat(e, spec, attrs, ToMssqlUtcObject)
SplatMongodb(e, spec, attrs) == Splat(e, spec, attrs, ToBsonObject)
SplatJson(e, spec, attrs) == Splat(e, spec, attrs, ToJsonValue)

Splatted(e, spec, attrs, store) ==
    CASE store = "sqlite" -> SplatSqlite(e, spec, attrs)
      [] store = "mysql" -> SplatMysql(e, spec, attrs)
      [] store = "chsql" -> SplatChsql(e, spec, attrs)
      [] store = "mssql" -> SplatMssql(e, spec, attrs)
      [] store = "mssqlUtc" -> SplatMssqlUtc(e, spec, attrs)
      [] store = "bson" -> SplatMongodb(e, spec, attrs)
      [] store = "json" -> SplatJson(e, spec, attrs)

\* unmapped fields and names without a hint are skipped
HydrateFrom(e, data, spec, attrs, from) ==
    LET taken == {n \in DOMAIN data \cap attrs \cap DOMAIN spec.attrs :
                      n \in DOMAIN spec.fields => spec.fields[n].mapped}
    IN  [n \in DOMAIN e \cup taken |->
            IF n \in taken THEN ToPyObject(data[n], spec.attrs[n], from) ELSE e[n]]

HydrateSqlite(e, data, spec, attrs) == HydrateFrom(e, data, spec, attrs, "sqlite")
HydrateMysql(e, data, spec, attrs) == HydrateFrom(e, data, spec, attrs, "mysql")
HydrateChsql(e, data, spec, attrs) == HydrateFrom(e, data, spec, attrs, "chsql")
HydrateMssql(e, data, spec, attrs, type) ==
    HydrateFrom(e, data, spec, attrs, IF type = "DATETIMEOFFSET" THEN "mssql" ELSE "mssqlUtc")
HydrateMongodb(e, data, spec, attrs) == HydrateFrom(e, data, spec, attrs, "bson")
HydrateJson(e, data, spec, attrs) == HydrateFrom(e, data, spec, attrs, "json")

Hydrated(e, data, spec, attrs, store) ==
    CASE store = "sqlite" -> HydrateSqlite(e, data, spec, attrs)
      [] store = "mysql" -> HydrateMysql(e, data, spec, attrs)
      [] store = "chsql" -> HydrateChsql(e, data, spec, attrs)
      [] store = "mssql" -> HydrateMssql(e, data, spec, attrs, "DATETIMEOFFSET")
      [] store = "mssqlUtc" -> HydrateMssql(e, data, spec, attrs, "DATETIME2")
      [] store = "bson" -> HydrateMongodb(e, data, spec, attrs)
      [] store = "json" -> HydrateJson(e, data, spec, attrs)

\* the SQL adapters: the columns are every field, in order, the unmapped too
ColumnValues(columns, data) ==
    [i \in DOMAIN columns |-> IF columns[i] \in DOMAIN data THEN data[columns[i]] ELSE None]

HydrateRow(plan, row, spec) ==
    [n \in {plan[i].name : i \in DOMAIN plan} |->
        LET i == CHOOSE j \in DOMAIN plan : plan[j].name = n
            v == IF plan[i].convert = <<>> THEN None ELSE Convert(plan[i].convert[1], row[i])
        IN  IF v = None THEN spec.fields[n].default ELSE v]

\* the MongoDB adapters: by name, and only what is not there is defaulted
HydrateDoc(plan, doc, spec) ==
    [n \in {plan[i].name : i \in DOMAIN plan} |->
        LET i == CHOOSE j \in DOMAIN plan : plan[j].name = n IN
        IF plan[i].convert = <<>> \/ n \notin DOMAIN doc THEN spec.fields[n].default
        ELSE Convert(plan[i].convert[1], doc[n])]

(****************************** the stores *********************************)

\* PyMongo hands back no tuples
RECURSIVE FromBson(_)
FromBson(v) ==
    CASE OfType(v, "tuple") -> Over([list |-> v.tuple], FromBson)
      [] OfType(v, "list") \/ OfType(v, "dict") -> Over(v, FromBson)
      [] OTHER -> ReturnedScalar("bson", v)

Returned(store, v) == IF store = "bson" THEN FromBson(v) ELSE ReturnedScalar(store, v)

(**************************** values and promise ***************************)

ScalarHints == {Scalar(t) : t \in ScalarTypes}

\* some of ScalarsOf(t)
ScalarValues(t) ==
    CASE t = "int" -> {[int |-> 0], [int |-> 1]}
      [] t = "str" -> {Plain("a"), Plain("1")}
      [] t = "bool" -> {[bool |-> TRUE], [bool |-> FALSE]}
      [] t = "datetime" -> {Datetime(5, {}), Datetime(5, {0}), Datetime(1, {2})}
      [] t = "time" -> {[time |-> [hour |-> 10, off |-> {}]], [time |-> [hour |-> 10, off |-> {0}]]}
      [] t = "uuid" -> {[uuid |-> 1]}
      [] t = "date" -> {[date |-> 0], [date |-> 1]}
      [] t = "timedelta" -> {[timedelta |-> 0], [timedelta |-> 1]}
      [] t = "decimal" -> {[decimal |-> 1]}
      [] t = "enum" -> {[enum |-> 0], [enum |-> 1]}
      [] t = "bytes" -> {[bytes |-> 1]}

RECURSIVE Values(_)
Values(h) ==
    CASE h.of = "optional" -> {None} \cup Values(h.args[1])
      [] h.of \in {"list", "tuple"} ->
            {[n \in {h.of} |-> s] : s \in {<<>>} \cup UNION {[1..k -> Values(h.args[1])] : k \in 1..2}}
      [] h.of = "set" -> {[set |-> S] : S \in SUBSET Values(h.args[1])}
      [] h.of = "dict" -> {[dict |-> f] : f \in UNION {[K -> Values(h.args[2])] : K \in SUBSET {"k"}}}
      [] OTHER -> ScalarValues(h.of)

Nestings(H) ==
    {Hint("optional", <<h>>) : h \in H} \cup {Hint(c, <<h>>) : c \in {"list", "tuple", "set"}, h \in H}
        \cup {Hint("dict", <<Scalar("str"), h>>) : h \in H}

\* ClickHouse has native containers, and JSON documents hold no enums or timedeltas.
RECURSIVE Mentions(_, _)
Mentions(h, T) == h.of \in T \/ \E i \in DOMAIN h.args : Mentions(h.args[i], T)

Hints ==
    ScalarHints \cup Nestings(ScalarHints)
        \cup {Hint("list", <<h>>) : h \in Nestings({Scalar("datetime"), Scalar("date")})}
        \cup {Hint("dict", <<Scalar("str"), Hint("list", <<Scalar("uuid")>>)>>)}

Stored(store, hint) ==
    LET h == Deunionize(hint) IN
    CASE store \in {"bson", "json"} -> TRUE
      [] h.of \in Containers -> store # "chsql" /\ ~Mentions(h, {"enum", "timedelta"})
      [] OTHER -> ScalarStored(store, h.of)

RECURSIVE Promised(_, _)
Promised(v, store) ==
    IF Holds(v) THEN Over(v, LAMBDA e : Promised(e, store)) ELSE PromisedScalar(v, store)

RECURSIVE AllAware(_)
AllAware(v) ==
    CASE OfType(v, "datetime") -> v.datetime.off # {}
      [] OfType(v, "list") -> \A i \in DOMAIN v.list : AllAware(v.list[i])
      [] OfType(v, "tuple") -> \A i \in DOMAIN v.tuple : AllAware(v.tuple[i])
      [] OfType(v, "set") -> \A e \in v.set : AllAware(e)
      [] OfType(v, "dict") -> \A k \in DOMAIN v.dict : AllAware(v.dict[k])
      [] OTHER -> TRUE

Same(v, w, store) == Promised(v, store) = Promised(w, store) /\ AllAware(w)

\* an entity with the value in its second field, after a field that is not mapped
SpecOf(h) ==
    [order |-> <<"secret", "x">>,
     attrs |-> [n \in {"secret", "x"} |-> IF n = "x" THEN h ELSE Scalar("str")],
     fields |-> [n \in {"secret", "x"} |->
                    [mapped |-> n = "x", nullable |-> h.of = "optional", default |-> None]]]
EntityOf(v) == [n \in {"secret", "x"} |-> IF n = "x" THEN v ELSE Plain("s")]

\* hydrate() of the returned columns, and the adapters' compiled row plan
ReadBack(v, h, store) ==
    LET spec == SpecOf(h)
        data == Splatted(EntityOf(v), spec, DOMAIN spec.attrs, store)
        back == [n \in DOMAIN data |-> Returned(store, data[n])]
        plan == CompileHydratePlan(spec, store)
    IN  {Hydrated(EntityOf(None), back, spec, DOMAIN spec.attrs, store).x,
         IF store \in {"bson", "json"} THEN HydrateDoc(plan, back, spec).x
         ELSE HydrateRow(plan, ColumnValues(spec.order, back), spec).x}

(* Both ways of reading give back what was written to the store.            *)
Survives(store, h) ==
    \A v \in Values(h) : \A w \in ReadBack(v, h, store) : Same(v, w, store)
============================================================================
