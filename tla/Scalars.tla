------------------------------ MODULE Scalars ------------------------------
(***************************************************************************)
(* The translation of a single value: what it is written as, what the store *)
(* hands back, and what is read from that (translation/utils.py and         *)
(* datetime_utils.py).                                                      *)
(*                                                                          *)
(* A Python value is a record with one field, named for its type; a text is *)
(* [str |-> ...], plain or the spelling of another value.  A datetime is a  *)
(* wall clock in hours and an offset: {} when naive, {h} when aware.        *)
(***************************************************************************)
EXTENDS Integers

None == [none |-> TRUE]
Plain(s) == [str |-> [plain |-> s]]
Text(v) == [str |-> [text |-> v]]
Datetime(w, off) == [datetime |-> [wall |-> w, off |-> off]]

OfType(v, t) == t \in DOMAIN v
Absent(v) == v \in {None, Plain("null"), Plain("NULL")}
HoursPerDay == 24

\* "mssqlUtc" is SQL Server under any other DEEV__MSSQL__DATETIME_TYPE
Store == {"sqlite", "mysql", "chsql", "mssql", "mssqlUtc", "bson", "json"}

(*************************** datetime policies *****************************)

EnsureUtcAware(dt) == IF dt.off = {} THEN [dt EXCEPT !.off = {0}] ELSE dt
AssumeUtc(dt) ==
    IF dt.off = {} THEN [dt EXCEPT !.off = {0}]
    ELSE [wall |-> dt.wall - (CHOOSE h \in dt.off : TRUE), off |-> {0}]

ReadPolicy(dt, from) ==
    IF from \in {"mssqlUtc", "mysql", "chsql", "bson"} THEN AssumeUtc(dt) ELSE EnsureUtcAware(dt)

MssqlWritePolicy(dt, type) ==
    IF type = "DATETIMEOFFSET" THEN EnsureUtcAware(dt) ELSE AssumeUtc(dt)

\* the policy each to_*_object() hands to the conversion they share
WritePolicy(dt, store) ==
    CASE store = "sqlite" -> EnsureUtcAware(dt)
      [] store \in {"mysql", "chsql"} -> AssumeUtc(dt)
      [] store = "mssql" -> MssqlWritePolicy(dt, "DATETIMEOFFSET")
      [] store = "mssqlUtc" -> MssqlWritePolicy(dt, "DATETIME2")

\* times are spelled without their offset
SpelledTime(t) == [hour |-> t.hour, off |-> IF t.off = {} THEN {} ELSE {0}]

(********************************* writing *********************************)

EnumValue(v) == [int |-> v.enum]
Microseconds(v) == [int |-> v.timedelta]

\* the hint decides
SqlScalar(store, v, of) ==
    CASE of = "uuid" -> Text(v)
      [] of = "datetime" -> [datetime |-> WritePolicy(v.datetime, store)]
      [] of = "date" -> Text(v)
      [] of = "time" -> Text([time |-> [hour |-> v.time.hour, off |-> {0}]])
      [] of = "timedelta" -> Microseconds(v)
      [] of = "bool" -> [int |-> IF v.bool THEN 1 ELSE 0]
      [] of = "enum" -> EnumValue(v)
      [] OTHER -> v

\* the value's own type decides
BsonScalar(v) ==
    CASE OfType(v, "datetime") -> [datetime |-> AssumeUtc(v.datetime)]
      [] OfType(v, "date") -> Datetime(v.date * HoursPerDay, {})
      [] OfType(v, "time") \/ OfType(v, "decimal") -> Text(v)
      [] OfType(v, "enum") -> EnumValue(v)
      [] OfType(v, "timedelta") -> Microseconds(v)
      [] OTHER -> v

JsonScalar(v) ==
    CASE OfType(v, "datetime") -> Text([datetime |-> EnsureUtcAware(v.datetime)])
      [] OfType(v, "time") -> Text([time |-> SpelledTime(v.time)])
      [] \E t \in {"date", "decimal", "uuid"} : OfType(v, t) -> Text(v)
      [] OfType(v, "enum") -> EnumValue(v)
      [] OfType(v, "timedelta") -> Microseconds(v)
      [] OTHER -> v

WriteScalar(store, v, of) ==
    CASE Absent(v) -> None
      [] ~ Absent(v) /\ store = "bson" -> BsonScalar(v)
      [] ~ Absent(v) /\ store = "json" -> JsonScalar(v)
      [] OTHER -> SqlScalar(store, v, of)

(********************************* reading *********************************)

ReadTime(t) == [time |-> SpelledTime(t)]

\* the scalar hints, for a value that is there
ToScalar(v, of, from) ==
    CASE of = "datetime" /\ OfType(v, "str") -> [datetime |-> ReadPolicy(v.str.text.datetime, from)]
      [] of = "datetime" /\ OfType(v, "datetime") -> [datetime |-> ReadPolicy(v.datetime, from)]
      [] of = "date" /\ OfType(v, "datetime") -> [date |-> v.datetime.wall \div HoursPerDay]
      [] of = "time" /\ OfType(v, "str") -> ReadTime(v.str.text.time)
      [] of \in {"int", "float", "uuid", "date", "decimal"} /\ OfType(v, "str") -> v.str.text
      [] of = "bool" -> [bool |-> v \in {[int |-> 1], [bool |-> TRUE], Plain("1"), Plain("true")}]
      [] of = "timedelta" /\ OfType(v, "int") -> [timedelta |-> v.int]
      [] of = "enum" /\ OfType(v, "int") -> [enum |-> v.int]
      [] OTHER -> v

ReadScalar(v, of, from) == IF Absent(v) THEN None ELSE ToScalar(v, of, from)

(****************************** the stores *********************************)

\* what the driver hands back for a bound value (docs/datetime.rst)
ReturnedScalar(store, v) ==
    CASE store = "sqlite" /\ OfType(v, "datetime") -> Text(v)
      [] store \in {"mysql", "chsql", "mssqlUtc", "bson"} /\ OfType(v, "datetime") ->
            Datetime(v.datetime.wall, {})
      [] store \in {"mysql", "chsql", "mssql", "mssqlUtc"} /\ OfType(v, "str")
            /\ OfType(v.str, "text") /\ OfType(v.str.text, "date") -> v.str.text
      [] OTHER -> v

(******************************* the promise *******************************)

ScalarTypes == {"int", "str", "bool", "uuid", "datetime", "date", "time",
                "timedelta", "decimal", "enum", "bytes"}

\* times have no offset but UTC: any other is dropped by every store; and
\* the strings null and NULL are None to every conversion
ScalarsOf(t) ==
    CASE t = "str" -> {Plain(s) : s \in STRING \ {"null", "NULL"}}
      [] t = "bool" -> [bool : BOOLEAN]
      [] t = "datetime" -> [datetime : [wall : Int, off : {{}} \cup {{h} : h \in Int}]]
      [] t = "time" -> [time : [hour : Int, off : {{}, {0}}]]
      [] t = "int" -> [int : Int]
      [] t = "uuid" -> [uuid : Int]
      [] t = "date" -> [date : Int]
      [] t = "timedelta" -> [timedelta : Int]
      [] t = "decimal" -> [decimal : Int]
      [] t = "enum" -> [enum : Int]
      [] t = "bytes" -> [bytes : Int]

\* Decimals cannot be bound by SQLite, TIME columns have types of their own.
ScalarStored(store, of) ==
    CASE store \in {"bson", "json"} -> TRUE
      [] of = "decimal" -> store # "sqlite"
      [] of = "time" -> store \in {"sqlite", "chsql"}
      [] OTHER -> TRUE

\* a naive datetime or time is a UTC one; offsets survive where the store has them
PromisedScalar(v, store) ==
    CASE OfType(v, "datetime") ->
            [datetime |-> IF store \in {"sqlite", "mssql", "json"} THEN EnsureUtcAware(v.datetime)
                          ELSE AssumeUtc(v.datetime)]
      [] OfType(v, "time") -> [time |-> [v.time EXCEPT !.off = {0}]]
      [] OTHER -> v

Aware(v) == OfType(v, "datetime") => v.datetime.off # {}

ReadBackScalar(store, v, of) ==
    ReadScalar(ReturnedScalar(store, WriteScalar(store, v, of)), of, store)

(* Whatever a value's type, and whichever store can keep it, what is read   *)
(* back is the value, in UTC where the store has no offsets; None is None.  *)
ScalarsSurvive ==
    \A store \in Store, t \in ScalarTypes :
        ScalarStored(store, t) =>
            \A v \in ScalarsOf(t) \cup {None} :
                LET r == ReadBackScalar(store, v, t) IN
                PromisedScalar(r, store) = PromisedScalar(v, store) /\ Aware(r)
============================================================================
