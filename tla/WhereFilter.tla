---------------------------- MODULE WhereFilter ----------------------------
(***************************************************************************)
(* How a SQL WHERE clause becomes a MongoDB filter (mongodb/utils.py,       *)
(* parse_sql_where), as the Mongo cursors and adapters use it: one action   *)
(* per condition, and a clause that may end after each.                     *)
(*                                                                          *)
(* A clause is what splitting the text at AND and OR leaves: a sequence of  *)
(* conditions, each with the joiner that follows it (AND after the last).   *)
(* A condition the regular expressions do not match ("unread": a            *)
(* parenthesis, NOT, LIKE, BETWEEN) is silently dropped, and so is one      *)
(* whose placeholder has no parameter.                                      *)
(***************************************************************************)
EXTENDS Integers, Sequences, SequencesExt, FiniteSets

CONSTANTS Field,            \* the names a clause may test
          Value,            \* what a field may hold, beside NULL
          Literal,          \* the values written in a clause
          InLists,          \* the operands of IN
          ParameterLists,   \* the parameters that may come with a clause
          Collections,      \* the collections a cursor works on
          MaxConditions     \* bound: conditions of a clause

NoValue == 0                \* NULL, or a field the document does not have
Comparisons == {"eq", "ne", "lt", "lte", "gt", "gte"}
Placeholder == [placeholder |-> TRUE]
IsParameter(o) == "placeholder" \in DOMAIN o
Operands == {Placeholder} \cup [literal : Literal]
Documents == [Field -> {NoValue} \cup Value]

ASSUME FilterAssumption ==
    /\ Value \subseteq Int \ {NoValue} /\ Literal \subseteq Value
    /\ InLists \subseteq Seq(Operands)
    /\ ParameterLists \subseteq Seq(Value) /\ Collections \subseteq Seq(Documents)
    /\ MaxConditions \in Nat

Condition ==
    [field : Field, op : Comparisons, operands : {<<o>> : o \in Operands}]
        \cup [field : Field, op : {"in"}, operands : InLists]
        \cup [field : Field, op : {"isNull", "isNotNull", "unread"}, operands : {<<>>}]

VARIABLES clause,      \* the part of the text that is read
          parameters,
          parsed       \* and_group, or_groups and param_idx

filter == <<clause, parameters, parsed>>

(****************************** parse_sql_where *****************************)

Placeholders(c) == {i \in DOMAIN c.operands : IsParameter(c.operands[i])}

ParameterCount(c) == Cardinality(Placeholders(c))

\* a placeholder stands for the next parameter
Operand(c, i, used) ==
    IF i \in Placeholders(c) THEN parameters[used + Cardinality(Placeholders(c) \cap 1..i)]
    ELSE c.operands[i].literal

Readable(c, used) == c.op # "unread" /\ used + ParameterCount(c) <= Len(parameters)

\* _parse_single_condition: an equality is the bare value, the rest an operator
ParsedCondition(c, used) ==
    [op |-> c.op, values |-> [i \in DOMAIN c.operands |-> Operand(c, i, used)]]

\* a group is a dict: one condition for a field, the last one
Untested == [op |-> "untested", values |-> <<>>]
NoGroup == [f \in Field |-> Untested]
With(group, c, used) == [group EXCEPT ![c.field] = ParsedCondition(c, used)]

\* what a condition that is given up half-way has taken of the parameters
Consumed(c, used) ==
    IF c.op = "unread" THEN used
    ELSE IF used + ParameterCount(c) <= Len(parameters) THEN used + ParameterCount(c)
    ELSE Len(parameters)

\* MUTANT of Step: a later condition may restart the parameters
RewoundStep(st, c, joiner) ==
    LET group == With(st.group, c, 0) IN
    IF joiner = "OR" THEN [st EXCEPT !.group = NoGroup, !.groups = Append(@, group)]
    ELSE [st EXCEPT !.group = group]

\* an unread condition keeps its group open, even before an OR
Step(st, c, joiner) ==
    LET group == With(st.group, c, st.used)
        used == Consumed(c, st.used)
    IN  CASE ~ Readable(c, st.used) -> [st EXCEPT !.used = used]
          [] Readable(c, st.used) /\ joiner = "OR" ->
               [group |-> NoGroup, groups |-> Append(st.groups, group), used |-> used]
          [] OTHER -> [st EXCEPT !.group = group, !.used = used]

FilterStart(p) ==
    /\ clause = [conditions |-> <<>>, joiners |-> <<>>] /\ parameters = p
    /\ parsed = [group |-> NoGroup, groups |-> <<>>, used |-> 0]

FilterInit == \E p \in ParameterLists : FilterStart(p)

ReadCondition(c, joiner) ==
    /\ Len(clause.conditions) < MaxConditions
    /\ joiner = "OR" => Len(clause.conditions) + 1 < MaxConditions
    /\ clause' = [conditions |-> Append(clause.conditions, c),
                  joiners |-> Append(clause.joiners, joiner)]
    /\ parsed' = Step(parsed, c, joiner)
    /\ UNCHANGED parameters

FilterNext == \E c \in Condition, joiner \in {"AND", "OR"} : ReadCondition(c, joiner)

FilterSpec == FilterInit /\ [][FilterNext]_filter

\* a clause does not end in OR
MayEnd == clause.joiners # <<>> => Last(clause.joiners) = "AND"

\* one group alone is the filter itself
ParseSqlWhere == [any |-> Append(parsed.groups, parsed.group)]

(********************************* MongoDB *********************************)

Compare(op, a, b) ==
    CASE op = "eq" -> a = b
      [] op = "ne" -> a # b
      [] op = "lt" -> a < b
      [] op = "lte" -> a <= b
      [] op = "gt" -> a > b
      [] op = "gte" -> a >= b

\* MongoDB compares a missing value with nothing but null, and $ne accepts it
MongoMatches(cond, v) ==
    CASE cond.op = "untested" -> TRUE
      [] cond.op = "isNull" -> v = NoValue
      [] cond.op = "isNotNull" -> v # NoValue
      [] cond.op = "in" -> \E i \in DOMAIN cond.values : v = cond.values[i]
      [] cond.op = "ne" -> v # cond.values[1]
      [] OTHER -> v # NoValue /\ Compare(cond.op, v, cond.values[1])

MatchesAll(group, doc) == \A f \in Field : MongoMatches(group[f], doc[f])

Selects(doc) == \E g \in DOMAIN ParseSqlWhere.any : MatchesAll(ParseSqlWhere.any[g], doc)

(* The cursor's statements over a collection: a sequence of documents.     *)
(* Update and delete take the first match only, and the SET of an update    *)
(* takes the parameters from the start, as its WHERE does.                  *)
FirstMatch(docs) ==
    {i \in DOMAIN docs : Selects(docs[i]) /\ \A j \in 1..(i - 1) : ~ Selects(docs[j])}

\* the places of the documents a SELECT yields
ExecuteSelect(docs) == {i \in DOMAIN docs : Selects(docs[i])}

ExecuteUpdate(docs, assigned, operand) ==
    LET first == FirstMatch(docs)
        v == IF IsParameter(operand) THEN parameters[1] ELSE operand.literal
    IN  [i \in DOMAIN docs |-> IF i \in first THEN [docs[i] EXCEPT ![assigned] = v] ELSE docs[i]]

ExecuteDelete(docs) ==
    LET first == FirstMatch(docs) IN
    IF first = {} THEN docs ELSE RemoveAt(docs, CHOOSE i \in first : TRUE)

(******************************* SQL's meaning ******************************)

\* placeholders are numbered from left to right
PlaceholdersBefore(i) ==
    UNION {{j} \X Placeholders(clause.conditions[j]) : j \in 1..(i - 1)}

UsedBefore(i) == Cardinality(PlaceholdersBefore(i))

\* a condition with its operands bound
Holding(i, doc) ==
    LET c == clause.conditions[i]
        bound == {Operand(c, k, UsedBefore(i)) : k \in DOMAIN c.operands}
        v == doc[c.field]
    IN  CASE c.op = "isNull" -> v = NoValue
          [] c.op = "isNotNull" -> v # NoValue
          [] c.op = "in" -> v # NoValue /\ v \in bound
          [] OTHER -> v # NoValue /\ \A b \in bound : Compare(c.op, v, b)

\* i and j are in one conjunction: no OR between them
Conjoined(i, j) ==
    \A k \in DOMAIN clause.joiners : (i <= k /\ k < j) \/ (j <= k /\ k < i) => clause.joiners[k] = "AND"

SqlSelects(doc) ==
    clause.conditions = <<>>
        \/ \E i \in DOMAIN clause.conditions : \A j \in DOMAIN clause.conditions :
               Conjoined(i, j) => Holding(j, doc)

\* what the translation supports: every condition is read, a field is tested
\* once in a conjunction, and there is a parameter for each placeholder
Supported ==
    /\ \A i \in DOMAIN clause.conditions : clause.conditions[i].op # "unread"
    /\ \A i, j \in DOMAIN clause.conditions :
         i # j /\ Conjoined(i, j) => clause.conditions[i].field # clause.conditions[j].field
    /\ UsedBefore(Len(clause.conditions) + 1) <= Len(parameters)

\* <> is not asked of a field that is NULL
Fits(doc) ==
    \A i \in DOMAIN clause.conditions :
        clause.conditions[i].op = "ne" => doc[clause.conditions[i].field] # NoValue

\* SELECT yields the documents SQL means; UPDATE, with no parameter in its
\* SET, and DELETE change one of these, and none only when there is none
CursorsMeanIt(docs) ==
    LET meant == {i \in DOMAIN docs : SqlSelects(docs[i])} IN
    /\ ExecuteSelect(docs) = meant
    /\ meant = {} => ExecuteDelete(docs) = docs
    /\ meant # {} => \E i \in meant : ExecuteDelete(docs) = RemoveAt(docs, i)
    /\ \A f \in Field, v \in Literal :
         LET updated == ExecuteUpdate(docs, f, [literal |-> v]) IN
         /\ meant = {} => updated = docs
         /\ meant # {} => \E i \in meant : updated = [docs EXCEPT ![i] = [@ EXCEPT ![f] = v]]

(* A WHERE clause in the supported subset, translated for MongoDB, means    *)
(* what SQL means by it: AND before OR, and each placeholder given its own  *)
(* parameter; and so do the cursor's statements, over any collection        *)
(* (parse_sql_where and the cursors that use it).                           *)
FilterMeansClause ==
    MayEnd /\ Supported =>
        /\ \A doc \in Documents : Fits(doc) => (Selects(doc) <=> SqlSelects(doc))
        /\ \A docs \in Collections :
             (\A i \in DOMAIN docs : Fits(docs[i])) => CursorsMeanIt(docs)

(******************************** the loop *********************************)

ParsedConditions ==
    [op : Comparisons \cup {"in", "isNull", "isNotNull", "untested"}, values : Seq(Value)]

Groups == [Field -> ParsedConditions]

FilterTypeOK ==
    /\ clause \in [conditions : Seq(Condition), joiners : Seq({"AND", "OR"})]
    /\ Len(clause.joiners) = Len(clause.conditions)
    /\ Len(clause.conditions) <= MaxConditions
    /\ parameters \in ParameterLists
    /\ parsed \in [group : Groups, groups : Seq(Groups), used : Nat]
    /\ parsed.used <= Len(parameters)

(* FilterMeansClause is inductive with these: the placeholders read have    *)
(* taken the first parameters; every group is one of the clause's           *)
(* conjunctions, the open one the last; and every condition is in a group.  *)
RunsFrom(lo, hi) ==     \* lo starts a conjunction, and up to hi there is no OR
    /\ lo = 1 \/ clause.joiners[lo - 1] = "OR"
    /\ \A k \in lo..(hi - 1) : clause.joiners[k] = "AND"

IsGroupOf(group, lo, hi) ==
    /\ \A f \in Field \ {clause.conditions[i].field : i \in lo..hi} : group[f] = Untested
    /\ \A i \in lo..hi :
         group[clause.conditions[i].field] = ParsedCondition(clause.conditions[i], UsedBefore(i))

ClosesGroup(group, lo, hi) ==
    RunsFrom(lo, hi) /\ clause.joiners[hi] = "OR" /\ IsGroupOf(group, lo, hi)

OpensGroup(lo) ==
    LET n == Len(clause.conditions) IN
    /\ RunsFrom(lo, n + 1) /\ IsGroupOf(parsed.group, lo, n)
    /\ \A i \in 1..(lo - 1) : \E g \in DOMAIN parsed.groups, l \in 1..i, h \in i..n :
         ClosesGroup(parsed.groups[g], l, h)

GroupsFollow ==
    LET n == Len(clause.conditions) IN
    Supported =>
        /\ parsed.used = UsedBefore(n + 1)
        /\ \E lo \in 1..(n + 1) : OpensGroup(lo)
        /\ \A g \in DOMAIN parsed.groups : \E l \in 1..n : \E h \in l..n :
             ClosesGroup(parsed.groups[g], l, h)

FilterInv ==
    /\ FilterTypeOK /\ GroupsFollow
    /\ IsFiniteSet(PlaceholdersBefore(Len(clause.conditions) + 1))
============================================================================
