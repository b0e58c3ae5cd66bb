----------------------------- MODULE RowsProofs -----------------------------
(***************************************************************************)
(* What is proved of TableRows, for any number of clients, keys and calls, *)
(* and all ten classes of table adapters.                                  *)
(***************************************************************************)
EXTENDS TableRows, SequenceTheorems, TLAPS

(* Lists of one statement, of two and of three. *)
LEMMA One ==
  ASSUME NEW a
  PROVE  <<a>> # <<>> /\ Head(<<a>>) = a /\ Len(<<a>>) = 1 /\ <<a>> \o <<>> = <<a>>
  OBVIOUS

LEMMA Two ==
  ASSUME NEW a, NEW b
  PROVE  <<a, b>> # <<>> /\ Head(<<a, b>>) = a /\ Len(<<a, b>>) = 2 /\ Tail(<<a, b>>) = <<b>>
  OBVIOUS

LEMMA Three ==
  ASSUME NEW a, NEW b, NEW c
  PROVE  /\ <<a, b, c>> # <<>> /\ Head(<<a, b, c>>) = a /\ Len(<<a, b, c>>) = 3
         /\ Tail(<<a, b, c>>) = <<b, c>>
  OBVIOUS

LEMMA Longer ==
  ASSUME NEW S, NEW s \in Seq(S), s # <<>>
  PROVE  Len(s) = 1 \/ Len(s) > 1
<1>1. Len(s) # 0
  <2>1. <<>> \in Seq(S) /\ Len(<<>>) = 0
    OBVIOUS
  <2>2. Len(s) = 0 => s = <<>>
    BY <2>1, SeqEqual
  <2> DEFINE none == <<>>
  <2>3. Len(s) = 0 => s = none
    BY <2>2
  <2>4. s # none
    OBVIOUS
  <2> HIDE DEF none
  <2>5. QED
    BY <2>3, <2>4
<1>2. Len(s) \in Nat
  OBVIOUS
<1>3. \A n \in Nat : n # 0 => n = 1 \/ n > 1
  OBVIOUS
<1>4. QED
  BY <1>1, <1>2, <1>3, Zenon

LEMMA Joined ==
  ASSUME NEW S, NEW a \in S, NEW b \in S
  PROVE  <<a>> \o <<b>> = <<a, b>>
<1> DEFINE s == <<a>>
           t == <<b>>
           u == <<a, b>>
<1>1. s \in Seq(S) /\ t \in Seq(S) /\ u \in Seq(S)
  OBVIOUS
<1>2. Len(s) = 1 /\ Len(t) = 1 /\ Len(u) = 2 /\ s[1] = a /\ t[1] = b /\ u[1] = a /\ u[2] = b
  OBVIOUS
<1> HIDE DEF s, t, u
<1>3. /\ s \o t \in Seq(S) /\ Len(s \o t) = 2
      /\ \A i \in 1..2 : (s \o t)[i] = IF i <= 1 THEN s[i] ELSE t[i - 1]
  <2>1. /\ s \o t \in Seq(S) /\ Len(s \o t) = Len(s) + Len(t)
        /\ \A i \in 1 .. Len(s) + Len(t) :
             (s \o t)[i] = IF i <= Len(s) THEN s[i] ELSE t[i - Len(s)]
    BY <1>1, ConcatProperties
  <2>2. QED
    BY <1>2, <2>1
<1>4. \A i \in 1..2 : (s \o t)[i] = u[i]
  <2>1. \A i \in 1..2 : i = 1 \/ i = 2
    OBVIOUS
  <2>2. (s \o t)[1] = u[1]
    BY <1>2, <1>3
  <2>3. (s \o t)[2] = u[2]
    BY <1>2, <1>3
  <2>4. QED
    BY <2>1, <2>2, <2>3
<1>5. s \o t = u
  BY <1>1, <1>2, <1>3, <1>4, SeqEqual
<1>6. QED
  BY <1>5 DEF s, t, u

LEMMA JoinedToo ==
  ASSUME NEW S, NEW a \in S, NEW b \in S, NEW c \in S
  PROVE  <<a, b>> \o <<c>> = <<a, b, c>>
<1> DEFINE s == <<a, b>>
           t == <<c>>
           u == <<a, b, c>>
<1>1. s \in Seq(S) /\ t \in Seq(S) /\ u \in Seq(S)
  OBVIOUS
<1>2. /\ Len(s) = 2 /\ Len(t) = 1 /\ Len(u) = 3 /\ s[1] = a /\ s[2] = b /\ t[1] = c
      /\ u[1] = a /\ u[2] = b /\ u[3] = c
  OBVIOUS
<1> HIDE DEF s, t, u
<1>3. /\ s \o t \in Seq(S) /\ Len(s \o t) = 3
      /\ \A i \in 1..3 : (s \o t)[i] = IF i <= 2 THEN s[i] ELSE t[i - 2]
  <2>1. /\ s \o t \in Seq(S) /\ Len(s \o t) = Len(s) + Len(t)
        /\ \A i \in 1 .. Len(s) + Len(t) :
             (s \o t)[i] = IF i <= Len(s) THEN s[i] ELSE t[i - Len(s)]
    BY <1>1, ConcatProperties
  <2>2. QED
    BY <1>2, <2>1
<1>4. \A i \in 1..3 : (s \o t)[i] = u[i]
  <2>1. \A i \in 1..3 : i = 1 \/ i = 2 \/ i = 3
    OBVIOUS
  <2>2. (s \o t)[1] = u[1] /\ (s \o t)[2] = u[2]
    BY <1>2, <1>3
  <2>3. (s \o t)[3] = u[3]
    BY <1>2, <1>3
  <2>4. QED
    BY <2>1, <2>2, <2>3
<1>5. s \o t = u
  BY <1>1, <1>2, <1>3, <1>4, SeqEqual
<1>6. QED
  BY <1>5 DEF s, t, u

-----------------------------------------------------------------------------
(* The shape of the state. *)

Keys == Nat \cup {NoId}

Statements ==
  {"insert", "insertCounted", "count", "cursorKey", "connectionKey", "verify", "select", "update",
   "updateNames", "insertOrUpdate", "insertOrIgnore", "insertIfMissed", "updateOrInsert",
   "delete", "append", "mutate", "mutateAway", "mutateOrAppend", "sync"}

OpNames == Operations \cup {"none"}

CallRecord ==
  [todo : Seq(Statements), op : OpNames, id : Keys, tag : Tag \cup {NoId},
   hit : BOOLEAN, cursor : Keys, key : Keys, own : Keys,
   result : {"none", "returned", "raised"}]

TableShape ==
  /\ shop \in Shops /\ LegalShop(shop)
  /\ rows \subseteq [id : Nat, tag : Tag \cup {Names}]
  /\ counter \in Nat /\ lastId \in [Client -> Nat]
  /\ pending \subseteq [kind : {"update", "delete"}, row : [id : Nat, tag : Tag]]
  /\ pending # {} => shop.class \in Columnar
  /\ served \in 0..MaxRowCalls

-----------------------------------------------------------------------------
(* Where a call is.  A call that writes has written nothing yet, or is      *)
(* between two statements with what it needs to name its row, or is done.   *)

Writing(r) == r.op \in {"create", "upsert"}

Locks == {"sqlite", "asyncSqlite"}

Lends == {"mysql", "asyncMysql"}

(* Tasks on one MySQL connection, which gives each the key of the last.     *)
Wired == shop.class = "asyncMysql" /\ shop.shared

MayDrop(r) == r.op = "upsert" /\ shop.unique /\ shop.class \in SqlFamily

ZeroKey(r) == shop.class = "mysql" /\ shop.auto /\ r.id = 0

Good(r) == MayDrop(r) \/ (r.own # NoId /\ (r.key = r.own \/ Wired \/ ZeroKey(r)))

Named(r) == r.id \in Nat /\ r.key = r.id

Plain(r) == Named(r) /\ r.own = NoId

Before(r) ==
  \/ r.todo \in {<<"insert">>, <<"insert", "verify">>} /\ ~ shop.auto /\ Plain(r)
  \/ r.todo \in {<<"insert", "cursorKey">>, <<"insert", "cursorKey", "verify">>} /\ shop.auto
  \/ r.todo = <<"insert", "connectionKey">> /\ shop.auto /\ shop.class \in Lends
  \/ r.todo = <<"count", "insertCounted">>
  \/ r.todo = <<"insertCounted">> /\ r.key \in Nat
  \/ /\ r.todo = <<"insertOrUpdate">> /\ Plain(r) /\ r.op = "upsert" /\ shop.class \in Lends
     /\ shop.auto /\ r.id = 0 => shop.class = "mysql"
  \/ r.todo = <<"updateOrInsert">> /\ Plain(r)
  \/ /\ r.todo \in {<<"append", "sync">>, <<"select", "mutateOrAppend", "sync">>,
                    <<"mutateOrAppend", "sync">>}
     /\ Plain(r) /\ shop.class \in Columnar
  \/ r.todo = <<"update", "insertOrIgnore">> /\ Plain(r) /\ r.op = "upsert" /\ shop.class \in Locks
  \/ r.todo = <<"update", "insertIfMissed">> /\ Plain(r)

Between(c, r) ==
  \/ /\ r.todo = <<"insertOrIgnore">> /\ Named(r) /\ r.op = "upsert" /\ shop.class \in Locks
     /\ r.own = r.id \/ (r.own = NoId /\ Takes(r.id) = {})
  \/ r.todo = <<"insertIfMissed">> /\ Named(r) /\ (r.hit => r.own = r.id)
  \/ r.todo \in {<<"cursorKey">>, <<"cursorKey", "verify">>} /\ r.own = r.cursor /\ r.own \in Nat
  \/ /\ r.todo = <<"connectionKey">> /\ r.own \in Nat /\ shop.class \in Lends
     /\ Wired \/ lastId[Wire(c)] = r.own
  \/ r.todo \in {<<"verify">>, <<"sync">>} /\ r.own = r.key /\ r.own \in Nat

Serving(r) ==
  /\ ~ Writing(r) /\ r.id \in Nat
  /\ \/ r.todo \in {<<"select">>, <<"update">>, <<"updateNames">>, <<"delete">>, <<"sync">>}
     \/ r.todo \in {<<"mutate", "sync">>, <<"mutateAway", "sync">>} /\ shop.class \in Columnar

Done(r) == r.todo = <<>> /\ (Writing(r) /\ r.result = "returned" => Good(r))

CallSound(c, r) ==
  \/ Done(r)
  \/ /\ r.tag \in Tag /\ r.result = "none"
     /\ (Writing(r) /\ (Before(r) \/ Between(c, r))) \/ Serving(r)

RowsInv ==
  /\ TableShape
  /\ client \in [Client -> CallRecord]
  /\ \A c \in Client : CallSound(c, Me(c))

-----------------------------------------------------------------------------
(* What becomes of a call. *)

SameCall(q, r) ==
  /\ q \in CallRecord /\ q.todo = r.todo /\ q.op = r.op /\ q.id = r.id
  /\ q.tag = r.tag /\ q.result = r.result

Called(r, todo, op, id, tag) ==
  [r EXCEPT !.todo = todo, !.op = op, !.id = id, !.tag = tag, !.key = id]

Ended(r, op, id, key, own) ==
  [r EXCEPT !.op = op, !.id = id, !.key = key, !.own = own, !.result = "returned"]

LEMMA NoCallParts ==
  /\ NoCall \in CallRecord /\ NoCall.todo = <<>> /\ NoCall.op = "none" /\ NoCall.own = NoId
  /\ NoCall.result = "none"
<1>1. <<>> \in Seq(Statements)
  OBVIOUS
<1>2. QED
  BY <1>1 DEF NoCall, CallRecord, Keys, OpNames

LEMMA CallParts ==
  ASSUME NEW r \in CallRecord, NEW todo \in Seq(Statements), NEW op \in Operations, NEW id \in Keys,
         NEW tag \in Tag
  PROVE  LET q == Called(r, todo, op, id, tag) IN
         q \in CallRecord /\ q.todo = todo /\ q.op = op /\ q.id = id /\ q.tag = tag
           /\ q.key = id /\ q.own = r.own /\ q.result = r.result
  BY DEF CallRecord, Called, OpNames

LEMMA EndParts ==
  ASSUME NEW r \in CallRecord
  PROVE  \A op \in OpNames, id \in Keys, key \in Keys, own \in Keys :
           LET q == Ended(r, op, id, key, own) IN
           /\ q \in CallRecord /\ q.todo = r.todo /\ q.op = op /\ q.id = id
           /\ q.key = key /\ q.own = own
<1> TAKE op \in OpNames, id \in Keys, key \in Keys, own \in Keys
<1>1. QED
  BY DEF CallRecord, Ended

Later(q, rest) == [q EXCEPT !.todo = rest]

LEMMA LaterParts ==
  ASSUME NEW q \in CallRecord, NEW rest \in Seq(Statements)
  PROVE  LET a == Later(q, rest) IN
         /\ a \in CallRecord /\ a.todo = rest /\ a.op = q.op /\ a.id = q.id /\ a.key = q.key
         /\ a.own = q.own /\ a.tag = q.tag /\ a.hit = q.hit /\ a.cursor = q.cursor
         /\ a.result = q.result
  BY DEF CallRecord, Later

(* After a statement that is not the last, and after the last.              *)
LEMMA GoesOn ==
  ASSUME NEW q \in CallRecord, Len(q.todo) > 1, q.todo # <<>>
  PROVE  LET a == Advanced(q) IN
         /\ a \in CallRecord /\ a.todo = Tail(q.todo) /\ a.op = q.op /\ a.id = q.id
         /\ a.key = q.key /\ a.own = q.own /\ a.tag = q.tag /\ a.hit = q.hit
         /\ a.cursor = q.cursor /\ a.result = q.result
<1> DEFINE rest == Tail(q.todo)
<1>1. rest \in Seq(Statements)
  BY DEF CallRecord
<1>2. Advanced(q) = Later(q, rest)
  BY DEF Advanced, Later
<1> HIDE DEF rest
<1>3. LET a == Later(q, rest) IN
      /\ a \in CallRecord /\ a.todo = rest /\ a.op = q.op /\ a.id = q.id /\ a.key = q.key
      /\ a.own = q.own /\ a.tag = q.tag /\ a.hit = q.hit /\ a.cursor = q.cursor
      /\ a.result = q.result
  BY <1>1, LaterParts, Zenon
<1>4. QED
  BY <1>2, <1>3 DEF rest

LEMMA Returns ==
  ASSUME NEW q \in CallRecord, Len(q.todo) = 1
  PROVE  LET a == Advanced(q) IN
         /\ a \in CallRecord /\ a.todo = <<>> /\ a.op = q.op /\ a.id = q.id /\ a.key = q.key
         /\ a.own = q.own
<1>1. Advanced(q) = Ended(NoCall, q.op, q.id, q.key, q.own)
  BY DEF Advanced, Ended
<1>2. q.op \in OpNames /\ q.id \in Keys /\ q.key \in Keys /\ q.own \in Keys
  BY DEF CallRecord
<1>3. NoCall \in CallRecord /\ NoCall.todo = <<>>
  BY NoCallParts
<1>4. \A op \in OpNames, id \in Keys, key \in Keys, own \in Keys :
        LET e == Ended(NoCall, op, id, key, own) IN
        /\ e \in CallRecord /\ e.todo = NoCall.todo /\ e.op = op /\ e.id = id
        /\ e.key = key /\ e.own = own
  <2>1. NoCall \in CallRecord
    BY <1>3
  <2>2. QED
    BY <2>1, EndParts, Zenon
<1>5. LET e == Ended(NoCall, q.op, q.id, q.key, q.own) IN
        /\ e \in CallRecord /\ e.todo = NoCall.todo /\ e.op = q.op /\ e.id = q.id
        /\ e.key = q.key /\ e.own = q.own
  BY <1>2, <1>4
<1>6. QED
  BY <1>1, <1>3, <1>5

LEMMA Advances ==
  ASSUME NEW q \in CallRecord, q.todo # <<>>
  PROVE  Advanced(q) \in CallRecord
<1>1. Len(q.todo) = 1 \/ Len(q.todo) > 1
  <2>1. q.todo \in Seq(Statements)
    BY DEF CallRecord
  <2>2. QED
    BY <2>1, Longer, Zenon
<1>2. QED
  BY <1>1, GoesOn, Returns

-----------------------------------------------------------------------------
(* What a statement does to the state.  Gone: the call has raised; Goes: it *)
(* is after its statement, with what the statement changed of it in q.      *)

Gone(c) == Me(c).todo = <<>> /\ Me(c).result # "returned"

Goes(c, q) == SameCall(q, Me(c)) /\ Me(c)' = Advanced(q)

(* The other calls are where they were, and their connections too.          *)
Others(c) ==
  /\ client' \in [Client -> CallRecord]
  /\ \A d \in Client \ {c} : Me(d)' = Me(d)
  /\ shop.class \in Lends /\ ~ Wired => \A d \in Client \ {c} : lastId'[d] = lastId[d]

Stays == UNCHANGED <<shop, served>>

(* A connection each: Wire is the client itself.                            *)
LEMMA OwnWire ==
  ASSUME TableShape, shop.class \in Lends, ~ Wired, NEW c
  PROVE  Wire(c) = c
  BY DEF TableShape, LegalShop, Lends, Wired, Wire, Async, Shims

LEMMA Moved ==
  ASSUME client \in [Client -> CallRecord], NEW c \in Client, NEW r \in CallRecord, Moves(c, r)
  PROVE  /\ client' \in [Client -> CallRecord] /\ Me(c)' = r
         /\ \A d \in Client \ {c} : Me(d)' = Me(d)
  BY DEF Moves, Me

Raised(r) == [r EXCEPT !.result = "raised"]

LEMMA RaisedParts ==
  ASSUME NEW r \in CallRecord
  PROVE  Raised(r) \in CallRecord /\ Raised(r).todo = r.todo /\ Raised(r).result = "raised"
  BY DEF Raised, CallRecord

LEMMA Raising ==
  ASSUME TableShape, Stays, client \in [Client -> CallRecord], NEW c \in Client, Raises(c)
  PROVE  TableShape' /\ Others(c) /\ Gone(c)'
<1>1. /\ Raised(NoCall) \in CallRecord /\ Raised(NoCall).todo = <<>>
      /\ Raised(NoCall).result = "raised"
  BY NoCallParts, RaisedParts
<1>2. Moves(c, Raised(NoCall)) /\ UNCHANGED <<rows, counter, lastId, pending>>
  BY DEF Raises, Raised
<1>3. /\ client' \in [Client -> CallRecord] /\ Me(c)' = Raised(NoCall)
      /\ \A d \in Client \ {c} : Me(d)' = Me(d)
  BY <1>1, <1>2, Moved
<1>4. TableShape'
  BY <1>2 DEF TableShape, Stays, LegalShop
<1>5. Others(c)
  BY <1>2, <1>3 DEF Others
<1>6. Gone(c)'
  BY <1>1, <1>3 DEF Gone
<1>7. QED
  BY <1>4, <1>5, <1>6

LEMMA Going ==
  ASSUME client \in [Client -> CallRecord], NEW c \in Client, Busy(c), NEW q,
         SameCall(q, Me(c)), Moves(c, Advanced(q))
  PROVE  /\ client' \in [Client -> CallRecord] /\ Goes(c, q)
         /\ \A d \in Client \ {c} : Me(d)' = Me(d)
<1>1. q \in CallRecord /\ q.todo # <<>>
  BY DEF SameCall, Busy
<1>2. Advanced(q) \in CallRecord
  BY <1>1, Advances
<1>3. QED
  BY <1>2, Moved DEF Goes

(* A call with other values for what a statement may change of it.          *)
KeyGiven(r, id) == [r EXCEPT !.own = id, !.cursor = id]

Owned(r, id) == [r EXCEPT !.own = id]

Wrote(r, id) == [r EXCEPT !.own = id, !.hit = TRUE]

Looked(r, hit) == [r EXCEPT !.hit = hit]

Keyed(r, key) == [r EXCEPT !.key = key]

LEMMA KeyGivenParts ==
  ASSUME NEW r \in CallRecord, NEW id \in Keys
  PROVE  LET q == KeyGiven(r, id) IN
         SameCall(q, r) /\ q.own = id /\ q.cursor = id /\ q.key = r.key
  BY DEF CallRecord, SameCall, KeyGiven

LEMMA OwnedParts ==
  ASSUME NEW r \in CallRecord, NEW id \in Keys
  PROVE  LET q == Owned(r, id) IN SameCall(q, r) /\ q.own = id /\ q.key = r.key
  BY DEF CallRecord, SameCall, Owned

LEMMA WroteParts ==
  ASSUME NEW r \in CallRecord, NEW id \in Keys
  PROVE  LET q == Wrote(r, id) IN SameCall(q, r) /\ q.own = id /\ q.key = r.key
  BY DEF CallRecord, SameCall, Wrote

LEMMA LookedParts ==
  ASSUME NEW r \in CallRecord, NEW hit \in BOOLEAN
  PROVE  LET q == Looked(r, hit) IN
         SameCall(q, r) /\ q.own = r.own /\ q.key = r.key /\ q.hit = hit
  BY DEF CallRecord, SameCall, Looked

LEMMA KeyedParts ==
  ASSUME NEW r \in CallRecord, NEW key \in Keys
  PROVE  LET q == Keyed(r, key) IN SameCall(q, r) /\ q.own = r.own /\ q.key = key
  BY DEF CallRecord, SameCall, Keyed

-----------------------------------------------------------------------------
(* The statements, one by one.                                              *)

(* A statement that touches the call alone.                                 *)
LEMMA Passing ==
  ASSUME TableShape, Stays, client \in [Client -> CallRecord], NEW c \in Client, Busy(c),
         NEW q, SameCall(q, Me(c)), Passes(c, q)
  PROVE  TableShape' /\ Others(c) /\ Goes(c, q) /\ UNCHANGED <<rows, lastId>>
<1>1. Moves(c, Advanced(q)) /\ UNCHANGED <<rows, counter, lastId, pending>>
  BY DEF Passes
<1>2. /\ client' \in [Client -> CallRecord] /\ Goes(c, q)
      /\ \A d \in Client \ {c} : Me(d)' = Me(d)
  BY <1>1, Going
<1>3. TableShape'
  BY <1>1 DEF TableShape, Stays, LegalShop
<1>4. QED
  BY <1>1, <1>2, <1>3 DEF Others

LEMMA Generating ==
  ASSUME TableShape, Stays, client \in [Client -> CallRecord], NEW c \in Client, Busy(c),
         Me(c).tag \in Tag, InsertGenerated(c)
  PROVE  /\ TableShape' /\ Others(c)
         /\ \/ Gone(c)'
            \/ \E q : /\ Goes(c, q) /\ q.own \in Nat /\ q.own = q.cursor /\ q.key = Me(c).key
                      /\ shop.class \in Lends /\ ~ Wired => lastId'[c] = q.own
<1> DEFINE id == counter + 1
           q == KeyGiven(Me(c), id)
<1>1. CASE Raises(c)
  BY <1>1, Raising
<1>2. CASE ~ Raises(c)
  <2>1. id \in Nat /\ id \in Keys
    BY DEF TableShape, Keys
  <2>2. /\ rows' = rows \cup {Entity(id, Me(c).tag)} /\ counter' = id
        /\ lastId' = [lastId EXCEPT ![Wire(c)] = id] /\ Moves(c, Advanced(q)) /\ pending' = pending
    BY <1>2 DEF InsertGenerated, KeyGiven
  <2>3. SameCall(q, Me(c)) /\ q.own = id /\ q.cursor = id /\ q.key = Me(c).key
    BY <2>1, KeyGivenParts DEF Me
  <2> HIDE DEF q
  <2>4. /\ client' \in [Client -> CallRecord] /\ Goes(c, q)
        /\ \A d \in Client \ {c} : Me(d)' = Me(d)
    BY <2>2, <2>3, Going
  <2>5. Wire(c) \in Client
    BY DEF Wire
  <2>6. TableShape'
    <3>1. Entity(id, Me(c).tag) \in [id : Nat, tag : Tag \cup {Names}]
      BY <2>1 DEF Entity
    <3>2. lastId' \in [Client -> Nat]
      BY <2>1, <2>2, <2>5 DEF TableShape
    <3>3. QED
      BY <2>1, <2>2, <3>1, <3>2 DEF TableShape, Stays, LegalShop
  <2>7. shop.class \in Lends /\ ~ Wired => Wire(c) = c
    BY OwnWire
  <2>8. Others(c)
    BY <2>2, <2>4, <2>7 DEF Others, TableShape
  <2>9. shop.class \in Lends /\ ~ Wired => lastId'[c] = q.own
    BY <2>2, <2>3, <2>7 DEF TableShape
  <2>10. QED
    BY <2>1, <2>3, <2>4, <2>6, <2>8, <2>9
<1>3. QED
  BY <1>1, <1>2

LEMMA Inserting ==
  ASSUME TableShape, Stays, client \in [Client -> CallRecord], NEW c \in Client, Busy(c),
         Me(c).tag \in Tag, NEW id \in Nat, InsertAs(c, id)
  PROVE  /\ TableShape' /\ Others(c)
         /\ Gone(c)' \/ \E q : Goes(c, q) /\ q.own = id /\ q.key = Me(c).key
<1> DEFINE q == Owned(Me(c), id)
<1>1. CASE Raises(c)
  BY <1>1, Raising
<1>2. CASE ~ Raises(c)
  <2>1. id \in Keys
    BY DEF Keys
  <2>2. /\ rows' = rows \cup {Entity(id, Me(c).tag)}
        /\ counter' = (IF id > counter THEN id ELSE counter)
        /\ Moves(c, Advanced(q)) /\ lastId' = lastId /\ pending' = pending
    BY <1>2 DEF InsertAs, Owned
  <2>3. SameCall(q, Me(c)) /\ q.own = id /\ q.key = Me(c).key
    BY <2>1, OwnedParts DEF Me
  <2> HIDE DEF q
  <2>4. /\ client' \in [Client -> CallRecord] /\ Goes(c, q)
        /\ \A d \in Client \ {c} : Me(d)' = Me(d)
    BY <2>2, <2>3, Going
  <2>5. TableShape'
    <3>1. Entity(id, Me(c).tag) \in [id : Nat, tag : Tag \cup {Names}]
      BY DEF Entity
    <3>2. counter' \in Nat
      BY <2>2 DEF TableShape
    <3>3. QED
      BY <2>2, <3>1, <3>2 DEF TableShape, Stays, LegalShop
  <2>6. Others(c)
    BY <2>2, <2>4 DEF Others
  <2>7. QED
    BY <2>3, <2>4, <2>5, <2>6
<1>3. QED
  BY <1>1, <1>2

(* Rows are written, own is the key of one of them.                         *)
LEMMA Leaving ==
  ASSUME TableShape, Stays, client \in [Client -> CallRecord], NEW c \in Client, Busy(c),
         NEW rs \in SUBSET [id : Nat, tag : Tag \cup {Names}], NEW id \in Nat, Leaves(c, rs, id)
  PROVE  /\ TableShape' /\ Others(c)
         /\ \E q : Goes(c, q) /\ q.own = id /\ q.key = Me(c).key
<1> DEFINE q == Wrote(Me(c), id)
<1>1. /\ rows' = rs /\ Moves(c, Advanced(q))
      /\ counter' = counter /\ lastId' = lastId /\ pending' = pending
  BY DEF Leaves, Wrote
<1>2. SameCall(q, Me(c)) /\ q.own = id /\ q.key = Me(c).key
  BY WroteParts DEF Me, Keys
<1> HIDE DEF q
<1>3. /\ client' \in [Client -> CallRecord] /\ Goes(c, q)
      /\ \A d \in Client \ {c} : Me(d)' = Me(d)
  BY <1>1, <1>2, Going
<1>4. TableShape'
  BY <1>1 DEF TableShape, Stays, LegalShop
<1>5. QED
  BY <1>1, <1>2, <1>3, <1>4 DEF Others

LEMMA Rewriting ==
  ASSUME TableShape, Stays, client \in [Client -> CallRecord], NEW c \in Client, Busy(c),
         NEW old \in SUBSET rows, NEW tag \in Tag \cup {Names}, Rewrites(c, old, tag)
  PROVE  /\ TableShape' /\ Others(c)
         /\ \/ Gone(c)'
            \/ /\ old = {} /\ rows' = rows
               /\ \E q : /\ Goes(c, q) /\ q.own = Me(c).own /\ q.key = Me(c).key
                         /\ q.hit = FALSE
            \/ \E q : Goes(c, q) /\ q.key = Me(c).key /\ \E x \in old : q.own = x.id
<1>1. CASE old = {}
  <2> DEFINE q == Looked(Me(c), FALSE)
  <2>1. Passes(c, q)
    BY <1>1 DEF Rewrites, Looked
  <2>2. SameCall(q, Me(c)) /\ q.own = Me(c).own /\ q.key = Me(c).key /\ q.hit = FALSE
    BY LookedParts DEF Me
  <2> HIDE DEF q
  <2>3. TableShape' /\ Others(c) /\ Goes(c, q) /\ rows' = rows
    BY <2>1, <2>2, Passing
  <2>4. QED
    BY <1>1, <2>2, <2>3
<1>2. CASE Raises(c)
  BY <1>2, Raising
<1>3. CASE old # {} /\ ~ Raises(c)
  <2> DEFINE x == CHOOSE x \in old : TRUE
             rs == (rows \ old) \cup {Entity(y.id, tag) : y \in old}
  <2>1. x \in old
    BY <1>3
  <2>2. Leaves(c, rs, x.id)
    BY <1>3 DEF Rewrites
  <2> HIDE DEF x
  <2>3. \A y \in rows : y.id \in Nat
    BY DEF TableShape
  <2>4. rs \in SUBSET [id : Nat, tag : Tag \cup {Names}]
    <3>1. \A y \in old : Entity(y.id, tag) \in [id : Nat, tag : Tag \cup {Names}]
      BY <2>3 DEF Entity
    <3>2. QED
      BY <3>1 DEF TableShape
  <2> HIDE DEF rs
  <2>5. x.id \in Nat
    BY <2>1, <2>3
  <2>6. /\ TableShape' /\ Others(c)
        /\ \E q : Goes(c, q) /\ q.own = x.id /\ q.key = Me(c).key
    BY <2>2, <2>4, <2>5, Leaving
  <2>7. QED
    BY <2>1, <2>6
<1>4. QED
  BY <1>1, <1>2, <1>3

LEMMA Appending ==
  ASSUME TableShape, Stays, client \in [Client -> CallRecord], NEW c \in Client, Busy(c),
         Me(c).tag \in Tag, Me(c).id \in Nat, AppendRow(c)
  PROVE  /\ TableShape' /\ Others(c)
         /\ \E q : Goes(c, q) /\ q.own = Me(c).id /\ q.key = Me(c).key
<1> DEFINE rs == rows \cup {Entity(Me(c).id, Me(c).tag)}
<1>1. rs \in SUBSET [id : Nat, tag : Tag \cup {Names}]
  <2>1. Entity(Me(c).id, Me(c).tag) \in [id : Nat, tag : Tag \cup {Names}]
    BY DEF Entity
  <2>2. QED
    BY <2>1 DEF TableShape
<1>2. Leaves(c, rs, Me(c).id)
  BY DEF AppendRow
<1> HIDE DEF rs
<1>3. QED
  BY <1>1, <1>2, Leaving

LEMMA Accepting ==
  ASSUME TableShape, Stays, client \in [Client -> CallRecord], NEW c \in Client, Busy(c),
         Me(c).tag \in Tag, Me(c).id \in Nat, shop.class \in Columnar,
         NEW kind \in {"update", "delete"}, Accepts(c, Mutation(c, kind))
  PROVE  /\ TableShape' /\ Others(c)
         /\ \E q : Goes(c, q) /\ q.own = Me(c).id /\ q.key = Me(c).key
<1> DEFINE q == Owned(Me(c), Me(c).id)
<1>1. /\ pending' = pending \cup {Mutation(c, kind)} /\ Moves(c, Advanced(q))
      /\ rows' = rows /\ counter' = counter /\ lastId' = lastId
  BY DEF Accepts, Owned
<1>2. SameCall(q, Me(c)) /\ q.own = Me(c).id /\ q.key = Me(c).key
  BY OwnedParts DEF Me, Keys
<1> HIDE DEF q
<1>3. /\ client' \in [Client -> CallRecord] /\ Goes(c, q)
      /\ \A d \in Client \ {c} : Me(d)' = Me(d)
  BY <1>1, <1>2, Going
<1>4. Mutation(c, kind) \in [kind : {"update", "delete"}, row : [id : Nat, tag : Tag]]
  BY DEF Mutation, Entity
<1>5. TableShape'
  BY <1>1, <1>4 DEF TableShape, Stays, LegalShop
<1>6. QED
  BY <1>1, <1>2, <1>3, <1>5 DEF Others

(* DELETE, and the counter of a table in MongoDB.                           *)
LEMMA Deleting ==
  ASSUME TableShape, Stays, client \in [Client -> CallRecord], NEW c \in Client, Busy(c),
         Executes(c, "delete")
  PROVE  TableShape' /\ Others(c) /\ Goes(c, Me(c))
<1>1. /\ rows' = rows \ Takes(Me(c).id) /\ Moves(c, Advanced(Me(c)))
      /\ counter' = counter /\ lastId' = lastId /\ pending' = pending
  BY DEF Executes
<1>2. SameCall(Me(c), Me(c))
  BY DEF SameCall, Me
<1>3. /\ client' \in [Client -> CallRecord] /\ Goes(c, Me(c))
      /\ \A d \in Client \ {c} : Me(d)' = Me(d)
  BY <1>1, <1>2, Going
<1>4. TableShape'
  BY <1>1 DEF TableShape, Stays, LegalShop
<1>5. QED
  BY <1>1, <1>3, <1>4 DEF Others

LEMMA TakingKey ==
  ASSUME TableShape, Stays, client \in [Client -> CallRecord], NEW c \in Client, Busy(c),
         Executes(c, "count")
  PROVE  TableShape' /\ Others(c) /\ \E q : Goes(c, q) /\ q.key \in Nat
<1> DEFINE q == Keyed(Me(c), counter + 1)
<1>1. /\ counter' = counter + 1 /\ Moves(c, Advanced(q))
      /\ rows' = rows /\ lastId' = lastId /\ pending' = pending
  BY DEF Executes, Keyed
<1>2. counter + 1 \in Nat /\ counter + 1 \in Keys
  BY DEF TableShape, Keys
<1>3. SameCall(q, Me(c)) /\ q.key = counter + 1
  BY <1>2, KeyedParts DEF Me
<1> HIDE DEF q
<1>4. /\ client' \in [Client -> CallRecord] /\ Goes(c, q)
      /\ \A d \in Client \ {c} : Me(d)' = Me(d)
  BY <1>1, <1>3, Going
<1>5. TableShape'
  BY <1>1, <1>2 DEF TableShape, Stays, LegalShop
<1>6. QED
  BY <1>1, <1>2, <1>3, <1>4, <1>5 DEF Others

-----------------------------------------------------------------------------
(* Where a call is after its statement.                                     *)

Turn(c) ==
  /\ TableShape /\ Stays /\ client \in [Client -> CallRecord]
  /\ Busy(c) /\ Me(c).tag \in Tag /\ Me(c).result = "none"

Fine(c) == TableShape' /\ Others(c) /\ CallSound(c, Me(c))'

LEMMA NextStep ==
  ASSUME NEW c \in Client, NEW q, Goes(c, q), Len(Me(c).todo) > 1, Busy(c)
  PROVE  /\ Me(c)'.todo = Tail(Me(c).todo) /\ Me(c)'.op = Me(c).op /\ Me(c)'.id = Me(c).id
         /\ Me(c)'.tag = Me(c).tag /\ Me(c)'.result = Me(c).result
         /\ Me(c)'.own = q.own /\ Me(c)'.key = q.key /\ Me(c)'.hit = q.hit
         /\ Me(c)'.cursor = q.cursor
<1>1. /\ q \in CallRecord /\ Len(q.todo) > 1 /\ q.todo # <<>> /\ q.todo = Me(c).todo
      /\ q.op = Me(c).op /\ q.id = Me(c).id /\ q.tag = Me(c).tag /\ q.result = Me(c).result
  BY DEF Goes, SameCall, Busy
<1>2. Me(c)' = Advanced(q)
  BY DEF Goes
<1>3. QED
  BY <1>1, <1>2, GoesOn

LEMMA LastStep ==
  ASSUME NEW c \in Client, NEW q, Goes(c, q), Len(Me(c).todo) = 1
  PROVE  /\ Me(c)'.todo = <<>> /\ Me(c)'.op = Me(c).op /\ Me(c)'.id = Me(c).id
         /\ Me(c)'.own = q.own /\ Me(c)'.key = q.key
<1>1. /\ q \in CallRecord /\ Len(q.todo) = 1
      /\ q.op = Me(c).op /\ q.id = Me(c).id
  BY DEF Goes, SameCall
<1>2. Me(c)' = Advanced(q)
  BY DEF Goes
<1>3. QED
  BY <1>1, <1>2, Returns

LEMMA GoneIsSound ==
  ASSUME NEW c \in Client, Gone(c)'
  PROVE  CallSound(c, Me(c))'
  BY DEF Gone, CallSound, Done

(* A call that returns.                                                     *)
LEMMA EndIsSound ==
  ASSUME NEW c \in Client, NEW q, Stays, Goes(c, q), Len(Me(c).todo) = 1,
         \/ ~ Writing(Me(c))
         \/ MayDrop(Me(c))
         \/ q.own # NoId /\ (q.key = q.own \/ Wired \/ ZeroKey(Me(c)))
  PROVE  CallSound(c, Me(c))'
<1>1. /\ Me(c)'.todo = <<>> /\ Me(c)'.op = Me(c).op /\ Me(c)'.id = Me(c).id
      /\ Me(c)'.own = q.own /\ Me(c)'.key = q.key
  BY LastStep
<1>2. QED
  BY <1>1 DEF CallSound, Done, Good, Writing, MayDrop, ZeroKey, Wired, Stays

(* A call that goes on.                                                     *)
LEMMA NextIsSound ==
  ASSUME NEW c \in Client, NEW q, Turn(c), Goes(c, q), Len(Me(c).todo) > 1, Writing(Me(c)),
         (Before(Me(c)) \/ Between(c, Me(c)))'
  PROVE  CallSound(c, Me(c))'
<1>1. Me(c)'.op = Me(c).op /\ Me(c)'.tag = Me(c).tag /\ Me(c)'.result = Me(c).result
  BY NextStep DEF Turn
<1>2. QED
  BY <1>1 DEF CallSound, Writing, Turn

(* The calls of the other clients.                                          *)
LEMMA OtherIsSound ==
  ASSUME TableShape, Stays, NEW d \in Client, CallSound(d, Me(d)), Me(d)' = Me(d),
         shop.class \in Lends /\ ~ Wired => lastId'[d] = lastId[d],
         \/ Me(d).todo # <<"insertOrIgnore">> \/ shop.class \notin Locks
         \/ rows' = rows
  PROVE  CallSound(d, Me(d))'
<1>1. Me(d)' = Me(d) /\ shop' = shop
  BY DEF Stays
<1>2. CASE Done(Me(d))
  BY <1>1, <1>2 DEF CallSound, Done, Good, Writing, MayDrop, ZeroKey, Wired
<1>3. CASE Serving(Me(d)) /\ Me(d).tag \in Tag /\ Me(d).result = "none"
  BY <1>1, <1>3 DEF CallSound, Serving, Writing
<1>4. CASE Before(Me(d)) /\ Writing(Me(d)) /\ Me(d).tag \in Tag /\ Me(d).result = "none"
  <2>1. Before(Me(d))'
    BY <1>1, <1>4 DEF Before, Plain, Named
  <2>2. QED
    BY <1>1, <1>4, <2>1 DEF CallSound, Writing
<1>5. CASE Between(d, Me(d)) /\ Writing(Me(d)) /\ Me(d).tag \in Tag /\ Me(d).result = "none"
  <2>1. shop.class \in Lends /\ ~ Wired => lastId'[d] = lastId[d] /\ Wire(d) = d
    BY OwnWire
  <2>2. Wire(d)' = Wire(d)
    BY <1>1 DEF Wire
  <2>3. Between(d, Me(d))'
    <3>1. CASE Me(d).todo = <<"insertOrIgnore">>
      BY <1>1, <1>5, <3>1 DEF Between, Named, Takes, Locks
    <3>2. CASE Me(d).todo = <<"connectionKey">>
      BY <1>1, <1>5, <3>2, <2>1, <2>2 DEF Between, Named, Wired
    <3>3. CASE Me(d).todo \notin {<<"insertOrIgnore">>, <<"connectionKey">>}
      BY <1>1, <1>5, <3>3 DEF Between, Named
    <3>4. QED
      BY <3>1, <3>2, <3>3
  <2>4. QED
    BY <1>1, <1>5, <2>3 DEF CallSound, Writing
<1>6. QED
  BY <1>2, <1>3, <1>4, <1>5 DEF CallSound

-----------------------------------------------------------------------------
(* The statements of a call that writes, each at its place.                 *)

LEMMA NatIsKnown == \A n \in Nat : n # NoId
  BY RowsAssumption

(* create(): the key is the entity's.                                       *)
LEMMA InsertOwnKey ==
  ASSUME NEW c \in Client, Turn(c), Writing(Me(c)), Executes(c, "insert"),
         Me(c).todo \in {<<"insert">>, <<"insert", "verify">>}, ~ shop.auto, Plain(Me(c))
  PROVE  Fine(c)
<1>1. InsertAs(c, Me(c).id) /\ Me(c).id \in Nat /\ Me(c).key = Me(c).id
  BY DEF Executes, Plain, Named
<1>2. /\ TableShape' /\ Others(c)
      /\ Gone(c)' \/ \E q : Goes(c, q) /\ q.own = Me(c).id /\ q.key = Me(c).key
  BY <1>1, Inserting DEF Turn
<1>3. ASSUME NEW q, Goes(c, q), q.own = Me(c).id, q.key = Me(c).key
      PROVE  CallSound(c, Me(c))'
  <2>1. CASE Me(c).todo = <<"insert">>
    BY <1>1, <1>3, <2>1, One, EndIsSound, NatIsKnown DEF Turn
  <2>2. CASE Me(c).todo = <<"insert", "verify">>
    <3>1. Len(Me(c).todo) > 1 /\ Tail(Me(c).todo) = <<"verify">>
      BY <2>2, Two
    <3>2. /\ Me(c)'.todo = <<"verify">> /\ Me(c)'.own = q.own /\ Me(c)'.key = q.key
      BY <1>3, <3>1, NextStep DEF Turn
    <3>3. Between(c, Me(c))'
      BY <1>1, <1>3, <3>2 DEF Between
    <3>4. QED
      BY <1>3, <3>1, <3>3, NextIsSound
  <2>3. QED
    BY <2>1, <2>2
<1>4. QED
  BY <1>2, <1>3, GoneIsSound DEF Fine

(* create() and upsert(): the key is the server's.                          *)
LEMMA InsertGivenKey ==
  ASSUME NEW c \in Client, Turn(c), Writing(Me(c)), Executes(c, "insert"), shop.auto,
         \/ Me(c).todo \in {<<"insert", "cursorKey">>, <<"insert", "cursorKey", "verify">>}
         \/ Me(c).todo = <<"insert", "connectionKey">> /\ shop.class \in Lends
  PROVE  Fine(c)
<1>1. InsertGenerated(c)
  BY DEF Executes
<1>2. /\ TableShape' /\ Others(c)
      /\ \/ Gone(c)'
         \/ \E q : /\ Goes(c, q) /\ q.own \in Nat /\ q.own = q.cursor /\ q.key = Me(c).key
                   /\ shop.class \in Lends /\ ~ Wired => lastId'[c] = q.own
  BY <1>1, Generating DEF Turn
<1>3. ASSUME NEW q, Goes(c, q), q.own \in Nat, q.own = q.cursor,
             shop.class \in Lends /\ ~ Wired => lastId'[c] = q.own
      PROVE  CallSound(c, Me(c))'
  <2>1. CASE Me(c).todo \in {<<"insert", "cursorKey">>, <<"insert", "cursorKey", "verify">>}
    <3>1. /\ Len(Me(c).todo) > 1
          /\ Tail(Me(c).todo) \in {<<"cursorKey">>, <<"cursorKey", "verify">>}
      <4>1. CASE Me(c).todo = <<"insert", "cursorKey">>
        BY <4>1, Two
      <4>2. CASE Me(c).todo = <<"insert", "cursorKey", "verify">>
        BY <4>2, Three
      <4>3. QED
        BY <2>1, <4>1, <4>2
    <3>2. /\ Me(c)'.todo = Tail(Me(c).todo) /\ Me(c)'.own = q.own /\ Me(c)'.cursor = q.cursor
      BY <1>3, <3>1, NextStep DEF Turn
    <3>3. Between(c, Me(c))'
      BY <1>3, <3>1, <3>2 DEF Between
    <3>4. QED
      BY <1>3, <3>1, <3>3, NextIsSound
  <2>2. CASE Me(c).todo = <<"insert", "connectionKey">> /\ shop.class \in Lends
    <3>1. Len(Me(c).todo) > 1 /\ Tail(Me(c).todo) = <<"connectionKey">>
      BY <2>2, Two
    <3>2. Me(c)'.todo = <<"connectionKey">> /\ Me(c)'.own = q.own
      BY <1>3, <3>1, NextStep DEF Turn
    <3>3. shop' = shop /\ (Wired' <=> Wired) /\ Wire(c)' = Wire(c)
      BY DEF Turn, Stays, Wired, Wire
    <3>4. ~ Wired => Wire(c) = c
      BY <2>2, OwnWire DEF Turn
    <3>5. Between(c, Me(c))'
      BY <1>3, <2>2, <3>2, <3>3, <3>4 DEF Between
    <3>6. QED
      BY <1>3, <3>1, <3>5, NextIsSound
  <2>3. QED
    BY <2>1, <2>2
<1>4. QED
  BY <1>2, <1>3, GoneIsSound DEF Fine

(* The two statements of create() in MongoDB.                               *)
LEMMA CountKey ==
  ASSUME NEW c \in Client, Turn(c), Writing(Me(c)), Executes(c, "count"),
         Me(c).todo = <<"count", "insertCounted">>
  PROVE  Fine(c)
<1>1. TableShape' /\ Others(c) /\ \E q : Goes(c, q) /\ q.key \in Nat
  BY TakingKey DEF Turn
<1>2. ASSUME NEW q, Goes(c, q), q.key \in Nat
      PROVE  CallSound(c, Me(c))'
  <2>1. Len(Me(c).todo) > 1 /\ Tail(Me(c).todo) = <<"insertCounted">>
    BY Two
  <2>2. Me(c)'.todo = <<"insertCounted">> /\ Me(c)'.key = q.key
    BY <1>2, <2>1, NextStep DEF Turn
  <2>3. Before(Me(c))'
    BY <1>2, <2>2 DEF Before
  <2>4. QED
    BY <1>2, <2>1, <2>3, NextIsSound
<1>3. QED
  BY <1>1, <1>2 DEF Fine

LEMMA InsertCounted ==
  ASSUME NEW c \in Client, Turn(c), Writing(Me(c)), Executes(c, "insertCounted"),
         Me(c).todo = <<"insertCounted">>, Me(c).key \in Nat
  PROVE  Fine(c)
<1>1. InsertAs(c, Me(c).key)
  BY DEF Executes
<1>2. /\ TableShape' /\ Others(c)
      /\ Gone(c)' \/ \E q : Goes(c, q) /\ q.own = Me(c).key /\ q.key = Me(c).key
  BY <1>1, Inserting DEF Turn
<1>3. ASSUME NEW q, Goes(c, q), q.own = Me(c).key, q.key = Me(c).key
      PROVE  CallSound(c, Me(c))'
  BY <1>3, One, EndIsSound, NatIsKnown DEF Turn
<1>4. QED
  BY <1>2, <1>3, GoneIsSound DEF Fine

(* upsert() of MySQL: a row that takes the place has the key, or the unique *)
(* column that the promise leaves out.                                      *)
LEMMA InsertOrUpdated ==
  ASSUME NEW c \in Client, Turn(c), Writing(Me(c)), Executes(c, "insertOrUpdate"),
         Me(c).todo = <<"insertOrUpdate">>, Plain(Me(c)), Me(c).op = "upsert",
         shop.class \in Lends, shop.auto /\ Me(c).id = 0 => shop.class = "mysql"
  PROVE  Fine(c)
<1> DEFINE id == Me(c).id
           tag == Me(c).tag
<1>1. /\ InsertOrUpdate(c) /\ id \in Nat /\ Me(c).key = id /\ id # NoId
      /\ Len(Me(c).todo) = 1
  BY One, NatIsKnown DEF Executes, Plain, Named
<1>2. CASE shop.auto /\ id = 0
  <2>1. InsertGenerated(c) /\ ZeroKey(Me(c))
    BY <1>1, <1>2 DEF InsertOrUpdate, ZeroKey
  <2>2. /\ TableShape' /\ Others(c)
        /\ Gone(c)' \/ \E q : Goes(c, q) /\ q.own \in Nat
    BY <2>1, Generating DEF Turn
  <2>3. ASSUME NEW q, Goes(c, q), q.own \in Nat
        PROVE  CallSound(c, Me(c))'
    BY <1>1, <2>1, <2>3, EndIsSound, NatIsKnown DEF Turn
  <2>4. QED
    BY <2>2, <2>3, GoneIsSound DEF Fine
<1>3. CASE ~ (shop.auto /\ id = 0) /\ Clashes(id, tag) = {}
  <2>1. InsertAs(c, id)
    BY <1>1, <1>3 DEF InsertOrUpdate
  <2>2. /\ TableShape' /\ Others(c)
        /\ Gone(c)' \/ \E q : Goes(c, q) /\ q.own = id /\ q.key = Me(c).key
    BY <1>1, <2>1, Inserting DEF Turn
  <2>3. ASSUME NEW q, Goes(c, q), q.own = id, q.key = Me(c).key
        PROVE  CallSound(c, Me(c))'
    BY <1>1, <2>3, EndIsSound DEF Turn
  <2>4. QED
    BY <2>2, <2>3, GoneIsSound DEF Fine
<1>4. CASE ~ (shop.auto /\ id = 0) /\ Clashes(id, tag) # {}
  <2>1. PICK x \in Clashes(id, tag) : Rewrites(c, {x}, tag)
    BY <1>1, <1>4 DEF InsertOrUpdate
  <2>2. x \in rows /\ (x.id = id \/ shop.unique)
    BY <2>1 DEF Clashes, Takes
  <2>3. {x} \in SUBSET rows /\ {x} # {}
    BY <2>2
  <2>4. /\ TableShape' /\ Others(c)
        /\ \/ Gone(c)'
           \/ \E q : Goes(c, q) /\ q.key = Me(c).key /\ \E y \in {x} : q.own = y.id
    BY <2>1, <2>3, Rewriting DEF Turn
  <2>5. ASSUME NEW q, Goes(c, q), q.key = Me(c).key, q.own = x.id
        PROVE  CallSound(c, Me(c))'
    <3>1. CASE x.id = id
      BY <1>1, <2>5, <3>1, EndIsSound DEF Turn
    <3>2. CASE shop.unique
      <4>1. MayDrop(Me(c))
        BY <3>2 DEF MayDrop, Lends, SqlFamily
      <4>2. QED
        BY <1>1, <2>5, <4>1, EndIsSound DEF Turn
    <3>3. QED
      BY <2>2, <3>1, <3>2
  <2>6. QED
    BY <2>4, <2>5, GoneIsSound DEF Fine
<1>5. QED
  BY <1>2, <1>3, <1>4

(* upsert() without autoincrement in MongoDB.                               *)
LEMMA UpdateOrInserted ==
  ASSUME NEW c \in Client, Turn(c), Writing(Me(c)), Executes(c, "updateOrInsert"),
         Me(c).todo = <<"updateOrInsert">>, Plain(Me(c))
  PROVE  Fine(c)
<1> DEFINE id == Me(c).id
<1>1. id \in Nat /\ Me(c).key = id /\ id # NoId /\ Len(Me(c).todo) = 1
  BY One, NatIsKnown DEF Plain, Named
<1>2. ASSUME NEW q, Goes(c, q), q.own = id, q.key = Me(c).key
      PROVE  CallSound(c, Me(c))'
  BY <1>1, <1>2, EndIsSound DEF Turn
<1>3. CASE Takes(id) # {}
  <2>1. Rewrites(c, Takes(id), Me(c).tag)
    BY <1>3 DEF Executes
  <2>2. Takes(id) \in SUBSET rows /\ \A x \in Takes(id) : x.id = id
    BY DEF Takes
  <2>3. /\ TableShape' /\ Others(c)
        /\ \/ Gone(c)'
           \/ \E q : Goes(c, q) /\ q.key = Me(c).key /\ \E x \in Takes(id) : q.own = x.id
    BY <1>3, <2>1, <2>2, Rewriting DEF Turn
  <2>4. QED
    BY <1>2, <2>2, <2>3, GoneIsSound DEF Fine
<1>4. CASE Takes(id) = {}
  <2>1. InsertAs(c, id)
    BY <1>4 DEF Executes
  <2>2. /\ TableShape' /\ Others(c)
        /\ Gone(c)' \/ \E q : Goes(c, q) /\ q.own = id /\ q.key = Me(c).key
    BY <1>1, <2>1, Inserting DEF Turn
  <2>3. QED
    BY <1>2, <2>2, GoneIsSound DEF Fine
<1>5. QED
  BY <1>3, <1>4

(* ClickHouse: the row or the mutation that is to bring it about.           *)
LEMMA AppendThenSync ==
  ASSUME NEW c \in Client, Turn(c), Writing(Me(c)), Executes(c, "append"),
         Me(c).todo = <<"append", "sync">>, Plain(Me(c))
  PROVE  Fine(c)
<1>1. AppendRow(c) /\ Me(c).id \in Nat /\ Me(c).key = Me(c).id
  BY DEF Executes, Plain, Named
<1>2. /\ TableShape' /\ Others(c)
      /\ \E q : Goes(c, q) /\ q.own = Me(c).id /\ q.key = Me(c).key
  BY <1>1, Appending DEF Turn
<1>3. ASSUME NEW q, Goes(c, q), q.own = Me(c).id, q.key = Me(c).key
      PROVE  CallSound(c, Me(c))'
  <2>1. Len(Me(c).todo) > 1 /\ Tail(Me(c).todo) = <<"sync">>
    BY Two
  <2>2. /\ Me(c)'.todo = <<"sync">> /\ Me(c)'.own = q.own /\ Me(c)'.key = q.key
    BY <1>3, <2>1, NextStep DEF Turn
  <2>3. Between(c, Me(c))'
    BY <1>1, <1>3, <2>2 DEF Between
  <2>4. QED
    BY <1>3, <2>1, <2>3, NextIsSound
<1>4. QED
  BY <1>2, <1>3 DEF Fine

LEMMA SelectThenWrite ==
  ASSUME NEW c \in Client, Turn(c), Writing(Me(c)), Executes(c, "select"),
         Me(c).todo = <<"select", "mutateOrAppend", "sync">>, Plain(Me(c)),
         shop.class \in Columnar
  PROVE  Fine(c)
<1> DEFINE q == Looked(Me(c), Takes(Me(c).id) # {})
<1>1. Passes(c, q)
  BY DEF Executes, Looked
<1>2. SameCall(q, Me(c)) /\ q.own = Me(c).own /\ q.key = Me(c).key
  BY LookedParts DEF Turn, Me
<1> HIDE DEF q
<1>3. TableShape' /\ Others(c) /\ Goes(c, q)
  BY <1>1, <1>2, Passing DEF Turn
<1>4. Len(Me(c).todo) > 1 /\ Tail(Me(c).todo) = <<"mutateOrAppend", "sync">>
  BY Three
<1>5. /\ Me(c)'.todo = <<"mutateOrAppend", "sync">> /\ Me(c)'.id = Me(c).id
      /\ Me(c)'.own = Me(c).own /\ Me(c)'.key = Me(c).key
  BY <1>2, <1>3, <1>4, NextStep DEF Turn
<1>6. Before(Me(c))'
  BY <1>5 DEF Before, Plain, Named, Turn, Stays
<1>7. CallSound(c, Me(c))'
  BY <1>3, <1>4, <1>6, NextIsSound
<1>8. QED
  BY <1>3, <1>7 DEF Fine

LEMMA MutateOrAppended ==
  ASSUME NEW c \in Client, Turn(c), Writing(Me(c)), Executes(c, "mutateOrAppend"),
         Me(c).todo = <<"mutateOrAppend", "sync">>, Plain(Me(c)), shop.class \in Columnar
  PROVE  Fine(c)
<1>1. Me(c).id \in Nat /\ Me(c).key = Me(c).id
  BY DEF Plain, Named
<1>2. Accepts(c, Mutation(c, "update")) \/ AppendRow(c)
  BY DEF Executes
<1>3. /\ TableShape' /\ Others(c)
      /\ \E q : Goes(c, q) /\ q.own = Me(c).id /\ q.key = Me(c).key
  BY <1>1, <1>2, Appending, Accepting DEF Turn
<1>4. ASSUME NEW q, Goes(c, q), q.own = Me(c).id, q.key = Me(c).key
      PROVE  CallSound(c, Me(c))'
  <2>1. Len(Me(c).todo) > 1 /\ Tail(Me(c).todo) = <<"sync">>
    BY Two
  <2>2. /\ Me(c)'.todo = <<"sync">> /\ Me(c)'.own = q.own /\ Me(c)'.key = q.key
    BY <1>4, <2>1, NextStep DEF Turn
  <2>3. Between(c, Me(c))'
    BY <1>1, <1>4, <2>2 DEF Between
  <2>4. QED
    BY <1>4, <2>1, <2>3, NextIsSound
<1>5. QED
  BY <1>3, <1>4 DEF Fine

(* The UPDATE of upsert() in SQLite and in MSSQL, which finds the row or    *)
(* leaves it to the second statement.                                       *)
LEMMA UpdateFirst ==
  ASSUME NEW c \in Client, Turn(c), Writing(Me(c)), Executes(c, "update"), Plain(Me(c)),
         \/ /\ Me(c).todo = <<"update", "insertOrIgnore">> /\ Me(c).op = "upsert"
            /\ shop.class \in Locks
         \/ Me(c).todo = <<"update", "insertIfMissed">>
  PROVE  Fine(c)
<1> DEFINE id == Me(c).id
<1>1. /\ Rewrites(c, Takes(id), Me(c).tag) /\ id \in Nat /\ Me(c).key = id
      /\ Me(c).own = NoId
  BY DEF Executes, Plain, Named
<1>2. Takes(id) \in SUBSET rows /\ \A x \in Takes(id) : x.id = id
  BY DEF Takes
<1>3. /\ TableShape' /\ Others(c)
      /\ \/ Gone(c)'
         \/ /\ Takes(id) = {} /\ rows' = rows
            /\ \E q : /\ Goes(c, q) /\ q.own = Me(c).own /\ q.key = Me(c).key
                      /\ q.hit = FALSE
         \/ \E q : Goes(c, q) /\ q.key = Me(c).key /\ \E x \in Takes(id) : q.own = x.id
  BY <1>1, <1>2, Rewriting DEF Turn
<1>4. Len(Me(c).todo) > 1 /\ Tail(Me(c).todo) \in {<<"insertOrIgnore">>, <<"insertIfMissed">>}
  <2>1. CASE Me(c).todo = <<"update", "insertOrIgnore">>
    BY <2>1, Two
  <2>2. CASE Me(c).todo = <<"update", "insertIfMissed">>
    BY <2>2, Two
  <2>3. QED
    BY <2>1, <2>2
<1>5. Tail(Me(c).todo) = <<"insertOrIgnore">> => Me(c).op = "upsert" /\ shop.class \in Locks
  <2>1. CASE Me(c).todo = <<"update", "insertIfMissed">>
    <3>1. Tail(Me(c).todo) = <<"insertIfMissed">> /\ <<"insertIfMissed">> # <<"insertOrIgnore">>
      BY <2>1, Two
    <3>2. QED
      BY <3>1
  <2>2. QED
    BY <2>1
<1>6. ASSUME NEW q, Goes(c, q), q.key = Me(c).key,
             q.own = id \/ (q.own = NoId /\ q.hit = FALSE /\ Takes(id) = {} /\ rows' = rows)
      PROVE  CallSound(c, Me(c))'
  <2>1. /\ Me(c)'.todo = Tail(Me(c).todo) /\ Me(c)'.own = q.own /\ Me(c)'.key = q.key
        /\ Me(c)'.hit = q.hit /\ Me(c)'.id = id /\ Me(c)'.op = Me(c).op
    BY <1>4, <1>6, NextStep DEF Turn
  <2>2. Named(Me(c))' /\ shop' = shop
    BY <1>1, <1>6, <2>1 DEF Named, Turn, Stays
  <2>3. Between(c, Me(c))'
    <3>1. CASE Tail(Me(c).todo) = <<"insertOrIgnore">>
      <4>1. Takes(id) = {} /\ rows' = rows => Takes(Me(c).id)' = {}
        BY <2>1 DEF Takes
      <4>2. QED
        BY <1>5, <1>6, <2>1, <2>2, <3>1, <4>1 DEF Between
    <3>2. CASE Tail(Me(c).todo) = <<"insertIfMissed">>
      BY <1>6, <2>1, <2>2, <3>2 DEF Between
    <3>3. QED
      BY <1>4, <3>1, <3>2
  <2>4. QED
    BY <1>4, <1>6, <2>3, NextIsSound
<1>7. Gone(c)' \/ CallSound(c, Me(c))'
  <2>1. CASE \E q : Goes(c, q) /\ q.key = Me(c).key /\ \E x \in Takes(id) : q.own = x.id
    BY <1>2, <1>6, <2>1
  <2>2. CASE /\ Takes(id) = {} /\ rows' = rows
             /\ \E q : /\ Goes(c, q) /\ q.own = Me(c).own /\ q.key = Me(c).key
                      /\ q.hit = FALSE
    BY <1>1, <1>6, <2>2
  <2>3. QED
    BY <1>3, <2>1, <2>2
<1>8. QED
  BY <1>3, <1>7, GoneIsSound DEF Fine

(* The second statement of upsert() in SQLite.  Nobody has written since    *)
(* the first, so a row in the way has the unique column of the entity.      *)
LEMMA InsertOrIgnored ==
  ASSUME NEW c \in Client, Turn(c), Writing(Me(c)), Executes(c, "insertOrIgnore"),
         Me(c).todo = <<"insertOrIgnore">>, Named(Me(c)), Me(c).op = "upsert",
         shop.class \in Locks,
         Me(c).own = Me(c).id \/ (Me(c).own = NoId /\ Takes(Me(c).id) = {})
  PROVE  Fine(c)
<1> DEFINE id == Me(c).id
<1>1. id \in Nat /\ Me(c).key = id /\ id # NoId /\ Len(Me(c).todo) = 1
  BY One, NatIsKnown DEF Named
<1>2. CASE Clashes(id, Me(c).tag) # {}
  <2>1. Passes(c, Me(c)) /\ SameCall(Me(c), Me(c))
    BY <1>2 DEF Executes, SameCall, Turn, Me
  <2>2. TableShape' /\ Others(c) /\ Goes(c, Me(c))
    BY <2>1, Passing DEF Turn
  <2>3. MayDrop(Me(c)) \/ Me(c).own = id
    BY <1>2 DEF MayDrop, Clashes, Locks, SqlFamily
  <2>4. CallSound(c, Me(c))'
    BY <1>1, <2>2, <2>3, EndIsSound DEF Turn
  <2>5. QED
    BY <2>2, <2>4 DEF Fine
<1>3. CASE Clashes(id, Me(c).tag) = {}
  <2>1. InsertAs(c, id)
    BY <1>3 DEF Executes
  <2>2. /\ TableShape' /\ Others(c)
        /\ Gone(c)' \/ \E q : Goes(c, q) /\ q.own = id /\ q.key = Me(c).key
    BY <1>1, <2>1, Inserting DEF Turn
  <2>3. ASSUME NEW q, Goes(c, q), q.own = id, q.key = Me(c).key
        PROVE  CallSound(c, Me(c))'
    BY <1>1, <2>3, EndIsSound DEF Turn
  <2>4. QED
    BY <2>2, <2>3, GoneIsSound DEF Fine
<1>4. QED
  BY <1>2, <1>3

(* And in MSSQL, where another client may have written: INSERT raises then. *)
LEMMA InsertIfMissed ==
  ASSUME NEW c \in Client, Turn(c), Writing(Me(c)), Executes(c, "insertIfMissed"),
         Me(c).todo = <<"insertIfMissed">>, Named(Me(c)), Me(c).hit => Me(c).own = Me(c).id
  PROVE  Fine(c)
<1> DEFINE id == Me(c).id
<1>1. id \in Nat /\ Me(c).key = id /\ id # NoId /\ Len(Me(c).todo) = 1
  BY One, NatIsKnown DEF Named
<1>2. CASE Me(c).hit
  <2>1. Passes(c, Me(c)) /\ SameCall(Me(c), Me(c))
    BY <1>2 DEF Executes, SameCall, Turn, Me
  <2>2. TableShape' /\ Others(c) /\ Goes(c, Me(c))
    BY <2>1, Passing DEF Turn
  <2>3. CallSound(c, Me(c))'
    BY <1>1, <1>2, <2>2, EndIsSound DEF Turn
  <2>4. QED
    BY <2>2, <2>3 DEF Fine
<1>3. CASE ~ Me(c).hit
  <2>1. Raises(c) \/ InsertAs(c, id)
    BY <1>3 DEF Executes
  <2>2. /\ TableShape' /\ Others(c)
        /\ Gone(c)' \/ \E q : Goes(c, q) /\ q.own = id /\ q.key = Me(c).key
    BY <1>1, <2>1, Inserting, Raising DEF Turn
  <2>3. ASSUME NEW q, Goes(c, q), q.own = id, q.key = Me(c).key
        PROVE  CallSound(c, Me(c))'
    BY <1>1, <2>3, EndIsSound DEF Turn
  <2>4. QED
    BY <2>2, <2>3, GoneIsSound DEF Fine
<1>4. QED
  BY <1>2, <1>3

(* The key is read: from the cursor, which is the call's own.               *)
LEMMA KeyFromCursor ==
  ASSUME NEW c \in Client, Turn(c), Writing(Me(c)), Executes(c, "cursorKey"),
         Me(c).todo \in {<<"cursorKey">>, <<"cursorKey", "verify">>},
         Me(c).own = Me(c).cursor, Me(c).own \in Nat
  PROVE  Fine(c)
<1> DEFINE q == Keyed(Me(c), Me(c).cursor)
<1>1. Passes(c, q)
  BY DEF Executes, Keyed, CursorKey
<1>2. SameCall(q, Me(c)) /\ q.own = Me(c).own /\ q.key = Me(c).own /\ q.own # NoId
  <2>1. Me(c) \in CallRecord /\ Me(c).cursor \in Keys
    BY DEF Turn, Me, CallRecord
  <2>2. QED
    BY <2>1, KeyedParts, NatIsKnown
<1> HIDE DEF q
<1>3. TableShape' /\ Others(c) /\ Goes(c, q)
  BY <1>1, <1>2, Passing DEF Turn
<1>4. CallSound(c, Me(c))'
  <2>1. CASE Me(c).todo = <<"cursorKey">>
    BY <1>2, <1>3, <2>1, One, EndIsSound DEF Turn
  <2>2. CASE Me(c).todo = <<"cursorKey", "verify">>
    <3>1. Len(Me(c).todo) > 1 /\ Tail(Me(c).todo) = <<"verify">>
      BY <2>2, Two
    <3>2. /\ Me(c)'.todo = <<"verify">> /\ Me(c)'.own = q.own /\ Me(c)'.key = q.key
      BY <1>3, <3>1, NextStep DEF Turn
    <3>3. Between(c, Me(c))'
      BY <1>2, <3>2 DEF Between
    <3>4. QED
      BY <1>3, <3>1, <3>3, NextIsSound
  <2>3. QED
    BY <2>1, <2>2
<1>5. QED
  BY <1>3, <1>4 DEF Fine

(* From the connection, which others may have used if it is shared.         *)
LEMMA KeyFromConnection ==
  ASSUME NEW c \in Client, Turn(c), Writing(Me(c)), Executes(c, "connectionKey"),
         Me(c).todo = <<"connectionKey">>, Me(c).own \in Nat,
         Wired \/ lastId[Wire(c)] = Me(c).own
  PROVE  Fine(c)
<1> DEFINE k == lastId[Wire(c)]
           q == Keyed(Me(c), k)
<1>1. Passes(c, q)
  BY DEF Executes, Keyed
<1>2. SameCall(q, Me(c)) /\ q.own = Me(c).own /\ q.key = k /\ q.own # NoId
  <2>1. Me(c) \in CallRecord
    BY DEF Turn, Me
  <2>2. k \in Keys
    BY DEF Turn, TableShape, Wire, Keys
  <2> HIDE DEF k
  <2>3. QED
    BY <2>1, <2>2, KeyedParts, NatIsKnown
<1> HIDE DEF q
<1>3. TableShape' /\ Others(c) /\ Goes(c, q)
  BY <1>1, <1>2, Passing DEF Turn
<1>4. CallSound(c, Me(c))'
  BY <1>2, <1>3, One, EndIsSound DEF Turn
<1>5. QED
  BY <1>3, <1>4 DEF Fine

(* The last look: the row is there, or the mutation is acknowledged.        *)
LEMMA LastLook ==
  ASSUME NEW c \in Client, NEW s, Turn(c), Writing(Me(c)), Executes(c, s), s \in {"verify", "sync"},
         Me(c).todo = <<s>>, Me(c).own = Me(c).key, Me(c).own \in Nat
  PROVE  Fine(c)
<1>1. Passes(c, Me(c)) \/ Raises(c)
  BY DEF Executes
<1>2. Me(c).own # NoId /\ Len(Me(c).todo) = 1
  BY One, NatIsKnown
<1>3. CASE Passes(c, Me(c))
  <2>1. SameCall(Me(c), Me(c))
    BY DEF SameCall, Turn, Me
  <2>2. TableShape' /\ Others(c) /\ Goes(c, Me(c))
    BY <1>3, <2>1, Passing DEF Turn
  <2>3. CallSound(c, Me(c))'
    BY <1>2, <2>2, EndIsSound DEF Turn
  <2>4. QED
    BY <2>2, <2>3 DEF Fine
<1>4. CASE Raises(c)
  BY <1>4, Raising, GoneIsSound DEF Turn, Fine
<1>5. QED
  BY <1>1, <1>3, <1>4

-----------------------------------------------------------------------------
(* Every statement of a call.                                               *)

LEMMA ServingStep ==
  ASSUME NEW c \in Client, Turn(c), Serving(Me(c)), Executes(c, Head(Me(c).todo))
  PROVE  Fine(c)
<1> DEFINE id == Me(c).id
<1>1. ~ Writing(Me(c)) /\ id \in Nat
  BY DEF Serving
<1>2. SameCall(Me(c), Me(c))
  BY DEF SameCall, Turn, Me
<1>3. ASSUME NEW q, Goes(c, q), Len(Me(c).todo) = 1
      PROVE  CallSound(c, Me(c))'
  BY <1>1, <1>3, EndIsSound DEF Turn
<1>4. CASE Me(c).todo \in {<<"select">>, <<"sync">>}
  <2>1. Len(Me(c).todo) = 1 /\ Head(Me(c).todo) \in {"select", "sync"}
    BY <1>4, One
  <2>2. \E q : SameCall(q, Me(c)) /\ Passes(c, q)
    <3>1. CASE Head(Me(c).todo) = "select"
      <4> DEFINE q == Looked(Me(c), Takes(id) # {})
      <4>1. Passes(c, q)
        BY <3>1 DEF Executes, Looked
      <4>2. SameCall(q, Me(c))
        BY LookedParts DEF Turn, Me
      <4>3. QED
        BY <4>1, <4>2
    <3>2. CASE Head(Me(c).todo) = "sync"
      BY <1>2, <3>2 DEF Executes
    <3>3. QED
      BY <2>1, <3>1, <3>2
  <2>3. PICK q : SameCall(q, Me(c)) /\ Passes(c, q)
    BY <2>2
  <2>4. TableShape' /\ Others(c) /\ Goes(c, q)
    BY <2>3, Passing DEF Turn
  <2>5. QED
    BY <1>3, <2>1, <2>4 DEF Fine
<1>5. CASE Me(c).todo \in {<<"update">>, <<"updateNames">>}
  <2>1. Len(Me(c).todo) = 1 /\ Head(Me(c).todo) \in {"update", "updateNames"}
    BY <1>5, One
  <2>2. PICK tag \in Tag \cup {Names} : Rewrites(c, Takes(id), tag)
    BY <2>1 DEF Executes, Turn
  <2>3. Takes(id) \in SUBSET rows
    BY DEF Takes
  <2>4. TableShape' /\ Others(c) /\ (Gone(c)' \/ \E q : Goes(c, q))
    BY <2>2, <2>3, Rewriting DEF Turn
  <2>5. QED
    BY <1>3, <2>1, <2>4, GoneIsSound DEF Fine
<1>6. CASE Me(c).todo = <<"delete">>
  <2>1. Len(Me(c).todo) = 1 /\ Executes(c, "delete")
    BY <1>6, One
  <2>2. TableShape' /\ Others(c) /\ Goes(c, Me(c))
    BY <2>1, Deleting DEF Turn
  <2>3. QED
    BY <1>3, <2>1, <2>2 DEF Fine
<1>7. CASE /\ Me(c).todo \in {<<"mutate", "sync">>, <<"mutateAway", "sync">>}
           /\ shop.class \in Columnar
  <2>1. /\ Len(Me(c).todo) > 1 /\ Head(Me(c).todo) \in {"mutate", "mutateAway"}
        /\ Tail(Me(c).todo) = <<"sync">>
    <3>1. CASE Me(c).todo = <<"mutate", "sync">>
      BY <3>1, Two
    <3>2. CASE Me(c).todo = <<"mutateAway", "sync">>
      BY <3>2, Two
    <3>3. QED
      BY <1>7, <3>1, <3>2
  <2>2. PICK kind \in {"update", "delete"} : Accepts(c, Mutation(c, kind))
    BY <2>1 DEF Executes
  <2>3. TableShape' /\ Others(c) /\ \E q : Goes(c, q)
    BY <1>1, <1>7, <2>2, Accepting DEF Turn
  <2>4. PICK q : Goes(c, q)
    BY <2>3
  <2>5. /\ Me(c)'.todo = <<"sync">> /\ Me(c)'.op = Me(c).op /\ Me(c)'.id = id
        /\ Me(c)'.tag = Me(c).tag /\ Me(c)'.result = Me(c).result
    BY <2>1, <2>4, NextStep DEF Turn
  <2>6. Serving(Me(c))'
    BY <1>1, <2>5 DEF Serving, Writing
  <2>7. CallSound(c, Me(c))'
    BY <2>5, <2>6 DEF CallSound, Turn
  <2>8. QED
    BY <2>3, <2>7 DEF Fine
<1>8. QED
  BY <1>4, <1>5, <1>6, <1>7 DEF Serving

LEMMA BeforeStep ==
  ASSUME NEW c \in Client, Turn(c), Writing(Me(c)), Before(Me(c)), Executes(c, Head(Me(c).todo))
  PROVE  Fine(c)
<1> DEFINE todo == Me(c).todo
<1>1. CASE todo \in {<<"insert">>, <<"insert", "verify">>} /\ ~ shop.auto /\ Plain(Me(c))
  BY <1>1, One, Two, InsertOwnKey
<1>2. CASE /\ shop.auto
           /\ \/ todo \in {<<"insert", "cursorKey">>, <<"insert", "cursorKey", "verify">>}
              \/ todo = <<"insert", "connectionKey">> /\ shop.class \in Lends
  <2>1. Head(todo) = "insert"
    BY <1>2, Two, Three
  <2>2. QED
    BY <1>2, <2>1, InsertGivenKey
<1>3. CASE todo = <<"count", "insertCounted">>
  BY <1>3, Two, CountKey
<1>4. CASE todo = <<"insertCounted">> /\ Me(c).key \in Nat
  BY <1>4, One, InsertCounted
<1>5. CASE /\ todo = <<"insertOrUpdate">> /\ Plain(Me(c)) /\ Me(c).op = "upsert"
           /\ shop.class \in Lends
           /\ shop.auto /\ Me(c).id = 0 => shop.class = "mysql"
  BY <1>5, One, InsertOrUpdated
<1>6. CASE todo = <<"updateOrInsert">> /\ Plain(Me(c))
  BY <1>6, One, UpdateOrInserted
<1>7. CASE todo = <<"append", "sync">> /\ Plain(Me(c))
  BY <1>7, Two, AppendThenSync
<1>8. CASE /\ todo = <<"select", "mutateOrAppend", "sync">> /\ Plain(Me(c))
           /\ shop.class \in Columnar
  BY <1>8, Three, SelectThenWrite
<1>9. CASE /\ todo = <<"mutateOrAppend", "sync">> /\ Plain(Me(c))
           /\ shop.class \in Columnar
  BY <1>9, Two, MutateOrAppended
<1>10. CASE /\ Plain(Me(c))
            /\ \/ /\ todo = <<"update", "insertOrIgnore">> /\ Me(c).op = "upsert"
                  /\ shop.class \in Locks
               \/ todo = <<"update", "insertIfMissed">>
  <2>1. Head(todo) = "update"
    BY <1>10, Two
  <2>2. QED
    BY <1>10, <2>1, UpdateFirst
<1>11. QED
  BY <1>1, <1>2, <1>3, <1>4, <1>5, <1>6, <1>7, <1>8, <1>9, <1>10 DEF Before

LEMMA BetweenStep ==
  ASSUME NEW c \in Client, Turn(c), Writing(Me(c)), Between(c, Me(c)),
         Executes(c, Head(Me(c).todo))
  PROVE  Fine(c)
<1> DEFINE todo == Me(c).todo
<1>1. CASE /\ todo = <<"insertOrIgnore">> /\ Named(Me(c)) /\ Me(c).op = "upsert"
           /\ shop.class \in Locks
           /\ Me(c).own = Me(c).id \/ (Me(c).own = NoId /\ Takes(Me(c).id) = {})
  BY <1>1, One, InsertOrIgnored
<1>2. CASE todo = <<"insertIfMissed">> /\ Named(Me(c)) /\ (Me(c).hit => Me(c).own = Me(c).id)
  BY <1>2, One, InsertIfMissed
<1>3. CASE /\ todo \in {<<"cursorKey">>, <<"cursorKey", "verify">>}
           /\ Me(c).own = Me(c).cursor /\ Me(c).own \in Nat
  BY <1>3, One, Two, KeyFromCursor
<1>4. CASE /\ todo = <<"connectionKey">> /\ Me(c).own \in Nat
           /\ Wired \/ lastId[Wire(c)] = Me(c).own
  BY <1>4, One, KeyFromConnection
<1>5. CASE todo \in {<<"verify">>, <<"sync">>} /\ Me(c).own = Me(c).key /\ Me(c).own \in Nat
  <2>1. PICK s \in {"verify", "sync"} : todo = <<s>>
    BY <1>5
  <2>2. Executes(c, s)
    BY <2>1, One
  <2>3. QED
    BY <1>5, <2>1, <2>2, LastLook
<1>6. QED
  BY <1>1, <1>2, <1>3, <1>4, <1>5 DEF Between

(* The statements of a new call.                                            *)

Opening(todo, op, id) ==
  \A r : r.todo = todo /\ r.op = op /\ r.id = id /\ r.key = id /\ r.own = NoId
        => (Writing(r) /\ Before(r)) \/ Serving(r)

Inserts == {"create", "upsert"}

LEMMA KeysAsked ==
  ASSUME NEW op \in Operations, NEW id \in Ids(op)
  PROVE  /\ id \in Keys
         /\ op \notin Inserts \/ ~ shop.auto => id \in Id /\ id \in Nat /\ id # 0
         /\ op = "upsert" /\ id # NoId => id \in Nat /\ (id # 0 => id \in Id)
  BY RowsAssumption DEF Operations, Ids, Keys, Inserts

LEMMA ByKeyForms ==
  ASSUME NEW op \in Operations \ Inserts, NEW id \in Nat
  PROVE  ByKey(op) \in Seq(Statements) /\ Opening(ByKey(op), op, id)
<1>1. op \in {"read", "update", "delete"}
  BY DEF Operations, Inserts
<1>2. CASE op = "read"
  <2>1. ByKey(op) = <<"select">>
    BY <1>2 DEF ByKey
  <2>2. <<"select">> \in Seq(Statements)
    BY DEF Statements
  <2>3. QED
    BY <1>2, <2>1, <2>2 DEF Opening, Serving, Writing
<1>3. CASE op = "update"
  <2>1. ByKey(op) = <<"update">>
    BY <1>3 DEF ByKey
  <2>2. <<"update">> \in Seq(Statements)
    BY DEF Statements
  <2>3. QED
    BY <1>3, <2>1, <2>2 DEF Opening, Serving, Writing
<1>4. CASE op = "delete"
  <2>1. ByKey(op) = <<"delete">>
    BY <1>4 DEF ByKey
  <2>2. <<"delete">> \in Seq(Statements)
    BY DEF Statements
  <2>3. QED
    BY <1>4, <2>1, <2>2 DEF Opening, Serving, Writing
<1>5. QED
  BY <1>1, <1>2, <1>3, <1>4

(* INSERT, and where the key is read if the server gives it.                *)
LEMMA AutoForms ==
  ASSUME NEW s \in {"cursorKey", "connectionKey"}
  PROVE  <<"insert">> \o WhenAuto(<<s>>) = IF shop.auto THEN <<"insert", s>> ELSE <<"insert">>
<1>1. "insert" \in Statements /\ s \in Statements
  BY DEF Statements
<1>2. <<"insert">> \o <<s>> = <<"insert", s>>
  BY <1>1, Joined
<1>3. <<"insert">> \o <<>> = <<"insert">>
  BY One
<1>4. QED
  BY <1>2, <1>3 DEF WhenAuto

LEMMA MssqlCreateForm ==
  MssqlCreate = IF shop.auto THEN <<"insert", "cursorKey", "verify">> ELSE <<"insert", "verify">>
<1>1. "insert" \in Statements /\ "cursorKey" \in Statements /\ "verify" \in Statements
  BY DEF Statements
<1>2. <<"insert", "cursorKey">> \o <<"verify">> = <<"insert", "cursorKey", "verify">>
  BY <1>1, JoinedToo
<1>3. <<"insert">> \o <<"verify">> = <<"insert", "verify">>
  BY <1>1, Joined
<1>4. <<"insert">> \o WhenAuto(<<"cursorKey">>)
        = IF shop.auto THEN <<"insert", "cursorKey">> ELSE <<"insert">>
  BY AutoForms
<1>5. QED
  BY <1>2, <1>3, <1>4 DEF MssqlCreate

LEMMA InsertForms ==
  ASSUME NEW op \in Inserts, NEW id \in Keys, ~ shop.auto => id \in Nat
  PROVE  LET todo == <<"insert">> \o WhenAuto(<<"cursorKey">>) IN
         todo \in Seq(Statements) /\ Opening(todo, op, id)
<1>1. CASE shop.auto
  <2>1. <<"insert">> \o WhenAuto(<<"cursorKey">>) = <<"insert", "cursorKey">>
    BY <1>1, AutoForms
  <2>2. <<"insert", "cursorKey">> \in Seq(Statements)
    BY DEF Statements
  <2>3. QED
    BY <1>1, <2>1, <2>2 DEF Opening, Before, Writing, Inserts
<1>2. CASE ~ shop.auto
  <2>1. <<"insert">> \o WhenAuto(<<"cursorKey">>) = <<"insert">>
    BY <1>2, AutoForms
  <2>2. <<"insert">> \in Seq(Statements)
    BY DEF Statements
  <2>3. QED
    BY <1>2, <2>1, <2>2 DEF Opening, Before, Writing, Inserts, Plain, Named
<1>3. QED
  BY <1>1, <1>2

LEMMA InsertFormsOfMysql ==
  ASSUME NEW op \in Inserts, NEW id \in Keys, ~ shop.auto => id \in Nat, shop.class \in Lends
  PROVE  LET todo == <<"insert">> \o WhenAuto(<<"connectionKey">>) IN
         todo \in Seq(Statements) /\ Opening(todo, op, id)
<1>1. CASE shop.auto
  <2>1. <<"insert">> \o WhenAuto(<<"connectionKey">>) = <<"insert", "connectionKey">>
    BY <1>1, AutoForms
  <2>2. <<"insert", "connectionKey">> \in Seq(Statements)
    BY DEF Statements
  <2>3. QED
    BY <1>1, <2>1, <2>2 DEF Opening, Before, Writing, Inserts
<1>2. CASE ~ shop.auto
  <2>1. <<"insert">> \o WhenAuto(<<"connectionKey">>) = <<"insert">>
    BY <1>2, AutoForms
  <2>2. <<"insert">> \in Seq(Statements)
    BY DEF Statements
  <2>3. QED
    BY <1>2, <2>1, <2>2 DEF Opening, Before, Writing, Inserts, Plain, Named
<1>3. QED
  BY <1>1, <1>2

LEMMA InsertFormsOfMssql ==
  ASSUME NEW op \in Inserts, NEW id \in Keys, ~ shop.auto => id \in Nat
  PROVE  MssqlCreate \in Seq(Statements) /\ Opening(MssqlCreate, op, id)
<1>1. CASE shop.auto
  <2>1. MssqlCreate = <<"insert", "cursorKey", "verify">>
    BY <1>1, MssqlCreateForm
  <2>2. <<"insert", "cursorKey", "verify">> \in Seq(Statements)
    BY DEF Statements
  <2>3. QED
    BY <1>1, <2>1, <2>2 DEF Opening, Before, Writing, Inserts
<1>2. CASE ~ shop.auto
  <2>1. MssqlCreate = <<"insert", "verify">>
    BY <1>2, MssqlCreateForm
  <2>2. <<"insert", "verify">> \in Seq(Statements)
    BY DEF Statements
  <2>3. QED
    BY <1>2, <2>1, <2>2 DEF Opening, Before, Writing, Inserts, Plain, Named
<1>3. QED
  BY <1>1, <1>2

(* The programs of the classes.                                             *)
LEMMA SqliteForms ==
  ASSUME shop.class \in Locks, NEW op \in Operations, NEW id \in Ids(op)
  PROVE  SqliteProgram(op, id) \in Seq(Statements) /\ Opening(SqliteProgram(op, id), op, id)
<1> DEFINE todo == <<"insert">> \o WhenAuto(<<"cursorKey">>)
<1>1. id \in Keys
  BY KeysAsked
<1>2. CASE op = "create" \/ (op = "upsert" /\ shop.auto /\ id = NoId)
  <2>1. op \in Inserts /\ (~ shop.auto => id \in Nat)
    BY <1>2, KeysAsked DEF Inserts
  <2>2. todo \in Seq(Statements) /\ Opening(todo, op, id)
    BY <1>1, <2>1, InsertForms
  <2>3. SqliteProgram(op, id) = todo
    BY <1>2 DEF SqliteProgram
  <2>4. QED
    BY <2>2, <2>3
<1>3. CASE op = "upsert" /\ ~ (shop.auto /\ id = NoId)
  <2>1. SqliteProgram(op, id) = <<"update", "insertOrIgnore">>
    BY <1>3 DEF SqliteProgram
  <2>2. id \in Nat
    BY <1>3, KeysAsked
  <2>3. <<"update", "insertOrIgnore">> \in Seq(Statements)
    BY DEF Statements
  <2>4. Opening(<<"update", "insertOrIgnore">>, op, id)
    BY <1>3, <2>2 DEF Opening, Before, Writing, Plain, Named
  <2>5. QED
    BY <2>1, <2>3, <2>4
<1>4. CASE op \notin Inserts
  <2>1. SqliteProgram(op, id) = ByKey(op)
    BY <1>4 DEF SqliteProgram, Inserts
  <2>2. QED
    BY <1>4, <2>1, KeysAsked, ByKeyForms
<1>5. QED
  BY <1>2, <1>3, <1>4 DEF Inserts

LEMMA MysqlForms ==
  ASSUME shop.class = "mysql", NEW op \in Operations, NEW id \in Ids(op)
  PROVE  MysqlProgram(op, id) \in Seq(Statements) /\ Opening(MysqlProgram(op, id), op, id)
<1> DEFINE todo == <<"insert">> \o WhenAuto(<<"connectionKey">>)
<1>1. id \in Keys /\ shop.class \in Lends
  BY KeysAsked DEF Lends
<1>2. CASE op = "create" \/ (op = "upsert" /\ shop.auto /\ id = NoId)
  <2>1. op \in Inserts /\ (~ shop.auto => id \in Nat)
    BY <1>2, KeysAsked DEF Inserts
  <2>2. todo \in Seq(Statements) /\ Opening(todo, op, id)
    BY <1>1, <2>1, InsertFormsOfMysql
  <2>3. MysqlProgram(op, id) = todo
    BY <1>2 DEF MysqlProgram
  <2>4. QED
    BY <2>2, <2>3
<1>3. CASE op = "upsert" /\ ~ (shop.auto /\ id = NoId)
  <2>1. MysqlProgram(op, id) = <<"insertOrUpdate">>
    BY <1>3 DEF MysqlProgram
  <2>2. id \in Nat
    BY <1>3, KeysAsked
  <2>3. <<"insertOrUpdate">> \in Seq(Statements)
    BY DEF Statements
  <2>4. Opening(<<"insertOrUpdate">>, op, id)
    BY <1>1, <1>3, <2>2 DEF Opening, Before, Writing, Plain, Named
  <2>5. QED
    BY <2>1, <2>3, <2>4
<1>4. CASE op = "update"
  <2>1. MysqlProgram(op, id) = <<"updateNames">>
    BY <1>4 DEF MysqlProgram
  <2>2. id \in Nat
    BY <1>4, KeysAsked DEF Inserts
  <2>3. <<"updateNames">> \in Seq(Statements)
    BY DEF Statements
  <2>4. Opening(<<"updateNames">>, op, id)
    BY <1>4, <2>2 DEF Opening, Serving, Writing
  <2>5. QED
    BY <2>1, <2>3, <2>4
<1>5. CASE op \notin Inserts /\ op # "update"
  <2>1. MysqlProgram(op, id) = ByKey(op)
    BY <1>5 DEF MysqlProgram, Inserts
  <2>2. QED
    BY <1>5, <2>1, KeysAsked, ByKeyForms
<1>6. QED
  BY <1>2, <1>3, <1>4, <1>5 DEF Inserts

LEMMA AsyncMysqlForms ==
  ASSUME shop.class = "asyncMysql", NEW op \in Operations, NEW id \in Ids(op)
  PROVE  AsyncMysqlProgram(op, id) \in Seq(Statements) /\ Opening(AsyncMysqlProgram(op, id), op, id)
<1> DEFINE todo == <<"insert">> \o WhenAuto(<<"connectionKey">>)
<1>1. id \in Keys /\ shop.class \in Lends
  BY KeysAsked DEF Lends
<1>2. CASE op = "create" \/ (op = "upsert" /\ shop.auto /\ id \in {NoId, 0})
  <2>1. op \in Inserts /\ (~ shop.auto => id \in Nat)
    BY <1>2, KeysAsked DEF Inserts
  <2>2. todo \in Seq(Statements) /\ Opening(todo, op, id)
    BY <1>1, <2>1, InsertFormsOfMysql
  <2>3. AsyncMysqlProgram(op, id) = todo
    BY <1>2 DEF AsyncMysqlProgram
  <2>4. QED
    BY <2>2, <2>3
<1>3. CASE op = "upsert" /\ ~ (shop.auto /\ id \in {NoId, 0})
  <2>1. AsyncMysqlProgram(op, id) = <<"insertOrUpdate">>
    BY <1>3 DEF AsyncMysqlProgram
  <2>2. id \in Nat
    BY <1>3, KeysAsked
  <2>3. <<"insertOrUpdate">> \in Seq(Statements)
    BY DEF Statements
  <2>4. Opening(<<"insertOrUpdate">>, op, id)
    BY <1>1, <1>3, <2>2 DEF Opening, Before, Writing, Plain, Named
  <2>5. QED
    BY <2>1, <2>3, <2>4
<1>4. CASE op \notin Inserts
  <2>1. AsyncMysqlProgram(op, id) = ByKey(op)
    BY <1>4 DEF AsyncMysqlProgram, Inserts
  <2>2. QED
    BY <1>4, <2>1, KeysAsked, ByKeyForms
<1>5. QED
  BY <1>2, <1>3, <1>4 DEF Inserts

LEMMA MssqlForms ==
  ASSUME NEW op \in Operations, NEW id \in Ids(op)
  PROVE  MssqlProgram(op, id) \in Seq(Statements) /\ Opening(MssqlProgram(op, id), op, id)
<1>1. id \in Keys
  BY KeysAsked
<1>2. CASE op = "create" \/ (op = "upsert" /\ shop.auto /\ id \in {NoId, 0})
  <2>1. op \in Inserts /\ (~ shop.auto => id \in Nat)
    BY <1>2, KeysAsked DEF Inserts
  <2>2. MssqlCreate \in Seq(Statements) /\ Opening(MssqlCreate, op, id)
    BY <1>1, <2>1, InsertFormsOfMssql
  <2>3. MssqlProgram(op, id) = MssqlCreate
    BY <1>2 DEF MssqlProgram, MssqlUpsert
  <2>4. QED
    BY <2>2, <2>3
<1>3. CASE op = "upsert" /\ ~ (shop.auto /\ id \in {NoId, 0})
  <2>1. MssqlProgram(op, id) = <<"update", "insertIfMissed">>
    BY <1>3 DEF MssqlProgram, MssqlUpsert
  <2>2. id \in Nat
    BY <1>3, KeysAsked
  <2>3. <<"update", "insertIfMissed">> \in Seq(Statements)
    BY DEF Statements
  <2>4. Opening(<<"update", "insertIfMissed">>, op, id)
    BY <1>3, <2>2 DEF Opening, Before, Writing, Plain, Named
  <2>5. QED
    BY <2>1, <2>3, <2>4
<1>4. CASE op \notin Inserts
  <2>1. MssqlProgram(op, id) = ByKey(op)
    BY <1>4 DEF MssqlProgram, Inserts
  <2>2. QED
    BY <1>4, <2>1, KeysAsked, ByKeyForms
<1>5. QED
  BY <1>2, <1>3, <1>4 DEF Inserts

LEMMA MongoForms ==
  ASSUME NEW op \in Operations, NEW id \in Ids(op)
  PROVE  MongoProgram(op, id) \in Seq(Statements) /\ Opening(MongoProgram(op, id), op, id)
<1>1. CASE op \in Inserts /\ shop.auto
  <2>1. MongoProgram(op, id) = <<"count", "insertCounted">>
    BY <1>1 DEF MongoProgram, Inserts
  <2>2. <<"count", "insertCounted">> \in Seq(Statements)
    BY DEF Statements
  <2>3. Opening(<<"count", "insertCounted">>, op, id)
    BY <1>1 DEF Opening, Before, Writing, Inserts
  <2>4. QED
    BY <2>1, <2>2, <2>3
<1>2. CASE op = "create" /\ ~ shop.auto
  <2>1. MongoProgram(op, id) = <<"insert">>
    BY <1>2 DEF MongoProgram
  <2>2. <<"insert">> \in Seq(Statements)
    BY DEF Statements
  <2>3. id \in Nat
    BY <1>2, KeysAsked
  <2>4. Opening(<<"insert">>, op, id)
    BY <1>2, <2>3 DEF Opening, Before, Writing, Plain, Named
  <2>5. QED
    BY <2>1, <2>2, <2>4
<1>3. CASE op = "upsert" /\ ~ shop.auto
  <2>1. MongoProgram(op, id) = <<"updateOrInsert">>
    BY <1>3 DEF MongoProgram
  <2>2. <<"updateOrInsert">> \in Seq(Statements)
    BY DEF Statements
  <2>3. id \in Nat
    BY <1>3, KeysAsked
  <2>4. Opening(<<"updateOrInsert">>, op, id)
    BY <1>3, <2>3 DEF Opening, Before, Writing, Plain, Named
  <2>5. QED
    BY <2>1, <2>2, <2>4
<1>4. CASE op \notin Inserts
  <2>1. MongoProgram(op, id) = ByKey(op)
    BY <1>4 DEF MongoProgram, Inserts
  <2>2. QED
    BY <1>4, <2>1, KeysAsked, ByKeyForms
<1>5. QED
  BY <1>1, <1>2, <1>3, <1>4 DEF Inserts

LEMMA ClickHouseForms ==
  ASSUME shop.class \in Columnar, ~ shop.auto, NEW op \in Operations, NEW id \in Ids(op)
  PROVE  ClickHouseProgram(op, id) \in Seq(Statements) /\ Opening(ClickHouseProgram(op, id), op, id)
<1>1. id \in Nat
  BY KeysAsked
<1>2. CASE op = "create"
  <2>1. ClickHouseProgram(op, id) = <<"append", "sync">>
    BY <1>2 DEF ClickHouseProgram
  <2>2. <<"append", "sync">> \in Seq(Statements)
    BY DEF Statements
  <2>3. Opening(<<"append", "sync">>, op, id)
    BY <1>1, <1>2 DEF Opening, Before, Writing, Plain, Named
  <2>4. QED
    BY <2>1, <2>2, <2>3
<1>3. CASE op = "upsert"
  <2>1. ClickHouseProgram(op, id) = <<"select", "mutateOrAppend", "sync">>
    BY <1>3 DEF ClickHouseProgram
  <2>2. <<"select", "mutateOrAppend", "sync">> \in Seq(Statements)
    BY DEF Statements
  <2>3. Opening(<<"select", "mutateOrAppend", "sync">>, op, id)
    BY <1>1, <1>3 DEF Opening, Before, Writing, Plain, Named
  <2>4. QED
    BY <2>1, <2>2, <2>3
<1>4. CASE op = "update"
  <2>1. ClickHouseProgram(op, id) = <<"mutate", "sync">>
    BY <1>4 DEF ClickHouseProgram
  <2>2. <<"mutate", "sync">> \in Seq(Statements)
    BY DEF Statements
  <2>3. Opening(<<"mutate", "sync">>, op, id)
    BY <1>1, <1>4 DEF Opening, Serving, Writing
  <2>4. QED
    BY <2>1, <2>2, <2>3
<1>5. CASE op = "delete"
  <2>1. ClickHouseProgram(op, id) = <<"mutateAway", "sync">>
    BY <1>5 DEF ClickHouseProgram
  <2>2. <<"mutateAway", "sync">> \in Seq(Statements)
    BY DEF Statements
  <2>3. Opening(<<"mutateAway", "sync">>, op, id)
    BY <1>1, <1>5 DEF Opening, Serving, Writing
  <2>4. QED
    BY <2>1, <2>2, <2>3
<1>6. CASE op = "read"
  <2>1. ClickHouseProgram(op, id) = <<"select">>
    BY <1>6 DEF ClickHouseProgram
  <2>2. <<"select">> \in Seq(Statements)
    BY DEF Statements
  <2>3. Opening(<<"select">>, op, id)
    BY <1>1, <1>6 DEF Opening, Serving, Writing
  <2>4. QED
    BY <2>1, <2>2, <2>3
<1>7. QED
  BY <1>2, <1>3, <1>4, <1>5, <1>6 DEF Operations

LEMMA ProgramForms ==
  ASSUME TableShape, NEW op \in Operations, NEW id \in Ids(op)
  PROVE  Program(op, id) \in Seq(Statements) /\ Opening(Program(op, id), op, id)
<1>1. CASE shop.class \in Locks
  <2>1. Program(op, id) = SqliteProgram(op, id)
    BY <1>1 DEF Program, AsyncSqliteProgram, Locks
  <2>2. QED
    BY <1>1, <2>1, SqliteForms
<1>2. CASE shop.class = "mysql"
  <2>1. Program(op, id) = MysqlProgram(op, id)
    BY <1>2 DEF Program
  <2>2. QED
    BY <1>2, <2>1, MysqlForms
<1>3. CASE shop.class = "asyncMysql"
  <2>1. Program(op, id) = AsyncMysqlProgram(op, id)
    BY <1>3 DEF Program
  <2>2. QED
    BY <1>3, <2>1, AsyncMysqlForms
<1>4. CASE shop.class \in {"mssql", "asyncMssql"}
  <2>1. Program(op, id) = MssqlProgram(op, id)
    BY <1>4 DEF Program, AsyncMssqlProgram
  <2>2. QED
    BY <2>1, MssqlForms
<1>5. CASE shop.class \in {"mongo", "asyncMongo"}
  <2>1. Program(op, id) = MongoProgram(op, id)
    BY <1>5 DEF Program, AsyncMongoProgram
  <2>2. QED
    BY <2>1, MongoForms
<1>6. CASE shop.class \in Columnar
  <2>1. Program(op, id) = ClickHouseProgram(op, id)
    BY <1>6 DEF Program, AsyncClickHouseProgram, Columnar
  <2>2. ~ shop.auto
    BY <1>6 DEF TableShape, LegalShop, Counting, Columnar, Shops
  <2>3. QED
    BY <1>6, <2>1, <2>2, ClickHouseForms
<1>7. shop.class \in Counting \cup Columnar
  BY DEF TableShape, Shops
<1>8. QED
  BY <1>1, <1>2, <1>3, <1>4, <1>5, <1>6, <1>7 DEF Counting, Locks

-----------------------------------------------------------------------------
(* The steps of the specification.                                          *)

LEMMA OthersAreSound ==
  ASSUME RowsInv, Stays, NEW c \in Client, Others(c), RunsCall(c) \/ rows' = rows
  PROVE  \A d \in Client \ {c} : CallSound(d, Me(d))'
<1> TAKE d \in Client \ {c}
<1>1. Me(d).todo # <<"insertOrIgnore">> \/ shop.class \notin Locks \/ rows' = rows
  BY DEF RunsCall, Locks
<1>2. Me(d)' = Me(d) /\ (shop.class \in Lends /\ ~ Wired => lastId'[d] = lastId[d])
  BY DEF Others
<1>3. QED
  BY <1>1, <1>2, OtherIsSound DEF RowsInv

LEMMA StatementKeepsInv ==
  ASSUME RowsInv, NEW c \in Client, ExecuteStatement(c)
  PROVE  RowsInv'
<1>1. Stays /\ Busy(c) /\ RunsCall(c) /\ Executes(c, Head(Me(c).todo))
  BY DEF ExecuteStatement, Stays
<1>2. ~ Done(Me(c)) /\ CallSound(c, Me(c))
  BY <1>1 DEF Done, Busy, RowsInv
<1>3. Turn(c)
  BY <1>1, <1>2 DEF Turn, RowsInv, CallSound
<1>4. Fine(c)
  BY <1>1, <1>2, <1>3, BeforeStep, BetweenStep, ServingStep DEF CallSound
<1>5. \A d \in Client \ {c} : CallSound(d, Me(d))'
  BY <1>1, <1>4, OthersAreSound DEF Fine
<1>6. QED
  BY <1>4, <1>5 DEF Fine, Others, RowsInv

LEMMA FailureKeepsInv ==
  ASSUME RowsInv, NEW c \in Client, StatementFails(c)
  PROVE  RowsInv'
<1>1. Stays /\ Raises(c) /\ rows' = rows
  BY DEF StatementFails, Stays, Raises
<1>2. TableShape' /\ Others(c) /\ Gone(c)'
  BY <1>1, Raising DEF RowsInv
<1>3. CallSound(c, Me(c))'
  BY <1>2, GoneIsSound
<1>4. \A d \in Client \ {c} : CallSound(d, Me(d))'
  BY <1>1, <1>2, OthersAreSound
<1>5. QED
  BY <1>2, <1>3, <1>4 DEF Others, RowsInv

LEMMA CallKeepsInv ==
  ASSUME RowsInv, NEW c \in Client, NEW op \in Operations, NEW id \in Id \cup {NoId, 0},
         NEW tag \in TagsTried, CallAdapter(c, op, id, tag)
  PROVE  RowsInv'
<1>1. tag \in Tag
  BY RowsAssumption DEF TagsTried
<1>2. id \in Ids(op) /\ id \in Keys
  BY KeysAsked DEF CallAdapter
<1> DEFINE todo == Program(op, id)
<1>3. todo \in Seq(Statements) /\ Opening(todo, op, id)
  BY <1>2, ProgramForms DEF RowsInv
<1> DEFINE q == Called(NoCall, todo, op, id, tag)
<1>4. /\ Moves(c, q) /\ served' = served + 1 /\ served < MaxRowCalls
      /\ shop' = shop /\ rows' = rows /\ counter' = counter /\ lastId' = lastId
      /\ pending' = pending
  BY DEF CallAdapter, Called, Moves
<1> HIDE DEF todo
<1>5. /\ q \in CallRecord /\ q.todo = todo /\ q.op = op /\ q.id = id /\ q.tag = tag
      /\ q.key = id /\ q.own = NoId /\ q.result = "none"
  BY <1>1, <1>2, <1>3, NoCallParts, CallParts
<1> HIDE DEF q
<1>6. (Writing(q) /\ Before(q)) \/ Serving(q)
  BY <1>3, <1>5 DEF Opening
<1>7. /\ client' \in [Client -> CallRecord] /\ Me(c)' = q
      /\ \A d \in Client \ {c} : Me(d)' = Me(d)
  BY <1>4, <1>5, Moved DEF RowsInv
<1>8. CallSound(c, Me(c))'
  <2>1. Me(c)'.tag \in Tag /\ Me(c)'.result = "none"
    BY <1>1, <1>5, <1>7
  <2>2. ((Writing(Me(c)) /\ Before(Me(c))) \/ Serving(Me(c)))'
    BY <1>4, <1>6, <1>7 DEF Writing, Before, Serving, Plain, Named
  <2>3. QED
    BY <2>1, <2>2 DEF CallSound
<1>9. TableShape'
  BY <1>4, RowsAssumption DEF RowsInv, TableShape, LegalShop
<1>10. ASSUME NEW d \in Client \ {c}
       PROVE  CallSound(d, Me(d))'
  <2>1. Me(d)' = Me(d) /\ CallSound(d, Me(d))
    BY <1>7 DEF RowsInv
  <2>2. QED
    BY <1>4, <2>1 DEF CallSound, Done, Good, Writing, MayDrop, ZeroKey, Wired, Before, Between,
                      Serving, Plain, Named, Takes, Wire
<1>11. QED
  BY <1>7, <1>8, <1>9, <1>10 DEF RowsInv

LEMMA MutationKeepsInv ==
  ASSUME RowsInv, ApplyMutation
  PROVE  RowsInv'
<1>1. PICK m \in pending :
        /\ pending' = pending \ {m}
        /\ rows' = (rows \ Takes(m.row.id))
                     \cup {Entity(x.id, m.row.tag) :
                             x \in IF m.kind = "update" THEN Takes(m.row.id) ELSE {}}
        /\ UNCHANGED <<shop, counter, lastId, client, served>>
  BY DEF ApplyMutation
<1>2. Stays /\ shop.class \notin Locks
  BY <1>1 DEF Stays, RowsInv, TableShape, Columnar, Locks
<1>3. TableShape'
  <2>1. m.row.tag \in Tag
    BY <1>1 DEF RowsInv, TableShape
  <2>2. \A x \in rows : Entity(x.id, m.row.tag) \in [id : Nat, tag : Tag \cup {Names}]
    BY <2>1 DEF RowsInv, TableShape, Entity
  <2>3. rows' \subseteq [id : Nat, tag : Tag \cup {Names}]
    BY <1>1, <2>2 DEF RowsInv, TableShape, Takes
  <2>4. QED
    BY <1>1, <2>3 DEF RowsInv, TableShape, LegalShop
<1>4. ASSUME NEW d \in Client
      PROVE  CallSound(d, Me(d))'
  <2>1. Me(d)' = Me(d) /\ lastId'[d] = lastId[d]
    BY <1>1 DEF Me
  <2>2. QED
    BY <1>2, <2>1, OtherIsSound DEF RowsInv
<1>5. client' \in [Client -> CallRecord]
  BY <1>1 DEF RowsInv
<1>6. QED
  BY <1>3, <1>4, <1>5 DEF RowsInv

LEMMA InvAtStart ==
  ASSUME RowsInit
  PROVE  RowsInv
<1>1. PICK s \in Shops : LegalShop(s) /\ RowsStart(s)
  BY DEF RowsInit
<1> DEFINE i == CHOOSE i \in Id : TRUE
           g == CHOOSE g \in Tag : TRUE
<1>2. i \in Nat /\ g \in Tag
  BY RowsAssumption
<1>3. /\ shop = s /\ rows \in {{}, {Entity(i, g)}} /\ counter = (IF rows = {} THEN 0 ELSE i)
      /\ lastId = [c \in Client |-> 0] /\ pending = {} /\ served = 0
      /\ client = [c \in Client |-> NoCall]
  BY <1>1 DEF RowsStart
<1> HIDE DEF i, g
<1>4. TableShape
  <2>1. Entity(i, g) \in [id : Nat, tag : Tag \cup {Names}]
    BY <1>2 DEF Entity
  <2>2. QED
    BY <1>1, <1>2, <1>3, <2>1, RowsAssumption DEF TableShape
<1>5. client \in [Client -> CallRecord] /\ \A c \in Client : CallSound(c, Me(c))
  BY <1>3, NoCallParts DEF CallSound, Done, Me
<1>6. QED
  BY <1>4, <1>5 DEF RowsInv

LEMMA StutterKeepsInv ==
  ASSUME RowsInv, UNCHANGED tableRows
  PROVE  RowsInv'
<1>1. /\ shop' = shop /\ rows' = rows /\ counter' = counter /\ lastId' = lastId
      /\ pending' = pending /\ client' = client /\ served' = served
  BY DEF tableRows
<1>2. TableShape' /\ client' \in [Client -> CallRecord] /\ Stays
  BY <1>1 DEF RowsInv, TableShape, LegalShop, Stays
<1>3. ASSUME NEW d \in Client
      PROVE  CallSound(d, Me(d))'
  <2>1. Me(d)' = Me(d) /\ lastId'[d] = lastId[d]
    BY <1>1 DEF Me
  <2>2. QED
    BY <1>1, <1>2, <2>1, OtherIsSound DEF RowsInv
<1>4. QED
  BY <1>2, <1>3 DEF RowsInv

(* Every state of the specification has the shape above, and every call is  *)
(* at a place from which it can keep its promise.                           *)
LEMMA RowsInvariant ==
  RowsSpec => []RowsInv
<1>1. RowsInit => RowsInv
  BY InvAtStart
<1>2. RowsInv /\ [RowsNext]_tableRows => RowsInv'
  BY StatementKeepsInv, FailureKeepsInv, CallKeepsInv, MutationKeepsInv, StutterKeepsInv
     DEF RowsNext
<1>3. QED
  BY <1>1, <1>2, PTL DEF RowsSpec

-----------------------------------------------------------------------------
(* The tables hold rows and the calls are calls, whatever the class, the    *)
(* clients and the order of their statements.                               *)
THEOREM RowsTypeCorrect ==
  RowsSpec => []RowsTypeOK
<1>1. RowsInv => RowsTypeOK
  BY DEF RowsInv, TableShape, RowsTypeOK, CallRecord, Me
<1>2. QED
  BY <1>1, RowsInvariant, PTL

(* create() and upsert() of every class leave the entity, or ClickHouse     *)
(* with the order to, when they return: whatever the other clients did      *)
(* between two of their statements.                                         *)
THEOREM StoredIsStored ==
  RowsSpec => []StoredWhenReturned
<1>1. RowsInv => StoredWhenReturned
  BY DEF RowsInv, StoredWhenReturned, WritesReturned, CallSound, Done, Writing, Good, MayDrop
<1>2. QED
  BY <1>1, RowsInvariant, PTL

(* The key they return is that of the row they wrote: read from the cursor, *)
(* from a connection of their own, or given by the caller.                  *)
THEOREM KeysNameRows ==
  RowsSpec => []KeyNamesOwnRow
<1>1. RowsInv => KeyNamesOwnRow
  BY DEF RowsInv, KeyNamesOwnRow, WritesReturned, CallSound, Done, Writing, Good, MayDrop,
         Wired, ZeroKey
<1>2. QED
  BY <1>1, RowsInvariant, PTL
=============================================================================
