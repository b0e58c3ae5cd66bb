----------------------------- MODULE DbAdapters -----------------------------
(***************************************************************************)
(* DbAdapter and AsyncDbAdapter (src/deev/common/): one object, its        *)
(* connection, and the table adapters it makes and keeps, used by one      *)
(* caller or by tasks of one loop.                                         *)
(***************************************************************************)
EXTENDS Naturals, FiniteSets

CONSTANTS Caller,
          EntityClass,     \* classes of entities
          NameOf,          \* [EntityClass -> __name__]; two may have the same
          Property,        \* names of the properties that subclasses declare
          NoConnection,
          MaxConnections,  \* bound: connections opened
          MaxAsks          \* bound: calls of get_table_adapter()

ASSUME HubAssumption == MaxConnections \in Nat /\ MaxAsks \in Nat

VARIABLES flavor,      \* synchronous or asynchronous
          registered,  \* __adapter_map, one for all subclasses
          current,     \* __connection
          opened,      \* connections opened, and of them those not closed
          kept,        \* __adapter_cache
          caller,      \* connect() and close() under way, the last answer
          closings,    \* whether close() was called
          asks         \* how often an adapter was asked for

hub == <<flavor, registered, current, opened, kept, caller, closings, asks>>

Name == {NameOf[e] : e \in EntityClass}

Asked == [entity : EntityClass, create : BOOLEAN, table : {"own", "override"}]

AdapterObject == [asked : Asked, conn : 1..MaxConnections]

NoAnswer == [at |-> "idle", conn |-> NoConnection, answers |-> {}, open |-> TRUE]

HubStart(f, r) ==
  /\ flavor = f /\ registered = r
  /\ current = NoConnection
  /\ opened = [all |-> 0, live |-> {}]
  /\ kept = {}
  /\ caller = [c \in Caller |-> NoAnswer]
  /\ closings = FALSE /\ asks = 0

(* __init_subclass__: the name of the entity class, and the property it was *)
(* last declared as; some subclass declares each.                           *)
Registrations == [Name -> Property]

HubInit == \E f \in {"sync", "async"}, r \in Registrations : HubStart(f, r)

-----------------------------------------------------------------------------
Does(c, r) == caller' = [caller EXCEPT ![c] = r]

(* Only the asynchronous calls are suspended. *)
Undisturbed(c) == flavor = "sync" => \A d \in Caller \ {c} : caller[d].at = "idle"

Begins(c, at) ==
  Does(c, [at |-> at, conn |-> current, answers |-> {}, open |-> TRUE])

ConnectIfNeeded(c) ==
  /\ caller[c].at = "idle" /\ Undisturbed(c)
  /\ current = NoConnection /\ opened.all < MaxConnections
  /\ Begins(c, "connecting")
  /\ UNCHANGED <<flavor, registered, current, opened, kept, closings, asks>>

(* The connection is there; or connect() raises. *)
Connected(c) ==
  /\ caller[c].at = "connecting"
  /\ \/ /\ opened.all < MaxConnections
        /\ opened' = [all |-> opened.all + 1, live |-> opened.live \cup {opened.all + 1}]
        /\ current' = opened.all + 1
     \/ UNCHANGED <<opened, current>>
  /\ Does(c, NoAnswer)
  /\ UNCHANGED <<flavor, registered, kept, closings, asks>>

CloseConnection(c) ==
  /\ caller[c].at = "idle" /\ Undisturbed(c) /\ current # NoConnection
  /\ Begins(c, "closing") /\ closings' = TRUE
  /\ UNCHANGED <<flavor, registered, current, opened, kept, asks>>

(* __connection is reset, whatever it is by now; the cache is left alone. *)
Closed(c) ==
  /\ caller[c].at = "closing"
  /\ opened' = [opened EXCEPT !.live = @ \ {caller[c].conn}]
  /\ current' = NoConnection
  /\ Does(c, NoAnswer)
  /\ UNCHANGED <<flavor, registered, kept, closings, asks>>

(* Mutant of CacheKey: the name of the table is left out. *)
TablelessCacheKey(a) == <<registered[NameOf[a.entity]], a.create>>

CacheKey(a) == <<registered[NameOf[a.entity]], a.create, a.table>>

(* db_table_adapter_factory *)
MakeAdapter(a, conn) == [asked |-> a, conn |-> conn]

(* Mutant of HasConnection: the check is gone. *)
Unchecked == TRUE

(* Without a connection get_table_adapter() raises. *)
HasConnection == current # NoConnection

GetTableAdapter(c, a) ==
  LET hits == {k \in kept : k[1] = CacheKey(a)}
      object == IF hits = {} THEN MakeAdapter(a, current) ELSE (CHOOSE k \in hits : TRUE)[2]
  IN  /\ caller[c].at = "idle" /\ Undisturbed(c) /\ HasConnection
      /\ asks < MaxAsks /\ asks' = asks + 1
      /\ kept' = kept \cup {<<CacheKey(a), object>>}
      /\ Does(c, [at |-> "idle", conn |-> NoConnection,
                  answers |-> {[to |-> a, object |-> object]},
                  open |-> object.conn \in opened.live])
      /\ UNCHANGED <<flavor, registered, current, opened, closings>>

HubNext ==
  \E c \in Caller : \/ ConnectIfNeeded(c) \/ Connected(c)
                    \/ CloseConnection(c) \/ Closed(c)
                    \/ \E a \in Asked : GetTableAdapter(c, a)

HubSpec == HubInit /\ [][HubNext]_hub

-----------------------------------------------------------------------------
Answer == [to : Asked, object : AdapterObject]

HubTypeOK ==
  /\ registered \in Registrations
  /\ current \in {NoConnection} \cup 1..MaxConnections
  /\ opened \in [all : 0..MaxConnections, live : SUBSET (1..MaxConnections)]
  /\ \A k \in kept : k[2] \in AdapterObject
  /\ caller \in [Caller -> [at : {"idle", "connecting", "closing"},
                            conn : {NoConnection} \cup 1..MaxConnections,
                            answers : SUBSET Answer, open : BOOLEAN]]

(* Neither the name nor the property of e is another entity's too. *)
Distinct(e) ==
  \A f \in EntityClass \ {e} :
    NameOf[f] # NameOf[e] /\ registered[NameOf[f]] # registered[NameOf[e]]

(* get_table_adapter() answers with an adapter that was made with the       *)
(* options, and, if names are distinct, for the entity it is asked for, and *)
(* over a connection that is open: also when tasks connect() at the same    *)
(* time, but not after close(), which keeps the adapters.                   *)
AdapterAsAsked ==
  \A c \in Caller : \A r \in caller[c].answers :
    /\ r.object.asked.create = r.to.create /\ r.object.asked.table = r.to.table
    /\ Distinct(r.to.entity) => r.object.asked = r.to
    /\ ~ closings => caller[c].open

(* AdapterAsAsked is inductive together with these: the cache holds every   *)
(* adapter under the key it was asked for with, an answer comes from the    *)
(* entry of its key, and as long as close() was not called the connections  *)
(* of the object, of the cache and of the answers are open.                 *)
CacheIsKeyed == \A k \in kept : k[1] = CacheKey(k[2].asked)

AnswersFromCache ==
  \A c \in Caller : \A r \in caller[c].answers :
    CacheKey(r.object.asked) = CacheKey(r.to)

OpenUntilClosed ==
  ~ closings =>
    /\ current # NoConnection => current \in opened.live
    /\ \A k \in kept : k[2].conn \in opened.live
    /\ \A c \in Caller : caller[c].at # "closing" /\ caller[c].open

HubInv == HubTypeOK /\ CacheIsKeyed /\ AnswersFromCache /\ OpenUntilClosed
=============================================================================
