---------------------------- MODULE AdapterProofs ----------------------------
(***************************************************************************)
(* What is proved of four parts that adapters are made of, which share no  *)
(* state: the DbAdapter and the table adapters it keeps (DbAdapters), the  *)
(* order in which its DDL is emitted (EntityOrder), the filters of MongoDB *)
(* (WhereFilter), and the translation of single values (Scalars).          *)
(***************************************************************************)
EXTENDS DbAdapters, EntityOrder, WhereFilter, Scalars,
        FiniteSetTheorems, WellFoundedInduction, SequenceTheorems, TLAPS

(* A set of places has a first.                                             *)
LEMMA FirstPlace ==
  ASSUME NEW S \in SUBSET Nat, S # {}
  PROVE  \E x \in S : \A y \in S : x <= y
<1> DEFINE R == OpToRel(<, Nat)
<1>1. IsWellFoundedOn(R, Nat)
  BY NatLessThanWellFounded
<1>2. \A a, b \in Nat : a < b => <<a, b>> \in R
  BY DEF OpToRel
<1> HIDE DEF R
<1>3. PICK x \in S : \A y \in S : ~ (<<y, x>> \in R)
  BY <1>1, WFMin
<1>4. \A y \in S : x <= y
  <2>1. TAKE y \in S
  <2>2. x \in Nat /\ y \in Nat
    OBVIOUS
  <2>3. ~ (y < x)
    BY <1>2, <1>3, <2>2, Zenon
  <2>4. QED
    BY <2>2, <2>3
<1>5. QED
  BY <1>4

(****************************** DbAdapters *********************************)

(* The key of the cache tells apart everything get_table_adapter() is asked *)
(* for but entities that share a name or a property.                        *)
LEMMA KeyDecides ==
  ASSUME NEW a \in Asked, NEW b \in Asked, CacheKey(a) = CacheKey(b)
  PROVE  /\ a.create = b.create /\ a.table = b.table
         /\ Distinct(b.entity) => a = b
<1>1. /\ registered[NameOf[a.entity]] = registered[NameOf[b.entity]]
      /\ a.create = b.create /\ a.table = b.table
  BY DEF CacheKey
<1>2. ASSUME Distinct(b.entity) PROVE a.entity = b.entity
  BY <1>1, <1>2 DEF Distinct, Asked
<1>3. QED
  BY <1>1, <1>2 DEF Asked

(* connect(), and the return of connect() and close(), leave their caller   *)
(* without an answer and all others with theirs.                            *)
LEMMA OtherAnswers ==
  ASSUME HubInv, NEW c \in Caller, NEW r, Does(c, r), r.answers = {},
         registered' = registered
  PROVE  AnswersFromCache'
<1>1. \A d \in Caller : caller'[d].answers \subseteq caller[d].answers
  BY DEF Does, HubInv, HubTypeOK
<1>2. \A a : CacheKey(a)' = CacheKey(a)
  BY DEF CacheKey
<1>3. QED
  BY <1>1, <1>2 DEF HubInv, AnswersFromCache

(* The adapter that get_table_adapter() hands out was asked for with the    *)
(* same key, whether it was kept or is new, and is bound to a connection.   *)
LEMMA HandedOut ==
  ASSUME HubInv, NEW a \in Asked, HasConnection,
         NEW hits, hits = {k \in kept : k[1] = CacheKey(a)},
         NEW object,
         object = IF hits = {} THEN MakeAdapter(a, current)
                               ELSE (CHOOSE k \in hits : TRUE)[2]
  PROVE  /\ object \in AdapterObject
         /\ CacheKey(object.asked) = CacheKey(a)
         /\ ~ closings => object.conn \in opened.live
<1>1. CASE hits = {}
  <2>1. object = [asked |-> a, conn |-> current]
    BY <1>1 DEF MakeAdapter
  <2>2. current \in 1..MaxConnections /\ (~ closings => current \in opened.live)
    BY DEF HasConnection, HubInv, HubTypeOK, OpenUntilClosed
  <2>3. QED
    BY <2>1, <2>2 DEF AdapterObject
<1>2. CASE hits # {}
  <2>1. PICK k \in kept : k[1] = CacheKey(a) /\ object = k[2]
    BY <1>2
  <2>2. QED
    BY <2>1 DEF HubInv, HubTypeOK, CacheIsKeyed, OpenUntilClosed
<1>3. QED
  BY <1>1, <1>2

(* get_table_adapter() keeps the invariant: the adapter is kept under the   *)
(* key it was asked for with.                                               *)
LEMMA GetInductive ==
  ASSUME HubInv, NEW c \in Caller, NEW a \in Asked, GetTableAdapter(c, a)
  PROVE  HubInv'
<1> DEFINE hits == {k \in kept : k[1] = CacheKey(a)}
           object == IF hits = {} THEN MakeAdapter(a, current)
                                  ELSE (CHOOSE k \in hits : TRUE)[2]
           r == [at |-> "idle", conn |-> NoConnection,
                 answers |-> {[to |-> a, object |-> object]},
                 open |-> object.conn \in opened.live]
<1>1. /\ HasConnection
      /\ kept' = kept \cup {<<CacheKey(a), object>>}
      /\ caller' = [caller EXCEPT ![c] = r]
      /\ UNCHANGED <<flavor, registered, current, opened, closings>>
  BY DEF GetTableAdapter, Does
<1>2. /\ object \in AdapterObject
      /\ CacheKey(object.asked) = CacheKey(a)
      /\ ~ closings => object.conn \in opened.live
  BY <1>1, HandedOut
<1> HIDE DEF hits, object
<1>3. /\ r.at = "idle" /\ r.conn = NoConnection
      /\ r.answers = {[to |-> a, object |-> object]}
      /\ r.open <=> object.conn \in opened.live
  OBVIOUS
<1>4. r \in [at : {"idle", "connecting", "closing"},
             conn : {NoConnection} \cup 1..MaxConnections,
             answers : SUBSET Answer, open : BOOLEAN]
  BY <1>2 DEF Answer
<1> HIDE DEF r
<1>5. /\ caller'[c] = r
      /\ \A d \in Caller \ {c} : caller'[d] = caller[d]
  BY <1>1 DEF HubInv, HubTypeOK
<1>6. \A b : CacheKey(b)' = CacheKey(b)
  BY <1>1 DEF CacheKey
<1>7. HubTypeOK'
  <2>1. \A k \in kept' : k[2] \in AdapterObject
    BY <1>1, <1>2 DEF HubInv, HubTypeOK
  <2>2. QED
    BY <1>1, <1>4, <2>1 DEF HubInv, HubTypeOK, AdapterObject, Answer, Asked, Registrations
<1>8. CacheIsKeyed'
  BY <1>1, <1>2, <1>6 DEF HubInv, CacheIsKeyed
<1>9. AnswersFromCache'
  BY <1>2, <1>3, <1>5, <1>6 DEF HubInv, AnswersFromCache
<1>10. OpenUntilClosed'
  <2>1. ~ closings => caller'[c].at # "closing" /\ caller'[c].open
    BY <1>2, <1>3, <1>5
  <2>2. QED
    BY <1>1, <1>2, <1>5, <2>1 DEF HubInv, OpenUntilClosed
<1>11. QED
  BY <1>7, <1>8, <1>9, <1>10 DEF HubInv

(* Every step keeps the invariant.                                          *)
LEMMA HubInductive ==
  ASSUME HubInv, [HubNext]_hub PROVE HubInv'
<1>1. CASE UNCHANGED hub
  <2>1. \A a : CacheKey(a)' = CacheKey(a)
    BY <1>1 DEF hub, CacheKey
  <2>2. QED
    BY <1>1, <2>1 DEF hub, HubInv, HubTypeOK, CacheIsKeyed, AnswersFromCache, OpenUntilClosed
<1>2. ASSUME NEW c \in Caller, ConnectIfNeeded(c) \/ CloseConnection(c) PROVE HubInv'
  <2>1. PICK at \in {"connecting", "closing"} :
          /\ Does(c, [at |-> at, conn |-> current, answers |-> {}, open |-> TRUE])
          /\ at = "connecting" => closings' = closings
          /\ at = "closing" => closings'
    BY <1>2 DEF ConnectIfNeeded, CloseConnection, Begins
  <2>2. UNCHANGED <<registered, current, opened, kept>>
    BY <1>2 DEF ConnectIfNeeded, CloseConnection
  <2> DEFINE r == [at |-> at, conn |-> current, answers |-> {}, open |-> TRUE]
  <2>3. r.at = at /\ r.answers = {} /\ r.open
    OBVIOUS
  <2>4. AnswersFromCache'
    <3>1. Does(c, r)
      BY <2>1
    <3> HIDE DEF r
    <3>2. QED
      BY <2>2, <2>3, <3>1, OtherAnswers
  <2>5. r \in [at : {"idle", "connecting", "closing"},
               conn : {NoConnection} \cup 1..MaxConnections,
               answers : SUBSET Answer, open : BOOLEAN]
    BY DEF HubInv, HubTypeOK
  <2> HIDE DEF r
  <2>6. caller' = [caller EXCEPT ![c] = r] /\ caller'[c] = r
    BY <2>1 DEF r, Does, HubInv, HubTypeOK
  <2>7. HubTypeOK'
    BY <2>2, <2>5, <2>6 DEF HubInv, HubTypeOK, AdapterObject, Answer, Asked, Registrations
  <2>8. OpenUntilClosed'
    <3>1. SUFFICES ASSUME ~ closings' PROVE OpenUntilClosed'
      BY DEF OpenUntilClosed
    <3>2. at = "connecting" /\ ~ closings
      BY <2>1, <3>1
    <3>3. \A d \in Caller : caller'[d].at # "closing" /\ caller'[d].open
      <4>1. TAKE d \in Caller
      <4>2. CASE d = c
        BY <2>3, <2>6, <3>2, <4>2
      <4>3. CASE d # c
        BY <2>6, <3>2, <4>3 DEF HubInv, HubTypeOK, OpenUntilClosed
      <4>4. QED
        BY <4>2, <4>3
    <3>4. QED
      BY <2>2, <3>2, <3>3 DEF HubInv, OpenUntilClosed
  <2>9. \A a : CacheKey(a)' = CacheKey(a)
    BY <2>2 DEF CacheKey
  <2>10. QED
    BY <2>2, <2>4, <2>7, <2>8, <2>9 DEF HubInv, CacheIsKeyed
<1>3. ASSUME NEW c \in Caller, Connected(c) \/ Closed(c) PROVE HubInv'
  <2>1. /\ caller' = [caller EXCEPT ![c] = NoAnswer]
        /\ UNCHANGED <<registered, kept, closings>>
    BY <1>3 DEF Connected, Closed, Does
  <2>2. AnswersFromCache'
    <3>1. Does(c, NoAnswer) /\ NoAnswer.answers = {}
      BY <2>1 DEF NoAnswer, Does
    <3>2. QED
      BY <2>1, <3>1, OtherAnswers
  <2>3. \A a : CacheKey(a)' = CacheKey(a)
    BY <2>1 DEF CacheKey
  <2>4. /\ current' \in {NoConnection} \cup 1..MaxConnections
        /\ opened' \in [all : 0..MaxConnections, live : SUBSET (1..MaxConnections)]
        /\ ~ closings => opened.live \subseteq opened'.live
        /\ ~ closings /\ current' # NoConnection => current' \in opened'.live
    <3>1. CASE Connected(c)
      <4>1. CASE UNCHANGED <<opened, current>>
        BY <4>1 DEF HubInv, HubTypeOK, OpenUntilClosed
      <4>2. CASE /\ opened.all < MaxConnections
                 /\ opened' = [all |-> opened.all + 1,
                               live |-> opened.live \cup {opened.all + 1}]
                 /\ current' = opened.all + 1
        <5>1. opened.all + 1 \in 1..MaxConnections
          BY <4>2, HubAssumption DEF HubInv, HubTypeOK
        <5>2. QED
          BY <4>2, <5>1 DEF HubInv, HubTypeOK
      <4>3. QED
        BY <3>1, <4>1, <4>2 DEF Connected
    <3>2. CASE Closed(c)
      <4>1. closings /\ current' = NoConnection
        BY <3>2 DEF Closed, HubInv, OpenUntilClosed
      <4>2. opened' = [opened EXCEPT !.live = @ \ {caller[c].conn}]
        BY <3>2 DEF Closed
      <4>3. QED
        BY <4>1, <4>2 DEF HubInv, HubTypeOK
    <3>3. QED
      BY <1>3, <3>1, <3>2
  <2>5. HubTypeOK'
    BY <2>1, <2>4 DEF NoAnswer, HubInv, HubTypeOK, AdapterObject, Answer, Asked, Registrations
  <2>6. OpenUntilClosed'
    BY <2>1, <2>4 DEF NoAnswer, HubInv, HubTypeOK, OpenUntilClosed
  <2>7. QED
    BY <2>1, <2>2, <2>3, <2>5, <2>6 DEF HubInv, CacheIsKeyed
<1>4. QED
  BY <1>1, <1>2, <1>3, GetInductive DEF HubNext

(* HubInv holds in every state.                                             *)
LEMMA HubInvariant == HubSpec => []HubInv
<1>1. HubInit => HubInv
  <2> SUFFICES ASSUME HubInit PROVE HubInv
    OBVIOUS
  <2>1. /\ registered \in Registrations /\ current = NoConnection
        /\ opened = [all |-> 0, live |-> {}] /\ kept = {}
        /\ caller = [c \in Caller |-> NoAnswer]
    BY DEF HubInit, HubStart
  <2>2. QED
    BY <2>1, HubAssumption
       DEF NoAnswer, HubInv, HubTypeOK, CacheIsKeyed, AnswersFromCache, OpenUntilClosed
<1>2. HubInv /\ [HubNext]_hub => HubInv'
  BY HubInductive
<1>3. QED
  BY <1>1, <1>2, PTL DEF HubSpec

(* The adapters, the connections and the answers keep their shape, however  *)
(* the calls of any number of callers are interleaved.                      *)
THEOREM HubTypeCorrect == HubSpec => []HubTypeOK
<1>1. HubInv => HubTypeOK
  BY DEF HubInv
<1>2. QED
  BY <1>1, HubInvariant, PTL

(* Whatever is asked for by however many callers, in whatever order their   *)
(* connect() and close() are suspended: get_table_adapter() answers with an *)
(* adapter as it was asked for, over an open connection until close().      *)
THEOREM AdaptersAreAsAsked == HubSpec => []AdapterAsAsked
<1>1. HubInv => AdapterAsAsked
  <2> SUFFICES ASSUME HubInv, NEW c \in Caller, NEW r \in caller[c].answers
               PROVE  /\ r.object.asked.create = r.to.create
                      /\ r.object.asked.table = r.to.table
                      /\ Distinct(r.to.entity) => r.object.asked = r.to
                      /\ ~ closings => caller[c].open
    BY DEF AdapterAsAsked
  <2>1. r.to \in Asked /\ r.object.asked \in Asked
    BY DEF HubInv, HubTypeOK, Answer, AdapterObject
  <2>2. CacheKey(r.object.asked) = CacheKey(r.to)
    BY DEF HubInv, AnswersFromCache
  <2>3. ~ closings => caller[c].open
    BY DEF HubInv, OpenUntilClosed
  <2>4. QED
    BY <2>1, <2>2, <2>3, KeyDecides
<1>2. QED
  BY <1>1, HubInvariant, PTL

(****************************** EntityOrder ********************************)

(* Of a set of ranks, Min is the first of them.                             *)
LEMMA LeastElement ==
  ASSUME NEW S \in SUBSET Nat, S # {}
  PROVE  Min(S) \in S /\ \A y \in S : Min(S) <= y
BY FirstPlace DEF Min

(* What a set of tables reaches is closed, and the least such set.          *)
LEMMA Reaching ==
  ASSUME OrderTypeOK, NEW S \in SUBSET Entities
  PROVE  /\ Reached(S) \subseteq Entities /\ S \subseteq Reached(S)
         /\ Complete(Reached(S))
         /\ \A T \in SUBSET Entities : S \subseteq T /\ Complete(T) => Reached(S) \subseteq T
<1>1. /\ Reached(S) \subseteq Entities /\ S \subseteq Reached(S)
      /\ \A T \in SUBSET Entities : S \subseteq T /\ Complete(T) => Reached(S) \subseteq T
  BY DEF Reached
<1>2. ASSUME NEW e \in Reached(S), NEW f \in refs[e] PROVE f \in Reached(S)
  <2>1. f \in Entities
    BY DEF OrderTypeOK, Reached
  <2>2. ASSUME NEW T \in SUBSET Entities, S \subseteq T, Complete(T) PROVE f \in T
    BY <2>2, <1>1, <1>2 DEF Complete
  <2>3. QED
    BY <2>1, <2>2 DEF Reached
<1>3. QED
  BY <1>1, <1>2 DEF Complete

(* What refers into a set of which every member refers to a member. *)
LEMMA CycleBelow ==
  ASSUME OrderTypeOK, NEW R \in SUBSET Entities,
         \A e \in R : refs[e] \cap R # {}, NEW e \in R
  PROVE  AboveCycle(e)
<1> DEFINE Q == Reached({e}) \cap R
           Size(x) == Cardinality(Reached(refs[x]))
           Sizes == {Size(x) : x \in Q}
<1>1. IsFiniteSet(Entities)
  BY FS_Interval, OrderAssumption DEF Entities
<1>2. \A x \in Entities : refs[x] \in SUBSET Entities
  BY DEF OrderTypeOK
<1>3. e \in Q /\ Q \subseteq Entities
  BY Reaching
<1>4. \A x \in Entities : IsFiniteSet(Reached(refs[x])) /\ Size(x) \in Nat
  BY <1>1, <1>2, Reaching, FS_Subset, FS_CardinalityType
<1>5. Sizes \in SUBSET Nat /\ Sizes # {}
  BY <1>3, <1>4
<1>6. PICK x \in Q : \A y \in Q : Size(x) <= Size(y)
  <2>1. Min(Sizes) \in Sizes /\ \A n \in Sizes : Min(Sizes) <= n
    BY <1>5, LeastElement
  <2>2. QED
    BY <2>1
<1>7. PICK y \in refs[x] : y \in R
  BY <1>6
<1>8. x \in Reached({e}) /\ y \in Reached({e}) /\ y \in Q /\ x \in Entities /\ y \in Entities
  BY <1>3, <1>6, <1>7, Reaching DEF Complete
<1>9. Reached(refs[y]) \subseteq Reached(refs[x]) /\ y \in Reached(refs[x])
  <2>1. y \in Reached(refs[x]) /\ Complete(Reached(refs[x])) /\ Reached(refs[x]) \in SUBSET Entities
    BY <1>2, <1>7, <1>8, Reaching
  <2>2. refs[y] \subseteq Reached(refs[x])
    BY <2>1 DEF Complete
  <2>3. QED
    BY <1>2, <1>8, <2>1, <2>2, Reaching
<1>10. OnCycle(y)
  <2>1. Size(y) <= Size(x) /\ (Size(x) = Size(y) => Reached(refs[x]) = Reached(refs[y]))
    BY <1>4, <1>8, <1>9, FS_Subset
  <2>2. Size(x) <= Size(y)
    BY <1>6, <1>8
  <2>3. Size(x) = Size(y)
    BY <1>4, <1>8, <2>1, <2>2
  <2>4. QED
    BY <1>9, <2>1, <2>3 DEF OnCycle
<1>11. QED
  BY <1>8, <1>10 DEF AboveCycle

(* Appending keeps what was emitted before, and adds the new table.         *)
LEMMA Emission ==
  ASSUME OrderTypeOK, NEW e \in remaining, Emit(e), NEW n, n = Len(ordered')
  PROVE  /\ ordered \in Seq(Entities) /\ ordered' \in Seq(seen) /\ ordered'[n] = e
         /\ \A i \in DOMAIN ordered : ordered'[i] = ordered[i] /\ i \in DOMAIN ordered'
         /\ \A i \in DOMAIN ordered' : i \in DOMAIN ordered \/ i = n
         /\ \A i \in DOMAIN ordered : EmittedBefore(i)' = EmittedBefore(i)
         /\ EmittedBefore(n)' = Emitted
         /\ Emitted' = Emitted \cup {e}
<1>1. e \in seen /\ ordered \in Seq(seen) /\ seen \subseteq Entities
  BY DEF OrderTypeOK
<1>2. ordered' = Append(ordered, e)
  BY DEF Emit
<1>3. /\ ordered \in Seq(Entities) /\ ordered' \in Seq(seen)
      /\ Len(ordered') = Len(ordered) + 1 /\ ordered'[Len(ordered')] = e
      /\ DOMAIN ordered = 1..Len(ordered) /\ DOMAIN ordered' = 1..Len(ordered')
      /\ Len(ordered) \in Nat
      /\ \A i \in DOMAIN ordered : ordered'[i] = ordered[i]
  BY <1>1, <1>2
<1>4. \A i \in DOMAIN ordered : EmittedBefore(i)' = EmittedBefore(i)
  <2>1. TAKE i \in DOMAIN ordered
  <2>2. \A j \in 1..(i - 1) : ordered'[j] = ordered[j]
    BY <1>3
  <2>3. QED
    BY <2>2 DEF EmittedBefore
<1>5. EmittedBefore(n)' = Emitted
  <2>1. 1..(n - 1) = DOMAIN ordered
    BY <1>3
  <2>2. QED
    BY <1>3, <2>1, Zenon DEF EmittedBefore, Emitted
<1>6. Emitted' = Emitted \cup {e}
  BY <1>3 DEF Emitted
<1>7. QED
  BY <1>3, <1>4, <1>5, <1>6

(* A step that emits nothing, and changes neither the schema nor what is    *)
(* seen, leaves the conjuncts about the emitted tables alone.               *)
LEMMA NothingEmitted ==
  ASSUME OrderInv, UNCHANGED <<refs, seen, ordered>>
  PROVE  EmittedOnce' /\ AlphabetBreaksTies' /\ TargetsBefore' /\ Emitted' = Emitted
         /\ (\A e : AboveCycle(e)' <=> AboveCycle(e)) /\ (\A S : Reached(S)' = Reached(S))
<1>1. /\ Emitted' = Emitted /\ \A i : EmittedBefore(i)' = EmittedBefore(i)
      /\ \A e : Deps(e)' = Deps(e)
  BY DEF Emitted, EmittedBefore, Deps
<1>2. \A S : Reached(S)' = Reached(S)
  BY DEF Reached, Complete
<1>3. \A e : AboveCycle(e)' <=> AboveCycle(e)
  BY <1>2 DEF AboveCycle, OnCycle
<1>4. QED
  BY <1>1, <1>2, <1>3 DEF OrderInv, EmittedOnce, AlphabetBreaksTies, TargetsBefore, AdapterDdl

(* The first loop: what it looks at is on the way to what is reached.        *)
LEMMA DiscoverInductive ==
  ASSUME OrderInv, Discover PROVE OrderInv'
<1>1. PICK e \in queue : seen' = seen \cup {e} /\ queue' = (queue \ {e}) \cup (refs[e] \ seen')
  BY DEF Discover
<1>2. /\ stage = "queue" /\ ordered = <<>>
      /\ UNCHANGED <<refs, discovered, stage, remaining, ordered>>
  BY DEF Discover, OrderInv, RestIsAboveCycle
<1>3. e \in Entities /\ refs[e] \subseteq Entities
  BY DEF OrderInv, OrderTypeOK
<1>4. OrderTypeOK'
  BY <1>1, <1>2, <1>3 DEF OrderInv, OrderTypeOK
<1>5. QueueIsReached'
  <2>1. Reached(discovered)' = Reached(discovered)
    BY <1>2 DEF Reached, Complete
  <2>2. Complete(Reached(discovered)) /\ e \in Reached(discovered)
    BY Reaching DEF OrderInv, OrderTypeOK, QueueIsReached
  <2>3. refs[e] \subseteq Reached(discovered)
    BY <2>2 DEF Complete
  <2>4. QED
    BY <1>1, <1>2, <2>1, <2>3 DEF OrderInv, QueueIsReached
<1>6. RestIsAboveCycle'
  BY <1>2 DEF RestIsAboveCycle
<1>7. EmittedOnce' /\ AlphabetBreaksTies' /\ TargetsBefore'
  <2>1. DOMAIN ordered' = {}
    BY <1>2
  <2>2. QED
    BY <2>1 DEF EmittedOnce, AlphabetBreaksTies, TargetsBefore
<1>8. QED
  BY <1>4, <1>5, <1>6, <1>7 DEF OrderInv

(* The loops end, and the second gives up, without emitting anything.        *)
LEMMA StageInductive ==
  ASSUME OrderInv, StartSorting \/ FallBack \/ Finish PROVE OrderInv'
<1>1. UNCHANGED <<refs, discovered, queue, seen, ordered>>
  BY DEF StartSorting, FallBack, Finish
<1>2. /\ EmittedOnce' /\ AlphabetBreaksTies' /\ TargetsBefore' /\ Emitted' = Emitted
      /\ (\A e : AboveCycle(e)' <=> AboveCycle(e)) /\ (\A S : Reached(S)' = Reached(S))
  BY <1>1, NothingEmitted
<1>3. stage' # "queue" /\ queue = {} /\ stage' \in {"sort", "rest", "done"}
  BY DEF StartSorting, FallBack, Finish, OrderInv, QueueIsReached
<1>4. remaining' \subseteq seen' /\ OrderTypeOK'
  BY <1>1, <1>3 DEF StartSorting, FallBack, Finish, OrderInv, OrderTypeOK
<1>5. QueueIsReached'
  BY <1>1, <1>2, <1>3 DEF OrderInv, QueueIsReached
<1>6. RestIsAboveCycle'
  <2>1. CASE StartSorting
    <3>1. Emitted = {}
      BY <2>1 DEF StartSorting, OrderInv, RestIsAboveCycle, Emitted
    <3>2. QED
      BY <1>1, <1>2, <2>1, <3>1 DEF StartSorting, RestIsAboveCycle
  <2>2. CASE FallBack
    <3>1. \A e \in remaining : refs[e] \cap remaining # {}
      BY <2>2 DEF FallBack, Ready, Deps, OrderInv, RestIsAboveCycle
    <3>2. \A e \in remaining : AboveCycle(e)
      BY <3>1, CycleBelow DEF OrderInv, OrderTypeOK
    <3>3. QED
      BY <1>1, <1>2, <2>2, <3>2 DEF FallBack, OrderInv, RestIsAboveCycle
  <2>3. CASE Finish
    BY <1>1, <1>2, <2>3 DEF Finish, OrderInv, RestIsAboveCycle
  <2>4. QED
    BY <2>1, <2>2, <2>3
<1>7. QED
  BY <1>2, <1>4, <1>5, <1>6 DEF OrderInv

(* What may be emitted: everything that comes before it in the alphabet     *)
(* still waits, and so do its targets only if it is above a cycle.          *)
LEMMA EmitInductive ==
  ASSUME OrderInv, stage \in {"sort", "rest"}, NEW e \in remaining, Emit(e),
         ~ AboveCycle(e) => Deps(e) \subseteq Emitted,
         \A x \in remaining : x < e => ~ (Deps(x) \subseteq Emitted)
  PROVE  OrderInv'
<1>1. /\ UNCHANGED <<refs, discovered, stage, queue, seen>>
      /\ remaining' = remaining \ {e}
  BY DEF Emit
<1>0. PICK n : n = Len(ordered')
  OBVIOUS
<1>2. /\ ordered \in Seq(Entities) /\ ordered' \in Seq(seen) /\ ordered'[n] = e
      /\ \A i \in DOMAIN ordered : ordered'[i] = ordered[i] /\ i \in DOMAIN ordered'
      /\ \A i \in DOMAIN ordered' : i \in DOMAIN ordered \/ i = n
      /\ \A i \in DOMAIN ordered : EmittedBefore(i)' = EmittedBefore(i)
      /\ EmittedBefore(n)' = Emitted
      /\ Emitted' = Emitted \cup {e}
  BY <1>0, Emission DEF OrderInv
<1>3. /\ \A S : Reached(S)' = Reached(S)
      /\ \A x : Deps(x)' = Deps(x)
  BY <1>1 DEF Reached, Complete, Deps
<1>4. \A x : AboveCycle(x)' <=> AboveCycle(x)
  BY <1>1, <1>3 DEF AboveCycle, OnCycle
<1>5. /\ seen = Emitted \cup remaining /\ Emitted \cap remaining = {}
      /\ e \in seen /\ e \notin Emitted
  BY DEF OrderInv, RestIsAboveCycle
<1>6. OrderTypeOK'
  BY <1>1, <1>2 DEF OrderInv, OrderTypeOK
<1>7. QueueIsReached'
  BY <1>1, <1>3 DEF OrderInv, QueueIsReached
<1>8. RestIsAboveCycle'
  BY <1>1, <1>2, <1>4, <1>5 DEF OrderInv, RestIsAboveCycle
<1>9. EmittedOnce'
  <2>1. \A i \in DOMAIN ordered : ordered[i] # e
    BY <1>5 DEF Emitted
  <2>2. QED
    BY <1>2, <2>1 DEF OrderInv, EmittedOnce
<1>10. AlphabetBreaksTies'
  <2>1. SUFFICES ASSUME NEW i \in DOMAIN ordered', NEW x \in seen \ EmittedBefore(i)',
                        x < ordered'[i]
                 PROVE  ~ (Deps(x) \subseteq EmittedBefore(i)')
    BY <1>1, <1>3 DEF AlphabetBreaksTies
  <2>2. CASE i \in DOMAIN ordered
    BY <1>2, <2>1, <2>2 DEF OrderInv, AlphabetBreaksTies
  <2>3. CASE i = n
    <3>1. ordered'[i] = e /\ EmittedBefore(i)' = Emitted
      BY <1>2, <2>3
    <3>2. QED
      BY <1>5, <2>1, <3>1
  <2>4. QED
    BY <1>2, <2>2, <2>3
<1>11. TargetsBefore'
  <2>1. SUFFICES ASSUME NEW i \in DOMAIN ordered', ~ AboveCycle(ordered'[i])
                 PROVE  refs[ordered'[i]] \subseteq EmittedBefore(i)'
    BY <1>1 DEF TargetsBefore, AdapterDdl, AboveCycle, OnCycle, Reached, Complete
  <2>2. CASE i \in DOMAIN ordered
    <3>1. ordered'[i] = ordered[i] /\ EmittedBefore(i)' = EmittedBefore(i)
      BY <1>2, <2>2
    <3>2. QED
      BY <2>1, <2>2, <3>1 DEF OrderInv, TargetsBefore, AdapterDdl
  <2>3. CASE i = n
    <3>1. refs[e] \subseteq seen
      BY <1>5 DEF OrderInv, QueueIsReached
    <3>2. ordered'[i] = e /\ EmittedBefore(i)' = Emitted
      BY <1>2, <2>3
    <3>3. QED
      BY <2>1, <3>1, <3>2 DEF Deps
  <2>4. QED
    BY <1>2, <2>2, <2>3
<1>12. QED
  BY <1>6, <1>7, <1>8, <1>9, <1>10, <1>11 DEF OrderInv

(* The inductive invariant, step by step.                                   *)
LEMMA OrderInductive ==
  ASSUME OrderInv, [OrderNext]_order PROVE OrderInv'
<1>1. CASE UNCHANGED order
  <2>1. UNCHANGED <<refs, discovered, stage, queue, seen, remaining, ordered>>
    BY <1>1 DEF order
  <2>2. /\ EmittedOnce' /\ AlphabetBreaksTies' /\ TargetsBefore' /\ Emitted' = Emitted
        /\ (\A e : AboveCycle(e)' <=> AboveCycle(e)) /\ (\A S : Reached(S)' = Reached(S))
    BY <2>1, NothingEmitted
  <2>3. QED
    BY <2>1, <2>2 DEF OrderInv, OrderTypeOK, QueueIsReached, RestIsAboveCycle
<1>2. remaining \subseteq Nat
  BY DEF OrderInv, OrderTypeOK, Entities
<1>3. CASE EmitReady
  <2>1. Ready \subseteq remaining /\ Ready # {} /\ stage = "sort" /\ Emit(Min(Ready))
    BY <1>3 DEF EmitReady, Ready
  <2>2. Min(Ready) \in Ready /\ \A y \in Ready : Min(Ready) <= y
    BY <1>2, <2>1, LeastElement
  <2>3. \A x \in remaining : x < Min(Ready) => ~ (Deps(x) \subseteq Emitted)
    <3>1. SUFFICES ASSUME NEW x \in remaining, x < Min(Ready), x \in Ready PROVE FALSE
      BY DEF Ready
    <3>2. x \in Nat /\ Min(Ready) \in Nat /\ Min(Ready) <= x
      BY <1>2, <2>1, <2>2, <3>1
    <3>3. QED
      BY <3>1, <3>2
  <2>4. Deps(Min(Ready)) \subseteq Emitted
    BY <2>2 DEF Ready
  <2>5. QED
    BY <2>1, <2>2, <2>3, <2>4, EmitInductive
<1>4. CASE EmitRest
  <2>1. remaining # {} /\ stage = "rest" /\ Emit(Min(remaining))
    BY <1>4 DEF EmitRest
  <2>2. Min(remaining) \in remaining /\ \A y \in remaining : Min(remaining) <= y
    BY <1>2, <2>1, LeastElement
  <2>3. \A x \in remaining : ~ (x < Min(remaining))
    <3>1. TAKE x \in remaining
    <3>2. x \in Nat /\ Min(remaining) \in Nat /\ Min(remaining) <= x
      BY <1>2, <2>2
    <3>3. QED
      BY <3>2
  <2>4. AboveCycle(Min(remaining))
    BY <2>1, <2>2 DEF OrderInv, RestIsAboveCycle
  <2>5. QED
    BY <2>1, <2>2, <2>3, <2>4, EmitInductive
<1>5. QED
  BY <1>1, <1>3, <1>4, DiscoverInductive, StageInductive DEF OrderNext

(* Hence it holds in every state of the loops.                              *)
LEMMA OrderInvariant == OrderSpec => []OrderInv
<1>1. OrderInit => OrderInv
  <2> SUFFICES ASSUME OrderInit PROVE OrderInv
    OBVIOUS
  <2>1. /\ refs \in [Entities -> SUBSET Entities] /\ discovered \subseteq Entities
        /\ stage = "queue" /\ queue = discovered
        /\ seen = {} /\ remaining = {} /\ ordered = <<>>
    BY DEF OrderInit, OrderStart
  <2>2. OrderTypeOK
    BY <2>1 DEF OrderTypeOK
  <2>3. QueueIsReached
    BY <2>1, <2>2, Reaching DEF QueueIsReached
  <2>4. DOMAIN ordered = {}
    BY <2>1
  <2>5. QED
    BY <2>1, <2>2, <2>3, <2>4
       DEF OrderInv, RestIsAboveCycle, EmittedOnce, AlphabetBreaksTies, TargetsBefore
<1>2. OrderInv /\ [OrderNext]_order => OrderInv'
  BY OrderInductive
<1>3. QED
  BY <1>1, <1>2, PTL DEF OrderSpec

(* The variables of the two loops keep their types, and what is left to     *)
(* emit was seen (_order_entities_for_ddl).                                 *)
THEOREM OrderTypeCorrect == OrderSpec => []OrderTypeOK
<1>1. OrderInv => OrderTypeOK
  BY DEF OrderInv
<1>2. QED
  BY <1>1, OrderInvariant, PTL

(* For every schema, of any size, with whatever cycles: the DDL of an       *)
(* adapter creates each entity it reaches once, and the target of a foreign *)
(* key before the table that refers to it, unless that table leads into a   *)
(* cycle (generate_dbadapter_ddl).                                          *)
THEOREM ParentsComeFirst == OrderSpec => []ParentsFirst
<1>1. OrderInv => ParentsFirst
  <2> SUFFICES ASSUME OrderInv, stage = "done" PROVE Emitted = Reached(discovered)
    BY DEF OrderInv, ParentsFirst
  <2>1. seen = Emitted /\ queue = {}
    BY DEF OrderInv, QueueIsReached, RestIsAboveCycle
  <2>2. /\ discovered \subseteq seen /\ seen \subseteq Reached(discovered) /\ Complete(seen)
        /\ seen \in SUBSET Entities /\ discovered \in SUBSET Entities
    BY <2>1 DEF OrderInv, OrderTypeOK, QueueIsReached, Complete
  <2>3. Reached(discovered) \subseteq seen
    BY <2>2, Reaching DEF OrderInv
  <2>4. QED
    BY <2>1, <2>2, <2>3
<1>2. QED
  BY <1>1, OrderInvariant, PTL

(****************************** WhereFilter ********************************)

(* The operands of a condition. *)
LEMMA ConditionOperands ==
  ASSUME NEW c \in Condition
  PROVE  /\ c.field \in Field /\ c.operands \in Seq(Operands)
         /\ DOMAIN c.operands = 1..Len(c.operands) /\ Len(c.operands) \in Nat
         /\ \A i \in DOMAIN c.operands : c.operands[i] \in Operands
         /\ c.op \in Comparisons \cup {"in", "isNull", "isNotNull", "unread"}
         /\ c.op \in Comparisons => c.operands = <<c.operands[1]>>
<1>0. \A s \in Seq(Operands) : /\ DOMAIN s = 1..Len(s) /\ Len(s) \in Nat
                               /\ \A i \in DOMAIN s : s[i] \in Operands
  OBVIOUS
<1>1. CASE c \in [field : Field, op : Comparisons, operands : {<<o>> : o \in Operands}]
  <2>1. PICK o \in Operands : c.operands = <<o>>
    BY <1>1
  <2>2. <<o>> \in Seq(Operands) /\ <<o>>[1] = o
    OBVIOUS
  <2>3. c.field \in Field /\ c.op \in Comparisons
    BY <1>1
  <2>4. QED
    BY <1>0, <2>1, <2>2, <2>3
<1>2. CASE c \in [field : Field, op : {"in"}, operands : InLists]
  <2>1. c.field \in Field /\ c.op = "in" /\ c.operands \in Seq(Operands)
    BY <1>2, FilterAssumption
  <2>2. QED
    BY <1>0, <2>1 DEF Comparisons
<1>3. CASE c \in [field : Field, op : {"isNull", "isNotNull", "unread"}, operands : {<<>>}]
  <2>1. <<>> \in Seq(Operands)
    OBVIOUS
  <2>2. /\ c.field \in Field /\ c.op \in {"isNull", "isNotNull", "unread"}
        /\ c.operands \in Seq(Operands)
    BY <1>3, <2>1
  <2>3. QED
    BY <1>0, <2>2 DEF Comparisons
<1>4. QED
  BY <1>1, <1>2, <1>3 DEF Condition

(* A condition has finitely many placeholders, each of which has its rank.   *)
LEMMA PlaceholderCounts ==
  ASSUME NEW c \in Condition
  PROVE  /\ IsFiniteSet(Placeholders(c)) /\ ParameterCount(c) \in Nat
         /\ \A i \in Placeholders(c) :
              Cardinality(Placeholders(c) \cap 1..i) \in 1..ParameterCount(c)
<1>1. DOMAIN c.operands = 1..Len(c.operands) /\ Len(c.operands) \in Nat
  BY ConditionOperands
<1>2. Placeholders(c) \in SUBSET (1..Len(c.operands))
  BY <1>1 DEF Placeholders
<1>3. IsFiniteSet(Placeholders(c))
  <2>1. IsFiniteSet(1..Len(c.operands))
    BY <1>1, FS_Interval
  <2>2. QED
    BY <1>2, <2>1, FS_Subset
<1>4. ParameterCount(c) \in Nat
  BY <1>3, FS_CardinalityType DEF ParameterCount
<1>5. ASSUME NEW i \in Placeholders(c)
      PROVE  Cardinality(Placeholders(c) \cap 1..i) \in 1..ParameterCount(c)
  <2> DEFINE P == Placeholders(c) \cap 1..i
  <2>1. i \in P /\ P \in SUBSET Placeholders(c)
    BY <1>1, <1>2
  <2>2. IsFiniteSet(P) /\ Cardinality(P) <= ParameterCount(c)
    BY <1>3, <2>1, FS_Subset DEF ParameterCount
  <2>3. Cardinality(P) \in Nat /\ Cardinality(P) # 0
    BY <2>1, <2>2, FS_CardinalityType, FS_EmptySet
  <2>4. QED
    BY <1>4, <2>2, <2>3
<1>6. QED
  BY <1>3, <1>4, <1>5

(* A condition that is read is given values. *)
LEMMA OperandIsValue ==
  ASSUME FilterTypeOK, NEW c \in Condition, NEW used \in Nat,
         used + ParameterCount(c) <= Len(parameters), NEW i \in DOMAIN c.operands
  PROVE  Operand(c, i, used) \in Value
<1>1. CASE i \in Placeholders(c)
  <2>1. Cardinality(Placeholders(c) \cap 1..i) \in 1..ParameterCount(c) /\ ParameterCount(c) \in Nat
    BY <1>1, PlaceholderCounts
  <2>2. parameters \in Seq(Value)
    BY FilterAssumption DEF FilterTypeOK
  <2>3. QED
    BY <1>1, <2>1, <2>2 DEF Operand
<1>2. CASE i \notin Placeholders(c)
  <2>1. c.operands[i] \in Operands
    BY ConditionOperands
  <2>2. c.operands[i] # Placeholder
    BY <1>2 DEF Placeholders, IsParameter, Placeholder
  <2>3. c.operands[i].literal \in Value
    BY <2>1, <2>2, FilterAssumption DEF Operands
  <2>4. QED
    BY <1>2, <2>3 DEF Operand
<1>3. QED
  BY <1>1, <1>2

(* What a condition that is read becomes is a condition of a group.         *)
LEMMA ParsedIsCondition ==
  ASSUME FilterTypeOK, NEW c \in Condition, NEW used \in Nat, Readable(c, used)
  PROVE  ParsedCondition(c, used) \in ParsedConditions
<1>1. used + ParameterCount(c) <= Len(parameters) /\ c.op # "unread"
  BY DEF Readable
<1>2. [i \in DOMAIN c.operands |-> Operand(c, i, used)] \in Seq(Value)
  <2>1. \A i \in DOMAIN c.operands : Operand(c, i, used) \in Value
    BY <1>1, OperandIsValue
  <2>2. DOMAIN c.operands = 1..Len(c.operands) /\ Len(c.operands) \in Nat
    BY ConditionOperands
  <2> HIDE DEF Operand
  <2>3. QED
    BY <2>1, <2>2
<1>3. c.op \in Comparisons \cup {"in", "isNull", "isNotNull", "untested"}
  BY <1>1, ConditionOperands
<1>4. QED
  BY <1>2, <1>3 DEF ParsedCondition, ParsedConditions

(* The placeholders before the next condition are those before this one,    *)
(* and its own.                                                             *)
LEMMA OwnPlaceholders ==
  ASSUME NEW c \in Condition, NEW i \in Nat, NEW S, IsFiniteSet(S), \A p \in S : p[1] # i
  PROVE  /\ IsFiniteSet(S \cup ({i} \X Placeholders(c)))
         /\ Cardinality(S \cup ({i} \X Placeholders(c))) = Cardinality(S) + ParameterCount(c)
<1> DEFINE P == Placeholders(c)
           own == {i} \X P
<1>1. IsFiniteSet(P) /\ ParameterCount(c) = Cardinality(P)
  BY PlaceholderCounts DEF ParameterCount
<1> HIDE DEF P
<1>2. IsFiniteSet(own) /\ Cardinality(own) = Cardinality(P)
  <2> DEFINE f == [p \in P |-> <<i, p>>]
  <2>1. f \in [P -> own] /\ \A p \in P : f[p] = <<i, p>>
    OBVIOUS
  <2>2. \A x \in own : \E p \in P : x = <<i, p>>
    OBVIOUS
  <2> HIDE DEF f, own
  <2>3. f \in Injection(P, own)
    BY <2>1 DEF Injection, IsInjective
  <2>4. f \in Surjection(P, own)
    BY <2>1, <2>2 DEF Surjection
  <2>5. ExistsBijection(P, own)
    BY <2>3, <2>4 DEF ExistsBijection, Bijection
  <2>6. QED
    BY <1>1, <2>5, FS_Bijection
<1>3. S \cap own = {}
  OBVIOUS
<1> HIDE DEF own
<1>4. /\ IsFiniteSet(S \cup own)
      /\ Cardinality(S \cup own) = Cardinality(S) + Cardinality(own) - Cardinality(S \cap own)
  BY <1>2, FS_Union
<1>5. Cardinality(S) \in Nat /\ Cardinality(P) \in Nat /\ Cardinality(S \cap own) = 0
  BY <1>1, <1>3, FS_CardinalityType, FS_EmptySet
<1>6. Cardinality(S \cup own) = Cardinality(S) + ParameterCount(c)
  BY <1>1, <1>2, <1>4, <1>5
<1>7. QED
  BY <1>4, <1>6 DEF own, P

(* A condition is read: the clause grows, and nothing of it changes.        *)
LEMMA ClauseGrows ==
  ASSUME FilterTypeOK, NEW c \in Condition, NEW joiner \in {"AND", "OR"},
         ReadCondition(c, joiner), NEW n, n = Len(clause.conditions)
  PROVE  /\ n \in Nat /\ n + 1 <= MaxConditions
         /\ clause' \in [conditions : Seq(Condition), joiners : Seq({"AND", "OR"})]
         /\ Len(clause'.conditions) = n + 1 /\ Len(clause'.joiners) = n + 1
         /\ DOMAIN clause.conditions = 1..n /\ DOMAIN clause.joiners = 1..n
         /\ DOMAIN clause'.conditions = 1..(n + 1) /\ DOMAIN clause'.joiners = 1..(n + 1)
         /\ \A i \in 1..n : /\ clause'.conditions[i] = clause.conditions[i]
                            /\ clause'.joiners[i] = clause.joiners[i]
                            /\ clause.conditions[i] \in Condition
         /\ clause'.conditions[n + 1] = c /\ clause'.joiners[n + 1] = joiner
         /\ parameters' = parameters
<1> DEFINE C == clause.conditions
           J == clause.joiners
<1>1. C \in Seq(Condition) /\ J \in Seq({"AND", "OR"}) /\ n = Len(C) /\ n = Len(J)
  BY DEF FilterTypeOK
<1>2. /\ clause' = [conditions |-> Append(C, c), joiners |-> Append(J, joiner)]
      /\ parameters' = parameters /\ n < MaxConditions
  BY DEF ReadCondition
<1> HIDE DEF C, J
<1>3. /\ n \in Nat /\ DOMAIN C = 1..n /\ Append(C, c) \in Seq(Condition)
      /\ Len(Append(C, c)) = n + 1 /\ DOMAIN Append(C, c) = 1..(n + 1)
      /\ \A i \in 1..n : Append(C, c)[i] = C[i] /\ C[i] \in Condition
      /\ Append(C, c)[n + 1] = c
  <2>1. C \in Seq(Condition) /\ n = Len(C)
    BY <1>1
  <2>2. QED
    BY <2>1
<1>0. /\ DOMAIN J = 1..n /\ Append(J, joiner) \in Seq({"AND", "OR"})
      /\ Len(Append(J, joiner)) = n + 1 /\ DOMAIN Append(J, joiner) = 1..(n + 1)
      /\ \A i \in 1..n : Append(J, joiner)[i] = J[i]
      /\ Append(J, joiner)[n + 1] = joiner
  <2>1. J \in Seq({"AND", "OR"}) /\ n = Len(J)
    BY <1>1
  <2>2. QED
    BY <2>1
<1>4. clause'.conditions = Append(C, c) /\ clause'.joiners = Append(J, joiner)
  BY <1>2
<1>5. n + 1 <= MaxConditions
  BY <1>2, <1>3, FilterAssumption
<1>6. QED
  BY <1>0, <1>2, <1>3, <1>4, <1>5 DEF C, J

(* What was read before is bound to the parameters it was bound to.         *)
LEMMA ParametersGrow ==
  ASSUME FilterInv, NEW c \in Condition, NEW joiner \in {"AND", "OR"},
         ReadCondition(c, joiner), NEW n, n = Len(clause.conditions)
  PROVE  /\ \A i \in 1..(n + 1) : UsedBefore(i)' = UsedBefore(i)
         /\ UsedBefore(n + 2)' = UsedBefore(n + 1) + ParameterCount(c)
         /\ IsFiniteSet(PlaceholdersBefore(n + 2))'
         /\ UsedBefore(n + 1) \in Nat
         /\ \A i \in 1..n : ParsedCondition(clause.conditions[i], UsedBefore(i))'
                             = ParsedCondition(clause.conditions[i], UsedBefore(i))
         /\ ParsedCondition(clause.conditions[n + 1], UsedBefore(n + 1))'
                = ParsedCondition(c, UsedBefore(n + 1))
<1>1. /\ n \in Nat /\ parameters' = parameters /\ clause'.conditions[n + 1] = c
      /\ \A i \in 1..n : clause'.conditions[i] = clause.conditions[i]
  BY ClauseGrows DEF FilterInv
<1>2. \A i \in 1..(n + 1) : PlaceholdersBefore(i)' = PlaceholdersBefore(i)
  <2>1. TAKE i \in 1..(n + 1)
  <2>2. \A j \in 1..(i - 1) : clause'.conditions[j] = clause.conditions[j]
    BY <1>1
  <2>3. QED
    BY <2>2 DEF PlaceholdersBefore
<1>3. PlaceholdersBefore(n + 2)' = PlaceholdersBefore(n + 1) \cup ({n + 1} \X Placeholders(c))
  <2>1. \A x : x \in PlaceholdersBefore(n + 2)'
                <=> \E j \in 1..(n + 1) : x \in {j} \X Placeholders(clause'.conditions[j])
    <3>1. (n + 2) - 1 = n + 1
      BY <1>1
    <3>2. QED
      BY <3>1 DEF PlaceholdersBefore, Placeholders
  <2>2. \A x : x \in PlaceholdersBefore(n + 1)
                <=> \E j \in 1..n : x \in {j} \X Placeholders(clause'.conditions[j])
    <3>1. (n + 1) - 1 = n
      BY <1>1
    <3>2. \A x : x \in PlaceholdersBefore(n + 1)
                  <=> \E j \in 1..n : x \in {j} \X Placeholders(clause.conditions[j])
      BY <3>1 DEF PlaceholdersBefore
    <3>3. QED
      BY <1>1, <3>2
  <2>3. \A j : j \in 1..(n + 1) <=> j \in 1..n \/ j = n + 1
    BY <1>1
  <2>4. \A x : x \in PlaceholdersBefore(n + 2)'
                <=> x \in PlaceholdersBefore(n + 1) \/ x \in {n + 1} \X Placeholders(c)
    <3> HIDE DEF PlaceholdersBefore
    <3>1. QED
      BY <1>1, <2>1, <2>2, <2>3
  <2>5. QED
    BY <2>4
<1>4. IsFiniteSet(PlaceholdersBefore(n + 1)) /\ \A p \in PlaceholdersBefore(n + 1) : p[1] # n + 1
  <2>1. IsFiniteSet(PlaceholdersBefore(n + 1))
    BY DEF FilterInv
  <2>2. \A p \in PlaceholdersBefore(n + 1) : \E j \in 1..n : p[1] = j
    BY <1>1 DEF PlaceholdersBefore
  <2>3. QED
    BY <1>1, <2>1, <2>2
<1>5. /\ IsFiniteSet(PlaceholdersBefore(n + 1) \cup ({n + 1} \X Placeholders(c)))
      /\ Cardinality(PlaceholdersBefore(n + 1) \cup ({n + 1} \X Placeholders(c)))
            = Cardinality(PlaceholdersBefore(n + 1)) + ParameterCount(c)
  <2>1. n + 1 \in Nat
    BY <1>1
  <2>2. QED
    BY <1>4, <2>1, OwnPlaceholders, Zenon
<1>6. \A i \in 1..(n + 1) : UsedBefore(i)' = UsedBefore(i)
  BY <1>2 DEF UsedBefore
<1>7. /\ UsedBefore(n + 2)' = UsedBefore(n + 1) + ParameterCount(c)
      /\ IsFiniteSet(PlaceholdersBefore(n + 2))'
  BY <1>3, <1>5 DEF UsedBefore
<1>8. UsedBefore(n + 1) \in Nat
  BY <1>4, FS_CardinalityType DEF UsedBefore
<1>9. \A i \in 1..n : ParsedCondition(clause.conditions[i], UsedBefore(i))'
                       = ParsedCondition(clause.conditions[i], UsedBefore(i))
  <2>1. TAKE i \in 1..n
  <2>2. clause'.conditions[i] = clause.conditions[i] /\ UsedBefore(i)' = UsedBefore(i)
    BY <1>1, <1>6
  <2>3. QED
    BY <1>1, <2>2 DEF ParsedCondition, Operand
<1>10. ParsedCondition(clause.conditions[n + 1], UsedBefore(n + 1))'
           = ParsedCondition(c, UsedBefore(n + 1))
  <2>1. UsedBefore(n + 1)' = UsedBefore(n + 1)
    BY <1>1, <1>6
  <2>2. QED
    BY <1>1, <2>1 DEF ParsedCondition, Operand
<1>11. QED
  BY <1>6, <1>7, <1>8, <1>9, <1>10

(* What is supported was supported before its last condition, which can be  *)
(* read and tests a field of its own.                                       *)
LEMMA SupportedBefore ==
  ASSUME FilterInv, NEW c \in Condition, NEW joiner \in {"AND", "OR"},
         ReadCondition(c, joiner), NEW n, n = Len(clause.conditions), Supported'
  PROVE  /\ Supported /\ Readable(c, UsedBefore(n + 1))
         /\ \A i \in 1..n : (\A k \in i..n : clause.joiners[k] = "AND")
                             => clause.conditions[i].field # c.field
<1>1. /\ n \in Nat /\ parameters' = parameters
      /\ Len(clause'.conditions) = n + 1
      /\ DOMAIN clause.conditions = 1..n /\ DOMAIN clause.joiners = 1..n
      /\ DOMAIN clause'.conditions = 1..(n + 1) /\ DOMAIN clause'.joiners = 1..(n + 1)
      /\ \A i \in 1..n : /\ clause'.conditions[i] = clause.conditions[i]
                         /\ clause'.joiners[i] = clause.joiners[i]
      /\ clause'.conditions[n + 1] = c /\ clause'.joiners[n + 1] = joiner
  BY ClauseGrows DEF FilterInv
<1>2. /\ UsedBefore(n + 2)' = UsedBefore(n + 1) + ParameterCount(c)
      /\ UsedBefore(n + 1) \in Nat /\ ParameterCount(c) \in Nat
  BY ParametersGrow, PlaceholderCounts
<1>3. UsedBefore(n + 1) + ParameterCount(c) <= Len(parameters)
  <2>1. (UsedBefore(Len(clause.conditions) + 1) <= Len(parameters))'
    BY DEF Supported
  <2>2. UsedBefore(Len(clause.conditions) + 1)' = UsedBefore(n + 2)'
    <3>1. Len(clause'.conditions) + 1 = n + 2
      BY <1>1
    <3>2. QED
      BY <3>1 DEF UsedBefore, PlaceholdersBefore
  <2>3. QED
    BY <1>1, <1>2, <2>1, <2>2
<1>4. \A i, j \in 1..n : Conjoined(i, j) <=> Conjoined(i, j)'
  <2>1. TAKE i, j \in 1..n
  <2>2. \A k \in 1..(n + 1) : (i <= k /\ k < j) \/ (j <= k /\ k < i) => k \in 1..n
    BY <1>1
  <2>3. \A k \in 1..n : k \in 1..(n + 1)
    BY <1>1
  <2>4. Conjoined(i, j) <=> \A k \in 1..n : (i <= k /\ k < j) \/ (j <= k /\ k < i)
                                             => clause.joiners[k] = "AND"
    BY <1>1 DEF Conjoined
  <2>5. Conjoined(i, j)' <=> \A k \in 1..(n + 1) : (i <= k /\ k < j) \/ (j <= k /\ k < i)
                                                   => clause'.joiners[k] = "AND"
    BY <1>1 DEF Conjoined
  <2>6. ASSUME Conjoined(i, j)  PROVE  Conjoined(i, j)'
    BY <1>1, <2>2, <2>4, <2>5, <2>6
  <2>7. ASSUME Conjoined(i, j)'  PROVE  Conjoined(i, j)
    BY <1>1, <2>3, <2>4, <2>5, <2>7
  <2>8. QED
    BY <2>6, <2>7
<1>5. Supported
  <2>1. \A i \in 1..n : clause.conditions[i].op # "unread"
    BY <1>1 DEF Supported
  <2>2. \A i, j \in 1..n :
          i # j /\ Conjoined(i, j) => clause.conditions[i].field # clause.conditions[j].field
    <3>1. TAKE i, j \in 1..n
    <3>2. HAVE i # j /\ Conjoined(i, j)
    <3>3. Conjoined(i, j)' /\ i \in 1..(n + 1) /\ j \in 1..(n + 1)
      BY <1>1, <1>4, <3>2
    <3>4. clause'.conditions[i].field # clause'.conditions[j].field
      BY <1>1, <3>2, <3>3 DEF Supported
    <3>5. QED
      BY <1>1, <3>4
  <2>3. UsedBefore(n + 1) <= Len(parameters)
    <3>1. Len(parameters) \in Nat
      BY FilterAssumption DEF FilterInv, FilterTypeOK
    <3>2. QED
      BY <1>2, <1>3, <3>1
  <2>4. QED
    BY <1>1, <2>1, <2>2, <2>3 DEF Supported
<1>6. Readable(c, UsedBefore(n + 1))
  <2>1. c.op # "unread"
    <3>1. n + 1 \in DOMAIN clause'.conditions
      BY <1>1
    <3>2. QED
      BY <1>1, <3>1 DEF Supported
  <2>2. QED
    BY <1>3, <2>1 DEF Readable
<1>7. ASSUME NEW i \in 1..n, \A k \in i..n : clause.joiners[k] = "AND"
      PROVE  clause.conditions[i].field # c.field
  <2>1. Conjoined(i, n + 1)'
    BY <1>1, <1>7 DEF Conjoined
  <2>2. i \in 1..(n + 1) /\ n + 1 \in 1..(n + 1) /\ i # n + 1
    BY <1>1
  <2>3. clause'.conditions[i].field # clause'.conditions[n + 1].field
    BY <1>1, <2>1, <2>2 DEF Supported
  <2>4. QED
    BY <1>1, <2>3
<1>8. QED
  BY <1>5, <1>6, <1>7

(* The groups of what was read before stay its groups.                      *)
LEMMA GroupsStay ==
  ASSUME FilterInv, NEW c \in Condition, NEW joiner \in {"AND", "OR"},
         ReadCondition(c, joiner), NEW n, n = Len(clause.conditions)
  PROVE  /\ \A lo \in 1..(n + 1) : RunsFrom(lo, n + 1) => RunsFrom(lo, n + 1)'
         /\ \A g : \A l \in 1..n : \A h \in l..n : ClosesGroup(g, l, h) => ClosesGroup(g, l, h)'
<1>1. /\ n \in Nat
      /\ \A i \in 1..n : /\ clause'.conditions[i] = clause.conditions[i]
                         /\ clause'.joiners[i] = clause.joiners[i]
  BY ClauseGrows DEF FilterInv
<1>2. /\ \A i \in 1..(n + 1) : UsedBefore(i)' = UsedBefore(i)
      /\ \A i \in 1..n : ParsedCondition(clause.conditions[i], UsedBefore(i))'
                          = ParsedCondition(clause.conditions[i], UsedBefore(i))
  BY ParametersGrow
<1>3. \A lo \in 1..(n + 1), hi \in 0..(n + 1) : RunsFrom(lo, hi) => RunsFrom(lo, hi)'
  <2>1. TAKE lo \in 1..(n + 1), hi \in 0..(n + 1)
  <2>2. HAVE RunsFrom(lo, hi)
  <2>3. lo = 1 \/ clause'.joiners[lo - 1] = "OR"
    BY <1>1, <2>2 DEF RunsFrom
  <2>4. \A k \in lo..(hi - 1) : clause'.joiners[k] = "AND"
    BY <1>1, <2>2 DEF RunsFrom
  <2>5. QED
    BY <2>3, <2>4 DEF RunsFrom
<1>4. ASSUME NEW g, NEW l \in 1..n, NEW h \in l..n, ClosesGroup(g, l, h)
      PROVE  ClosesGroup(g, l, h)'
  <2>1. RunsFrom(l, h) /\ clause.joiners[h] = "OR" /\ IsGroupOf(g, l, h)
    BY <1>4 DEF ClosesGroup
  <2>2. RunsFrom(l, h)' /\ clause'.joiners[h] = "OR"
    BY <1>1, <1>3, <2>1
  <2>3. \A i \in l..h : i \in 1..n /\ i \in 1..(n + 1)
    BY <1>1
  <2>4. \A f \in Field \ {clause'.conditions[i].field : i \in l..h} : g[f] = Untested
    <3>1. {clause'.conditions[i].field : i \in l..h} = {clause.conditions[i].field : i \in l..h}
      BY <1>1, <2>3
    <3>2. QED
      BY <2>1, <3>1 DEF IsGroupOf
  <2>5. \A i \in l..h : g[clause'.conditions[i].field]
                          = ParsedCondition(clause.conditions[i], UsedBefore(i))'
    <3>1. TAKE i \in l..h
    <3>2. g[clause.conditions[i].field] = ParsedCondition(clause.conditions[i], UsedBefore(i))
      BY <2>1 DEF IsGroupOf
    <3>3. QED
      BY <1>1, <1>2, <2>3, <3>2
  <2>6. IsGroupOf(g, l, h)'
    BY <2>4, <2>5 DEF IsGroupOf
  <2>7. QED
    BY <2>2, <2>6 DEF ClosesGroup
<1>5. QED
  <2>1. n + 1 \in 0..(n + 1)
    BY <1>1
  <2>2. QED
    BY <1>3, <1>4, <2>1

(* With the condition in it, the open group is the conjunction so far.      *)
LEMMA OpenGroupGrows ==
  ASSUME FilterInv, NEW c \in Condition, NEW joiner \in {"AND", "OR"},
         ReadCondition(c, joiner), NEW n, n = Len(clause.conditions), Supported',
         NEW lo \in 1..(n + 1), RunsFrom(lo, n + 1), IsGroupOf(parsed.group, lo, n),
         NEW new, new = With(parsed.group, c, UsedBefore(n + 1))
  PROVE  IsGroupOf(new, lo, n + 1)'
<1>1. /\ n \in Nat /\ clause'.conditions[n + 1] = c
      /\ \A i \in 1..n : clause'.conditions[i] = clause.conditions[i]
  BY ClauseGrows DEF FilterInv
<1>2. c.field \in Field /\ parsed.group \in Groups
  BY ConditionOperands DEF FilterInv, FilterTypeOK
<1>3. /\ new[c.field] = ParsedCondition(c, UsedBefore(n + 1))
      /\ \A f \in Field \ {c.field} : new[f] = parsed.group[f]
  BY <1>2 DEF With, Groups
<1>4. \A i \in lo..n : /\ i \in 1..n /\ clause.conditions[i].field # c.field
                       /\ clause.conditions[i].field \in Field
  <2>1. TAKE i \in lo..n
  <2>2. i \in 1..n /\ \A k \in i..n : clause.joiners[k] = "AND"
    BY <1>1 DEF RunsFrom
  <2>3. clause.conditions[i].field # c.field
    BY <2>2, SupportedBefore
  <2>4. clause.conditions[i] \in Condition
    BY <2>2, ClauseGrows DEF FilterInv
  <2>5. QED
    BY <2>2, <2>3, <2>4, ConditionOperands
<1>5. \A i : i \in lo..(n + 1) <=> i \in lo..n \/ i = n + 1
  BY <1>1
<1>6. \A f \in Field \ {clause'.conditions[i].field : i \in lo..(n + 1)} : new[f] = Untested
  <2>1. TAKE f \in Field \ {clause'.conditions[i].field : i \in lo..(n + 1)}
  <2>2. f # c.field /\ f \notin {clause.conditions[i].field : i \in lo..n}
    BY <1>1, <1>4, <1>5
  <2>3. parsed.group[f] = Untested
    BY <2>2 DEF IsGroupOf
  <2>4. QED
    BY <1>3, <2>2, <2>3
<1>7. ASSUME NEW i \in lo..(n + 1)
      PROVE  new[clause'.conditions[i].field] = ParsedCondition(clause.conditions[i], UsedBefore(i))'
  <2>1. CASE i \in lo..n
    <3>1. new[clause.conditions[i].field] = ParsedCondition(clause.conditions[i], UsedBefore(i))
      BY <1>3, <1>4, <2>1 DEF IsGroupOf
    <3>2. ParsedCondition(clause.conditions[i], UsedBefore(i))'
              = ParsedCondition(clause.conditions[i], UsedBefore(i))
      BY <1>4, <2>1, ParametersGrow
    <3>3. QED
      BY <1>1, <1>4, <2>1, <3>1, <3>2
  <2>2. CASE i = n + 1
    <3>1. ParsedCondition(clause.conditions[n + 1], UsedBefore(n + 1))'
              = ParsedCondition(c, UsedBefore(n + 1))
      BY ParametersGrow
    <3>2. QED
      BY <1>1, <1>3, <2>2, <3>1
  <2>3. QED
    BY <1>5, <2>1, <2>2
<1>8. QED
  BY <1>6, <1>7 DEF IsGroupOf

(* The translation after a condition.                                       *)
LEMMA Stepped ==
  ASSUME FilterTypeOK, NEW c \in Condition, NEW joiner \in {"AND", "OR"},
         ReadCondition(c, joiner), NEW new, new = With(parsed.group, c, parsed.used)
  PROVE  /\ parsed' = [group |-> parsed'.group, groups |-> parsed'.groups, used |-> parsed'.used]
         /\ parsed'.used = Consumed(c, parsed.used)
         /\ ~ Readable(c, parsed.used)
               => parsed'.group = parsed.group /\ parsed'.groups = parsed.groups
         /\ Readable(c, parsed.used) /\ joiner = "OR"
               => parsed'.group = NoGroup /\ parsed'.groups = Append(parsed.groups, new)
         /\ Readable(c, parsed.used) /\ joiner = "AND"
               => parsed'.group = new /\ parsed'.groups = parsed.groups
<1>1. parsed' = Step(parsed, c, joiner)
  BY DEF ReadCondition
<1>2. parsed \in [group : Groups, groups : Seq(Groups), used : Nat]
  BY DEF FilterTypeOK
<1>3. CASE ~ Readable(c, parsed.used)
  <2>1. parsed' = [parsed EXCEPT !.used = Consumed(c, parsed.used)]
    BY <1>1, <1>3 DEF Step
  <2>2. QED
    BY <1>2, <1>3, <2>1
<1>4. CASE Readable(c, parsed.used) /\ joiner = "OR"
  <2>1. parsed' = [group |-> NoGroup, groups |-> Append(parsed.groups, new),
                   used |-> Consumed(c, parsed.used)]
    BY <1>1, <1>4 DEF Step
  <2>2. QED
    BY <1>4, <2>1
<1>5. CASE Readable(c, parsed.used) /\ joiner = "AND"
  <2>1. parsed' = [parsed EXCEPT !.group = new, !.used = Consumed(c, parsed.used)]
    BY <1>1, <1>5 DEF Step
  <2>2. QED
    BY <1>2, <1>5, <2>1
<1>6. QED
  BY <1>3, <1>4, <1>5

(* A group that tests nothing is a group.                                   *)
LEMMA NoGroupIsGroup == Untested \in ParsedConditions /\ NoGroup \in Groups
<1>1. <<>> \in Seq(Value)
  OBVIOUS
<1>2. Untested \in ParsedConditions
  BY <1>1 DEF Untested, ParsedConditions
<1>3. QED
  BY <1>2 DEF NoGroup, Groups

(* Reading a condition keeps the types.                                     *)
LEMMA TypeInductive ==
  ASSUME FilterTypeOK, NEW c \in Condition, NEW joiner \in {"AND", "OR"},
         ReadCondition(c, joiner)
  PROVE  FilterTypeOK'
<1>1. /\ clause' \in [conditions : Seq(Condition), joiners : Seq({"AND", "OR"})]
      /\ Len(clause'.joiners) = Len(clause'.conditions)
      /\ Len(clause'.conditions) <= MaxConditions
      /\ parameters' = parameters
  <2>1. Len(clause'.joiners) = Len(clause.conditions) + 1 /\ Len(clause'.conditions) = Len(clause.conditions) + 1
    BY ClauseGrows
  <2>2. QED
    BY <2>1, ClauseGrows
<1>2. /\ parsed \in [group : Groups, groups : Seq(Groups), used : Nat]
      /\ parsed.used \in Nat /\ parsed.group \in Groups /\ parsed.groups \in Seq(Groups)
      /\ parsed.used <= Len(parameters) /\ Len(parameters) \in Nat
  BY FilterAssumption DEF FilterTypeOK
<1>3. Consumed(c, parsed.used) \in Nat /\ Consumed(c, parsed.used) <= Len(parameters)
  BY <1>2, PlaceholderCounts DEF Consumed
<1>4. Readable(c, parsed.used) => With(parsed.group, c, parsed.used) \in Groups
  <2>1. HAVE Readable(c, parsed.used)
  <2>2. ParsedCondition(c, parsed.used) \in ParsedConditions
    BY <1>2, <2>1, ParsedIsCondition
  <2>3. QED
    BY <1>2, <2>2 DEF With, Groups
<1>5. /\ parsed' \in [group : Groups, groups : Seq(Groups), used : Nat]
      /\ parsed'.used <= Len(parameters)
  <2>1. PICK new : new = With(parsed.group, c, parsed.used)
    OBVIOUS
  <2>2. parsed' = [group |-> parsed'.group, groups |-> parsed'.groups, used |-> parsed'.used]
    BY <2>1, Stepped
  <2>3. parsed'.used \in Nat /\ parsed'.used <= Len(parameters)
    BY <1>3, <2>1, Stepped
  <2>4. parsed'.group \in Groups
    BY <1>2, <1>4, <2>1, Stepped, NoGroupIsGroup
  <2>5. parsed'.groups \in Seq(Groups)
    <3>1. parsed'.groups = parsed.groups \/ (new \in Groups /\ parsed'.groups = Append(parsed.groups, new))
      <4>1. ~ Readable(c, parsed.used) => parsed'.groups = parsed.groups
        BY <2>1, Stepped
      <4>2. Readable(c, parsed.used) /\ joiner = "AND" => parsed'.groups = parsed.groups
        BY <2>1, Stepped
      <4>3. Readable(c, parsed.used) /\ joiner = "OR"
              => new \in Groups /\ parsed'.groups = Append(parsed.groups, new)
        <5>1. HAVE Readable(c, parsed.used) /\ joiner = "OR"
        <5>2. new \in Groups
          BY <1>4, <2>1, <5>1
        <5>3. parsed'.groups = Append(parsed.groups, new)
          BY <2>1, <5>1, Stepped
        <5>4. QED
          BY <5>2, <5>3
      <4>4. QED
        BY <4>1, <4>2, <4>3
    <3>2. CASE parsed'.groups = parsed.groups
      BY <1>2, <3>2
    <3>3. CASE new \in Groups /\ parsed'.groups = Append(parsed.groups, new)
      <4>1. parsed.groups \in Seq(Groups)
        BY <1>2
      <4>2. Append(parsed.groups, new) \in Seq(Groups)
        BY <3>3, <4>1
      <4>3. QED
        BY <3>3, <4>2
    <3>4. QED
      BY <3>1, <3>2, <3>3
  <2>6. QED
    BY <2>2, <2>3, <2>4, <2>5
<1>6. QED
  <2>1. parameters' \in ParameterLists
    BY <1>1 DEF FilterTypeOK
  <2>2. QED
    BY <1>1, <1>5, <2>1 DEF FilterTypeOK

(* What a group is of does not depend on its name.                          *)
LEMMA SameGroup ==
  ASSUME NEW g, NEW k, NEW l, NEW h, ClosesGroup(g, l, h)', g = parsed'.groups[k]
  PROVE  ClosesGroup(parsed.groups[k], l, h)'
BY DEF ClosesGroup, IsGroupOf

(* Reading a condition keeps every group one of the clause's conjunctions:  *)
(* with AND the open one grows, with OR it is closed and the next is empty.  *)
LEMMA GroupsInductive ==
  ASSUME FilterInv, NEW c \in Condition, NEW joiner \in {"AND", "OR"},
         ReadCondition(c, joiner), Supported'
  PROVE  GroupsFollow'
<1> DEFINE n == Len(clause.conditions)
           new == With(parsed.group, c, UsedBefore(n + 1))
<1>0. FilterTypeOK
  BY DEF FilterInv
<1>1. PICK N : N = n
  OBVIOUS
<1>2. PICK g : g = new
  OBVIOUS
<1>3. /\ N = Len(clause.conditions) /\ N \in Nat /\ Len(clause'.conditions) = N + 1
      /\ clause'.joiners[N + 1] = joiner
      /\ \A i \in 1..N : clause'.joiners[i] = clause.joiners[i]
  BY <1>1, ClauseGrows DEF FilterInv
<1>4. Supported /\ Readable(c, UsedBefore(N + 1))
  BY <1>3, SupportedBefore
<1>5. parsed.used = UsedBefore(N + 1)
  BY <1>3, <1>4 DEF FilterInv, GroupsFollow
<1>6. PICK lo \in 1..(N + 1) : OpensGroup(lo)
  BY <1>3, <1>4 DEF FilterInv, GroupsFollow
<1>7. /\ RunsFrom(lo, N + 1) /\ IsGroupOf(parsed.group, lo, N)
      /\ \A i \in 1..(lo - 1) : \E k \in DOMAIN parsed.groups, l \in 1..i, h \in i..N :
           ClosesGroup(parsed.groups[k], l, h)
  BY <1>3, <1>6 DEF OpensGroup
<1>8. \A k \in DOMAIN parsed.groups : \E l \in 1..N : \E h \in l..N :
         ClosesGroup(parsed.groups[k], l, h)
  BY <1>3, <1>4 DEF FilterInv, GroupsFollow
<1> HIDE DEF n
<1>9. g = With(parsed.group, c, UsedBefore(N + 1))
  BY <1>1, <1>2
<1>10. IsGroupOf(g, lo, N + 1)' /\ RunsFrom(lo, N + 1)'
  BY <1>3, <1>4, <1>7, <1>9, OpenGroupGrows, GroupsStay
<1>11. \A x : \A l \in 1..N : \A h \in l..N : ClosesGroup(x, l, h) => ClosesGroup(x, l, h)'
  BY <1>3, GroupsStay
<1>12. /\ parsed.groups \in Seq(Groups) /\ Readable(c, parsed.used)
       /\ parsed \in [group : Groups, groups : Seq(Groups), used : Nat]
  BY <1>4, <1>5 DEF FilterInv, FilterTypeOK
<1>13. parsed'.used = UsedBefore(N + 2)'
  <2>1. Consumed(c, parsed.used) = parsed.used + ParameterCount(c)
    BY <1>12 DEF Readable, Consumed
  <2>2. parsed'.used = Consumed(c, parsed.used)
    BY <1>0, <1>5, <1>9, Stepped
  <2>3. UsedBefore(N + 2)' = UsedBefore(N + 1) + ParameterCount(c)
    BY <1>3, ParametersGrow
  <2>4. QED
    BY <1>5, <2>1, <2>2, <2>3
<1>14. \A k \in DOMAIN parsed.groups : parsed'.groups[k] = parsed.groups[k]
         => \E l \in 1..N : \E h \in l..N :
               ClosesGroup(parsed.groups[k], l, h) /\ ClosesGroup(parsed.groups[k], l, h)'
  <2>1. TAKE k \in DOMAIN parsed.groups
  <2>2. HAVE parsed'.groups[k] = parsed.groups[k]
  <2>3. PICK l \in 1..N : \E h \in l..N : ClosesGroup(parsed.groups[k], l, h)
    BY <1>8
  <2>4. PICK h \in l..N : ClosesGroup(parsed.groups[k], l, h)
    BY <2>3
  <2>5. PICK x : x = parsed.groups[k]
    OBVIOUS
  <2>6. ClosesGroup(x, l, h)'
    BY <1>11, <2>4, <2>5
  <2>7. ClosesGroup(parsed.groups[k], l, h)'
    BY <2>2, <2>5, <2>6, SameGroup
  <2>8. QED
    BY <2>4, <2>7
<1>17. ASSUME NEW i \in 1..(lo - 1),
              \A k \in DOMAIN parsed.groups : k \in DOMAIN parsed'.groups
                                              /\ parsed'.groups[k] = parsed.groups[k]
       PROVE  \E k \in DOMAIN parsed'.groups, l \in 1..i, h \in i..(N + 1) :
                 ClosesGroup(parsed.groups[k], l, h)'
  <2>1. PICK k \in DOMAIN parsed.groups, l \in 1..i, h \in i..N :
           ClosesGroup(parsed.groups[k], l, h)
    BY <1>7
  <2>2. PICK x : x = parsed.groups[k]
    OBVIOUS
  <2>3. l \in 1..N /\ h \in l..N /\ h \in i..(N + 1)
    BY <1>3
  <2>4. ClosesGroup(x, l, h)'
    BY <1>11, <2>1, <2>2, <2>3
  <2>5. ClosesGroup(parsed.groups[k], l, h)'
    BY <1>17, <2>2, <2>4, SameGroup
  <2>6. QED
    BY <1>17, <2>3, <2>5
<1>15. CASE joiner = "AND"
  <2>1. parsed'.group = g /\ parsed'.groups = parsed.groups
    BY <1>0, <1>5, <1>9, <1>12, <1>15, Stepped
  <2>2. RunsFrom(lo, N + 2)'
    <3>1. /\ lo = 1 \/ clause'.joiners[lo - 1] = "OR"
          /\ \A k \in lo..((N + 1) - 1) : clause'.joiners[k] = "AND"
      BY <1>10 DEF RunsFrom
    <3>2. \A k \in lo..((N + 2) - 1) : clause'.joiners[k] = "AND"
      <4>1. TAKE k \in lo..((N + 2) - 1)
      <4>2. k \in lo..((N + 1) - 1) \/ k = N + 1
        BY <1>3
      <4>3. QED
        BY <1>3, <1>15, <3>1, <4>2
    <3>3. QED
      BY <3>1, <3>2 DEF RunsFrom
  <2>3. IsGroupOf(parsed.group, lo, N + 1)'
    BY <1>10, <2>1 DEF IsGroupOf
  <2>4. \A k \in DOMAIN parsed'.groups : \E l \in 1..(N + 1) : \E h \in l..(N + 1) :
           ClosesGroup(parsed.groups[k], l, h)'
    <3>1. TAKE k \in DOMAIN parsed'.groups
    <3>2. PICK l \in 1..N : \E h \in l..N : ClosesGroup(parsed.groups[k], l, h)'
      BY <1>14, <2>1
    <3>3. PICK h \in l..N : ClosesGroup(parsed.groups[k], l, h)'
      BY <3>2
    <3>4. l \in 1..(N + 1) /\ h \in l..(N + 1)
      BY <1>3
    <3>5. QED
      BY <3>3, <3>4
  <2>5. \A i \in 1..(lo - 1) : \E k \in DOMAIN parsed'.groups, l \in 1..i, h \in i..(N + 1) :
           ClosesGroup(parsed.groups[k], l, h)'
    BY <1>3, <1>17, <2>1
  <2>6. OpensGroup(lo)'
    <3>1. Len(clause'.conditions) = N + 1 /\ (N + 1) + 1 = N + 2
      BY <1>3
    <3>2. QED
      BY <2>2, <2>3, <2>5, <3>1, Zenon DEF OpensGroup
  <2>7. QED
    BY <1>3, <1>13, <2>4, <2>6 DEF GroupsFollow
<1>16. CASE joiner = "OR"
  <2>0. PICK m : m = Len(parsed.groups)
    OBVIOUS
  <2>1. /\ parsed'.group = NoGroup /\ parsed'.groups = Append(parsed.groups, g)
        /\ m \in Nat /\ DOMAIN parsed.groups = 1..m /\ DOMAIN parsed'.groups = 1..(m + 1)
        /\ \A k \in 1..m : parsed'.groups[k] = parsed.groups[k]
        /\ parsed'.groups[m + 1] = g
    <3>1. parsed'.group = NoGroup /\ parsed'.groups = Append(parsed.groups, g)
      BY <1>0, <1>5, <1>9, <1>12, <1>16, Stepped
    <3>2. QED
      BY <1>12, <2>0, <3>1
  <2>3. ClosesGroup(parsed.groups[m + 1], lo, N + 1)'
    <3>1. ClosesGroup(g, lo, N + 1)'
      BY <1>3, <1>10, <1>16 DEF ClosesGroup
    <3>2. QED
      BY <2>1, <3>1, SameGroup
  <2>4. \A k \in DOMAIN parsed'.groups : \E l \in 1..(N + 1) : \E h \in l..(N + 1) :
           ClosesGroup(parsed.groups[k], l, h)'
    <3>1. TAKE k \in DOMAIN parsed'.groups
    <3>2. CASE k \in 1..m
      <4>1. PICK l \in 1..N : \E h \in l..N : ClosesGroup(parsed.groups[k], l, h)'
        BY <1>14, <2>1, <3>2
      <4>2. PICK h \in l..N : ClosesGroup(parsed.groups[k], l, h)'
        BY <4>1
      <4>3. l \in 1..(N + 1) /\ h \in l..(N + 1)
        BY <1>3
      <4>4. QED
        BY <4>2, <4>3
    <3>3. CASE k = m + 1
      <4>1. ClosesGroup(parsed.groups[k], lo, N + 1)' /\ N + 1 \in lo..(N + 1)
        BY <1>3, <2>3, <3>3
      <4>2. QED
        BY <4>1
    <3>4. QED
      BY <2>1, <3>1, <3>2, <3>3
  <2>5. \A i \in 1..((N + 2) - 1) : \E k \in DOMAIN parsed'.groups, l \in 1..i, h \in i..(N + 1) :
           ClosesGroup(parsed.groups[k], l, h)'
    <3>1. TAKE i \in 1..((N + 2) - 1)
    <3>2. CASE i \in 1..(lo - 1)
      <4>1. \A k \in DOMAIN parsed.groups : k \in DOMAIN parsed'.groups
                                             /\ parsed'.groups[k] = parsed.groups[k]
        BY <2>1
      <4>2. QED
        BY <1>17, <3>2, <4>1
    <3>3. CASE i \notin 1..(lo - 1)
      <4>1. lo \in 1..i /\ N + 1 \in i..(N + 1) /\ m + 1 \in DOMAIN parsed'.groups
        BY <1>3, <2>1, <3>3
      <4>2. QED
        BY <2>3, <4>1
    <3>4. QED
      BY <3>2, <3>3
  <2>6. RunsFrom(N + 2, N + 2)'
    <3>1. (N + 2) - 1 = N + 1 /\ \A k : k \notin (N + 2)..((N + 2) - 1)
      BY <1>3
    <3>2. QED
      BY <1>3, <1>16, <3>1 DEF RunsFrom
  <2>7. IsGroupOf(parsed.group, N + 2, N + 1)'
    <3>1. \A f \in Field : NoGroup[f] = Untested
      BY DEF NoGroup
    <3>2. \A k : k \notin (N + 2)..(N + 1)
      BY <1>3
    <3>3. QED
      BY <2>1, <3>1, <3>2 DEF IsGroupOf
  <2>8. OpensGroup(N + 2)'
    <3>1. Len(clause'.conditions) = N + 1 /\ (N + 1) + 1 = N + 2
      BY <1>3
    <3>2. QED
      BY <2>5, <2>6, <2>7, <3>1, Zenon DEF OpensGroup
  <2>9. N + 2 \in 1..((N + 1) + 1)
    BY <1>3
  <2>10. QED
    BY <1>3, <1>13, <2>4, <2>8, <2>9 DEF GroupsFollow
<1>18. QED
  BY <1>15, <1>16

(* The inductive invariant: its start, a step, a stutter.                   *)
LEMMA FilterInductive ==
  /\ FilterInit => FilterInv
  /\ FilterInv /\ [FilterNext]_filter => FilterInv'
<1>1. ASSUME FilterInit  PROVE  FilterInv
  <2>1. /\ clause = [conditions |-> <<>>, joiners |-> <<>>] /\ parameters \in ParameterLists
        /\ parsed = [group |-> NoGroup, groups |-> <<>>, used |-> 0]
    BY <1>1 DEF FilterInit, FilterStart
  <2>2. FilterTypeOK
    <3>1. Len(parameters) \in Nat /\ MaxConditions \in Nat
      BY <2>1, FilterAssumption
    <3>2. NoGroup \in Groups
      BY NoGroupIsGroup
    <3>3. parsed \in [group : Groups, groups : Seq(Groups), used : Nat] /\ parsed.used <= Len(parameters)
      BY <2>1, <3>1, <3>2
    <3>4. /\ clause \in [conditions : Seq(Condition), joiners : Seq({"AND", "OR"})]
          /\ Len(clause.joiners) = Len(clause.conditions)
          /\ Len(clause.conditions) <= MaxConditions
      BY <2>1, <3>1
    <3>5. QED
      BY <2>1, <3>3, <3>4 DEF FilterTypeOK
  <2>3. PlaceholdersBefore(1) = {}
    BY DEF PlaceholdersBefore
  <2>4. UsedBefore(1) = 0 /\ IsFiniteSet(PlaceholdersBefore(1))
    BY <2>3, FS_EmptySet DEF UsedBefore
  <2>5. Len(clause.conditions) = 0 /\ parsed.groups = <<>> /\ parsed.used = 0 /\ parsed.group = NoGroup
    BY <2>1
  <2>6. OpensGroup(1)
    <3>1. IsGroupOf(NoGroup, 1, 0)
      BY DEF IsGroupOf, NoGroup
    <3>2. RunsFrom(1, 1)
      BY DEF RunsFrom
    <3>3. QED
      BY <2>5, <3>1, <3>2 DEF OpensGroup
  <2>7. GroupsFollow
    BY <2>4, <2>5, <2>6 DEF GroupsFollow
  <2>8. QED
    BY <2>2, <2>4, <2>5, <2>7 DEF FilterInv
<1>2. ASSUME FilterInv, NEW c \in Condition, NEW joiner \in {"AND", "OR"}, ReadCondition(c, joiner)
      PROVE  FilterInv'
  <2>1. FilterTypeOK'
    BY <1>2, TypeInductive DEF FilterInv
  <2>2. GroupsFollow'
    <3>1. CASE Supported'
      BY <1>2, <3>1, GroupsInductive
    <3>2. CASE ~ Supported'
      BY <3>2 DEF GroupsFollow
    <3>3. QED
      BY <3>1, <3>2
  <2>3. IsFiniteSet(PlaceholdersBefore(Len(clause.conditions) + 1))'
    <3>1. PICK n : n = Len(clause.conditions)
      OBVIOUS
    <3>2. Len(clause'.conditions) + 1 = n + 2
      <4>1. n \in Nat /\ Len(clause'.conditions) = n + 1
        BY <1>2, <3>1, ClauseGrows DEF FilterInv
      <4>2. QED
        BY <4>1
    <3>3. IsFiniteSet(PlaceholdersBefore(n + 2))'
      BY <1>2, <3>1, ParametersGrow
    <3>4. QED
      BY <3>2, <3>3, Zenon DEF PlaceholdersBefore
  <2>4. QED
    BY <2>1, <2>2, <2>3 DEF FilterInv
<1>3. ASSUME FilterInv, UNCHANGED filter  PROVE  FilterInv'
  <2>1. clause' = clause /\ parameters' = parameters /\ parsed' = parsed
    BY <1>3 DEF filter
  <2>2. FilterTypeOK'
    BY <1>3, <2>1 DEF FilterInv, FilterTypeOK
  <2>3. IsFiniteSet(PlaceholdersBefore(Len(clause.conditions) + 1))'
    BY <1>3, <2>1, Zenon DEF FilterInv, PlaceholdersBefore
  <2>4. GroupsFollow'
    <3>1. GroupsFollow
      BY <1>3 DEF FilterInv
    <3>2. \A i : UsedBefore(i)' = UsedBefore(i)
      BY <2>1, Zenon DEF UsedBefore, PlaceholdersBefore
    <3>3. Supported' = Supported
      <4>1. \A i, j : Conjoined(i, j)' = Conjoined(i, j)
        BY <2>1, Zenon DEF Conjoined
      <4>2. UsedBefore(Len(clause.conditions) + 1)' = UsedBefore(Len(clause.conditions) + 1)
        BY <2>1, Zenon DEF UsedBefore, PlaceholdersBefore
      <4>3. QED
        BY <2>1, <4>1, <4>2, Zenon DEF Supported
    <3>4. \A i : ParsedCondition(clause.conditions[i], UsedBefore(i))'
                   = ParsedCondition(clause.conditions[i], UsedBefore(i))
      BY <2>1, <3>2, Zenon DEF ParsedCondition, Operand
    <3>5. \A g, lo, hi : IsGroupOf(g, lo, hi)' = IsGroupOf(g, lo, hi)
      BY <2>1, <3>4, Zenon DEF IsGroupOf
    <3>6. \A g, lo, hi : ClosesGroup(g, lo, hi)' = ClosesGroup(g, lo, hi)
      BY <2>1, <3>5, Zenon DEF ClosesGroup, RunsFrom
    <3>7. \A k, l, h : ClosesGroup(parsed.groups[k], l, h)' = ClosesGroup(parsed.groups[k], l, h)
      <4>1. TAKE k, l, h
      <4>2. PICK g : g = parsed.groups[k]
        OBVIOUS
      <4>3. ClosesGroup(g, l, h)' = ClosesGroup(parsed.groups[k], l, h)
        BY <3>6, <4>2
      <4>4. ClosesGroup(parsed.groups[k], l, h)' = ClosesGroup(g, l, h)'
        BY <2>1, <4>2, Zenon DEF ClosesGroup, IsGroupOf
      <4>5. QED
        BY <4>3, <4>4
    <3>8. PICK n : n = Len(clause.conditions) /\ n = Len(clause'.conditions)
      BY <2>1
    <3>9. ASSUME NEW lo, OpensGroup(lo)  PROVE  OpensGroup(lo)'
      <4>1. /\ RunsFrom(lo, n + 1) /\ IsGroupOf(parsed.group, lo, n)
            /\ \A i \in 1..(lo - 1) : \E g \in DOMAIN parsed.groups, l \in 1..i, h \in i..n :
                 ClosesGroup(parsed.groups[g], l, h)
        BY <3>8, <3>9 DEF OpensGroup
      <4>2. IsGroupOf(parsed.group, lo, n)'
        BY <2>1, <3>4, <4>1, Zenon DEF IsGroupOf
      <4>3. RunsFrom(lo, n + 1)'
        BY <2>1, <4>1, Zenon DEF RunsFrom
      <4>4. \A i \in 1..(lo - 1) : \E g \in DOMAIN parsed'.groups, l \in 1..i, h \in i..n :
               ClosesGroup(parsed.groups[g], l, h)'
        <5>1. TAKE i \in 1..(lo - 1)
        <5>2. PICK g \in DOMAIN parsed.groups, l \in 1..i, h \in i..n :
                 ClosesGroup(parsed.groups[g], l, h)
          BY <4>1
        <5>3. ClosesGroup(parsed.groups[g], l, h)' /\ g \in DOMAIN parsed'.groups
          BY <2>1, <3>7, <5>2
        <5>4. QED
          BY <5>3
      <4>5. QED
        BY <3>8, <4>2, <4>3, <4>4, Zenon DEF OpensGroup
    <3>10. UsedBefore(n + 1)' = UsedBefore(n + 1)
      BY <3>2
    <3>11. ASSUME Supported  PROVE  /\ parsed'.used = UsedBefore(n + 1)'
                                    /\ \E lo \in 1..(n + 1) : OpensGroup(lo)'
                                    /\ \A g \in DOMAIN parsed'.groups : \E l \in 1..n : \E h \in l..n :
                                          ClosesGroup(parsed.groups[g], l, h)'
      <4>1. /\ parsed.used = UsedBefore(n + 1) /\ \E lo \in 1..(n + 1) : OpensGroup(lo)
            /\ \A g \in DOMAIN parsed.groups : \E l \in 1..n : \E h \in l..n :
                  ClosesGroup(parsed.groups[g], l, h)
        BY <3>1, <3>8, <3>11 DEF GroupsFollow
      <4>2. \A g \in DOMAIN parsed'.groups : \E l \in 1..n : \E h \in l..n :
               ClosesGroup(parsed.groups[g], l, h)'
        BY <2>1, <3>7, <4>1
      <4>3. QED
        BY <2>1, <3>9, <3>10, <4>1, <4>2
    <3>12. QED
      BY <3>3, <3>8, <3>11, Zenon DEF GroupsFollow
  <2>5. QED
    BY <2>2, <2>3, <2>4 DEF FilterInv
<1>4. QED
  BY <1>1, <1>2, <1>3 DEF FilterNext

(* Hence it holds after any clause.                                         *)
LEMMA FilterInvariant == FilterSpec => []FilterInv
BY FilterInductive, PTL DEF FilterSpec

(* The translation keeps its types: a group holds, for each field, nothing  *)
(* or a condition with its operands bound (parse_sql_where).                *)
THEOREM FilterTypeCorrect == FilterSpec => []FilterTypeOK
<1>1. FilterInv => FilterTypeOK
  BY DEF FilterInv
<1>2. QED
  BY <1>1, FilterInvariant, PTL

(* In a supported clause every condition has its parameters.                *)
LEMMA EnoughParameters ==
  ASSUME FilterInv, Supported, NEW n, n = Len(clause.conditions), NEW j \in 1..n
  PROVE  /\ UsedBefore(j) \in Nat /\ clause.conditions[j] \in Condition
         /\ UsedBefore(j) + ParameterCount(clause.conditions[j]) <= Len(parameters)
<1> DEFINE c == clause.conditions[j]
           before == PlaceholdersBefore(j)
           own == {j} \X Placeholders(c)
<1>1. n \in Nat /\ c \in Condition /\ DOMAIN clause.conditions = 1..n
  BY DEF FilterInv, FilterTypeOK
<1>2. before \cup own \subseteq PlaceholdersBefore(n + 1)
  <2>1. \A x \in before : \E k \in 1..(j - 1) : x \in {k} \X Placeholders(clause.conditions[k])
    BY DEF PlaceholdersBefore
  <2>2. \A k : k \in 1..(j - 1) \/ k = j => k \in 1..((n + 1) - 1)
    BY <1>1
  <2>3. \A k \in 1..((n + 1) - 1) : {k} \X Placeholders(clause.conditions[k]) \subseteq PlaceholdersBefore(n + 1)
    BY DEF PlaceholdersBefore
  <2> HIDE DEF before
  <2>4. QED
    BY <2>1, <2>2, <2>3
<1>3. IsFiniteSet(PlaceholdersBefore(n + 1))
  BY DEF FilterInv
<1>4. \A p \in before : p[1] # j
  <2>1. \A p \in before : \E k \in 1..(j - 1) : p[1] = k
    BY DEF PlaceholdersBefore
  <2>2. QED
    BY <1>1, <2>1
<1> HIDE DEF before, c
<1>5. IsFiniteSet(before)
  BY <1>2, <1>3, FS_Subset
<1>6. Cardinality(before \cup own) = Cardinality(before) + ParameterCount(c)
  <2>1. j \in Nat
    BY <1>1
  <2>2. QED
    BY <1>1, <1>4, <1>5, <2>1, OwnPlaceholders, Zenon
<1>7. Cardinality(before \cup own) <= Cardinality(PlaceholdersBefore(n + 1))
  BY <1>2, <1>3, FS_Subset
<1>8. Cardinality(PlaceholdersBefore(n + 1)) <= Len(parameters)
  BY DEF Supported, UsedBefore
<1>9. Cardinality(before) \in Nat /\ Cardinality(before \cup own) \in Nat
      /\ Cardinality(PlaceholdersBefore(n + 1)) \in Nat /\ Len(parameters) \in Nat
  <2>1. IsFiniteSet(before \cup own)
    BY <1>2, <1>3, FS_Subset
  <2>2. Len(parameters) \in Nat
    BY FilterAssumption DEF FilterInv, FilterTypeOK
  <2>3. QED
    BY <1>3, <1>5, <2>1, <2>2, FS_CardinalityType
<1>10. Cardinality(before) + ParameterCount(c) <= Len(parameters)
  BY <1>6, <1>7, <1>8, <1>9
<1>11. QED
  <2>1. UsedBefore(j) = Cardinality(before)
    BY DEF UsedBefore, before
  <2>2. QED
    BY <1>1, <1>9, <1>10, <2>1 DEF c

(* A condition means for MongoDB what it means for SQL.                     *)
LEMMA ConditionMeansIt ==
  ASSUME FilterInv, Supported, NEW n, n = Len(clause.conditions), NEW j \in 1..n,
         NEW doc \in Documents, Fits(doc)
  PROVE  MongoMatches(ParsedCondition(clause.conditions[j], UsedBefore(j)),
                      doc[clause.conditions[j].field])
             <=> Holding(j, doc)
<1>1. PICK c : c = clause.conditions[j]
  OBVIOUS
<1>2. PICK used : used = UsedBefore(j)
  OBVIOUS
<1>3. PICK v : v = doc[c.field]
  OBVIOUS
<1>4. PICK cond : cond = ParsedCondition(c, used)
  OBVIOUS
<1> DEFINE bound == {Operand(c, k, used) : k \in DOMAIN c.operands}
<1>5. /\ c \in Condition /\ used \in Nat /\ used + ParameterCount(c) <= Len(parameters)
      /\ c.op # "unread"
  <2>1. DOMAIN clause.conditions = 1..n
    BY DEF FilterInv, FilterTypeOK
  <2>2. QED
    BY <1>1, <1>2, <2>1, EnoughParameters DEF Supported
<1>6. \A k \in DOMAIN c.operands : Operand(c, k, used) # NoValue
  <2>1. \A k \in DOMAIN c.operands : Operand(c, k, used) \in Value
    BY <1>5, OperandIsValue DEF FilterInv
  <2>2. QED
    BY <2>1, FilterAssumption
<1>7. /\ cond.op = c.op /\ DOMAIN cond.values = DOMAIN c.operands
      /\ \A k \in DOMAIN c.operands : cond.values[k] = Operand(c, k, used)
  <2> HIDE DEF Operand
  <2>1. QED
    BY <1>4 DEF ParsedCondition
<1>8. c.op \in Comparisons \cup {"in", "isNull", "isNotNull"}
  BY <1>5, ConditionOperands
<1>9. CASE c.op \in {"isNull", "isNotNull"}
  <2>1. MongoMatches(cond, v) <=> IF c.op = "isNull" THEN v = NoValue ELSE v # NoValue
    BY <1>7, <1>9 DEF MongoMatches
  <2>2. Holding(j, doc) <=> IF c.op = "isNull" THEN v = NoValue ELSE v # NoValue
    BY <1>1, <1>3, <1>9 DEF Holding
  <2>3. QED
    BY <1>1, <1>2, <1>3, <1>4, <2>1, <2>2
<1>10. CASE c.op = "in"
  <2>1. MongoMatches(cond, v) <=> \E k \in DOMAIN c.operands : v = Operand(c, k, used)
    BY <1>7, <1>10 DEF MongoMatches
  <2>2. Holding(j, doc) <=> v # NoValue /\ v \in bound
    BY <1>1, <1>2, <1>3, <1>10 DEF Holding
  <2>3. v \in bound <=> \E k \in DOMAIN c.operands : v = Operand(c, k, used)
    OBVIOUS
  <2>4. QED
    BY <1>1, <1>2, <1>3, <1>4, <1>6, <2>1, <2>2, <2>3
<1>11. CASE c.op \in Comparisons
  <2>1. PICK o : o = Operand(c, 1, used)
    OBVIOUS
  <2>2. DOMAIN c.operands = {1}
    <3>1. c.operands = <<c.operands[1]>>
      BY <1>5, <1>11, ConditionOperands
    <3>2. DOMAIN <<c.operands[1]>> = {1}
      OBVIOUS
    <3>3. QED
      BY <3>1, <3>2
  <2>3. bound = {o} /\ cond.values[1] = o
    BY <1>7, <2>1, <2>2
  <2>4. Holding(j, doc) <=> v # NoValue /\ Compare(c.op, v, o)
    <3>1. Holding(j, doc) <=> v # NoValue /\ \A b \in bound : Compare(c.op, v, b)
      <4> HIDE DEF Operand, Compare
      <4>1. c.op \notin {"isNull", "isNotNull", "in"}
        BY <1>11 DEF Comparisons
      <4>2. QED
        BY <1>1, <1>2, <1>3, <4>1 DEF Holding
    <3>2. QED
      BY <2>3, <3>1
  <2>5. CASE c.op = "ne"
    <3>1. MongoMatches(cond, v) <=> v # o
      BY <1>7, <2>3, <2>5 DEF MongoMatches
    <3>2. Compare(c.op, v, o) <=> v # o
      BY <2>5 DEF Compare
    <3>3. v # NoValue
      <4>1. DOMAIN clause.conditions = 1..n
        BY DEF FilterInv, FilterTypeOK
      <4>2. QED
        BY <1>1, <1>3, <2>5, <4>1 DEF Fits
    <3>4. QED
      BY <1>1, <1>2, <1>3, <1>4, <2>4, <3>1, <3>2, <3>3
  <2>6. CASE c.op # "ne"
    <3>1. c.op \notin {"untested", "isNull", "isNotNull", "in", "ne"}
      BY <1>11, <2>6 DEF Comparisons
    <3>2. MongoMatches(cond, v) <=> v # NoValue /\ Compare(c.op, v, o)
      BY <1>7, <2>3, <3>1 DEF MongoMatches
    <3>3. QED
      BY <1>1, <1>2, <1>3, <1>4, <2>4, <3>2
  <2>7. QED
    BY <2>5, <2>6
<1>12. QED
  BY <1>8, <1>9, <1>10, <1>11

(* A run that OR, or the end of the clause, closes is a conjunction.        *)
LEMMA RunIsConjunction ==
  ASSUME FilterTypeOK, NEW n, n = Len(clause.conditions), NEW l \in 1..n, NEW h \in l..n,
         RunsFrom(l, h), h = n \/ clause.joiners[h] = "OR", NEW i \in l..h, NEW j \in 1..n
  PROVE  Conjoined(i, j) <=> j \in l..h
<1>1. n \in Nat /\ DOMAIN clause.joiners = 1..n
  BY DEF FilterTypeOK
<1>2. ASSUME j \in l..h  PROVE  Conjoined(i, j)
  <2>1. \A k \in 1..n : (i <= k /\ k < j) \/ (j <= k /\ k < i) => k \in l..(h - 1)
    BY <1>1, <1>2
  <2>2. QED
    BY <1>1, <2>1 DEF Conjoined, RunsFrom
<1>3. ASSUME Conjoined(i, j), j < l  PROVE  FALSE
  <2>1. l - 1 \in 1..n /\ j <= l - 1 /\ l - 1 < i /\ l # 1
    BY <1>1, <1>3
  <2>2. clause.joiners[l - 1] = "OR" /\ clause.joiners[l - 1] = "AND"
    BY <1>1, <1>3, <2>1 DEF Conjoined, RunsFrom
  <2>3. QED
    BY <2>2
<1>4. ASSUME Conjoined(i, j), j > h  PROVE  FALSE
  <2>1. h \in 1..n /\ i <= h /\ h < j /\ h # n
    BY <1>1, <1>4
  <2>2. clause.joiners[h] = "OR" /\ clause.joiners[h] = "AND"
    BY <1>1, <1>4, <2>1 DEF Conjoined
  <2>3. QED
    BY <2>2
<1>5. QED
  BY <1>1, <1>2, <1>3, <1>4

(* A document matches a group when each condition of its conjunction holds. *)
LEMMA GroupMeansIt ==
  ASSUME FilterInv, Supported, NEW doc \in Documents, Fits(doc),
         NEW n, n = Len(clause.conditions), NEW l \in 1..(n + 1), NEW h \in 0..n,
         NEW g, IsGroupOf(g, l, h)
  PROVE  MatchesAll(g, doc) <=> \A i \in l..h : Holding(i, doc)
<1>1. n \in Nat
  BY DEF FilterInv, FilterTypeOK
<1>2. \A i \in l..h : i \in 1..n
  BY <1>1
<1>3. ASSUME NEW i \in l..h
      PROVE  /\ clause.conditions[i].field \in Field
             /\ MongoMatches(g[clause.conditions[i].field], doc[clause.conditions[i].field])
                   <=> Holding(i, doc)
  <2>1. g[clause.conditions[i].field] = ParsedCondition(clause.conditions[i], UsedBefore(i))
    BY DEF IsGroupOf
  <2>2. clause.conditions[i] \in Condition
    BY <1>2, EnoughParameters
  <2>3. QED
    BY <1>2, <2>1, <2>2, ConditionMeansIt, ConditionOperands
<1>4. \A v : MongoMatches(Untested, v)
  BY DEF MongoMatches, Untested
<1>5. ASSUME \A i \in l..h : Holding(i, doc)  PROVE  MatchesAll(g, doc)
  <2>1. SUFFICES ASSUME NEW f \in Field  PROVE  MongoMatches(g[f], doc[f])
    BY DEF MatchesAll
  <2>2. CASE f \in {clause.conditions[i].field : i \in l..h}
    BY <1>3, <1>5, <2>2
  <2>3. CASE f \notin {clause.conditions[i].field : i \in l..h}
    <3>1. g[f] = Untested
      BY <2>3 DEF IsGroupOf
    <3>2. QED
      BY <1>4, <3>1
  <2>4. QED
    BY <2>2, <2>3
<1>6. ASSUME MatchesAll(g, doc)  PROVE  \A i \in l..h : Holding(i, doc)
  BY <1>3, <1>6 DEF MatchesAll
<1>7. QED
  BY <1>5, <1>6

(* A clause selects the same documents translated and as SQL means it.      *)
LEMMA SelectsMeansIt ==
  ASSUME FilterInv, MayEnd, Supported, NEW doc \in Documents, Fits(doc)
  PROVE  Selects(doc) <=> SqlSelects(doc)
<1>1. PICK n : n = Len(clause.conditions)
  OBVIOUS
<1>2. /\ n \in Nat /\ DOMAIN clause.conditions = 1..n
      /\ Len(clause.joiners) = n /\ DOMAIN clause.joiners = 1..n
      /\ clause.conditions = <<>> <=> n = 0
  BY <1>1 DEF FilterInv, FilterTypeOK
<1>3. n # 0 => clause.joiners[n] = "AND"
  BY <1>2 DEF MayEnd, Last
<1>4. PICK m : m = Len(parsed.groups)
  OBVIOUS
<1>5. /\ m \in Nat /\ DOMAIN parsed.groups = 1..m /\ DOMAIN ParseSqlWhere.any = 1..(m + 1)
      /\ \A k \in 1..m : ParseSqlWhere.any[k] = parsed.groups[k]
      /\ ParseSqlWhere.any[m + 1] = parsed.group
  <2>1. parsed.groups \in Seq(Groups)
    BY DEF FilterInv, FilterTypeOK
  <2>2. QED
    BY <1>4, <2>1 DEF ParseSqlWhere
<1>6. PICK lo \in 1..(n + 1) : OpensGroup(lo)
  BY <1>1 DEF FilterInv, GroupsFollow
<1>7. /\ RunsFrom(lo, n + 1) /\ IsGroupOf(parsed.group, lo, n)
      /\ \A i \in 1..(lo - 1) : \E k \in DOMAIN parsed.groups, l \in 1..i, h \in i..n :
           ClosesGroup(parsed.groups[k], l, h)
  BY <1>1, <1>6 DEF OpensGroup
<1>8. \A k \in DOMAIN parsed.groups : \E l \in 1..n : \E h \in l..n :
         ClosesGroup(parsed.groups[k], l, h)
  BY <1>1 DEF FilterInv, GroupsFollow
<1>9. CASE n = 0
  <2>1. SqlSelects(doc)
    BY <1>2, <1>9 DEF SqlSelects
  <2>2. MatchesAll(parsed.group, doc)
    <3>1. \A i : i \notin lo..n
      BY <1>9
    <3>2. n \in 0..n
      BY <1>2
    <3>3. QED
      BY <1>1, <1>7, <3>1, <3>2, GroupMeansIt
  <2>3. Selects(doc)
    BY <1>2, <1>5, <2>2 DEF Selects
  <2>4. QED
    BY <2>1, <2>3
<1>10. CASE n # 0
  <2>1. lo \in 1..n /\ n \in lo..n /\ RunsFrom(lo, n)
    <3>1. lo # n + 1
      BY <1>2, <1>3, <1>7, <1>10 DEF RunsFrom
    <3>2. QED
      BY <1>2, <1>7, <3>1 DEF RunsFrom
  <2>2. ASSUME NEW l \in 1..n, NEW h \in l..n, NEW i \in l..h, RunsFrom(l, h),
               h = n \/ clause.joiners[h] = "OR", NEW g, IsGroupOf(g, l, h)
        PROVE  MatchesAll(g, doc) <=> \A j \in 1..n : Conjoined(i, j) => Holding(j, doc)
    <3>1. \A j \in 1..n : Conjoined(i, j) <=> j \in l..h
      BY <1>1, <2>2, RunIsConjunction DEF FilterInv
    <3>2. l \in 1..(n + 1) /\ h \in 0..n /\ \A j \in l..h : j \in 1..n
      BY <1>2
    <3>3. MatchesAll(g, doc) <=> \A j \in l..h : Holding(j, doc)
      BY <1>1, <2>2, <3>2, GroupMeansIt
    <3>4. QED
      BY <3>1, <3>2, <3>3
  <2>3. ASSUME Selects(doc)  PROVE  SqlSelects(doc)
    <3>1. PICK k \in 1..(m + 1) : MatchesAll(ParseSqlWhere.any[k], doc)
      BY <1>5, <2>3 DEF Selects
    <3>2. CASE k = m + 1
      <4>1. MatchesAll(parsed.group, doc) /\ lo \in lo..n
        BY <1>5, <2>1, <3>1, <3>2
      <4>2. \A j \in 1..n : Conjoined(lo, j) => Holding(j, doc)
        BY <1>7, <2>1, <2>2, <4>1
      <4>3. QED
        BY <1>2, <2>1, <4>2 DEF SqlSelects
    <3>3. CASE k # m + 1
      <4>1. k \in 1..m
        BY <1>5, <3>3
      <4>2. PICK l \in 1..n : \E h \in l..n : ClosesGroup(parsed.groups[k], l, h)
        BY <1>5, <1>8, <4>1
      <4>3. PICK h \in l..n : ClosesGroup(parsed.groups[k], l, h)
        BY <4>2
      <4>4. RunsFrom(l, h) /\ clause.joiners[h] = "OR" /\ IsGroupOf(parsed.groups[k], l, h)
        BY <4>3 DEF ClosesGroup
      <4>5. l \in l..h /\ MatchesAll(parsed.groups[k], doc)
        BY <1>2, <1>5, <3>1, <4>1
      <4>6. \A j \in 1..n : Conjoined(l, j) => Holding(j, doc)
        BY <2>2, <4>4, <4>5
      <4>7. QED
        BY <1>2, <4>6 DEF SqlSelects
    <3>4. QED
      BY <3>2, <3>3
  <2>4. ASSUME SqlSelects(doc)  PROVE  Selects(doc)
    <3>1. PICK i \in 1..n : \A j \in 1..n : Conjoined(i, j) => Holding(j, doc)
      BY <1>2, <1>10, <2>4 DEF SqlSelects
    <3>2. CASE i \in lo..n
      <4>1. MatchesAll(parsed.group, doc)
        BY <1>7, <2>1, <2>2, <3>1, <3>2
      <4>2. QED
        BY <1>5, <4>1 DEF Selects
    <3>3. CASE i \notin lo..n
      <4>1. i \in 1..(lo - 1)
        BY <1>2, <3>3
      <4>2. PICK k \in DOMAIN parsed.groups, l \in 1..i, h \in i..n :
               ClosesGroup(parsed.groups[k], l, h)
        BY <1>7, <4>1
      <4>3. RunsFrom(l, h) /\ clause.joiners[h] = "OR" /\ IsGroupOf(parsed.groups[k], l, h)
        BY <4>2 DEF ClosesGroup
      <4>4. l \in 1..n /\ h \in l..n /\ i \in l..h
        BY <1>2
      <4>5. MatchesAll(parsed.groups[k], doc)
        BY <2>2, <3>1, <4>3, <4>4
      <4>6. k \in 1..(m + 1) /\ ParseSqlWhere.any[k] = parsed.groups[k]
        BY <1>5, <4>2
      <4>7. QED
        BY <1>5, <4>5, <4>6 DEF Selects
    <3>4. QED
      BY <3>2, <3>3
  <2>5. QED
    BY <2>3, <2>4
<1>11. QED
  BY <1>9, <1>10

(* The cursor's statements, when the clause means what SQL means by it.     *)
LEMMA CursorsFollow ==
  ASSUME NEW docs \in Seq(Documents), \A i \in DOMAIN docs : Selects(docs[i]) <=> SqlSelects(docs[i])
  PROVE  CursorsMeanIt(docs)
<1> DEFINE meant == {i \in DOMAIN docs : SqlSelects(docs[i])}
           first == FirstMatch(docs)
<1>1. DOMAIN docs = 1..Len(docs) /\ Len(docs) \in Nat
  OBVIOUS
<1>2. ExecuteSelect(docs) = meant
  BY DEF ExecuteSelect
<1>3. meant = {} => first = {}
  BY DEF FirstMatch
<1>4. meant # {} => \E x \in meant : first = {x}
  <2>1. HAVE meant # {}
  <2>2. meant \in SUBSET Nat
    BY <1>1
  <2> HIDE DEF meant
  <2>3. PICK x \in meant : \A y \in meant : x <= y
    BY <2>1, <2>2, FirstPlace
  <2>4. x \in DOMAIN docs /\ Selects(docs[x]) /\ \A j \in 1..(x - 1) : ~ Selects(docs[j])
    <3>1. x \in DOMAIN docs /\ Selects(docs[x])
      BY DEF meant
    <3>2. ASSUME NEW j \in 1..(x - 1), Selects(docs[j])  PROVE  FALSE
      <4>1. j \in DOMAIN docs /\ ~ (x <= j)
        BY <1>1, <3>1
      <4>2. j \in meant
        BY <3>2, <4>1 DEF meant
      <4>3. QED
        BY <2>3, <4>1, <4>2
    <3>3. QED
      BY <3>1, <3>2
  <2>5. ASSUME NEW y \in first  PROVE  y = x
    <3>1. y \in DOMAIN docs /\ Selects(docs[y]) /\ \A j \in 1..(y - 1) : ~ Selects(docs[j])
      BY DEF FirstMatch
    <3>2. y \in meant
      BY <3>1 DEF meant
    <3>3. x <= y /\ ~ (x \in 1..(y - 1))
      BY <2>3, <2>4, <3>1, <3>2
    <3>4. QED
      BY <1>1, <2>4, <3>1, <3>3
  <2>6. x \in first
    BY <2>4 DEF FirstMatch
  <2>7. first = {x}
    BY <2>5, <2>6
  <2>8. QED
    BY <2>7
<1> HIDE DEF meant, first
<1>5. meant = {} => ExecuteDelete(docs) = docs
  BY <1>3 DEF ExecuteDelete, first
<1>6. meant # {} => \E i \in meant : ExecuteDelete(docs) = RemoveAt(docs, i)
  <2>1. HAVE meant # {}
  <2>2. PICK x \in meant : first = {x}
    BY <1>4, <2>1
  <2>3. (CHOOSE i \in first : TRUE) = x /\ first # {}
    BY <2>2
  <2>4. ExecuteDelete(docs) = RemoveAt(docs, x)
    BY <2>3 DEF ExecuteDelete, first
  <2>5. QED
    BY <2>4
<1>7. ASSUME NEW f \in Field, NEW v \in Literal
      PROVE  LET updated == ExecuteUpdate(docs, f, [literal |-> v]) IN
             /\ meant = {} => updated = docs
             /\ meant # {} => \E i \in meant : updated = [docs EXCEPT ![i] = [@ EXCEPT ![f] = v]]
  <2>1. ~ IsParameter([literal |-> v]) /\ [literal |-> v].literal = v
    BY DEF IsParameter
  <2>2. ExecuteUpdate(docs, f, [literal |-> v])
          = [i \in DOMAIN docs |-> IF i \in first THEN [docs[i] EXCEPT ![f] = v] ELSE docs[i]]
    BY <2>1 DEF ExecuteUpdate, first
  <2>3. meant = {} => ExecuteUpdate(docs, f, [literal |-> v]) = docs
    BY <1>3, <2>2
  <2>4. meant # {} => \E i \in meant : ExecuteUpdate(docs, f, [literal |-> v])
                                          = [docs EXCEPT ![i] = [@ EXCEPT ![f] = v]]
    <3>1. HAVE meant # {}
    <3>2. PICK x \in meant : first = {x}
      BY <1>4, <3>1
    <3>3. x \in DOMAIN docs
      BY DEF meant
    <3>4. ExecuteUpdate(docs, f, [literal |-> v]) = [docs EXCEPT ![x] = [@ EXCEPT ![f] = v]]
      BY <2>2, <3>2, <3>3
    <3>5. QED
      BY <3>4
  <2>5. QED
    BY <2>3, <2>4
<1>8. QED
  BY <1>2, <1>5, <1>6, <1>7 DEF CursorsMeanIt, meant

(* A supported WHERE clause, however long and over any collection, means    *)
(* for MongoDB what SQL means by it, and so do the cursor's SELECT, UPDATE   *)
(* and DELETE (parse_sql_where and MongoProxyCursor).                       *)
THEOREM ClauseKeepsItsMeaning == FilterSpec => []FilterMeansClause
<1>1. ASSUME FilterInv, MayEnd, Supported
      PROVE  /\ \A doc \in Documents : Fits(doc) => (Selects(doc) <=> SqlSelects(doc))
             /\ \A docs \in Collections :
                  (\A i \in DOMAIN docs : Fits(docs[i])) => CursorsMeanIt(docs)
  <2>1. \A doc \in Documents : Fits(doc) => (Selects(doc) <=> SqlSelects(doc))
    BY <1>1, SelectsMeansIt
  <2>2. ASSUME NEW docs \in Collections, \A i \in DOMAIN docs : Fits(docs[i])
        PROVE  CursorsMeanIt(docs)
    <3>1. docs \in Seq(Documents)
      BY FilterAssumption
    <3>2. \A i \in DOMAIN docs : docs[i] \in Documents
      BY <3>1
    <3>3. QED
      BY <2>1, <2>2, <3>1, <3>2, CursorsFollow
  <2>3. QED
    BY <2>1, <2>2
<1>2. FilterInv => FilterMeansClause
  BY <1>1 DEF FilterMeansClause
<1>3. QED
  BY <1>2, FilterInvariant, PTL

(******************************** Scalars **********************************)

(* None has a field no other value has.                                     *)
LEMMA Fields ==
  ASSUME NEW t \in ScalarTypes, NEW v \in ScalarsOf(t)
  PROVE  DOMAIN v = {t}
<1>1. CASE t = "str"
  BY <1>1 DEF ScalarsOf, Plain
<1>2. CASE t # "str"
  BY <1>2 DEF ScalarsOf, ScalarTypes
<1>3. QED
  BY <1>1, <1>2

LEMMA Present ==
  ASSUME NEW t \in ScalarTypes, NEW v \in ScalarsOf(t)
  PROVE  ~ Absent(v)
<1>1. CASE t = "str"
  <2>1. PICK s \in STRING \ {"null", "NULL"} : v = Plain(s)
    BY <1>1 DEF ScalarsOf
  <2>2. v.str.plain = s /\ "str" \in DOMAIN v
    BY <2>1 DEF Plain
  <2>3. Plain("null").str.plain = "null" /\ Plain("NULL").str.plain = "NULL"
    BY DEF Plain
  <2>4. DOMAIN None = {"none"}
    BY DEF None
  <2>5. QED
    BY <2>1, <2>2, <2>3, <2>4 DEF Absent
<1>2. CASE t # "str"
  <2>1. DOMAIN v = {t}
    BY Fields
  <2>2. DOMAIN None = {"none"} /\ DOMAIN Plain("null") = {"str"} /\ DOMAIN Plain("NULL") = {"str"}
    BY DEF None, Plain
  <2>3. "none" \notin ScalarTypes
    BY DEF ScalarTypes
  <2>4. QED
    BY <1>2, <2>1, <2>2, <2>3 DEF Absent
<1>3. QED
  BY <1>1, <1>2

\* what is handed to ToScalar
LEMMA Written ==
  ASSUME NEW t \in ScalarTypes, NEW v \in ScalarsOf(t), NEW store
  PROVE  WriteScalar(store, v, t) = IF store = "bson" THEN BsonScalar(v)
                                    ELSE IF store = "json" THEN JsonScalar(v)
                                    ELSE SqlScalar(store, v, t)
BY Present DEF WriteScalar

LEMMA TypeOfScalar ==
  ASSUME NEW t \in ScalarTypes, NEW v \in ScalarsOf(t)
  PROVE  \A u : OfType(v, u) <=> u = t
BY Fields DEF OfType

(* Only None and a plain text are absent.                                   *)
LEMMA AbsentOnly ==
  ASSUME NEW w, Absent(w)
  PROVE  OfType(w, "none") \/ (OfType(w, "str") /\ OfType(w.str, "plain"))
BY DEF Absent, None, Plain, OfType

LEMMA Texts ==
  ASSUME NEW w
  PROVE  /\ \A u : OfType(Text(w), u) <=> u = "str"
         /\ \A u : OfType(Text(w).str, u) <=> u = "text"
         /\ Text(w).str.text = w
         /\ ~ Absent(Text(w))
<1>1. /\ \A u : OfType(Text(w), u) <=> u = "str"
      /\ \A u : OfType(Text(w).str, u) <=> u = "text"
      /\ Text(w).str.text = w
  BY DEF Text, OfType
<1>2. ~ Absent(Text(w))
  BY <1>1, AbsentOnly
<1>3. QED
  BY <1>1, <1>2

(* A text other than a date's comes back as it is.                          *)
LEMMA TextsReturn ==
  ASSUME NEW store, NEW w, ~ OfType(w, "date") \/ store \in {"sqlite", "bson", "json"}
  PROVE  ReturnedScalar(store, Text(w)) = Text(w)
BY Texts DEF ReturnedScalar

LEMMA IntsReturn ==
  ASSUME NEW store, NEW n
  PROVE  /\ ReturnedScalar(store, [int |-> n]) = [int |-> n]
         /\ ~ Absent([int |-> n])
<1>1. \A u : OfType([int |-> n], u) <=> u = "int"
  BY DEF OfType
<1>2. ~ Absent([int |-> n])
  BY <1>1, AbsentOnly
<1>3. QED
  BY <1>1, <1>2 DEF ReturnedScalar

(* A value that is bound as it is, and read as it is.                       *)
LEMMA PlainSurvives ==
  ASSUME NEW store \in Store, NEW t \in {"int", "str", "bytes"}, NEW v \in ScalarsOf(t)
  PROVE  ReadBackScalar(store, v, t) = v
<1>0. t \in ScalarTypes
  BY DEF ScalarTypes
<1>1. \A u : OfType(v, u) <=> u = t
  BY <1>0, TypeOfScalar
<1>2. BsonScalar(v) = v /\ JsonScalar(v) = v
  BY <1>1 DEF BsonScalar, JsonScalar
<1>3. SqlScalar(store, v, t) = v
  BY DEF SqlScalar
<1>4. WriteScalar(store, v, t) = v
  BY <1>0, <1>2, <1>3, Written
<1>5. ~ (OfType(v, "str") /\ OfType(v.str, "text"))
  <2>1. CASE t = "str"
    <3>1. PICK s \in STRING : v = Plain(s)
      BY <2>1 DEF ScalarsOf
    <3>2. DOMAIN v.str = {"plain"}
      BY <3>1 DEF Plain
    <3>3. QED
      BY <3>2 DEF OfType
  <2>2. CASE t # "str"
    BY <1>1, <2>2
  <2>3. QED
    BY <2>1, <2>2
<1>6. ReturnedScalar(store, v) = v
  BY <1>1, <1>5 DEF ReturnedScalar
<1>7. ToScalar(v, t, store) = v
  <2>1. CASE t = "str"
    BY <2>1 DEF ToScalar
  <2>2. CASE t = "int"
    BY <1>1, <2>2 DEF ToScalar
  <2>3. CASE t = "bytes"
    BY <1>1, <2>3 DEF ToScalar
  <2>4. QED
    BY <2>1, <2>2, <2>3
<1>8. ReadScalar(v, t, store) = v
  BY <1>0, <1>7, Present DEF ReadScalar
<1>9. QED
  BY <1>4, <1>6, <1>8 DEF ReadBackScalar

(* A value that is written as a number.                                     *)
LEMMA NumberSurvives ==
  ASSUME NEW store \in Store, NEW t \in {"timedelta", "enum"}, NEW v \in ScalarsOf(t)
  PROVE  ReadBackScalar(store, v, t) = v
<1>0. t \in ScalarTypes
  BY DEF ScalarTypes
<1>1. \A u : OfType(v, u) <=> u = t
  BY <1>0, TypeOfScalar
<1>2. PICK n \in Int : v = IF t = "enum" THEN [enum |-> n] ELSE [timedelta |-> n]
  <2>1. CASE t = "enum"
    BY <2>1 DEF ScalarsOf
  <2>2. CASE t = "timedelta"
    BY <2>2 DEF ScalarsOf
  <2>3. QED
    BY <2>1, <2>2
<1>3. BsonScalar(v) = [int |-> n] /\ JsonScalar(v) = [int |-> n] /\ SqlScalar(store, v, t) = [int |-> n]
  <2>1. CASE t = "enum"
    BY <1>1, <1>2, <2>1 DEF BsonScalar, JsonScalar, SqlScalar, EnumValue
  <2>2. CASE t = "timedelta"
    BY <1>1, <1>2, <2>2 DEF BsonScalar, JsonScalar, SqlScalar, Microseconds
  <2>3. QED
    BY <2>1, <2>2
<1>4. WriteScalar(store, v, t) = [int |-> n]
  BY <1>0, <1>3, Written
<1>5. ReturnedScalar(store, [int |-> n]) = [int |-> n] /\ ~ Absent([int |-> n])
  BY IntsReturn
<1>6. ToScalar([int |-> n], t, store) = v
  <2>1. OfType([int |-> n], "int") /\ [int |-> n].int = n
    BY DEF OfType
  <2>2. CASE t = "enum"
    BY <1>2, <2>1, <2>2 DEF ToScalar
  <2>3. CASE t = "timedelta"
    BY <1>2, <2>1, <2>3 DEF ToScalar
  <2>4. QED
    BY <2>2, <2>3
<1>7. QED
  BY <1>4, <1>5, <1>6 DEF ReadBackScalar, ReadScalar

(* A truth value is written as 1 or 0 to the SQL stores.                    *)
LEMMA BoolSurvives ==
  ASSUME NEW store \in Store, NEW v \in ScalarsOf("bool")
  PROVE  ReadBackScalar(store, v, "bool") = v
<1>1. \A u : OfType(v, u) <=> u = "bool"
  BY TypeOfScalar DEF ScalarTypes
<1>2. PICK b \in BOOLEAN : v = [bool |-> b]
  BY DEF ScalarsOf
<1>3. CASE store \in {"bson", "json"}
  <2>1. BsonScalar(v) = v /\ JsonScalar(v) = v
    BY <1>1 DEF BsonScalar, JsonScalar
  <2>2. WriteScalar(store, v, "bool") = v
    BY <1>3, <2>1, Written DEF ScalarTypes
  <2>3. ReturnedScalar(store, v) = v
    BY <1>1, <1>3 DEF ReturnedScalar
  <2>4. (v \in {[int |-> 1], [bool |-> TRUE], Plain("1"), Plain("true")}) = b
    <3>1. CASE b = TRUE
      BY <1>2, <3>1
    <3>2. CASE b = FALSE
      <4>1. v.bool = FALSE /\ DOMAIN v = {"bool"}
        BY <1>2, <3>2
      <4>2. DOMAIN [int |-> 1] = {"int"} /\ DOMAIN Plain("1") = {"str"} /\ DOMAIN Plain("true") = {"str"}
        BY DEF Plain
      <4>3. [bool |-> TRUE].bool = TRUE
        OBVIOUS
      <4>4. v # [int |-> 1] /\ v # Plain("1") /\ v # Plain("true") /\ v # [bool |-> TRUE]
        BY <4>1, <4>2, <4>3
      <4>5. QED
        BY <3>2, <4>4
    <3>3. QED
      BY <3>1, <3>2
  <2>5. ToScalar(v, "bool", store) = v
    BY <1>2, <2>4 DEF ToScalar
  <2>6. ~ Absent(v)
    BY Present DEF ScalarTypes
  <2>7. QED
    BY <2>2, <2>3, <2>5, <2>6 DEF ReadBackScalar, ReadScalar
<1>4. CASE store \notin {"bson", "json"}
  <2> DEFINE n == IF b THEN 1 ELSE 0
  <2>1. WriteScalar(store, v, "bool") = [int |-> n]
    BY <1>2, <1>4, Written DEF ScalarTypes, SqlScalar
  <2>2. ([int |-> n] \in {[int |-> 1], [bool |-> TRUE], Plain("1"), Plain("true")}) = b
    <3>1. CASE b = TRUE
      BY <3>1
    <3>2. CASE b = FALSE
      <4>1. [int |-> n].int = 0 /\ DOMAIN [int |-> n] = {"int"} /\ [int |-> 1].int = 1
        BY <3>2
      <4>2. DOMAIN [bool |-> TRUE] = {"bool"} /\ DOMAIN Plain("1") = {"str"} /\ DOMAIN Plain("true") = {"str"}
        BY DEF Plain
      <4>3. QED
        BY <3>2, <4>1, <4>2
    <3>3. QED
      BY <3>1, <3>2
  <2>3. ToScalar([int |-> n], "bool", store) = v
    BY <1>2, <2>2 DEF ToScalar
  <2>4. QED
    BY <2>1, <2>3, IntsReturn DEF ReadBackScalar, ReadScalar
<1>5. QED
  BY <1>3, <1>4

(* A value whose text is read back, where it is written as a text.          *)
LEMMA SpelledSurvives ==
  ASSUME NEW store \in Store, NEW t \in {"uuid", "decimal"}, NEW v \in ScalarsOf(t)
  PROVE  ReadBackScalar(store, v, t) = v
<1>0. t \in ScalarTypes
  BY DEF ScalarTypes
<1>1. \A u : OfType(v, u) <=> u = t
  BY <1>0, TypeOfScalar
<1>2. WriteScalar(store, v, t) \in {v, Text(v)}
  <2>1. CASE t = "uuid"
    <3>1. BsonScalar(v) = v /\ JsonScalar(v) = Text(v) /\ SqlScalar(store, v, t) = Text(v)
      BY <1>1, <2>1 DEF BsonScalar, JsonScalar, SqlScalar
    <3>2. QED
      BY <1>0, <3>1, Written
  <2>2. CASE t = "decimal"
    BY <1>0, <1>1, <2>2, Written DEF BsonScalar, JsonScalar, SqlScalar
  <2>3. QED
    BY <2>1, <2>2
<1>3. ASSUME WriteScalar(store, v, t) = v
      PROVE  ReadBackScalar(store, v, t) = v
  <2>1. ReturnedScalar(store, v) = v
    BY <1>1 DEF ReturnedScalar
  <2>2. ToScalar(v, t, store) = v
    <3>1. CASE t = "uuid"
      BY <1>1, <3>1 DEF ToScalar
    <3>2. CASE t = "decimal"
      BY <1>1, <3>2 DEF ToScalar
    <3>3. QED
      BY <3>1, <3>2
  <2>3. QED
    BY <1>0, <1>3, <2>1, <2>2, Present DEF ReadBackScalar, ReadScalar
<1>4. ASSUME WriteScalar(store, v, t) = Text(v)
      PROVE  ReadBackScalar(store, v, t) = v
  <2>1. ReturnedScalar(store, Text(v)) = Text(v)
    BY <1>1, TextsReturn
  <2>2. ToScalar(Text(v), t, store) = v
    <3>1. CASE t = "uuid"
      BY <3>1, Texts DEF ToScalar
    <3>2. CASE t = "decimal"
      BY <3>2, Texts DEF ToScalar
    <3>3. QED
      BY <3>1, <3>2
  <2>3. QED
    BY <1>4, <2>1, <2>2, Texts DEF ReadBackScalar, ReadScalar
<1>5. QED
  BY <1>2, <1>3, <1>4

(* A date: its text, or midnight in BSON.                                   *)
LEMMA DateSurvives ==
  ASSUME NEW store \in Store, NEW v \in ScalarsOf("date")
  PROVE  ReadBackScalar(store, v, "date") = v
<1>1. \A u : OfType(v, u) <=> u = "date"
  BY TypeOfScalar DEF ScalarTypes
<1>2. PICK d \in Int : v = [date |-> d]
  BY DEF ScalarsOf
<1>3. v.date = d
  BY <1>2
<1>4. CASE store = "bson"
  <2> DEFINE w == Datetime(d * HoursPerDay, {})
  <2>1. WriteScalar(store, v, "date") = w
    BY <1>1, <1>3, <1>4, Written DEF ScalarTypes, BsonScalar
  <2>2. /\ \A u : OfType(w, u) <=> u = "datetime"
        /\ w.datetime.wall = d * HoursPerDay
    BY DEF Datetime, OfType
  <2>3. ReturnedScalar(store, w) = w
    BY <1>4, <2>2 DEF ReturnedScalar, Datetime
  <2>4. (d * HoursPerDay) \div HoursPerDay = d
    BY DEF HoursPerDay
  <2>5. ToScalar(w, "date", store) = v
    BY <1>2, <2>2, <2>4 DEF ToScalar
  <2>6. ~ Absent(w)
    BY <2>2, AbsentOnly
  <2>7. QED
    BY <2>1, <2>3, <2>5, <2>6 DEF ReadBackScalar, ReadScalar
<1>5. CASE store # "bson"
  <2>1. WriteScalar(store, v, "date") = Text(v)
    BY <1>1, <1>5, Written DEF ScalarTypes, JsonScalar, SqlScalar
  <2>2. ToScalar(Text(v), "date", store) = v
    BY Texts DEF ToScalar
  <2>3. ToScalar(v, "date", store) = v
    BY <1>1 DEF ToScalar
  <2>4. ~ Absent(v) /\ ~ Absent(Text(v))
    BY Present, Texts DEF ScalarTypes
  <2>5. ReturnedScalar(store, Text(v)) \in {v, Text(v)}
    BY Texts DEF ReturnedScalar
  <2>6. QED
    BY <2>1, <2>2, <2>3, <2>4, <2>5 DEF ReadBackScalar, ReadScalar
<1>6. QED
  BY <1>4, <1>5

(* A time, where it is stored as a text.                                    *)
LEMMA TimeSurvives ==
  ASSUME NEW store \in Store, NEW v \in ScalarsOf("time"), ScalarStored(store, "time")
  PROVE  \E h \in Int : /\ v.time.hour = h
                       /\ v.time = [hour |-> h, off |-> v.time.off]
                       /\ ReadBackScalar(store, v, "time") \in
                            {[time |-> [hour |-> h, off |-> {0}]], [time |-> [hour |-> h, off |-> v.time.off]]}
<1>1. \A u : OfType(v, u) <=> u = "time"
  BY TypeOfScalar DEF ScalarTypes
<1>2. PICK h \in Int, off \in {{}, {0}} : v = [time |-> [hour |-> h, off |-> off]]
  BY DEF ScalarsOf
<1>3. v.time.hour = h /\ v.time.off = off
  BY <1>2
<1>4. PICK t : /\ WriteScalar(store, v, "time") = Text([time |-> t])
               /\ t \in {[hour |-> h, off |-> {0}], [hour |-> h, off |-> off]}
  <2>1. CASE store = "bson"
    BY <1>1, <1>2, <2>1, Written DEF ScalarTypes, BsonScalar
  <2>2. CASE store = "json"
    <3>1. WriteScalar(store, v, "time") = Text([time |-> SpelledTime(v.time)])
      BY <1>1, <2>2, Written DEF ScalarTypes, JsonScalar
    <3>2. SpelledTime(v.time) = [hour |-> h, off |-> off]
      BY <1>3 DEF SpelledTime
    <3>3. QED
      BY <3>1, <3>2
  <2>3. CASE store \notin {"bson", "json"}
    BY <1>3, <2>3, Written DEF ScalarTypes, SqlScalar
  <2>4. QED
    BY <2>1, <2>2, <2>3
<1>5. ReturnedScalar(store, Text([time |-> t])) = Text([time |-> t])
  <2>1. ~ OfType([time |-> t], "date")
    BY DEF OfType
  <2>2. QED
    BY <2>1, TextsReturn
<1>6. ToScalar(Text([time |-> t]), "time", store) = [time |-> SpelledTime(t)]
  BY Texts DEF ToScalar, ReadTime
<1>7. ReadBackScalar(store, v, "time") = [time |-> SpelledTime(t)]
  BY <1>4, <1>5, <1>6, Texts DEF ReadBackScalar, ReadScalar
<1>8. SpelledTime(t) = t
  BY <1>4, <1>2 DEF SpelledTime
<1>9. QED
  BY <1>2, <1>3, <1>4, <1>7, <1>8

(* The two datetime policies, by what they make of a wall clock and offset. *)
LEMMA Policies ==
  ASSUME NEW w \in Int, NEW h \in Int
  PROVE  /\ AssumeUtc([wall |-> w, off |-> {}]) = [wall |-> w, off |-> {0}]
         /\ EnsureUtcAware([wall |-> w, off |-> {}]) = [wall |-> w, off |-> {0}]
         /\ AssumeUtc([wall |-> w, off |-> {h}]) = [wall |-> w - h, off |-> {0}]
         /\ EnsureUtcAware([wall |-> w, off |-> {h}]) = [wall |-> w, off |-> {h}]
<1>1. [[wall |-> w, off |-> {}] EXCEPT !.off = {0}] = [wall |-> w, off |-> {0}]
  OBVIOUS
<1>2. [wall |-> w, off |-> {}].off = {} /\ [wall |-> w, off |-> {h}].off = {h} /\ {h} # {}
  OBVIOUS
<1>3. (CHOOSE x \in {h} : TRUE) = h
  OBVIOUS
<1>4. [wall |-> w, off |-> {h}].wall = w
  OBVIOUS
<1>5. QED
  BY <1>1, <1>2, <1>3, <1>4 DEF AssumeUtc, EnsureUtcAware

(* A datetime: its offset is kept, or it is moved to UTC.                   *)
LEMMA DatetimeSurvives ==
  ASSUME NEW store \in Store, NEW v \in ScalarsOf("datetime")
  PROVE  LET r == ReadBackScalar(store, v, "datetime") IN
         PromisedScalar(r, store) = PromisedScalar(v, store) /\ Aware(r)
<1>1. \A u : OfType(v, u) <=> u = "datetime"
  BY TypeOfScalar DEF ScalarTypes
<1>2. PICK w \in Int, off \in {{}} \cup {{h} : h \in Int} : v = [datetime |-> [wall |-> w, off |-> off]]
  BY DEF ScalarsOf
<1> DEFINE dt == [wall |-> w, off |-> off]
<1>3. v.datetime = dt
  BY <1>2
<1>4. /\ \E h \in Int : EnsureUtcAware(dt) = [wall |-> w, off |-> {h}]
      /\ \E u \in Int : AssumeUtc(dt) = [wall |-> u, off |-> {0}]
  <2>1. CASE off = {}
    <3>1. 0 \in Int
      OBVIOUS
    <3>2. QED
      BY <2>1, <3>1, Policies
  <2>2. CASE off # {}
    <3>1. PICK h \in Int : off = {h}
      BY <2>2
    <3>2. w - h \in Int
      OBVIOUS
    <3>3. QED
      BY <3>1, <3>2, Policies
  <2>3. QED
    BY <2>1, <2>2
<1>5. \A d : /\ \A u : OfType([datetime |-> d], u) <=> u = "datetime"
            /\ [datetime |-> d].datetime = d
            /\ ~ Absent([datetime |-> d])
  <2>1. TAKE d
  <2>2. \A u : OfType([datetime |-> d], u) <=> u = "datetime"
    BY DEF OfType
  <2>3. QED
    BY <2>2, AbsentOnly
<1> HIDE DEF dt
<1>6. CASE store \in {"sqlite", "mssql", "json"}
  <2>1. PICK h \in Int : EnsureUtcAware(dt) = [wall |-> w, off |-> {h}]
    BY <1>4
  <2> DEFINE e == [datetime |-> [wall |-> w, off |-> {h}]]
  <2>2. WriteScalar(store, v, "datetime") = IF store = "json" THEN Text(e) ELSE e
    <3>1. CASE store = "json"
      <4>1. JsonScalar(v) = Text(e)
        BY <1>1, <1>3, <2>1 DEF JsonScalar
      <4>2. QED
        BY <3>1, <4>1, Written DEF ScalarTypes
    <3>2. CASE store # "json"
      <4>1. WritePolicy(dt, store) = EnsureUtcAware(dt)
        BY <1>6, <3>2 DEF WritePolicy, MssqlWritePolicy
      <4>2. SqlScalar(store, v, "datetime") = e
        BY <1>3, <2>1, <4>1 DEF SqlScalar
      <4>3. QED
        BY <1>6, <3>2, <4>2, Written DEF ScalarTypes
    <3>3. QED
      BY <3>1, <3>2
  <2>3. ReturnedScalar(store, WriteScalar(store, v, "datetime")) \in {e, Text(e)}
    <3>1. CASE store = "sqlite"
      BY <1>5, <2>2, <3>1 DEF ReturnedScalar
    <3>2. CASE store = "mssql"
      BY <1>5, <2>2, <3>2 DEF ReturnedScalar
    <3>3. CASE store = "json"
      BY <2>2, <3>3, TextsReturn
    <3>4. QED
      BY <1>6, <3>1, <3>2, <3>3
  <2>4. ReadPolicy([wall |-> w, off |-> {h}], store) = [wall |-> w, off |-> {h}]
    BY <1>6, Policies DEF ReadPolicy
  <2>5. /\ ToScalar(e, "datetime", store) = e
        /\ ToScalar(Text(e), "datetime", store) = e
    BY <1>5, <2>4, Texts DEF ToScalar
  <2>6. ReadBackScalar(store, v, "datetime") = e
    BY <1>5, <2>3, <2>5, Texts DEF ReadBackScalar, ReadScalar
  <2>7. PromisedScalar(v, store) = e
    BY <1>1, <1>3, <1>6, <2>1 DEF PromisedScalar
  <2>8. PromisedScalar(e, store) = e
    BY <1>5, <1>6, Policies DEF PromisedScalar
  <2>9. Aware(e)
    BY <1>5 DEF Aware
  <2>10. QED
    BY <2>6, <2>7, <2>8, <2>9
<1>7. CASE store \in {"mysql", "chsql", "mssqlUtc", "bson"}
  <2>1. PICK u \in Int : AssumeUtc(dt) = [wall |-> u, off |-> {0}]
    BY <1>4
  <2> DEFINE e == [datetime |-> [wall |-> u, off |-> {0}]]
             n == [datetime |-> [wall |-> u, off |-> {}]]
  <2>2. WriteScalar(store, v, "datetime") = e
    <3>1. CASE store = "bson"
      BY <1>1, <1>3, <2>1, <3>1, Written DEF ScalarTypes, BsonScalar
    <3>2. CASE store # "bson"
      <4>1. WritePolicy(dt, store) = AssumeUtc(dt)
        BY <1>7, <3>2 DEF WritePolicy, MssqlWritePolicy
      <4>2. SqlScalar(store, v, "datetime") = e
        BY <1>3, <2>1, <4>1 DEF SqlScalar
      <4>3. QED
        BY <1>7, <3>2, <4>2, Written DEF ScalarTypes
    <3>3. QED
      BY <3>1, <3>2
  <2>3. ReturnedScalar(store, e) = n
    <3>1. e.datetime.wall = u
      OBVIOUS
    <3>2. QED
      BY <1>5, <1>7, <3>1 DEF ReturnedScalar, Datetime
  <2>4. ReadPolicy([wall |-> u, off |-> {}], store) = [wall |-> u, off |-> {0}]
    BY <1>7, Policies DEF ReadPolicy
  <2>5. ToScalar(n, "datetime", store) = e
    BY <1>5, <2>4 DEF ToScalar
  <2>6. ReadBackScalar(store, v, "datetime") = e
    BY <1>5, <2>2, <2>3, <2>5 DEF ReadBackScalar, ReadScalar
  <2>7. PromisedScalar(v, store) = e
    BY <1>1, <1>3, <1>7, <2>1 DEF PromisedScalar
  <2>8. PromisedScalar(e, store) = e
    <3>1. AssumeUtc([wall |-> u, off |-> {0}]) = [wall |-> u, off |-> {0}]
      <4>1. 0 \in Int /\ u - 0 = u
        OBVIOUS
      <4>2. QED
        BY <4>1, Policies
    <3>2. QED
      BY <1>5, <1>7, <3>1 DEF PromisedScalar
  <2>9. Aware(e)
    BY <1>5 DEF Aware
  <2>10. QED
    BY <2>6, <2>7, <2>8, <2>9
<1>8. QED
  BY <1>6, <1>7 DEF Store

(* ScalarsSurvive, for every value: what Translation's run shows of a few   *)
(* integers, texts, dates and wall clocks with any offset.                  *)
THEOREM ScalarsReadBack == ScalarsSurvive
<1> SUFFICES ASSUME NEW store \in Store, NEW t \in ScalarTypes, ScalarStored(store, t),
                    NEW v \in ScalarsOf(t) \cup {None}
             PROVE  LET r == ReadBackScalar(store, v, t) IN
                    PromisedScalar(r, store) = PromisedScalar(v, store) /\ Aware(r)
  BY DEF ScalarsSurvive
<1> DEFINE r == ReadBackScalar(store, v, t)
<1>0. CASE v = None
  <2>1. Absent(None) /\ \A u : OfType(None, u) <=> u = "none"
    BY DEF Absent, None, OfType
  <2>2. WriteScalar(store, None, t) = None
    BY <2>1 DEF WriteScalar
  <2>3. ReturnedScalar(store, None) = None
    BY <2>1 DEF ReturnedScalar
  <2>4. r = None
    BY <1>0, <2>1, <2>2, <2>3 DEF ReadBackScalar, ReadScalar
  <2>5. QED
    BY <1>0, <2>1, <2>4 DEF Aware
<1>1. CASE t = "datetime" /\ v # None
  BY <1>1, DatetimeSurvives
<1>2. CASE t = "time" /\ v # None
  <2>1. PICK h \in Int : /\ v.time = [hour |-> h, off |-> v.time.off]
                         /\ r \in {[time |-> [hour |-> h, off |-> {0}]],
                                   [time |-> [hour |-> h, off |-> v.time.off]]}
    BY <1>2, TimeSurvives
  <2>2. \A u : OfType(v, u) <=> u = "time"
    BY <1>2, TypeOfScalar
  <2>3. \A u : OfType(r, u) <=> u = "time"
    BY <2>1 DEF OfType
  <2>4. [v.time EXCEPT !.off = {0}] = [hour |-> h, off |-> {0}]
    BY <2>1
  <2>5. [r.time EXCEPT !.off = {0}] = [hour |-> h, off |-> {0}]
    <3>1. PICK o : r = [time |-> [hour |-> h, off |-> o]]
      BY <2>1
    <3>2. QED
      BY <3>1
  <2>6. QED
    BY <2>2, <2>3, <2>4, <2>5 DEF PromisedScalar, Aware
<1>3. CASE t \notin {"datetime", "time"} /\ v # None
  <2>1. r = v
    BY <1>3, PlainSurvives, NumberSurvives, BoolSurvives, SpelledSurvives, DateSurvives DEF ScalarTypes
  <2>2. ~ OfType(v, "datetime")
    BY <1>3, TypeOfScalar
  <2>3. QED
    BY <2>1, <2>2 DEF Aware
<1>4. QED
  BY <1>0, <1>1, <1>2, <1>3
============================================================================
