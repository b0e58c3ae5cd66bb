------------------------------ MODULE MCTables ------------------------------
(***************************************************************************)
(* The instance that TLC checks of the table side of the library.  The     *)
(* parts share no state, so each behaviour is one part's, chosen first,     *)
(* and the variables of the others keep one fixed value.  The translation   *)
(* of values has no steps: its inputs are the initial values of `probe`.    *)
(***************************************************************************)
EXTENDS MCCreation, TableRows, DbAdapters, EntityOrder, Translation, WhereFilter

CONSTANTS e1, e2, e3
VARIABLES part, probe

vars == <<part, probe, creation, tableRows, hub, order, filter>>

TwoNamedDoc == [e \in {e1, e2, e3} |-> IF e = e3 THEN "user" ELSE "doc"]

TwoPlaceholders == {<<Placeholder, Placeholder>>}
OneParameterList == {<<1, 2, 2, 1>>}

\* the documents without NULL in some fields, each set of them in one order
Enumerated(S) == FoldSet(LAMBDA d, s : Append(s, d), <<>>, S)
NullFreeCollections ==
  {Enumerated({d \in Documents : \A f \in F : d[f] # NoValue}) : F \in SUBSET Field}

AnySite == CHOOSE s \in Sites : Legal(s)
AnyShop == CHOOSE s \in Shops : LegalShop(s)
AnyRegistration == CHOOSE r \in Registrations : TRUE

CreationIdle == CreationStart(AnySite)
RowsIdle == RowsStart(AnyShop) /\ rows = {}
HubIdle == HubStart("sync", AnyRegistration)
OrderIdle == OrderStart([e \in Entities |-> {}], {})
FilterIdle ==       \* after an unread condition: nothing is claimed of the clause
  /\ clause = [conditions |-> <<CHOOSE c \in Condition : c.op = "unread">>, joiners |-> <<"AND">>]
  /\ parameters \in ParameterLists
  /\ parsed = [group |-> NoGroup, groups |-> <<>>, used |-> 0]

Probes(p) ==
  IF p = "values" THEN {q \in [store : Store, hint : Hints] : Stored(q.store, q.hint)} ELSE {None}

Init ==
  /\ part \in {"creation", "rows", "hub", "order", "values", "filter"}
  /\ probe \in Probes(part)
  /\ IF part = "creation" THEN CreationInit ELSE CreationIdle
  /\ IF part = "rows" THEN RowsInit ELSE RowsIdle
  /\ IF part = "hub" THEN HubInit ELSE HubIdle
  /\ IF part = "order" THEN OrderInit ELSE OrderIdle
  /\ IF part = "filter" THEN FilterInit ELSE FilterIdle

Next ==
  \/ part = "creation" /\ CreationNext /\ UNCHANGED <<part, probe, tableRows, hub, order, filter>>
  \/ part = "rows" /\ RowsNext /\ UNCHANGED <<part, probe, creation, hub, order, filter>>
  \/ part = "hub" /\ HubNext /\ UNCHANGED <<part, probe, creation, tableRows, order, filter>>
  \/ part = "order" /\ OrderNext /\ UNCHANGED <<part, probe, creation, tableRows, hub, filter>>
  \/ part = "filter" /\ FilterNext /\ UNCHANGED <<part, probe, creation, tableRows, hub, order>>

Fairness ==
  \A j \in Job : WF_vars(part = "creation" /\ JobStep(j)
                          /\ UNCHANGED <<part, probe, tableRows, hub, order, filter>>)

Spec == Init /\ [][Next]_vars /\ Fairness

(* The variables of the parts hold the values their modules declare.       *)
TypeOK == CreationTypeOK /\ RowsTypeOK /\ HubTypeOK /\ OrderTypeOK /\ FilterTypeOK

(* A value written to any store and read back, through hydrate() or through *)
(* the adapters' compiled plan, is the value that was written: the same     *)
(* elements, of the same type, the same instant, aware, and with its offset *)
(* where the store has one (splat_*, hydrate_*, compile_hydrate_plan).      *)
ValueSurvives == part = "values" => Survives(probe.store, probe.hint)
=============================================================================
