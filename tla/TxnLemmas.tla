------------------------------ MODULE TxnLemmas ------------------------------
(***************************************************************************)
(* Facts that the proofs about the contexts share: of the list of savepoint*)
(* names, for every list and every name, and of the connection.            *)
(***************************************************************************)
EXTENDS DbSession, TLAPS, SequenceTheorems, WellFoundedInduction

(* A non-empty set of positions of a list has a last one. *)
LEMMA GreatestIndex ==
  ASSUME NEW k \in Nat, NEW I \in SUBSET (1..k), I # {}
  PROVE  \E i \in I : \A j \in I : j <= i
<1> DEFINE T == {t \in 0..k : k - t \in I}
           R == OpToRel(<, Nat)
<1>1. T \subseteq Nat
  OBVIOUS
<1>2. T # {}
  <2>1. PICK i \in I : TRUE
    OBVIOUS
  <2>2. k - i \in 0..k /\ k - (k - i) = i
    BY <2>1
  <2>3. k - i \in T
    BY <2>1, <2>2
  <2>4. QED
    BY <2>3
<1>3. IsWellFoundedOn(R, Nat)
  BY NatLessThanWellFounded
<1>4. \A a, b \in Nat : a < b => <<a, b>> \in R
  BY DEF OpToRel
<1> HIDE DEF T, R
<1>5. PICK x \in T : \A y \in T : ~ (<<y, x>> \in R)
  BY <1>1, <1>2, <1>3, WFMin
<1>6. \A y \in T : x <= y
  <2>1. TAKE y \in T
  <2>2. x \in Nat /\ y \in Nat
    BY <1>1, <1>5
  <2>3. ~ (y < x)
    BY <1>4, <1>5, <2>2, Zenon
  <2>4. QED
    BY <2>2, <2>3
<1>7. k - x \in I /\ x \in 0..k
  BY DEF T
<1>8. \A j \in I : k - j \in T
  <2>1. TAKE j \in I
  <2>2. k - j \in 0..k /\ k - (k - j) = j
    BY <2>1
  <2>3. QED
    BY <2>1, <2>2 DEF T
<1>9. \A j \in I : j <= k - x
  BY <1>6, <1>7, <1>8
<1>10. QED
  BY <1>7, <1>9

(* LastOf names the last position of n in a list that holds n: what list    *)
(* "pop until you have popped n" stops at.                                  *)
LEMMA LastOfOccurs ==
  ASSUME NEW S, NEW seq \in Seq(S), NEW n, Occurs(seq, n)
  PROVE  /\ LastOf(seq, n) \in 1..Len(seq)
         /\ seq[LastOf(seq, n)] = n
         /\ \A j \in 1..Len(seq) : seq[j] = n => j <= LastOf(seq, n)
<1> DEFINE I == {i \in 1..Len(seq) : seq[i] = n}
<1>1. Len(seq) \in Nat
  OBVIOUS
<1>2. I \in SUBSET (1..Len(seq)) /\ I # {}
  BY DEF Occurs
<1>3. \E i \in I : \A j \in I : j <= i
  BY <1>1, <1>2, GreatestIndex
<1>4. \E i \in 1..Len(seq) :
        seq[i] = n /\ \A j \in 1..Len(seq) : seq[j] = n => j <= i
  BY <1>3
<1>5. QED
  BY <1>4 DEF LastOf

(* Popping through n leaves a list of names, a proper prefix of the list.   *)
LEMMA PopThroughPrefix ==
  ASSUME NEW S, NEW seq \in Seq(S), NEW n, Occurs(seq, n)
  PROVE  /\ PopThrough(seq, n) \in Seq(S)
         /\ Len(PopThrough(seq, n)) = LastOf(seq, n) - 1
         /\ \A i \in 1..(LastOf(seq, n) - 1) : PopThrough(seq, n)[i] = seq[i]
<1> DEFINE k == LastOf(seq, n)
<1>1. k \in 1..Len(seq)
  BY LastOfOccurs
<1>2. \A i \in 1..(k - 1) : seq[i] \in S
  BY <1>1
<1> HIDE DEF k
<1>3. /\ SubSeq(seq, 1, k - 1) \in Seq(S)
      /\ Len(SubSeq(seq, 1, k - 1)) = IF 1 <= k - 1 THEN (k - 1) - 1 + 1 ELSE 0
      /\ \A i \in 1..((k - 1) - 1 + 1) : SubSeq(seq, 1, k - 1)[i] = seq[1 + i - 1]
  BY <1>1, <1>2, SubSeqProperties
<1>4. /\ SubSeq(seq, 1, k - 1) \in Seq(S)
      /\ Len(SubSeq(seq, 1, k - 1)) = k - 1
      /\ \A i \in 1..(k - 1) : SubSeq(seq, 1, k - 1)[i] = seq[i]
  BY <1>1, <1>3
<1>5. QED
  BY <1>4 DEF PopThrough, k

-----------------------------------------------------------------------------
(* Tracked names and the server's savepoints.  N is the set of names and M  *)
(* a set of marks, which are records with a name.                           *)

(* No tracked name is embedded in any marks. *)
LEMMA EmbedNone ==
  ASSUME NEW marks
  PROVE  Embedded(<<>>, marks)
<1> DEFINE f == [i \in 1..Len(<<>>) |-> i]
<1>1. Len(<<>>) = 0 /\ 1..0 = {}
  OBVIOUS
<1>2. f \in [1..Len(<<>>) -> 1..Len(marks)]
  BY <1>1
<1>3. Embeds(f, <<>>, marks)
  BY <1>1 DEF Embeds
<1>4. QED
  BY <1>2, <1>3 DEF Embedded

(* SAVEPOINT n: both lists grow at the end. *)
LEMMA EmbedAppend ==
  ASSUME NEW N, NEW M, NEW names \in Seq(N), NEW marks \in Seq(M),
         Embedded(names, marks), NEW m \in M
  PROVE  Embedded(Append(names, m.name), Append(marks, m))
<1> DEFINE k == Len(names)
           l == Len(marks)
           names2 == Append(names, m.name)
           marks2 == Append(marks, m)
<1>1. k \in Nat /\ l \in Nat
  OBVIOUS
<1>2. /\ Len(names2) = k + 1 /\ Len(marks2) = l + 1
      /\ names2[k + 1] = m.name /\ marks2[l + 1] = m
      /\ \A i \in 1..k : names2[i] = names[i]
      /\ \A i \in 1..l : marks2[i] = marks[i]
  OBVIOUS
<1>3. PICK f \in [1..k -> 1..l] : Embeds(f, names, marks)
  BY DEF Embedded
<1> DEFINE g == [i \in 1..(k + 1) |-> IF i \in 1..k THEN f[i] ELSE l + 1]
<1>4. g \in [1..(k + 1) -> 1..(l + 1)]
  BY <1>1, <1>3
<1>5. \A i \in 1..k : g[i] = f[i] /\ f[i] \in 1..l
  BY <1>1, <1>3
<1>6. g[k + 1] = l + 1
  BY <1>1
<1> HIDE DEF g, names2, marks2, k, l
<1>7. \A i \in 1..(k + 1) : marks2[g[i]].name = names2[i]
  <2>1. TAKE i \in 1..(k + 1)
  <2>2. CASE i \in 1..k
    <3>1. marks[f[i]].name = names[i]
      BY <1>3, <2>2 DEF Embeds, k
    <3>2. QED
      BY <1>2, <1>5, <2>2, <3>1
  <2>3. CASE i = k + 1
    BY <1>2, <1>6, <2>3
  <2>4. QED
    BY <1>1, <2>1, <2>2, <2>3
<1>8. \A i, j \in 1..(k + 1) : i < j => g[i] < g[j]
  <2>1. TAKE i, j \in 1..(k + 1)
  <2>2. HAVE i < j
  <2>3. i \in 1..k
    BY <1>1, <2>1, <2>2
  <2>4. CASE j \in 1..k
    <3>1. f[i] < f[j]
      BY <1>3, <2>2, <2>3, <2>4 DEF Embeds, k
    <3>2. QED
      BY <1>5, <2>3, <2>4, <3>1
  <2>5. CASE j = k + 1
    BY <1>1, <1>5, <1>6, <2>3, <2>5
  <2>6. QED
    BY <1>1, <2>1, <2>4, <2>5
<1>9. Embeds(g, names2, marks2)
  BY <1>2, <1>7, <1>8 DEF Embeds
<1>10. QED
  BY <1>2, <1>4, <1>9 DEF Embedded, names2, marks2

(* ROLLBACK TO n, where the server keeps the savepoint j that it names and  *)
(* drops the later ones, and j is the last of that name.                    *)
LEMMA EmbedReturn ==
  ASSUME NEW N, NEW M, NEW names \in Seq(N), NEW marks \in Seq(M),
         Embedded(names, marks), NEW n, Occurs(names, n),
         NEW j \in 1..Len(marks),
         \A i \in 1..Len(marks) : marks[i].name = n => i <= j
  PROVE  Embedded(PopThrough(names, n), SubSeq(marks, 1, j))
<1> DEFINE k == LastOf(names, n)
           names2 == PopThrough(names, n)
           marks2 == SubSeq(marks, 1, j)
<1>1. k \in 1..Len(names) /\ names[k] = n
  BY LastOfOccurs
<1>2. Len(names2) = k - 1 /\ \A i \in 1..(k - 1) : names2[i] = names[i]
  BY PopThroughPrefix
<1>3. Len(marks2) = j /\ \A i \in 1..j : marks2[i] = marks[i]
  OBVIOUS
<1>4. PICK f \in [1..Len(names) -> 1..Len(marks)] : Embeds(f, names, marks)
  BY DEF Embedded
<1> HIDE DEF k, names2, marks2
<1>5. f[k] \in 1..Len(marks) /\ f[k] <= j
  BY <1>1, <1>4 DEF Embeds
<1>6. \A i \in 1..(k - 1) : i \in 1..Len(names) /\ f[i] \in 1..j
  <2>1. TAKE i \in 1..(k - 1)
  <2>2. i \in 1..Len(names) /\ i < k
    BY <1>1
  <2>3. f[i] \in 1..Len(marks) /\ f[i] < f[k]
    BY <1>1, <1>4, <2>2 DEF Embeds
  <2>4. QED
    BY <1>5, <2>2, <2>3
<1> DEFINE g == [i \in 1..(k - 1) |-> f[i]]
<1>7. g \in [1..(k - 1) -> 1..j] /\ \A i \in 1..(k - 1) : g[i] = f[i]
  BY <1>6
<1> HIDE DEF g
<1>8. Embeds(g, names2, marks2)
  BY <1>2, <1>3, <1>4, <1>6, <1>7 DEF Embeds
<1>9. QED
  BY <1>2, <1>3, <1>7, <1>8 DEF Embedded, names2, marks2
-----------------------------------------------------------------------------
(* Statements and connections. *)

(* What a statement of each kind carries. *)
LEMMA StmtParts ==
  ASSUME NEW s \in Stmt
  PROVE  /\ s.op \in {"begin", "savepoint", "commit", "rollback", "rollbackTo", "insert"}
         /\ s.op \in {"begin", "rollback"} => s.arg \in Name \cup {NoName}
         /\ s.op \in {"savepoint", "rollbackTo"} => s.arg \in Name
         /\ s.op = "insert" => s.arg \in Row
  BY DEF Stmt, Commit

(* Ending a transaction leaves a well-formed connection.                    *)
LEMMA SettledType ==
  ASSUME NEW d \in Session, NEW rows \in SUBSET Row
  PROVE  Settled(d, rows) \in Session
<1>1. <<>> \in Seq(Mark)
  OBVIOUS
<1>2. QED
  BY <1>1 DEF Settled, Session

(* So do a rollback and the closing of the connection.                      *)
LEMMA DiscardShutType ==
  ASSUME NEW d \in Session
  PROVE  Discard(d) \in Session /\ Shut(d) \in Session
<1>1. d.durable \in SUBSET Row
  BY DEF Session
<1>2. Discard(d) \in Session
  BY <1>1, SettledType DEF Discard
<1>3. QED
  BY <1>2 DEF Shut, Session

(* The server's savepoint names are a list of names, as long as its marks.  *)
LEMMA MarkNamesType ==
  ASSUME NEW d \in Session
  PROVE  MarkNames(d) \in Seq(Name) /\ Len(MarkNames(d)) = Len(d.marks)
<1>1. d.marks \in Seq(Mark) /\ Len(d.marks) \in Nat
  BY DEF Session
<1>2. \A i \in 1..Len(d.marks) : d.marks[i].name \in Name
  <2>1. \A i \in 1..Len(d.marks) : d.marks[i] \in Mark
    BY <1>1
  <2>2. \A m \in Mark : m.name \in Name
    BY DEF Mark
  <2>3. QED
    BY <2>1, <2>2
<1>3. QED
  BY <1>1, <1>2, IsASeq DEF MarkNames

(* Going back to a savepoint leaves a well-formed connection.               *)
LEMMA ReturnToType ==
  ASSUME NEW d \in Session, NEW i \in 1..Len(d.marks)
  PROVE  ReturnTo(d, i) \in Session
<1>1. d.marks \in Seq(Mark) /\ d.marks[i] \in Mark
  BY DEF Session
<1>2. d.marks[i].rows \in SUBSET Row
  BY <1>1 DEF Mark
<1>3. SubSeq(d.marks, 1, i) \in Seq(Mark)
  BY <1>1, SubSeqProperties
<1>4. [d EXCEPT !.work = d.marks[i].rows] \in Session
  BY <1>2 DEF Session
<1>5. [[d EXCEPT !.work = d.marks[i].rows] EXCEPT !.marks = SubSeq(d.marks, 1, i)] \in Session
  BY <1>3, <1>4 DEF Session
<1>6. QED
  BY <1>5 DEF ReturnTo
-----------------------------------------------------------------------------
(* What a list of names stands for on the server. *)

(* The last of the server's savepoints that has the name n. *)
At(d, n) == LastOf(MarkNames(d), n)

(* Each name stands for a savepoint, and for a later one than the names     *)
(* before it.                                                               *)
InOrder(names, d) ==
  /\ \A i \in 1..Len(names) : Occurs(MarkNames(d), names[i])
  /\ \A i, j \in 1..Len(names) : i < j => At(d, names[i]) < At(d, names[j])

(* No savepoints are in order, and stand for nothing.                       *)
LEMMA NoPoints ==
  ASSUME NEW d
  PROVE  InOrder(<<>>, d) /\ MarkedAs(<<>>, d) = <<>>
  BY DEF InOrder, MarkedAs

(* At is a position, that of the last savepoint of its name.                *)
LEMMA AtPosition ==
  ASSUME NEW d \in Session, NEW n, Occurs(MarkNames(d), n)
  PROVE  /\ At(d, n) \in 1..Len(d.marks) /\ d.marks[At(d, n)].name = n
         /\ \A j \in 1..Len(d.marks) : d.marks[j].name = n => j <= At(d, n)
<1>1. \A i \in 1..Len(d.marks) : MarkNames(d)[i] = d.marks[i].name
  BY DEF MarkNames
<1>2. /\ LastOf(MarkNames(d), n) \in 1..Len(d.marks)
      /\ MarkNames(d)[LastOf(MarkNames(d), n)] = n
      /\ \A j \in 1..Len(d.marks) : MarkNames(d)[j] = n => j <= LastOf(MarkNames(d), n)
  BY MarkNamesType, LastOfOccurs
<1>3. QED
  BY <1>1, <1>2 DEF At

(* And only that position is.                                               *)
LEMMA AtIs ==
  ASSUME NEW d \in Session, NEW n, NEW q \in 1..Len(d.marks), d.marks[q].name = n,
         \A j \in 1..Len(d.marks) : d.marks[j].name = n => j <= q
  PROVE  Occurs(MarkNames(d), n) /\ At(d, n) = q
<1>1. Occurs(MarkNames(d), n)
  BY DEF Occurs, MarkNames
<1>2. At(d, n) \in 1..Len(d.marks) /\ d.marks[At(d, n)].name = n /\ q <= At(d, n)
  BY <1>1, AtPosition
<1>3. At(d, n) <= q
  BY <1>2
<1>4. Len(d.marks) \in Nat
  BY DEF Session
<1>5. QED
  BY <1>1, <1>2, <1>3, <1>4

(* Names in order are embedded: each is where At says.                      *)
LEMMA InOrderEmbedded ==
  ASSUME NEW d \in Session, NEW names, InOrder(names, d)
  PROVE  Embedded(names, d.marks)
<1> DEFINE f == [i \in 1..Len(names) |-> At(d, names[i])]
<1>1. \A i \in 1..Len(names) :
        At(d, names[i]) \in 1..Len(d.marks) /\ d.marks[At(d, names[i])].name = names[i]
  BY AtPosition DEF InOrder
<1>2. f \in [1..Len(names) -> 1..Len(d.marks)]
  BY <1>1
<1>3. \A i \in 1..Len(names) : f[i] = At(d, names[i])
  OBVIOUS
<1> HIDE DEF f
<1>4. Embeds(f, names, d.marks)
  BY <1>1, <1>3 DEF InOrder, Embeds
<1>5. QED
  BY <1>2, <1>4 DEF Embedded

(* What names stand for is a list of marks.                                 *)
LEMMA MarkedAsType ==
  ASSUME NEW d \in Session, NEW names \in Seq(Name), InOrder(names, d)
  PROVE  MarkedAs(names, d) \in Seq(Mark) /\ Len(MarkedAs(names, d)) = Len(names)
<1>1. \A i \in 1..Len(names) : d.marks[At(d, names[i])] \in Mark
  BY AtPosition DEF InOrder, Session
<1>2. \A i \in 1..Len(names) :
        [name |-> names[i], rows |-> d.marks[At(d, names[i])].rows] \in Mark
  BY <1>1 DEF Mark
<1>3. Len(names) \in Nat
  OBVIOUS
<1>4. QED
  BY <1>2, <1>3, IsASeq DEF MarkedAs, At

(* Names stay in order, and stand for the same rows, when the server keeps  *)
(* the savepoints they stand for, in their order, each the last of its name.*)
LEMMA Carried ==
  ASSUME NEW d \in Session, NEW e \in Session, NEW names \in Seq(Name), InOrder(names, d),
         NEW kept \in [1..Len(d.marks) -> Int],
         \A i \in 1..Len(names) : LET p == At(d, names[i]) IN
           /\ kept[p] \in 1..Len(e.marks) /\ e.marks[kept[p]] = d.marks[p]
           /\ \A j \in 1..Len(e.marks) : e.marks[j].name = names[i] => j <= kept[p],
         \A i, j \in 1..Len(names) : LET p == At(d, names[i])
                                         q == At(d, names[j])
                                     IN  p < q => kept[p] < kept[q]
  PROVE  /\ InOrder(names, e) /\ MarkedAs(names, e) = MarkedAs(names, d)
         /\ \A i \in 1..Len(names) : At(e, names[i]) = kept[At(d, names[i])]
<1>1. \A n, q : /\ q \in 1..Len(e.marks) /\ e.marks[q].name = n
                /\ \A j \in 1..Len(e.marks) : e.marks[j].name = n => j <= q
                => Occurs(MarkNames(e), n) /\ At(e, n) = q
  BY AtIs
<1>0. \A i \in 1..Len(names) : d.marks[At(d, names[i])].name = names[i]
  BY AtPosition DEF InOrder
<1>2. \A i \in 1..Len(names) :
        Occurs(MarkNames(e), names[i]) /\ At(e, names[i]) = kept[At(d, names[i])]
  <2>1. TAKE i \in 1..Len(names)
  <2> DEFINE at == kept[At(d, names[i])]
  <2>2. /\ at \in 1..Len(e.marks) /\ e.marks[at].name = names[i]
        /\ \A j \in 1..Len(e.marks) : e.marks[j].name = names[i] => j <= at
    BY <1>0, <2>1
  <2>3. Occurs(MarkNames(e), names[i]) /\ At(e, names[i]) = at
    <3> HIDE DEF at
    <3>1. QED
      BY <1>1, <2>2
  <2>4. QED
    BY <2>3
<1>3. InOrder(names, e)
  BY <1>2 DEF InOrder
<1>4. \A i \in 1..Len(names) : e.marks[At(e, names[i])] = d.marks[At(d, names[i])]
  BY <1>2
<1>5. MarkedAs(names, e) = MarkedAs(names, d)
  BY <1>4 DEF MarkedAs, At
<1>6. QED
  BY <1>2, <1>3, <1>5

(* A name that is new to the list and stands for the server's last          *)
(* savepoint goes to the end.                                               *)
LEMMA PointAdded ==
  ASSUME NEW e \in Session, NEW names \in Seq(Name), InOrder(names, e),
         NEW n \in Name, ~ Occurs(names, n),
         e.marks # <<>>, e.marks[Len(e.marks)].name = n
  PROVE  /\ InOrder(Append(names, n), e)
         /\ MarkedAs(Append(names, n), e) = Append(MarkedAs(names, e), e.marks[Len(e.marks)])
<1> DEFINE l == Len(e.marks)
           k == Len(names)
           more == Append(names, n)
<1>1. /\ e.marks \in Seq(Mark) /\ l \in Nat /\ k \in Nat /\ l \in 1..l
      /\ e.marks[l] \in Mark
  BY DEF Session
<1>2. /\ more \in Seq(Name) /\ Len(more) = k + 1 /\ more[k + 1] = n
      /\ \A i \in 1..k : more[i] = names[i]
  OBVIOUS
<1>3. Occurs(MarkNames(e), n) /\ At(e, n) = l
  <2> HIDE DEF l
  <2>1. e.marks[l].name = n /\ \A j \in 1..Len(e.marks) : j <= l
    BY <1>1 DEF l
  <2>2. l \in 1..Len(e.marks)
    BY <1>1 DEF l
  <2>3. QED
    BY <2>1, <2>2, AtIs
<1>4. \A i \in 1..k : At(e, names[i]) \in 1..l /\ At(e, names[i]) # l
  BY <1>1, AtPosition DEF InOrder, Occurs
<1> HIDE DEF l, k, more
<1>5. InOrder(more, e)
  <2>1. \A i \in 1..Len(more) : Occurs(MarkNames(e), more[i])
    BY <1>1, <1>2, <1>3 DEF InOrder, k
  <2>2. \A i, j \in 1..Len(more) : i < j => At(e, more[i]) < At(e, more[j])
    <3>1. TAKE i, j \in 1..Len(more)
    <3>2. HAVE i < j
    <3>3. i \in 1..k /\ (j \in 1..k \/ j = k + 1)
      BY <1>1, <1>2, <3>1, <3>2
    <3>4. At(e, more[i]) \in 1..l /\ At(e, more[i]) # l
      BY <1>2, <1>4, <3>3
    <3>5. CASE j = k + 1
      BY <1>1, <1>2, <1>3, <3>4, <3>5
    <3>6. CASE j \in 1..k
      BY <1>2, <3>2, <3>3, <3>6 DEF InOrder, k
    <3>7. QED
      BY <3>3, <3>5, <3>6
  <2>3. QED
    BY <2>1, <2>2 DEF InOrder
<1>6. MarkedAs(names, e) \in Seq(Mark) /\ Len(MarkedAs(names, e)) = k
  BY MarkedAsType DEF k
<1>7. MarkedAs(more, e) \in Seq(Mark) /\ Len(MarkedAs(more, e)) = k + 1
  BY <1>2, <1>5, MarkedAsType
<1> DEFINE new == Append(MarkedAs(names, e), e.marks[l])
<1>8. /\ new \in Seq(Mark) /\ Len(new) = k + 1 /\ new[k + 1] = e.marks[l]
      /\ \A i \in 1..k : new[i] = MarkedAs(names, e)[i]
  BY <1>1, <1>6
<1> HIDE DEF new
<1>9. \A i \in 1..(k + 1) : MarkedAs(more, e)[i] = new[i]
  <2>1. TAKE i \in 1..(k + 1)
  <2>2. MarkedAs(more, e)[i] = [name |-> more[i], rows |-> e.marks[At(e, more[i])].rows]
    BY <1>2, <2>1 DEF MarkedAs, At
  <2>3. CASE i = k + 1
    <3>1. e.marks[l] = [name |-> n, rows |-> e.marks[l].rows]
      BY <1>1 DEF Mark, l
    <3>2. QED
      BY <1>2, <1>3, <1>8, <2>2, <2>3, <3>1
  <2>4. CASE i \in 1..k
    BY <1>2, <1>8, <2>2, <2>4 DEF MarkedAs, At, k
  <2>5. QED
    BY <1>1, <2>1, <2>3, <2>4
<1>10. MarkedAs(more, e) = new
  BY <1>7, <1>8, <1>9, SeqEqual
<1>11. QED
  BY <1>5, <1>10 DEF new, more, l

(* Popping through a name forgets what it and the later names stand for.    *)
LEMMA PointsCut ==
  ASSUME NEW d \in Session, NEW names \in Seq(Name), InOrder(names, d),
         NEW n, Occurs(names, n)
  PROVE  LET k == LastOf(names, n) IN
         /\ k \in 1..Len(names) /\ names[k] = n
         /\ PopThrough(names, n) \in Seq(Name)
         /\ InOrder(PopThrough(names, n), d)
         /\ MarkedAs(PopThrough(names, n), d) = SubSeq(MarkedAs(names, d), 1, k - 1)
         /\ MarkedAs(names, d)[k].rows = d.marks[At(d, n)].rows
         /\ \A i \in 1..Len(PopThrough(names, n)) :
              At(d, PopThrough(names, n)[i]) < At(d, n)
<1> DEFINE k == LastOf(names, n)
           cut == PopThrough(names, n)
           all == MarkedAs(names, d)
<1>1. k \in 1..Len(names) /\ names[k] = n /\ Len(names) \in Nat
  BY LastOfOccurs
<1>2. /\ cut \in Seq(Name) /\ Len(cut) = k - 1
      /\ \A i \in 1..(k - 1) : cut[i] = names[i]
  BY PopThroughPrefix
<1>3. all \in Seq(Mark) /\ Len(all) = Len(names)
  BY MarkedAsType
<1>4. \A i \in 1..Len(names) : all[i] = [name |-> names[i], rows |-> d.marks[At(d, names[i])].rows]
  BY DEF MarkedAs, At
<1> HIDE DEF k, cut, all
<1>5. \A i \in 1..Len(cut) : i \in 1..Len(names) /\ i < k /\ cut[i] = names[i]
  BY <1>1, <1>2
<1>6. InOrder(cut, d)
  BY <1>5 DEF InOrder
<1>7. \A i \in 1..Len(cut) : At(d, cut[i]) < At(d, n)
  BY <1>1, <1>5 DEF InOrder
<1>8. all[k].rows = d.marks[At(d, n)].rows
  <2>1. all[k] = [name |-> names[k], rows |-> d.marks[At(d, names[k])].rows]
    BY <1>1, <1>4
  <2>2. names[k] = n
    BY <1>1
  <2>3. QED
    BY <2>1, <2>2
<1>9. MarkedAs(cut, d) \in Seq(Mark) /\ Len(MarkedAs(cut, d)) = k - 1
  BY <1>2, <1>6, MarkedAsType
<1>10. /\ SubSeq(all, 1, k - 1) \in Seq(Mark) /\ Len(SubSeq(all, 1, k - 1)) = k - 1
       /\ \A i \in 1..(k - 1) : SubSeq(all, 1, k - 1)[i] = all[i]
  <2>1. k - 1 \in Int /\ \A i \in 1..(k - 1) : all[i] \in Mark
    BY <1>1, <1>3
  <2>2. /\ SubSeq(all, 1, k - 1) \in Seq(Mark)
        /\ Len(SubSeq(all, 1, k - 1)) = IF 1 <= k - 1 THEN (k - 1) - 1 + 1 ELSE 0
        /\ \A i \in 1..((k - 1) - 1 + 1) : SubSeq(all, 1, k - 1)[i] = all[1 + i - 1]
    BY <2>1, SubSeqProperties
  <2>3. QED
    BY <1>1, <2>2
<1>11. \A i \in 1..(k - 1) : MarkedAs(cut, d)[i] = SubSeq(all, 1, k - 1)[i]
  <2>1. TAKE i \in 1..(k - 1)
  <2>2. MarkedAs(cut, d)[i] = [name |-> cut[i], rows |-> d.marks[At(d, cut[i])].rows]
    BY <1>2, <2>1 DEF MarkedAs, At
  <2>3. QED
    BY <1>1, <1>2, <1>4, <1>10, <2>1, <2>2
<1>12. MarkedAs(cut, d) = SubSeq(all, 1, k - 1)
  BY <1>9, <1>10, <1>11, SeqEqual
<1>13. QED
  BY <1>1, <1>2, <1>6, <1>7, <1>8, <1>12 DEF k, cut, all

(* ROLLBACK TO keeps the savepoint it names and the earlier ones.           *)
LEMMA PointsReturn ==
  ASSUME NEW d \in Session, NEW names \in Seq(Name), InOrder(names, d),
         NEW n, Occurs(names, n)
  PROVE  LET e == ReturnTo(d, At(d, n)) IN
         /\ e \in Session
         /\ InOrder(PopThrough(names, n), e)
         /\ MarkedAs(PopThrough(names, n), e) = MarkedAs(PopThrough(names, n), d)
<1> DEFINE l == At(d, n)
           e == ReturnTo(d, l)
           cut == PopThrough(names, n)
           kept == [p \in 1..Len(d.marks) |-> p]
<1>1. /\ cut \in Seq(Name) /\ InOrder(cut, d)
      /\ \A i \in 1..Len(cut) : At(d, cut[i]) < l
  BY PointsCut
<1>2. l \in 1..Len(d.marks)
  <2>1. Occurs(MarkNames(d), n)
    BY DEF InOrder, Occurs
  <2>2. QED
    BY <2>1, AtPosition
<1>3. \A i \in 1..Len(cut) :
        /\ At(d, cut[i]) \in 1..Len(d.marks)
        /\ \A j \in 1..Len(d.marks) : d.marks[j].name = cut[i] => j <= At(d, cut[i])
  BY <1>1, AtPosition DEF InOrder
<1>4. d.marks \in Seq(Mark) /\ Len(d.marks) \in Nat
  BY DEF Session
<1>5. /\ Len(SubSeq(d.marks, 1, l)) = l
      /\ \A j \in 1..l : SubSeq(d.marks, 1, l)[j] = d.marks[j]
  BY <1>2, <1>4
<1> HIDE DEF l
<1>6. e \in Session
  BY <1>2, ReturnToType
<1>7. e.marks = SubSeq(d.marks, 1, l)
  BY DEF ReturnTo, Session
<1>8. Len(e.marks) = l /\ \A j \in 1..l : e.marks[j] = d.marks[j]
  BY <1>5, <1>7
<1> HIDE DEF e, cut
<1>9. kept \in [1..Len(d.marks) -> Int] /\ \A p \in 1..Len(d.marks) : kept[p] = p
  OBVIOUS
<1> HIDE DEF kept
<1>10. \A i \in 1..Len(cut) : LET p == At(d, cut[i]) IN
         /\ kept[p] \in 1..Len(e.marks) /\ e.marks[kept[p]] = d.marks[p]
         /\ \A j \in 1..Len(e.marks) : e.marks[j].name = cut[i] => j <= kept[p]
  <2>1. TAKE i \in 1..Len(cut)
  <2> DEFINE p == At(d, cut[i])
  <2>2. p \in 1..l /\ kept[p] = p
    BY <1>1, <1>2, <1>3, <1>9
  <2>3. \A j \in 1..l : j \in 1..Len(d.marks)
    BY <1>2, <1>4
  <2>4. \A j \in 1..l : e.marks[j].name = cut[i] => j <= p
    BY <1>3, <1>8, <2>3
  <2>5. QED
    BY <1>8, <2>2, <2>4
<1>11. \A i, j \in 1..Len(cut) : LET p == At(d, cut[i])
                                     q == At(d, cut[j])
                                 IN  p < q => kept[p] < kept[q]
  BY <1>3, <1>9
<1>12. InOrder(cut, e) /\ MarkedAs(cut, e) = MarkedAs(cut, d)
  BY <1>1, <1>6, <1>9, <1>10, <1>11, Carried
<1>13. QED
  BY <1>6, <1>12 DEF e, cut, l

(* SAVEPOINT n, where n is new to the list: the server's new savepoint is   *)
(* what n stands for, also when it has an older one of that name.           *)
LEMMA PointSaved ==
  ASSUME NEW d \in Session, NEW e \in Session, NEW names \in Seq(Name), InOrder(names, d),
         NEW m \in Mark, ~ Occurs(names, m.name), e.marks = Append(d.marks, m)
  PROVE  /\ InOrder(Append(names, m.name), e)
         /\ MarkedAs(Append(names, m.name), e) = Append(MarkedAs(names, d), m)
<1> DEFINE kept == [p \in 1..Len(d.marks) |-> p]
           l == Len(d.marks)
<1>1. d.marks \in Seq(Mark) /\ l \in Nat
  BY DEF Session
<1>2. /\ Len(e.marks) = l + 1 /\ e.marks[l + 1] = m
      /\ \A j \in 1..l : e.marks[j] = d.marks[j]
  BY <1>1
<1>3. \A i \in 1..Len(names) :
        /\ At(d, names[i]) \in 1..l
        /\ \A j \in 1..l : d.marks[j].name = names[i] => j <= At(d, names[i])
  BY AtPosition DEF InOrder
<1>4. kept \in [1..Len(d.marks) -> Int] /\ \A p \in 1..l : kept[p] = p
  BY <1>1
<1> HIDE DEF kept
<1>5. \A i \in 1..Len(names) : LET p == At(d, names[i]) IN
        /\ kept[p] \in 1..Len(e.marks) /\ e.marks[kept[p]] = d.marks[p]
        /\ \A j \in 1..Len(e.marks) : e.marks[j].name = names[i] => j <= kept[p]
  <2>1. TAKE i \in 1..Len(names)
  <2> DEFINE p == At(d, names[i])
  <2>2. p \in 1..l /\ kept[p] = p /\ names[i] # m.name
    BY <1>3, <1>4 DEF Occurs
  <2>3. \A j \in 1..Len(e.marks) : e.marks[j].name = names[i] => j <= p
    <3>1. TAKE j \in 1..Len(e.marks)
    <3>2. j \in 1..l \/ j = l + 1
      BY <1>1, <1>2
    <3>3. QED
      BY <1>2, <1>3, <2>2, <3>2
  <2>4. QED
    BY <1>1, <1>2, <2>2, <2>3
<1>6. \A i, j \in 1..Len(names) : LET p == At(d, names[i])
                                      q == At(d, names[j])
                                  IN  p < q => kept[p] < kept[q]
  BY <1>3, <1>4
<1>7. InOrder(names, e) /\ MarkedAs(names, e) = MarkedAs(names, d)
  BY <1>4, <1>5, <1>6, Carried
<1>8. e.marks # <<>> /\ e.marks[Len(e.marks)] = m
  BY <1>1, <1>2
<1>9. m.name \in Name
  BY DEF Mark
<1>10. QED
  BY <1>7, <1>8, <1>9, PointAdded
=============================================================================
