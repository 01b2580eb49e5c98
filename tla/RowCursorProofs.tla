-------------------------- MODULE RowCursorProofs --------------------------
(* The (timestamp, id) cursors never pass a row that was not pushed: the     *)
(* event log objects source, for ordinary and for big objects, and the Apex  *)
(* log source, for any rows, timestamps, page sizes, windows and faults.     *)
EXTENDS EventLogObjects, ApexLog, FiniteSetTheorems, WellFoundedInduction, TLAPS

-----------------------------------------------------------------------------
(* Event log objects: the inductive invariant.                               *)

CursorSet == [wm : Nat, ids : Seq(Rows)]
EntrySet == [row : Rows \cup {0}, token : CursorSet]
Reached(i) == {flight[j].row : j \in 1 .. i}
\* Pushed, or on its way.
Handled == delivered \cup Reached(Len(flight))

DrainSet == [collected : SUBSET visible, upper : Nat, exclusive : BOOLEAN, tie : Nat,
             tieIds : SUBSET visible]

RowTypeOK ==
    /\ big \in BOOLEAN /\ visible \subseteq Rows
    /\ flight \in Seq(EntrySet)
    /\ pc \in {"idle", "query", "drain", "emit", "end"}
    /\ stored \in CursorSet /\ cursor \in CursorSet
    /\ todo \subseteq visible
    /\ drain \in DrainSet

\* A cursor stands at a row that was seen, or before every row.
Standing(c) ==
    /\ Elems(c.ids) \subseteq visible
    /\ c.wm = 0 \/ (c.ids # <<>> /\ Ts[LastId(c)] = c.wm)

\* What cursor c passes, and what its window holds, is in D.
Covers(c, D) ==
    /\ \A r \in visible \cap Kept : Passed(c, r) => r \in D
    /\ \A r \in Elems(c.ids) \cap Kept : r \in D

StoredCovered == Standing(stored) /\ Covers(stored, delivered)
EntryCovered(i) == Standing(flight[i].token) /\ Covers(flight[i].token, delivered \cup Reached(i))
FlightCovered == \A i \in 1 .. Len(flight) : EntryCovered(i)
CursorCovered == Standing(cursor) /\ Covers(cursor, Handled)

\* Whatever comes before a row that is still to be emitted is still to be
\* emitted or handled.
Sooner(a, m) == IF big THEN Ts[a] < Ts[m] ELSE Before(a, m)
TodoComplete ==
    pc = "emit" => \A a \in visible \cap Kept, m \in todo : Sooner(a, m) => a \in todo \cup Handled

\* The sweep's frontier: the rows that its further queries may still bring.
Below(r, d) ==
    IF d.tie # 0 THEN Ts[r] < d.tie \/ (Ts[r] = d.tie /\ r \notin d.tieIds)
    ELSE d.upper = 0 \/ Ts[r] < d.upper \/ (Ts[r] = d.upper /\ ~d.exclusive)

\* Every row of the window is collected, below the frontier, or not older than
\* anything collected.
Swept ==
    \A a \in visible : Ts[a] >= cursor.wm =>
        \/ a \in drain.collected \/ Below(a, drain)
        \/ \A q \in drain.collected : Ts[q] <= Ts[a]

\* What is collected is at or above the frontier.
CollectedAbove ==
    /\ drain.upper = 0 /\ drain.tie = 0 => drain.collected = {}
    /\ \A q \in drain.collected : IF drain.tie # 0 THEN Ts[q] >= drain.tie ELSE Ts[q] >= drain.upper

\* Fewer rows than a page are collected at the frontier and not known to the
\* tie escape, so a full page of them always brings a new one.
AtFrontier(d) ==
    IF d.tie # 0 THEN {q \in d.collected : Ts[q] = d.tie /\ q \notin d.tieIds}
    ELSE {q \in d.collected : Ts[q] = d.upper /\ ~d.exclusive}
FrontierBelowPage == Cardinality(AtFrontier(drain)) < Page

SweepSound == pc = "drain" => Swept /\ CollectedAbove /\ FrontierBelowPage
KindOfCycle == (pc = "drain" => big) /\ (pc = "query" => ~big)

RowInv ==
    /\ RowTypeOK /\ StoredCovered /\ FlightCovered /\ CursorCovered
    /\ TodoComplete /\ SweepSound /\ KindOfCycle

\* An ordinary object's rows appear in the order of the query; a big object's need not.
InOrder == big \/ "tie" \notin RowFaults

-----------------------------------------------------------------------------
(* What the operators return.                                                *)

\* The tail of a window ends where the window ends, and holds nothing else.
LEMMA LastNEnds ==
    ASSUME NEW s \in Seq(Rows), s # <<>>, NEW n \in Nat \ {0}
    PROVE  /\ LastN(s, n) \in Seq(Rows) /\ LastN(s, n) # <<>>
           /\ LastN(s, n)[Len(LastN(s, n))] = s[Len(s)]
           /\ Elems(LastN(s, n)) \subseteq Elems(s)
<1>1. PICK k \in 1 .. Len(s) : LastN(s, n) = SubSeq(s, k, Len(s))
  <2>1. Len(s) \in Nat \ {0}
    OBVIOUS
  <2>2. CASE Len(s) > n
    <3>1. Len(s) - n + 1 \in 1 .. Len(s)
      BY <2>1, <2>2
    <3> QED
      BY <2>2, <3>1 DEF LastN
  <2>3. CASE ~(Len(s) > n)
    BY <2>1, <2>3 DEF LastN
  <2> QED
    BY <2>2, <2>3
<1>2. /\ SubSeq(s, k, Len(s)) \in Seq(Rows)
      /\ Len(SubSeq(s, k, Len(s))) = Len(s) - k + 1
      /\ \A i \in 1 .. Len(s) - k + 1 : SubSeq(s, k, Len(s))[i] = s[k + i - 1]
  BY <1>1
<1>3. DOMAIN SubSeq(s, k, Len(s)) = 1 .. Len(s) - k + 1
  BY <1>2
<1>4. Elems(SubSeq(s, k, Len(s))) \subseteq Elems(s)
  <2> SUFFICES ASSUME NEW i \in 1 .. Len(s) - k + 1
               PROVE  SubSeq(s, k, Len(s))[i] \in Elems(s)
    BY <1>3 DEF Elems
  <2>1. k + i - 1 \in DOMAIN s
    BY <1>1
  <2> QED
    BY <1>2, <2>1 DEF Elems
<1>5. /\ Len(s) - k + 1 \in 1 .. Len(s) - k + 1
      /\ k + (Len(s) - k + 1) - 1 = Len(s)
      /\ Len(s) - k + 1 # 0
  BY <1>1
<1>6. SubSeq(s, k, Len(s))[Len(SubSeq(s, k, Len(s)))] = s[Len(s)]
  BY <1>2, <1>5
<1>7. SubSeq(s, k, Len(s)) # <<>>
  BY <1>2, <1>5
<1> QED
  BY <1>1, <1>2, <1>4, <1>6, <1>7

\* The cursor after row r.
LEMMA AdvanceStands ==
    ASSUME RowsAssumption, NEW c \in CursorSet, NEW r \in Rows
    PROVE  /\ Advance(c, r) \in CursorSet
           /\ Advance(c, r).wm = Ts[r] /\ Ts[r] \in Nat \ {0}
           /\ Advance(c, r).ids # <<>> /\ LastId(Advance(c, r)) = r
           /\ Elems(Advance(c, r).ids) \subseteq Elems(c.ids) \cup {r}
<1>1. Carried \in Nat \ {0} /\ Ts[r] \in Nat \ {0}
  BY DEF RowsAssumption
<1>2. /\ c.ids \in Seq(Rows) /\ Append(c.ids, r) \in Seq(Rows) /\ Append(c.ids, r) # <<>>
      /\ Append(c.ids, r)[Len(Append(c.ids, r))] = r
  BY DEF CursorSet
<1>3. Elems(Append(c.ids, r)) \subseteq Elems(c.ids) \cup {r}
  BY <1>2 DEF Elems
<1>4. /\ LastN(Append(c.ids, r), Carried) \in Seq(Rows) /\ LastN(Append(c.ids, r), Carried) # <<>>
      /\ LastN(Append(c.ids, r), Carried)[Len(LastN(Append(c.ids, r), Carried))] = r
      /\ Elems(LastN(Append(c.ids, r), Carried)) \subseteq Elems(Append(c.ids, r))
  BY <1>1, <1>2, LastNEnds
<1> QED
  BY <1>1, <1>3, <1>4 DEF Advance, LastId, CursorSet

\* A nonempty set of numbers has a least one.
LEMMA LeastNumber ==
    ASSUME NEW T, T \subseteq Nat, T # {}
    PROVE  \E t \in T : \A u \in T : t <= u
<1>1. PICK t \in T : \A u \in T : ~(<<u, t>> \in OpToRel(<, Nat))
  BY NatLessThanWellFounded, WFMin
<1>2. \A u \in T : t <= u
  <2> SUFFICES ASSUME NEW u \in T, u < t PROVE FALSE
    OBVIOUS
  <2>1. <<u, t>> \in Nat \X Nat /\ <<u, t>>[1] < <<u, t>>[2]
    OBVIOUS
  <2>2. <<u, t>> \in OpToRel(<, Nat)
    BY <2>1, Zenon DEF OpToRel
  <2> QED
    BY <1>1, <2>2
<1> QED
  BY <1>2

\* The oldest timestamp of a page.
LEMMA OldestIsLeast ==
    ASSUME RowsAssumption, NEW p, p \subseteq Rows, p # {}
    PROVE  Oldest(p) \in {Ts[r] : r \in p} /\ \A r \in p : Oldest(p) <= Ts[r]
<1>0. {Ts[r] : r \in p} \subseteq Nat /\ {Ts[r] : r \in p} # {}
  BY DEF RowsAssumption
<1>1. \E t \in {Ts[r] : r \in p} : \A u \in {Ts[r] : r \in p} : t <= u
  BY <1>0, LeastNumber
<1>2. \E t \in {Ts[r] : r \in p} : \A r \in p : t <= Ts[r]
  BY <1>1
<1> QED
  BY <1>2, Zenon DEF Oldest

\* The page of an ordinary object holds whatever comes before a row of it.
LEMMA PageIsOldest ==
    ASSUME RowsAssumption, NEW S, S \subseteq Rows, NEW m \in OldestPage(S), NEW a \in S, Before(a, m)
    PROVE  a \in OldestPage(S)
<1> DEFINE X(r) == {q \in S : Before(q, r)}
<1>1. X(a) \subseteq X(m) /\ m \in S
  <2>1. m \in S
    BY DEF OldestPage
  <2> SUFFICES ASSUME NEW q \in S, Before(q, a)
               PROVE  Before(q, m)
    BY <2>1
  <2>2. /\ q \in Nat /\ a \in Nat /\ m \in Nat
        /\ Ts[q] \in Nat /\ Ts[a] \in Nat /\ Ts[m] \in Nat
    BY <2>1 DEF RowsAssumption
  <2> QED
    BY <2>2 DEF Before
<1>2. IsFiniteSet(S) /\ IsFiniteSet(X(m))
  BY FS_Subset DEF RowsAssumption
<1>3. Cardinality(X(a)) <= Cardinality(X(m)) /\ IsFiniteSet(X(a))
  BY <1>1, <1>2, FS_Subset
<1>4. Cardinality(X(a)) \in Nat /\ Cardinality(X(m)) \in Nat /\ Cardinality(X(m)) < Page /\ Page \in Nat
  BY <1>2, <1>3, FS_CardinalityType DEF OldestPage, RowsAssumption
<1>5. Cardinality(X(a)) < Page
  <2> HIDE DEF X
  <2> QED
    BY <1>3, <1>4
<1> QED
  BY <1>5 DEF OldestPage

\* A page of a sweep: a short one holds every match, a full one the newest.
LEMMA NewestPage ==
    ASSUME RowsAssumption, NEW S, S \subseteq Rows, NEW p \in NewestPages(S)
    PROVE  /\ p \subseteq S /\ IsFiniteSet(p) /\ Cardinality(p) \in Nat
           /\ Cardinality(p) < Page => p = S
           /\ ~(Cardinality(p) < Page) => Cardinality(p) = Page /\ p # {}
           /\ \A q \in p, r \in S \ p : Ts[r] <= Ts[q]
<1>1. p \subseteq S /\ \A q \in p, r \in S \ p : Ts[r] <= Ts[q]
  BY DEF NewestPages
<1>2. IsFiniteSet(S) /\ Cardinality(S) \in Nat /\ Page \in Nat \ {0}
  BY FS_Subset, FS_CardinalityType DEF RowsAssumption
<1>3. IsFiniteSet(p) /\ Cardinality(p) \in Nat /\ (Cardinality(S) = Cardinality(p) => S = p)
  BY <1>1, <1>2, FS_Subset, FS_CardinalityType
<1>4. Cardinality(p) = IF Cardinality(S) < Page THEN Cardinality(S) ELSE Page
  BY DEF NewestPages
<1>5. Cardinality(p) = Page => p # {}
  BY <1>2, FS_EmptySet
<1> QED
  BY <1>1, <1>2, <1>3, <1>4, <1>5

\* The memory bound only gives up rows that are not older than the retained ones.
LEMMA RetainedAreOldest ==
    ASSUME NEW S, NEW k \in Retained(S)
    PROVE  k \subseteq S /\ \A q \in k, r \in S \ k : Ts[q] <= Ts[r]
BY DEF Retained

-----------------------------------------------------------------------------
(* The pipeline behind the source, and new rows.                             *)

\* Nothing that the pipeline or Salesforce keeps has changed.
LEMMA OutsideSame ==
    ASSUME RowInv, UNCHANGED <<big, visible, delivered, stored, flight>>
    PROVE  StoredCovered' /\ FlightCovered' /\ Handled' = Handled
<1>1. StoredCovered'
  BY DEF RowInv, StoredCovered, EntryCovered, Standing, Covers, Passed, LastId
<1>2. \A i : Reached(i)' = Reached(i)
  BY DEF Reached
<1>3. FlightCovered'
  BY <1>2 DEF RowInv, FlightCovered, EntryCovered, Standing, Covers, Passed, LastId
<1> QED
  BY <1>1, <1>2, <1>3 DEF Handled

\* Entry e goes to the pipeline.
LEMMA EntryFollows ==
    ASSUME RowInv, UNCHANGED <<big, visible, delivered, stored>>,
           NEW e \in EntrySet, flight' = Append(flight, e),
           Standing(e.token), Covers(e.token, Handled \cup {e.row})
    PROVE  /\ StoredCovered' /\ FlightCovered'
           /\ flight' \in Seq(EntrySet)
           /\ Handled' = Handled \cup {e.row}
<1>0. flight \in Seq(EntrySet)
  BY DEF RowInv, RowTypeOK
<1>1. PICK n \in Nat : n = Len(flight)
  BY <1>0
<1>2. /\ flight' \in Seq(EntrySet) /\ Len(flight') = n + 1
      /\ flight'[n + 1] = e /\ \A i \in 1 .. n : flight'[i] = flight[i]
  BY <1>0, <1>1
<1>3. StoredCovered'
  BY DEF RowInv, StoredCovered, EntryCovered, Standing, Covers, Passed, LastId
<1>4. \A i \in 0 .. n : Reached(i)' = Reached(i)
  <2> SUFFICES ASSUME NEW i \in 0 .. n PROVE Reached(i)' = Reached(i)
    OBVIOUS
  <2>1. \A j \in 1 .. i : flight'[j].row = flight[j].row
    BY <1>1, <1>2
  <2> QED
    BY <2>1 DEF Reached
<1>5. Reached(n + 1)' = Reached(n) \cup {e.row}
  <2>1. \A j \in 1 .. n + 1 : j \in 1 .. n \/ j = n + 1
    BY <1>1
  <2>2. \A j \in 1 .. n : j \in 1 .. n + 1 /\ flight'[j].row = flight[j].row
    BY <1>1, <1>2
  <2>3. n + 1 \in 1 .. n + 1 /\ flight'[n + 1].row = e.row
    BY <1>1, <1>2
  <2>4. Reached(n + 1)' = {flight'[j].row : j \in 1 .. n + 1} /\ Reached(n) = {flight[j].row : j \in 1 .. n}
    BY DEF Reached
  <2>5. {flight'[j].row : j \in 1 .. n + 1} \subseteq {flight[j].row : j \in 1 .. n} \cup {e.row}
    BY <2>1, <2>2, <2>3
  <2>6. {flight[j].row : j \in 1 .. n} \subseteq {flight'[j].row : j \in 1 .. n + 1}
    BY <2>2
  <2>7. e.row \in {flight'[j].row : j \in 1 .. n + 1}
    BY <2>3
  <2> QED
    BY <2>4, <2>5, <2>6, <2>7
<1>6. Handled' = Handled \cup {e.row}
  BY <1>1, <1>2, <1>5 DEF Handled
<1>7. FlightCovered'
  <2> SUFFICES ASSUME NEW i \in 1 .. n + 1
               PROVE  EntryCovered(i)'
    BY <1>2 DEF FlightCovered
  <2>1. CASE i \in 1 .. n
    <3>1. Standing(flight[i].token) /\ Covers(flight[i].token, delivered \cup Reached(i))
      BY <1>1, <2>1 DEF RowInv, FlightCovered, EntryCovered
    <3>2. flight'[i] = flight[i] /\ Reached(i)' = Reached(i)
      BY <1>1, <1>2, <1>4, <2>1
    <3> QED
      BY <3>1, <3>2 DEF EntryCovered, Standing, Covers, Passed, LastId
  <2>2. CASE i = n + 1
    <3>1. flight'[i] = e /\ delivered \cup Reached(i)' = Handled \cup {e.row}
      BY <1>1, <1>2, <1>5, <2>2 DEF Handled
    <3> QED
      BY <3>1 DEF EntryCovered, Standing, Covers, Passed, LastId
  <2> QED
    BY <1>1, <2>1, <2>2
<1> QED
  BY <1>2, <1>3, <1>6, <1>7

\* A cycle's own part of the invariant depends on the rest only through these.
LEMMA CycleSame ==
    ASSUME RowInv, UNCHANGED <<big, visible, cycleVars>>, \A r \in Handled \cap Kept : r \in Handled'
    PROVE  CursorCovered' /\ TodoComplete' /\ SweepSound' /\ KindOfCycle'
<1>1. UNCHANGED <<pc, cursor, todo, drain>>
  BY DEF cycleVars
<1>2. CursorCovered'
  BY <1>1 DEF RowInv, CursorCovered, EntryCovered, Standing, Covers, Passed, LastId
<1>3. TodoComplete'
  BY <1>1 DEF RowInv, TodoComplete, Sooner
<1>4. SweepSound'
  BY <1>1 DEF RowInv, SweepSound, Swept, CollectedAbove, FrontierBelowPage, AtFrontier, Below
<1>5. KindOfCycle'
  BY <1>1 DEF RowInv, KindOfCycle
<1> QED
  BY <1>2, <1>3, <1>4, <1>5

LEMMA PushInv ==
    ASSUME RowInv, Push
    PROVE  RowInv'
<1>1. UNCHANGED <<big, visible, stored, flight, cycleVars>> /\ delivered \subseteq delivered'
  BY DEF Push
<1>2. RowTypeOK'
  BY <1>1 DEF RowInv, RowTypeOK, DrainSet, cycleVars
<1>3. \A i : Reached(i)' = Reached(i)
  BY <1>1 DEF Reached
<1>4. StoredCovered'
  BY <1>1 DEF RowInv, StoredCovered, EntryCovered, Standing, Covers, Passed, LastId
<1>5. FlightCovered'
  BY <1>1, <1>3 DEF RowInv, FlightCovered, EntryCovered, Standing, Covers, Passed, LastId
<1>6. \A r \in Handled \cap Kept : r \in Handled'
  BY <1>1, <1>3 DEF Handled
<1> QED
  BY <1>1, <1>2, <1>4, <1>5, <1>6, CycleSame DEF RowInv

LEMMA CommitInv ==
    ASSUME RowInv, CommitToken
    PROVE  RowInv'
<1>1. /\ UNCHANGED <<big, visible, delivered, cycleVars>>
      /\ flight # <<>> /\ flight[1].row \in delivered \cup {0}
      /\ stored' = flight[1].token /\ flight' = Tail(flight)
  BY DEF CommitToken
<1>0. flight \in Seq(EntrySet)
  BY DEF RowInv, RowTypeOK
<1>2. PICK n \in Nat \ {0} : n = Len(flight)
  BY <1>0, <1>1
<1>3. /\ flight' \in Seq(EntrySet) /\ Len(flight') = n - 1
      /\ \A i \in 1 .. n - 1 : flight'[i] = flight[i + 1]
  BY <1>0, <1>1, <1>2
<1>4. stored' \in CursorSet
  <2>1. flight[1] \in EntrySet
    BY <1>0, <1>1, <1>2
  <2> QED
    BY <1>1, <2>1 DEF EntrySet
<1>5. RowTypeOK'
  BY <1>1, <1>3, <1>4 DEF RowInv, RowTypeOK, DrainSet, cycleVars
<1>6. ASSUME NEW i \in 0 .. n - 1, NEW r \in Kept, r \in delivered \cup Reached(i + 1)
      PROVE  r \in delivered \cup Reached(i)'
  <2>1. r # 0
    BY RowsAssumption
  <2>2. CASE r \in delivered
    BY <2>2
  <2>3. CASE r \in Reached(i + 1)
    <3>1. PICK j \in 1 .. i + 1 : r = flight[j].row
      BY <2>3 DEF Reached
    <3>2. CASE j = 1
      BY <1>1, <2>1, <3>1, <3>2
    <3>3. CASE j # 1
      <4>1. j - 1 \in 1 .. i /\ flight'[j - 1] = flight[j]
        BY <1>2, <1>3, <3>3
      <4> QED
        BY <3>1, <4>1 DEF Reached
    <3> QED
      BY <3>2, <3>3
  <2> QED
    BY <1>6, <2>2, <2>3
<1>7. StoredCovered'
  <2>1. 1 \in 1 .. Len(flight) /\ 0 \in 0 .. n - 1 /\ 0 + 1 = 1
    BY <1>2
  <2>2. Standing(flight[1].token) /\ Covers(flight[1].token, delivered \cup Reached(1))
    BY <2>1 DEF RowInv, FlightCovered, EntryCovered
  <2>3. \A r \in Kept : r \in delivered \cup Reached(1) => r \in delivered
    <3>1. Reached(0)' = {}
      BY DEF Reached
    <3> QED
      BY <1>6, <2>1, <3>1
  <2> QED
    BY <1>1, <2>2, <2>3 DEF StoredCovered, EntryCovered, Standing, Covers, Passed, LastId
<1>8. FlightCovered'
  <2> SUFFICES ASSUME NEW i \in 1 .. n - 1
               PROVE  EntryCovered(i)'
    BY <1>3 DEF FlightCovered
  <2>1. i + 1 \in 1 .. Len(flight) /\ i \in 0 .. n - 1 /\ flight'[i] = flight[i + 1]
    BY <1>2, <1>3
  <2>2. Standing(flight[i + 1].token) /\ Covers(flight[i + 1].token, delivered \cup Reached(i + 1))
    BY <2>1 DEF RowInv, FlightCovered, EntryCovered
  <2>3. \A r \in Kept : r \in delivered \cup Reached(i + 1) => r \in delivered \cup Reached(i)'
    BY <1>6, <2>1
  <2> QED
    BY <1>1, <2>1, <2>2, <2>3 DEF EntryCovered, Standing, Covers, Passed, LastId
<1>9. \A r \in Handled \cap Kept : r \in Handled'
  <2>1. n - 1 \in 0 .. n - 1 /\ (n - 1) + 1 = n /\ delivered' = delivered
    BY <1>1, <1>2
  <2>2. \A r \in Kept : r \in delivered \cup Reached(n) => r \in delivered \cup Reached(n - 1)'
    BY <1>6, <2>1
  <2>3. Handled = delivered \cup Reached(n) /\ Handled' = delivered \cup Reached(n - 1)'
    BY <1>2, <1>3, <2>1 DEF Handled
  <2> QED
    BY <2>2, <2>3
<1> QED
  BY <1>1, <1>5, <1>7, <1>8, <1>9, CycleSame DEF RowInv

\* A row that appears is behind no cursor.
LEMMA NewRowAhead ==
    ASSUME RowInv, InOrder, NEW x \in Rows, Appear(x), NEW c \in CursorSet, Standing(c)
    PROVE  ~Passed(c, x) /\ x \notin Elems(c.ids)
<1>1. x \notin visible /\ \A q \in visible : IF "tie" \in RowFaults THEN Ts[q] <= Ts[x] ELSE Before(q, x)
  BY DEF Appear
<1>2. x \notin Elems(c.ids)
  BY <1>1 DEF EntryCovered, Standing
<1>3. Ts[x] \in Nat \ {0} /\ x \in Nat /\ big \in BOOLEAN /\ c.wm \in Nat
  BY RowsAssumption DEF RowInv, RowTypeOK, CursorSet
<1>4. CASE c.wm = 0
  BY <1>2, <1>3, <1>4 DEF Passed
<1>5. CASE c.ids # <<>> /\ Ts[LastId(c)] = c.wm
  <2>1. LastId(c) \in visible
    <3>1. c.ids \in Seq(Rows) /\ Len(c.ids) \in DOMAIN c.ids
      BY <1>5 DEF CursorSet
    <3> QED
      BY <1>5, <3>1 DEF LastId, Elems, EntryCovered, Standing
  <2>2. LastId(c) \in Nat /\ Ts[LastId(c)] \in Nat
    BY <2>1, RowsAssumption DEF RowInv, RowTypeOK
  <2>3. Ts[LastId(c)] <= Ts[x] /\ (~big => Before(LastId(c), x))
    BY <1>1, <1>3, <2>1, <2>2 DEF Before, InOrder
  <2> QED
    BY <1>2, <1>3, <1>5, <2>2, <2>3 DEF Passed, Before
<1> QED
  BY <1>4, <1>5 DEF EntryCovered, Standing

LEMMA AppearInv ==
    ASSUME RowInv, InOrder, NEW x \in Rows, Appear(x)
    PROVE  RowInv'
<1>1. /\ visible' = visible \cup {x} /\ x \notin visible
      /\ UNCHANGED <<big, delivered, stored, flight, pc, cursor, todo, drain>>
  BY DEF Appear, cycleVars
<1>2. \A q \in visible : Ts[q] <= Ts[x] /\ Ts[q] \in Nat /\ q \in Nat
  BY RowsAssumption DEF Appear, Before, RowInv, RowTypeOK
<1>3. Ts[x] \in Nat \ {0} /\ x \in Nat
  BY RowsAssumption
<1>4. RowTypeOK'
  BY <1>1 DEF RowInv, RowTypeOK, DrainSet
<1>5. ASSUME NEW c \in CursorSet, NEW D, Standing(c), Covers(c, D)
      PROVE  Standing(c)' /\ Covers(c, D)'
  <2>1. ~Passed(c, x) /\ x \notin Elems(c.ids)
    BY <1>5, NewRowAhead
  <2> QED
    BY <1>1, <1>5, <2>1 DEF EntryCovered, Standing, Covers, Passed, LastId, Elems
<1>6. StoredCovered'
  BY <1>1, <1>5 DEF RowInv, RowTypeOK, StoredCovered
<1>7. \A i : Reached(i)' = Reached(i)
  BY <1>1 DEF Reached
<1>8. FlightCovered'
  <2> SUFFICES ASSUME NEW i \in 1 .. Len(flight)
               PROVE  EntryCovered(i)'
    BY <1>1 DEF FlightCovered
  <2>1. flight[i].token \in CursorSet
    <3>1. flight[i] \in EntrySet
      BY DEF RowInv, RowTypeOK
    <3> QED
      BY <3>1 DEF EntrySet
  <2>2. PICK c \in CursorSet, D \in {delivered \cup Reached(i)} :
            c = flight[i].token /\ D = delivered \cup Reached(i)
    BY <2>1
  <2>3. Standing(c) /\ Covers(c, D)
    BY <2>2 DEF RowInv, FlightCovered, EntryCovered
  <2>4. Standing(c)' /\ Covers(c, D)'
    BY <1>5, <2>3
  <2>5. flight'[i].token = c /\ delivered' \cup Reached(i)' = D
    BY <1>1, <1>7, <2>2
  <2> QED
    BY <1>1, <1>7, <2>2, <2>4, <2>5 DEF EntryCovered, Standing, Covers, Passed, LastId
<1>9. CursorCovered'
  <2>1. Handled' = Handled
    BY <1>1, <1>7 DEF Handled
  <2> QED
    BY <1>1, <1>5, <2>1 DEF RowInv, RowTypeOK, CursorCovered
<1>10. TodoComplete'
  <2>1. Handled' = Handled
    BY <1>1, <1>7 DEF Handled
  <2>2. \A m \in todo : ~Sooner(x, m)
    <3>1. \A m \in todo : m \in visible
      BY DEF RowInv, RowTypeOK
    <3>2. \A q \in visible : ~big => Before(q, x)
      BY DEF Appear, InOrder
    <3> QED
      BY <1>2, <1>3, <3>1, <3>2 DEF Sooner, Before
  <2> QED
    BY <1>1, <2>1, <2>2 DEF RowInv, TodoComplete, Sooner
<1>11. SweepSound'
  <2> SUFFICES ASSUME pc = "drain"
               PROVE  Swept' /\ CollectedAbove' /\ FrontierBelowPage'
    BY <1>1 DEF SweepSound
  <2>1. Swept /\ CollectedAbove /\ FrontierBelowPage
    BY DEF RowInv, SweepSound
  <2>2. CollectedAbove' /\ FrontierBelowPage'
    BY <1>1, <2>1 DEF CollectedAbove, FrontierBelowPage, AtFrontier
  <2>3. \A q \in drain.collected : Ts[q] <= Ts[x]
    BY <1>2 DEF RowInv, RowTypeOK, DrainSet
  <2>4. Swept'
    BY <1>1, <2>1, <2>3 DEF Swept, Below
  <2> QED
    BY <2>2, <2>4
<1>12. KindOfCycle'
  BY <1>1 DEF RowInv, KindOfCycle
<1> QED
  BY <1>4, <1>6, <1>8, <1>9, <1>10, <1>11, <1>12 DEF RowInv

-----------------------------------------------------------------------------
(* A cycle of either kind.                                                   *)

\* Before every row nothing is passed.
LEMMA NoCursorCovers == NoCursor \in CursorSet /\ Standing(NoCursor) /\ \A D : RowTypeOK => Covers(NoCursor, D)
<1>1. NoCursor \in CursorSet /\ Elems(NoCursor.ids) = {} /\ NoCursor.wm = 0
  BY DEF NoCursor, CursorSet, Elems
<1>2. ASSUME RowTypeOK, NEW r \in visible PROVE ~Passed(NoCursor, r)
  <2>1. Ts[r] \in Nat \ {0}
    BY <1>2, RowsAssumption DEF RowTypeOK
  <2> QED
    BY <1>1, <2>1 DEF Passed
<1> QED
  BY <1>1, <1>2 DEF Standing, Covers

\* A cycle that is over has nothing left to keep sound.
LEMMA CycleOver ==
    ASSUME RowInv, EndCycle, UNCHANGED <<big, visible, delivered, stored>>,
           StoredCovered', FlightCovered', flight' \in Seq(EntrySet)
    PROVE  RowInv'
<1>1. pc' = "idle" /\ cursor' = NoCursor /\ todo' = {} /\ drain' = NoDrain
  BY DEF EndCycle
<1>2. NoDrain \in DrainSet
  BY DEF NoDrain, DrainSet
<1>3. RowTypeOK'
  BY <1>1, <1>2, NoCursorCovers DEF RowInv, RowTypeOK, DrainSet
<1>4. CursorCovered'
  <2>1. Standing(NoCursor)' /\ \A D : Covers(NoCursor, D)'
    <3>1. Elems(NoCursor.ids) = {} /\ NoCursor.wm = 0
      BY DEF NoCursor, Elems
    <3>2. \A r \in visible : ~Passed(NoCursor, r)'
      <4> SUFFICES ASSUME NEW r \in visible PROVE ~Passed(NoCursor, r)'
        OBVIOUS
      <4>1. Ts[r] \in Nat \ {0}
        BY RowsAssumption DEF RowInv, RowTypeOK
      <4> QED
        BY <3>1, <4>1 DEF Passed
    <3> QED
      BY <3>1, <3>2 DEF Standing, Covers
  <2> QED
    BY <1>1, <2>1 DEF CursorCovered, Standing, Covers, Passed, LastId
<1> QED
  BY <1>1, <1>3, <1>4 DEF RowInv, TodoComplete, SweepSound, KindOfCycle

LEMMA GivenUpInv ==
    ASSUME RowInv, QueryFails \/ Stop
    PROVE  RowInv'
<1>1. EndCycle /\ UNCHANGED <<big, visible, delivered, stored, flight>>
  BY DEF QueryFails, Stop, StopCycle
<1> QED
  BY <1>1, OutsideSame, CycleOver DEF RowInv, RowTypeOK

LEMMA CrashInv ==
    ASSUME RowInv, Crash
    PROVE  RowInv'
<1>1. EndCycle /\ UNCHANGED <<big, visible, delivered, stored>> /\ flight' = <<>>
  BY DEF Crash
<1>2. StoredCovered'
  BY <1>1 DEF RowInv, StoredCovered, Standing, Covers, Passed, LastId
<1>3. FlightCovered' /\ flight' \in Seq(EntrySet)
  BY <1>1 DEF FlightCovered
<1> QED
  BY <1>1, <1>2, <1>3, CycleOver

LEMMA EndInv ==
    ASSUME RowInv, End
    PROVE  RowInv'
<1>1. EndCycle /\ UNCHANGED <<big, visible, delivered, stored>>
  BY DEF End
<1>2. CASE UNCHANGED flight
  BY <1>1, <1>2, OutsideSame, CycleOver DEF RowInv, RowTypeOK
<1>3. CASE flight' = Append(flight, [row |-> 0, token |-> cursor])
  <2>1. PICK e \in EntrySet : e = [row |-> 0, token |-> cursor]
    BY DEF EntrySet, RowInv, RowTypeOK
  <2>2. Standing(e.token) /\ Covers(e.token, Handled \cup {e.row})
    BY <2>1 DEF RowInv, CursorCovered, Covers
  <2> QED
    BY <1>1, <1>3, <2>1, <2>2, EntryFollows, CycleOver
<1> QED
  BY <1>2, <1>3 DEF End

\* A cycle begins from a cursor behind which everything is pushed.
LEMMA CycleBegins ==
    ASSUME RowInv, NEW c \in CursorSet, BeginWith(c), Standing(c), Covers(c, delivered)
    PROVE  RowInv'
<1>1. /\ cursor' = c /\ drain' = NoDrain /\ pc' = (IF big THEN "drain" ELSE "query")
      /\ UNCHANGED <<big, visible, delivered, stored, flight, todo>>
  BY DEF BeginWith
<1>2. NoDrain \in DrainSet
  BY DEF NoDrain, DrainSet
<1>3. RowTypeOK'
  BY <1>1, <1>2 DEF RowInv, RowTypeOK, DrainSet
<1>4. StoredCovered' /\ FlightCovered' /\ Handled' = Handled
  BY <1>1, OutsideSame
<1>5. CursorCovered'
  BY <1>1, <1>4 DEF CursorCovered, Handled, Standing, Covers, Passed, LastId
<1>6. SweepSound'
  <2>1. Swept' /\ CollectedAbove'
    BY <1>1 DEF Swept, CollectedAbove, Below, NoDrain
  <2>2. AtFrontier(NoDrain) = {}
    BY DEF AtFrontier, NoDrain
  <2>3. FrontierBelowPage'
    BY <1>1, <2>2, FS_EmptySet, RowsAssumption DEF FrontierBelowPage, AtFrontier
  <2> QED
    BY <2>1, <2>3 DEF SweepSound
<1>7. TodoComplete' /\ KindOfCycle'
  BY <1>1 DEF TodoComplete, KindOfCycle
<1> QED
  BY <1>3, <1>4, <1>5, <1>6, <1>7 DEF RowInv

LEMMA BeginInv ==
    ASSUME RowInv, Begin \/ BeginGarbage
    PROVE  RowInv'
<1>1. CASE Begin
  BY <1>1, CycleBegins DEF Begin, RowInv, RowTypeOK, StoredCovered
<1>2. CASE BeginGarbage
  <2>1. PICK c \in CursorSet : c = [stored EXCEPT !.wm = 0]
    BY DEF RowInv, RowTypeOK, CursorSet
  <2>2. c.wm = 0 /\ c.ids = stored.ids
    BY <2>1 DEF RowInv, RowTypeOK, CursorSet
  <2>3. Standing(c)
    BY <2>2 DEF RowInv, StoredCovered, Standing
  <2>4. \A r \in visible : ~Passed(c, r)
    <3> SUFFICES ASSUME NEW r \in visible PROVE ~Passed(c, r)
      OBVIOUS
    <3>1. Ts[r] \in Nat \ {0}
      BY RowsAssumption DEF RowInv, RowTypeOK
    <3> QED
      BY <2>2, <3>1 DEF Passed
  <2>5. Covers(c, delivered)
    BY <2>2, <2>4 DEF RowInv, StoredCovered, Covers
  <2> QED
    BY <1>2, <2>1, <2>3, <2>5, CycleBegins DEF BeginGarbage
<1> QED
  BY <1>1, <1>2

\* A page of an ordinary object: whatever precedes one of its rows is in it,
\* in the window, or behind the cursor.
LEMMA QueryInv ==
    ASSUME RowInv, Query
    PROVE  RowInv'
<1> DEFINE page == OldestPage(Matches)
<1>1. /\ todo' = page \ Elems(cursor.ids) /\ pc' \in {"end", "emit"} /\ pc = "query"
      /\ UNCHANGED <<big, visible, delivered, stored, flight, cursor, drain>>
  BY DEF Query
<1>2. Matches \subseteq visible /\ page \subseteq Matches /\ visible \subseteq Rows /\ ~big
  BY <1>1 DEF Matches, OldestPage, RowInv, RowTypeOK, KindOfCycle
<1>3. RowTypeOK'
  BY <1>1, <1>2 DEF RowInv, RowTypeOK, DrainSet
<1>4. StoredCovered' /\ FlightCovered' /\ Handled' = Handled
  BY <1>1, OutsideSame
<1>5. CursorCovered'
  BY <1>1, <1>4 DEF RowInv, CursorCovered, Standing, Covers, Passed, LastId
<1>6. ASSUME NEW a \in visible \cap Kept, NEW m \in todo', Before(a, m)
      PROVE  a \in todo' \cup Handled
  <2>1. m \in page /\ m \in Rows /\ a \in Rows
    BY <1>1, <1>2
  <2>2. CASE a \in Matches
    <3>1. a \in page
      BY <1>2, <1>6, <2>1, <2>2, RowsAssumption, PageIsOldest
    <3>2. a \in Elems(cursor.ids) => a \in Handled
      BY DEF RowInv, CursorCovered, Covers
    <3> QED
      BY <1>1, <3>1, <3>2
  <2>3. CASE a \notin Matches
    <3>1. Ts[a] \in Nat /\ cursor.wm \in Nat /\ a \in Nat /\ LastId(cursor) \in Nat
      <4>1. cursor.ids \in Seq(Rows) /\ cursor.wm \in Nat
        BY DEF RowInv, RowTypeOK, CursorSet
      <4>2. LastId(cursor) \in Nat
        BY <4>1, RowsAssumption DEF LastId
      <4> QED
        BY <2>1, <4>1, <4>2, RowsAssumption
    <3>2. Passed(cursor, a)
      BY <1>2, <2>3, <3>1 DEF Matches, Passed
    <3> QED
      BY <3>2 DEF RowInv, CursorCovered, Covers
  <2> QED
    BY <2>2, <2>3
<1>7. TodoComplete'
  BY <1>1, <1>2, <1>4, <1>6 DEF TodoComplete, Sooner, Before
<1> QED
  BY <1>1, <1>3, <1>4, <1>5, <1>7 DEF RowInv, SweepSound, KindOfCycle

\* The next row is emitted, or dropped: the cursor moves to it, and everything
\* sooner is handled.
LEMMA EmitInv ==
    ASSUME RowInv, NEW r \in Rows, Emit(r)
    PROVE  RowInv'
<1>1. /\ pc = "emit" /\ r \in todo /\ IsNext(r) /\ cursor' = Advance(cursor, r) /\ todo' = todo \ {r}
      /\ pc' \in {"emit", "query", "end"} /\ (pc' = "query" => ~big)
      /\ UNCHANGED <<big, visible, delivered, stored, drain>>
  BY DEF Emit
<1>2. cursor \in CursorSet /\ todo \subseteq visible /\ visible \subseteq Rows /\ big \in BOOLEAN
  BY DEF RowInv, RowTypeOK
<1>3. PICK c \in CursorSet : c = Advance(cursor, r)
  BY <1>2, RowsAssumption, AdvanceStands
<1>4. /\ c.wm = Ts[r] /\ c.ids # <<>> /\ LastId(c) = r
      /\ Elems(c.ids) \subseteq Elems(cursor.ids) \cup {r}
  BY <1>2, <1>3, RowsAssumption, AdvanceStands
<1>5. Standing(c)
  BY <1>1, <1>2, <1>4 DEF RowInv, CursorCovered, Standing
<1>6. Elems(c.ids) \cap Kept \subseteq Handled \cup {r}
  BY <1>4 DEF RowInv, CursorCovered, Covers
<1>7. ASSUME NEW a \in visible \cap Kept, Passed(c, a)
      PROVE  a \in Handled \cup {r}
  <2>1. Ts[a] \in Nat /\ Ts[r] \in Nat /\ a \in Nat /\ r \in Nat
    BY <1>2, RowsAssumption
  <2>2. CASE a \in Elems(c.ids)
    BY <1>6, <2>2
  <2>3. CASE a = r
    BY <2>3
  <2>4. CASE a # r /\ a \notin Elems(c.ids)
    <3>1. Sooner(a, r)
      BY <1>2, <1>4, <1>7, <2>1, <2>4 DEF Passed, Sooner, Before
    <3>2. a \in todo \cup Handled
      BY <1>1, <3>1 DEF RowInv, TodoComplete
    <3>3. a \notin todo
      BY <1>1, <2>1, <2>4, <3>1 DEF IsNext, Sooner, Before
    <3> QED
      BY <3>2, <3>3
  <2> QED
    BY <2>2, <2>3, <2>4
<1>8. \A D : (Handled \cup {r}) \cap Kept \subseteq D => Covers(c, D)
  BY <1>6, <1>7 DEF Covers
<1>9. /\ StoredCovered' /\ FlightCovered' /\ flight' \in Seq(EntrySet)
      /\ (Handled \cup {r}) \cap Kept \subseteq Handled'
  <2>1. CASE r \in Kept
    <3>1. PICK e \in EntrySet : e = [row |-> r, token |-> c]
      BY DEF EntrySet
    <3>2. flight' = Append(flight, e)
      BY <1>3, <2>1, <3>1 DEF Emit
    <3>3. Standing(e.token) /\ Covers(e.token, Handled \cup {e.row}) /\ e.row = r
      BY <1>5, <1>8, <3>1
    <3> QED
      BY <1>1, <3>2, <3>3, EntryFollows
  <2>2. CASE r \notin Kept
    <3>1. UNCHANGED flight
      BY <2>2 DEF Emit
    <3> QED
      BY <1>1, <2>2, <3>1, OutsideSame DEF RowInv, RowTypeOK
  <2> QED
    BY <2>1, <2>2
<1>10. CursorCovered'
  <2>1. Covers(c, Handled')
    BY <1>8, <1>9
  <2> QED
    BY <1>1, <1>3, <1>5, <2>1 DEF CursorCovered, Standing, Covers, Passed, LastId
<1>11. TodoComplete'
  <2> SUFFICES ASSUME NEW a \in visible \cap Kept, NEW m \in todo \ {r}, Sooner(a, m)
               PROVE  a \in (todo \ {r}) \cup Handled'
    BY <1>1 DEF TodoComplete, Sooner
  <2>1. a \in todo \cup Handled
    BY <1>1 DEF RowInv, TodoComplete
  <2> QED
    BY <1>9, <2>1
<1>12. RowTypeOK'
  BY <1>1, <1>3, <1>9 DEF RowInv, RowTypeOK, DrainSet
<1> QED
  BY <1>1, <1>9, <1>10, <1>11, <1>12 DEF RowInv, SweepSound, KindOfCycle

-----------------------------------------------------------------------------
(* The sweep of a big object, one page at a time.                            *)

\* One page of the sweep: what is fetched, and what is retained of it.
SweepPage(page, kept) ==
    /\ RowInv /\ pc = "drain"
    /\ page \in NewestPages(DrainMatches) /\ kept \in Retained(drain.collected \cup page)
Short(page) == Cardinality(page) < Page
OneTime(page) == \A q, r \in page : Ts[q] = Ts[r]

\* What a page of the sweep is made of.
LEMMA SweepPageFacts ==
    ASSUME NEW page, NEW kept, SweepPage(page, kept)
    PROVE  /\ big /\ RowTypeOK /\ Swept /\ CollectedAbove /\ FrontierBelowPage
           /\ drain \in DrainSet /\ cursor.wm \in Nat /\ visible \subseteq Rows
           /\ \A q \in visible : Ts[q] \in Nat \ {0}
           /\ page \subseteq DrainMatches /\ page \subseteq visible /\ drain.collected \subseteq visible
           /\ kept \subseteq drain.collected \cup page
           /\ \A q \in kept, a \in (drain.collected \cup page) \ kept : Ts[q] <= Ts[a]
           /\ Short(page) => page = DrainMatches
           /\ ~Short(page) => page # {} /\ Cardinality(page) = Page
           /\ \A q \in page, a \in DrainMatches \ page : Ts[a] <= Ts[q]
           /\ IsFiniteSet(page)
<1>1. /\ big /\ RowTypeOK /\ Swept /\ CollectedAbove /\ FrontierBelowPage /\ visible \subseteq Rows
      /\ drain \in DrainSet /\ drain.collected \subseteq visible /\ cursor.wm \in Nat
  BY DEF SweepPage, RowInv, SweepSound, KindOfCycle, RowTypeOK, DrainSet, CursorSet
<1>2. DrainMatches \subseteq visible /\ DrainMatches \subseteq Rows
  BY <1>1 DEF DrainMatches
<1>3. \A q \in visible : Ts[q] \in Nat \ {0}
  BY <1>1, RowsAssumption
<1>4. /\ page \subseteq DrainMatches /\ IsFiniteSet(page)
      /\ Short(page) => page = DrainMatches
      /\ ~Short(page) => page # {} /\ Cardinality(page) = Page
      /\ \A q \in page, a \in DrainMatches \ page : Ts[a] <= Ts[q]
  BY <1>2, RowsAssumption, NewestPage DEF SweepPage, Short
<1>5. /\ kept \subseteq drain.collected \cup page
      /\ \A q \in kept, a \in (drain.collected \cup page) \ kept : Ts[q] <= Ts[a]
  BY RetainedAreOldest DEF SweepPage
<1> QED
  BY <1>1, <1>2, <1>3, <1>4, <1>5

\* A match is below the frontier; what is not below it is not older.
LEMMA FrontierOrders ==
    ASSUME drain \in DrainSet, visible \subseteq Rows,
           NEW q \in visible, Below(q, drain), NEW a \in visible, ~Below(a, drain)
    PROVE  Ts[q] <= Ts[a]
<1>1. Ts[q] \in Nat /\ Ts[a] \in Nat /\ drain.upper \in Nat /\ drain.tie \in Nat
  BY RowsAssumption DEF DrainSet
<1> QED
  BY <1>1 DEF Below

LEMMA MatchesBelow ==
    ASSUME drain \in DrainSet, visible \subseteq Rows
    PROVE  /\ \A q \in DrainMatches : Below(q, drain) /\ Ts[q] >= cursor.wm
           /\ drain.tie # 0 => \A q \in DrainMatches : Ts[q] = drain.tie /\ q \notin drain.tieIds
           /\ drain.tie = 0 => \A q \in DrainMatches : drain.upper = 0 \/ Ts[q] <= drain.upper
           /\ \A q \in visible : Ts[q] >= cursor.wm /\ Below(q, drain) /\ q \notin DrainMatches
                               => drain.tie # 0 /\ Ts[q] < drain.tie
<1>1. drain.upper \in Nat /\ drain.tie \in Nat /\ \A q \in visible : Ts[q] \in Nat
  BY RowsAssumption DEF DrainSet
<1> QED
  BY <1>1 DEF DrainMatches, Below

\* Retained, or not older than anything retained.
Seen(a, kept) == a \in kept \/ \A q \in kept : Ts[q] <= Ts[a]

\* Whatever the page leaves below the frontier is still to come; all else is seen.
LEMMA PageSeen ==
    ASSUME NEW page, NEW kept, SweepPage(page, kept), NEW a \in visible, Ts[a] >= cursor.wm
    PROVE  Seen(a, kept) \/ (Below(a, drain) /\ a \notin page)
<1> USE SweepPageFacts
<1>1. CASE a \in drain.collected \cup page
  BY <1>1 DEF Seen
<1>2. CASE a \notin drain.collected \cup page /\ ~Below(a, drain)
  <2>1. \A q \in drain.collected : Ts[q] <= Ts[a]
    BY <1>2 DEF Swept
  <2>2. \A q \in page : Ts[q] <= Ts[a]
    BY <1>2, FrontierOrders, MatchesBelow
  <2> QED
    BY <2>1, <2>2 DEF Seen
<1> QED
  BY <1>1, <1>2

\* The sweep goes on: its new state d keeps the invariant if nothing outside the
\* page falls out of its reach.
LEMMA SweepGoesOn ==
    ASSUME NEW page, NEW kept, SweepPage(page, kept), NEW d \in DrainSet,
           drain' = d, d.collected = kept,
           UNCHANGED <<big, visible, delivered, stored, flight, pc, cursor, todo>>,
           \A a \in visible : Ts[a] >= cursor.wm /\ Below(a, drain) /\ a \notin page => Below(a, d),
           CollectedAbove', FrontierBelowPage'
    PROVE  RowInv'
<1>1. RowTypeOK'
  BY DEF SweepPage, RowInv, RowTypeOK, DrainSet
<1>2. StoredCovered' /\ FlightCovered' /\ Handled' = Handled
  BY OutsideSame DEF SweepPage
<1>3. CursorCovered'
  BY <1>2 DEF SweepPage, RowInv, CursorCovered, Standing, Covers, Passed, LastId
<1>4. Swept'
  <2> SUFFICES ASSUME NEW a \in visible, Ts[a] >= cursor.wm
               PROVE  a \in kept \/ Below(a, d) \/ \A q \in kept : Ts[q] <= Ts[a]
    BY DEF Swept, Below
  <2> QED
    BY PageSeen DEF Seen
<1>5. TodoComplete' /\ KindOfCycle'
  BY <1>2 DEF SweepPage, RowInv, TodoComplete, KindOfCycle
<1> QED
  BY <1>1, <1>2, <1>3, <1>4, <1>5 DEF RowInv, SweepSound

\* The sweep is over with a page that is the last: what it retained is emitted.
LEMMA SweepEnds ==
    ASSUME NEW page, NEW kept, SweepPage(page, kept), DrainDone(kept), drain.tie = 0, Short(page),
           UNCHANGED <<big, visible, delivered, stored, flight, cursor>>
    PROVE  RowInv'
<1> USE SweepPageFacts
<1>1. /\ todo' = kept \ Elems(cursor.ids) /\ pc' \in {"end", "emit"} /\ drain' = NoDrain
  BY DEF DrainDone
<1>2. NoDrain \in DrainSet
  BY DEF NoDrain, DrainSet
<1>3. RowTypeOK'
  BY <1>1, <1>2 DEF RowTypeOK, DrainSet
<1>4. StoredCovered' /\ FlightCovered' /\ Handled' = Handled
  BY OutsideSame DEF SweepPage
<1>5. CursorCovered'
  BY <1>4 DEF SweepPage, RowInv, CursorCovered, Standing, Covers, Passed, LastId
<1>6. ASSUME NEW a \in visible \cap Kept, NEW m \in kept, Ts[a] < Ts[m]
      PROVE  a \in todo' \cup Handled
  <2>1. CursorCovered
    BY DEF SweepPage, RowInv
  <2>2. CASE Ts[a] < cursor.wm
    BY <2>1, <2>2 DEF CursorCovered, Covers, Passed
  <2>3. CASE ~(Ts[a] < cursor.wm)
    <3>1. Ts[a] \in Nat /\ Ts[m] \in Nat /\ Ts[a] >= cursor.wm
      BY <2>3
    <3>2. Seen(a, kept) \/ (Below(a, drain) /\ a \notin page)
      BY <3>1, PageSeen
    <3>3. ~(Below(a, drain) /\ a \notin page)
      BY <3>1, MatchesBelow
    <3>4. a \in kept
      BY <1>6, <3>1, <3>2, <3>3 DEF Seen
    <3> QED
      BY <1>1, <2>1, <3>4 DEF CursorCovered, Covers
  <2> QED
    BY <2>2, <2>3
<1>7. TodoComplete'
  BY <1>1, <1>4, <1>6 DEF TodoComplete, Sooner
<1> QED
  BY <1>1, <1>3, <1>4, <1>5, <1>7 DEF RowInv, SweepSound, KindOfCycle

\* A full page brings something new: the two other ways out are never taken.
LEMMA FullPageIsNew ==
    ASSUME NEW page, NEW kept, SweepPage(page, kept), ~Short(page),
           drain.tie # 0 \/ ~OneTime(page)
    PROVE  page \ drain.collected # {}
<1> USE SweepPageFacts
<1> SUFFICES ASSUME page \subseteq drain.collected PROVE FALSE
  OBVIOUS
<1>1. drain.upper \in Nat /\ drain.tie \in Nat
  BY DEF DrainSet
<1>2. CASE drain.tie # 0
  <2>1. page \subseteq AtFrontier(drain)
    BY <1>2, MatchesBelow DEF AtFrontier
  <2>2. IsFiniteSet(AtFrontier(drain))
    <3>1. AtFrontier(drain) \subseteq Rows /\ IsFiniteSet(Rows)
      BY RowsAssumption DEF AtFrontier
    <3> QED
      BY <3>1, FS_Subset
  <2>3. Cardinality(page) <= Cardinality(AtFrontier(drain)) /\ Cardinality(AtFrontier(drain)) \in Nat
    BY <2>1, <2>2, FS_Subset, FS_CardinalityType
  <2>4. Cardinality(page) = Page /\ Page \in Nat /\ Cardinality(AtFrontier(drain)) < Page
    BY RowsAssumption DEF FrontierBelowPage
  <2> QED
    BY <2>3, <2>4
<1>3. CASE drain.tie = 0
  <2>1. drain.upper # 0
    BY <1>3 DEF CollectedAbove
  <2>2. \A q \in page : Ts[q] >= drain.upper /\ Ts[q] <= drain.upper /\ Ts[q] \in Nat
    BY <1>3, <2>1, MatchesBelow DEF CollectedAbove
  <2>3. OneTime(page)
    BY <1>1, <2>2 DEF OneTime
  <2> QED
    BY <1>3, <2>3
<1> QED
  BY <1>2, <1>3

\* The rest of a step of the sweep.
SweepOnly == UNCHANGED <<big, visible, delivered, stored, flight, cursor>>
OnPage == SweepOnly /\ UNCHANGED <<pc, todo>>

\* The frontier of the next page holds fewer rows than a page.
LEMMA FewerAtFrontier ==
    ASSUME NEW d, NEW X, d.collected \subseteq Rows, IsFiniteSet(X), AtFrontier(d) \subseteq X, Cardinality(X) < Page
    PROVE  Cardinality(AtFrontier(d)) < Page
<1>1. Cardinality(AtFrontier(d)) <= Cardinality(X) /\ IsFiniteSet(AtFrontier(d))
  BY FS_Subset
<1>2. Cardinality(AtFrontier(d)) \in Nat /\ Cardinality(X) \in Nat /\ Page \in Nat
  BY <1>1, FS_CardinalityType, RowsAssumption
<1> QED
  BY <1>1, <1>2

LEMMA NextFrontier ==
    ASSUME NEW d, drain' = d, Cardinality(AtFrontier(d)) < Page
    PROVE  FrontierBelowPage'
<1>1. \A q : q \in AtFrontier(drain)' <=> q \in AtFrontier(d)
  BY DEF AtFrontier
<1>2. AtFrontier(drain)' = AtFrontier(d)
  <2>1. AtFrontier(drain)' \subseteq AtFrontier(d) /\ AtFrontier(d) \subseteq AtFrontier(drain)'
    BY <1>1
  <2> QED
    BY <2>1
<1> QED
  BY <1>2 DEF FrontierBelowPage

LEMMA FrontierFinite ==
    ASSUME drain \in DrainSet, visible \subseteq Rows
    PROVE  IsFiniteSet(AtFrontier(drain))
<1>1. AtFrontier(drain) \subseteq Rows /\ IsFiniteSet(Rows)
  BY RowsAssumption DEF AtFrontier, DrainSet
<1> QED
  BY <1>1, FS_Subset

\* The tie escape has seen all of its timestamp: on to the older ones.
LEMMA LeavesTie ==
    ASSUME NEW page, NEW kept, SweepPage(page, kept), drain.tie # 0, Short(page),
           drain' = BelowTie([drain EXCEPT !.collected = kept]), OnPage
    PROVE  RowInv'
<1> USE SweepPageFacts
<1>1. PICK d \in DrainSet : d = BelowTie([drain EXCEPT !.collected = kept])
  <2>1. kept \subseteq visible
    OBVIOUS
  <2> QED
    BY <2>1 DEF BelowTie, DrainSet
<1>2. d.collected = kept /\ d.upper = drain.tie /\ d.exclusive /\ d.tie = 0 /\ drain' = d
  BY <1>1 DEF BelowTie, DrainSet
<1>3. ASSUME NEW a \in visible, Ts[a] >= cursor.wm, Below(a, drain), a \notin page
      PROVE  Below(a, d)
  BY <1>2, <1>3, MatchesBelow DEF Below
<1>4. \A q \in kept : Ts[q] >= drain.tie
  <2>1. \A q \in page : Ts[q] = drain.tie
    BY MatchesBelow
  <2>2. \A q \in drain.collected : Ts[q] >= drain.tie
    BY DEF CollectedAbove
  <2>3. drain.tie \in Nat
    BY DEF DrainSet
  <2> QED
    BY <2>1, <2>2, <2>3
<1>5. CollectedAbove'
  BY <1>2, <1>4 DEF CollectedAbove
<1>6. AtFrontier(d) = {}
  BY <1>2 DEF AtFrontier
<1>7. FrontierBelowPage'
  <2>1. Cardinality(AtFrontier(d)) < Page
    BY <1>6, FS_EmptySet, RowsAssumption
  <2> QED
    BY <1>2, <2>1, NextFrontier
<1> QED
  BY <1>2, <1>3, <1>5, <1>7, SweepGoesOn DEF OnPage, SweepOnly

\* The tie escape goes on, without the rows that it has seen.
LEMMA StaysInTie ==
    ASSUME NEW page, NEW kept, SweepPage(page, kept), drain.tie # 0,
           drain' = [[drain EXCEPT !.collected = kept] EXCEPT !.tieIds = @ \cup (page \ drain.collected)],
           OnPage
    PROVE  RowInv'
<1> USE SweepPageFacts
<1>1. PICK d \in DrainSet :
        d = [[drain EXCEPT !.collected = kept] EXCEPT !.tieIds = @ \cup (page \ drain.collected)]
  BY DEF DrainSet
<1>2. /\ d.collected = kept /\ d.upper = drain.upper /\ d.exclusive = drain.exclusive /\ d.tie = drain.tie
      /\ d.tieIds = drain.tieIds \cup (page \ drain.collected) /\ drain' = d
  BY <1>1 DEF DrainSet
<1>3. ASSUME NEW a \in visible, Below(a, drain), a \notin page
      PROVE  Below(a, d)
  BY <1>2, <1>3 DEF Below
<1>4. CollectedAbove'
  <2>1. \A q \in page : Ts[q] = drain.tie
    BY MatchesBelow
  <2>2. \A q \in drain.collected : Ts[q] >= drain.tie
    BY DEF CollectedAbove
  <2>3. drain.tie \in Nat
    BY DEF DrainSet
  <2> QED
    BY <1>2, <2>1, <2>2, <2>3 DEF CollectedAbove
<1>5. AtFrontier(d) \subseteq AtFrontier(drain)
  BY <1>2 DEF AtFrontier
<1>6. FrontierBelowPage'
  <2>1. Cardinality(AtFrontier(d)) < Page
    BY <1>2, <1>5, FewerAtFrontier, FrontierFinite DEF FrontierBelowPage
  <2> QED
    BY <1>2, <2>1, NextFrontier
<1> QED
  BY <1>2, <1>3, <1>4, <1>6, SweepGoesOn DEF OnPage, SweepOnly

\* A full page of one timestamp: the tie escape begins there.
LEMMA EntersTie ==
    ASSUME NEW page, NEW kept, SweepPage(page, kept), drain.tie = 0, ~Short(page), OneTime(page),
           drain' = [[drain EXCEPT !.collected = kept] EXCEPT !.tie = Oldest(page), !.tieIds = page],
           OnPage
    PROVE  RowInv'
<1> USE SweepPageFacts
<1>0. PICK s \in page : Oldest(page) = Ts[s]
  <2>1. page \subseteq Rows /\ page # {}
    OBVIOUS
  <2>2. Oldest(page) \in {Ts[r] : r \in page}
    BY <2>1, RowsAssumption, OldestIsLeast
  <2> QED
    BY <2>2
<1>1. PICK d \in DrainSet :
        d = [[drain EXCEPT !.collected = kept] EXCEPT !.tie = Oldest(page), !.tieIds = page]
  BY <1>0 DEF DrainSet
<1>2. /\ d.collected = kept /\ d.tie = Ts[s] /\ d.tie # 0 /\ d.tieIds = page /\ drain' = d
      /\ d.upper = drain.upper
  BY <1>0, <1>1 DEF DrainSet
<1>3. ASSUME NEW a \in visible, Ts[a] >= cursor.wm, Below(a, drain), a \notin page
      PROVE  Below(a, d)
  <2>1. a \in DrainMatches
    BY <1>3, MatchesBelow
  <2>2. Ts[a] <= Ts[s] /\ Ts[a] \in Nat /\ Ts[s] \in Nat
    BY <1>3, <2>1
  <2> QED
    BY <1>2, <1>3, <2>2 DEF Below
<1>4. \A q \in page : Ts[q] = Ts[s]
  BY DEF OneTime
<1>5. \A q \in drain.collected : Ts[q] >= drain.upper /\ drain.upper # 0
  BY DEF CollectedAbove
<1>6. drain.upper \in Nat /\ (drain.upper = 0 \/ Ts[s] <= drain.upper) /\ Below(s, drain)
  BY MatchesBelow DEF DrainSet
<1>7. CollectedAbove'
  <2>1. \A q \in kept : Ts[q] >= Ts[s]
    BY <1>4, <1>5, <1>6
  <2> QED
    BY <1>2, <2>1 DEF CollectedAbove
<1>8. AtFrontier(d) \subseteq AtFrontier(drain)
  <2> SUFFICES ASSUME NEW q \in kept, Ts[q] = Ts[s], q \notin page
               PROVE  q \in AtFrontier(drain)
    BY <1>2 DEF AtFrontier
  <2>1. q \in drain.collected /\ Ts[q] >= drain.upper /\ drain.upper # 0
    BY <1>5
  <2>2. Ts[q] = drain.upper /\ ~drain.exclusive
    <3>1. Ts[s] \in Nat
      OBVIOUS
    <3>2. Ts[s] = drain.upper
      BY <1>6, <2>1, <3>1
    <3> QED
      BY <1>6, <2>1, <3>1, <3>2 DEF Below
  <2> QED
    BY <2>1, <2>2 DEF AtFrontier
<1>9. FrontierBelowPage'
  <2>1. Cardinality(AtFrontier(d)) < Page
    BY <1>2, <1>8, FewerAtFrontier, FrontierFinite DEF FrontierBelowPage
  <2> QED
    BY <1>2, <2>1, NextFrontier
<1> QED
  BY <1>2, <1>3, <1>7, <1>9, SweepGoesOn DEF OnPage, SweepOnly

\* A full page of several timestamps: the upper bound moves down to the oldest.
LEMMA MovesDown ==
    ASSUME NEW page, NEW kept, SweepPage(page, kept), drain.tie = 0, ~Short(page), ~OneTime(page),
           drain' = [[drain EXCEPT !.collected = kept] EXCEPT !.upper = Oldest(page), !.exclusive = FALSE],
           OnPage
    PROVE  RowInv'
<1> USE SweepPageFacts
<1>0. PICK s \in page : Oldest(page) = Ts[s] /\ \A q \in page : Ts[s] <= Ts[q]
  <2>1. page \subseteq Rows /\ page # {}
    OBVIOUS
  <2>2. Oldest(page) \in {Ts[r] : r \in page} /\ \A q \in page : Oldest(page) <= Ts[q]
    BY <2>1, RowsAssumption, OldestIsLeast
  <2> QED
    BY <2>2
<1>1. PICK d \in DrainSet :
        d = [[drain EXCEPT !.collected = kept] EXCEPT !.upper = Oldest(page), !.exclusive = FALSE]
  BY <1>0 DEF DrainSet
<1>2. /\ d.collected = kept /\ d.upper = Ts[s] /\ d.upper # 0 /\ d.tie = 0 /\ ~d.exclusive /\ drain' = d
  BY <1>0, <1>1 DEF DrainSet
<1>3. ASSUME NEW a \in visible, Ts[a] >= cursor.wm, Below(a, drain), a \notin page
      PROVE  Below(a, d)
  <2>1. a \in DrainMatches
    BY <1>3, MatchesBelow
  <2>2. Ts[a] <= Ts[s] /\ Ts[a] \in Nat /\ Ts[s] \in Nat
    BY <1>3, <2>1
  <2> QED
    BY <1>2, <1>3, <2>2 DEF Below
<1>4. PICK t \in page : Ts[t] > Ts[s]
  <2>1. \A q \in page : Ts[q] \in Nat
    OBVIOUS
  <2> QED
    BY <1>0, <2>1 DEF OneTime
<1>5. \A q \in drain.collected : Ts[q] > Ts[s]
  <2> SUFFICES ASSUME NEW q \in drain.collected PROVE Ts[q] > Ts[s]
    OBVIOUS
  <2>1. Ts[q] >= drain.upper /\ drain.upper # 0 /\ Ts[t] <= drain.upper
    BY MatchesBelow DEF CollectedAbove
  <2>2. Ts[q] \in Nat /\ Ts[s] \in Nat /\ Ts[t] \in Nat /\ drain.upper \in Nat
    BY DEF DrainSet
  <2> QED
    BY <1>4, <2>1, <2>2
<1>6. CollectedAbove'
  <2>1. \A q \in kept : Ts[q] >= Ts[s]
    BY <1>0, <1>5
  <2> QED
    BY <1>2, <2>1 DEF CollectedAbove
<1>7. AtFrontier(d) \subseteq page \ {t}
  BY <1>2, <1>4, <1>5 DEF AtFrontier
<1>8. IsFiniteSet(page \ {t}) /\ Cardinality(page \ {t}) < Page
  <2>1. IsFiniteSet(page \ {t}) /\ Cardinality(page \ {t}) = Cardinality(page) - 1
    BY FS_RemoveElement
  <2> QED
    BY <2>1, RowsAssumption
<1>9. FrontierBelowPage'
  <2>1. Cardinality(AtFrontier(d)) < Page
    BY <1>2, <1>7, <1>8, FewerAtFrontier
  <2> QED
    BY <1>2, <2>1, NextFrontier
<1> QED
  BY <1>2, <1>3, <1>6, <1>9, SweepGoesOn DEF OnPage, SweepOnly

LEMMA DrainInv ==
    ASSUME RowInv, DrainStep
    PROVE  RowInv'
<1>1. PICK page \in NewestPages(DrainMatches) :
        \E kept \in Retained(drain.collected \cup page) : DrainPage(page, kept)
  BY DEF DrainStep
<1>2. PICK kept \in Retained(drain.collected \cup page) : DrainPage(page, kept)
  BY <1>1
<1>3. SweepPage(page, kept) /\ SweepOnly
  BY DEF DrainStep, SweepPage, SweepOnly
<1> DEFINE new == page \ drain.collected
           d == [drain EXCEPT !.collected = kept]
<1>4. CASE drain.tie # 0 /\ Short(page) /\ drain' = BelowTie(d) /\ UNCHANGED <<pc, todo>>
  BY <1>3, <1>4, LeavesTie DEF OnPage
<1>5. CASE drain.tie # 0 /\ drain' = [d EXCEPT !.tieIds = @ \cup new] /\ UNCHANGED <<pc, todo>>
  BY <1>3, <1>5, StaysInTie DEF OnPage
<1>6. CASE /\ drain.tie = 0 /\ ~Short(page) /\ OneTime(page)
           /\ drain' = [d EXCEPT !.tie = Oldest(page), !.tieIds = page] /\ UNCHANGED <<pc, todo>>
  BY <1>3, <1>6, EntersTie DEF OnPage
<1>7. CASE /\ drain.tie = 0 /\ ~Short(page) /\ ~OneTime(page)
           /\ drain' = [d EXCEPT !.upper = Oldest(page), !.exclusive = FALSE] /\ UNCHANGED <<pc, todo>>
  BY <1>3, <1>7, MovesDown DEF OnPage
<1>8. CASE SweepOver(page, new, Short(page)) /\ DrainDone(kept)
  <2>1. drain.tie = 0 /\ Short(page)
    BY <1>3, <1>8, FullPageIsNew DEF SweepOver, OneTime
  <2> QED
    BY <1>3, <1>8, <2>1, SweepEnds DEF SweepOnly
<1> QED
  BY <1>2, <1>4, <1>5, <1>6, <1>7, <1>8, Zenon DEF DrainPage, Short, OneTime

\* However pages, ties, dropped rows, window evictions, memory bounds, reloads of
\* an older or a garbled cursor, failed queries, stops and crashes are interleaved:
\* the stored cursor of an event log object never passes a row that should have
\* been pushed and was not.  For an ordinary object this needs rows to appear in
\* the order of the query; for a big one not even that.
THEOREM RowsNeverSkipped == RowSpec => [](InOrder => NoRowSkipped)
<1>1. RowInit => (InOrder => RowInv)
  <2> SUFFICES ASSUME RowInit PROVE RowInv
    OBVIOUS
  <2>1. /\ big \in BOOLEAN /\ visible = {} /\ delivered = {} /\ stored = NoCursor /\ flight = <<>>
        /\ pc = "idle" /\ cursor = NoCursor /\ todo = {} /\ drain = NoDrain
    BY DEF RowInit
  <2>2. RowTypeOK
    <3>1. NoDrain \in DrainSet
      BY DEF NoDrain, DrainSet
    <3> QED
      BY <2>1, <3>1, NoCursorCovers DEF RowTypeOK
  <2>3. StoredCovered /\ CursorCovered
    BY <2>1, <2>2, NoCursorCovers DEF StoredCovered, CursorCovered
  <2> QED
    BY <2>1, <2>2, <2>3 DEF RowInv, FlightCovered, TodoComplete, SweepSound, KindOfCycle
<1>2. (InOrder => RowInv) /\ [RowNext]_rowVars => (InOrder => RowInv)'
  <2> SUFFICES ASSUME InOrder => RowInv, [RowNext]_rowVars, InOrder' PROVE RowInv'
    OBVIOUS
  <2>1. UNCHANGED big
    BY DEF RowNext, CycleStep, Begin, BeginGarbage, BeginWith, Query, Emit, End, DrainStep, Appear, Push,
           CommitToken, QueryFails, Stop, Crash, rowVars
  <2>2. InOrder /\ RowInv
    BY <2>1 DEF InOrder
  <2>3. CASE UNCHANGED rowVars
    <3>1. UNCHANGED <<big, visible, delivered, stored, flight, cycleVars>>
      BY <2>3 DEF rowVars
    <3>2. RowTypeOK'
      BY <2>2, <3>1 DEF RowInv, RowTypeOK, DrainSet, cycleVars
    <3> QED
      BY <2>2, <3>1, <3>2, OutsideSame, CycleSame DEF RowInv
  <2>4. CASE RowNext
    BY <2>2, <2>4, AppearInv, PushInv, CommitInv, BeginInv, GivenUpInv, CrashInv, EndInv, QueryInv, EmitInv,
       DrainInv DEF RowNext, CycleStep
  <2> QED
    BY <2>3, <2>4
<1>3. (InOrder => RowInv) => (InOrder => NoRowSkipped)
  BY DEF RowInv, StoredCovered, Covers, NoRowSkipped
<1> QED
  BY <1>1, <1>2, <1>3, PTL DEF RowSpec

-----------------------------------------------------------------------------
(* Apex logs: the inductive invariant.                                       *)

LogCursorSet == [wm : Nat, ids : Seq(Logs)]
LogEntrySet == [logs : SUBSET Logs, token : LogCursorSet]
LogPollSet == [pc : {"idle", "list", "logs", "end"}, cur : LogCursorSet, todo : SUBSET apxVisible,
               full : BOOLEAN, emitted : BOOLEAN, progress : BOOLEAN]

ApxTypeOK ==
    /\ apxVisible \subseteq Logs
    /\ apxStored \in LogCursorSet /\ apxFlight \in Seq(LogEntrySet) /\ apxPoll \in LogPollSet

\* The listing from cursor c brings log m, once it is visible.
Ahead(c, m) == c.ids = <<>> \/ Earlier(Last(c.ids), m)

\* A cursor stands at a visible log, whose StartTime is its watermark, or before
\* every log; its window is behind it.
LogStanding(c) ==
    /\ IF c.ids = <<>> THEN c.wm = 0 ELSE Last(c.ids) \in apxVisible /\ c.wm = StartTime[Last(c.ids)]
    /\ \A i \in 1 .. Len(c.ids) : ~Ahead(c, c.ids[i])

LogCovers(c, D) == \A m \in apxVisible \cap LogsKept : Ahead(c, m) \/ m \in D

LogsReached(i) == UNION {apxFlight[j].logs : j \in 1 .. i}
LogsHandled == apxSent \cup LogsReached(Len(apxFlight))

LogStoredCovered == LogStanding(apxStored) /\ LogCovers(apxStored, apxSent)
LogEntryCovered(i) ==
    LogStanding(apxFlight[i].token) /\ LogCovers(apxFlight[i].token, apxSent \cup LogsReached(i))
LogFlightCovered == \A i \in 1 .. Len(apxFlight) : LogEntryCovered(i)
LogPollCovered == LogStanding(apxPoll.cur) /\ LogCovers(apxPoll.cur, LogsHandled)

\* The page is ahead of the cursor, and what precedes one of its logs is in it or handled.
PageComplete(p, D) ==
    p.pc = "logs" =>
        /\ \A m \in p.todo : Ahead(p.cur, m)
        /\ \A a \in apxVisible \cap LogsKept, m \in p.todo : Earlier(a, m) => a \in p.todo \cup D
LogPageComplete == PageComplete(apxPoll, LogsHandled)

ApxInv ==
    /\ ApxTypeOK /\ LogStoredCovered /\ LogFlightCovered /\ LogPollCovered
    /\ LogPageComplete /\ NeverStalls

\* Earlier is a strict total order.
LEMMA EarlierOrder ==
    ASSUME NEW a \in Logs, NEW b \in Logs, NEW c \in Logs
    PROVE  /\ ~Earlier(a, a) /\ (a # b => Earlier(a, b) \/ Earlier(b, a))
           /\ ~(Earlier(a, b) /\ Earlier(b, a))
           /\ Earlier(a, b) /\ Earlier(b, c) => Earlier(a, c)
<1>1. /\ a \in Nat /\ b \in Nat /\ c \in Nat
      /\ StartTime[a] \in Nat /\ StartTime[b] \in Nat /\ StartTime[c] \in Nat
  BY ApxAssumption
<1> QED
  BY <1>1 DEF Earlier

LEMMA LastLog ==
    ASSUME NEW c \in LogCursorSet, c.ids # <<>>
    PROVE  Last(c.ids) \in Logs /\ Len(c.ids) \in 1 .. Len(c.ids) /\ c.ids[Len(c.ids)] = Last(c.ids)
<1>1. c.ids \in Seq(Logs)
  BY DEF LogCursorSet
<1> QED
  BY <1>1 DEF Last

\* The listing's condition is exactly that a log is ahead of the cursor.
LEMMA ListingAhead ==
    ASSUME ApxTypeOK, NEW c \in LogCursorSet, LogStanding(c)
    PROVE  AfterCursor(c) = {m \in apxVisible : Ahead(c, m)}
<1>1. CASE c.ids = <<>>
  <2>1. SinceId(c) = 0 /\ c.wm = 0
    BY <1>1 DEF SinceId, LogStanding
  <2>2. \A m \in apxVisible : StartTime[m] >= 0
    BY ApxAssumption DEF ApxTypeOK
  <2> QED
    BY <1>1, <2>1, <2>2 DEF AfterCursor, Ahead
<1>2. CASE c.ids # <<>>
  <2>1. Last(c.ids) \in Logs /\ Last(c.ids) # 0
    BY <1>2, LastLog, ApxAssumption
  <2>2. SinceId(c) = Last(c.ids) /\ SinceId(c) # 0 /\ c.wm = StartTime[Last(c.ids)]
    BY <1>2, <2>1 DEF SinceId, LogStanding
  <2>3. /\ Last(c.ids) \in Nat /\ StartTime[Last(c.ids)] \in Nat
        /\ \A m \in apxVisible : m \in Nat /\ StartTime[m] \in Nat
    BY <2>1, ApxAssumption DEF ApxTypeOK
  <2> QED
    BY <1>2, <2>2, <2>3 DEF AfterCursor, Ahead, Earlier
<1> QED
  BY <1>1, <1>2

\* The cursor after a log that was ahead.
LEMMA CursorMoves ==
    ASSUME ApxTypeOK, NEW c \in LogCursorSet, LogStanding(c), NEW m \in apxVisible, Ahead(c, m)
    PROVE  /\ CursorAfter(c, m) \in LogCursorSet /\ LogStanding(CursorAfter(c, m))
           /\ \A a \in Logs : Ahead(CursorAfter(c, m), a) <=> Earlier(m, a)
<1> DEFINE all == Append(c.ids, m)
           d == CursorAfter(c, m)
<1>1. c.ids \in Seq(Logs) /\ m \in Logs /\ StartTime[m] \in Nat /\ ApxCarried \in Nat \ {0}
  BY ApxAssumption DEF LogCursorSet, ApxTypeOK
<1>2. PICK n \in Nat : n = Len(c.ids)
  BY <1>1
<1>3. /\ all \in Seq(Logs) /\ Len(all) = n + 1 /\ all[n + 1] = m
      /\ \A i \in 1 .. n : all[i] = c.ids[i]
  BY <1>1, <1>2
<1>4. /\ d.ids \in Seq(Logs) /\ d.ids # <<>> /\ Last(d.ids) = m
      /\ \A i \in 1 .. Len(d.ids) : \E j \in 1 .. n + 1 : d.ids[i] = all[j]
  <2>1. CASE Len(all) > ApxCarried
    <3>1. d.ids = Tail(all)
      BY <2>1 DEF CursorAfter
    <3>2. Tail(all) \in Seq(Logs) /\ Len(Tail(all)) = n /\ \A i \in 1 .. n : Tail(all)[i] = all[i + 1]
      <4>1. PICK q \in Seq(Logs) : q = all
        BY <1>3
      <4>2. Len(q) = n + 1 /\ q # <<>>
        BY <1>3, <4>1
      <4>3. Tail(q) \in Seq(Logs) /\ Len(Tail(q)) = n /\ \A i \in 1 .. n : Tail(q)[i] = q[i + 1]
        BY <4>2
      <4> QED
        BY <4>1, <4>3
    <3>3. n \in 1 .. n
      BY <1>1, <1>3, <2>1
    <3>4. Tail(all) # <<>> /\ Tail(all)[n] = m
      BY <1>3, <3>2, <3>3
    <3>5. \A i \in 1 .. n : i + 1 \in 1 .. n + 1
      OBVIOUS
    <3> QED
      BY <3>1, <3>2, <3>4, <3>5 DEF Last
  <2>2. CASE ~(Len(all) > ApxCarried)
    <3>1. d.ids = all
      BY <2>2 DEF CursorAfter
    <3>2. all # <<>> /\ all[Len(all)] = m
      BY <1>3
    <3> QED
      BY <1>3, <3>1, <3>2 DEF Last
  <2> QED
    BY <2>1, <2>2
<1>5. d.wm = StartTime[m] /\ d \in LogCursorSet
  <2>1. d.wm = StartTime[m]
    BY DEF CursorAfter
  <2> QED
    BY <1>1, <1>4, <2>1 DEF CursorAfter, LogCursorSet
<1>6. \A a : Ahead(d, a) <=> Earlier(m, a)
  BY <1>4 DEF Ahead
<1>7. \A j \in 1 .. n + 1 : all[j] \in Logs /\ ~Earlier(m, all[j])
  <2> SUFFICES ASSUME NEW j \in 1 .. n + 1 PROVE all[j] \in Logs /\ ~Earlier(m, all[j])
    OBVIOUS
  <2>1. CASE j = n + 1
    BY <1>1, <1>3, <2>1, EarlierOrder
  <2>2. CASE j \in 1 .. n
    <3>1. ~Ahead(c, c.ids[j]) /\ all[j] = c.ids[j] /\ c.ids[j] \in Logs /\ c.ids # <<>>
      BY <1>1, <1>2, <1>3, <2>2 DEF LogStanding
    <3>2. Last(c.ids) \in Logs /\ Earlier(Last(c.ids), m) /\ ~Earlier(Last(c.ids), c.ids[j])
      BY <3>1, LastLog DEF Ahead
    <3> QED
      BY <1>1, <3>1, <3>2, EarlierOrder
  <2>3. j = n + 1 \/ j \in 1 .. n
    OBVIOUS
  <2> QED
    BY <2>1, <2>2, <2>3
<1>8. LogStanding(d)
  <2>1. \A i \in 1 .. Len(d.ids) : ~Earlier(m, d.ids[i])
    BY <1>4, <1>7
  <2> QED
    BY <1>4, <1>5, <1>6, <2>1 DEF LogStanding
<1> QED
  BY <1>5, <1>6, <1>8

-----------------------------------------------------------------------------
(* Apex logs: every step keeps it.                                           *)

\* A step of the poll cycle to p, after which H is handled.
LEMMA LogPollStep ==
    ASSUME ApxInv, NEW p \in LogPollSet, Polls(p), NEW H,
           \/ UNCHANGED apxFlight /\ H = LogsHandled
           \/ \E e \in LogEntrySet : /\ apxFlight' = Append(apxFlight, e) /\ H = LogsHandled \cup e.logs
                                     /\ LogStanding(e.token) /\ LogCovers(e.token, H),
           LogStanding(p.cur), LogCovers(p.cur, H), PageComplete(p, H), apxStalls' = 0
    PROVE  ApxInv'
<1>1. UNCHANGED <<apxVisible, apxStored, apxSent>> /\ apxPoll' = p
  BY DEF Polls
<1>2. LogStoredCovered'
  BY <1>1 DEF ApxInv, LogStoredCovered, LogStanding, LogCovers
<1>3. apxFlight \in Seq(LogEntrySet)
  BY DEF ApxInv, ApxTypeOK
<1>4. PICK n \in Nat : n = Len(apxFlight)
  BY <1>3
<1>5. /\ apxFlight' \in Seq(LogEntrySet) /\ LogFlightCovered' /\ LogsHandled' = H
  <2>1. CASE UNCHANGED apxFlight /\ H = LogsHandled
    <3>1. \A i : LogsReached(i)' = LogsReached(i)
      BY <2>1 DEF LogsReached
    <3>2. LogFlightCovered'
      BY <1>1, <2>1, <3>1 DEF ApxInv, LogFlightCovered, LogEntryCovered, LogStanding, LogCovers
    <3> QED
      BY <1>1, <1>3, <2>1, <3>1, <3>2 DEF LogsHandled
  <2>2. CASE \E e \in LogEntrySet : /\ apxFlight' = Append(apxFlight, e) /\ H = LogsHandled \cup e.logs
                                   /\ LogStanding(e.token) /\ LogCovers(e.token, H)
    <3>1. PICK e \in LogEntrySet : /\ apxFlight' = Append(apxFlight, e) /\ H = LogsHandled \cup e.logs
                                   /\ LogStanding(e.token) /\ LogCovers(e.token, H)
      BY <2>2
    <3>2. /\ apxFlight' \in Seq(LogEntrySet) /\ Len(apxFlight') = n + 1 /\ apxFlight'[n + 1] = e
          /\ \A i \in 1 .. n : apxFlight'[i] = apxFlight[i]
      BY <1>3, <1>4, <3>1
    <3>3. \A i \in 1 .. n : LogsReached(i)' = LogsReached(i)
      <4> SUFFICES ASSUME NEW i \in 1 .. n PROVE LogsReached(i)' = LogsReached(i)
        OBVIOUS
      <4>1. \A j \in 1 .. i : apxFlight'[j].logs = apxFlight[j].logs
        BY <3>2
      <4> QED
        BY <4>1 DEF LogsReached
    <3>4. LogsReached(n + 1)' = LogsReached(n) \cup e.logs
      <4>1. \A j \in 1 .. n + 1 : j \in 1 .. n \/ j = n + 1
        OBVIOUS
      <4>2. \A j \in 1 .. n : j \in 1 .. n + 1 /\ apxFlight'[j].logs = apxFlight[j].logs
        BY <3>2
      <4>3. n + 1 \in 1 .. n + 1 /\ apxFlight'[n + 1].logs = e.logs
        BY <3>2
      <4>4. LogsReached(n + 1)' \subseteq LogsReached(n) \cup e.logs
        BY <4>1, <4>2, <4>3 DEF LogsReached
      <4>5. LogsReached(n) \subseteq LogsReached(n + 1)'
        BY <4>2 DEF LogsReached
      <4>6. e.logs \subseteq LogsReached(n + 1)'
        BY <4>3 DEF LogsReached
      <4> QED
        BY <4>4, <4>5, <4>6
    <3>5. LogsHandled' = H
      BY <1>1, <1>4, <3>1, <3>2, <3>4 DEF LogsHandled
    <3>6. ASSUME NEW i \in 1 .. n + 1
          PROVE  LogEntryCovered(i)'
      <4>1. CASE i \in 1 .. n
        <5>1. LogEntryCovered(i) /\ apxFlight'[i] = apxFlight[i] /\ LogsReached(i)' = LogsReached(i)
          BY <1>4, <3>2, <3>3, <4>1 DEF ApxInv, LogFlightCovered
        <5> QED
          BY <1>1, <5>1 DEF LogEntryCovered, LogStanding, LogCovers
      <4>2. CASE i = n + 1
        <5>1. apxFlight'[i] = e /\ apxSent' \cup LogsReached(i)' = H
          BY <1>1, <1>4, <3>1, <3>2, <3>4, <4>2 DEF LogsHandled
        <5> QED
          BY <1>1, <3>1, <5>1 DEF LogEntryCovered, LogStanding, LogCovers
      <4>3. i \in 1 .. n \/ i = n + 1
        OBVIOUS
      <4> QED
        BY <4>1, <4>2, <4>3
    <3> QED
      BY <3>2, <3>5, <3>6 DEF LogFlightCovered
  <2> QED
    BY <2>1, <2>2
<1>6. ApxTypeOK'
  BY <1>1, <1>5 DEF ApxInv, ApxTypeOK, LogPollSet
<1>7. LogPollCovered' /\ LogPageComplete'
  BY <1>1, <1>5 DEF LogPollCovered, LogPageComplete, PageComplete, LogStanding, LogCovers
<1> QED
  BY <1>2, <1>5, <1>6, <1>7 DEF ApxInv, NeverStalls

\* The poll between two cycles.
LEMMA NoPollSound ==
    /\ NoPoll \in LogPollSet /\ LogStanding(NoPoll.cur)
    /\ \A D : LogCovers(NoPoll.cur, D) /\ PageComplete(NoPoll, D)
<1>1. NoPoll.cur = NoWatermark /\ NoWatermark.ids = <<>> /\ NoWatermark.wm = 0 /\ NoPoll.pc = "idle"
  BY DEF NoPoll, NoWatermark
<1>2. NoPoll \in LogPollSet
  BY DEF NoPoll, NoWatermark, LogPollSet, LogCursorSet
<1>3. \A m : Ahead(NoPoll.cur, m)
  BY <1>1 DEF Ahead
<1>4. LogStanding(NoPoll.cur)
  BY <1>1 DEF LogStanding
<1> QED
  BY <1>1, <1>2, <1>3, <1>4 DEF LogCovers, PageComplete

LEMMA ApxBeginInv ==
    ASSUME ApxInv, ApxBegin
    PROVE  ApxInv'
<1>1. PICK p \in LogPollSet : p = [NoPoll EXCEPT !.pc = "list", !.cur = apxStored]
  BY DEF NoPoll, NoWatermark, LogPollSet, LogCursorSet, ApxInv, ApxTypeOK
<1>2. p.cur = apxStored /\ p.pc = "list"
  BY <1>1 DEF NoPoll
<1>3. LogStanding(p.cur) /\ LogCovers(p.cur, LogsHandled)
  BY <1>2 DEF ApxInv, LogStoredCovered, LogCovers, LogsHandled
<1>4. PageComplete(p, LogsHandled)
  BY <1>2 DEF PageComplete
<1> QED
  BY <1>1, <1>3, <1>4, LogPollStep DEF ApxBegin, ApxInv, NeverStalls

\* The cycle is given up, or it ends without a token.
LEMMA ApxGivenUpInv ==
    ASSUME ApxInv, Polls(NoPoll), UNCHANGED <<apxFlight, apxStalls>>
    PROVE  ApxInv'
BY NoPollSound, LogPollStep DEF ApxInv, NeverStalls

LEMMA ApxEndInv ==
    ASSUME ApxInv, ApxEnd
    PROVE  ApxInv'
<1>1. Polls(NoPoll) /\ UNCHANGED apxStalls
  BY DEF ApxEnd
<1>2. CASE UNCHANGED apxFlight
  BY <1>1, <1>2, ApxGivenUpInv
<1>3. CASE apxFlight' = Append(apxFlight, [logs |-> {}, token |-> apxPoll.cur])
  <2>1. PICK e \in LogEntrySet : e = [logs |-> {}, token |-> apxPoll.cur]
    BY DEF LogEntrySet, ApxInv, ApxTypeOK, LogPollSet
  <2>2. e.logs = {} /\ LogStanding(e.token) /\ LogCovers(e.token, LogsHandled) /\ apxFlight' = Append(apxFlight, e)
    BY <1>3, <2>1 DEF ApxInv, LogPollCovered
  <2>3. LogsHandled = LogsHandled \cup e.logs
    BY <2>2
  <2> QED
    BY <1>1, <2>2, <2>3, NoPollSound, LogPollStep DEF ApxInv, NeverStalls
<1> QED
  BY <1>2, <1>3 DEF ApxEnd

\* What is earlier than a log of the page is in the page.
LEMMA OldestClosed ==
    ASSUME NEW S \in SUBSET Logs, NEW a \in S, NEW m \in OldestLogs(S), Earlier(a, m)
    PROVE  a \in OldestLogs(S)
<1>1. PICK A, B : A = {b \in S : Earlier(b, a)} /\ B = {b \in S : Earlier(b, m)}
  OBVIOUS
<1>2. a \in Logs /\ m \in Logs /\ m \in S
  BY DEF OldestLogs
<1>3. A \subseteq B
  BY <1>1, <1>2, EarlierOrder
<1>4. IsFiniteSet(A) /\ IsFiniteSet(B) /\ Cardinality(A) <= Cardinality(B)
  <2>1. IsFiniteSet(B)
    BY <1>1, FS_Subset, ApxAssumption
  <2> QED
    BY <1>3, <2>1, FS_Subset
<1>5. Cardinality(A) \in Nat /\ Cardinality(B) \in Nat /\ ApxPage \in Nat
  BY <1>4, FS_CardinalityType, ApxAssumption
<1>6. Cardinality(B) < ApxPage
  BY <1>1 DEF OldestLogs
<1>7. Cardinality(A) < ApxPage
  BY <1>4, <1>5, <1>6
<1> QED
  BY <1>1, <1>7 DEF OldestLogs

\* The listed page: its logs are ahead of the cursor, none of them is in the
\* window, and a full page is never empty.
LEMMA ApxListInv ==
    ASSUME ApxInv, ApxList
    PROVE  ApxInv'
<1> DEFINE c == apxPoll.cur
           S == AfterCursor(c)
           page == OldestLogs(S)
           new == {m \in page : ~Contains(c.ids, m)}
<1>1. /\ ApxTypeOK /\ apxPoll \in LogPollSet /\ c \in LogCursorSet /\ LogStanding(c) /\ LogCovers(c, LogsHandled)
      /\ apxStalls = 0 /\ apxVisible \subseteq Logs
  BY DEF ApxInv, ApxTypeOK, LogPollCovered, LogPollSet, NeverStalls
<1>2. S = {m \in apxVisible : Ahead(c, m)}
  BY <1>1, ListingAhead
<1>3. page \subseteq S
  BY DEF OldestLogs
<1>4. new = page
  <2> SUFFICES ASSUME NEW m \in page PROVE ~Contains(c.ids, m)
    OBVIOUS
  <2>1. Ahead(c, m)
    BY <1>2, <1>3
  <2> QED
    BY <1>1, <2>1 DEF Contains, LogStanding
<1>5. Cardinality(page) >= ApxPage => page # {}
  BY FS_EmptySet, ApxAssumption
<1>6. ASSUME NEW a \in apxVisible \cap LogsKept, NEW m \in page, Earlier(a, m)
      PROVE  a \in page \cup LogsHandled
  <2>1. CASE Ahead(c, a)
    <3>1. a \in S /\ m \in S /\ S \subseteq Logs
      BY <1>1, <1>2, <1>3, <2>1
    <3> QED
      BY <1>6, <3>1, OldestClosed
  <2>2. CASE ~Ahead(c, a)
    BY <1>1, <2>2 DEF LogCovers
  <2> QED
    BY <2>1, <2>2
<1>7. apxStalls' = 0
  BY <1>1, <1>4, <1>5 DEF ApxList
<1>8. CASE new = {}
  <2>1. PICK p \in LogPollSet : p = [apxPoll EXCEPT !.pc = "end"]
    BY <1>1 DEF LogPollSet
  <2>2. p.cur = c /\ p.pc = "end"
    BY <1>1, <2>1 DEF LogPollSet
  <2>3. Polls(p) /\ UNCHANGED apxFlight
    BY <1>8, <2>1 DEF ApxList
  <2>4. PageComplete(p, LogsHandled)
    BY <2>2 DEF PageComplete
  <2> QED
    BY <1>1, <1>7, <2>2, <2>3, <2>4, LogPollStep
<1>9. CASE new # {}
  <2>1. PICK more \in BOOLEAN : more = (Cardinality(page) >= ApxPage)
    <3>1. IsFiniteSet(page)
      BY <1>1, <1>2, <1>3, FS_Subset, ApxAssumption
    <3>2. PICK n \in Nat : n = Cardinality(page)
      BY <3>1, FS_CardinalityType
    <3>3. (n >= ApxPage) \in BOOLEAN
      BY ApxAssumption
    <3> QED
      BY <3>2, <3>3
  <2>2. PICK T \in SUBSET apxVisible : T = new
    BY <1>2, <1>3
  <2>3. PICK p \in LogPollSet : p = [apxPoll EXCEPT !.pc = "logs", !.todo = T, !.full = more, !.progress = TRUE]
    BY <1>1 DEF LogPollSet
  <2>4. p.cur = c /\ p.todo = T
    BY <1>1, <2>3 DEF LogPollSet
  <2>5. Polls(p) /\ UNCHANGED apxFlight
    BY <1>9, <2>1, <2>2, <2>3 DEF ApxList
  <2>6. \A m \in page : Ahead(c, m)
    BY <1>2, <1>3
  <2>7. PageComplete(p, LogsHandled)
    BY <1>4, <1>6, <2>2, <2>4, <2>6 DEF PageComplete
  <2> QED
    BY <1>1, <1>7, <2>4, <2>5, <2>7, LogPollStep
<1> QED
  BY <1>8, <1>9

\* The next log is emitted or dropped: the cursor moves to it, and all that is
\* earlier is handled.
LEMMA LogTaken ==
    ASSUME ApxInv, NEW m \in Logs, NextLog(m), NEW sent \in BOOLEAN, NEW H,
           LogsHandled \subseteq H, m \in LogsKept => m \in H
    PROVE  LET p == AfterLog(m, sent) IN
           /\ p \in LogPollSet /\ p.cur = CursorAfter(apxPoll.cur, m)
           /\ LogStanding(p.cur) /\ LogCovers(p.cur, H) /\ PageComplete(p, H)
<1> DEFINE c == apxPoll.cur
           d == CursorAfter(c, m)
           p == AfterLog(m, sent)
<1>1. /\ ApxTypeOK /\ apxPoll \in LogPollSet /\ c \in LogCursorSet /\ LogStanding(c) /\ LogCovers(c, LogsHandled)
      /\ apxVisible \subseteq Logs /\ apxPoll.todo \subseteq apxVisible /\ PageComplete(apxPoll, LogsHandled)
  BY DEF ApxInv, ApxTypeOK, LogPollCovered, LogPollSet, LogPageComplete
<1>2. apxPoll.pc = "logs" /\ m \in apxPoll.todo /\ \A a \in apxPoll.todo \ {m} : Earlier(m, a)
  BY DEF NextLog
<1>3. Ahead(c, m) /\ m \in apxVisible
  BY <1>1, <1>2 DEF PageComplete
<1>4. d \in LogCursorSet /\ LogStanding(d) /\ \A a \in Logs : Ahead(d, a) <=> Earlier(m, a)
  BY <1>1, <1>3, CursorMoves
<1>5. p \in LogPollSet /\ p.cur = d /\ p.todo = apxPoll.todo \ {m}
  <2>1. PICK T \in SUBSET apxVisible, b \in BOOLEAN : T = apxPoll.todo \ {m} /\ b = (apxPoll.emitted \/ sent)
    BY <1>1 DEF LogPollSet
  <2> HIDE DEF d
  <2>2. PICK w \in {"idle", "list", "logs", "end"} :
          w = IF apxPoll.todo \ {m} # {} THEN "logs" ELSE IF apxPoll.full THEN "list" ELSE "end"
    OBVIOUS
  <2>3. p = [apxPoll EXCEPT !.cur = d, !.emitted = b, !.todo = T, !.pc = w]
    BY <2>1, <2>2 DEF AfterLog, d
  <2> QED
    BY <1>1, <1>4, <2>1, <2>3 DEF LogPollSet
<1>6. LogCovers(d, H)
  <2> SUFFICES ASSUME NEW a \in apxVisible \cap LogsKept, ~Earlier(m, a) PROVE a \in H
    BY <1>1, <1>4 DEF LogCovers
  <2>1. CASE a = m
    BY <2>1
  <2>2. CASE a # m
    <3>1. Earlier(a, m)
      BY <1>1, <2>2, EarlierOrder
    <3>2. a \in apxPoll.todo \cup LogsHandled
      BY <1>1, <1>2, <3>1 DEF PageComplete
    <3>3. a \notin apxPoll.todo
      BY <1>2, <2>2
    <3> QED
      BY <3>2, <3>3
  <2> QED
    BY <2>1, <2>2
<1>7. PageComplete(p, H)
  <2>1. \A a \in p.todo : Ahead(d, a)
    BY <1>1, <1>2, <1>4, <1>5
  <2>2. ASSUME NEW a \in apxVisible \cap LogsKept, NEW b \in p.todo, Earlier(a, b)
        PROVE  a \in p.todo \cup H
    <3>1. a \in apxPoll.todo \cup LogsHandled
      BY <1>1, <1>2, <1>5, <2>2 DEF PageComplete
    <3> QED
      BY <1>5, <3>1
  <2> QED
    BY <1>5, <2>1, <2>2 DEF PageComplete
<1> QED
  BY <1>4, <1>5, <1>6, <1>7

LEMMA ApxDropInv ==
    ASSUME ApxInv, NEW m \in Logs, ApxDrop(m)
    PROVE  ApxInv'
<1>1. NextLog(m) /\ m \notin LogsKept /\ Polls(AfterLog(m, FALSE)) /\ UNCHANGED <<apxFlight, apxStalls>>
  BY DEF ApxDrop
<1>2. PICK p : p = AfterLog(m, FALSE)
  OBVIOUS
<1>3. p \in LogPollSet /\ LogStanding(p.cur) /\ LogCovers(p.cur, LogsHandled) /\ PageComplete(p, LogsHandled)
  BY <1>1, <1>2, LogTaken
<1> QED
  BY <1>1, <1>2, <1>3, LogPollStep DEF ApxInv, NeverStalls

LEMMA ApxEmitInv ==
    ASSUME ApxInv, NEW m \in Logs, ApxEmit(m)
    PROVE  ApxInv'
<1>1. /\ NextLog(m) /\ Polls(AfterLog(m, TRUE)) /\ UNCHANGED apxStalls
      /\ apxFlight' = Append(apxFlight, [logs |-> {m}, token |-> CursorAfter(apxPoll.cur, m)])
  BY DEF ApxEmit, Emits
<1>2. PICK p : p = AfterLog(m, TRUE)
  OBVIOUS
<1>3. PICK H : H = LogsHandled \cup {m}
  OBVIOUS
<1>4. /\ p \in LogPollSet /\ LogStanding(p.cur) /\ LogCovers(p.cur, H) /\ PageComplete(p, H)
      /\ p.cur = CursorAfter(apxPoll.cur, m)
  <2>1. LogsHandled \subseteq H /\ m \in H /\ TRUE \in BOOLEAN
    BY <1>3
  <2> QED
    BY <1>1, <1>2, <2>1, LogTaken
<1>5. PICK e \in LogEntrySet : e = [logs |-> {m}, token |-> p.cur]
  <2>1. p.cur \in LogCursorSet
    BY <1>4 DEF LogPollSet
  <2> QED
    BY <2>1 DEF LogEntrySet
<1>6. apxFlight' = Append(apxFlight, e) /\ H = LogsHandled \cup e.logs /\ e.token = p.cur
  BY <1>1, <1>3, <1>4, <1>5
<1> QED
  BY <1>1, <1>2, <1>4, <1>6, LogPollStep DEF ApxInv, NeverStalls

\* A new log is ahead of every cursor.
LEMMA ApxAppearInv ==
    ASSUME ApxInv, NEW x \in Logs, ApxAppear(x)
    PROVE  ApxInv'
<1>1. /\ apxVisible' = apxVisible \cup {x} /\ \A a \in apxVisible : Earlier(a, x)
      /\ UNCHANGED <<apxStored, apxFlight, apxSent, apxPoll, apxStalls>>
  BY DEF ApxAppear
<1>2. ApxTypeOK'
  <2>1. apxPoll' \in LogPollSet'
    <3>1. apxPoll \in LogPollSet /\ SUBSET apxVisible \subseteq SUBSET apxVisible'
      BY <1>1 DEF ApxInv, ApxTypeOK
    <3> QED
      BY <1>1, <3>1 DEF LogPollSet
  <2> QED
    BY <1>1, <2>1 DEF ApxInv, ApxTypeOK
<1>3. ASSUME NEW c, NEW D, LogStanding(c), LogCovers(c, D)
      PROVE  LogStanding(c)' /\ LogCovers(c, D)'
  <2>1. Ahead(c, x)
    BY <1>1, <1>3 DEF LogStanding, Ahead
  <2> QED
    BY <1>1, <1>3, <2>1 DEF LogStanding, LogCovers
<1>4. LogStoredCovered'
  BY <1>1, <1>3 DEF ApxInv, LogStoredCovered
<1>5. LogsHandled' = LogsHandled /\ \A i : LogsReached(i)' = LogsReached(i)
  BY <1>1 DEF LogsHandled, LogsReached
<1>6. LogFlightCovered'
  <2> SUFFICES ASSUME NEW i \in 1 .. Len(apxFlight)
               PROVE  LogEntryCovered(i)'
    BY <1>1 DEF LogFlightCovered
  <2>1. PICK c, D : c = apxFlight[i].token /\ D = apxSent \cup LogsReached(i)
    OBVIOUS
  <2>2. LogStanding(c) /\ LogCovers(c, D)
    BY <2>1 DEF ApxInv, LogFlightCovered, LogEntryCovered
  <2>3. LogStanding(c)' /\ LogCovers(c, D)'
    BY <1>3, <2>2
  <2>4. apxFlight'[i].token = c /\ apxSent' \cup LogsReached(i)' = D
    BY <1>1, <1>5, <2>1
  <2> QED
    BY <2>3, <2>4 DEF LogEntryCovered, LogStanding, LogCovers
<1>7. LogPollCovered'
  BY <1>1, <1>3, <1>5 DEF ApxInv, LogPollCovered
<1>8. LogPageComplete'
  <2>1. \A b \in apxPoll.todo : b \in apxVisible /\ b \in Logs
    BY DEF ApxInv, ApxTypeOK, LogPollSet
  <2>2. \A b \in apxPoll.todo : ~Earlier(x, b)
    BY <1>1, <2>1, EarlierOrder
  <2> QED
    BY <1>1, <1>5, <2>2 DEF ApxInv, LogPageComplete, PageComplete
<1> QED
  BY <1>1, <1>2, <1>4, <1>6, <1>7, <1>8 DEF ApxInv, NeverStalls

\* The oldest entry is pushed and its cursor committed.
LEMMA ApxPushInv ==
    ASSUME ApxInv, ApxPush
    PROVE  ApxInv'
<1>1. /\ apxFlight # <<>> /\ apxSent' = apxSent \cup apxFlight[1].logs /\ apxStored' = apxFlight[1].token
      /\ apxFlight' = Tail(apxFlight) /\ UNCHANGED <<apxVisible, apxPoll, apxStalls>>
  BY DEF ApxPush
<1>2. PICK n \in Nat : n = Len(apxFlight) /\ n > 0
  BY <1>1 DEF ApxInv, ApxTypeOK
<1>3. apxFlight \in Seq(LogEntrySet)
  BY DEF ApxInv, ApxTypeOK
<1>4. /\ apxFlight' \in Seq(LogEntrySet) /\ Len(apxFlight') = n - 1
      /\ \A i \in 1 .. n - 1 : apxFlight'[i] = apxFlight[i + 1]
  BY <1>1, <1>2, <1>3
<1>5. ApxTypeOK'
  <2>1. apxFlight[1] \in LogEntrySet
    BY <1>2, <1>3
  <2>2. apxStored' \in LogCursorSet
    BY <1>1, <2>1 DEF LogEntrySet
  <2> QED
    BY <1>1, <1>4, <2>2 DEF ApxInv, ApxTypeOK, LogPollSet
<1>6. ASSUME NEW i \in 0 .. n - 1
      PROVE  apxSent \cup LogsReached(i + 1) \subseteq apxSent' \cup LogsReached(i)'
  <2> SUFFICES ASSUME NEW m, NEW j \in 1 .. i + 1, m \in apxFlight[j].logs
               PROVE  m \in apxSent' \cup LogsReached(i)'
    BY <1>1 DEF LogsReached
  <2>1. CASE j = 1
    BY <1>1, <2>1
  <2>2. CASE j # 1
    <3>1. j - 1 \in 1 .. i /\ j - 1 \in 1 .. n - 1 /\ (j - 1) + 1 = j
      BY <1>2, <2>2
    <3>2. apxFlight'[j - 1] = apxFlight[j]
      BY <1>4, <3>1
    <3> QED
      BY <3>1, <3>2 DEF LogsReached
  <2> QED
    BY <2>1, <2>2
<1>7. ASSUME NEW i \in 0 .. n - 1, NEW c, c = apxFlight[i + 1].token
      PROVE  LogStanding(c)' /\ \A a \in apxVisible \cap LogsKept : Ahead(c, a) \/ a \in apxSent' \cup LogsReached(i)'
  <2>1. i + 1 \in 1 .. Len(apxFlight)
    BY <1>2
  <2>2. LogStanding(c) /\ LogCovers(c, apxSent \cup LogsReached(i + 1))
    BY <1>7, <2>1 DEF ApxInv, LogFlightCovered, LogEntryCovered
  <2> QED
    BY <1>1, <1>6, <2>2 DEF LogStanding, LogCovers
<1>8. LogStoredCovered'
  <2>1. 0 \in 0 .. n - 1 /\ 0 + 1 = 1 /\ LogsReached(0)' = {}
    BY <1>2 DEF LogsReached
  <2>2. PICK c : c = apxFlight[1].token
    OBVIOUS
  <2>3. LogStanding(c)' /\ \A a \in apxVisible \cap LogsKept : Ahead(c, a) \/ a \in apxSent'
    <3>1. LogStanding(c)' /\ \A a \in apxVisible \cap LogsKept : Ahead(c, a) \/ a \in apxSent' \cup LogsReached(0)'
      BY <1>7, <2>1, <2>2
    <3> QED
      BY <2>1, <3>1
  <2> QED
    BY <1>1, <2>2, <2>3 DEF LogStoredCovered, LogStanding, LogCovers
<1>9. LogFlightCovered'
  <2> SUFFICES ASSUME NEW i \in 1 .. n - 1
               PROVE  LogEntryCovered(i)'
    BY <1>4 DEF LogFlightCovered
  <2>1. i \in 0 .. n - 1 /\ apxFlight'[i] = apxFlight[i + 1]
    BY <1>4
  <2>2. PICK c : c = apxFlight[i + 1].token
    OBVIOUS
  <2>3. LogStanding(c)' /\ \A a \in apxVisible \cap LogsKept : Ahead(c, a) \/ a \in apxSent' \cup LogsReached(i)'
    BY <1>7, <2>1, <2>2
  <2> QED
    BY <1>1, <2>1, <2>2, <2>3 DEF LogEntryCovered, LogStanding, LogCovers
<1>10. LogsHandled \subseteq LogsHandled'
  <2>1. n - 1 \in 0 .. n - 1 /\ (n - 1) + 1 = n
    BY <1>2
  <2>2. apxSent \cup LogsReached(n) \subseteq apxSent' \cup LogsReached(n - 1)'
    BY <1>6, <2>1
  <2>3. PICK k \in Nat : k = n - 1
    BY <1>2
  <2>4. LogsHandled = apxSent \cup LogsReached(n) /\ LogsHandled' = apxSent' \cup LogsReached(k)'
    BY <1>2, <1>4, <2>3 DEF LogsHandled
  <2> QED
    BY <2>2, <2>3, <2>4
<1>11. LogPollCovered' /\ LogPageComplete'
  BY <1>1, <1>10 DEF ApxInv, LogPollCovered, LogPageComplete, PageComplete, LogStanding, LogCovers
<1> QED
  BY <1>1, <1>5, <1>8, <1>9, <1>11 DEF ApxInv, NeverStalls

LEMMA ApxCrashInv ==
    ASSUME ApxInv, ApxCrash
    PROVE  ApxInv'
<1>1. apxPoll' = NoPoll /\ apxFlight' = <<>> /\ apxStalls' = 0 /\ UNCHANGED <<apxVisible, apxStored, apxSent>>
  BY DEF ApxCrash
<1>2. ApxTypeOK'
  BY <1>1, NoPollSound DEF ApxInv, ApxTypeOK, LogPollSet
<1>3. LogStoredCovered' /\ LogFlightCovered'
  BY <1>1 DEF ApxInv, LogStoredCovered, LogFlightCovered, LogStanding, LogCovers
<1>4. LogPollCovered' /\ LogPageComplete'
  BY <1>1, NoPollSound DEF LogPollCovered, LogPageComplete, PageComplete, LogStanding, LogCovers
<1> QED
  BY <1>1, <1>2, <1>3, <1>4 DEF ApxInv, NeverStalls

\* The (StartTime, Id) cursor of the Apex logs never passes a log that was neither
\* pushed nor dropped, and never stalls, however the logs tie and whatever is lost.
THEOREM LogsNeverSkipped == ApxSpec => []LogCursorSound
<1>1. ApxInit => ApxInv
  <2> SUFFICES ASSUME ApxInit PROVE ApxInv
    OBVIOUS
  <2>1. /\ apxVisible = {} /\ apxStored = NoWatermark /\ apxFlight = <<>> /\ apxPoll = NoPoll /\ apxStalls = 0
        /\ NoPoll.cur = NoWatermark
    BY DEF ApxInit, NoPoll
  <2>2. ApxTypeOK
    BY <2>1, NoPollSound DEF ApxTypeOK, NoWatermark, LogCursorSet
  <2> QED
    BY <2>1, <2>2, NoPollSound
       DEF ApxInv, LogStoredCovered, LogFlightCovered, LogPollCovered, LogPageComplete, NeverStalls
<1>2. ApxInv /\ [ApxNext]_apxVars => ApxInv'
  <2> SUFFICES ASSUME ApxInv, [ApxNext]_apxVars PROVE ApxInv'
    OBVIOUS
  <2>1. CASE ApxBegin \/ ApxList \/ ApxEnd \/ ApxPush \/ ApxCrash
    BY <2>1, ApxBeginInv, ApxListInv, ApxEndInv, ApxPushInv, ApxCrashInv
  <2>2. CASE ApxAborts \/ ApxStops
    BY <2>2, ApxGivenUpInv DEF ApxAborts, ApxStops
  <2>3. CASE \E m \in Logs : ApxAppear(m) \/ ApxDrop(m) \/ ApxEmit(m)
    BY <2>3, ApxAppearInv, ApxDropInv, ApxEmitInv
  <2>4. CASE UNCHANGED apxVars
    BY <2>4 DEF apxVars, ApxInv, ApxTypeOK, LogPollSet, LogStoredCovered, LogFlightCovered, LogEntryCovered,
                LogPollCovered, LogPageComplete, PageComplete, LogStanding, LogCovers, LogsHandled, LogsReached,
                NeverStalls
  <2> QED
    BY <2>1, <2>2, <2>3, <2>4 DEF ApxNext, ApxStep
<1>3. ApxInv => LogCursorSound
  <2> SUFFICES ASSUME ApxInv, NEW m \in apxVisible \cap LogsKept, LogPassed(m) PROVE m \in apxSent
    BY DEF ApxInv, LogCursorSound, NoLogSkipped
  <2>1. AfterCursor(apxStored) = {a \in apxVisible : Ahead(apxStored, a)}
    BY ListingAhead DEF ApxInv, ApxTypeOK, LogStoredCovered
  <2> QED
    BY <2>1 DEF ApxInv, LogStoredCovered, LogCovers, LogPassed
<1> QED
  BY <1>1, <1>2, <1>3, PTL DEF ApxSpec

=============================================================================
