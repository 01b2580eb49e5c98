-------------------------- MODULE FileSourceProofs --------------------------
(* A backfill misses no file, and the event log file source loses none, for  *)
(* any files, ties, page sizes, cutoffs and settle windows, however their    *)
(* runs and cycles fail, are interrupted and are started again.              *)
EXTENDS Backfill, EventLogFile, FiniteSetTheorems, WellFoundedInduction, TLAPS

-----------------------------------------------------------------------------
(* The backfill: the inductive invariant.                                    *)

Types == Elements(BfTypes)
CursorSet == [last : Nat, done : SUBSET BfFiles]
RunSet ==
    [pc : {"idle", "type", "list", "file", "push", "exit"}, org : Orgs, until : Nat,
     types : Seq(Types), cursor : CursorSet, since : Nat, files : SUBSET BfFiles, full : BOOLEAN,
     last : Nat, chunk : Nat, fails : Nat, clean : BOOLEAN, code : {0, 1}]
BfTypeOK == bfStore \in [BfKeys -> CursorSet] /\ bfRun \in RunSet

\* The chunks of f are in D, which stands for those that were pushed or dropped.
Done(D, f) == \A i \in 1 .. Chunks(f) : <<f, i>> \in D
Settled == bfPushed \cup bfDropped

\* The stored cursors, the legacy ones of the first org among them.
StoreSound(D) ==
    \A f \in BfFiles :
        /\ Behind(bfStore[BfOf[f]], f) => Done(D, f)
        /\ BfOf[f][1] = FirstOrg /\ Behind(bfStore[<<Legacy, BfOf[f][2]>>], f) => Done(D, f)

\* The files of the type at hand.
OfType(r, f) == f \in BfFiles /\ BfOf[f] = <<r.org, r.types[1]>>
\* Those that the run is after.
Sought(r, f) == OfType(r, f) /\ BfCreated[f] < r.until

\* The types that are over, unless one was given up.
TypesSound(D, r) ==
    r.clean => \A f \in BfFiles :
        (BfOf[f][1] = r.org /\ BfOf[f][2] \notin Elements(r.types) /\ BfCreated[f] < r.until) => Done(D, f)

\* What the cursor c of the type at hand marks as done.
CursorSound(D, r, c) == \A f \in BfFiles : (OfType(r, f) /\ Behind(c, f)) => Done(D, f)

\* What the next listing leaves out.
ListingSound(D, r) == \A f \in BfFiles : (Sought(r, f) /\ BfCreated[f] < r.since) => Done(D, f)

\* What the page at hand has come to: it precedes what is left of the page, or the
\* newest file of a full one.
Reached(r, f) == ~r.full \/ BfCreated[f] < r.last \/ \E g \in r.files : Precedes(f, g)
PageSound(D, r) ==
    /\ \A f \in r.files : Sought(r, f)
    /\ \A f \in BfFiles \ r.files : (Sought(r, f) /\ Reached(r, f)) => Done(D, f)

\* The chunks of the file at hand that are over.
ChunkSound(D, r) ==
    \A f \in BfFiles : IsNext(r, f) => \A i \in 1 .. Chunks(f) : i < r.chunk => <<f, i>> \in D

RunSound(D, r) ==
    /\ TypesSound(D, r)
    /\ r.pc = "exit" /\ r.clean /\ r.code = 0 => r.types = <<>>
    /\ r.pc \in {"list", "file", "push"} => r.types # <<>> /\ CursorSound(D, r, r.cursor)
    /\ r.pc = "list" => ListingSound(D, r)
    /\ r.pc \in {"file", "push"} => PageSound(D, r)
    /\ r.pc = "push" => ChunkSound(D, r)

BfInv == BfTypeOK /\ StoreSound(Settled) /\ RunSound(Settled, bfRun)

-----------------------------------------------------------------------------
(* The listing order and its pages.                                          *)

LEMMA FileFacts ==
    ASSUME BfAssumption, NEW f \in BfFiles
    PROVE  /\ f \in Nat /\ BfCreated[f] \in Nat \ {0} /\ Chunks(f) \in Nat
           /\ BfOf[f] = <<BfOf[f][1], BfOf[f][2]>> /\ BfOf[f][1] \in Orgs /\ BfOf[f][2] \in Types
           /\ BfOf[f] \in BfKeys /\ <<Legacy, BfOf[f][2]>> \in BfKeys
<1>1. f \in Nat /\ BfCreated[f] \in Nat \ {0} /\ Chunks(f) \in Nat /\ BfOf[f] \in Orgs \X Types
  BY DEF BfAssumption, Chunks, Types
<1> QED
  BY <1>1 DEF BfKeys, Types

\* The listing order is linear.
LEMMA OrderFacts ==
    ASSUME BfAssumption, NEW f \in BfFiles, NEW g \in BfFiles
    PROVE  /\ Precedes(f, g) => BfCreated[f] <= BfCreated[g] /\ f # g
           /\ f # g /\ ~Precedes(f, g) => Precedes(g, f)
           /\ BfCreated[f] < BfCreated[g] => Precedes(f, g)
           /\ \A h \in BfFiles : Precedes(f, g) /\ Precedes(g, h) => Precedes(f, h)
<1>1. \A h \in BfFiles : h \in Nat /\ BfCreated[h] \in Nat
  BY FileFacts
<1> QED
  BY <1>1 DEF Precedes

\* A nonempty set of numbers has a least one.
LEMMA LeastNumber ==
    ASSUME NEW T, T \subseteq Nat, T # {}
    PROVE  \E t \in T : \A u \in T : t <= u
<1>1. PICK t \in T : \A u \in T : ~(<<u, t>> \in OpToRel(<, Nat))
  BY NatLessThanWellFounded, WFMin
<1>2. \A u \in T : t <= u
  <2> SUFFICES ASSUME NEW u \in T, u < t PROVE FALSE
    OBVIOUS
  <2>1. <<u, t>> \in Nat \X Nat /\ <<u, t>>[1] < <<u, t>>[2]
    OBVIOUS
  <2>2. <<u, t>> \in OpToRel(<, Nat)
    BY <2>1, Zenon DEF OpToRel
  <2> QED
    BY <1>1, <2>2
<1> QED
  BY <1>2

\* Some file of a set comes first.
LEMMA SomeFirst ==
    ASSUME BfAssumption, NEW S, S \subseteq BfFiles, S # {}
    PROVE  \E f \in S : \A g \in S : ~Precedes(g, f)
<1>1. \A f \in S : f \in Nat /\ BfCreated[f] \in Nat
  BY FileFacts
<1>2. PICK c \in {BfCreated[f] : f \in S} : \A d \in {BfCreated[f] : f \in S} : c <= d
  <2>1. {BfCreated[f] : f \in S} \subseteq Nat /\ {BfCreated[f] : f \in S} # {}
    BY <1>1
  <2> QED
    BY <2>1, LeastNumber
<1>3. PICK f \in {g \in S : BfCreated[g] = c} : \A g \in {h \in S : BfCreated[h] = c} : f <= g
  <2>1. {g \in S : BfCreated[g] = c} \subseteq Nat /\ {g \in S : BfCreated[g] = c} # {}
    BY <1>1, <1>2
  <2> QED
    BY <2>1, LeastNumber
<1>4. ASSUME NEW g \in S PROVE ~Precedes(g, f)
  <2>1. c \in Nat /\ c <= BfCreated[g] /\ BfCreated[f] = c /\ f \in Nat /\ g \in Nat /\ BfCreated[g] \in Nat
    BY <1>1, <1>2, <1>3
  <2>2. BfCreated[g] = c => f <= g
    BY <1>3
  <2> QED
    BY <2>1, <2>2 DEF Precedes
<1> QED
  BY <1>3, <1>4

\* The files before f are finitely many, and a page counts them.
LEMMA PageCounts ==
    ASSUME BfAssumption, NEW S, S \subseteq BfFiles, NEW X, X \subseteq S
    PROVE  IsFiniteSet(X) /\ Cardinality(X) \in Nat
           /\ \A Y \in SUBSET X : Cardinality(Y) \in Nat /\ Cardinality(Y) <= Cardinality(X)
<1>1. IsFiniteSet(X)
  BY FS_Subset DEF BfAssumption
<1> QED
  BY <1>1, FS_Subset, FS_CardinalityType

\* A page holds whatever comes before a file of it.
LEMMA PageIsFirst ==
    ASSUME BfAssumption, NEW S, S \subseteq BfFiles, NEW f \in FirstPage(S), NEW g \in S, Precedes(g, f)
    PROVE  g \in FirstPage(S)
<1>1. PICK X \in SUBSET S : X = {h \in S : Precedes(h, f)}
  OBVIOUS
<1>2. PICK Y \in SUBSET S : Y = {h \in S : Precedes(h, g)}
  OBVIOUS
<1>3. f \in S /\ Cardinality(X) < BfPage
  BY <1>1 DEF FirstPage
<1>4. Y \subseteq X
  BY <1>1, <1>2, <1>3, OrderFacts
<1>5. Cardinality(X) \in Nat /\ Cardinality(Y) \in Nat /\ Cardinality(Y) <= Cardinality(X)
  BY <1>4, PageCounts
<1>6. Cardinality(Y) < BfPage
  BY <1>3, <1>5 DEF BfAssumption
<1> QED
  BY <1>2, <1>6 DEF FirstPage

\* A page that is not full leaves nothing out.
LEMMA ShortPage ==
    ASSUME BfAssumption, NEW S, S \subseteq BfFiles, ~(Cardinality(FirstPage(S)) >= BfPage)
    PROVE  FirstPage(S) = S
<1>1. PICK P \in SUBSET S : P = FirstPage(S)
  BY DEF FirstPage
<1>2. SUFFICES ASSUME S \ P # {} PROVE FALSE
  BY <1>1
<1>3. PICK f \in S \ P : \A g \in S \ P : ~Precedes(g, f)
  BY <1>2, SomeFirst
<1>4. PICK X \in SUBSET S : X = {g \in S : Precedes(g, f)}
  OBVIOUS
<1>5. X \subseteq P
  BY <1>3, <1>4
<1>6. Cardinality(P) \in Nat /\ Cardinality(X) \in Nat /\ Cardinality(X) <= Cardinality(P)
  BY <1>5, PageCounts
<1>7. Cardinality(X) < BfPage
  BY <1>1, <1>6 DEF BfAssumption
<1> QED
  BY <1>1, <1>3, <1>4, <1>7 DEF FirstPage

\* What a page leaves out comes after all that is in it, and there is a first file.
LEMMA LeftOut ==
    ASSUME BfAssumption, NEW S, S \subseteq BfFiles, NEW f \in S \ FirstPage(S)
    PROVE  FirstPage(S) # {} /\ \A g \in FirstPage(S) : Precedes(g, f)
<1>1. Cardinality(FirstPage(S)) >= BfPage
  BY ShortPage
<1>2. FirstPage(S) # {}
  <2> SUFFICES ASSUME FirstPage(S) = {} PROVE FALSE
    OBVIOUS
  <2>1. Cardinality({}) = 0 /\ BfPage \in Nat \ {0} /\ Cardinality({}) >= BfPage
    BY <1>1, FS_EmptySet DEF BfAssumption
  <2> QED
    BY <2>1
<1>3. ASSUME NEW g \in FirstPage(S) PROVE Precedes(g, f)
  <2>1. g \in S
    BY DEF FirstPage
  <2>2. ~Precedes(f, g)
    BY PageIsFirst
  <2> QED
    BY <2>1, <2>2, OrderFacts
<1> QED
  BY <1>2, <1>3

-----------------------------------------------------------------------------
(* How a run goes on: D is what has been disposed of.                        *)

LEMMA FirstAndRest ==
    ASSUME BfAssumption, NEW s \in Seq(Types), s # <<>>
    PROVE  s[1] \in Types /\ Tail(s) \in Seq(Types) /\ \A t \in Elements(s) : t = s[1] \/ t \in Elements(Tail(s))
<1>1. Len(s) \in Nat /\ Len(s) >= 1 /\ DOMAIN s = 1 .. Len(s) /\ s[1] \in Types
  OBVIOUS
<1>2. /\ Tail(s) \in Seq(Types) /\ DOMAIN Tail(s) = 1 .. (Len(s) - 1)
      /\ \A i \in 1 .. (Len(s) - 1) : Tail(s)[i] = s[i + 1]
  OBVIOUS
<1>3. ASSUME NEW i \in 1 .. Len(s), i # 1
      PROVE  s[i] \in Elements(Tail(s))
  <2>1. i - 1 \in 1 .. (Len(s) - 1) /\ (i - 1) + 1 = i
    BY <1>1, <1>3
  <2>2. Tail(s)[i - 1] = s[i]
    BY <1>2, <2>1
  <2> QED
    BY <1>2, <2>1, <2>2 DEF Elements
<1> QED
  BY <1>1, <1>2, <1>3 DEF Elements

\* The type at hand is over, and all that was sought is done.
LEMMA TypeOver ==
    ASSUME BfAssumption, NEW D, NEW r \in RunSet, r.types # <<>>, TypesSound(D, r),
           \A f \in BfFiles : Sought(r, f) => Done(D, f)
    PROVE  NextType(r) \in RunSet /\ RunSound(D, NextType(r))
<1>1. PICK s \in RunSet : s = NextType(r)
  <2>1. r.types \in Seq(Types) /\ Tail(r.types) \in Seq(Types)
    BY FirstAndRest DEF RunSet
  <2>2. NoneDone \in CursorSet
    BY DEF NoneDone, CursorSet
  <2> QED
    BY <2>1, <2>2 DEF NextType, RunSet
<1>2. s.pc = "type" /\ s.org = r.org /\ s.until = r.until /\ s.types = Tail(r.types) /\ s.clean = r.clean
  BY <1>1 DEF NextType, RunSet
<1>3. TypesSound(D, s)
  <2> SUFFICES ASSUME r.clean, NEW f \in BfFiles, BfOf[f][1] = r.org, BfOf[f][2] \notin Elements(Tail(r.types)),
                      BfCreated[f] < r.until
               PROVE  Done(D, f)
    BY <1>2 DEF TypesSound
  <2>1. BfOf[f] = <<r.org, BfOf[f][2]>>
    BY FileFacts
  <2>2. CASE BfOf[f][2] = r.types[1]
    BY <2>1, <2>2 DEF Sought, OfType
  <2>3. CASE BfOf[f][2] # r.types[1]
    <3>1. BfOf[f][2] \notin Elements(r.types)
      BY <2>3, FirstAndRest DEF RunSet
    <3> QED
      BY <3>1 DEF TypesSound
  <2> QED
    BY <2>2, <2>3
<1> QED
  BY <1>1, <1>2, <1>3 DEF RunSound

\* It is given up.
LEMMA TypeGivenUp ==
    ASSUME BfAssumption, NEW D, NEW r \in RunSet, r.types # <<>>
    PROVE  GiveUpType(r) \in RunSet /\ RunSound(D, GiveUpType(r))
<1>1. r.types \in Seq(Types) /\ Tail(r.types) \in Seq(Types) /\ NoneDone \in CursorSet
  BY FirstAndRest DEF RunSet, NoneDone, CursorSet
<1>2. PICK s \in RunSet : s = GiveUpType(r)
  BY <1>1 DEF GiveUpType, NextType, RunSet
<1>3. s.pc = "type" /\ s.clean = FALSE
  BY <1>2 DEF GiveUpType, NextType, RunSet
<1> QED
  BY <1>2, <1>3 DEF RunSound, TypesSound

\* The page at hand is over.
LEMMA PageOver ==
    ASSUME BfAssumption, NEW D, NEW r \in RunSet, r.types # <<>>, TypesSound(D, r),
           CursorSound(D, r, r.cursor), r.files = {}, PageSound(D, r)
    PROVE  AfterPage(r) \in RunSet /\ RunSound(D, AfterPage(r))
<1>1. CASE r.full
  <2>1. PICK s \in RunSet : s = AfterPage(r)
    BY <1>1 DEF AfterPage, RunSet
  <2>2. /\ s.pc = "list" /\ s.org = r.org /\ s.until = r.until /\ s.types = r.types /\ s.clean = r.clean
        /\ s.cursor = r.cursor /\ s.since = r.last
    BY <1>1, <2>1 DEF AfterPage, RunSet
  <2>3. TypesSound(D, s) /\ CursorSound(D, s, s.cursor)
    BY <2>2 DEF TypesSound, CursorSound, OfType
  <2>4. ListingSound(D, s)
    BY <2>2 DEF ListingSound, PageSound, Reached, Sought, OfType
  <2> QED
    BY <2>1, <2>2, <2>3, <2>4 DEF RunSound
<1>2. CASE ~r.full
  <2>1. \A f \in BfFiles : Sought(r, f) => Done(D, f)
    BY <1>2 DEF PageSound, Reached
  <2>2. AfterPage(r) = NextType(r)
    BY <1>2 DEF AfterPage
  <2> QED
    BY <2>1, <2>2, TypeOver
<1> QED
  BY <1>1, <1>2

\* The file at hand is done: the others of the page are left, or the page is over.
LEMMA FileOver ==
    ASSUME BfAssumption, NEW D, NEW r \in RunSet, r.types # <<>>, TypesSound(D, r),
           CursorSound(D, r, r.cursor), PageSound(D, r), NEW f \in BfFiles, IsNext(r, f), Done(D, f)
    PROVE  NextFileOf(r, f) \in RunSet /\ RunSound(D, NextFileOf(r, f))
<1>1. ASSUME NEW s \in RunSet, NEW where \in {"file", "push"},
             s = [r EXCEPT !.pc = where, !.files = r.files \ {f}, !.chunk = 0, !.fails = 0]
      PROVE  TypesSound(D, s) /\ s.types # <<>> /\ CursorSound(D, s, s.cursor) /\ PageSound(D, s)
  <2>1. /\ s.org = r.org /\ s.until = r.until /\ s.types = r.types /\ s.clean = r.clean
        /\ s.cursor = r.cursor /\ s.full = r.full /\ s.last = r.last /\ s.files = r.files \ {f}
    BY <1>1 DEF RunSet
  <2>2. TypesSound(D, s) /\ CursorSound(D, s, s.cursor)
    BY <2>1 DEF TypesSound, CursorSound, OfType
  <2>3. \A g \in BfFiles : Sought(s, g) <=> Sought(r, g)
    BY <2>1 DEF Sought, OfType
  <2>4. \A g \in BfFiles : Reached(s, g) => Reached(r, g)
    BY <2>1 DEF Reached
  <2>5. PageSound(D, s)
    <3>1. \A g \in s.files : Sought(s, g)
      BY <2>1 DEF PageSound, Sought, OfType
    <3>2. \A g \in BfFiles \ s.files : (Sought(s, g) /\ Reached(s, g)) => Done(D, g)
      BY <2>1, <2>3, <2>4 DEF PageSound
    <3> QED
      BY <3>1, <3>2 DEF PageSound
  <2> QED
    BY <2>1, <2>2, <2>5
<1>2. CASE r.files # {f}
  <2>1. PICK s \in RunSet : s = [r EXCEPT !.pc = "file", !.files = r.files \ {f}, !.chunk = 0, !.fails = 0]
    BY DEF RunSet
  <2>2. NextFileOf(r, f) = s /\ s.pc = "file"
    BY <1>2, <2>1 DEF NextFileOf, RunSet
  <2> QED
    BY <1>1, <2>1, <2>2 DEF RunSound
<1>3. CASE r.files = {f}
  <2>1. PICK s \in RunSet : s = [r EXCEPT !.files = {}, !.chunk = 0, !.fails = 0]
    BY DEF RunSet
  <2>2. /\ s.org = r.org /\ s.until = r.until /\ s.types = r.types /\ s.clean = r.clean
        /\ s.cursor = r.cursor /\ s.full = r.full /\ s.last = r.last /\ s.files = {}
    BY <2>1 DEF RunSet
  <2>3. TypesSound(D, s) /\ CursorSound(D, s, s.cursor)
    BY <2>2 DEF TypesSound, CursorSound, OfType
  <2>4. PageSound(D, s)
    BY <1>3, <2>2 DEF PageSound, Sought, OfType, Reached
  <2>5. NextFileOf(r, f) = AfterPage(s)
    BY <1>3, <2>1 DEF NextFileOf
  <2>6. s.types # <<>>
    BY <2>2
  <2>7. AfterPage(s) \in RunSet /\ RunSound(D, AfterPage(s))
    BY <2>2, <2>3, <2>4, <2>6, PageOver
  <2> QED
    BY <2>5, <2>7
<1> QED
  BY <1>2, <1>3

\* The cursor after the file at hand.
LEMMA CursorMoves ==
    ASSUME BfAssumption, NEW D, NEW r \in RunSet, CursorSound(D, r, r.cursor), PageSound(D, r),
           NEW f \in BfFiles, IsNext(r, f), Done(D, f)
    PROVE  /\ AdvanceCursor(r.cursor, f) \in CursorSet
           /\ CursorSound(D, r, AdvanceCursor(r.cursor, f))
           /\ AdvanceCursor(r.cursor, f) # NoneDone
<1>1. PICK c \in CursorSet : c = r.cursor
  BY DEF RunSet
<1>2. PICK d \in CursorSet : d = AdvanceCursor(c, f)
  BY <1>1, FileFacts DEF AdvanceCursor, CursorSet
<1>3. /\ d.last = BfCreated[f] /\ BfCreated[f] \in Nat \ {0} /\ c.last \in Nat
      /\ d.done = IF c.last = BfCreated[f] THEN c.done \cup {f} ELSE {f}
  BY <1>1, <1>2, FileFacts DEF AdvanceCursor, CursorSet
<1>4. CursorSound(D, r, d)
  <2> SUFFICES ASSUME NEW g \in BfFiles, OfType(r, g), Behind(d, g)
               PROVE  Done(D, g)
    BY DEF CursorSound
  <2>1. Sought(r, f) /\ f \in r.files /\ BfCreated[g] \in Nat /\ r.until \in Nat
    BY FileFacts DEF IsNext, PageSound, RunSet
  <2>2. CASE BfCreated[g] < BfCreated[f]
    <3>1. Precedes(g, f) /\ Sought(r, g)
      BY <1>3, <2>1, <2>2 DEF Precedes, Sought
    <3>2. g \notin r.files
      BY <3>1 DEF IsNext
    <3> QED
      BY <2>1, <3>1, <3>2 DEF PageSound, Reached
  <2>3. CASE BfCreated[g] = BfCreated[f] /\ g \in d.done /\ g # f
    <3>1. Behind(c, g)
      BY <1>3, <2>3 DEF Behind
    <3> QED
      BY <1>1, <3>1 DEF CursorSound
  <2> QED
    BY <1>3, <2>1, <2>2, <2>3 DEF Behind
<1> QED
  BY <1>1, <1>2, <1>3, <1>4 DEF NoneDone

-----------------------------------------------------------------------------
(* The steps.                                                                *)

\* What is disposed of stays so.
LEMMA MoreDone ==
    ASSUME NEW D, NEW E, D \subseteq E
    PROVE  /\ \A f \in BfFiles : Done(D, f) => Done(E, f)
           /\ StoreSound(D) => StoreSound(E)
           /\ \A r \in RunSet : RunSound(D, r) => RunSound(E, r)
<1>1. \A f \in BfFiles : Done(D, f) => Done(E, f)
  BY DEF Done
<1>2. StoreSound(D) => StoreSound(E)
  BY <1>1 DEF StoreSound
<1>3. ASSUME NEW r \in RunSet, RunSound(D, r) PROVE RunSound(E, r)
  <2>1. TypesSound(E, r) /\ \A c : CursorSound(D, r, c) => CursorSound(E, r, c)
    BY <1>1, <1>3 DEF RunSound, TypesSound, CursorSound
  <2>2. (ListingSound(D, r) => ListingSound(E, r)) /\ (PageSound(D, r) => PageSound(E, r))
    BY <1>1 DEF ListingSound, PageSound
  <2>3. ChunkSound(D, r) => ChunkSound(E, r)
    BY DEF ChunkSound
  <2> QED
    BY <1>3, <2>1, <2>2, <2>3 DEF RunSound
<1> QED
  BY <1>1, <1>2, <1>3

\* The invariant of the next state, from what is disposed of then.
LEMMA NextInv ==
    ASSUME BfTypeOK', NEW D, D = Settled', RunSound(D, bfRun'),
           \A f \in BfFiles :
               /\ Behind(bfStore'[BfOf[f]], f) => Done(D, f)
               /\ BfOf[f][1] = FirstOrg /\ Behind(bfStore'[<<Legacy, BfOf[f][2]>>], f) => Done(D, f)
    PROVE  BfInv'
<1>1. StoreSound(Settled)'
  BY DEF StoreSound, Done, Behind
<1>2. RunSound(Settled, bfRun)'
  BY DEF RunSound, TypesSound, CursorSound, ListingSound, PageSound, ChunkSound, Reached, Sought, OfType,
         Done, IsNext, Precedes, Behind
<1> QED
  BY <1>1, <1>2 DEF BfInv

LEMMA GoesOnInv ==
    ASSUME BfInv, NEW r \in RunSet, RunSound(Settled, r), GoesOn(r)
    PROVE  BfInv'
<1>1. bfRun' = r /\ bfStore' = bfStore /\ Settled' = Settled
  BY DEF GoesOn, Settled
<1>2. BfTypeOK'
  BY <1>1 DEF BfInv, BfTypeOK
<1>3. StoreSound(Settled)'
  BY <1>1 DEF BfInv, StoreSound
<1>4. RunSound(Settled', bfRun')
  BY <1>1
<1>5. RunSound(Settled, bfRun)'
  BY <1>4 DEF RunSound, TypesSound, CursorSound, ListingSound, PageSound, ChunkSound, Reached, Sought, OfType,
              Done, IsNext, Precedes, Behind
<1> QED
  BY <1>2, <1>3, <1>5 DEF BfInv

LEMMA NoRunSound == BfAssumption => NoRun \in RunSet /\ \A D : RunSound(D, NoRun)
<1> SUFFICES ASSUME BfAssumption PROVE NoRun \in RunSet /\ \A D : RunSound(D, NoRun)
  OBVIOUS
<1>1. NoRun \in RunSet
  BY DEF NoRun, RunSet, NoneDone, CursorSet, BfAssumption
<1>2. NoRun.pc = "idle" /\ NoRun.until = 0
  BY DEF NoRun
<1>3. \A f \in BfFiles : ~(BfCreated[f] < 0)
  BY FileFacts
<1> QED
  BY <1>1, <1>2, <1>3 DEF RunSound, TypesSound

LEMMA InitInv == BfInit /\ BfAssumption => BfInv
<1> SUFFICES ASSUME BfInit, BfAssumption PROVE BfInv
  OBVIOUS
<1>1. PICK old \in {NoneDone} \cup {AdvanceCursor(NoneDone, f) : f \in {g \in BfFiles :
                       BfOf[g] = <<FirstOrg, BfTypes[1]>> /\ Chunks(g) > 0}} :
         LET past == {f \in BfFiles : BfOf[f] = <<FirstOrg, BfTypes[1]>> /\ Behind(old, f)} IN
         /\ bfStore = [k \in BfKeys |-> IF k = <<Legacy, BfTypes[1]>> THEN old ELSE NoneDone]
         /\ bfPushed = UNION {{f} \X (1 .. Chunks(f)) : f \in past}
  BY DEF BfInit
<1>2. NoneDone \in CursorSet /\ NoneDone.last = 0 /\ NoneDone.done = {}
  BY DEF NoneDone, CursorSet
<1>3. old \in CursorSet
  BY <1>1, <1>2, FileFacts DEF AdvanceCursor, CursorSet
<1>4. BfTypeOK
  BY <1>1, <1>2, <1>3, NoRunSound DEF BfInit, BfTypeOK
<1>5. \A f \in BfFiles : ~Behind(NoneDone, f)
  BY <1>2, FileFacts DEF Behind
<1>6. ASSUME NEW f \in BfFiles, Behind(bfStore[<<Legacy, BfOf[f][2]>>], f), BfOf[f][1] = FirstOrg
      PROVE  Done(Settled, f)
  <2>1. BfOf[f] = <<FirstOrg, BfTypes[1]>> /\ Behind(old, f)
    BY <1>1, <1>5, <1>6, FileFacts
  <2>2. {f} \X (1 .. Chunks(f)) \subseteq bfPushed
    BY <1>1, <2>1
  <2> QED
    BY <2>2 DEF Done, Settled
<1>7. ASSUME NEW f \in BfFiles PROVE ~Behind(bfStore[BfOf[f]], f)
  <2>1. BfOf[f] # <<Legacy, BfTypes[1]>>
    BY FileFacts DEF BfAssumption
  <2> QED
    BY <1>1, <1>5, <2>1, FileFacts
<1>8. StoreSound(Settled)
  BY <1>6, <1>7 DEF StoreSound
<1>9. RunSound(Settled, bfRun)
  BY NoRunSound DEF BfInit
<1> QED
  BY <1>4, <1>8, <1>9 DEF BfInv

LEMMA StartInv == BfInv /\ BfAssumption /\ (BfStart \/ BfDiscoveryFails \/ BfKill \/ BfExit) => BfInv'
<1> SUFFICES ASSUME BfInv, BfAssumption, BfStart \/ BfDiscoveryFails \/ BfKill \/ BfExit PROVE BfInv'
  OBVIOUS
<1>1. CASE BfStart
  <2>1. PICK org \in Orgs, until \in BfUntils :
           GoesOn([NoRun EXCEPT !.pc = "type", !.org = org, !.until = until, !.types = BfTypes])
    BY <1>1 DEF BfStart
  <2>2. PICK r \in RunSet : r = [NoRun EXCEPT !.pc = "type", !.org = org, !.until = until, !.types = BfTypes]
    BY NoRunSound DEF RunSet, BfAssumption, Types
  <2>3. r.pc = "type" /\ r.types = BfTypes
    BY <2>2, NoRunSound DEF RunSet
  <2>4. RunSound(Settled, r)
    BY <2>3, FileFacts DEF RunSound, TypesSound, Types
  <2> QED
    BY <2>1, <2>2, <2>4, GoesOnInv
<1>2. CASE BfDiscoveryFails
  <2>1. PICK org \in Orgs : GoesOn([NoRun EXCEPT !.pc = "exit", !.org = org, !.clean = FALSE])
    BY <1>2 DEF BfDiscoveryFails
  <2>2. PICK r \in RunSet : r = [NoRun EXCEPT !.pc = "exit", !.org = org, !.clean = FALSE]
    BY NoRunSound DEF RunSet
  <2>3. r.pc = "exit" /\ r.clean = FALSE
    BY <2>2, NoRunSound DEF RunSet
  <2>4. RunSound(Settled, r)
    BY <2>3 DEF RunSound, TypesSound
  <2> QED
    BY <2>1, <2>2, <2>4, GoesOnInv
<1>3. CASE BfKill \/ BfExit
  BY <1>3, NoRunSound, GoesOnInv DEF BfKill, BfExit
<1> QED
  BY <1>1, <1>2, <1>3

\* The next type begins where its cursor, or the legacy one, stands.
LEMMA TypeInv == BfInv /\ BfAssumption /\ BfType => BfInv'
<1> SUFFICES ASSUME BfInv, BfAssumption, BfType PROVE BfInv'
  OBVIOUS
<1>1. PICK r \in RunSet : r = bfRun /\ r.pc = "type" /\ RunSound(Settled, r)
  BY DEF BfType, BfInv, BfTypeOK
<1>2. CASE r.types = <<>>
  <2>1. PICK s \in RunSet : s = [r EXCEPT !.pc = "exit"]
    BY DEF RunSet
  <2>2. s.pc = "exit" /\ s.org = r.org /\ s.until = r.until /\ s.types = <<>> /\ s.clean = r.clean
        /\ r.types = <<>>
    BY <1>2, <2>1 DEF RunSet
  <2>3. RunSound(Settled, s)
    BY <1>1, <2>2 DEF RunSound, TypesSound
  <2>4. GoesOn(s)
    BY <1>1, <1>2, <2>1 DEF BfType
  <2> QED
    BY <2>3, <2>4, GoesOnInv
<1>3. CASE r.types # <<>>
  <2>1. r.types[1] \in Types /\ r.org \in Orgs /\ r.types \in Seq(Types)
    BY <1>3, FirstAndRest DEF RunSet
  <2>2. Key(r.org, r.types[1]) \in BfKeys /\ <<Legacy, r.types[1]>> \in BfKeys
    BY <2>1 DEF Key, BfKeys, Types
  <2>3. PICK c \in CursorSet :
            c = IF bfStore[Key(r.org, r.types[1])] = NoneDone /\ r.org = FirstOrg
                THEN bfStore[<<Legacy, r.types[1]>>] ELSE bfStore[Key(r.org, r.types[1])]
    BY <2>2 DEF BfInv, BfTypeOK
  <2>4. PICK s \in RunSet : s = [r EXCEPT !.pc = "list", !.cursor = c, !.since = c.last]
    BY DEF RunSet, CursorSet
  <2>5. /\ s.pc = "list" /\ s.org = r.org /\ s.until = r.until /\ s.types = r.types /\ s.clean = r.clean
        /\ s.cursor = c /\ s.since = c.last
    BY <2>4 DEF RunSet
  <2>6. ASSUME NEW f \in BfFiles, OfType(s, f), Behind(c, f) PROVE Done(Settled, f)
    <3>1. BfOf[f] = <<r.org, r.types[1]>> /\ BfOf[f][1] = r.org /\ BfOf[f][2] = r.types[1]
      BY <2>5, <2>6 DEF OfType
    <3> QED
      BY <2>3, <2>6, <3>1 DEF BfInv, StoreSound, Key
  <2>7. CursorSound(Settled, s, s.cursor) /\ TypesSound(Settled, s)
    BY <1>1, <2>5, <2>6 DEF CursorSound, RunSound, TypesSound
  <2>8. ListingSound(Settled, s)
    BY <2>5, <2>6 DEF ListingSound, Sought, Behind
  <2>9. RunSound(Settled, s)
    BY <1>3, <2>5, <2>7, <2>8 DEF RunSound
  <2>10. GoesOn(s)
    BY <1>1, <1>3, <2>3, <2>4 DEF BfType
  <2> QED
    BY <2>9, <2>10, GoesOnInv
<1> QED
  BY <1>2, <1>3

\* What a listing leaves out has been done, is beyond the cutoff, or comes later.
LEMMA ListingFacts ==
    ASSUME BfAssumption, NEW D, NEW r \in RunSet, ListingSound(D, r), NEW f \in BfFiles, Sought(r, f)
    PROVE  /\ BfListing(r) \subseteq BfFiles /\ \A g \in BfListing(r) : OfType(r, g)
           /\ \/ Done(D, f) \/ f \in BfListing(r)
              \/ /\ Cardinality(BfListing(r)) >= BfPage /\ BfListing(r) # {}
                 /\ \A g \in BfListing(r) : Precedes(g, f)
<1>1. PICK S \in SUBSET BfFiles : S = {g \in BfFiles : BfOf[g] = <<r.org, r.types[1]>> /\ BfCreated[g] >= r.since}
  OBVIOUS
<1>2. BfListing(r) = FirstPage(S)
  BY <1>1 DEF BfListing
<1>3. FirstPage(S) \subseteq S
  BY DEF FirstPage
<1>4. CASE f \notin S
  <2>1. f \in BfFiles /\ BfOf[f] = <<r.org, r.types[1]>> /\ r.since \in Nat
    BY DEF Sought, OfType, RunSet
  <2>2. BfCreated[f] \in Nat /\ ~(BfCreated[f] >= r.since)
    BY <1>1, <1>4, <2>1, FileFacts
  <2>3. BfCreated[f] < r.since
    BY <2>1, <2>2
  <2> QED
    BY <1>1, <1>2, <1>3, <2>3 DEF ListingSound, OfType
<1>5. CASE f \in S \ FirstPage(S)
  <2>1. FirstPage(S) # {} /\ \A g \in FirstPage(S) : Precedes(g, f)
    BY <1>5, LeftOut
  <2>2. FirstPage(S) # S
    BY <1>5
  <2>3. Cardinality(FirstPage(S)) >= BfPage
    BY <2>2, ShortPage
  <2> QED
    BY <1>1, <1>2, <1>3, <2>1, <2>3 DEF OfType
<1> QED
  BY <1>1, <1>2, <1>3, <1>4, <1>5 DEF OfType

\* A page of which the newest file is known.
LEMMA PageRead ==
    ASSUME BfAssumption, NEW D, NEW r \in RunSet, ListingSound(D, r), CursorSound(D, r, r.cursor),
           NEW newest \in BfListing(r), \A f \in BfListing(r) : ~Precedes(newest, f),
           NEW s \in RunSet, NEW where,
           s = [r EXCEPT !.pc = where, !.files = Todo(r, BfListing(r)), !.full = (Cardinality(BfListing(r)) >= BfPage),
                         !.last = BfCreated[newest]]
    PROVE  PageSound(D, s)
<1>1. PICK P : P = BfListing(r)
  OBVIOUS
<1>2. /\ s.org = r.org /\ s.until = r.until /\ s.types = r.types
      /\ s.files = Todo(r, P) /\ s.full = (Cardinality(P) >= BfPage) /\ s.last = BfCreated[newest]
  BY <1>1 DEF RunSet
<1>3. \A f : OfType(s, f) <=> OfType(r, f)
  BY <1>2 DEF OfType
<1>4. \A f : Sought(s, f) <=> Sought(r, f)
  BY <1>2, <1>3 DEF Sought
<1>5. P \subseteq BfFiles /\ newest \in P /\ newest \in BfFiles /\ \A g \in P : OfType(r, g)
  <2>1. \A g \in P : g \in BfFiles /\ OfType(r, g)
    BY <1>1 DEF BfListing, FirstPage, OfType
  <2> QED
    BY <1>1, <2>1
<1>6. \A f \in s.files : Sought(s, f)
  BY <1>2, <1>4, <1>5 DEF Todo, Sought
<1>7. ASSUME NEW f \in BfFiles \ s.files, Sought(r, f), Reached(s, f)
      PROVE  Done(D, f)
  <2>1. CASE f \in P
    <3>1. BfCreated[f] = r.cursor.last /\ f \in r.cursor.done
      BY <1>2, <1>7, <2>1 DEF Todo, Sought
    <3> QED
      BY <1>7, <3>1 DEF CursorSound, Behind, Sought
  <2>2. CASE f \notin P
    <3> SUFFICES ASSUME ~Done(D, f) PROVE FALSE
      OBVIOUS
    <3>1. Cardinality(P) >= BfPage /\ \A g \in P : Precedes(g, f)
      BY <1>1, <1>7, <2>2, ListingFacts
    <3>2. s.full /\ BfCreated[newest] <= BfCreated[f]
      BY <1>2, <1>5, <3>1, OrderFacts
    <3>3. ~(BfCreated[f] < s.last)
      BY <1>2, <1>5, <3>2, FileFacts
    <3>4. PICK g \in s.files : Precedes(f, g)
      BY <1>7, <3>2, <3>3 DEF Reached
    <3>5. g \in P /\ g \in BfFiles
      BY <1>2, <1>5 DEF Todo
    <3>6. Precedes(g, f) /\ Precedes(f, f)
      BY <3>1, <3>4, <3>5, OrderFacts
    <3> QED
      BY <3>6, OrderFacts
  <2> QED
    BY <2>1, <2>2
<1> QED
  BY <1>4, <1>6, <1>7 DEF PageSound

LEMMA ListInv == BfInv /\ BfAssumption /\ BfList => BfInv'
<1> SUFFICES ASSUME BfInv, BfAssumption, BfList PROVE BfInv'
  OBVIOUS
<1>1. PICK r \in RunSet : r = bfRun /\ r.pc = "list" /\ RunSound(Settled, r)
  BY DEF BfList, BfInv, BfTypeOK
<1>2. PICK P : P = BfListing(r)
  OBVIOUS
<1>3. r.types # <<>> /\ TypesSound(Settled, r) /\ CursorSound(Settled, r, r.cursor) /\ ListingSound(Settled, r)
  BY <1>1 DEF RunSound
<1>4. \A f \in P : f \in BfFiles /\ OfType(r, f)
  BY <1>2 DEF BfListing, FirstPage, OfType
<1>5. CASE (\A f \in P : BfCreated[f] >= r.until) /\ GoesOn(NextType(r))
  <2>1. ASSUME NEW f \in BfFiles, Sought(r, f) PROVE Done(Settled, f)
    <3>1. BfCreated[f] \in Nat /\ r.until \in Nat /\ BfCreated[f] < r.until
      BY <2>1, FileFacts DEF Sought, RunSet
    <3>2. f \notin P
      BY <1>5, <3>1
    <3>3. ASSUME NEW g \in P, Precedes(g, f) PROVE FALSE
      <4>1. BfCreated[g] <= BfCreated[f] /\ BfCreated[g] \in Nat /\ BfCreated[g] >= r.until
        BY <1>4, <1>5, <3>3, OrderFacts, FileFacts
      <4> QED
        BY <3>1, <4>1
    <3> QED
      BY <1>2, <1>3, <2>1, <3>2, <3>3, ListingFacts
  <2>2. NextType(r) \in RunSet /\ RunSound(Settled, NextType(r))
    BY <1>3, <2>1, TypeOver
  <2> QED
    BY <1>5, <2>2, GoesOnInv
<1>6. ASSUME NEW newest \in P, \A f \in P : ~Precedes(newest, f),
             GoesOn(LET read == [r EXCEPT !.files = Todo(r, P), !.full = (Cardinality(P) >= BfPage),
                                          !.last = BfCreated[newest]] IN
                    IF read.files # {} THEN [read EXCEPT !.pc = "file"]
                    ELSE IF read.full /\ read.last = r.since THEN GiveUpType(r)
                    ELSE AfterPage(read))
      PROVE  BfInv'
  <2>1. Todo(r, P) \in SUBSET BfFiles /\ (Cardinality(P) >= BfPage) \in BOOLEAN /\ BfCreated[newest] \in Nat
    <3>1. Todo(r, P) \in SUBSET BfFiles /\ BfCreated[newest] \in Nat /\ P \subseteq BfFiles
      BY <1>4, FileFacts DEF Todo
    <3>2. Cardinality(P) \in Nat /\ BfPage \in Nat
      BY <3>1, PageCounts DEF BfAssumption
    <3> QED
      BY <3>1, <3>2
  <2>2. PICK s \in RunSet : s = [r EXCEPT !.files = Todo(r, P), !.full = (Cardinality(P) >= BfPage),
                                          !.last = BfCreated[newest]]
    BY <2>1 DEF RunSet
  <2>3. PICK t \in RunSet : t = [s EXCEPT !.pc = "file"]
    BY DEF RunSet
  <2>4. /\ s.org = r.org /\ s.until = r.until /\ s.types = r.types /\ s.clean = r.clean
        /\ s.cursor = r.cursor /\ s.files = Todo(r, P)
        /\ t.org = r.org /\ t.until = r.until /\ t.types = r.types /\ t.clean = r.clean
        /\ t.cursor = r.cursor /\ t.files = s.files /\ t.pc = "file"
    BY <2>2, <2>3 DEF RunSet
  <2>5. /\ TypesSound(Settled, s) /\ CursorSound(Settled, s, s.cursor)
        /\ TypesSound(Settled, t) /\ CursorSound(Settled, t, t.cursor)
    BY <1>3, <2>4 DEF TypesSound, CursorSound, OfType
  <2>6. PageSound(Settled, s) /\ PageSound(Settled, t)
    <3>1. s = [r EXCEPT !.pc = "list", !.files = Todo(r, P), !.full = (Cardinality(P) >= BfPage),
                        !.last = BfCreated[newest]]
      BY <1>1, <2>2 DEF RunSet
    <3>2. t = [r EXCEPT !.pc = "file", !.files = Todo(r, P), !.full = (Cardinality(P) >= BfPage),
                        !.last = BfCreated[newest]]
      BY <2>2, <2>3 DEF RunSet
    <3>3. PageSound(Settled, s)
      BY <1>2, <1>3, <1>6, <3>1, PageRead
    <3>4. PageSound(Settled, t)
      BY <1>2, <1>3, <1>6, <3>2, PageRead
    <3> QED
      BY <3>3, <3>4
  <2>7. CASE s.files # {}
    <3>1. GoesOn(t)
      BY <1>6, <2>2, <2>3, <2>7
    <3>2. RunSound(Settled, t)
      BY <1>3, <2>4, <2>5, <2>6 DEF RunSound
    <3> QED
      BY <3>1, <3>2, GoesOnInv
  <2>8. CASE s.files = {} /\ s.full /\ s.last = r.since
    <3>1. GoesOn(GiveUpType(r))
      BY <1>6, <2>2, <2>8
    <3> QED
      BY <1>3, <3>1, TypeGivenUp, GoesOnInv
  <2>9. CASE s.files = {} /\ ~(s.full /\ s.last = r.since)
    <3>1. GoesOn(AfterPage(s))
      BY <1>6, <2>2, <2>9
    <3>2. AfterPage(s) \in RunSet /\ RunSound(Settled, AfterPage(s))
      BY <1>3, <2>4, <2>5, <2>6, <2>9, PageOver
    <3> QED
      BY <3>1, <3>2, GoesOnInv
  <2> QED
    BY <2>7, <2>8, <2>9
<1> QED
  BY <1>1, <1>2, <1>5, <1>6 DEF BfList

LEMMA FailsInv == BfInv /\ BfAssumption /\ BfFails => BfInv'
<1> SUFFICES ASSUME BfInv, BfAssumption, BfFails PROVE BfInv'
  OBVIOUS
<1>1. bfRun \in RunSet /\ bfRun.types # <<>> /\ GoesOn(GiveUpType(bfRun))
  BY DEF BfFails, BfInv, BfTypeOK, RunSound
<1> QED
  BY <1>1, TypeGivenUp, GoesOnInv

\* The file at hand is the only one of its kind.
LEMMA OneNext ==
    ASSUME BfAssumption, NEW r \in RunSet, NEW f, NEW g, IsNext(r, f), IsNext(r, g)
    PROVE  f = g
<1>1. f \in BfFiles /\ g \in BfFiles /\ ~Precedes(f, g) /\ ~Precedes(g, f)
  BY DEF IsNext, RunSet
<1> QED
  BY <1>1, OrderFacts

LEMMA DownloadInv == BfInv /\ BfAssumption /\ BfDownload => BfInv'
<1> SUFFICES ASSUME BfInv, BfAssumption, BfDownload PROVE BfInv'
  OBVIOUS
<1>1. PICK r \in RunSet : r = bfRun /\ r.pc = "file" /\ RunSound(Settled, r)
  BY DEF BfDownload, BfInv, BfTypeOK
<1>2. PICK f \in BfFiles :
         /\ IsNext(r, f)
         /\ GoesOn(IF Chunks(f) = 0 THEN NextFileOf(r, f) ELSE [r EXCEPT !.pc = "push", !.chunk = 1])
  BY <1>1 DEF BfDownload
<1>3. /\ r.types # <<>> /\ TypesSound(Settled, r) /\ CursorSound(Settled, r, r.cursor)
      /\ PageSound(Settled, r)
  BY <1>1 DEF RunSound
<1>4. CASE Chunks(f) = 0
  <2>1. Done(Settled, f)
    BY <1>4 DEF Done
  <2> QED
    BY <1>2, <1>3, <1>4, <2>1, FileOver, GoesOnInv
<1>5. CASE Chunks(f) # 0
  <2>1. PICK s \in RunSet : s = [r EXCEPT !.pc = "push", !.chunk = 1]
    BY DEF RunSet
  <2>2. /\ s.pc = "push" /\ s.org = r.org /\ s.until = r.until /\ s.types = r.types /\ s.clean = r.clean
        /\ s.cursor = r.cursor /\ s.files = r.files /\ s.full = r.full /\ s.last = r.last /\ s.chunk = 1
    BY <2>1 DEF RunSet
  <2>3. TypesSound(Settled, s) /\ CursorSound(Settled, s, s.cursor)
    BY <1>3, <2>2 DEF TypesSound, CursorSound, OfType
  <2>4. PageSound(Settled, s)
    BY <1>3, <2>2 DEF PageSound, Sought, OfType, Reached
  <2>5. ChunkSound(Settled, s)
    BY <2>2 DEF ChunkSound
  <2>6. RunSound(Settled, s)
    BY <1>3, <2>2, <2>3, <2>4, <2>5 DEF RunSound
  <2> QED
    BY <1>2, <1>5, <2>1, <2>6, GoesOnInv
<1> QED
  BY <1>4, <1>5

\* A chunk is pushed or dropped; the last one of its file moves the stored cursor.
LEMMA ChunkInv ==
    ASSUME BfInv, BfAssumption, bfRun.pc = "push", NEW f \in BfFiles, IsNext(bfRun, f), ChunkDone(bfRun, f),
           Settled' = Settled \cup {<<f, bfRun.chunk>>}
    PROVE  BfInv'
<1>1. PICK r \in RunSet : r = bfRun /\ r.pc = "push" /\ RunSound(Settled, r)
  BY DEF BfInv, BfTypeOK
<1>2. PICK D : D = Settled'
  OBVIOUS
<1>3. Settled \subseteq D /\ <<f, r.chunk>> \in D
  BY <1>1, <1>2
<1>4. StoreSound(D) /\ RunSound(D, r)
  BY <1>1, <1>3, MoreDone DEF BfInv
<1>5. /\ r.types # <<>> /\ TypesSound(D, r) /\ CursorSound(D, r, r.cursor)
      /\ PageSound(D, r) /\ ChunkSound(D, r)
  BY <1>1, <1>4 DEF RunSound
<1>6. r.chunk \in Nat /\ Chunks(f) \in Nat
  BY FileFacts DEF RunSet
<1>7. CASE r.chunk < Chunks(f)
  <2>1. PICK s \in RunSet : s = [r EXCEPT !.chunk = r.chunk + 1, !.fails = 0]
    <3>1. PICK n \in Nat : n = r.chunk + 1
      BY <1>6
    <3>2. [r EXCEPT !.chunk = n, !.fails = 0] \in RunSet
      BY DEF RunSet
    <3> QED
      BY <3>1, <3>2
  <2>2. bfRun' = s /\ bfStore' = bfStore
    BY <1>1, <1>7, <2>1 DEF ChunkDone
  <2>3. /\ s.pc = "push" /\ s.org = r.org /\ s.until = r.until /\ s.types = r.types /\ s.clean = r.clean
        /\ s.cursor = r.cursor /\ s.files = r.files /\ s.full = r.full /\ s.last = r.last
        /\ s.chunk = r.chunk + 1
    BY <1>1, <2>1 DEF RunSet
  <2>4. TypesSound(D, s) /\ CursorSound(D, s, s.cursor)
    BY <1>5, <2>3 DEF TypesSound, CursorSound, OfType
  <2>5. PageSound(D, s)
    BY <1>5, <2>3 DEF PageSound, Sought, OfType, Reached
  <2>6. ChunkSound(D, s)
    <3> SUFFICES ASSUME NEW g \in BfFiles, IsNext(s, g), NEW i \in 1 .. Chunks(g), i < s.chunk
                 PROVE  <<g, i>> \in D
      BY DEF ChunkSound
    <3>1. IsNext(r, g) /\ g = f
      BY <1>1, <2>3, OneNext DEF IsNext
    <3>2. i < r.chunk \/ i = r.chunk
      BY <1>6, <2>3
    <3> QED
      BY <1>3, <1>5, <3>1, <3>2 DEF ChunkSound
  <2>7. RunSound(D, s)
    BY <1>5, <2>3, <2>4, <2>5, <2>6 DEF RunSound
  <2>8. BfTypeOK'
    BY <2>2 DEF BfInv, BfTypeOK
  <2> QED
    BY <1>2, <1>4, <2>2, <2>7, <2>8, NextInv DEF StoreSound
<1>8. CASE ~(r.chunk < Chunks(f))
  <2>1. Done(D, f)
    <3>1. \A i \in 1 .. Chunks(f) : i < r.chunk \/ i = r.chunk
      BY <1>6, <1>8
    <3>2. IsNext(r, f)
      BY <1>1
    <3> QED
      BY <1>3, <1>5, <3>1, <3>2 DEF Done, ChunkSound
  <2>2. PICK c : c = AdvanceCursor(r.cursor, f)
    OBVIOUS
  <2>3. c \in CursorSet /\ CursorSound(D, r, c) /\ c # NoneDone
    BY <1>1, <1>5, <2>1, <2>2, CursorMoves
  <2>4. PICK s \in RunSet : s = [r EXCEPT !.cursor = c]
    BY <2>3 DEF RunSet
  <2>5. /\ bfRun' = NextFileOf(s, f)
        /\ bfStore' = [bfStore EXCEPT ![Key(r.org, r.types[1])] = c]
    BY <1>1, <1>8, <2>2, <2>4 DEF ChunkDone
  <2>6. /\ s.org = r.org /\ s.until = r.until /\ s.types = r.types /\ s.clean = r.clean
        /\ s.cursor = c /\ s.files = r.files /\ s.full = r.full /\ s.last = r.last
    BY <2>4 DEF RunSet
  <2>7. TypesSound(D, s) /\ CursorSound(D, s, s.cursor) /\ s.types # <<>> /\ IsNext(s, f)
    BY <1>1, <1>5, <2>3, <2>6 DEF TypesSound, CursorSound, OfType, IsNext
  <2>8. PageSound(D, s)
    BY <1>5, <2>6 DEF PageSound, Sought, OfType, Reached
  <2>9. NextFileOf(s, f) \in RunSet /\ RunSound(D, NextFileOf(s, f))
    BY <2>1, <2>7, <2>8, FileOver
  <2>10. r.types[1] \in Types /\ r.org \in Orgs /\ Key(r.org, r.types[1]) = <<r.org, r.types[1]>>
    BY <1>5, FirstAndRest DEF RunSet, Key
  <2>11. BfTypeOK'
    BY <2>3, <2>5, <2>9 DEF BfInv, BfTypeOK
  <2>12. \A k \in BfKeys : bfStore'[k] = IF k = <<r.org, r.types[1]>> THEN c ELSE bfStore[k]
    BY <2>5, <2>10 DEF BfInv, BfTypeOK
  <2>13. ASSUME NEW g \in BfFiles
         PROVE  /\ Behind(bfStore'[BfOf[g]], g) => Done(D, g)
                /\ BfOf[g][1] = FirstOrg /\ Behind(bfStore'[<<Legacy, BfOf[g][2]>>], g) => Done(D, g)
    <3>1. <<Legacy, BfOf[g][2]>> # <<r.org, r.types[1]>>
      BY <2>10 DEF BfAssumption
    <3>2. bfStore'[<<Legacy, BfOf[g][2]>>] = bfStore[<<Legacy, BfOf[g][2]>>]
      BY <2>12, <3>1, FileFacts
    <3>3. CASE BfOf[g] = <<r.org, r.types[1]>>
      <4>1. bfStore'[BfOf[g]] = c /\ OfType(r, g)
        BY <2>12, <3>3, FileFacts DEF OfType
      <4> QED
        BY <1>4, <2>3, <3>2, <4>1 DEF CursorSound, StoreSound
    <3>4. CASE BfOf[g] # <<r.org, r.types[1]>>
      <4>1. bfStore'[BfOf[g]] = bfStore[BfOf[g]]
        BY <2>12, <3>4, FileFacts
      <4> QED
        BY <1>4, <3>2, <4>1 DEF StoreSound
    <3> QED
      BY <3>3, <3>4
  <2> QED
    BY <1>2, <2>5, <2>9, <2>11, <2>13, NextInv
<1> QED
  BY <1>7, <1>8

LEMMA PushesInv == BfInv /\ BfAssumption /\ (BfPush \/ BfPushPermanent) => BfInv'
<1> SUFFICES ASSUME BfInv, BfAssumption, BfPush \/ BfPushPermanent PROVE BfInv'
  OBVIOUS
<1>1. PICK f \in BfFiles : IsNext(bfRun, f) /\ ChunkDone(bfRun, f) /\ bfRun.pc = "push"
                           /\ Settled' = Settled \cup {<<f, bfRun.chunk>>}
  BY DEF BfPush, BfPushPermanent, Settled
<1> QED
  BY <1>1, ChunkInv

LEMMA RetryableInv == BfInv /\ BfAssumption /\ BfPushRetryable => BfInv'
<1> SUFFICES ASSUME BfInv, BfAssumption, BfPushRetryable PROVE BfInv'
  OBVIOUS
<1>1. PICK r \in RunSet : r = bfRun /\ r.pc = "push" /\ RunSound(Settled, r)
  BY DEF BfPushRetryable, BfInv, BfTypeOK
<1>2. PICK s \in RunSet : s = [r EXCEPT !.pc = "exit", !.code = 1]
  BY DEF RunSet
<1>3. PICK t \in RunSet : t = [r EXCEPT !.fails = r.fails + 1]
  <2>1. PICK n \in Nat : n = r.fails + 1
    BY DEF RunSet
  <2>2. [r EXCEPT !.fails = n] \in RunSet
    BY DEF RunSet
  <2> QED
    BY <2>1, <2>2
<1>4. GoesOn(s) \/ GoesOn(t)
  BY <1>1, <1>2, <1>3 DEF BfPushRetryable
<1>5. RunSound(Settled, s)
  <2>1. s.pc = "exit" /\ s.code = 1 /\ s.org = r.org /\ s.until = r.until /\ s.types = r.types /\ s.clean = r.clean
    BY <1>2 DEF RunSet
  <2> QED
    BY <1>1, <2>1 DEF RunSound, TypesSound
<1>6. RunSound(Settled, t)
  <2>1. /\ t.pc = "push" /\ t.org = r.org /\ t.until = r.until /\ t.types = r.types /\ t.clean = r.clean
        /\ t.cursor = r.cursor /\ t.files = r.files /\ t.full = r.full /\ t.last = r.last
        /\ t.chunk = r.chunk
    BY <1>1, <1>3 DEF RunSet
  <2>2. TypesSound(Settled, r) /\ CursorSound(Settled, r, r.cursor) /\ PageSound(Settled, r)
        /\ ChunkSound(Settled, r) /\ r.types # <<>>
    BY <1>1 DEF RunSound
  <2>3. TypesSound(Settled, t) /\ CursorSound(Settled, t, t.cursor)
    BY <2>1, <2>2 DEF TypesSound, CursorSound, OfType
  <2>4. PageSound(Settled, t)
    BY <2>1, <2>2 DEF PageSound, Sought, OfType, Reached
  <2>5. ChunkSound(Settled, t)
    BY <2>1, <2>2 DEF ChunkSound, IsNext
  <2> QED
    BY <2>1, <2>2, <2>3, <2>4, <2>5 DEF RunSound
<1> QED
  BY <1>4, <1>5, <1>6, GoesOnInv

-----------------------------------------------------------------------------
(* The theorem.                                                              *)

LEMMA BfInvNext == BfInv /\ BfAssumption /\ [BfNext]_bfVars => BfInv'
<1> SUFFICES ASSUME BfInv, BfAssumption, [BfNext]_bfVars PROVE BfInv'
  OBVIOUS
<1>1. CASE UNCHANGED bfVars
  <2>1. GoesOn(bfRun)
    BY <1>1 DEF bfVars, GoesOn
  <2> QED
    BY <2>1, GoesOnInv DEF BfInv, BfTypeOK
<1>2. CASE BfStart \/ BfDiscoveryFails \/ BfKill \/ BfExit
  BY <1>2, StartInv
<1>3. CASE BfType \/ BfList \/ BfDownload \/ BfPush
  BY <1>3, TypeInv, ListInv, DownloadInv, PushesInv
<1>4. CASE BfFails \/ BfPushPermanent \/ BfPushRetryable
  BY <1>4, FailsInv, PushesInv, RetryableInv
<1> QED
  BY <1>1, <1>2, <1>3, <1>4 DEF BfNext, BfStep

LEMMA InvIsSound == BfInv /\ BfAssumption => BackfillSound
<1> SUFFICES ASSUME BfInv, BfAssumption PROVE BackfillSound
  OBVIOUS
<1>1. \A f : Done(Settled, f) <=> Disposed(f)
  BY DEF Done, Settled, Disposed
<1>2. BackfillCovered
  <2> SUFFICES ASSUME NEW org \in Orgs, NEW f \in BfFiles, BfOf[f][1] = org,
                      Behind(IF bfStore[Key(org, BfOf[f][2])] = NoneDone /\ org = FirstOrg
                             THEN bfStore[<<Legacy, BfOf[f][2]>>] ELSE bfStore[Key(org, BfOf[f][2])], f)
               PROVE  Disposed(f)
    BY DEF BackfillCovered
  <2>1. Key(org, BfOf[f][2]) = BfOf[f]
    BY FileFacts DEF Key
  <2> QED
    BY <1>1, <2>1 DEF BfInv, StoreSound
<1>3. BackfillComplete
  <2>1. Elements(<<>>) = {}
    BY DEF Elements
  <2> QED
    BY <1>1, <2>1 DEF BackfillComplete, BfInv, RunSound, TypesSound
<1> QED
  BY <1>2, <1>3 DEF BackfillSound

\* A backfill misses nothing: no stored cursor passes a file that has not been
\* disposed of, and a run that ends normally has disposed of every file before its
\* cutoff, for any files, ties, page sizes, orgs, cutoffs, kills and rejections.
THEOREM BackfillMissesNothing == BfSpec => []BackfillSound
<1>1. BfInit => BfInv
  BY InitInv, BfAssumption
<1>2. BfInv /\ [BfNext]_bfVars => BfInv'
  BY BfInvNext, BfAssumption
<1>3. BfInv => BackfillSound
  BY InvIsSound, BfAssumption
<1> QED
  BY <1>1, <1>2, <1>3, PTL DEF BfSpec

-----------------------------------------------------------------------------
(* The event log file source: the inductive invariant.                       *)

ElfCursor == [last : Nat, ids : SUBSET (ElfFiles \X Nat)]
ElfEntry == [type : ElfTypes, row : {<<>>} \cup (ElfFiles \X Nat), token : ElfCursor]
ElfTask ==
    [pc : {"off", "queued", "list", "files", "rows", "end"}, now : Nat, base : ElfCursor, cur : ElfCursor,
     last : ElfCursor, files : SUBSET (ElfFiles \X Nat), row : Nat, n : Nat, out : Seq(ElfEntry)]
ElfFileState == [ElfFiles -> [created : Nat, v : Nat]]

\* The files F are of the past of clock k.
FilesOK(F, k) == \A f \in ElfFiles : F[f].created <= k /\ F[f].v <= Len(Versions[f])

ElfTypeOK ==
    /\ elfClock \in Nat /\ elfFile \in ElfFileState /\ FilesOK(elfFile, elfClock)
    /\ elfStored \in [ElfTypes -> ElfCursor] /\ elfWork \in [ElfTypes -> ElfTask]
    /\ elfBridge \in Seq(ElfEntry) /\ elfFlight \in Seq(ElfEntry)
    /\ Len(elfBridge) <= 1 /\ \A t \in ElfTypes : Len(elfWork[t].out) <= 1

\* The rows of the first i entries of s, and of all of them.
RowsUpTo(s, i) == {s[j].row : j \in 1 .. i} \ {<<>>}
RowsIn(s) == RowsUpTo(s, Len(s))

\* What is over, and what comes before the entries that the workers put.
Over == elfSent \cup elfGone
Ahead == Over \cup RowsIn(elfFlight) \cup RowsIn(elfBridge)

\* The rows of file f, as it is in F, are in D.
FileIn(F, f, D) == RowsOf(f, Versions[f][F[f].v]) \cap RowsKept \subseteq D

\* Cursor c of type t is of the past, and hides no file whose rows are not in D.
CursorSafe(F, k, c, t, D) ==
    /\ c.last <= k
    /\ \A p \in c.ids : p[2] <= F[p[1]].created
    /\ \A f \in ElfFiles :
         (TypeOf[f] = t /\ F[f].v > 0 /\ ~Listable(c, <<f, F[f].created>>)) => FileIn(F, f, D)

\* An entry on its way: the cursor it carries counts on what comes before it.
EntriesSafe(F, k, s, D) ==
    \A i \in 1 .. Len(s) : CursorSafe(F, k, s[i].token, s[i].type, D \cup RowsUpTo(s, i))

\* The files left of a page were listed as they were then.
FilesListed(F, w) == \A m \in w.files : F[m[1]].v > 0 /\ m[2] <= F[m[1]].created

\* What precedes a settled file of the page, and is not left of it, is in D.
PageSafe(F, t, w, D) ==
    \A f \in ElfFiles, m \in w.files :
        (/\ TypeOf[f] = t /\ F[f].v > 0 /\ ~Unsettled(w, m)
         /\ F[f].created < m[2] /\ <<f, F[f].created>> \notin w.files)
        => FileIn(F, f, D)

\* The rows before the one at hand are in D.
RowsSafe(F, w, D) ==
    \A m \in w.files : InTurn(w, m) =>
        /\ ~Unsettled(w, m) /\ w.row <= w.n
        /\ m[2] = F[m[1]].created => w.n = Versions[m[1]][F[m[1]].v]
        /\ \A i \in 1 .. w.n : (i < w.row /\ <<m[1], i>> \in RowsKept) => <<m[1], i>> \in D

WorkerSafe(F, k, t, w, D) ==
    /\ CursorSafe(F, k, w.cur, t, D)
    /\ \A i \in 1 .. Len(w.out) : w.out[i].type = t /\ CursorSafe(F, k, w.out[i].token, t, D)
    /\ w.pc = "list" => w.base = w.cur
    /\ w.pc \in {"files", "rows"} => FilesListed(F, w) /\ PageSafe(F, t, w, D)
    /\ w.pc = "rows" => RowsSafe(F, w, D)

ElfInv ==
    /\ ElfTypeOK
    /\ \A t \in ElfTypes : CursorSafe(elfFile, elfClock, elfStored[t], t, Over)
    /\ EntriesSafe(elfFile, elfClock, elfFlight, Over)
    /\ EntriesSafe(elfFile, elfClock, elfBridge, Over \cup RowsIn(elfFlight))
    /\ \A t \in ElfTypes :
         WorkerSafe(elfFile, elfClock, t, elfWork[t], Ahead \cup RowsIn(elfWork[t].out))

-----------------------------------------------------------------------------
(* What stays safe, and the rows of sequences of entries.                    *)

\* More rows are over, and time goes on.
LEMMA CursorStaysSafe ==
    ASSUME NEW F, NEW k \in Nat, NEW c \in ElfCursor, NEW t, NEW D, CursorSafe(F, k, c, t, D),
           NEW l \in Nat, k <= l, NEW E, D \subseteq E
    PROVE  CursorSafe(F, l, c, t, E)
<1>1. c.last \in Nat
  BY DEF ElfCursor
<1> QED
  BY <1>1 DEF CursorSafe, FileIn

LEMMA EntriesStaySafe ==
    ASSUME NEW F, NEW k \in Nat, NEW s \in Seq(ElfEntry), NEW D, EntriesSafe(F, k, s, D),
           NEW l \in Nat, k <= l, NEW E, D \subseteq E
    PROVE  EntriesSafe(F, l, s, E)
<1> SUFFICES ASSUME NEW i \in 1 .. Len(s)
             PROVE  CursorSafe(F, l, s[i].token, s[i].type, E \cup RowsUpTo(s, i))
  BY DEF EntriesSafe
<1>1. s[i] \in ElfEntry
  OBVIOUS
<1>2. CursorSafe(F, k, s[i].token, s[i].type, D \cup RowsUpTo(s, i)) /\ s[i].token \in ElfCursor
  BY <1>1 DEF EntriesSafe, ElfEntry
<1> QED
  BY <1>2, CursorStaysSafe

LEMMA WorkerStaysSafe ==
    ASSUME NEW F, NEW k \in Nat, NEW t, NEW w \in ElfTask, NEW D, WorkerSafe(F, k, t, w, D),
           NEW l \in Nat, k <= l, NEW E, D \subseteq E
    PROVE  WorkerSafe(F, l, t, w, E)
<1>1. CursorSafe(F, l, w.cur, t, E)
  BY CursorStaysSafe DEF WorkerSafe, ElfTask
<1>2. ASSUME NEW i \in 1 .. Len(w.out)
      PROVE  w.out[i].type = t /\ CursorSafe(F, l, w.out[i].token, t, E)
  <2>1. w.out \in Seq(ElfEntry)
    BY DEF ElfTask
  <2>2. w.out[i] \in ElfEntry
    BY <2>1
  <2>3. w.out[i].token \in ElfCursor
    BY <2>2 DEF ElfEntry
  <2> QED
    BY <2>3, CursorStaysSafe DEF WorkerSafe
<1>3. w.pc \in {"files", "rows"} => FilesListed(F, w) /\ PageSafe(F, t, w, E)
  BY DEF WorkerSafe, PageSafe, FileIn
<1>4. w.pc = "rows" => RowsSafe(F, w, E)
  BY DEF WorkerSafe, RowsSafe
<1> QED
  BY <1>1, <1>2, <1>3, <1>4 DEF WorkerSafe

LEMMA RowsOfNone == RowsIn(<<>>) = {}
  BY DEF RowsIn, RowsUpTo

LEMMA RowsOfOne ==
    ASSUME NEW s \in Seq(ElfEntry), Len(s) = 1
    PROVE  RowsIn(s) = {s[1].row} \ {<<>>} /\ RowsUpTo(s, 1) = RowsIn(s)
  BY DEF RowsIn, RowsUpTo

LEMMA OneOrNone ==
    ASSUME NEW s \in Seq(ElfEntry), s # <<>>, Len(s) <= 1
    PROVE  Len(s) = 1
<1>1. Len(s) \in Nat /\ Len(s) >= 1
  OBVIOUS
<1>2. \A n \in Nat : n >= 1 /\ n <= 1 => n = 1
  OBVIOUS
<1> QED
  BY <1>1, <1>2

LEMMA RowsOfAppend ==
    ASSUME NEW s \in Seq(ElfEntry), NEW e \in ElfEntry
    PROVE  /\ RowsIn(Append(s, e)) = RowsIn(s) \cup ({e.row} \ {<<>>})
           /\ \A i \in 1 .. Len(s) : RowsUpTo(Append(s, e), i) = RowsUpTo(s, i)
<1>1. /\ Len(Append(s, e)) = Len(s) + 1 /\ Append(s, e)[Len(s) + 1] = e /\ Len(s) \in Nat
      /\ \A i \in 1 .. Len(s) : Append(s, e)[i] = s[i]
  OBVIOUS
<1>2. \A j \in 1 .. (Len(s) + 1) : j \in 1 .. Len(s) \/ j = Len(s) + 1
  BY <1>1
<1>3. \A j \in 1 .. Len(s) : j \in 1 .. (Len(s) + 1)
  BY <1>1
<1>4. Len(s) + 1 \in 1 .. (Len(s) + 1)
  BY <1>1
<1>5. {Append(s, e)[j].row : j \in 1 .. (Len(s) + 1)} = {s[j].row : j \in 1 .. Len(s)} \cup {e.row}
  BY <1>1, <1>2, <1>3, <1>4
<1>6. ASSUME NEW i \in 1 .. Len(s) PROVE RowsUpTo(Append(s, e), i) = RowsUpTo(s, i)
  <2>1. \A j \in 1 .. i : Append(s, e)[j] = s[j]
    BY <1>1
  <2> QED
    BY <2>1 DEF RowsUpTo
<1> QED
  BY <1>1, <1>5, <1>6 DEF RowsIn, RowsUpTo

LEMMA RowsOfTail ==
    ASSUME NEW s \in Seq(ElfEntry), s # <<>>
    PROVE  /\ Len(Tail(s)) = Len(s) - 1 /\ s[1] \in ElfEntry /\ Tail(s) \in Seq(ElfEntry)
           /\ \A i \in 1 .. Len(Tail(s)) :
                /\ i + 1 \in 1 .. Len(s) /\ Tail(s)[i] = s[i + 1]
                /\ RowsUpTo(s, i + 1) = RowsUpTo(Tail(s), i) \cup ({s[1].row} \ {<<>>})
           /\ RowsIn(s) = RowsIn(Tail(s)) \cup ({s[1].row} \ {<<>>})
<1>1. /\ Len(s) \in Nat /\ Len(s) >= 1 /\ Len(Tail(s)) = Len(s) - 1 /\ s[1] \in ElfEntry /\ Tail(s) \in Seq(ElfEntry)
      /\ \A i \in 1 .. (Len(s) - 1) : Tail(s)[i] = s[i + 1]
  OBVIOUS
<1>2. ASSUME NEW n \in 0 .. (Len(s) - 1)
      PROVE  RowsUpTo(s, n + 1) = RowsUpTo(Tail(s), n) \cup ({s[1].row} \ {<<>>})
  <2>1. \A j \in 1 .. n : Tail(s)[j] = s[j + 1] /\ j + 1 \in 1 .. (n + 1)
    BY <1>1
  <2>2. \A j \in 1 .. (n + 1) : j = 1 \/ (j - 1 \in 1 .. n /\ s[j] = Tail(s)[j - 1])
    BY <1>1
  <2>3. 1 \in 1 .. (n + 1)
    OBVIOUS
  <2>4. {s[j].row : j \in 1 .. (n + 1)} = {Tail(s)[j].row : j \in 1 .. n} \cup {s[1].row}
    BY <2>1, <2>2, <2>3
  <2> QED
    BY <2>4 DEF RowsUpTo
<1>3. Len(s) - 1 \in 0 .. (Len(s) - 1) /\ (Len(s) - 1) + 1 = Len(s)
  BY <1>1
<1>4. RowsIn(s) = RowsIn(Tail(s)) \cup ({s[1].row} \ {<<>>})
  BY <1>1, <1>2, <1>3 DEF RowsIn
<1>5. \A i \in 1 .. Len(Tail(s)) : i \in 0 .. (Len(s) - 1) /\ i + 1 \in 1 .. Len(s)
  BY <1>1
<1> QED
  BY <1>1, <1>2, <1>4, <1>5

-----------------------------------------------------------------------------
(* Listings, and how a worker goes through one.                              *)

LEMMA VersionFacts ==
    ASSUME ElfAssumption, NEW F \in ElfFileState, NEW k \in Nat, FilesOK(F, k), NEW f \in ElfFiles
    PROVE  /\ f \in Nat /\ F[f].created \in Nat /\ F[f].v \in Nat /\ F[f].created <= k
           /\ F[f].v > 0 => Versions[f][F[f].v] \in Nat
<1>1. f \in Nat /\ Versions[f] \in Seq(Nat)
  BY DEF ElfAssumption
<1>2. F[f] \in [created : Nat, v : Nat]
  BY DEF ElfFileState
<1>3. F[f].created \in Nat /\ F[f].v \in Nat /\ F[f].created <= k /\ F[f].v <= Len(Versions[f])
  BY <1>2 DEF FilesOK
<1>4. F[f].v > 0 => F[f].v \in 1 .. Len(Versions[f])
  BY <1>1, <1>3
<1> QED
  BY <1>1, <1>3, <1>4

LEMMA IdleFacts ==
    /\ Idle \in ElfTask /\ FreshCursor \in ElfCursor /\ Idle.out = <<>> /\ Len(<<>>) = 0
    /\ Idle.cur = FreshCursor /\ Idle.pc = "off"
<1>1. FreshCursor \in ElfCursor
  BY DEF FreshCursor, ElfCursor
<1>2. <<>> \in Seq(ElfEntry) /\ Len(<<>>) = 0
  OBVIOUS
<1> QED
  BY <1>1, <1>2 DEF Idle, ElfTask

\* A new cursor hides nothing.
LEMMA FreshSafe ==
    ASSUME ElfAssumption, NEW F \in ElfFileState, NEW k \in Nat, FilesOK(F, k), NEW t, NEW D
    PROVE  FreshCursor \in ElfCursor /\ CursorSafe(F, k, FreshCursor, t, D)
<1>1. \A f \in ElfFiles : F[f].created \in Nat
  BY VersionFacts
<1>2. FreshCursor \in ElfCursor
  BY DEF FreshCursor, ElfCursor
<1>3. \A f \in ElfFiles : Listable(FreshCursor, <<f, F[f].created>>)
  BY <1>1 DEF Listable, IsAlreadyProcessed, FreshCursor
<1> QED
  BY <1>2, <1>3 DEF CursorSafe, FreshCursor

LEMMA ListingOrder ==
    ASSUME ElfAssumption, NEW a \in ElfFiles \X Nat, NEW b \in ElfFiles \X Nat
    PROVE  /\ a = <<a[1], a[2]>> /\ a[1] \in ElfFiles /\ a[1] \in Nat /\ a[2] \in Nat
           /\ ~ListedBefore(a, b) => b[2] <= a[2]
           /\ ~ListedBefore(a, b) /\ ~ListedBefore(b, a) => a = b
           /\ a[2] < b[2] => ListedBefore(a, b)
           /\ \A c \in ElfFiles \X Nat : ListedBefore(a, b) /\ ListedBefore(b, c) => ListedBefore(a, c)
<1>1. \A c \in ElfFiles \X Nat : c = <<c[1], c[2]>> /\ c[1] \in ElfFiles /\ c[2] \in Nat
  OBVIOUS
<1>2. \A f \in ElfFiles : f \in Nat
  BY DEF ElfAssumption
<1>3. a = <<a[1], a[2]>> /\ b = <<b[1], b[2]>> /\ a[1] \in Nat /\ a[2] \in Nat /\ b[1] \in Nat /\ b[2] \in Nat
  BY <1>1, <1>2
<1>4. ~ListedBefore(a, b) /\ ~ListedBefore(b, a) => a = b
  <2>1. ~ListedBefore(a, b) /\ ~ListedBefore(b, a) => a[1] = b[1] /\ a[2] = b[2]
    BY <1>3 DEF ListedBefore
  <2> QED
    BY <1>3, <2>1
<1>5. ASSUME NEW c \in ElfFiles \X Nat, ListedBefore(a, b), ListedBefore(b, c) PROVE ListedBefore(a, c)
  <2>1. c[1] \in Nat /\ c[2] \in Nat
    BY <1>1, <1>2
  <2> QED
    BY <1>3, <1>5, <2>1 DEF ListedBefore
<1> QED
  BY <1>1, <1>3, <1>4, <1>5 DEF ListedBefore

\* The listed files are finitely many.
LEMMA ListedFinite ==
    ASSUME ElfAssumption, NEW F, NEW G \in SUBSET ElfFiles
    PROVE  IsFiniteSet({<<f, F[f].created>> : f \in G})
<1>1. IsFiniteSet(G)
  BY FS_Subset DEF ElfAssumption
<1> DEFINE T == {<<f, F[f].created>> : f \in G}
           Of == [f \in G |-> <<f, F[f].created>>]
<1>2. Of \in Surjection(G, T)
  BY DEF Surjection
<1> QED
  BY <1>1, <1>2, FS_Surjection

\* A listing holds whatever comes before a file of it.
LEMMA ListedFirst ==
    ASSUME ElfAssumption, NEW S \in SUBSET (ElfFiles \X Nat), IsFiniteSet(S),
           NEW a \in FirstListed(S), NEW b \in S, ListedBefore(b, a)
    PROVE  b \in FirstListed(S)
<1>1. PICK X \in SUBSET S : X = {c \in S : ListedBefore(c, a)}
  OBVIOUS
<1>2. PICK Y \in SUBSET S : Y = {c \in S : ListedBefore(c, b)}
  OBVIOUS
<1>3. a \in S /\ Cardinality(X) < ElfPage
  BY <1>1 DEF FirstListed
<1>4. Y \subseteq X
  BY <1>1, <1>2, <1>3, ListingOrder
<1>5. IsFiniteSet(X)
  BY FS_Subset
<1>6. Cardinality(X) \in Nat /\ Cardinality(Y) \in Nat /\ Cardinality(Y) <= Cardinality(X)
  BY <1>4, <1>5, FS_Subset, FS_CardinalityType
<1>7. Cardinality(Y) < ElfPage
  BY <1>3, <1>6 DEF ElfAssumption
<1> QED
  BY <1>2, <1>7 DEF FirstListed

\* What w leaves of its page once it is done with m.
LEMMA PageGoesOn ==
    ASSUME ElfAssumption, NEW F \in ElfFileState, NEW k \in Nat, FilesOK(F, k), NEW t,
           NEW w \in ElfTask, NEW D, FilesListed(F, w), PageSafe(F, t, w, D),
           NEW m \in w.files, InTurn(w, m), NEW E, D \subseteq E,
           Unsettled(w, m) \/ (m[2] = F[m[1]].created => FileIn(F, m[1], E)),
           NEW v, v.files = w.files \ {m}, v.now = w.now
    PROVE  FilesListed(F, v) /\ PageSafe(F, t, v, E)
<1>1. w.files \subseteq ElfFiles \X Nat /\ w.now \in Nat
  BY DEF ElfTask
<1>2. FilesListed(F, v)
  BY DEF FilesListed
<1>3. ASSUME NEW f \in ElfFiles, NEW a \in v.files, TypeOf[f] = t, F[f].v > 0, ~Unsettled(v, a),
             F[f].created < a[2], <<f, F[f].created>> \notin v.files
      PROVE  FileIn(F, f, E)
  <2>1. a \in w.files /\ a[2] \in Nat /\ m[2] \in Nat /\ ~Unsettled(w, a) /\ m[1] \in ElfFiles /\ m = <<m[1], m[2]>>
    BY <1>1, <1>3, ListingOrder DEF Unsettled
  <2>2. CASE <<f, F[f].created>> = m
    <3>1. f = m[1] /\ F[f].created = m[2]
      BY <2>2
    <3>2. ~Unsettled(w, m)
      BY <1>1, <1>3, <2>1, <3>1 DEF Unsettled, ElfAssumption
    <3> QED
      BY <3>1, <3>2
  <2>3. CASE <<f, F[f].created>> # m
    <3>1. FileIn(F, f, D)
      BY <1>3, <2>1, <2>3 DEF PageSafe
    <3> QED
      BY <3>1 DEF FileIn
  <2> QED
    BY <2>2, <2>3
<1> QED
  BY <1>2, <1>3 DEF PageSafe

\* The cursor that has moved past m hides nothing more than the files of the page before m.
LEMMA AdvancedSafe ==
    ASSUME ElfAssumption, NEW F \in ElfFileState, NEW k \in Nat, FilesOK(F, k), NEW t,
           NEW w \in ElfTask, NEW D, FilesListed(F, w), PageSafe(F, t, w, D), CursorSafe(F, k, w.cur, t, D),
           NEW m \in w.files, InTurn(w, m), ~Unsettled(w, m), NEW E, D \subseteq E,
           m[2] = F[m[1]].created => FileIn(F, m[1], E)
    PROVE  Advanced(w, m) \in ElfCursor /\ CursorSafe(F, k, Advanced(w, m), t, E)
<1>1. w.files \subseteq ElfFiles \X Nat /\ w.cur \in ElfCursor
  BY DEF ElfTask
<1>2. m[1] \in ElfFiles /\ m[2] \in Nat /\ m \in ElfFiles \X Nat
  BY <1>1, ListingOrder
<1>3. PICK c : c = Advanced(w, m)
  OBVIOUS
<1>4. c.last = m[2] /\ c.ids \subseteq w.cur.ids \cup {m} /\ c = [last |-> c.last, ids |-> c.ids]
  BY <1>3 DEF Advanced, AppendCarried
<1>5. w.cur.ids \subseteq ElfFiles \X Nat /\ w.cur.last \in Nat
  BY <1>1 DEF ElfCursor
<1>6. c \in ElfCursor
  BY <1>2, <1>4, <1>5 DEF ElfCursor
<1>7. F[m[1]].created \in Nat /\ m[2] <= F[m[1]].created /\ F[m[1]].created <= k
  BY <1>2, VersionFacts DEF FilesListed
<1>8. c.last <= k /\ \A p \in c.ids : p[2] <= F[p[1]].created
  BY <1>2, <1>4, <1>7 DEF CursorSafe
<1>9. ASSUME NEW f \in ElfFiles, TypeOf[f] = t, F[f].v > 0, ~Listable(c, <<f, F[f].created>>)
      PROVE  FileIn(F, f, E)
  <2>0. F[f].created \in Nat
    BY VersionFacts
  <2>1. CASE F[f].created < m[2]
    <3>1. <<f, F[f].created>> \notin w.files
      <4>1. <<f, F[f].created>> \in ElfFiles \X Nat
        BY <2>0
      <4>2. ListedBefore(<<f, F[f].created>>, m)
        BY <2>1 DEF ListedBefore
      <4> QED
        BY <4>2 DEF InTurn
    <3>2. FileIn(F, f, D)
      BY <1>9, <2>1, <3>1 DEF PageSafe
    <3> QED
      BY <3>2 DEF FileIn
  <2>2. CASE ~(F[f].created < m[2])
    <3>1. PICK p \in c.ids : p[1] = f /\ F[f].created <= p[2]
      BY <1>2, <1>4, <1>9, <2>0, <2>2 DEF Listable, IsAlreadyProcessed
    <3>2. CASE p = m
      BY <1>2, <1>7, <2>0, <3>1, <3>2
    <3>3. CASE p # m
      <4>1. p \in w.cur.ids
        BY <1>4, <3>1, <3>3
      <4>2. ~Listable(w.cur, <<f, F[f].created>>)
        BY <3>1, <4>1 DEF Listable, IsAlreadyProcessed
      <4>3. FileIn(F, f, D)
        BY <1>9, <4>2 DEF CursorSafe
      <4> QED
        BY <4>3 DEF FileIn
    <3> QED
      BY <3>2, <3>3
  <2> QED
    BY <2>1, <2>2
<1> QED
  BY <1>3, <1>6, <1>8, <1>9 DEF CursorSafe

-----------------------------------------------------------------------------
(* The steps of a worker.                                                    *)

LEMMA InvFacts ==
    ASSUME ElfInv, NEW t \in ElfTypes
    PROVE  /\ elfClock \in Nat /\ elfFile \in ElfFileState /\ FilesOK(elfFile, elfClock)
           /\ elfWork[t] \in ElfTask /\ elfStored[t] \in ElfCursor
           /\ CursorSafe(elfFile, elfClock, elfStored[t], t, Over)
           /\ WorkerSafe(elfFile, elfClock, t, elfWork[t], Ahead \cup RowsIn(elfWork[t].out))
           /\ Over \subseteq Ahead
  BY DEF ElfInv, ElfTypeOK, Ahead

\* Worker t becomes w, which is safe; rows may be given up.
LEMMA BecomesInv ==
    ASSUME ElfInv, NEW t \in ElfTypes, NEW w \in ElfTask, Len(w.out) <= 1,
           elfWork' = [elfWork EXCEPT ![t] = w], UNCHANGED <<elfEnv, elfPipe>>, elfGone \subseteq elfGone',
           WorkerSafe(elfFile, elfClock, t, w, Ahead' \cup RowsIn(w.out))
    PROVE  ElfInv'
<1>1. /\ elfFile' = elfFile /\ elfClock' = elfClock /\ elfStored' = elfStored
      /\ elfBridge' = elfBridge /\ elfFlight' = elfFlight /\ elfSent' = elfSent
  BY DEF elfEnv, elfPipe
<1>2. Over \subseteq Over' /\ Ahead \subseteq Ahead'
  BY <1>1 DEF Over, Ahead
<1>3. ElfTypeOK'
  BY <1>1 DEF ElfInv, ElfTypeOK
<1>4. elfClock \in Nat /\ elfClock <= elfClock
  BY DEF ElfInv, ElfTypeOK
<1>5. ASSUME NEW u \in ElfTypes PROVE CursorSafe(elfFile, elfClock, elfStored[u], u, Over')
  BY <1>2, <1>4, InvFacts, CursorStaysSafe
<1>6. EntriesSafe(elfFile, elfClock, elfFlight, Over')
      /\ EntriesSafe(elfFile, elfClock, elfBridge, Over' \cup RowsIn(elfFlight))
  BY <1>2, <1>4, EntriesStaySafe DEF ElfInv, ElfTypeOK
<1>7. ASSUME NEW u \in ElfTypes
      PROVE  WorkerSafe(elfFile, elfClock, u, elfWork'[u], Ahead' \cup RowsIn(elfWork'[u].out))
  <2>1. CASE u = t
    <3>1. elfWork'[u] = w
      BY <2>1 DEF ElfInv, ElfTypeOK
    <3> QED
      BY <2>1, <3>1
  <2>2. CASE u # t
    <3>1. elfWork'[u] = elfWork[u]
      BY <2>2 DEF ElfInv, ElfTypeOK
    <3>2. Ahead \cup RowsIn(elfWork[u].out) \subseteq Ahead' \cup RowsIn(elfWork[u].out)
      BY <1>2
    <3>3. WorkerSafe(elfFile, elfClock, u, elfWork[u], Ahead' \cup RowsIn(elfWork[u].out))
      BY <1>4, <3>2, InvFacts, WorkerStaysSafe
    <3> QED
      BY <3>1, <3>3
  <2> QED
    BY <2>1, <2>2
<1> QED
  BY <1>1, <1>3, <1>5, <1>6, <1>7 DEF ElfInv

\* A worker without a page and without an entry.
LEMMA QuietSafe ==
    ASSUME ElfAssumption, NEW F \in ElfFileState, NEW k \in Nat, FilesOK(F, k), NEW t, NEW w \in ElfTask, NEW D,
           w.out = <<>>, w.pc \in {"off", "queued", "end"}, CursorSafe(F, k, w.cur, t, D)
    PROVE  WorkerSafe(F, k, t, w, D)
  BY DEF WorkerSafe

LEMMA IdleSafe ==
    ASSUME ElfAssumption, NEW F \in ElfFileState, NEW k \in Nat, FilesOK(F, k), NEW t, NEW D,
           NEW pc \in {"off", "queued"}, NEW w, w = [Idle EXCEPT !.pc = pc]
    PROVE  w \in ElfTask /\ w.out = <<>> /\ Len(w.out) <= 1 /\ WorkerSafe(F, k, t, w, D)
<1>1. FreshCursor \in ElfCursor /\ CursorSafe(F, k, FreshCursor, t, D)
  BY FreshSafe
<1>2. w \in ElfTask /\ w.out = <<>> /\ w.cur = FreshCursor /\ w.pc = pc
  BY IdleFacts DEF ElfTask
<1>3. Len(w.out) <= 1
  BY <1>2, IdleFacts
<1> QED
  BY <1>1, <1>2, <1>3, QuietSafe

LEMMA AcquireInv ==
    ASSUME ElfInv, ElfAssumption, NEW t \in ElfTypes, ElfAcquire(t)
    PROVE  ElfInv'
<1>1. UNCHANGED elfGone /\ elfGone \subseteq elfGone' /\ UNCHANGED <<elfEnv, elfPipe>> /\ Ahead' = Ahead
  BY DEF ElfAcquire, Becomes, elfPipe, Ahead, Over
<1>2. CASE elfCycle.abort \/ elfStop
  <2>1. PICK w : w = [Idle EXCEPT !.pc = "off"]
    OBVIOUS
  <2>2. Idle = w
    BY <2>1 DEF Idle
  <2>3. elfWork' = [elfWork EXCEPT ![t] = w]
    BY <1>2, <2>2 DEF ElfAcquire, Becomes
  <2>4. w \in ElfTask /\ Len(w.out) <= 1 /\ WorkerSafe(elfFile, elfClock, t, w, Ahead' \cup RowsIn(w.out))
    BY <2>1, InvFacts, IdleSafe
  <2> QED
    BY <1>1, <2>3, <2>4, BecomesInv
<1>3. CASE ~(elfCycle.abort \/ elfStop)
  <2>1. PICK w : w = Loaded(t)
    OBVIOUS
  <2>2. elfWork' = [elfWork EXCEPT ![t] = w]
    BY <1>3, <2>1 DEF ElfAcquire, Becomes
  <2>3. w \in ElfTask /\ w.out = <<>> /\ w.pc = "list" /\ w.base = elfStored[t] /\ w.cur = elfStored[t]
    BY <2>1, IdleFacts, InvFacts DEF Loaded, ElfTask
  <2>4. Len(w.out) <= 1
    BY <2>3, IdleFacts
  <2>5. CursorSafe(elfFile, elfClock, w.cur, t, Ahead' \cup RowsIn(w.out))
    <3>1. Over \subseteq Ahead' \cup RowsIn(w.out)
      BY <1>1 DEF Ahead
    <3>2. elfClock \in Nat /\ elfClock <= elfClock
      BY DEF ElfInv, ElfTypeOK
    <3> QED
      BY <2>3, <3>1, <3>2, InvFacts, CursorStaysSafe
  <2>6. WorkerSafe(elfFile, elfClock, t, w, Ahead' \cup RowsIn(w.out))
    BY <2>3, <2>5, IdleFacts DEF WorkerSafe
  <2> QED
    BY <1>1, <2>2, <2>3, <2>4, <2>6, BecomesInv
<1> QED
  BY <1>2, <1>3

\* A listing that starts from a safe cursor.
LEMMA ListedSafe ==
    ASSUME ElfAssumption, NEW F \in ElfFileState, NEW k \in Nat, FilesOK(F, k), NEW t, NEW D,
           NEW c \in ElfCursor, CursorSafe(F, k, c, t, D), NEW w,
           NEW S, S = {<<f, F[f].created>> : f \in {g \in ElfFiles :
                          TypeOf[g] = t /\ F[g].v > 0 /\ F[g].created >= c.last}},
           w.files = {m \in FirstListed(S) : ~IsAlreadyProcessed(m, c.ids)}
    PROVE  w.files \subseteq ElfFiles \X Nat /\ FilesListed(F, w) /\ PageSafe(F, t, w, D)
<1>1. \A f \in ElfFiles : F[f].created \in Nat
  BY VersionFacts
<1>2. S \subseteq ElfFiles \X Nat /\ IsFiniteSet(S)
  <2>1. PICK G \in SUBSET ElfFiles : G = {g \in ElfFiles : TypeOf[g] = t /\ F[g].v > 0 /\ F[g].created >= c.last}
    OBVIOUS
  <2>2. S = {<<f, F[f].created>> : f \in G}
    BY <2>1
  <2>3. IsFiniteSet(S)
    <3>1. IsFiniteSet({<<f, F[f].created>> : f \in G})
      BY ListedFinite
    <3> QED
      BY <2>2, <3>1
  <2>4. S \subseteq ElfFiles \X Nat
    BY <1>1
  <2> QED
    BY <2>3, <2>4
<1>3. w.files \subseteq S
  BY DEF FirstListed
<1>4. FilesListed(F, w)
  BY <1>1, <1>3 DEF FilesListed
<1>5. ASSUME NEW f \in ElfFiles, NEW m \in w.files, TypeOf[f] = t, F[f].v > 0,
             F[f].created < m[2], <<f, F[f].created>> \notin w.files
      PROVE  FileIn(F, f, D)
  <2>1. SUFFICES ~Listable(c, <<f, F[f].created>>)
    BY <1>5 DEF CursorSafe
  <2>2. SUFFICES ASSUME F[f].created >= c.last PROVE IsAlreadyProcessed(<<f, F[f].created>>, c.ids)
    BY DEF Listable
  <2>3. PICK b \in S : b = <<f, F[f].created>>
    BY <1>5, <2>2
  <2>4. m \in FirstListed(S) /\ ListedBefore(b, m)
    BY <1>5, <2>3 DEF ListedBefore
  <2>5. b \in FirstListed(S)
    BY <1>2, <2>4, ListedFirst
  <2> QED
    BY <1>5, <2>3, <2>5
<1> QED
  BY <1>2, <1>3, <1>4, <1>5 DEF PageSafe

LEMMA ElfListInv ==
    ASSUME ElfInv, ElfAssumption, NEW t \in ElfTypes, ElfList(t)
    PROVE  ElfInv'
<1>1. UNCHANGED elfGone /\ elfGone \subseteq elfGone' /\ UNCHANGED <<elfEnv, elfPipe>> /\ Ahead' = Ahead
  BY DEF ElfList, Becomes, elfPipe, Ahead, Over
<1>2. PICK old \in ElfTask : old = elfWork[t]
  BY InvFacts
<1>3. old.pc = "list" /\ old.base = old.cur /\ old.cur \in ElfCursor
  BY <1>2, InvFacts DEF ElfList, WorkerSafe, ElfTask
<1>4. PICK w : w = [old EXCEPT !.pc = "files", !.files =
                       {m \in Listing(t, old.base.last) : ~IsAlreadyProcessed(m, old.base.ids)}]
  OBVIOUS
<1>5. /\ w.pc = "files" /\ w.out = old.out /\ w.cur = old.cur
      /\ w.files = {m \in Listing(t, old.cur.last) : ~IsAlreadyProcessed(m, old.cur.ids)}
  BY <1>3, <1>4 DEF ElfTask
<1>6. WorkerSafe(elfFile, elfClock, t, old, Ahead \cup RowsIn(old.out))
  BY <1>2, InvFacts
<1>7. w.files \subseteq ElfFiles \X Nat /\ FilesListed(elfFile, w)
      /\ PageSafe(elfFile, t, w, Ahead \cup RowsIn(old.out))
  <2>1. CursorSafe(elfFile, elfClock, old.cur, t, Ahead \cup RowsIn(old.out))
    BY <1>6 DEF WorkerSafe
  <2> QED
    BY <1>3, <1>5, <2>1, InvFacts, ListedSafe DEF Listing
<1>8. w \in ElfTask
  BY <1>4, <1>5, <1>7 DEF ElfTask
<1>9. WorkerSafe(elfFile, elfClock, t, w, Ahead' \cup RowsIn(w.out))
  BY <1>1, <1>5, <1>6, <1>7 DEF WorkerSafe
<1>10. Len(w.out) <= 1
  BY <1>2, <1>5 DEF ElfInv, ElfTypeOK
<1>11. elfWork' = [elfWork EXCEPT ![t] = w]
  BY <1>2, <1>4 DEF ElfList, Becomes
<1> QED
  BY <1>1, <1>8, <1>9, <1>10, <1>11, BecomesInv

\* Where a worker at a file stands.
LEMMA AtFileFacts ==
    ASSUME ElfInv, ElfAssumption, NEW t \in ElfTypes, NEW m \in elfWork[t].files, elfWork[t].out = <<>>,
           elfWork[t].pc \in {"files", "rows"}
    PROVE  /\ m \in ElfFiles \X Nat /\ m[1] \in ElfFiles /\ m[2] \in Nat
           /\ FilesListed(elfFile, elfWork[t]) /\ PageSafe(elfFile, t, elfWork[t], Ahead)
           /\ CursorSafe(elfFile, elfClock, elfWork[t].cur, t, Ahead)
           /\ RowCount(m[1]) \in Nat /\ RowCount(m[1]) = Versions[m[1]][elfFile[m[1]].v]
<1>1. PICK w \in ElfTask : w = elfWork[t]
  BY InvFacts
<1>2. w.files \subseteq ElfFiles \X Nat
  BY DEF ElfTask
<1>3. m \in ElfFiles \X Nat /\ m[1] \in ElfFiles /\ m[2] \in Nat
  BY <1>1, <1>2, ListingOrder
<1>4. Ahead \cup RowsIn(w.out) = Ahead
  BY <1>1, RowsOfNone
<1>5. FilesListed(elfFile, w) /\ PageSafe(elfFile, t, w, Ahead) /\ CursorSafe(elfFile, elfClock, w.cur, t, Ahead)
  <2>1. WorkerSafe(elfFile, elfClock, t, w, Ahead)
    BY <1>1, <1>4, InvFacts
  <2>2. w.pc \in {"files", "rows"}
    BY <1>1
  <2> QED
    BY <2>1, <2>2 DEF WorkerSafe
<1>6. RowCount(m[1]) \in Nat /\ RowCount(m[1]) = Versions[m[1]][elfFile[m[1]].v]
  BY <1>1, <1>3, <1>5, InvFacts, VersionFacts DEF RowCount, FilesListed
<1> QED
  BY <1>1, <1>3, <1>5, <1>6

\* Worker t is done with file m.
LEMMA NextFileInv ==
    ASSUME ElfInv, ElfAssumption, NEW t \in ElfTypes, NEW m \in elfWork[t].files, elfWork[t].out = <<>>,
           elfWork[t].pc \in {"files", "rows"}, InTurn(elfWork[t], m),
           NEW v \in ElfTask, v.files = elfWork[t].files \ {m}, v.now = elfWork[t].now, v.pc = "files",
           Len(v.out) <= 1, elfWork' = [elfWork EXCEPT ![t] = v],
           UNCHANGED <<elfEnv, elfPipe>>, elfGone \subseteq elfGone',
           CursorSafe(elfFile, elfClock, v.cur, t, Ahead' \cup RowsIn(v.out)),
           \A i \in 1 .. Len(v.out) : v.out[i].type = t
              /\ CursorSafe(elfFile, elfClock, v.out[i].token, t, Ahead' \cup RowsIn(v.out)),
           Unsettled(elfWork[t], m)
              \/ (m[2] = elfFile[m[1]].created => FileIn(elfFile, m[1], Ahead' \cup RowsIn(v.out)))
    PROVE  ElfInv'
<1>1. PICK w \in ElfTask : w = elfWork[t]
  BY InvFacts
<1>2. Ahead \subseteq Ahead'
  BY DEF Ahead, Over, elfPipe
<1>3. PICK E : E = Ahead' \cup RowsIn(v.out)
  OBVIOUS
<1>4. Ahead \subseteq E
  BY <1>2, <1>3
<1>5. FilesListed(elfFile, w) /\ PageSafe(elfFile, t, w, Ahead)
  BY <1>1, AtFileFacts
<1>6. FilesListed(elfFile, v) /\ PageSafe(elfFile, t, v, E)
  <2>1. elfFile \in ElfFileState /\ elfClock \in Nat /\ FilesOK(elfFile, elfClock)
    BY DEF ElfInv, ElfTypeOK
  <2>2. /\ m \in w.files /\ InTurn(w, m) /\ v.files = w.files \ {m} /\ v.now = w.now
        /\ Unsettled(w, m) \/ (m[2] = elfFile[m[1]].created => FileIn(elfFile, m[1], E))
    BY <1>1, <1>3
  <2> QED
    BY <1>4, <1>5, <2>1, <2>2, PageGoesOn
<1>7. WorkerSafe(elfFile, elfClock, t, v, Ahead' \cup RowsIn(v.out))
  BY <1>3, <1>6 DEF WorkerSafe
<1> QED
  BY <1>7, BecomesInv

\* Worker t returns, its entry still to be put.
LEMMA ReturnInv ==
    ASSUME ElfInv, ElfAssumption, NEW t \in ElfTypes, NEW v \in ElfTask, v.pc = "end", v.cur = elfWork[t].cur,
           v.out = elfWork[t].out, elfWork' = [elfWork EXCEPT ![t] = v],
           UNCHANGED <<elfEnv, elfPipe>>, elfGone \subseteq elfGone'
    PROVE  ElfInv'
<1>1. PICK w \in ElfTask : w = elfWork[t]
  BY InvFacts
<1>2. Ahead \subseteq Ahead'
  BY DEF Ahead, Over, elfPipe
<1>3. elfClock \in Nat /\ elfClock <= elfClock
  BY DEF ElfInv, ElfTypeOK
<1>4. WorkerSafe(elfFile, elfClock, t, w, Ahead' \cup RowsIn(w.out))
  <2>1. Ahead \cup RowsIn(w.out) \subseteq Ahead' \cup RowsIn(w.out)
    BY <1>2
  <2> QED
    BY <1>1, <1>3, <2>1, InvFacts, WorkerStaysSafe
<1>5. WorkerSafe(elfFile, elfClock, t, v, Ahead' \cup RowsIn(v.out))
  BY <1>1, <1>4 DEF WorkerSafe
<1>6. Len(v.out) <= 1
  BY DEF ElfInv, ElfTypeOK
<1> QED
  BY <1>5, <1>6, BecomesInv

LEMMA ReturnFacts ==
    ASSUME NEW w \in ElfTask
    PROVE  Return(w) \in ElfTask /\ Return(w).pc = "end" /\ Return(w).cur = w.cur /\ Return(w).out = w.out
  BY DEF Return, ElfTask

LEMMA SetCur ==
    ASSUME NEW w \in ElfTask, NEW c \in ElfCursor
    PROVE  \E v \in ElfTask : /\ v = [w EXCEPT !.cur = c] /\ v.cur = c /\ v.files = w.files
                              /\ v.now = w.now /\ v.out = w.out
<1>1. PICK v : v = [w EXCEPT !.cur = c]
  OBVIOUS
<1>2. v \in ElfTask /\ v.cur = c /\ v.files = w.files /\ v.now = w.now /\ v.out = w.out
  BY <1>1 DEF ElfTask
<1> QED
  BY <1>1, <1>2

LEMMA SetOut ==
    ASSUME NEW w \in ElfTask, NEW s \in Seq(ElfEntry)
    PROVE  \E v \in ElfTask : v = [w EXCEPT !.out = s] /\ v.cur = w.cur /\ v.out = s /\ v.pc = w.pc
<1>1. PICK v : v = [w EXCEPT !.out = s]
  OBVIOUS
<1>2. v \in ElfTask /\ v.cur = w.cur /\ v.out = s /\ v.pc = w.pc
  BY <1>1 DEF ElfTask
<1> QED
  BY <1>1, <1>2

LEMMA EntryFacts ==
    ASSUME NEW e \in ElfEntry
    PROVE  <<e>> \in Seq(ElfEntry) /\ Len(<<e>>) = 1 /\ \A i \in 1 .. Len(<<e>>) : <<e>>[i] = e
  OBVIOUS

LEMMA NextFileFacts ==
    ASSUME NEW w \in ElfTask, NEW m
    PROVE  /\ NextFile(w, m) \in ElfTask /\ NextFile(w, m).pc = "files" /\ NextFile(w, m).files = w.files \ {m}
           /\ NextFile(w, m).now = w.now /\ NextFile(w, m).cur = w.cur /\ NextFile(w, m).out = w.out
  BY DEF NextFile, ElfTask

\* The file at hand is the only one in turn.
LEMMA OneInTurn ==
    ASSUME ElfAssumption, NEW w \in ElfTask, NEW a \in w.files, NEW b \in w.files, InTurn(w, a), InTurn(w, b)
    PROVE  a = b
<1>1. a \in ElfFiles \X Nat /\ b \in ElfFiles \X Nat
  BY DEF ElfTask
<1>2. ~ListedBefore(a, b) /\ ~ListedBefore(b, a)
  BY DEF InTurn
<1> QED
  BY <1>1, <1>2, ListingOrder

LEMMA DownloadsInv ==
    ASSUME ElfInv, ElfAssumption, NEW t \in ElfTypes, ElfDownload(t)
    PROVE  ElfInv'
<1>1. PICK w \in ElfTask : w = elfWork[t]
  BY InvFacts
<1>2. PICK m \in w.files :
         /\ AtFile(t, m)
         /\ Becomes(t, IF elfStop THEN Return(w)
                       ELSE IF Unsettled(w, m) \/ RowCount(m[1]) = 0 THEN NextFile(w, m)
                       ELSE [w EXCEPT !.pc = "rows", !.row = 1, !.n = RowCount(m[1])])
  BY <1>1 DEF ElfDownload
<1>3. /\ w.pc = "files" /\ w.out = <<>> /\ InTurn(w, m) /\ m \in elfWork[t].files
      /\ UNCHANGED <<elfEnv, elfPipe>> /\ elfGone' = elfGone /\ Ahead' = Ahead
  BY <1>1, <1>2 DEF AtFile, Becomes, ElfDownload, Ahead, Over, elfPipe
<1>4. /\ m[1] \in ElfFiles /\ m[2] \in Nat /\ FilesListed(elfFile, w) /\ PageSafe(elfFile, t, w, Ahead)
      /\ CursorSafe(elfFile, elfClock, w.cur, t, Ahead)
      /\ RowCount(m[1]) \in Nat /\ RowCount(m[1]) = Versions[m[1]][elfFile[m[1]].v]
  BY <1>1, <1>3, AtFileFacts
<1>5. Ahead' \cup RowsIn(<<>>) = Ahead
  BY <1>3, RowsOfNone
<1>6. CASE elfStop
  <2>1. PICK v \in ElfTask : v = Return(w) /\ v.pc = "end" /\ v.cur = w.cur /\ v.out = w.out
    BY ReturnFacts
  <2>2. elfWork' = [elfWork EXCEPT ![t] = v]
    BY <1>2, <1>6, <2>1 DEF Becomes
  <2> QED
    BY <1>1, <1>3, <2>1, <2>2, ReturnInv
<1>7. CASE ~elfStop /\ (Unsettled(w, m) \/ RowCount(m[1]) = 0)
  <2>1. PICK v \in ElfTask : /\ v = NextFile(w, m) /\ v.pc = "files" /\ v.files = w.files \ {m}
                             /\ v.now = w.now /\ v.cur = w.cur /\ v.out = w.out
    BY NextFileFacts
  <2>2. elfWork' = [elfWork EXCEPT ![t] = v]
    BY <1>2, <1>7, <2>1 DEF Becomes
  <2>3. Len(v.out) = 0
    BY <1>3, <2>1
  <2>4. CursorSafe(elfFile, elfClock, v.cur, t, Ahead' \cup RowsIn(v.out))
    BY <1>3, <1>4, <1>5, <2>1
  <2>5. RowCount(m[1]) = 0 => FileIn(elfFile, m[1], Ahead' \cup RowsIn(v.out))
    BY <1>4 DEF FileIn, RowsOf
  <2>6. Unsettled(w, m) \/ FileIn(elfFile, m[1], Ahead' \cup RowsIn(v.out))
    BY <1>7, <2>5
  <2>7. Len(v.out) <= 1 /\ \A i \in 1 .. Len(v.out) : FALSE
    BY <2>3
  <2> QED
    BY <1>1, <1>3, <2>1, <2>2, <2>4, <2>6, <2>7, NextFileInv
<1>8. CASE ~elfStop /\ ~Unsettled(w, m) /\ RowCount(m[1]) # 0
  <2>1. PICK v : v = [w EXCEPT !.pc = "rows", !.row = 1, !.n = RowCount(m[1])]
    OBVIOUS
  <2>2. /\ v \in ElfTask /\ v.pc = "rows" /\ v.row = 1 /\ v.n = RowCount(m[1]) /\ v.files = w.files
        /\ v.now = w.now /\ v.cur = w.cur /\ v.out = <<>>
    BY <1>3, <1>4, <2>1 DEF ElfTask
  <2>3. elfWork' = [elfWork EXCEPT ![t] = v]
    BY <1>2, <1>8, <2>1 DEF Becomes
  <2>4. FilesListed(elfFile, v) /\ PageSafe(elfFile, t, v, Ahead)
    BY <1>4, <2>2 DEF FilesListed, PageSafe, Unsettled
  <2>5. RowsSafe(elfFile, v, Ahead)
    <3> SUFFICES ASSUME NEW a \in v.files, InTurn(v, a)
                 PROVE  /\ ~Unsettled(v, a) /\ v.row <= v.n
                        /\ a[2] = elfFile[a[1]].created => v.n = Versions[a[1]][elfFile[a[1]].v]
                        /\ \A i \in 1 .. v.n : (i < v.row /\ <<a[1], i>> \in RowsKept) => <<a[1], i>> \in Ahead
      BY DEF RowsSafe
    <3>1. a = m
      BY <1>3, <2>2, OneInTurn DEF InTurn
    <3>2. ~Unsettled(v, a)
      BY <1>8, <2>2, <3>1 DEF Unsettled
    <3>3. v.row <= v.n /\ \A i \in 1 .. v.n : ~(i < v.row)
      BY <1>4, <1>8, <2>2
    <3>4. v.n = Versions[a[1]][elfFile[a[1]].v]
      BY <1>4, <2>2, <3>1
    <3> QED
      BY <3>2, <3>3, <3>4
  <2>6. Ahead' \cup RowsIn(v.out) = Ahead /\ Len(v.out) <= 1 /\ \A i \in 1 .. Len(v.out) : FALSE
    BY <1>5, <2>2
  <2>7. WorkerSafe(elfFile, elfClock, t, v, Ahead)
    BY <1>4, <2>2, <2>4, <2>5, <2>6 DEF WorkerSafe
  <2> QED
    BY <1>3, <2>2, <2>3, <2>6, <2>7, BecomesInv
<1> QED
  BY <1>6, <1>7, <1>8

\* A failed file is abandoned, or the worker returns.
LEMMA FileFailsInv ==
    ASSUME ElfInv, ElfAssumption, NEW t \in ElfTypes, NEW m \in elfWork[t].files, elfWork[t].out = <<>>,
           elfWork[t].pc \in {"files", "rows"}, InTurn(elfWork[t], m), ~Unsettled(elfWork[t], m),
           NEW n, m[2] = elfFile[m[1]].created => n = RowCount(m[1]), FileFails(t, elfWork[t], m, n)
    PROVE  ElfInv'
<1>1. PICK w \in ElfTask : w = elfWork[t]
  BY InvFacts
<1>2. CASE w.now - m[2] > MaxAge
  <2>1. /\ elfWork' = [elfWork EXCEPT ![t] = NextFile([w EXCEPT !.cur = Advanced(w, m)], m)]
        /\ elfGone' = elfGone \cup RowsOf(m[1], n) /\ UNCHANGED <<elfEnv, elfPipe>>
    BY <1>1, <1>2 DEF FileFails, Becomes
  <2>2. Ahead' = Ahead \cup RowsOf(m[1], n)
    BY <2>1 DEF Ahead, Over, elfPipe
  <2>3. /\ FilesListed(elfFile, w) /\ PageSafe(elfFile, t, w, Ahead) /\ CursorSafe(elfFile, elfClock, w.cur, t, Ahead)
        /\ RowCount(m[1]) = Versions[m[1]][elfFile[m[1]].v]
    BY <1>1, AtFileFacts
  <2>4. m[2] = elfFile[m[1]].created => FileIn(elfFile, m[1], Ahead')
    BY <2>2, <2>3 DEF FileIn
  <2>5. Advanced(w, m) \in ElfCursor /\ CursorSafe(elfFile, elfClock, Advanced(w, m), t, Ahead')
    <3>1. elfFile \in ElfFileState /\ elfClock \in Nat /\ FilesOK(elfFile, elfClock) /\ Ahead \subseteq Ahead'
      BY <2>2 DEF ElfInv, ElfTypeOK
    <3>2. m \in w.files /\ InTurn(w, m) /\ ~Unsettled(w, m)
      BY <1>1
    <3> QED
      BY <2>3, <2>4, <3>1, <3>2, AdvancedSafe
  <2>6. PICK u \in ElfTask : /\ u = [w EXCEPT !.cur = Advanced(w, m)] /\ u.cur = Advanced(w, m)
                             /\ u.files = w.files /\ u.now = w.now /\ u.out = w.out
    BY <2>5, SetCur
  <2>7. PICK v \in ElfTask : /\ v = NextFile(u, m) /\ v.pc = "files" /\ v.files = u.files \ {m}
                             /\ v.now = u.now /\ v.cur = u.cur /\ v.out = u.out
    BY NextFileFacts
  <2>8. elfWork' = [elfWork EXCEPT ![t] = v] /\ elfGone \subseteq elfGone' /\ UNCHANGED <<elfEnv, elfPipe>>
    BY <2>1, <2>6, <2>7
  <2>9. Ahead' \cup RowsIn(v.out) = Ahead' /\ Len(v.out) <= 1 /\ \A i \in 1 .. Len(v.out) : FALSE
    <3>1. v.out = <<>> /\ Len(v.out) = 0
      BY <1>1, <2>6, <2>7, IdleFacts
    <3> QED
      BY <3>1, RowsOfNone
  <2>10. CursorSafe(elfFile, elfClock, v.cur, t, Ahead' \cup RowsIn(v.out))
    BY <2>5, <2>6, <2>7, <2>9
  <2>11. v.files = elfWork[t].files \ {m} /\ v.now = elfWork[t].now
    BY <1>1, <2>6, <2>7
  <2>12. m[2] = elfFile[m[1]].created => FileIn(elfFile, m[1], Ahead' \cup RowsIn(v.out))
    BY <2>4, <2>9
  <2> QED
    BY <2>7, <2>8, <2>9, <2>10, <2>11, <2>12, NextFileInv
<1>3. CASE ~(w.now - m[2] > MaxAge)
  <2>1. PICK v \in ElfTask : v = Return(w) /\ v.pc = "end" /\ v.cur = w.cur /\ v.out = w.out
    BY ReturnFacts
  <2>2. elfWork' = [elfWork EXCEPT ![t] = v] /\ UNCHANGED <<elfEnv, elfPipe>> /\ elfGone \subseteq elfGone'
    BY <1>1, <1>3, <2>1 DEF FileFails, Becomes
  <2> QED
    BY <1>1, <2>1, <2>2, ReturnInv
<1> QED
  BY <1>2, <1>3

LEMMA FailuresInv ==
    ASSUME ElfInv, ElfAssumption, NEW t \in ElfTypes, ElfDownloadFails(t) \/ ElfParseFails(t)
    PROVE  ElfInv'
<1>1. CASE ElfDownloadFails(t)
  <2>1. PICK m \in elfWork[t].files : /\ AtFile(t, m) /\ ~Unsettled(elfWork[t], m)
                                      /\ FileFails(t, elfWork[t], m, RowCount(m[1]))
    BY <1>1 DEF ElfDownloadFails
  <2> QED
    BY <2>1, FileFailsInv DEF AtFile
<1>2. CASE ElfParseFails(t)
  <2>1. elfWork[t].pc = "rows" /\ elfWork[t].out = <<>>
    BY <1>2 DEF ElfParseFails
  <2>2. PICK m \in elfWork[t].files : InTurn(elfWork[t], m) /\ FileFails(t, elfWork[t], m, elfWork[t].n)
    BY <1>2 DEF ElfParseFails
  <2>3. RowsSafe(elfFile, elfWork[t], Ahead \cup RowsIn(elfWork[t].out))
    BY <2>1, InvFacts DEF WorkerSafe
  <2>4. ~Unsettled(elfWork[t], m) /\ (m[2] = elfFile[m[1]].created => elfWork[t].n = RowCount(m[1]))
    BY <2>2, <2>3 DEF RowsSafe, RowCount
  <2> QED
    BY <2>1, <2>2, <2>4, FileFailsInv
<1> QED
  BY <1>1, <1>2

LEMMA ListFailsInv ==
    ASSUME ElfInv, ElfAssumption, NEW t \in ElfTypes, ElfListFails(t)
    PROVE  ElfInv'
<1>1. PICK w \in ElfTask : w = elfWork[t]
  BY InvFacts
<1>2. PICK v \in ElfTask : v = Return(w) /\ v.pc = "end" /\ v.cur = w.cur /\ v.out = w.out
  BY ReturnFacts
<1>3. elfWork' = [elfWork EXCEPT ![t] = v]
  BY <1>1, <1>2 DEF ElfListFails, ElfInv, ElfTypeOK, Return
<1>4. UNCHANGED <<elfEnv, elfPipe>> /\ elfGone \subseteq elfGone'
  BY DEF ElfListFails
<1> QED
  BY <1>1, <1>2, <1>3, <1>4, ReturnInv

LEMMA FinishInv ==
    ASSUME ElfInv, ElfAssumption, NEW t \in ElfTypes, ElfFinish(t)
    PROVE  ElfInv'
<1>1. PICK w \in ElfTask : w = elfWork[t]
  BY InvFacts
<1>2. w.out = <<>> /\ w.pc = "files" /\ UNCHANGED <<elfEnv, elfPipe>> /\ elfGone \subseteq elfGone' /\ Ahead' = Ahead
  BY <1>1 DEF ElfFinish, Becomes, Ahead, Over, elfPipe
<1>3. CASE ~NeedsFinalToken(w)
  <2>1. PICK v \in ElfTask : v = Return(w) /\ v.pc = "end" /\ v.cur = w.cur /\ v.out = w.out
    BY ReturnFacts
  <2>2. v = [Return(w) EXCEPT !.out = <<>>]
    BY <1>2, <2>1 DEF ElfTask
  <2>3. elfWork' = [elfWork EXCEPT ![t] = v]
    BY <1>1, <1>3, <2>2 DEF ElfFinish, Becomes
  <2> QED
    BY <1>1, <1>2, <2>1, <2>3, ReturnInv
<1>4. CASE NeedsFinalToken(w)
  <2>1. PICK e \in ElfEntry : e = TokenOnly(t, w.cur) /\ e.type = t /\ e.token = w.cur
    <3>1. w.cur \in ElfCursor
      BY DEF ElfTask
    <3>2. TokenOnly(t, w.cur) \in ElfEntry
      BY <3>1 DEF TokenOnly, ElfEntry
    <3>3. TokenOnly(t, w.cur).type = t /\ TokenOnly(t, w.cur).token = w.cur
      BY DEF TokenOnly
    <3> QED
      BY <3>2, <3>3
  <2>2. <<e>> \in Seq(ElfEntry) /\ Len(<<e>>) = 1 /\ \A i \in 1 .. Len(<<e>>) : <<e>>[i] = e
    BY EntryFacts
  <2>3. PICK v \in ElfTask : v = [Return(w) EXCEPT !.out = <<e>>] /\ v.pc = "end" /\ v.cur = w.cur /\ v.out = <<e>>
    <3>1. PICK r \in ElfTask : r = Return(w) /\ r.pc = "end" /\ r.cur = w.cur
      BY ReturnFacts
    <3>2. PICK v \in ElfTask : v = [r EXCEPT !.out = <<e>>] /\ v.cur = r.cur /\ v.out = <<e>> /\ v.pc = r.pc
      BY <2>2, SetOut
    <3> QED
      BY <3>1, <3>2
  <2>4. elfWork' = [elfWork EXCEPT ![t] = v]
    BY <1>1, <1>4, <2>1, <2>3 DEF ElfFinish, Becomes
  <2>5. CursorSafe(elfFile, elfClock, w.cur, t, Ahead' \cup RowsIn(v.out))
    <3>1. WorkerSafe(elfFile, elfClock, t, w, Ahead)
      BY <1>1, <1>2, InvFacts, RowsOfNone
    <3>2. CursorSafe(elfFile, elfClock, w.cur, t, Ahead) /\ w.cur \in ElfCursor
      BY <3>1 DEF WorkerSafe, ElfTask
    <3>3. elfClock \in Nat /\ elfClock <= elfClock
      BY DEF ElfInv, ElfTypeOK
    <3> QED
      BY <1>2, <3>2, <3>3, CursorStaysSafe
  <2>6. \A i \in 1 .. Len(v.out) : v.out[i].type = t
           /\ CursorSafe(elfFile, elfClock, v.out[i].token, t, Ahead' \cup RowsIn(v.out))
    <3>1. \A i \in 1 .. Len(v.out) : v.out[i] = e
      BY <2>2, <2>3
    <3> QED
      BY <2>1, <2>5, <3>1
  <2>7. WorkerSafe(elfFile, elfClock, t, v, Ahead' \cup RowsIn(v.out)) /\ Len(v.out) <= 1
    <3>1. CursorSafe(elfFile, elfClock, v.cur, t, Ahead' \cup RowsIn(v.out)) /\ Len(v.out) <= 1
      BY <2>2, <2>3, <2>5
    <3> QED
      BY <2>3, <2>6, <3>1 DEF WorkerSafe
  <2> QED
    BY <1>2, <2>4, <2>7, BecomesInv
<1> QED
  BY <1>3, <1>4

\* A row whose entry is emitted, or that is dropped, and the next one or the next file.
LEMMA RowsAreSafe ==
    ASSUME ElfInv, ElfAssumption, NEW t \in ElfTypes, ElfRow(t)
    PROVE  ElfInv'
<1>1. PICK w \in ElfTask : w = elfWork[t]
  BY InvFacts
<1> DEFINE Token(m) == TokenOfRow(w, m)
           After(m) == IF <<m[1], w.row>> \in RowsKept
                       THEN [w EXCEPT !.out = <<Row(t, m[1], w.row, Token(m))>>, !.last = Token(m)] ELSE w
<1>2. PICK m \in w.files :
         /\ InTurn(w, m)
         /\ Becomes(t, IF elfStop THEN Return(w)
                       ELSE IF w.row < w.n THEN [After(m) EXCEPT !.row = w.row + 1]
                       ELSE NextFile([After(m) EXCEPT !.cur = Advanced(w, m)], m))
  BY <1>1 DEF ElfRow
<1>3. /\ w.pc = "rows" /\ w.out = <<>> /\ m \in elfWork[t].files /\ w.row \in Nat /\ w.n \in Nat
      /\ UNCHANGED <<elfEnv, elfPipe>> /\ elfGone \subseteq elfGone' /\ Ahead' = Ahead
      /\ w.cur \in ElfCursor
  BY <1>1 DEF ElfRow, Becomes, Ahead, Over, elfPipe, ElfTask
<1>4. /\ m[1] \in ElfFiles /\ m[2] \in Nat /\ FilesListed(elfFile, w) /\ PageSafe(elfFile, t, w, Ahead)
      /\ CursorSafe(elfFile, elfClock, w.cur, t, Ahead)
  BY <1>1, <1>3, AtFileFacts
<1>5. RowsSafe(elfFile, w, Ahead)
  <2>1. Ahead \cup RowsIn(w.out) = Ahead
    BY <1>3, RowsOfNone
  <2>2. WorkerSafe(elfFile, elfClock, t, w, Ahead)
    BY <1>1, <2>1, InvFacts
  <2> QED
    BY <1>3, <2>2 DEF WorkerSafe
<1>6. /\ ~Unsettled(w, m) /\ w.row <= w.n
      /\ m[2] = elfFile[m[1]].created => w.n = Versions[m[1]][elfFile[m[1]].v]
      /\ \A i \in 1 .. w.n : (i < w.row /\ <<m[1], i>> \in RowsKept) => <<m[1], i>> \in Ahead
  BY <1>2, <1>5 DEF RowsSafe
<1>7. elfFile \in ElfFileState /\ elfClock \in Nat /\ FilesOK(elfFile, elfClock) /\ elfClock <= elfClock
  BY DEF ElfInv, ElfTypeOK
\* With the row at hand; once it is the last, the whole file is in E.
<1> DEFINE E == Ahead \cup ({<<m[1], w.row>>} \cap RowsKept)
<1>8. \A i \in 1 .. w.n : (i <= w.row /\ <<m[1], i>> \in RowsKept) => <<m[1], i>> \in E
  <2>1. \A i \in 1 .. w.n : i <= w.row => i < w.row \/ i = w.row
    BY <1>3
  <2> QED
    BY <1>6, <2>1
<1>9. ~(w.row < w.n) /\ m[2] = elfFile[m[1]].created => FileIn(elfFile, m[1], E)
  <2> SUFFICES ASSUME ~(w.row < w.n), m[2] = elfFile[m[1]].created PROVE FileIn(elfFile, m[1], E)
    OBVIOUS
  <2>1. w.n = Versions[m[1]][elfFile[m[1]].v] /\ \A i \in 1 .. w.n : i <= w.row
    BY <1>3, <1>6
  <2> QED
    BY <1>8, <2>1 DEF FileIn, RowsOf
<1>10. ~(w.row < w.n) => Advanced(w, m) \in ElfCursor /\ CursorSafe(elfFile, elfClock, Advanced(w, m), t, E)
  <2>1. Ahead \subseteq E
    OBVIOUS
  <2> HIDE DEF E
  <2> QED
    BY <1>2, <1>4, <1>6, <1>7, <1>9, <2>1, AdvancedSafe
<1>11. CursorSafe(elfFile, elfClock, w.cur, t, E)
  <2>1. Ahead \subseteq E
    OBVIOUS
  <2> HIDE DEF E
  <2> QED
    BY <1>3, <1>4, <1>7, <2>1, CursorStaysSafe
<1>12. Token(m) \in ElfCursor /\ CursorSafe(elfFile, elfClock, Token(m), t, E)
  <2>1. w.row = w.n => ~(w.row < w.n)
    BY <1>3
  <2> HIDE DEF E
  <2> QED
    BY <1>3, <1>10, <1>11, <2>1 DEF TokenOfRow
<1>13. /\ After(m) \in ElfTask /\ After(m).pc = "rows" /\ After(m).cur = w.cur /\ After(m).files = w.files
       /\ After(m).now = w.now /\ After(m).n = w.n /\ Len(After(m).out) <= 1
       /\ Ahead' \cup RowsIn(After(m).out) = E
       /\ \A i \in 1 .. Len(After(m).out) : After(m).out[i].type = t /\ After(m).out[i].token = Token(m)
  <2>1. CASE <<m[1], w.row>> \in RowsKept
    <3>1. PICK e \in ElfEntry : e = Row(t, m[1], w.row, Token(m)) /\ e.type = t /\ e.token = Token(m)
                                /\ e.row = <<m[1], w.row>>
      <4>1. PICK e : e = Row(t, m[1], w.row, Token(m))
        OBVIOUS
      <4>2. e.type = t /\ e.token = Token(m) /\ e.row = <<m[1], w.row>>
        BY <4>1 DEF Row
      <4>3. <<m[1], w.row>> \in ElfFiles \X Nat
        BY <1>3, <1>4
      <4>4. e \in ElfEntry
        BY <1>12, <4>1, <4>3 DEF Row, ElfEntry
      <4> QED
        BY <4>1, <4>2, <4>4
    <3>2. <<e>> \in Seq(ElfEntry) /\ Len(<<e>>) = 1 /\ \A i \in 1 .. Len(<<e>>) : <<e>>[i] = e
      BY EntryFacts
    <3>3. After(m) = [w EXCEPT !.out = <<e>>, !.last = Token(m)]
      BY <2>1, <3>1
    <3>4. /\ After(m) \in ElfTask /\ After(m).pc = "rows" /\ After(m).cur = w.cur /\ After(m).files = w.files
          /\ After(m).now = w.now /\ After(m).n = w.n /\ After(m).out = <<e>>
      <4> HIDE DEF Token, After
      <4> QED
        BY <1>3, <1>12, <3>2, <3>3 DEF ElfTask
    <3>5. RowsIn(<<e>>) = {<<m[1], w.row>>}
      <4>1. RowsIn(<<e>>) = {<<e>>[1].row} \ {<<>>}
        BY <3>2, RowsOfOne
      <4>2. <<m[1], w.row>> # <<>>
        OBVIOUS
      <4>3. <<e>>[1] = e
        BY <3>2
      <4> QED
        BY <3>1, <4>1, <4>2, <4>3
    <3>6. Ahead' \cup RowsIn(After(m).out) = E
      BY <1>3, <2>1, <3>4, <3>5
    <3> HIDE DEF Token, After, E
    <3> QED
      BY <3>1, <3>2, <3>4, <3>6
  <2>2. CASE <<m[1], w.row>> \notin RowsKept
    <3>1. After(m) = w /\ E = Ahead
      BY <2>2
    <3>2. Len(w.out) = 0 /\ RowsIn(w.out) = {}
      BY <1>3, RowsOfNone, IdleFacts
    <3>3. Ahead' \cup RowsIn(After(m).out) = E
      BY <1>3, <3>1, <3>2
    <3> HIDE DEF After, E
    <3>4. \A i \in 1 .. Len(w.out) : FALSE
      BY <3>2
    <3> QED
      BY <1>3, <3>1, <3>2, <3>3, <3>4
  <2> QED
    BY <2>1, <2>2
<1>14. \A i \in 1 .. Len(After(m).out) :
         After(m).out[i].type = t /\ CursorSafe(elfFile, elfClock, After(m).out[i].token, t, E)
  <2> HIDE DEF Token, After, E
  <2> QED
    BY <1>12, <1>13
<1> PICK u \in ElfTask : u = After(m)
  BY <1>13
<1> HIDE DEF Token, After
<1>15. /\ u.pc = "rows" /\ u.cur = w.cur /\ u.files = w.files /\ u.now = w.now /\ u.n = w.n /\ Len(u.out) <= 1
       /\ Ahead' \cup RowsIn(u.out) = E
       /\ \A i \in 1 .. Len(u.out) : u.out[i].type = t /\ CursorSafe(elfFile, elfClock, u.out[i].token, t, E)
  BY <1>13, <1>14
<1>16. CASE elfStop
  <2>1. PICK v \in ElfTask : v = Return(w) /\ v.pc = "end" /\ v.cur = w.cur /\ v.out = w.out
    BY ReturnFacts
  <2>2. elfWork' = [elfWork EXCEPT ![t] = v]
    BY <1>2, <1>16, <2>1 DEF Becomes
  <2> QED
    BY <1>1, <1>3, <2>1, <2>2, ReturnInv
<1>17. CASE ~elfStop /\ w.row < w.n
  <2>1. PICK v : v = [u EXCEPT !.row = w.row + 1]
    OBVIOUS
  <2>2. /\ v \in ElfTask /\ v.pc = "rows" /\ v.cur = w.cur /\ v.files = w.files /\ v.now = w.now
        /\ v.n = w.n /\ v.out = u.out /\ v.row = w.row + 1
    <3>1. w.row + 1 \in Nat
      BY <1>3
    <3>2. /\ v \in ElfTask /\ v.pc = u.pc /\ v.cur = u.cur /\ v.files = u.files /\ v.now = u.now
          /\ v.n = u.n /\ v.out = u.out /\ v.row = w.row + 1
      BY <2>1, <3>1 DEF ElfTask
    <3> HIDE DEF E
    <3> QED
      BY <1>15, <3>2
  <2>3. elfWork' = [elfWork EXCEPT ![t] = v]
    BY <1>2, <1>17, <2>1 DEF Becomes
  <2>4. FilesListed(elfFile, v) /\ PageSafe(elfFile, t, v, E)
    BY <1>4, <2>2 DEF FilesListed, PageSafe, Unsettled, FileIn
  <2>5. RowsSafe(elfFile, v, E)
    <3> SUFFICES ASSUME NEW a \in v.files, InTurn(v, a)
                 PROVE  /\ ~Unsettled(v, a) /\ v.row <= v.n
                        /\ a[2] = elfFile[a[1]].created => v.n = Versions[a[1]][elfFile[a[1]].v]
                        /\ \A i \in 1 .. v.n : (i < v.row /\ <<a[1], i>> \in RowsKept) => <<a[1], i>> \in E
      BY DEF RowsSafe
    <3>1. a = m
      BY <1>2, <2>2, OneInTurn DEF InTurn
    <3>2. ~Unsettled(v, a)
      BY <1>6, <2>2, <3>1 DEF Unsettled
    <3>3. v.row <= v.n /\ \A i \in 1 .. v.n : i < v.row => i <= w.row
      BY <1>3, <1>17, <2>2
    <3> HIDE DEF E
    <3> QED
      BY <1>6, <1>8, <2>2, <3>1, <3>2, <3>3
  <2> HIDE DEF E
  <2>6. WorkerSafe(elfFile, elfClock, t, v, E) /\ Ahead' \cup RowsIn(v.out) = E /\ Len(v.out) <= 1
    BY <1>11, <1>15, <2>2, <2>4, <2>5 DEF WorkerSafe
  <2> QED
    BY <1>3, <2>2, <2>3, <2>6, BecomesInv
<1>18. CASE ~elfStop /\ ~(w.row < w.n)
  <2> HIDE DEF E
  <2>1. Advanced(w, m) \in ElfCursor /\ CursorSafe(elfFile, elfClock, Advanced(w, m), t, E)
    BY <1>10, <1>18
  <2>2. PICK x \in ElfTask : /\ x = [u EXCEPT !.cur = Advanced(w, m)] /\ x.cur = Advanced(w, m)
                             /\ x.files = w.files /\ x.now = w.now /\ x.out = u.out
    <3>1. PICK x \in ElfTask : /\ x = [u EXCEPT !.cur = Advanced(w, m)] /\ x.cur = Advanced(w, m)
                               /\ x.files = u.files /\ x.now = u.now /\ x.out = u.out
      BY <2>1, SetCur
    <3> QED
      BY <1>15, <3>1
  <2>3. PICK v \in ElfTask : /\ v = NextFile(x, m) /\ v.pc = "files" /\ v.files = x.files \ {m}
                             /\ v.now = x.now /\ v.cur = x.cur /\ v.out = x.out
    BY NextFileFacts
  <2>4. elfWork' = [elfWork EXCEPT ![t] = v]
    BY <1>2, <1>18, <2>2, <2>3 DEF Becomes
  <2>5. Ahead' \cup RowsIn(v.out) = E /\ Len(v.out) <= 1
    BY <1>15, <2>2, <2>3
  <2>6. CursorSafe(elfFile, elfClock, v.cur, t, Ahead' \cup RowsIn(v.out))
    BY <2>1, <2>2, <2>3, <2>5
  <2>7. \A i \in 1 .. Len(v.out) : v.out[i].type = t
           /\ CursorSafe(elfFile, elfClock, v.out[i].token, t, Ahead' \cup RowsIn(v.out))
    <3>1. v.out = u.out
      BY <2>2, <2>3
    <3>2. \A i \in 1 .. Len(u.out) : u.out[i].type = t /\ CursorSafe(elfFile, elfClock, u.out[i].token, t, E)
      BY <1>15
    <3>3. \A i \in 1 .. Len(v.out) : v.out[i].type = t /\ CursorSafe(elfFile, elfClock, v.out[i].token, t, E)
      BY <3>1, <3>2
    <3> QED
      BY <2>5, <3>3
  <2>8. m[2] = elfFile[m[1]].created => FileIn(elfFile, m[1], Ahead' \cup RowsIn(v.out))
    BY <1>9, <1>18, <2>5
  <2>9. /\ elfWork[t].out = <<>> /\ elfWork[t].pc = "rows" /\ InTurn(elfWork[t], m)
        /\ v.files = elfWork[t].files \ {m} /\ v.now = elfWork[t].now
    BY <1>1, <1>2, <1>3, <2>2, <2>3
  <2> QED
    BY <1>3, <2>3, <2>4, <2>5, <2>6, <2>7, <2>8, <2>9, NextFileInv
<1> QED
  BY <1>16, <1>17, <1>18

-----------------------------------------------------------------------------
(* Salesforce, the pipeline and the cycles.                                  *)

\* Time goes on, or nothing that matters happens.
LEMMA StillInv ==
    ASSUME ElfInv, UNCHANGED <<elfFile, elfPipe, elfGone, elfWork>>, elfClock' \in Nat, elfClock <= elfClock'
    PROVE  ElfInv'
<1>1. /\ elfFile' = elfFile /\ elfStored' = elfStored /\ elfBridge' = elfBridge /\ elfFlight' = elfFlight
      /\ elfWork' = elfWork /\ Over' = Over /\ Ahead' = Ahead
  BY DEF elfPipe, Over, Ahead
<1>2. elfClock \in Nat /\ elfFile \in ElfFileState /\ FilesOK(elfFile, elfClock)
  BY DEF ElfInv, ElfTypeOK
<1>3. FilesOK(elfFile, elfClock')
  <2>1. \A f \in ElfFiles : elfFile[f].created \in Nat
    BY <1>2 DEF ElfFileState
  <2> QED
    BY <1>2, <2>1 DEF FilesOK
<1>4. ElfTypeOK'
  BY <1>1, <1>3 DEF ElfInv, ElfTypeOK
<1>5. \A t \in ElfTypes : CursorSafe(elfFile, elfClock', elfStored[t], t, Over)
  BY <1>2, InvFacts, CursorStaysSafe
<1>6. EntriesSafe(elfFile, elfClock', elfFlight, Over)
      /\ EntriesSafe(elfFile, elfClock', elfBridge, Over \cup RowsIn(elfFlight))
  BY <1>2, EntriesStaySafe DEF ElfInv, ElfTypeOK
<1>7. ASSUME NEW t \in ElfTypes
      PROVE  WorkerSafe(elfFile, elfClock', t, elfWork[t], Ahead \cup RowsIn(elfWork[t].out))
  BY <1>2, InvFacts, WorkerStaysSafe
<1> QED
  BY <1>1, <1>4, <1>5, <1>6, <1>7 DEF ElfInv

\* File f is published anew at time k, later than the version that F has of it.
Published(F, k, f) == [F EXCEPT ![f] = [created |-> k, v |-> F[f].v + 1]]

LEMMA PublishedFacts ==
    ASSUME NEW F \in ElfFileState, NEW k \in Nat, NEW f \in ElfFiles
    PROVE  /\ Published(F, k, f) \in ElfFileState
           /\ Published(F, k, f)[f].created = k /\ Published(F, k, f)[f].v = F[f].v + 1
           /\ \A g \in ElfFiles : g # f => Published(F, k, f)[g] = F[g]
<1>1. F[f].v + 1 \in Nat
  BY DEF ElfFileState
<1>2. [created |-> k, v |-> F[f].v + 1] \in [created : Nat, v : Nat]
  BY <1>1
<1> QED
  BY <1>2 DEF Published, ElfFileState

\* No cursor hides the new version.
LEMMA PublishedCursor ==
    ASSUME ElfAssumption, NEW F \in ElfFileState, NEW k \in Nat, FilesOK(F, k), NEW f \in ElfFiles,
           F[f].created < k, NEW c \in ElfCursor, NEW t, NEW D, CursorSafe(F, k, c, t, D)
    PROVE  CursorSafe(Published(F, k, f), k, c, t, D)
<1>1. PICK G \in ElfFileState : G = Published(F, k, f) /\ G[f].created = k
                                /\ \A g \in ElfFiles : g # f => G[g] = F[g]
  <2>1. /\ Published(F, k, f) \in ElfFileState /\ Published(F, k, f)[f].created = k
        /\ \A g \in ElfFiles : g # f => Published(F, k, f)[g] = F[g]
    BY PublishedFacts
  <2> QED
    BY <2>1
<1>2. c.last \in Nat /\ c.ids \subseteq ElfFiles \X Nat /\ F[f].created \in Nat /\ c.last <= k
  BY VersionFacts DEF ElfCursor, CursorSafe
<1>3. \A p \in c.ids : p[1] \in ElfFiles /\ p[2] \in Nat /\ p[2] <= F[p[1]].created
  BY <1>2 DEF CursorSafe
<1>4. \A p \in c.ids : p[2] <= G[p[1]].created
  <2> SUFFICES ASSUME NEW p \in c.ids PROVE p[2] <= G[p[1]].created
    OBVIOUS
  <2>1. CASE p[1] = f
    BY <1>1, <1>2, <1>3, <2>1
  <2>2. CASE p[1] # f
    BY <1>1, <1>3, <2>2
  <2> QED
    BY <2>1, <2>2
<1>5. Listable(c, <<f, k>>)
  <2>1. \A p \in c.ids : p[1] = f => p[2] < k
    BY <1>2, <1>3
  <2>2. \A p \in c.ids : ~(p[1] = f /\ k <= p[2])
    BY <1>3, <2>1
  <2> QED
    BY <1>2, <2>2 DEF Listable, IsAlreadyProcessed
<1>6. ASSUME NEW g \in ElfFiles, TypeOf[g] = t, G[g].v > 0, ~Listable(c, <<g, G[g].created>>)
      PROVE  FileIn(G, g, D)
  <2>1. g # f
    BY <1>1, <1>5, <1>6
  <2>2. G[g] = F[g]
    BY <1>1, <2>1
  <2> QED
    BY <1>6, <2>2 DEF CursorSafe, FileIn
<1> QED
  BY <1>1, <1>2, <1>4, <1>6 DEF CursorSafe

LEMMA PublishedEntries ==
    ASSUME ElfAssumption, NEW F \in ElfFileState, NEW k \in Nat, FilesOK(F, k), NEW f \in ElfFiles,
           F[f].created < k, NEW s \in Seq(ElfEntry), NEW D, EntriesSafe(F, k, s, D)
    PROVE  EntriesSafe(Published(F, k, f), k, s, D)
<1> SUFFICES ASSUME NEW i \in 1 .. Len(s)
             PROVE  CursorSafe(Published(F, k, f), k, s[i].token, s[i].type, D \cup RowsUpTo(s, i))
  BY DEF EntriesSafe
<1>1. s[i] \in ElfEntry
  OBVIOUS
<1>2. CursorSafe(F, k, s[i].token, s[i].type, D \cup RowsUpTo(s, i)) /\ s[i].token \in ElfCursor
  BY <1>1 DEF EntriesSafe, ElfEntry
<1> QED
  BY <1>2, PublishedCursor

LEMMA PublishedWorker ==
    ASSUME ElfAssumption, NEW F \in ElfFileState, NEW k \in Nat, FilesOK(F, k), NEW f \in ElfFiles,
           F[f].created < k, NEW t, NEW w \in ElfTask, NEW D, WorkerSafe(F, k, t, w, D)
    PROVE  WorkerSafe(Published(F, k, f), k, t, w, D)
<1>1. PICK G \in ElfFileState : G = Published(F, k, f) /\ G[f].created = k /\ G[f].v = F[f].v + 1
                                /\ \A g \in ElfFiles : g # f => G[g] = F[g]
  <2>1. /\ Published(F, k, f) \in ElfFileState /\ Published(F, k, f)[f].created = k
        /\ Published(F, k, f)[f].v = F[f].v + 1
        /\ \A g \in ElfFiles : g # f => Published(F, k, f)[g] = F[g]
    BY PublishedFacts
  <2> QED
    BY <2>1
<1>2. CursorSafe(G, k, w.cur, t, D)
  BY <1>1, PublishedCursor DEF WorkerSafe, ElfTask
<1>3. ASSUME NEW i \in 1 .. Len(w.out)
      PROVE  w.out[i].type = t /\ CursorSafe(G, k, w.out[i].token, t, D)
  <2>1. w.out \in Seq(ElfEntry)
    BY DEF ElfTask
  <2>2. w.out[i] \in ElfEntry
    BY <2>1
  <2>3. w.out[i].token \in ElfCursor
    BY <2>2 DEF ElfEntry
  <2> QED
    BY <1>1, <2>3, PublishedCursor DEF WorkerSafe
<1>4. F[f].created \in Nat /\ F[f].v \in Nat
  BY VersionFacts
<1>5. ASSUME w.pc \in {"files", "rows"}
      PROVE  FilesListed(G, w) /\ PageSafe(G, t, w, D)
  <2>1. w.files \subseteq ElfFiles \X Nat /\ FilesListed(F, w) /\ PageSafe(F, t, w, D)
    BY <1>5 DEF ElfTask, WorkerSafe
  <2>2. \A m \in w.files : /\ m[1] \in ElfFiles /\ m[2] \in Nat /\ F[m[1]].created \in Nat
                           /\ F[m[1]].v > 0 /\ m[2] <= F[m[1]].created /\ F[m[1]].created <= k
    BY <2>1, ListingOrder, VersionFacts DEF FilesListed
  <2>3. \A m \in w.files : m[2] <= k
    <3> SUFFICES ASSUME NEW m \in w.files PROVE m[2] <= k
      OBVIOUS
    <3>1. m[2] \in Nat /\ F[m[1]].created \in Nat /\ m[2] <= F[m[1]].created /\ F[m[1]].created <= k
      BY <2>2
    <3> QED
      BY <3>1
  <2>4. FilesListed(G, w)
    <3> SUFFICES ASSUME NEW m \in w.files PROVE G[m[1]].v > 0 /\ m[2] <= G[m[1]].created
      BY DEF FilesListed
    <3>1. CASE m[1] = f
      BY <1>1, <1>4, <2>3, <3>1
    <3>2. CASE m[1] # f
      BY <1>1, <2>2, <3>2
    <3> QED
      BY <3>1, <3>2
  <2>5. PageSafe(G, t, w, D)
    <3> SUFFICES ASSUME NEW g \in ElfFiles, NEW m \in w.files, TypeOf[g] = t, G[g].v > 0, ~Unsettled(w, m),
                        G[g].created < m[2], <<g, G[g].created>> \notin w.files
                 PROVE  FileIn(G, g, D)
      BY DEF PageSafe
    <3>1. g # f
      BY <1>1, <2>2, <2>3
    <3>2. G[g] = F[g]
      BY <1>1, <3>1
    <3> QED
      BY <2>1, <3>2 DEF PageSafe, FileIn
  <2> QED
    BY <2>4, <2>5
<1>6. ASSUME w.pc = "rows" PROVE RowsSafe(G, w, D)
  <2>1. w.files \subseteq ElfFiles \X Nat /\ FilesListed(F, w) /\ RowsSafe(F, w, D)
    BY <1>6 DEF ElfTask, WorkerSafe
  <2> SUFFICES ASSUME NEW m \in w.files, InTurn(w, m), m[2] = G[m[1]].created
               PROVE  w.n = Versions[m[1]][G[m[1]].v]
    BY <2>1 DEF RowsSafe
  <2>2. m[1] \in ElfFiles /\ m[2] \in Nat /\ m[2] <= F[m[1]].created
    BY <2>1, ListingOrder DEF FilesListed
  <2>3. m[1] # f
    BY <1>1, <1>4, <2>2
  <2>4. G[m[1]] = F[m[1]]
    BY <1>1, <2>2, <2>3
  <2> QED
    BY <2>1, <2>4 DEF RowsSafe
<1> QED
  BY <1>1, <1>2, <1>3, <1>5, <1>6 DEF WorkerSafe

LEMMA PublishInv ==
    ASSUME ElfInv, ElfAssumption, NEW f \in ElfFiles, ElfPublish(f)
    PROVE  ElfInv'
<1>1. /\ elfClock' = elfClock /\ elfStored' = elfStored /\ elfBridge' = elfBridge /\ elfFlight' = elfFlight
      /\ elfWork' = elfWork /\ Over' = Over /\ Ahead' = Ahead
  BY DEF ElfPublish, elfPipe, Over, Ahead
<1>2. elfClock \in Nat /\ elfFile \in ElfFileState /\ FilesOK(elfFile, elfClock)
  BY DEF ElfInv, ElfTypeOK
<1>3. elfFile' = Published(elfFile, elfClock, f) /\ elfFile[f].created < elfClock /\ elfFile[f].v < Len(Versions[f])
  BY DEF ElfPublish, Published
<1>4. ElfTypeOK'
  <2>1. PICK G \in ElfFileState : /\ G = Published(elfFile, elfClock, f) /\ G[f].created = elfClock
                                  /\ G[f].v = elfFile[f].v + 1 /\ \A g \in ElfFiles : g # f => G[g] = elfFile[g]
    BY <1>2, PublishedFacts
  <2>2. FilesOK(G, elfClock)
    <3>1. Len(Versions[f]) \in Nat /\ elfFile[f].v \in Nat
      BY <1>2 DEF ElfAssumption, ElfFileState
    <3>2. G[f].created <= elfClock /\ G[f].v <= Len(Versions[f])
      BY <1>2, <1>3, <2>1, <3>1
    <3> QED
      BY <1>2, <2>1, <3>2 DEF FilesOK
  <2> QED
    BY <1>1, <1>3, <2>1, <2>2 DEF ElfInv, ElfTypeOK
<1>5. \A t \in ElfTypes : CursorSafe(elfFile', elfClock, elfStored[t], t, Over)
  BY <1>2, <1>3, InvFacts, PublishedCursor
<1>6. EntriesSafe(elfFile', elfClock, elfFlight, Over)
      /\ EntriesSafe(elfFile', elfClock, elfBridge, Over \cup RowsIn(elfFlight))
  BY <1>2, <1>3, PublishedEntries DEF ElfInv, ElfTypeOK
<1>7. ASSUME NEW t \in ElfTypes
      PROVE  WorkerSafe(elfFile', elfClock, t, elfWork[t], Ahead \cup RowsIn(elfWork[t].out))
  BY <1>2, <1>3, InvFacts, PublishedWorker
<1> QED
  BY <1>1, <1>4, <1>5, <1>6, <1>7 DEF ElfInv

\* The generator hands the bridge's entry on.
LEMMA TakeInv ==
    ASSUME ElfInv, ElfTake
    PROVE  ElfInv'
<1>1. /\ elfClock' = elfClock /\ elfFile' = elfFile /\ elfStored' = elfStored /\ elfWork' = elfWork
      /\ Over' = Over /\ elfBridge' = <<>> /\ elfFlight' = Append(elfFlight, elfBridge[1]) /\ elfBridge # <<>>
  BY DEF ElfTake, elfEnv, Over
<1>2. elfBridge \in Seq(ElfEntry) /\ elfFlight \in Seq(ElfEntry) /\ Len(elfBridge) = 1
  BY <1>1, OneOrNone DEF ElfInv, ElfTypeOK
<1>3. PICK e \in ElfEntry : e = elfBridge[1]
  BY <1>2
<1>4. RowsIn(elfBridge) = {e.row} \ {<<>>} /\ RowsUpTo(elfBridge, 1) = RowsIn(elfBridge)
  BY <1>2, <1>3, RowsOfOne
<1>5. /\ RowsIn(elfFlight') = RowsIn(elfFlight) \cup RowsIn(elfBridge)
      /\ \A i \in 1 .. Len(elfFlight) : RowsUpTo(elfFlight', i) = RowsUpTo(elfFlight, i)
  BY <1>1, <1>2, <1>3, <1>4, RowsOfAppend
<1>6. Ahead' = Ahead
  BY <1>1, <1>5, RowsOfNone DEF Ahead
<1>7. EntriesSafe(elfFile, elfClock, elfFlight', Over)
  <2> SUFFICES ASSUME NEW i \in 1 .. Len(elfFlight')
               PROVE  CursorSafe(elfFile, elfClock, elfFlight'[i].token, elfFlight'[i].type,
                                 Over \cup RowsUpTo(elfFlight', i))
    BY DEF EntriesSafe
  <2>1. /\ Len(elfFlight') = Len(elfFlight) + 1 /\ Len(elfFlight) \in Nat
        /\ elfFlight'[Len(elfFlight) + 1] = e /\ \A j \in 1 .. Len(elfFlight) : elfFlight'[j] = elfFlight[j]
    BY <1>1, <1>2, <1>3
  <2>2. CASE i \in 1 .. Len(elfFlight)
    <3>1. CursorSafe(elfFile, elfClock, elfFlight[i].token, elfFlight[i].type, Over \cup RowsUpTo(elfFlight, i))
      BY <2>2 DEF ElfInv, EntriesSafe
    <3> QED
      BY <1>5, <2>1, <2>2, <3>1
  <2>3. CASE i \notin 1 .. Len(elfFlight)
    <3>1. i = Len(elfFlight') /\ elfFlight'[i] = e
      BY <2>1, <2>3
    <3>2. RowsUpTo(elfFlight', i) = RowsIn(elfFlight) \cup RowsIn(elfBridge)
      BY <1>5, <3>1 DEF RowsIn
    <3>3. CursorSafe(elfFile, elfClock, e.token, e.type, (Over \cup RowsIn(elfFlight)) \cup RowsUpTo(elfBridge, 1))
      BY <1>2, <1>3 DEF ElfInv, EntriesSafe
    <3>4. (Over \cup RowsIn(elfFlight)) \cup RowsUpTo(elfBridge, 1) = Over \cup RowsUpTo(elfFlight', i)
      BY <1>4, <3>2
    <3> QED
      BY <3>1, <3>3, <3>4
  <2> QED
    BY <2>2, <2>3
<1>8. EntriesSafe(elfFile, elfClock, <<>>, Over \cup RowsIn(elfFlight'))
  BY DEF EntriesSafe
<1>9. ElfTypeOK'
  <2>1. elfFlight' \in Seq(ElfEntry) /\ elfBridge' \in Seq(ElfEntry) /\ Len(elfBridge') <= 1
    BY <1>1, <1>2, <1>3
  <2> QED
    BY <1>1, <2>1 DEF ElfInv, ElfTypeOK
<1> QED
  BY <1>1, <1>6, <1>7, <1>8, <1>9 DEF ElfInv

\* The first entry is pushed, and its cursor committed.
LEMMA PushInv ==
    ASSUME ElfInv, ElfPush
    PROVE  ElfInv'
<1>1. PICK e : e = elfFlight[1]
  OBVIOUS
<1>2. /\ elfClock' = elfClock /\ elfFile' = elfFile /\ elfWork' = elfWork /\ elfBridge' = elfBridge
      /\ elfGone' = elfGone /\ elfFlight # <<>> /\ elfFlight' = Tail(elfFlight)
      /\ elfSent' = (IF e.row = <<>> THEN elfSent ELSE elfSent \cup {e.row})
      /\ elfStored' = [elfStored EXCEPT ![e.type] = e.token]
  BY <1>1 DEF ElfPush, elfEnv
<1>3. elfFlight \in Seq(ElfEntry) /\ elfBridge \in Seq(ElfEntry) /\ elfClock \in Nat /\ elfClock <= elfClock
  BY DEF ElfInv, ElfTypeOK
<1>4. /\ Len(Tail(elfFlight)) = Len(elfFlight) - 1 /\ e \in ElfEntry /\ Tail(elfFlight) \in Seq(ElfEntry)
      /\ \A i \in 1 .. Len(Tail(elfFlight)) :
           /\ i + 1 \in 1 .. Len(elfFlight) /\ Tail(elfFlight)[i] = elfFlight[i + 1]
           /\ RowsUpTo(elfFlight, i + 1) = RowsUpTo(Tail(elfFlight), i) \cup ({e.row} \ {<<>>})
      /\ RowsIn(elfFlight) = RowsIn(Tail(elfFlight)) \cup ({e.row} \ {<<>>})
  BY <1>1, <1>2, <1>3, RowsOfTail
<1>5. Over' = Over \cup ({e.row} \ {<<>>})
  BY <1>2 DEF Over
<1>6. Ahead' = Ahead /\ Over' \cup RowsIn(elfFlight') = Over \cup RowsIn(elfFlight) /\ Over \subseteq Over'
  BY <1>2, <1>4, <1>5 DEF Ahead
<1>7. e.type \in ElfTypes /\ e.token \in ElfCursor
  BY <1>4 DEF ElfEntry
<1>8. CursorSafe(elfFile, elfClock, e.token, e.type, Over')
  <2>1. 1 \in 1 .. Len(elfFlight)
    BY <1>2, <1>3
  <2>2. CursorSafe(elfFile, elfClock, e.token, e.type, Over \cup RowsUpTo(elfFlight, 1))
    BY <1>1, <2>1 DEF ElfInv, EntriesSafe
  <2>3. RowsUpTo(elfFlight, 1) = {e.row} \ {<<>>}
    BY <1>1 DEF RowsUpTo
  <2> QED
    BY <1>5, <2>2, <2>3
<1>9. ASSUME NEW t \in ElfTypes PROVE CursorSafe(elfFile, elfClock, elfStored'[t], t, Over')
  <2>1. CASE t = e.type
    <3>1. elfStored'[t] = e.token
      BY <1>2, <1>7, <2>1 DEF ElfInv, ElfTypeOK
    <3> QED
      BY <1>8, <2>1, <3>1
  <2>2. CASE t # e.type
    <3>1. elfStored'[t] = elfStored[t]
      BY <1>2, <2>2 DEF ElfInv, ElfTypeOK
    <3>2. CursorSafe(elfFile, elfClock, elfStored[t], t, Over')
      BY <1>3, <1>6, InvFacts, CursorStaysSafe
    <3> QED
      BY <3>1, <3>2
  <2> QED
    BY <2>1, <2>2
<1>10. EntriesSafe(elfFile, elfClock, elfFlight', Over')
  <2> SUFFICES ASSUME NEW i \in 1 .. Len(elfFlight')
               PROVE  CursorSafe(elfFile, elfClock, elfFlight'[i].token, elfFlight'[i].type,
                                 Over' \cup RowsUpTo(elfFlight', i))
    BY DEF EntriesSafe
  <2>1. i + 1 \in 1 .. Len(elfFlight) /\ elfFlight'[i] = elfFlight[i + 1]
        /\ RowsUpTo(elfFlight, i + 1) = RowsUpTo(elfFlight', i) \cup ({e.row} \ {<<>>})
    BY <1>2, <1>4
  <2>2. CursorSafe(elfFile, elfClock, elfFlight[i + 1].token, elfFlight[i + 1].type,
                   Over \cup RowsUpTo(elfFlight, i + 1))
    BY <2>1 DEF ElfInv, EntriesSafe
  <2>3. Over \cup RowsUpTo(elfFlight, i + 1) = Over' \cup RowsUpTo(elfFlight', i)
    BY <1>5, <2>1
  <2> QED
    BY <2>1, <2>2, <2>3
<1>11. EntriesSafe(elfFile, elfClock, elfBridge, Over' \cup RowsIn(elfFlight'))
  BY <1>6 DEF ElfInv
<1>12. ElfTypeOK'
  BY <1>2, <1>4, <1>7 DEF ElfInv, ElfTypeOK
<1> QED
  BY <1>2, <1>6, <1>9, <1>10, <1>11, <1>12 DEF ElfInv

\* A worker puts its entry into the free bridge.
LEMMA PutInv ==
    ASSUME ElfInv, NEW t \in ElfTypes, ElfPut(t)
    PROVE  ElfInv'
<1>1. PICK w \in ElfTask : w = elfWork[t]
  BY InvFacts
<1>2. /\ elfClock' = elfClock /\ elfFile' = elfFile /\ elfStored' = elfStored /\ elfFlight' = elfFlight
      /\ Over' = Over /\ w.out # <<>> /\ elfBridge = <<>> /\ elfBridge' = w.out
      /\ elfWork' = [elfWork EXCEPT ![t].out = <<>>]
  BY <1>1 DEF ElfPut, elfEnv, Over
<1>3. w.out \in Seq(ElfEntry) /\ Len(w.out) = 1 /\ elfClock \in Nat /\ elfClock <= elfClock
  <2>1. w.out \in Seq(ElfEntry) /\ Len(w.out) <= 1
    BY <1>1 DEF ElfInv, ElfTypeOK, ElfTask
  <2> QED
    BY <1>2, <2>1, OneOrNone DEF ElfInv, ElfTypeOK
<1>4. Ahead' = Ahead \cup RowsIn(w.out) /\ Ahead = Over \cup RowsIn(elfFlight)
  BY <1>2, RowsOfNone DEF Ahead
<1>5. WorkerSafe(elfFile, elfClock, t, w, Ahead')
  BY <1>1, <1>4, InvFacts
<1>6. EntriesSafe(elfFile, elfClock, elfBridge', Over' \cup RowsIn(elfFlight'))
  <2> SUFFICES ASSUME NEW i \in 1 .. Len(w.out)
               PROVE  CursorSafe(elfFile, elfClock, w.out[i].token, w.out[i].type,
                                 (Over \cup RowsIn(elfFlight)) \cup RowsUpTo(w.out, i))
    BY <1>2 DEF EntriesSafe
  <2>1. i = 1 /\ RowsUpTo(w.out, i) = RowsIn(w.out)
    BY <1>3, RowsOfOne
  <2>2. (Over \cup RowsIn(elfFlight)) \cup RowsUpTo(w.out, i) = Ahead'
    BY <1>4, <2>1
  <2> QED
    BY <1>5, <2>2 DEF WorkerSafe
<1>7. PICK v \in ElfTask : v = [w EXCEPT !.out = <<>>] /\ v.cur = w.cur /\ v.out = <<>> /\ v.pc = w.pc
                           /\ v.files = w.files /\ v.now = w.now /\ v.base = w.base /\ v.row = w.row /\ v.n = w.n
  <2>1. PICK v : v = [w EXCEPT !.out = <<>>]
    OBVIOUS
  <2>2. <<>> \in Seq(ElfEntry)
    OBVIOUS
  <2>3. /\ v \in ElfTask /\ v.cur = w.cur /\ v.out = <<>> /\ v.pc = w.pc
        /\ v.files = w.files /\ v.now = w.now /\ v.base = w.base /\ v.row = w.row /\ v.n = w.n
    BY <2>1, <2>2 DEF ElfTask
  <2> QED
    BY <2>1, <2>3
<1>8. elfWork' = [elfWork EXCEPT ![t] = v]
  BY <1>1, <1>2, <1>7 DEF ElfInv, ElfTypeOK
<1>9. WorkerSafe(elfFile, elfClock, t, v, Ahead')
  <2>1. Len(v.out) = 0 /\ \A i \in 1 .. Len(v.out) : FALSE
    BY <1>7, IdleFacts
  <2>2. \A m : (InTurn(v, m) <=> InTurn(w, m)) /\ (Unsettled(v, m) <=> Unsettled(w, m))
    BY <1>7 DEF InTurn, Unsettled
  <2>3. FilesListed(elfFile, w) => FilesListed(elfFile, v)
    BY <1>7 DEF FilesListed
  <2>4. PageSafe(elfFile, t, w, Ahead') => PageSafe(elfFile, t, v, Ahead')
    BY <1>7, <2>2 DEF PageSafe
  <2>5. RowsSafe(elfFile, w, Ahead') => RowsSafe(elfFile, v, Ahead')
    BY <1>7, <2>2 DEF RowsSafe
  <2> QED
    BY <1>5, <1>7, <2>1, <2>3, <2>4, <2>5 DEF WorkerSafe
<1>10. ASSUME NEW u \in ElfTypes
       PROVE  WorkerSafe(elfFile, elfClock, u, elfWork'[u], Ahead' \cup RowsIn(elfWork'[u].out))
  <2>1. CASE u = t
    <3>1. elfWork'[u] = v /\ Ahead' \cup RowsIn(v.out) = Ahead'
      BY <1>7, <1>8, <2>1, RowsOfNone DEF ElfInv, ElfTypeOK
    <3> QED
      BY <1>9, <2>1, <3>1
  <2>2. CASE u # t
    <3>1. elfWork'[u] = elfWork[u]
      BY <1>8, <2>2 DEF ElfInv, ElfTypeOK
    <3>2. Ahead \cup RowsIn(elfWork[u].out) \subseteq Ahead' \cup RowsIn(elfWork[u].out)
      BY <1>4
    <3>3. WorkerSafe(elfFile, elfClock, u, elfWork[u], Ahead' \cup RowsIn(elfWork[u].out))
      BY <1>3, <3>2, InvFacts, WorkerStaysSafe
    <3> QED
      BY <3>1, <3>3
  <2> QED
    BY <2>1, <2>2
<1>11. ElfTypeOK'
  <2>1. elfWork' \in [ElfTypes -> ElfTask] /\ \A u \in ElfTypes : Len(elfWork'[u].out) <= 1
    BY <1>7, <1>8, IdleFacts DEF ElfInv, ElfTypeOK
  <2> QED
    BY <1>2, <1>3, <2>1 DEF ElfInv, ElfTypeOK
<1> QED
  BY <1>2, <1>6, <1>10, <1>11 DEF ElfInv

\* Every worker is idle or queued, and nothing but the cursors that are stored is left.
LEMMA AllIdleInv ==
    ASSUME ElfInv, ElfAssumption, UNCHANGED <<elfClock, elfFile, elfStored, elfSent, elfGone>>,
           \/ UNCHANGED <<elfFlight, elfBridge>>
           \/ elfFlight' = <<>> /\ elfBridge' = <<>>,
           NEW Q, elfWork' = [t \in ElfTypes |-> [Idle EXCEPT !.pc = IF t \in Q THEN "queued" ELSE "off"]]
    PROVE  ElfInv'
<1>1. Over' = Over /\ elfClock' = elfClock /\ elfFile' = elfFile /\ elfStored' = elfStored
  BY DEF Over
<1>2. elfFile \in ElfFileState /\ elfClock \in Nat /\ FilesOK(elfFile, elfClock)
  BY DEF ElfInv, ElfTypeOK
<1>3. ASSUME NEW t \in ElfTypes, NEW D
      PROVE  elfWork'[t] \in ElfTask /\ Len(elfWork'[t].out) <= 1
             /\ WorkerSafe(elfFile, elfClock, t, elfWork'[t], D)
  <2>1. PICK pc \in {"off", "queued"} : elfWork'[t] = [Idle EXCEPT !.pc = pc]
    <3>1. elfWork'[t] = [Idle EXCEPT !.pc = IF t \in Q THEN "queued" ELSE "off"]
      OBVIOUS
    <3> QED
      BY <3>1
  <2> QED
    BY <1>2, <2>1, IdleSafe
<1>4. EntriesSafe(elfFile, elfClock, elfFlight', Over)
      /\ EntriesSafe(elfFile, elfClock, elfBridge', Over \cup RowsIn(elfFlight'))
  <2>1. CASE UNCHANGED <<elfFlight, elfBridge>>
    BY <2>1 DEF ElfInv
  <2>2. CASE elfFlight' = <<>> /\ elfBridge' = <<>>
    BY <2>2 DEF EntriesSafe
  <2> QED
    BY <2>1, <2>2
<1>5. ElfTypeOK'
  <2>1. elfWork' \in [ElfTypes -> ElfTask]
    BY <1>3
  <2>2. elfFlight' \in Seq(ElfEntry) /\ elfBridge' \in Seq(ElfEntry) /\ Len(elfBridge') <= 1
    <3>1. <<>> \in Seq(ElfEntry) /\ Len(<<>>) <= 1
      OBVIOUS
    <3> QED
      BY <3>1 DEF ElfInv, ElfTypeOK
  <2> QED
    BY <1>1, <1>3, <2>1, <2>2 DEF ElfInv, ElfTypeOK
<1> QED
  BY <1>1, <1>3, <1>4, <1>5 DEF ElfInv

LEMMA CyclesInv ==
    ASSUME ElfInv, ElfAssumption, ElfBeginCycle \/ ElfDiscoveryFails \/ ElfCycleDone \/ ElfRestart
    PROVE  ElfInv'
<1>1. ASSUME NEW types, NEW throttled, StartCycle(types, throttled)
      PROVE  ElfInv'
  <2>1. UNCHANGED <<elfClock, elfFile, elfStored, elfSent, elfGone>> /\ UNCHANGED <<elfFlight, elfBridge>>
    BY <1>1 DEF StartCycle, elfEnv, elfPipe
  <2>2. elfWork' = [t \in ElfTypes |-> [Idle EXCEPT !.pc = IF t \in types THEN "queued" ELSE "off"]]
    BY <1>1 DEF StartCycle
  <2> QED
    BY <2>1, <2>2, AllIdleInv
<1>2. CASE ElfBeginCycle \/ ElfDiscoveryFails
  BY <1>1, <1>2 DEF ElfBeginCycle, ElfDiscoveryFails
<1>3. CASE ElfCycleDone
  BY <1>3, StillInv DEF ElfCycleDone, elfEnv, ElfInv, ElfTypeOK
<1>4. CASE ElfRestart
  <2>1. UNCHANGED <<elfClock, elfFile, elfStored, elfSent, elfGone>> /\ elfFlight' = <<>> /\ elfBridge' = <<>>
    BY <1>4 DEF ElfRestart
  <2>2. elfWork' = [t \in ElfTypes |-> [Idle EXCEPT !.pc = IF t \in {} THEN "queued" ELSE "off"]]
    BY <1>4 DEF ElfRestart, Idle
  <2> QED
    BY <2>1, <2>2, AllIdleInv
<1> QED
  BY <1>2, <1>3, <1>4

LEMMA WorkerEndsInv ==
    ASSUME ElfInv, ElfAssumption, NEW t \in ElfTypes, ElfWorkerEnds(t)
    PROVE  ElfInv'
<1>1. PICK v : v = [Idle EXCEPT !.pc = "off"]
  OBVIOUS
<1>2. Idle = v
  BY <1>1 DEF Idle
<1>3. elfWork' = [elfWork EXCEPT ![t] = v] /\ UNCHANGED <<elfEnv, elfPipe>> /\ elfGone \subseteq elfGone'
  BY <1>2 DEF ElfWorkerEnds
<1>4. v \in ElfTask /\ Len(v.out) <= 1 /\ WorkerSafe(elfFile, elfClock, t, v, Ahead' \cup RowsIn(v.out))
  BY <1>1, InvFacts, IdleSafe
<1> QED
  BY <1>3, <1>4, BecomesInv

-----------------------------------------------------------------------------
(* The theorem.                                                              *)

LEMMA ElfInitInv == ElfInit /\ ElfAssumption => ElfInv
<1> SUFFICES ASSUME ElfInit, ElfAssumption PROVE ElfInv
  OBVIOUS
<1>1. elfClock \in Nat /\ elfFile \in ElfFileState /\ FilesOK(elfFile, elfClock)
  <2>1. \A f \in ElfFiles : elfFile[f].created = 0 /\ elfFile[f].v = 0 /\ Len(Versions[f]) \in Nat
    BY DEF ElfInit, ElfAssumption
  <2>2. FilesOK(elfFile, elfClock) /\ elfClock \in Nat
    BY <2>1 DEF FilesOK, ElfInit
  <2> QED
    BY <2>2 DEF ElfInit, ElfFileState
<1>2. ASSUME NEW t \in ElfTypes, NEW D
      PROVE  elfWork[t] \in ElfTask /\ Len(elfWork[t].out) <= 1
             /\ WorkerSafe(elfFile, elfClock, t, elfWork[t], D)
  <2>1. elfWork[t] = [Idle EXCEPT !.pc = "off"]
    <3>1. elfWork[t] = Idle
      BY DEF ElfInit
    <3>2. PICK v : v = [Idle EXCEPT !.pc = "off"]
      OBVIOUS
    <3>3. Idle = v
      BY <3>2 DEF Idle
    <3> QED
      BY <3>1, <3>2, <3>3
  <2> QED
    BY <1>1, <2>1, IdleSafe
<1>3. ASSUME NEW t \in ElfTypes
      PROVE  elfStored[t] \in ElfCursor /\ CursorSafe(elfFile, elfClock, elfStored[t], t, Over)
  BY <1>1, FreshSafe DEF ElfInit
<1>4. elfStored \in [ElfTypes -> ElfCursor] /\ elfWork \in [ElfTypes -> ElfTask]
  BY <1>2, <1>3 DEF ElfInit
<1>5. elfBridge = <<>> /\ elfFlight = <<>>
  BY DEF ElfInit
<1>6. elfBridge \in Seq(ElfEntry) /\ elfFlight \in Seq(ElfEntry) /\ Len(elfBridge) <= 1
  BY <1>5, IdleFacts
<1>7. ElfTypeOK
  BY <1>1, <1>2, <1>4, <1>6 DEF ElfTypeOK
<1>8. EntriesSafe(elfFile, elfClock, elfFlight, Over)
      /\ EntriesSafe(elfFile, elfClock, elfBridge, Over \cup RowsIn(elfFlight))
  BY <1>5 DEF EntriesSafe
<1> QED
  BY <1>2, <1>3, <1>7, <1>8 DEF ElfInv

LEMMA ElfInvNext == ElfInv /\ ElfAssumption /\ [ElfNext]_elfVars => ElfInv'
<1> SUFFICES ASSUME ElfInv, ElfAssumption, [ElfNext]_elfVars PROVE ElfInv'
  OBVIOUS
<1>1. CASE UNCHANGED elfVars
  BY <1>1, StillInv DEF elfVars, elfEnv, ElfInv, ElfTypeOK
<1>2. CASE ElfTick \/ ElfSetStop
  <2>1. elfClock \in Nat
    BY DEF ElfInv, ElfTypeOK
  <2>2. UNCHANGED <<elfFile, elfPipe, elfGone, elfWork>> /\ elfClock' \in Nat /\ elfClock <= elfClock'
    BY <1>2, <2>1 DEF ElfTick, ElfSetStop
  <2> QED
    BY <2>2, StillInv
<1>3. CASE ElfRound \/ ElfDiscoveryFails \/ ElfRestart
  BY <1>3, CyclesInv DEF ElfRound
<1>4. CASE ElfPipeline
  BY <1>4, TakeInv, PushInv DEF ElfPipeline
<1>5. CASE \E f \in ElfFiles : ElfPublish(f)
  BY <1>5, PublishInv
<1>6. ASSUME NEW t \in ElfTypes,
             ElfWorker(t) \/ ElfListFails(t) \/ ElfDownloadFails(t) \/ ElfParseFails(t)
      PROVE  ElfInv'
  <2>1. CASE ElfAcquire(t) \/ ElfList(t) \/ ElfDownload(t)
    BY <2>1, AcquireInv, ElfListInv, DownloadsInv
  <2>2. CASE ElfRow(t) \/ ElfFinish(t) \/ ElfPut(t) \/ ElfWorkerEnds(t)
    BY <2>2, RowsAreSafe, FinishInv, PutInv, WorkerEndsInv
  <2>3. CASE ElfListFails(t) \/ ElfDownloadFails(t) \/ ElfParseFails(t)
    BY <2>3, ListFailsInv, FailuresInv
  <2> QED
    BY <1>6, <2>1, <2>2, <2>3 DEF ElfWorker
<1> QED
  BY <1>1, <1>2, <1>3, <1>4, <1>5, <1>6 DEF ElfNext

LEMMA ElfInvIsSound == ElfInv /\ ElfAssumption => NoFileSkipped
<1> SUFFICES ASSUME ElfInv, ElfAssumption, NEW f \in ElfFiles, elfFile[f].v > 0,
                    ~Listable(elfStored[TypeOf[f]], <<f, elfFile[f].created>>)
             PROVE  Outstanding(f) = {}
  BY DEF NoFileSkipped
<1>1. TypeOf[f] \in ElfTypes
  BY DEF ElfAssumption
<1>2. FileIn(elfFile, f, Over)
  BY <1>1, InvFacts DEF CursorSafe
<1> QED
  BY <1>2 DEF FileIn, Outstanding, RowCount, Over

\* No event log file is lost: a committed cursor that hides a file, in its current
\* version, from later listings has its rows pushed, dropped on purpose or abandoned
\* past download_max_age, for any files, types, ties, page sizes and settle windows,
\* whatever is regenerated, fails, is restarted or is in flight meanwhile.
THEOREM FilesNeverSkipped == ElfSpec => []NoFileSkipped
<1>1. ElfInit => ElfInv
  BY ElfInitInv, ElfAssumption
<1>2. ElfInv /\ [ElfNext]_elfVars => ElfInv'
  BY ElfInvNext, ElfAssumption
<1>3. ElfInv => NoFileSkipped
  BY ElfInvIsSound, ElfAssumption
<1> QED
  BY <1>1, <1>2, <1>3, PTL DEF ElfSpec

=============================================================================
