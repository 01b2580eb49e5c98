--------------------------- MODULE EventLogObjects ---------------------------
(***************************************************************************)
(* The event log objects source                                            *)
(* (src/sf2loki/sources/eventlog_objects_source.py): one object, polled in *)
(* cycles.  An ordinary object is read oldest first, page by page; a big   *)
(* object can only be read newest first, so a cycle sweeps its whole       *)
(* window before it emits anything.                                        *)
(*                                                                         *)
(* A row is its Id, a number.  The pipeline behind the generator pushes    *)
(* and commits in order, some entries behind (flight); a cycle begins from *)
(* the stored cursor, whatever is still in flight.                         *)
(***************************************************************************)
EXTENDS Integers, Sequences, FiniteSets

CONSTANTS
    Rows,        \* the rows that may appear
    Ts,          \* [Rows -> their timestamps]
    Kept,        \* the rows that neither a transform nor sampling drops
    Page,        \* _PAGE_LIMIT
    Carried,     \* _MAX_CARRIED_IDS
    Cap,         \* obj.max_catchup_records; 0 is unbounded
    FlightMax,   \* entries the pipeline may be behind
    RowFaults,   \* which of the faults below may happen
    MaxRowTrouble  \* bound on them

RowFaultKinds == {"query", "stop", "crash", "garbage", "tie"}

ASSUME RowsAssumption ==
    /\ Rows \subseteq Nat \ {0} /\ IsFiniteSet(Rows)
    /\ Ts \in [Rows -> Nat \ {0}] /\ Kept \subseteq Rows
    /\ Page \in Nat \ {0} /\ Carried \in Nat /\ Carried > Page
    /\ Cap \in Nat /\ FlightMax \in Nat \ {0}
    /\ RowFaults \subseteq RowFaultKinds /\ MaxRowTrouble \in Nat

VARIABLES
    big,        \* obj.big_object
    visible,    \* the rows that a query finds
    delivered,  \* the rows that were pushed
    stored,     \* the committed cursor
    flight,     \* entries on their way through the pipeline
    pc,         \* where the cycle is
    cursor,     \* the cycle's watermark and window
    first,      \* the cursor it began with
    emitted,    \* emitted_any
    todo,       \* the fetched rows that are still to be emitted
    full,       \* the page was full
    drain,      \* the state of a big object's sweep
    rowTrouble  \* faults so far

cycleVars == <<pc, cursor, first, emitted, todo, full, drain>>
rowVars == <<big, visible, delivered, stored, flight, cycleVars, rowTrouble>>

\* A watermark of 0 stands for the lookback, which is before every row.
NoCursor == [wm |-> 0, ids |-> <<>>]

\* Nothing swept yet: no rows, no upper bound, no tie to escape from.
NoDrain == [collected |-> {}, upper |-> 0, exclusive |-> FALSE, tie |-> 0, tieIds |-> {}]

Elems(s) == {s[i] : i \in DOMAIN s}
LastId(c) == IF c.ids = <<>> THEN 0 ELSE c.ids[Len(c.ids)]

\* ORDER BY ts, Id.
Before(q, r) == Ts[q] < Ts[r] \/ (Ts[q] = Ts[r] /\ q < r)

RowInit ==
    /\ big \in BOOLEAN
    /\ visible = {} /\ delivered = {} /\ stored = NoCursor /\ flight = <<>>
    /\ pc = "idle" /\ cursor = NoCursor /\ first = NoCursor /\ emitted = FALSE
    /\ todo = {} /\ full = FALSE /\ drain = NoDrain /\ rowTrouble = 0

-----------------------------------------------------------------------------
RowTrouble(f) ==
    /\ f \in RowFaults /\ rowTrouble < MaxRowTrouble
    /\ rowTrouble' = rowTrouble + 1

\* A row becomes visible.  Rows appear in the order of their timestamps and,
\* unless "tie" is on, rows with the same timestamp in the order of their ids.
Appear(r) ==
    /\ r \notin visible
    /\ \A q \in visible : IF "tie" \in RowFaults THEN Ts[q] <= Ts[r] ELSE Before(q, r)
    /\ visible' = visible \cup {r}
    /\ UNCHANGED <<big, delivered, stored, flight, cycleVars, rowTrouble>>

\* The pipeline pushes the oldest entry, then commits its token.
Push ==
    /\ flight # <<>>
    /\ flight[1].row # 0 /\ flight[1].row \notin delivered
    /\ delivered' = delivered \cup {flight[1].row}
    /\ UNCHANGED <<big, visible, stored, flight, cycleVars, rowTrouble>>

CommitToken ==
    /\ flight # <<>>
    /\ flight[1].row \in delivered \cup {0}
    /\ stored' = flight[1].token
    /\ flight' = Tail(flight)
    /\ UNCHANGED <<big, visible, delivered, cycleVars, rowTrouble>>

-----------------------------------------------------------------------------
(***************************************************************************)
(* A poll cycle.                                                           *)
(***************************************************************************)

BeginWith(c) ==
    /\ cursor' = c /\ first' = c
    /\ emitted' = FALSE
    /\ pc' = IF big THEN "drain" ELSE "query"
    /\ drain' = NoDrain
    /\ UNCHANGED <<big, visible, delivered, stored, flight, todo, full>>

Begin == pc = "idle" /\ BeginWith(stored) /\ UNCHANGED rowTrouble

\* The stored watermark does not parse: fall back to the lookback, and keep the ids.
BeginGarbage ==
    /\ pc = "idle" /\ stored # NoCursor
    /\ RowTrouble("garbage")
    /\ BeginWith([stored EXCEPT !.wm = 0])

EndCycle ==
    /\ pc' = "idle" /\ cursor' = NoCursor /\ first' = NoCursor /\ emitted' = FALSE
    /\ todo' = {} /\ full' = FALSE /\ drain' = NoDrain

\* The WHERE clause of an ordinary object.
Matches ==
    {r \in visible :
        IF LastId(cursor) # 0
        THEN Ts[r] > cursor.wm \/ (Ts[r] = cursor.wm /\ r > LastId(cursor))
        ELSE Ts[r] >= cursor.wm}

\* The first Page rows of S.
OldestPage(S) == {r \in S : Cardinality({q \in S : Before(q, r)}) < Page}

\* One page, oldest first.  Without new rows the cycle is over.
Query ==
    LET page == OldestPage(Matches)
        new == page \ Elems(cursor.ids) IN
    /\ pc = "query"
    /\ todo' = new /\ full' = (Cardinality(page) >= Page)
    /\ pc' = IF new = {} THEN "end" ELSE "emit"
    /\ UNCHANGED <<big, visible, delivered, stored, flight, cursor, first, emitted, drain,
                   rowTrouble>>

\* SoqlError or SoqlThrottledError: the cycle ends, what was emitted stays.
QueryFails ==
    /\ pc \in {"query", "drain"}
    /\ RowTrouble("query")
    /\ EndCycle
    /\ UNCHANGED <<big, visible, delivered, stored, flight>>

\* The last n elements of s.
LastN(s, n) == SubSeq(s, IF Len(s) > n THEN Len(s) - n + 1 ELSE 1, Len(s))

\* _emit_record: the cursor after row r.
Advance(c, r) == [wm |-> Ts[r], ids |-> LastN(Append(c.ids, r), Carried)]

\* Which row comes next: an ordinary page is in the order of the query, the rows
\* of a sweep are sorted by timestamp only.
IsNext(r) ==
    \A q \in todo \ {r} : IF big THEN Ts[r] <= Ts[q] ELSE Before(r, q)

Emit(r) ==
    /\ pc = "emit" /\ r \in todo /\ IsNext(r)
    /\ cursor' = Advance(cursor, r)
    /\ todo' = todo \ {r}
    /\ pc' = IF todo # {r} THEN "emit" ELSE IF ~big /\ full THEN "query" ELSE "end"
    /\ \/ /\ r \in Kept /\ Len(flight) < FlightMax
          /\ flight' = Append(flight, [row |-> r, token |-> Advance(cursor, r)])
          /\ emitted' = TRUE
       \/ /\ r \notin Kept
          /\ UNCHANGED <<flight, emitted>>
    /\ UNCHANGED <<big, visible, delivered, stored, first, full, drain, rowTrouble>>

\* Mutant: a cycle whose rows were all dropped leaves no token.
NeedsTokenNever == FALSE
\* The cursor moved and nothing was emitted: a bare checkpoint records it.
NeedsToken == ~emitted /\ cursor # first

End ==
    /\ pc = "end"
    /\ \/ /\ NeedsToken /\ Len(flight) < FlightMax
          /\ flight' = Append(flight, [row |-> 0, token |-> cursor])
       \/ /\ ~NeedsToken
          /\ UNCHANGED flight
    /\ EndCycle
    /\ UNCHANGED <<big, visible, delivered, stored, rowTrouble>>

-----------------------------------------------------------------------------
(***************************************************************************)
(* _drain_big_object: newest first, the upper bound ratchets down.         *)
(***************************************************************************)

DrainMatches ==
    {r \in visible :
        /\ Ts[r] >= cursor.wm
        /\ IF drain.tie # 0 THEN Ts[r] = drain.tie /\ r \notin drain.tieIds
           ELSE \/ drain.upper = 0
                \/ Ts[r] < drain.upper
                \/ Ts[r] = drain.upper /\ ~drain.exclusive}

\* The pages that ORDER BY ts DESC LIMIT Page may return for S.
NewestPages(S) ==
    {p \in SUBSET S :
        /\ Cardinality(p) = IF Cardinality(S) < Page THEN Cardinality(S) ELSE Page
        /\ \A q \in p, r \in S \ p : Ts[r] <= Ts[q]}

\* What the memory bound may leave of S: the Cap oldest ones.
Retained(S) ==
    {p \in SUBSET S :
        /\ Cardinality(p) = IF Cap # 0 /\ Cardinality(S) > Cap THEN Cap ELSE Cardinality(S)
        /\ \A q \in p, r \in S \ p : Ts[q] <= Ts[r]}

BelowTie(d) == [d EXCEPT !.upper = d.tie, !.exclusive = TRUE, !.tie = 0, !.tieIds = {}]

Oldest(p) == CHOOSE t \in {Ts[r] : r \in p} : \A r \in p : t <= Ts[r]

\* The sweep is over: sort what it retained and emit what the window does not hold.
DrainDone(kept) ==
    /\ todo' = kept \ Elems(cursor.ids)
    /\ pc' = IF kept \subseteq Elems(cursor.ids) THEN "end" ELSE "emit"
    /\ drain' = NoDrain

\* A short page ends the sweep.  So does a full one without new rows, unless it is
\* all of one timestamp and the tie escape has not been tried.
SweepOver(page, new, short) ==
    \/ drain.tie = 0 /\ short
    \/ new = {} /\ ~short /\ (drain.tie # 0 \/ \E q, r \in page : Ts[q] # Ts[r])

\* One page of the sweep, in one of the code's cases.
DrainPage(page, kept) ==
    LET new == page \ drain.collected
        short == Cardinality(page) < Page
        d == [drain EXCEPT !.collected = kept] IN
    \/ /\ drain.tie # 0 /\ short
       /\ drain' = BelowTie(d) /\ UNCHANGED <<pc, todo>>
    \/ /\ drain.tie # 0 /\ ~short /\ new # {}
       /\ drain' = [d EXCEPT !.tieIds = @ \cup new] /\ UNCHANGED <<pc, todo>>
    \/ /\ drain.tie = 0 /\ ~short /\ \A q, r \in page : Ts[q] = Ts[r]
       /\ drain' = [d EXCEPT !.tie = Oldest(page), !.tieIds = page] /\ UNCHANGED <<pc, todo>>
    \/ /\ drain.tie = 0 /\ ~short /\ new # {} /\ \E q, r \in page : Ts[q] # Ts[r]
       /\ drain' = [d EXCEPT !.upper = Oldest(page), !.exclusive = FALSE]
       /\ UNCHANGED <<pc, todo>>
    \/ /\ SweepOver(page, new, short)
       /\ DrainDone(kept)

DrainStep ==
    /\ pc = "drain"
    /\ \E page \in NewestPages(DrainMatches) :
          \E kept \in Retained(drain.collected \cup page) : DrainPage(page, kept)
    /\ UNCHANGED <<big, visible, delivered, stored, flight, cursor, first, emitted, full,
                   rowTrouble>>

-----------------------------------------------------------------------------
\* Mutant: a sweep that is stopped emits what it has.
StopCycleEmits ==
    /\ pc = "drain"
    /\ DrainDone(drain.collected)
    /\ UNCHANGED <<cursor, first, emitted, full>>
\* stop, between two rows or two pages: the rest of the cycle is given up.
StopCycle == pc \in {"emit", "drain"} /\ EndCycle

Stop ==
    /\ RowTrouble("stop")
    /\ StopCycle
    /\ UNCHANGED <<big, visible, delivered, stored, flight>>

\* The process dies.
Crash ==
    /\ RowTrouble("crash")
    /\ pc # "idle" \/ flight # <<>>
    /\ EndCycle
    /\ flight' = <<>>
    /\ UNCHANGED <<big, visible, delivered, stored>>

CycleStep == Begin \/ Query \/ (\E r \in Rows : Emit(r)) \/ End \/ DrainStep

RowNext ==
    \/ \E r \in Rows : Appear(r)
    \/ CycleStep \/ Push \/ CommitToken
    \/ BeginGarbage \/ QueryFails \/ Stop \/ Crash

\* The source goes on polling and the pipeline goes on taking entries.
RowSpec ==
    /\ RowInit /\ [][RowNext]_rowVars
    /\ WF_rowVars(CycleStep) /\ WF_rowVars(Push) /\ WF_rowVars(CommitToken)

-----------------------------------------------------------------------------
(***************************************************************************)
(* Properties.                                                             *)
(***************************************************************************)

\* The queries from cursor c on do not bring row r.
Passed(c, r) ==
    \/ Ts[r] < c.wm
    \/ Ts[r] = c.wm /\ r \in Elems(c.ids)
    \/ Ts[r] = c.wm /\ ~big /\ r <= LastId(c)

\* The stored cursor never passes a row that should have been pushed and was not,
\* however pages, ties, dropped rows, evictions, reloads of an older cursor,
\* failed queries, stops and crashes are interleaved.
NoRowSkipped == \A r \in visible \cap Kept : Passed(stored, r) => r \in delivered

\* Every visible row is passed in the end, a dropped one too.
EveryRowSettled == \A r \in Rows : r \in visible ~> Passed(stored, r)

=============================================================================
