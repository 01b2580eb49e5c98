---------------------------- MODULE EventLogFile ----------------------------
(***************************************************************************)
(* The event log file source                                               *)
(* (src/sf2loki/sources/eventlogfile_source.py and its client): poll       *)
(* cycles in which one worker per event type, some at a time, lists the    *)
(* type's files from the stored cursor on, downloads them and emits their  *)
(* rows through a bridge of one place.                                     *)
(*                                                                         *)
(* Version v of file f holds the rows 1 .. Versions[f][v].  A daily file   *)
(* is regenerated in place: the same id, a newer CreatedDate, more rows.   *)
(***************************************************************************)
EXTENDS Integers, Sequences, FiniteSets

CONSTANTS
    ElfTypes,        \* the event types
    ElfFiles,        \* the file ids, numbers; the listing is ordered by them
    TypeOf,          \* [ElfFiles -> ElfTypes]
    ElfExplicit,     \* the types that cfg.event_types names
    ElfExcluded,     \* cfg.exclude and the types of categories owned elsewhere
    Versions,        \* [ElfFiles -> the numbers of rows of its versions]
    RowsKept,        \* the <<file, row>>s that no transform or sampling drops
    ElfPage,         \* cfg.page_size
    ElfCarried,      \* _MAX_CARRIED_IDS
    ElfConcurrency,  \* cfg.concurrency
    SettleWindow, MaxAge,     \* cfg.settle_window, cfg.download_max_age
    ElfFlightMax,    \* entries the pipeline may be behind
    ElfMaxTime, ElfMaxFaults  \* bounds

ASSUME ElfAssumption ==
    /\ IsFiniteSet(ElfTypes) /\ ElfFiles \subseteq Nat \ {0} /\ IsFiniteSet(ElfFiles)
    /\ TypeOf \in [ElfFiles -> ElfTypes]
    /\ ElfExplicit \subseteq ElfTypes /\ ElfExcluded \cap ElfExplicit = {}
    /\ Versions \in [ElfFiles -> Seq(Nat)] /\ RowsKept \subseteq ElfFiles \X Nat
    /\ ElfPage \in Nat \ {0} /\ ElfCarried \in Nat /\ ElfConcurrency \in Nat \ {0}
    /\ SettleWindow \in Nat /\ MaxAge \in Nat /\ ElfFlightMax \in Nat \ {0}
    /\ ElfMaxTime \in Nat /\ ElfMaxFaults \in Nat

VARIABLES
    elfClock,   \* the time at Salesforce
    elfFile,    \* [ElfFiles -> [created, v]]; both 0 before the file exists
    elfStored,  \* [ElfTypes -> the committed cursor]
    elfCycle,   \* [on, types, throttled, abort]: _cycle_throttled and throttle_event
    elfWork,    \* [ElfTypes -> the worker of the type]
    elfBridge,  \* the bridge queue, of one place
    elfFlight,  \* entries on their way through the pipeline
    elfSent,    \* the rows that were pushed
    elfGone,    \* the rows of files that were abandoned past download_max_age
    elfStop,
    elfFaults   \* faults so far

elfPipe == <<elfBridge, elfFlight, elfStored, elfSent>>
elfEnv == <<elfClock, elfFile, elfStop>>
elfVars == <<elfEnv, elfPipe, elfCycle, elfWork, elfGone, elfFaults>>

\* The watermark and the <<id, CreatedDate>> window.  0 stands for the start
\* of the lookback, which is before every file.
FreshCursor == [last |-> 0, ids |-> {}]
Row(t, f, i, c) == [type |-> t, row |-> <<f, i>>, token |-> c]
TokenOnly(t, c) == [type |-> t, row |-> <<>>, token |-> c]

\* A worker: now, the cursor it loaded, the current one and the last it yielded,
\* what is left of the listed files, the next row and the rows of the first, and
\* the entry it is putting into the bridge, if any.
Idle == [pc |-> "off", now |-> 0, base |-> FreshCursor, cur |-> FreshCursor,
         last |-> FreshCursor, files |-> {}, row |-> 0, n |-> 0, out |-> <<>>]
NoCycle == [on |-> FALSE, types |-> {}, throttled |-> FALSE, abort |-> FALSE]

ElfInit ==
    /\ elfClock = 1
    /\ elfFile = [f \in ElfFiles |-> [created |-> 0, v |-> 0]]
    /\ elfStored = [t \in ElfTypes |-> FreshCursor]
    /\ elfCycle = NoCycle /\ elfWork = [t \in ElfTypes |-> Idle]
    /\ elfBridge = <<>> /\ elfFlight = <<>> /\ elfSent = {} /\ elfGone = {}
    /\ elfStop = FALSE /\ elfFaults = 0

-----------------------------------------------------------------------------
(***************************************************************************)
(* Salesforce and the pipeline.                                            *)
(***************************************************************************)

\* A file is created, or a daily file regenerated with more rows, now;
\* none is in the last moments of the run, so that all of them settle.
ElfPublish(f) ==
    /\ elfClock + SettleWindow <= ElfMaxTime
    /\ elfFile[f].created < elfClock /\ elfFile[f].v < Len(Versions[f])
    /\ elfFile' = [elfFile EXCEPT ![f] = [created |-> elfClock, v |-> @.v + 1]]
    /\ UNCHANGED <<elfClock, elfStop, elfPipe, elfCycle, elfWork, elfGone, elfFaults>>

ElfTick ==
    /\ elfClock < ElfMaxTime
    /\ elfClock' = elfClock + 1
    /\ UNCHANGED <<elfFile, elfStop, elfPipe, elfCycle, elfWork, elfGone, elfFaults>>

ElfTrouble == elfFaults < ElfMaxFaults /\ elfFaults' = elfFaults + 1

\* The generator hands the bridge's item on; the pipeline pushes and commits in order.
ElfTake ==
    /\ elfBridge # <<>> /\ Len(elfFlight) < ElfFlightMax
    /\ elfFlight' = Append(elfFlight, elfBridge[1]) /\ elfBridge' = <<>>
    /\ UNCHANGED <<elfEnv, elfStored, elfSent, elfCycle, elfWork, elfGone, elfFaults>>

ElfPush ==
    /\ elfFlight # <<>>
    /\ LET e == elfFlight[1] IN
        /\ elfSent' = IF e.row = <<>> THEN elfSent ELSE elfSent \cup {e.row}
        /\ elfStored' = [elfStored EXCEPT ![e.type] = e.token]
    /\ elfFlight' = Tail(elfFlight)
    /\ UNCHANGED <<elfEnv, elfBridge, elfCycle, elfWork, elfGone, elfFaults>>

ElfSetStop ==
    /\ ~elfStop /\ elfStop' = TRUE
    /\ ElfTrouble
    /\ UNCHANGED <<elfClock, elfFile, elfPipe, elfCycle, elfWork, elfGone>>

\* A new process, after a death at any time or after a stop that has drained.
ElfRestart ==
    /\ \/ elfStop /\ ~elfCycle.on /\ elfFlight = <<>> /\ UNCHANGED elfFaults
       \/ ElfTrouble
    /\ elfCycle' = NoCycle /\ elfWork' = [t \in ElfTypes |-> Idle]
    /\ elfBridge' = <<>> /\ elfFlight' = <<>> /\ elfStop' = FALSE
    /\ UNCHANGED <<elfClock, elfFile, elfStored, elfSent, elfGone>>

-----------------------------------------------------------------------------
(***************************************************************************)
(* A cycle and its workers.                                                *)
(***************************************************************************)

Discovered == {TypeOf[f] : f \in {g \in ElfFiles : elfFile[g].v > 0}} \ ElfExcluded

StartCycle(types, throttled) ==
    /\ ~elfCycle.on /\ ~elfStop
    /\ elfCycle' = [on |-> TRUE, types |-> types, throttled |-> throttled, abort |-> FALSE]
    /\ elfWork' = [t \in ElfTypes |-> [Idle EXCEPT !.pc = IF t \in types THEN "queued" ELSE "off"]]
    /\ UNCHANGED <<elfEnv, elfPipe, elfGone>>

\* _resolve_event_types with the wildcard: a failed discovery leaves the explicit types.
ElfBeginCycle == StartCycle(ElfExplicit \cup Discovered, FALSE) /\ UNCHANGED elfFaults
ElfDiscoveryFails == ElfTrouble /\ \E throttled \in BOOLEAN : StartCycle(ElfExplicit, throttled)

Running == {t \in ElfTypes : elfWork[t].pc \notin {"off", "queued"}}

\* Worker t becomes w, and nothing else changes.
Becomes(t, w) ==
    /\ elfWork' = [elfWork EXCEPT ![t] = w]
    /\ UNCHANGED <<elfEnv, elfPipe, elfCycle>>

Loaded(t) == [Idle EXCEPT !.pc = "list", !.now = elfClock, !.base = elfStored[t], !.cur = elfStored[t]]

ElfAcquireWaits(t) ==
    /\ elfWork[t].pc = "queued" /\ ~elfCycle.abort /\ ~elfStop
    /\ Cardinality(Running) < ElfConcurrency
    /\ Becomes(t, Loaded(t))
    /\ UNCHANGED <<elfGone, elfFaults>>
\* A permit is free: skip the type after an abort or a stop, else run it.
ElfAcquire(t) ==
    /\ elfWork[t].pc = "queued"
    /\ Cardinality(Running) < ElfConcurrency
    /\ Becomes(t, IF elfCycle.abort \/ elfStop THEN Idle ELSE Loaded(t))
    /\ UNCHANGED <<elfGone, elfFaults>>

\* A re-listed id is processed if it was so at this CreatedDate or a later one.
IsAlreadyProcessed(m, ids) == \E p \in ids : p[1] = m[1] /\ m[2] <= p[2]

\* CreatedDate >= since ORDER BY CreatedDate, Id LIMIT page_size.
ListedBefore(a, b) == a[2] < b[2] \/ (a[2] = b[2] /\ a[1] < b[1])
FirstListed(S) == {a \in S : Cardinality({b \in S : ListedBefore(b, a)}) < ElfPage}
Listing(t, since) ==
    FirstListed({<<f, elfFile[f].created>> : f \in {g \in ElfFiles :
                    TypeOf[g] = t /\ elfFile[g].v > 0 /\ elfFile[g].created >= since}})

ElfList(t) ==
    /\ elfWork[t].pc = "list"
    /\ Becomes(t, [elfWork[t] EXCEPT !.pc = "files",
         !.files = {m \in Listing(t, elfWork[t].base.last) : ~IsAlreadyProcessed(m, elfWork[t].base.ids)}])
    /\ UNCHANGED <<elfGone, elfFaults>>

\* _append_carried_id: one pair per id, all pairs at the new watermark, and the latest
\* of the older ones, none of which can be listed again.
AppendCarried(ids, m) ==
    LET all == {p \in ids : p[1] # m[1]} \cup {m}
        older == {p \in all : p[2] # m[2]}
    IN {p \in older : Cardinality({q \in older : ListedBefore(p, q)}) < ElfCarried}
       \cup {p \in all : p[2] = m[2]}

Advanced(w, m) == [last |-> m[2], ids |-> AppendCarried(w.cur.ids, m)]
RowCount(f) == Versions[f][elfFile[f].v]
RowsOf(f, n) == {f} \X (1 .. n)

\* The files are taken in the order of the listing; m is the one at hand.
InTurn(w, m) == m \in w.files /\ \A a \in w.files : ~ListedBefore(a, m)
\* The file loop, at the head of an iteration.
AtFile(t, m) == elfWork[t].pc = "files" /\ elfWork[t].out = <<>> /\ InTurn(elfWork[t], m)
NextFile(w, m) == [w EXCEPT !.pc = "files", !.files = @ \ {m}, !.row = 0, !.n = 0]
Return(w) == [w EXCEPT !.pc = "end"]
Unsettled(w, m) == w.now - m[2] < SettleWindow

\* Stop returns, an unsettled file is passed over, a file without rows too;
\* otherwise the body is downloaded as it is now.
ElfDownload(t) ==
    LET w == elfWork[t] IN
    /\ \E m \in w.files :
         LET n == RowCount(m[1]) IN
         /\ AtFile(t, m)
         /\ Becomes(t, IF elfStop THEN Return(w)
                       ELSE IF Unsettled(w, m) \/ n = 0 THEN NextFile(w, m)
                       ELSE [w EXCEPT !.pc = "rows", !.row = 1, !.n = n])
    /\ UNCHANGED <<elfGone, elfFaults>>

FileFailsGoOn(t, w, m, n) ==
    IF w.now - m[2] > MaxAge
    THEN /\ Becomes(t, NextFile([w EXCEPT !.cur = Advanced(w, m)], m))
         /\ elfGone' = elfGone \cup RowsOf(m[1], n)
    ELSE Becomes(t, NextFile(w, m)) /\ UNCHANGED elfGone
\* A failed download or parse: past download_max_age the file is abandoned and
\* counts as processed, otherwise the type is over for this cycle.
FileFails(t, w, m, n) ==
    IF w.now - m[2] > MaxAge
    THEN /\ Becomes(t, NextFile([w EXCEPT !.cur = Advanced(w, m)], m))
         /\ elfGone' = elfGone \cup RowsOf(m[1], n)
    ELSE Becomes(t, Return(w)) /\ UNCHANGED elfGone

ElfDownloadFails(t) ==
    /\ ~elfStop /\ ElfTrouble
    /\ \E m \in elfWork[t].files :
         /\ AtFile(t, m) /\ ~Unsettled(elfWork[t], m)
         /\ FileFails(t, elfWork[t], m, RowCount(m[1]))

ElfParseFails(t) ==
    /\ elfWork[t].pc = "rows" /\ elfWork[t].out = <<>> /\ ~elfStop /\ ElfTrouble
    /\ \E m \in elfWork[t].files :
         InTurn(elfWork[t], m) /\ FileFails(t, elfWork[t], m, elfWork[t].n)

\* REQUEST_LIMIT_EXCEEDED, or any failure of the listing: the type is over.
ElfListFails(t) ==
    /\ \/ elfWork[t].pc = "list"
       \/ ~elfStop /\ \E m \in elfWork[t].files : AtFile(t, m) /\ ~Unsettled(elfWork[t], m)
    /\ ElfTrouble
    /\ \E throttled \in IF elfWork[t].pc = "list" THEN BOOLEAN ELSE {TRUE} :
         elfCycle' = [elfCycle EXCEPT !.throttled = @ \/ throttled]
    /\ elfWork' = [elfWork EXCEPT ![t].pc = "end"]
    /\ UNCHANGED <<elfEnv, elfPipe, elfGone>>

\* One row.  The last one, known by the lookahead, carries the advanced
\* cursor, those before it the cursor from before the file.
TokenOfRow(w, m) == IF w.row = w.n THEN Advanced(w, m) ELSE w.cur

ElfRow(t) ==
    LET w == elfWork[t] IN
    /\ w.pc = "rows" /\ w.out = <<>>
    /\ \E m \in w.files :
         LET c == TokenOfRow(w, m)
             v == IF <<m[1], w.row>> \in RowsKept
                  THEN [w EXCEPT !.out = <<Row(t, m[1], w.row, c)>>, !.last = c] ELSE w IN
         /\ InTurn(w, m)
         /\ Becomes(t, IF elfStop THEN Return(w)
                       ELSE IF w.row < w.n THEN [v EXCEPT !.row = w.row + 1]
                       ELSE NextFile([v EXCEPT !.cur = Advanced(w, m)], m))
    /\ UNCHANGED <<elfGone, elfFaults>>

\* No entry of this cycle carries the final cursor although it has moved.
NeedsFinalToken(w) == w.cur # w.base /\ w.cur # w.last

ElfFinish(t) ==
    LET w == elfWork[t] IN
    /\ w.pc = "files" /\ w.files = {} /\ w.out = <<>>
    /\ Becomes(t, [Return(w) EXCEPT !.out = IF NeedsFinalToken(w) THEN <<TokenOnly(t, w.cur)>> ELSE <<>>])
    /\ UNCHANGED <<elfGone, elfFaults>>

ElfPut(t) ==
    /\ elfWork[t].out # <<>> /\ elfBridge = <<>>
    /\ elfBridge' = elfWork[t].out
    /\ elfWork' = [elfWork EXCEPT ![t].out = <<>>]
    /\ UNCHANGED <<elfEnv, elfFlight, elfStored, elfSent, elfCycle, elfGone, elfFaults>>

\* The worker ends; it aborts the types still queued if this cycle was throttled.
ElfWorkerEnds(t) ==
    /\ elfWork[t].pc = "end" /\ elfWork[t].out = <<>>
    /\ elfWork' = [elfWork EXCEPT ![t] = Idle]
    /\ elfCycle' = [elfCycle EXCEPT !.abort = @ \/ elfCycle.throttled]
    /\ UNCHANGED <<elfEnv, elfPipe, elfGone, elfFaults>>

\* _CYCLE_DONE comes through the bridge after everything else.
ElfCycleDone ==
    /\ elfCycle.on /\ elfBridge = <<>> /\ \A t \in ElfTypes : elfWork[t] = Idle
    /\ elfCycle' = NoCycle
    /\ UNCHANGED <<elfEnv, elfPipe, elfWork, elfGone, elfFaults>>

ElfWorker(t) ==
    \/ ElfAcquire(t) \/ ElfList(t) \/ ElfDownload(t) \/ ElfRow(t)
    \/ ElfFinish(t) \/ ElfPut(t) \/ ElfWorkerEnds(t)
ElfPipeline == ElfTake \/ ElfPush
ElfRound == ElfBeginCycle \/ ElfCycleDone
ElfNext ==
    \/ ElfRound \/ ElfDiscoveryFails \/ ElfPipeline \/ ElfTick \/ ElfSetStop \/ ElfRestart
    \/ \E f \in ElfFiles : ElfPublish(f)
    \/ \E t \in ElfTypes :
        ElfWorker(t) \/ ElfListFails(t) \/ ElfDownloadFails(t) \/ ElfParseFails(t)

\* Each task runs on, the pipeline delivers, the poll timer fires, time passes,
\* and a stopped process is started again.
ElfFairness ==
    /\ WF_elfVars(ElfRound) /\ WF_elfVars(ElfPipeline) /\ WF_elfVars(ElfTick)
    /\ WF_elfVars(ElfRestart /\ elfStop)
    /\ \A t \in ElfTypes : WF_elfVars(ElfWorker(t))
ElfSpec == ElfInit /\ [][ElfNext]_elfVars /\ ElfFairness

-----------------------------------------------------------------------------
\* The next listing finds version m of its file.
Listable(c, m) == m[2] >= c.last /\ ~IsAlreadyProcessed(m, c.ids)

Outstanding(f) ==
    {r \in RowsOf(f, RowCount(f)) \cap RowsKept : r \notin elfSent \cup elfGone}

\* No file is lost: once the committed cursor makes a file, in its current
\* version, invisible to later listings, every row of it has been pushed, or
\* was dropped on purpose or abandoned past download_max_age.
NoFileSkipped ==
    \A f \in ElfFiles :
        (elfFile[f].v > 0 /\ ~Listable(elfStored[TypeOf[f]], <<f, elfFile[f].created>>))
        => Outstanding(f) = {}

\* Fewer files than a page share a CreatedDate.
TiesBelowPage ==
    \A f \in ElfFiles : elfFile[f].v > 0 =>
        Cardinality({g \in ElfFiles : /\ TypeOf[g] = TypeOf[f]
                                      /\ elfFile[g].created = elfFile[f].created}) < ElfPage

\* Every file is settled: a file with rows, at its last version, is again and
\* again behind the committed cursor, however its rows were filtered, the type's
\* other files tie with it, and cycles overlap with entries in flight -
\* provided a page is larger than any tie.
EveryFileSettled ==
    []TiesBelowPage =>
    \A f \in ElfFiles :
        []<>(elfFile[f].v = 0 \/ RowCount(f) = 0 \/ TypeOf[f] \in ElfExcluded
             \/ ~Listable(elfStored[TypeOf[f]], <<f, elfFile[f].created>>))

\* Every poll cycle ends: with a throttled type, types queued behind it, a
\* full bridge, a stop or a failure in any worker.
ElfCyclesEnd == elfCycle.on ~> ~elfCycle.on

\* The source never gets stuck, in a cycle or on a file.
FilesSettle == EveryFileSettled /\ ElfCyclesEnd

=============================================================================
