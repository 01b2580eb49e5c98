------------------------------ MODULE ApexLog ------------------------------
(***************************************************************************)
(* The Apex debug log source (src/sf2loki/sources/apexlog_source.py and    *)
(* its client): poll cycles that list the logs after a (StartTime, Id)     *)
(* cursor page by page and download each body.                             *)
(*                                                                         *)
(* A log is its Id, a number; logs become visible in the order of their    *)
(* StartTime and Id.                                                       *)
(***************************************************************************)
EXTENDS Integers, Sequences, FiniteSets, SequencesExt

CONSTANTS
    Logs,          \* the ids of the logs that may appear
    StartTime,     \* [Logs -> StartTime]
    LogsKept,      \* the logs that neither a transform nor sampling drops
    Oversize,      \* the logs longer than cfg.max_body_bytes
    ApxPage,       \* _PAGE_LIMIT
    ApxCarried,    \* _MAX_CARRIED_IDS
    ApxFlightMax,  \* entries the pipeline may be behind
    ApxMaxFaults   \* bound on the faults below

ASSUME ApxAssumption ==
    /\ Logs \subseteq Nat \ {0} /\ IsFiniteSet(Logs) /\ StartTime \in [Logs -> Nat \ {0}]
    /\ LogsKept \subseteq Logs /\ Oversize \subseteq Logs
    /\ ApxPage \in Nat \ {0} /\ ApxCarried \in Nat \ {0}
    /\ ApxFlightMax \in Nat \ {0} /\ ApxMaxFaults \in Nat

VARIABLES
    apxVisible,  \* the logs a listing finds
    apxStored,   \* the committed checkpoint
    apxFlight,   \* entries on their way through the pipeline
    apxSent,     \* the logs that were pushed
    apxPoll,     \* the poll cycle
    apxStalls,   \* _consecutive_stalls
    apxFaults

apxVars == <<apxVisible, apxStored, apxFlight, apxSent, apxPoll, apxStalls, apxFaults>>

\* A watermark of 0 stands for the start of the lookback.
NoWatermark == [wm |-> 0, ids |-> <<>>]
SinceId(c) == IF c.ids = <<>> THEN 0 ELSE Last(c.ids)

\* cur: watermark and window; todo: the new logs of the page, taken oldest first.
NoPoll == [pc |-> "idle", cur |-> NoWatermark, todo |-> {}, full |-> FALSE, emitted |-> FALSE, progress |-> FALSE]

ApxInit ==
    /\ apxVisible = {} /\ apxStored = NoWatermark /\ apxFlight = <<>> /\ apxSent = {}
    /\ apxPoll = NoPoll /\ apxStalls = 0 /\ apxFaults = 0

Earlier(a, b) == StartTime[a] < StartTime[b] \/ (StartTime[a] = StartTime[b] /\ a < b)
ApxTrouble == apxFaults < ApxMaxFaults /\ apxFaults' = apxFaults + 1

ApxAppear(m) ==
    /\ m \notin apxVisible /\ \A a \in apxVisible : Earlier(a, m)
    /\ apxVisible' = apxVisible \cup {m}
    /\ UNCHANGED <<apxStored, apxFlight, apxSent, apxPoll, apxStalls, apxFaults>>

ApxPush ==
    /\ apxFlight # <<>>
    /\ apxSent' = apxSent \cup (apxFlight[1].logs)
    /\ apxStored' = apxFlight[1].token
    /\ apxFlight' = Tail(apxFlight)
    /\ UNCHANGED <<apxVisible, apxPoll, apxStalls, apxFaults>>

\* The process dies, and a new one starts.
ApxCrash ==
    /\ ApxTrouble
    /\ apxPoll' = NoPoll /\ apxFlight' = <<>> /\ apxStalls' = 0
    /\ UNCHANGED <<apxVisible, apxStored, apxSent>>

\* The cycle goes on as p.
Polls(p) == apxPoll' = p /\ UNCHANGED <<apxVisible, apxStored, apxSent>>

ApxBegin ==
    /\ apxPoll.pc = "idle"
    /\ Polls([NoPoll EXCEPT !.pc = "list", !.cur = apxStored])
    /\ UNCHANGED <<apxFlight, apxStalls, apxFaults>>

\* StartTime > since OR (StartTime = since AND Id > since_id) ORDER BY StartTime, Id LIMIT.
AfterCursor(c) ==
    {m \in apxVisible : IF SinceId(c) # 0 THEN StartTime[m] > c.wm \/ (StartTime[m] = c.wm /\ m > SinceId(c))
                        ELSE StartTime[m] >= c.wm}

\* The first ApxPage logs of S.
OldestLogs(S) == {m \in S : Cardinality({a \in S : Earlier(a, m)}) < ApxPage}

ApxList ==
    LET page == OldestLogs(AfterCursor(apxPoll.cur))
        new == {m \in page : ~Contains(apxPoll.cur.ids, m)}
        full == Cardinality(page) >= ApxPage IN
    /\ apxPoll.pc = "list"
    /\ apxStalls' = IF new # {} THEN 0 ELSE IF full THEN apxStalls + 1 ELSE apxStalls
    /\ Polls(IF new = {} THEN [apxPoll EXCEPT !.pc = "end"]
             ELSE [apxPoll EXCEPT !.pc = "logs", !.todo = new, !.full = full, !.progress = TRUE])
    /\ UNCHANGED <<apxFlight, apxFaults>>

\* The cursor after log m: its StartTime and the rolling window of ids.
CursorAfter(c, m) ==
    LET all == Append(c.ids, m) IN
    [wm |-> StartTime[m], ids |-> IF Len(all) > ApxCarried THEN Tail(all) ELSE all]

\* Log m is the next one of the page.
NextLog(m) == apxPoll.pc = "logs" /\ m \in apxPoll.todo /\ \A a \in apxPoll.todo \ {m} : Earlier(m, a)

AfterLog(m, emitted) ==
    LET rest == apxPoll.todo \ {m} IN
    [apxPoll EXCEPT !.cur = CursorAfter(@, m), !.emitted = @ \/ emitted, !.todo = rest,
                    !.pc = IF rest # {} THEN "logs" ELSE IF apxPoll.full THEN "list" ELSE "end"]

\* A dropped log moves the cursor and emits nothing.
ApxDrop(m) ==
    /\ NextLog(m) /\ m \notin LogsKept
    /\ Polls(AfterLog(m, FALSE))
    /\ UNCHANGED <<apxFlight, apxStalls, apxFaults>>

Emits(m, c) == apxFlight' = Append(apxFlight, [logs |-> {m}, token |-> c])

\* Its body, or the metadata alone if it is too long or the download fails.
ApxEmit(m) ==
    /\ NextLog(m) /\ m \in LogsKept /\ Len(apxFlight) < ApxFlightMax
    /\ Emits(m, CursorAfter(apxPoll.cur, m)) /\ Polls(AfterLog(m, TRUE))
    /\ UNCHANGED <<apxStalls, apxFaults>>

\* download_body may answer REQUEST_LIMIT_EXCEEDED; an oversize log is not asked for.
BodyMayThrottle(m) == NextLog(m) /\ m \in LogsKept \ Oversize

ApxAbortsBreaks ==
    /\ ApxTrouble
    /\ \E m \in Logs : /\ BodyMayThrottle(m)
                       /\ Polls([apxPoll EXCEPT !.pc = "end", !.cur = CursorAfter(@, m)])
    /\ UNCHANGED <<apxFlight, apxStalls>>
\* A failed listing or a throttled body: the cycle is over at once.
ApxAborts ==
    /\ apxPoll.pc = "list" \/ \E m \in Logs : BodyMayThrottle(m)
    /\ ApxTrouble
    /\ Polls(NoPoll)
    /\ UNCHANGED <<apxFlight, apxStalls>>

\* Stop is seen before the next log.
ApxStops ==
    /\ apxPoll.pc = "logs" /\ ApxTrouble
    /\ Polls(NoPoll)
    /\ UNCHANGED <<apxFlight, apxStalls>>

\* The cursor moved and no entry carries it.
BareTokenNever == FALSE
BareToken == apxPoll.progress /\ ~apxPoll.emitted

ApxEnd ==
    /\ apxPoll.pc = "end" /\ Len(apxFlight) < ApxFlightMax
    /\ apxFlight' = IF BareToken THEN Append(apxFlight, [logs |-> {}, token |-> apxPoll.cur]) ELSE apxFlight
    /\ Polls(NoPoll)
    /\ UNCHANGED <<apxStalls, apxFaults>>

ApxStep == ApxList \/ (\E m \in Logs : ApxDrop(m) \/ ApxEmit(m)) \/ ApxEnd
ApxNext ==
    \/ ApxBegin \/ ApxStep \/ ApxPush \/ ApxCrash \/ ApxAborts \/ ApxStops
    \/ \E m \in Logs : ApxAppear(m)

\* The poll timer fires, a cycle runs on, the pipeline delivers.
ApxFairness == WF_apxVars(ApxBegin) /\ WF_apxVars(ApxStep) /\ WF_apxVars(ApxPush)
ApxSpec == ApxInit /\ [][ApxNext]_apxVars /\ ApxFairness

-----------------------------------------------------------------------------
\* The committed cursor has passed log m.
LogPassed(m) == m \notin AfterCursor(apxStored)

\* The committed cursor never passes a log that should have been pushed and was
\* not: not in a tie larger than a page, after dropped logs, an aborted or stopped
\* cycle, a crash, or a cycle begun while entries are in flight.
NoLogSkipped == \A m \in apxVisible \cap LogsKept : LogPassed(m) => m \in apxSent

\* Every visible log is passed again and again, a dropped one too.
EveryLogSettled == \A m \in Logs : []<>(m \notin apxVisible \/ LogPassed(m))

\* The (StartTime, Id) cursor makes progress: a full page never consists of logs
\* that were seen already, which the code takes for a stall.
NeverStalls == apxStalls = 0

\* The cursor of the Apex logs neither skips nor stalls.
LogCursorSound == NoLogSkipped /\ NeverStalls

=============================================================================
