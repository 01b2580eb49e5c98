------------------------------ MODULE LokiSink ------------------------------
(***************************************************************************)
(* One batch on its way through the Loki sink                              *)
(* (src/sf2loki/sinks/loki/sink.py, LokiSink.push and _post): attempts,    *)
(* the splitting of a rejected batch, what is dropped, and the pipeline's  *)
(* retry of the whole batch.  The recursion of push is the stack of the    *)
(* ranges still to be sent.                                                *)
(*                                                                         *)
(* CapLine is the line cap applied before encoding (shaping.py, cap_line): *)
(* a line is the sequence of the widths of its characters in UTF-8.        *)
(***************************************************************************)
EXTENDS Integers, Sequences, SequencesExt, FiniteSetsExt

CONSTANTS
    MaxEntries,   \* bound: entries of the batch
    TooMany,      \* Loki answers 413 from this many entries on
    MaxAttempts,  \* _MAX_ATTEMPTS
    MaxSkFaults,  \* bound on attempts Loki or the network fails
    LineLimits,   \* values of batch.max_line_bytes
    Marker,       \* bytes of the truncation marker
    MaxChars      \* bound: characters of a line

ASSUME LokiSinkAssumption ==
    /\ MaxEntries \in Nat \ {0} /\ TooMany \in Nat \ {0, 1} /\ MaxAttempts \in Nat \ {0}
    /\ MaxSkFaults \in Nat
    /\ LineLimits \subseteq Nat /\ Marker \in Nat \ {0} /\ MaxChars \in Nat

VARIABLES
    entries,   \* len(batch.entries)
    poison,    \* the entries Loki refuses even alone
    ranges,    \* the ranges of the batch still to be sent, the first one now
    attempts,  \* attempts made for the first range
    at,        \* where the push is
    stored,    \* the entries Loki has
    dropped,   \* [entries -> times loki_entries_dropped counted it]
    pushes,    \* calls of push by the pipeline
    posts,     \* requests this push has concluded
    skFaults,
    line, limit, capped   \* a line of the batch, its cap, and what _cap_lines made of it

skVars == <<entries, poison, ranges, attempts, at, stored, dropped, pushes, posts,
            skFaults, line, limit, capped>>
batchVars == <<entries, poison, line, limit>>

SkInit ==
    /\ entries \in 1..MaxEntries
    /\ poison \in SUBSET (1..entries)
    /\ ranges = <<>> /\ attempts = 0 /\ at = "called"
    /\ stored = {} /\ dropped = [e \in 1..entries |-> 0]
    /\ pushes = 0 /\ posts = 0 /\ skFaults = 0
    /\ \/ entries < 3 /\ limit \in LineLimits /\ line \in BoundedSeq({1, 3}, MaxChars)
       \/ entries >= 3 /\ limit = 0 /\ line = <<>>
    /\ capped = line

(* Line cap *)

\* The bytes of a line, each told apart by its character and its place in it.
BytesOf(l) == UNION {{i} \X (1..l[i]) : i \in DOMAIN l}
Bytes(l)   == Cardinality(BytesOf(l))

\* encoded[:n].decode(errors="ignore"): the characters that fit whole.
Cut(l, n) == SubSeq(l, 1, Max({i \in 0..Len(l) : Bytes(SubSeq(l, 1, i)) <= n}))

\* Mutant: the marker is not part of the byte budget.
CapLineBeyond(l, n) == IF Bytes(l) <= n THEN l ELSE Append(Cut(l, n), Marker)
\* A cap of 0 disables it; a marker that does not fit is left out.
CapLine(l, n) ==
    IF n <= 0 \/ Bytes(l) <= n THEN l
    ELSE IF n - Marker <= 0 THEN Cut(l, n)
    ELSE Append(Cut(l, n - Marker), Marker)

\* _cap_lines, in place, at the head of every push.
CapLines == capped' = CapLine(capped, limit)

(* push *)

Whole == <<1, entries>>
Members(r) == r[1]..r[2]
Single(r) == r[1] = r[2]

\* What Loki refuses: too large a request, or one with a poison entry.
Refused(r) == Cardinality(Members(r)) >= TooMany \/ Members(r) \cap poison # {}

\* The pipeline calls push with the batch, for the first time or again.
SkPush ==
    /\ at = "called" /\ pushes <= MaxSkFaults
    /\ pushes' = pushes + 1
    /\ CapLines
    /\ ranges' = <<Whole>> /\ attempts' = 0 /\ posts' = 0
    /\ at' = "posting"
    /\ UNCHANGED <<batchVars, stored, dropped, skFaults>>

\* A range is settled: the next one, or the push returns.
Proceed(rest) ==
    /\ ranges' = rest /\ attempts' = 0
    /\ posts' = posts + 1
    /\ at' = IF rest = <<>> THEN "delivered" ELSE "posting"
    /\ IF rest = <<>> THEN UNCHANGED capped ELSE CapLines

\* 2xx
SkAccepted ==
    /\ at = "posting" /\ ~Refused(Head(ranges))
    /\ stored' = stored \cup Members(Head(ranges))
    /\ Proceed(Tail(ranges))
    /\ UNCHANGED <<batchVars, dropped, pushes, skFaults>>

\* mid = len // 2
Halves(r) == LET mid == (r[1] + r[2] - 1) \div 2 IN <<<<r[1], mid>>, <<mid + 1, r[2]>>>>

\* 400 or 413 for several entries: split.  Loki may have kept the sound ones.
SkSplit ==
    /\ at = "posting" /\ Refused(Head(ranges)) /\ ~Single(Head(ranges))
    /\ stored' \in {stored, stored \cup (Members(Head(ranges)) \ poison)}
    /\ Proceed(Halves(Head(ranges)) \o Tail(ranges))
    /\ UNCHANGED <<batchVars, dropped, pushes, skFaults>>

\* RetryableSinkError leaves every level of the recursion; the pipeline calls again.
Retryable == at' = "called" /\ ranges' = <<>> /\ attempts' = 0

\* Mutant: the refusal of one half ends the push.
RemainingNone == <<>>
\* What is left to send after a half was dropped.
Remaining == Tail(ranges)

\* The single entry refused is half of a batch that was split.
Absorbs == entries > 1

\* Mutant: it is raised to the pipeline as an error to retry.
SkDropRaises ==
    /\ at = "posting" /\ Refused(Head(ranges)) /\ Single(Head(ranges)) /\ Absorbs
    /\ Retryable
    /\ UNCHANGED <<batchVars, stored, dropped, pushes, posts, skFaults, capped>>
\* A refused single entry is dropped and counted, and the rest goes on.
SkDrop ==
    /\ at = "posting" /\ Refused(Head(ranges)) /\ Single(Head(ranges)) /\ Absorbs
    /\ dropped' = [e \in 1..entries |-> dropped[e] + IF e \in Members(Head(ranges)) THEN 1 ELSE 0]
    /\ Proceed(Remaining)
    /\ UNCHANGED <<batchVars, stored, pushes, skFaults>>

\* PermanentSinkError: the batch is that one entry.
SkPermanent ==
    /\ at = "posting" /\ Refused(Head(ranges)) /\ Single(Head(ranges)) /\ ~Absorbs
    /\ at' = "refused" /\ ranges' = <<>>
    /\ UNCHANGED <<batchVars, attempts, stored, dropped, pushes, posts, skFaults, capped>>

\* 429, 5xx or a transport error, the answer of an accepted request lost included:
\* a further attempt while there are any.
SkTransient ==
    /\ at = "posting" /\ skFaults < MaxSkFaults /\ skFaults' = skFaults + 1
    /\ \/ UNCHANGED stored
       \/ ~Refused(Head(ranges)) /\ stored' = stored \cup Members(Head(ranges))
    /\ IF attempts + 1 < MaxAttempts
         THEN attempts' = attempts + 1 /\ UNCHANGED <<at, ranges>>
         ELSE Retryable
    /\ UNCHANGED <<batchVars, dropped, pushes, posts, capped>>

\* 401, 403, 404 or an unexpected status: not attempted again here.
SkOtherStatus ==
    /\ at = "posting" /\ skFaults < MaxSkFaults /\ skFaults' = skFaults + 1
    /\ Retryable
    /\ UNCHANGED <<batchVars, stored, dropped, pushes, posts, capped>>

SkStep == SkPush \/ SkAccepted \/ SkSplit \/ SkDrop \/ SkPermanent
SkNext == SkStep \/ SkTransient \/ SkOtherStatus

\* A push goes on; faults, which are bounded, need not happen.
SkFairness == WF_skVars(SkNext)

SkSpec == SkInit /\ [][SkNext]_skVars /\ SkFairness

-----------------------------------------------------------------------------

\* A push that returns accounts for every entry: Loki has it, or it is poison and
\* was counted as dropped, whatever was split, lost, retried or dropped beside it.
PushAccounts ==
    at = "delivered" =>
        \A e \in 1..entries : IF e \in poison THEN dropped[e] > 0 ELSE e \in stored

\* loki_entries_dropped: only entries Loki refuses alone are counted, each at most
\* once per call of push (a retry after a partial push counts them again).
DropsCounted ==
    \A e \in 1..entries : dropped[e] <= IF e \in poison THEN pushes ELSE 0

\* Splitting is cheap: n entries take at most 2n - 1 requests, retries aside.
SplitBounded == posts <= 2 * entries - 1

\* What a push does to its batch, with any poison in it: nothing sound is lost, no drop
\* goes uncounted, and the search for the poison is bounded.
PushSound == PushAccounts /\ DropsCounted /\ SplitBounded

\* One push or another gets through: the batch is delivered or refused in the end.
PushSettles == (at = "posting") ~> (at \in {"delivered", "refused"})

\* cap_line: what is sent fits the limit, on a character boundary, keeps as much as
\* fits beside the marker, and capping again in a split or a retry changes nothing.
LineCapped ==
    (at = "posting" /\ limit > 0) =>
        /\ Bytes(capped) <= limit
        /\ Bytes(line) <= limit <=> capped = line
        /\ capped # line => \E i \in 0..Len(line) - 1 :
              /\ capped = IF limit <= Marker THEN SubSeq(line, 1, i)
                          ELSE Append(SubSeq(line, 1, i), Marker)
              /\ Bytes(capped) + line[i + 1] > limit
=============================================================================
