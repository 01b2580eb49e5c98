------------------------------ MODULE Backfill ------------------------------
(***************************************************************************)
(* The one-shot backfill of event log files (src/sf2loki/backfill.py): a   *)
(* run works through the event types of one org, lists each page by page   *)
(* up to a cutoff, pushes the files in order and commits a cursor after    *)
(* each, in a state file of its own.  Runs are interrupted, fail and are   *)
(* started again, for the same org or for another one.                     *)
(*                                                                         *)
(* Downloads overlap, but their results are taken in file order and a file *)
(* does not change, so a download is the step that takes its result.       *)
(***************************************************************************)
EXTENDS Integers, Sequences, FiniteSets

CONSTANTS
    Orgs, FirstOrg,  \* the configured orgs; the first reads the legacy key
    BfTypes,         \* the resolved event types, a sequence
    BfFiles,         \* the file ids, numbers
    BfOf,            \* [BfFiles -> <<org, type>>]
    BfCreated,       \* [BfFiles -> CreatedDate]
    BfChunks,        \* [BfFiles -> the number of batches its kept rows make]
    BfUntils,        \* the cutoffs runs are given; files from there on are left out
    BfPage,          \* cfg.sources.eventlogfile.page_size
    BfMaxPushFailures,  \* _MAX_CONSECUTIVE_PUSH_FAILURES
    BfMaxFaults      \* bound on the faults below

\* The keys of a single-org deployment name no org.
Legacy == "legacy"
Elements(s) == {s[i] : i \in DOMAIN s}

ASSUME BfAssumption ==
    /\ FirstOrg \in Orgs /\ Legacy \notin Orgs /\ BfTypes \in Seq(Elements(BfTypes))
    /\ BfFiles \subseteq Nat /\ IsFiniteSet(BfFiles)
    /\ BfOf \in [BfFiles -> Orgs \X Elements(BfTypes)]
    /\ BfCreated \in [BfFiles -> Nat \ {0}] /\ BfChunks \in [BfFiles -> Nat]
    /\ BfUntils \subseteq Nat
    /\ BfPage \in Nat \ {0} /\ BfMaxPushFailures \in Nat \ {0} /\ BfMaxFaults \in Nat

VARIABLES
    bfStore,    \* [keys -> cursor], the -backfill state file
    bfRun,      \* the running process
    bfPushed,   \* the <<file, chunk>>s Loki accepted
    bfDropped,  \* the <<file, chunk>>s it rejected for good
    bfFaults

bfVars == <<bfStore, bfRun, bfPushed, bfDropped, bfFaults>>

\* The batches its rows make, after the transforms: _shape_file_rows, _chunk_entries.
Chunks(f) == BfChunks[f]

\* _backfill_checkpoint_key
Key(org, type) == <<org, type>>
BfKeys == (Orgs \cup {Legacy}) \X Elements(BfTypes)

\* _TypeCursor: last_created, 0 for none, and the ids done at it.
NoneDone == [last |-> 0, done |-> {}]
AdvanceCursor(c, f) ==
    [last |-> BfCreated[f], done |-> IF c.last = BfCreated[f] THEN c.done \cup {f} ELSE {f}]
\* The files that cursor c marks as done.
Behind(c, f) == BfCreated[f] < c.last \/ (BfCreated[f] = c.last /\ f \in c.done)

\* types: the types still to do; since, files, full, last: the listing cursor,
\* what is left of the page, and where it ends; chunk: the next chunk of the next
\* file; fails: consecutive push failures; clean: no type was given up.
NoRun == [pc |-> "idle", org |-> FirstOrg, until |-> 0, types |-> <<>>, cursor |-> NoneDone, since |-> 0,
          files |-> {}, full |-> FALSE, last |-> 0, chunk |-> 0, fails |-> 0, clean |-> TRUE, code |-> 0]

Disposed(f) == \A i \in 1 .. Chunks(f) : <<f, i>> \in bfPushed \cup bfDropped

\* A single-org deployment may have left a legacy cursor for the first org.
BfInit ==
    /\ \E old \in {NoneDone} \cup {AdvanceCursor(NoneDone, f) : f \in {g \in BfFiles :
                       BfOf[g] = <<FirstOrg, BfTypes[1]>> /\ Chunks(g) > 0}} :
         LET past == {f \in BfFiles : BfOf[f] = <<FirstOrg, BfTypes[1]>> /\ Behind(old, f)} IN
         /\ bfStore = [k \in BfKeys |-> IF k = <<Legacy, BfTypes[1]>> THEN old ELSE NoneDone]
         /\ bfPushed = UNION {{f} \X (1 .. Chunks(f)) : f \in past}
    /\ bfRun = NoRun /\ bfDropped = {} /\ bfFaults = 0

BfTrouble == bfFaults < BfMaxFaults /\ bfFaults' = bfFaults + 1

\* The process goes on as r; nothing is pushed or committed.
GoesOn(r) == bfRun' = r /\ UNCHANGED <<bfStore, bfPushed, bfDropped>>

BfStart ==
    /\ bfRun.pc = "idle"
    /\ \E org \in Orgs, until \in BfUntils :
         GoesOn([NoRun EXCEPT !.pc = "type", !.org = org, !.until = until, !.types = BfTypes])
    /\ UNCHANGED bfFaults

\* The event types are to be discovered, and that fails: no type, and exit code 0.
BfDiscoveryFails ==
    /\ bfRun.pc = "idle" /\ BfTrouble
    /\ \E org \in Orgs : GoesOn([NoRun EXCEPT !.pc = "exit", !.org = org, !.clean = FALSE])

\* The process dies, anywhere.
BfKill == bfRun.pc # "idle" /\ BfTrouble /\ GoesOn(NoRun)

\* The cursor of the next type; the first org falls back to the legacy key.
BfType ==
    LET r == bfRun
        own == bfStore[Key(r.org, r.types[1])]
        c == IF own = NoneDone /\ r.org = FirstOrg THEN bfStore[<<Legacy, r.types[1]>>] ELSE own IN
    /\ r.pc = "type"
    /\ GoesOn(IF r.types = <<>> THEN [r EXCEPT !.pc = "exit"]
              ELSE [r EXCEPT !.pc = "list", !.cursor = c, !.since = c.last])
    /\ UNCHANGED bfFaults

\* One type is over.
NextType(r) == [r EXCEPT !.pc = "type", !.types = Tail(r.types), !.files = {}, !.since = 0, !.last = 0,
                         !.full = FALSE, !.cursor = NoneDone]
GiveUpType(r) == [NextType(r) EXCEPT !.clean = FALSE]

\* By CreatedDate and id.
Precedes(f, g) == BfCreated[f] < BfCreated[g] \/ (BfCreated[f] = BfCreated[g] /\ f < g)
\* The first BfPage files of S.
FirstPage(S) == {f \in S : Cardinality({g \in S : Precedes(g, f)}) < BfPage}

BfListingAfter(r) == FirstPage({f \in BfFiles : BfOf[f] = <<r.org, r.types[1]>> /\ BfCreated[f] > r.since})
BfListing(r) == FirstPage({f \in BfFiles : BfOf[f] = <<r.org, r.types[1]>> /\ BfCreated[f] >= r.since})

AfterPageAgain(r) == IF r.full THEN [r EXCEPT !.pc = "list", !.full = FALSE, !.last = 0] ELSE NextType(r)
\* After a page: a short one was the last.
AfterPage(r) == IF r.full THEN [r EXCEPT !.pc = "list", !.since = r.last, !.full = FALSE, !.last = 0]
                ELSE NextType(r)

\* What a page leaves to do: not what is cut off at until, nor what is done at the watermark.
Todo(r, page) == {f \in page : BfCreated[f] < r.until /\ ~(BfCreated[f] = r.cursor.last /\ f \in r.cursor.done)}

\* Without a file before until the type is over.  A full page of done files that
\* does not move the listing cursor, to the page's newest file, ends it too.
BfList ==
    LET r == bfRun
        page == BfListing(r)
        Beyond == \A f \in page : BfCreated[f] >= r.until
        Read(newest) == [r EXCEPT !.files = Todo(r, page), !.full = (Cardinality(page) >= BfPage),
                                  !.last = BfCreated[newest]] IN
    /\ r.pc = "list"
    /\ \/ Beyond /\ GoesOn(NextType(r))
       \/ \E newest \in page :
            /\ ~Beyond /\ \A f \in page : ~Precedes(newest, f)
            /\ GoesOn(LET read == Read(newest) IN
                      IF read.files # {} THEN [read EXCEPT !.pc = "file"]
                      ELSE IF read.full /\ read.last = r.since THEN GiveUpType(r)
                      ELSE AfterPage(read))
    /\ UNCHANGED bfFaults

\* A failed listing or download ends the type, not the run.
BfFails ==
    /\ bfRun.pc \in {"list", "file"} /\ BfTrouble
    /\ GoesOn(GiveUpType(bfRun))

\* The files are taken in order; f is the one at hand.
IsNext(r, f) == f \in r.files /\ \A g \in r.files : ~Precedes(g, f)
NextFileOf(r, f) ==
    IF r.files # {f} THEN [r EXCEPT !.pc = "file", !.files = @ \ {f}, !.chunk = 0, !.fails = 0]
    ELSE AfterPage([r EXCEPT !.files = {}, !.chunk = 0, !.fails = 0])

\* The next file's rows; a file with none to push leaves the cursor alone.
BfDownload ==
    /\ bfRun.pc = "file"
    /\ \E f \in BfFiles :
         /\ IsNext(bfRun, f)
         /\ GoesOn(IF Chunks(f) = 0 THEN NextFileOf(bfRun, f) ELSE [bfRun EXCEPT !.pc = "push", !.chunk = 1])
    /\ UNCHANGED bfFaults

\* The chunk is disposed of; after the last one the cursor moves and is committed.
ChunkDone(r, f) ==
    LET c == AdvanceCursor(r.cursor, f) IN
    IF r.chunk < Chunks(f)
    THEN bfRun' = [r EXCEPT !.chunk = r.chunk + 1, !.fails = 0] /\ UNCHANGED bfStore
    ELSE /\ bfStore' = [bfStore EXCEPT ![Key(r.org, r.types[1])] = c]
         /\ bfRun' = NextFileOf([r EXCEPT !.cursor = c], f)

BfPush ==
    /\ bfRun.pc = "push"
    /\ \E f \in BfFiles :
         /\ IsNext(bfRun, f)
         /\ bfPushed' = bfPushed \cup {<<f, bfRun.chunk>>}
         /\ ChunkDone(bfRun, f)
    /\ UNCHANGED <<bfDropped, bfFaults>>

BfPushPermanent ==
    /\ bfRun.pc = "push" /\ BfTrouble
    /\ \E f \in BfFiles :
         /\ IsNext(bfRun, f)
         /\ bfDropped' = bfDropped \cup {<<f, bfRun.chunk>>}
         /\ ChunkDone(bfRun, f)
    /\ UNCHANGED bfPushed

\* Too many consecutive failures of one chunk abort the run.
BfPushRetryable ==
    /\ bfRun.pc = "push" /\ BfTrouble
    /\ GoesOn(IF bfRun.fails + 1 >= BfMaxPushFailures
              THEN [bfRun EXCEPT !.pc = "exit", !.code = 1]
              ELSE [bfRun EXCEPT !.fails = bfRun.fails + 1])

BfExit == bfRun.pc = "exit" /\ GoesOn(NoRun) /\ UNCHANGED bfFaults

BfStep == BfType \/ BfList \/ BfDownload \/ BfPush \/ BfExit
BfNext == BfStart \/ BfDiscoveryFails \/ BfStep \/ BfKill \/ BfFails \/ BfPushPermanent \/ BfPushRetryable
BfSpec == BfInit /\ [][BfNext]_bfVars /\ WF_bfVars(BfStep)

-----------------------------------------------------------------------------
\* The cursor an org resumes a type from never passes a file of its own that
\* has not been disposed of: not after a kill between two chunks, a permanent
\* rejection, an abort, a page boundary inside a tie, and not because of what
\* another org has backfilled.
BackfillCovered ==
    \A org \in Orgs, f \in BfFiles :
        LET own == bfStore[Key(org, BfOf[f][2])]
            c == IF own = NoneDone /\ org = FirstOrg THEN bfStore[<<Legacy, BfOf[f][2]>>] ELSE own IN
        (BfOf[f][1] = org /\ Behind(c, f)) => Disposed(f)

\* A run that ends normally without having given up a type, or their discovery,
\* has disposed of every file before its cutoff, however pages, ties, files without
\* rows and the cursors of earlier runs fall.
BackfillComplete ==
    (bfRun.pc = "exit" /\ bfRun.clean /\ bfRun.code = 0) =>
    \A f \in BfFiles : (BfOf[f][1] = bfRun.org /\ BfCreated[f] < bfRun.until) => Disposed(f)

\* A backfill misses nothing, in a run that completes or in the one that resumes it.
BackfillSound == BackfillCovered /\ BackfillComplete

BfTiesBelowPage ==
    \A f \in BfFiles : Cardinality({g \in BfFiles : BfOf[g] = BfOf[f] /\ BfCreated[g] = BfCreated[f]}) < BfPage

\* Every run ends, as long as a page is larger than any tie: no page is
\* fetched again and again.
BackfillEnds == BfTiesBelowPage => (bfRun.pc # "idle" ~> bfRun.pc = "idle")

=============================================================================
