--------------------------- MODULE PipelineProofs ---------------------------
(***************************************************************************)
(* Machine-checked proofs about Pipeline, for every set of sources and     *)
(* lanes, every script, queue size, byte budget and batch limit, and any   *)
(* combination of faults.                                                  *)
(***************************************************************************)
EXTENDS Pipeline, FiniteSetTheorems, WellFoundedInduction, TLAPS

-----------------------------------------------------------------------------
(* Sequences.                                                               *)

\* Appending adds one element, behind the others.
LEMMA AppendFacts ==
  ASSUME NEW S, NEW q \in Seq(S), NEW x \in S
  PROVE  /\ Append(q, x) \in Seq(S)
         /\ DOMAIN Append(q, x) = DOMAIN q \cup {Len(q) + 1}
         /\ \A i \in DOMAIN q : i \in 1..Len(q) /\ Append(q, x)[i] = q[i]
         /\ Append(q, x)[Len(q) + 1] = x
  OBVIOUS

\* The tail of a queue is the queue without its head, one index lower.
LEMMA TailFacts ==
  ASSUME NEW S, NEW q \in Seq(S), q # <<>>
  PROVE  /\ Tail(q) \in Seq(S)
         /\ Head(q) \in S
         /\ 1 \in DOMAIN q /\ Head(q) = q[1]
         /\ \A i \in DOMAIN Tail(q) :
               i + 1 \in DOMAIN q /\ Tail(q)[i] = q[i + 1] /\ i \in Nat /\ 1 < i + 1
         /\ \A i \in DOMAIN q : i # 1 => i - 1 \in DOMAIN Tail(q) /\ Tail(q)[i - 1] = q[i]
  OBVIOUS

\* The elements of a sequence have its type.
LEMMA ElemsType ==
  ASSUME NEW S, NEW q \in Seq(S)
  PROVE  Elems(q) \subseteq S /\ \A i \in DOMAIN q : q[i] \in S
  BY DEF Elems

\* A set of indices has a largest one.
LEMMA MaxIndex ==
  ASSUME NEW n \in Nat, NEW I, I \subseteq 1..n, I # {}
  PROVE  \E i \in I : \A j \in I : j <= i
<1> DEFINE T == {n - i : i \in I}
<1>0. \A i \in I : i \in Int /\ 1 <= i /\ i <= n
  OBVIOUS
<1>1. T \subseteq Nat /\ T # {}
  <2>1. \A i \in I : n - i \in Nat
    BY <1>0
  <2>2. QED
    BY <2>1
<1>2. PICK x \in T : \A y \in T : ~(<<y, x>> \in OpToRel(<, Nat))
  BY <1>1, NatLessThanWellFounded, WFMin
<1>3. \A y \in T : ~(y < x)
  BY <1>1, <1>2 DEF OpToRel
<1>4. PICK i \in I : x = n - i
  OBVIOUS
<1>5. \A j \in I : n - j \in T
  OBVIOUS
<1>6. QED
  <2>1. \A j \in I : ~(n - j < n - i)
    BY <1>3, <1>4, <1>5
  <2>2. \A j \in I : j <= i
    BY <1>0, <2>1
  <2>3. QED
    BY <2>2

-----------------------------------------------------------------------------
(* Type correctness.                                                        *)

\* What _entry_cost charges for an item is a natural number, at most MaxCost.
LEMMA EntryCostType ==
  ASSUME NEW e \in Items
  PROVE  /\ EntryCost(e) \in Nat
         /\ EntryCost(e) <= MaxCost
<1>1. CASE e \in Entries
  <2>1. e.src \in Sources /\ e.pos \in 1..Len(Script[e.src])
    BY <1>1, PipelineAssumption DEF Entries, PipelineAssumption
  <2>2. Script[e.src] \in Seq(Item) /\ Script[e.src][e.pos] \in Item
    BY <2>1, PipelineAssumption DEF PipelineAssumption
  <2>3. /\ Script[e.src][e.pos].cost \in Nat
        /\ Script[e.src][e.pos].cost <= MaxCost
    BY <2>1, <2>2, PipelineAssumption DEF PipelineAssumption, Item
  <2>4. QED
    BY <2>3, PipelineAssumption DEF EntryCost, PipelineAssumption
<1>2. CASE e \notin Entries
  <2>1. e.pos = 0
    BY <1>2 DEF Items, Sentinel, Entry
  <2>2. QED
    BY <2>1, PipelineAssumption DEF EntryCost, IsLive, PipelineAssumption
<1>3. QED
  BY <1>1, <1>2

\* The fields of what a lane queue holds, an entry or a sentinel.
LEMMA ItemFacts ==
  ASSUME NEW e \in Items
  PROVE  /\ e.src \in Sources
         /\ e.pos \in Nat
         /\ ~IsSentinel(e) => e \in Entries
         /\ e = Entry(e.src, e.pos)
  BY DEF Items, Entries, Sentinel, Entry, IsSentinel

\* What Elems and Real say of a batch.
LEMMA BatchElems ==
  ASSUME NEW b \in Seq(Entries)
  PROVE  /\ Elems(b) \subseteq Entries
         /\ Real(b) \subseteq Elems(b)
         /\ \A e \in Elems(b) : IsLive(e) => e \in Real(b)
  BY ElemsType DEF Real

\* Lanes without an entry have the type of queues and of batches.
LEMMA EmptyLanes ==
  /\ [l \in Lanes |-> <<>>] \in [Lanes -> Seq(Items)]
  /\ [l \in Lanes |-> <<>>] \in [Lanes -> Seq(Entries)]
<1>1. \A S : <<>> \in Seq(S)
  OBVIOUS
<1>2. QED
  BY <1>1

\* A lane has finitely many producers.
LEMMA LaneCardinality ==
  ASSUME NEW l \in Lanes
  PROVE  Cardinality(SourcesOf(l)) \in Nat
<1>1. SourcesOf(l) \subseteq Sources
  BY DEF SourcesOf
<1>2. IsFiniteSet(SourcesOf(l))
  BY <1>1, FS_Subset, PipelineAssumption DEF PipelineAssumption
<1>3. QED
  BY <1>2, FS_CardinalityType

\* Initially every variable has its type.
LEMMA InitType == Init => TypeOK
<1> SUFFICES ASSUME Init PROVE TypeOK
  OBVIOUS
<1> USE DEF Init
<1>1. queue \in [Lanes -> Seq(Items)] /\ batch \in [Lanes -> Seq(Entries)]
  BY EmptyLanes
<1>2. /\ prod \in [Sources -> ProducerEnded]
      /\ fate \in [Sources -> ProducerEnded]
      /\ cons \in [Lanes -> ConsumerEnded]
  BY DEF ProducerEnded, ConsumerEnded
<1>3. /\ nxt \in [Sources -> Nat \ {0}]
      /\ committed \in [Sources -> Nat]
      /\ queuedBytes \in [Lanes -> Int]
      /\ active \in [Lanes -> Int]
      /\ approxBytes \in [Lanes -> Nat]
  OBVIOUS
<1>4. /\ main = "down" /\ verdict = "none"
      /\ stop \in BOOLEAN /\ graceFired \in BOOLEAN /\ runs \in Nat
  OBVIOUS
<1>5. failing \subseteq Lanes /\ delivered \subseteq Entries
      /\ dropped \subseteq Entries /\ abandoned \subseteq Entries
  OBVIOUS
<1>6. QED
  BY <1>1, <1>2, <1>3, <1>4, <1>5 DEF TypeOK

\* An entry on its way to the queue is one of Items.
LEMMA ProducedType ==
  ASSUME TypeOK, ProducedExists, NEW s \in Sources, prod[s] \in {"charge", "put"}
  PROVE  Entry(s, nxt[s]) \in Entries /\ Entry(s, nxt[s]) \in Items
  BY DEF TypeOK, ProducedExists, Entry, Entries, Items

\* The steps of run(), of the process and of _drain_with_grace keep the types.
LEMMA ControlType ==
  ASSUME TypeOK, Control
  PROVE  TypeOK'
<1> USE DEF TypeOK, Running, Finished, ProducerEnded, ConsumerEnded
<1>0. ASSUME Reset
      PROVE  /\ verdict' = "none" /\ stop' \in BOOLEAN /\ graceFired' \in BOOLEAN
             /\ fate' \in [Sources -> ProducerEnded]
             /\ nxt' \in [Sources -> Nat \ {0}]
             /\ queue' \in [Lanes -> Seq(Items)]
             /\ queuedBytes' \in [Lanes -> Int]
             /\ batch' \in [Lanes -> Seq(Entries)]
             /\ approxBytes' \in [Lanes -> Nat]
             /\ failing' \subseteq Lanes
  <2>1. verdict' = "none" /\ stop' \in BOOLEAN /\ graceFired' \in BOOLEAN
    BY <1>0 DEF Reset
  <2>2. queue' \in [Lanes -> Seq(Items)] /\ batch' \in [Lanes -> Seq(Entries)]
    BY <1>0, EmptyLanes DEF Reset
  <2>3. QED
    BY <1>0, <2>1, <2>2 DEF Reset
<1>1. CASE Start
  <2>1. \A l \in Lanes : Cardinality(SourcesOf(l)) \in Int
    BY LaneCardinality
  <2>2. /\ main' \in Running /\ main' # "closing"
        /\ runs' \in Nat
        /\ prod' \in [Sources -> {"events"}]
        /\ cons' \in [Lanes -> {"get", "done"}]
        /\ active' \in [Lanes -> Int]
        /\ abandoned' \subseteq Entries
        /\ UNCHANGED <<committed, delivered, dropped>>
    BY <1>1, <2>1 DEF Start
  <2>3. QED
    BY <1>1, <1>0, <2>2 DEF Start
<1>2. CASE Kill
  <2>1. /\ main' = "down"
        /\ prod' \in [Sources -> ProducerEnded]
        /\ cons' \in [Lanes -> ConsumerEnded]
        /\ active' \in [Lanes -> Int]
        /\ UNCHANGED <<runs, outVars>>
    BY <1>2 DEF Kill
  <2>2. QED
    BY <1>2, <1>0, <2>1 DEF Kill, outVars
<1>3. CASE SetStop
  BY <1>3 DEF SetStop, taskVars, laneVars, outVars
<1>4. ASSUME CancelProducers
      PROVE  prod' \in [Sources -> {"events", "charge", "put", "sentinel"} \cup ProducerEnded]
             /\ fate' \in [Sources -> ProducerEnded]
  BY <1>4 DEF CancelProducers, CancelledProd, CancelledFate
<1>5. ASSUME CancelConsumers
      PROVE  cons' \in [Lanes -> {"get", "admit", "push", "backoff", "commit"} \cup ConsumerEnded]
  BY <1>5 DEF CancelConsumers, CancelledCons
<1>6. CASE Wake
  BY <1>6, <1>4, <1>5 DEF Wake, Finally, outVars
<1>7. CASE Join
  BY <1>7, <1>4, <1>5 DEF Join, Finally, outVars
<1>8. CASE Close
  BY <1>8 DEF Close, taskVars, laneVars, outVars
<1>9. CASE GraceExpired
  BY <1>9, <1>4, <1>5 DEF GraceExpired, Finally, outVars
<1>10. QED
  BY <1>1, <1>2, <1>3, <1>6, <1>7, <1>8, <1>9 DEF Control

\* The steps of _produce keep the types.
LEMMA ProducerType ==
  ASSUME TypeOK, ProducedExists, NEW s \in Sources, Producer(s)
  PROVE  TypeOK'
<1> USE DEF TypeOK, Running, Finished, ProducerEnded, ConsumerEnded,
            prodRest, mainVars, laneVars, outVars
<1>1. CASE Yield(s)
  BY <1>1 DEF Yield
<1>2. CASE Charge(s)
  <2>1. EntryCost(Entry(s, nxt[s])) \in Int
    BY <1>2, ProducedType, EntryCostType DEF Charge
  <2>2. LaneOf[s] \in Lanes
    BY PipelineAssumption DEF PipelineAssumption
  <2>3. queuedBytes' \in [Lanes -> Int]
    <3> DEFINE more == [queuedBytes EXCEPT ![LaneOf[s]] = @ + EntryCost(Entry(s, nxt[s]))]
    <3>1. queuedBytes' = queuedBytes \/ queuedBytes' = more
      BY <1>2 DEF Charge
    <3>2. queuedBytes \in [Lanes -> Int]
      OBVIOUS
    <3>3. more \in [Lanes -> Int]
      BY <2>1, <2>2, <3>2
    <3> QED
      BY <3>1, <3>2, <3>3
  <2>4. QED
    BY <1>2, <2>3 DEF Charge
<1>3. CASE Put(s)
  <2>1. LaneOf[s] \in Lanes /\ Entry(s, nxt[s]) \in Items
    BY <1>3, ProducedType, PipelineAssumption DEF Put, PipelineAssumption
  <2>2. Append(queue[LaneOf[s]], Entry(s, nxt[s])) \in Seq(Items)
    BY <2>1, AppendFacts
  <2>3. queue' \in [Lanes -> Seq(Items)]
    BY <1>3, <2>1, <2>2 DEF Put
  <2>4. nxt' \in [Sources -> Nat \ {0}]
    BY <1>3 DEF Put
  <2>5. prod' \in [Sources -> {"events", "charge", "put", "sentinel"} \cup ProducerEnded]
    BY <1>3 DEF Put
  <2>6. QED
    BY <1>3, <2>3, <2>4, <2>5 DEF Put
<1>4. CASE SourceEnds(s)
  BY <1>4 DEF SourceEnds
<1>5. CASE SourceFails(s)
  BY <1>5 DEF SourceFails
<1>6. CASE PutSentinel(s)
  <2>1. LaneOf[s] \in Lanes /\ Sentinel(s) \in Items
    BY PipelineAssumption DEF PipelineAssumption, Items
  <2>2. Append(queue[LaneOf[s]], Sentinel(s)) \in Seq(Items)
    BY <2>1, AppendFacts
  <2>3. queue' \in [Lanes -> Seq(Items)]
    BY <1>6, <2>1, <2>2 DEF PutSentinel
  <2>4. QED
    BY <1>6, <2>3 DEF PutSentinel
<1>7. QED
  BY <1>1, <1>2, <1>3, <1>4, <1>5, <1>6 DEF Producer

\* The steps that end a batch leave an empty one.
LEMMA NextBatchType ==
  ASSUME TypeOK, NEW l \in Lanes, NextBatch(l)
  PROVE  /\ batch' \in [Lanes -> Seq(Entries)]
         /\ approxBytes' \in [Lanes -> Nat]
         /\ cons' \in [Lanes -> {"get", "admit", "push", "backoff", "commit"} \cup ConsumerEnded]
<1>1. <<>> \in Seq(Entries)
  OBVIOUS
<1>2. QED
  BY <1>1 DEF TypeOK, NextBatch, ConsumerEnded

\* The last tokens of a batch are positions.
LEMMA LastTokenFacts ==
  ASSUME TypeOK, NEW b \in Seq(Entries), NEW s \in Sources
  PROVE  \/ /\ \A i \in DOMAIN b : b[i].src # s
            /\ LastTokens(b)[s] = committed[s]
         \/ \E i \in DOMAIN b :
              /\ b[i].src = s
              /\ \A j \in DOMAIN b : b[j].src = s => j <= i
              /\ LastTokens(b)[s] = b[i].pos
<1> DEFINE I == {i \in DOMAIN b : b[i].src = s}
<1>1. CASE I = {}
  <2>1. Positions(b, s) = {}
    BY <1>1 DEF Positions, Elems
  <2>2. QED
    BY <1>1, <2>1 DEF LastTokens
<1>2. CASE I # {}
  <2>1. Positions(b, s) # {}
    BY <1>2 DEF Positions, Elems
  <2>2. \E i \in I : \A j \in I : j <= i
    <3>1. I \subseteq 1..Len(b) /\ Len(b) \in Nat
      OBVIOUS
    <3>2. QED
      BY <1>2, <3>1, MaxIndex
  <2>3. /\ LastIndex(b, s) \in DOMAIN b
        /\ b[LastIndex(b, s)].src = s
        /\ \A j \in DOMAIN b : b[j].src = s => j <= LastIndex(b, s)
    BY <2>2 DEF LastIndex
  <2>4. LastTokens(b)[s] = b[LastIndex(b, s)].pos
    BY <2>1 DEF LastTokens
  <2>5. QED
    BY <2>3, <2>4
<1>3. QED
  BY <1>1, <1>2

\* What a consumer sees at the head of its queue.
LEMMA HeadType ==
  ASSUME TypeOK, NEW l \in Lanes, queue[l] # <<>>
  PROVE  /\ queue[l] \in Seq(Items)
         /\ Head(queue[l]) \in Items
         /\ EntryCost(Head(queue[l])) \in Nat
         /\ Tail(queue[l]) \in Seq(Items)
<1>1. queue[l] \in Seq(Items)
  BY DEF TypeOK
<1>2. Head(queue[l]) \in Items /\ Tail(queue[l]) \in Seq(Items)
  BY <1>1, TailFacts
<1>3. QED
  BY <1>1, <1>2, EntryCostType

\* Taking an entry or a sentinel off a lane queue keeps the types.
LEMMA GetType ==
  ASSUME TypeOK, NEW l \in Lanes, GetEntry(l) \/ GetSentinel(l)
  PROVE  TypeOK'
<1> USE DEF TypeOK
<1> DEFINE e == Head(queue[l])
<1>1. queue[l] # <<>>
  BY DEF GetEntry, GetSentinel
<1>2. e \in Items /\ EntryCost(e) \in Nat /\ Tail(queue[l]) \in Seq(Items)
  BY <1>1, HeadType
<1>3. queue' \in [Lanes -> Seq(Items)]
  BY <1>2 DEF GetEntry, GetSentinel
<1>4. queuedBytes' \in [Lanes -> Int]
  BY <1>2 DEF GetEntry, GetSentinel, Release
<1>5. CASE GetEntry(l)
  <2>1. e \in Entries
    BY <1>2, <1>5, ItemFacts DEF GetEntry
  <2>2. Append(batch[l], e) \in Seq(Entries)
    BY <2>1, AppendFacts
  <2>3. batch' \in [Lanes -> Seq(Entries)]
    BY <1>5, <2>2 DEF GetEntry
  <2>4. approxBytes' \in [Lanes -> Nat]
    BY <1>2, <1>5 DEF GetEntry
  <2>5. cons' \in [Lanes -> {"get", "admit", "push", "backoff", "commit"} \cup ConsumerEnded]
    BY <1>5 DEF GetEntry, FlushAt
  <2>6. QED
    BY <1>3, <1>4, <1>5, <2>3, <2>4, <2>5 DEF GetEntry, consRest, mainVars, outVars
<1>6. CASE GetSentinel(l)
  <2>1. cons' \in [Lanes -> {"get", "admit", "push", "backoff", "commit"} \cup ConsumerEnded]
    BY <1>6 DEF GetSentinel, FlushAt, ConsumerEnded
  <2>2. active' \in [Lanes -> Int]
    BY <1>6 DEF GetSentinel
  <2>3. QED
    BY <1>3, <1>4, <1>6, <2>1, <2>2 DEF GetSentinel, consRest, mainVars, outVars
<1>7. QED
  BY <1>5, <1>6

\* The steps of _flush and _commit keep the types.
LEMMA FlushType ==
  ASSUME TypeOK, NEW l \in Lanes,
         \/ FlushDeadline(l) \/ Admit(l) \/ DropOverBudget(l) \/ PushOk(l)
         \/ PushPermanent(l) \/ PushRetryable(l) \/ Backoff(l) \/ Commit(l) \/ CommitFails(l)
  PROVE  TypeOK'
<1>1. batch[l] \in Seq(Entries)
  BY DEF TypeOK
<1>2. Elems(batch[l]) \subseteq Entries /\ Real(batch[l]) \subseteq Entries
  BY <1>1, BatchElems
<1> USE DEF TypeOK, consRest, mainVars, outVars
<1>3. CASE FlushDeadline(l)
  BY <1>3 DEF FlushDeadline, FlushAt
<1>4. CASE Admit(l)
  BY <1>4 DEF Admit
<1>5. CASE DropOverBudget(l)
  BY <1>2, <1>5 DEF DropOverBudget
<1>6. CASE PushOk(l)
  BY <1>2, <1>6 DEF PushOk
<1>7. CASE PushPermanent(l)
  BY <1>2, <1>7 DEF PushPermanent
<1>8. CASE PushRetryable(l)
  BY <1>2, <1>8, NextBatchType DEF PushRetryable, Abandon
<1>9. CASE Backoff(l)
  BY <1>2, <1>9, NextBatchType DEF Backoff, Abandon
<1>10. CASE Commit(l)
  <2>1. \A s \in Sources : LastTokens(batch[l])[s] \in Nat
    <3> SUFFICES ASSUME NEW s \in Sources PROVE LastTokens(batch[l])[s] \in Nat
      OBVIOUS
    <3>1. \A i \in DOMAIN batch[l] : batch[l][i].pos \in Nat
      BY <1>1, ElemsType DEF Entries
    <3>2. \/ LastTokens(batch[l])[s] = committed[s]
          \/ \E i \in DOMAIN batch[l] : LastTokens(batch[l])[s] = batch[l][i].pos
      BY <1>1, LastTokenFacts
    <3>3. QED
      BY <3>1, <3>2
  <2>2. committed' \in [Sources -> Nat]
    BY <1>10, <2>1 DEF Commit, LastTokens
  <2>3. QED
    BY <1>10, <2>2, NextBatchType DEF Commit
<1>11. CASE CommitFails(l)
  BY <1>11 DEF CommitFails, ConsumerEnded
<1>12. QED
  BY <1>3, <1>4, <1>5, <1>6, <1>7, <1>8, <1>9, <1>10, <1>11

\* Every step keeps the types, as long as producers stay within their script.
LEMMA TypeStep ==
  ASSUME TypeOK, ProducedExists, [Next]_vars
  PROVE  TypeOK'
<1>1. CASE Control
  BY <1>1, ControlType
<1>2. CASE \E s \in Sources : Producer(s)
  BY <1>2, ProducerType
<1>3. CASE \E l \in Lanes : Consumer(l)
  BY <1>3, GetType, FlushType DEF Consumer
<1>4. CASE UNCHANGED vars
  BY <1>4 DEF vars, mainVars, taskVars, laneVars, outVars, TypeOK
<1>5. QED
  BY <1>1, <1>2, <1>3, <1>4 DEF Next

-----------------------------------------------------------------------------
(* The inductive invariant.                                                 *)

\* The part of IInv that relates producers, queues, batches and checkpoints.
FlowInv == InFlightBounds /\ InFlightOrdered /\ Accounted

\* Steps that move no entry keep FlowInv.
LEMMA FlowFrame ==
  ASSUME FlowInv,
         UNCHANGED <<nxt, queue, batch, committed>>,
         delivered \subseteq delivered', dropped \subseteq dropped',
         abandoned \subseteq abandoned'
  PROVE  FlowInv'
<1>1. InFlightBounds' /\ InFlightOrdered'
  BY DEF FlowInv, InFlightBounds, InFlightOrdered
<1>2. Accounted'
  BY DEF FlowInv, Accounted, Elems
<1>3. QED
  BY <1>1, <1>2 DEF FlowInv

\* From FlowInv: what the checkpoint has passed is out of memory, and so it
\* was delivered, dropped or abandoned.
LEMMA PassedIsSettled ==
  ASSUME TypeOK, FlowInv
  PROVE  CheckpointCovered
<1> SUFFICES ASSUME NEW s \in Sources, NEW p \in 1..Len(Script[s]),
                    p <= committed[s], Script[s][p].live
             PROVE  Entry(s, p) \in delivered \cup dropped \cup abandoned
  BY DEF CheckpointCovered, Passed
<1>1. LaneOf[s] \in Lanes /\ committed[s] \in Nat /\ nxt[s] \in Nat
  BY PipelineAssumption DEF TypeOK, PipelineAssumption
<1>2. p < nxt[s]
  BY <1>1 DEF FlowInv, Accounted
<1>3. Entry(s, p) \notin Elems(batch[LaneOf[s]])
  BY <1>1 DEF FlowInv, InFlightBounds, Elems, Entry
<1>4. Entry(s, p) \notin Elems(queue[LaneOf[s]])
  BY <1>1 DEF FlowInv, InFlightBounds, Elems, Entry
<1>5. QED
  BY <1>2, <1>3, <1>4 DEF FlowInv, Accounted

\* The same as an implication, which also holds of the next state.
LEMMA FlowCovers == TypeOK /\ FlowInv => CheckpointCovered
  BY PassedIsSettled

\* A restart drops what is in memory, and resumes behind the checkpoint.
LEMMA ResetFlow ==
  ASSUME TypeOK, FlowInv, Reset,
         UNCHANGED <<committed, delivered, dropped>>,
         \A e \in abandoned : e.pos <= committed[e.src] => e \in abandoned'
  PROVE  FlowInv'
<1>1. InFlightBounds' /\ InFlightOrdered'
  BY DEF Reset, InFlightBounds, InFlightOrdered, InOrder
<1>2. Accounted'
  <2> SUFFICES ASSUME NEW s \in Sources
               PROVE  /\ committed'[s] < nxt'[s]
                      /\ \A p \in 1..Len(Script[s]) : (p < nxt'[s] /\ Script[s][p].live) =>
                            Entry(s, p) \in delivered' \cup dropped' \cup abandoned'
    BY DEF Accounted
  <2>1. committed[s] \in Nat /\ nxt'[s] = committed[s] + 1
    BY DEF TypeOK, Reset
  <2>2. \A p \in 1..Len(Script[s]) : (p <= committed[s] /\ Script[s][p].live) =>
            Entry(s, p) \in delivered \cup dropped \cup abandoned
    BY PassedIsSettled DEF CheckpointCovered, Passed
  <2>3. \A p \in 1..Len(Script[s]) : Entry(s, p).pos = p /\ Entry(s, p).src = s
    BY DEF Entry
  <2>4. QED
    BY <2>1, <2>2, <2>3
<1>3. QED
  BY <1>1, <1>2 DEF FlowInv

\* The fields of what is in memory.
LEMMA InFlightFields ==
  ASSUME TypeOK, NEW l \in Lanes
  PROVE  /\ batch[l] \in Seq(Entries) /\ queue[l] \in Seq(Items)
         /\ \A i \in DOMAIN batch[l] :
               /\ batch[l][i] \in Entries /\ batch[l][i].src \in Sources
               /\ batch[l][i].pos \in Nat
         /\ \A i \in DOMAIN queue[l] :
               /\ queue[l][i] \in Items /\ queue[l][i].src \in Sources
               /\ queue[l][i].pos \in Nat
<1>1. batch[l] \in Seq(Entries) /\ queue[l] \in Seq(Items)
  BY DEF TypeOK
<1>2. (\A i \in DOMAIN batch[l] : batch[l][i] \in Entries)
      /\ (\A i \in DOMAIN queue[l] : queue[l][i] \in Items)
  BY <1>1, ElemsType
<1>3. \A e \in Entries : e.src \in Sources /\ e.pos \in Nat
  BY DEF Entries
<1>4. \A e \in Items : e.src \in Sources /\ e.pos \in Nat
  BY ItemFacts
<1>5. QED
  BY <1>1, <1>2, <1>3, <1>4

\* Appending an item to the queue keeps the order if it is its source's last.
LEMMA OrderAppend ==
  ASSUME NEW b \in Seq(Entries), NEW q \in Seq(Items), NEW e \in Items, InOrder(b, q),
         e.pos = 0 \/ ( /\ \A i \in DOMAIN b : b[i].src = e.src => b[i].pos < e.pos
                       /\ \A i \in DOMAIN q : q[i].src = e.src => q[i].pos < e.pos )
  PROVE  InOrder(b, Append(q, e))
<1> DEFINE a == Append(q, e)
<1>1. /\ DOMAIN a = DOMAIN q \cup {Len(q) + 1}
      /\ \A i \in DOMAIN q : i \in 1..Len(q) /\ a[i] = q[i]
      /\ a[Len(q) + 1] = e
      /\ Len(q) \in Nat
  BY AppendFacts
<1> HIDE DEF a
<1>2. \A i \in DOMAIN b : \A j \in DOMAIN a :
         (b[i].src = a[j].src /\ a[j].pos # 0) => b[i].pos < a[j].pos
  BY <1>1 DEF InOrder
<1>3. \A i, j \in DOMAIN a : i < j => i \in DOMAIN q
  BY <1>1
<1>4. ASSUME NEW i \in DOMAIN a, NEW j \in DOMAIN a,
             i < j, a[i].src = a[j].src, a[i].pos # 0, a[j].pos # 0
      PROVE  a[i].pos < a[j].pos
  <2>1. i \in DOMAIN q /\ a[i] = q[i]
    BY <1>1, <1>3, <1>4
  <2>2. CASE j \in DOMAIN q
    BY <1>1, <1>4, <2>1, <2>2 DEF InOrder
  <2>3. CASE j = Len(q) + 1
    BY <1>1, <1>4, <2>1, <2>3
  <2>4. QED
    BY <1>1, <2>2, <2>3
<1>5. QED
  BY <1>2, <1>4 DEF InOrder, a

\* Taking the head off the queue keeps the order, and so does appending it to
\* the batch if it is an entry.
LEMMA OrderTail ==
  ASSUME NEW b \in Seq(Entries), NEW q \in Seq(Items), q # <<>>, InOrder(b, q)
  PROVE  /\ InOrder(b, Tail(q))
         /\ Head(q) \in Entries => InOrder(Append(b, Head(q)), Tail(q))
<1> DEFINE r == Tail(q)
           e == Head(q)
           a == Append(b, e)
<1>1. /\ e = q[1] /\ 1 \in DOMAIN q
      /\ \A i \in DOMAIN r : i + 1 \in DOMAIN q /\ r[i] = q[i + 1] /\ i \in Nat /\ 1 < i + 1
  BY TailFacts
<1>2. e \in Entries => /\ DOMAIN a = DOMAIN b \cup {Len(b) + 1}
                       /\ \A i \in DOMAIN b : i \in 1..Len(b) /\ a[i] = b[i]
                       /\ a[Len(b) + 1] = e
                       /\ Len(b) \in Nat
  BY AppendFacts
<1>3. e \in Entries => e.pos # 0
  BY DEF Entries
<1> HIDE DEF r, e, a
<1>4. \A i, j \in DOMAIN r :
         (i < j /\ r[i].src = r[j].src /\ r[i].pos # 0 /\ r[j].pos # 0) => r[i].pos < r[j].pos
  <2>1. \A i, j \in DOMAIN r : i < j => i + 1 < j + 1
    BY <1>1
  <2>2. QED
    BY <1>1, <2>1 DEF InOrder
<1>5. InOrder(b, r)
  BY <1>1, <1>4 DEF InOrder
<1>6. ASSUME e \in Entries
      PROVE  InOrder(a, r)
  <2>1. \A i, j \in DOMAIN a :
           (i < j /\ a[i].src = a[j].src) => a[i].pos < a[j].pos
    <3> SUFFICES ASSUME NEW i \in DOMAIN a, NEW j \in DOMAIN a, i < j, a[i].src = a[j].src
                 PROVE  a[i].pos < a[j].pos
      OBVIOUS
    <3>1. i \in DOMAIN b /\ a[i] = b[i]
      BY <1>2, <1>6
    <3>2. CASE j \in DOMAIN b
      BY <1>2, <1>6, <3>1, <3>2 DEF InOrder
    <3>3. CASE j = Len(b) + 1
      BY <1>1, <1>2, <1>3, <1>6, <3>1, <3>3 DEF InOrder
    <3>4. QED
      BY <1>2, <1>6, <3>2, <3>3
  <2>2. \A i \in DOMAIN a : \A j \in DOMAIN r :
           (a[i].src = r[j].src /\ r[j].pos # 0) => a[i].pos < r[j].pos
    <3> SUFFICES ASSUME NEW i \in DOMAIN a, NEW j \in DOMAIN r, a[i].src = r[j].src, r[j].pos # 0
                 PROVE  a[i].pos < r[j].pos
      OBVIOUS
    <3>1. CASE i \in DOMAIN b
      BY <1>2, <1>5, <1>6, <3>1 DEF InOrder
    <3>2. CASE i = Len(b) + 1
      BY <1>1, <1>2, <1>3, <1>6, <3>2 DEF InOrder
    <3>3. QED
      BY <1>2, <1>6, <3>1, <3>2
  <2>3. QED
    BY <1>4, <2>1, <2>2 DEF InOrder
<1>7. QED
  BY <1>5, <1>6 DEF r, e, a

\* Put appends the newest entry of its source, behind everything in flight.
LEMMA PutFlow ==
  ASSUME TypeOK, ProducedExists, FlowInv, NEW s \in Sources, Put(s)
  PROVE  FlowInv'
<1> DEFINE k == LaneOf[s]
           e == Entry(s, nxt[s])
<1>1. /\ k \in Lanes /\ queue[k] \in Seq(Items) /\ e \in Items
      /\ batch[k] \in Seq(Entries)
      /\ nxt[s] \in Nat /\ nxt[s] > committed[s] /\ nxt[s] # 0
  BY ProducedType, PipelineAssumption DEF Put, TypeOK, PipelineAssumption, FlowInv, Accounted
<1>2. /\ queue'[k] = Append(queue[k], e)
      /\ \A l \in Lanes : l # k => queue'[l] = queue[l]
      /\ nxt'[s] = nxt[s] + 1
      /\ \A r \in Sources : r # s => nxt'[r] = nxt[r]
      /\ UNCHANGED <<batch, committed, delivered, dropped, abandoned>>
  BY <1>1 DEF Put, TypeOK, prodRest, laneVars, outVars
<1>3. /\ DOMAIN queue'[k] = DOMAIN queue[k] \cup {Len(queue[k]) + 1}
      /\ \A i \in DOMAIN queue[k] : i \in 1..Len(queue[k]) /\ queue'[k][i] = queue[k][i]
      /\ queue'[k][Len(queue[k]) + 1] = e
      /\ Len(queue[k]) \in Nat
  BY <1>1, <1>2, AppendFacts
<1>4. e.src = s /\ e.pos = nxt[s]
  BY DEF Entry
<1>5. \A r \in Sources : nxt[r] \in Nat /\ nxt'[r] \in Nat /\ nxt'[r] >= nxt[r]
  <2>1. \A r \in Sources : nxt[r] \in Nat
    BY DEF TypeOK
  <2>2. \A r \in Sources : nxt'[r] = nxt[r] \/ nxt'[r] = nxt[r] + 1
    BY <1>2
  <2>3. QED
    BY <2>1, <2>2
<1>6. InFlightBounds'
  <2> SUFFICES ASSUME NEW l \in Lanes
               PROVE  /\ \A i \in DOMAIN batch[l] :
                            /\ LaneOf[batch[l][i].src] = l
                            /\ batch[l][i].pos < nxt'[batch[l][i].src]
                            /\ batch[l][i].pos > committed[batch[l][i].src]
                      /\ \A i \in DOMAIN queue'[l] :
                            /\ LaneOf[queue'[l][i].src] = l
                            /\ queue'[l][i].pos < nxt'[queue'[l][i].src]
                            /\ queue'[l][i].pos # 0 =>
                                  queue'[l][i].pos > committed[queue'[l][i].src]
    BY <1>2 DEF InFlightBounds
  <2>1. \A i \in DOMAIN batch[l] :
            /\ batch[l][i].src \in Sources /\ batch[l][i].pos \in Nat
            /\ LaneOf[batch[l][i].src] = l
            /\ batch[l][i].pos < nxt[batch[l][i].src]
            /\ batch[l][i].pos > committed[batch[l][i].src]
    BY InFlightFields DEF FlowInv, InFlightBounds
  <2>2. \A i \in DOMAIN queue[l] :
            /\ queue[l][i].src \in Sources /\ queue[l][i].pos \in Nat
            /\ LaneOf[queue[l][i].src] = l
            /\ queue[l][i].pos < nxt[queue[l][i].src]
            /\ queue[l][i].pos # 0 => queue[l][i].pos > committed[queue[l][i].src]
    BY InFlightFields DEF FlowInv, InFlightBounds
  <2>3. \A i \in DOMAIN batch[l] : batch[l][i].pos < nxt'[batch[l][i].src]
    BY <1>5, <2>1
  <2>4. \A i \in DOMAIN queue[l] : queue[l][i].pos < nxt'[queue[l][i].src]
    BY <1>5, <2>2
  <2>5. CASE l # k
    BY <1>2, <2>1, <2>2, <2>3, <2>4, <2>5
  <2>6. CASE l = k
    <3>1. e.pos < nxt'[e.src] /\ e.pos > committed[e.src] /\ LaneOf[e.src] = k
      BY <1>1, <1>2, <1>4
    <3>2. \A i \in DOMAIN queue'[k] : i \in DOMAIN queue[k] \/ queue'[k][i] = e
      BY <1>3
    <3>3. QED
      BY <1>3, <2>1, <2>2, <2>3, <2>4, <2>6, <3>1, <3>2
  <2>7. QED
    BY <2>5, <2>6
<1>7. InFlightOrdered'
  <2>1. \A i \in DOMAIN queue[k] : queue[k][i].src = s => queue[k][i].pos < nxt[s]
    BY <1>1 DEF FlowInv, InFlightBounds
  <2>2. \A i \in DOMAIN batch[k] : batch[k][i].src = s => batch[k][i].pos < nxt[s]
    BY <1>1 DEF FlowInv, InFlightBounds
  <2>3. InOrder(batch[k], Append(queue[k], e))
    BY <1>1, <1>4, <2>1, <2>2, OrderAppend DEF FlowInv, InFlightOrdered
  <2>4. QED
    BY <1>2, <2>3 DEF FlowInv, InFlightOrdered
<1>8. Accounted'
  <2>1. \A l \in Lanes : Elems(queue[l]) \subseteq Elems(queue'[l])
    BY <1>2, <1>3 DEF Elems
  <2>2. e \in Elems(queue'[k])
    BY <1>3 DEF Elems
  <2>3. ASSUME NEW r \in Sources
        PROVE  /\ committed[r] < nxt'[r]
               /\ \A p \in 1..Len(Script[r]) : (p < nxt'[r] /\ Script[r][p].live) =>
                     Entry(r, p) \in delivered \cup dropped \cup abandoned
                        \cup Elems(batch[LaneOf[r]]) \cup Elems(queue'[LaneOf[r]])
    <3>1. LaneOf[r] \in Lanes /\ committed[r] \in Nat
      BY PipelineAssumption DEF PipelineAssumption, TypeOK
    <3>2. CASE r # s
      BY <1>2, <2>1, <3>1, <3>2 DEF FlowInv, Accounted
    <3>3. CASE r = s
      <4>1. \A p \in 1..Len(Script[r]) : p < nxt'[r] => p < nxt[r] \/ p = nxt[r]
        BY <1>1, <1>2, <3>3
      <4>2. QED
        <5>1. committed[r] < nxt'[r]
          BY <1>1, <1>2, <3>1, <3>3
        <5>2. \A p \in 1..Len(Script[r]) : (p < nxt[r] /\ Script[r][p].live) =>
                 Entry(r, p) \in delivered \cup dropped \cup abandoned
                    \cup Elems(batch[LaneOf[r]]) \cup Elems(queue[LaneOf[r]])
          BY DEF FlowInv, Accounted
        <5>3. QED
          BY <2>1, <2>2, <3>1, <3>3, <4>1, <5>1, <5>2
    <3>4. QED
      BY <3>2, <3>3
  <2>4. QED
    BY <1>2, <2>3 DEF Accounted
<1>9. QED
  BY <1>6, <1>7, <1>8 DEF FlowInv

\* A sentinel on the queue is no entry: nothing else changes.
LEMMA PutSentinelFlow ==
  ASSUME TypeOK, FlowInv, NEW s \in Sources, PutSentinel(s)
  PROVE  FlowInv'
<1> DEFINE k == LaneOf[s]
           e == Sentinel(s)
<1>1. k \in Lanes /\ e \in Items /\ e.src = s /\ e.pos = 0
  BY PipelineAssumption DEF PipelineAssumption, Items, Sentinel, Entry
<1>2. batch[k] \in Seq(Entries) /\ queue[k] \in Seq(Items) /\ nxt[s] \in Nat \ {0}
  BY <1>1 DEF TypeOK
<1>3. /\ queue'[k] = Append(queue[k], e)
      /\ \A l \in Lanes : l # k => queue'[l] = queue[l]
      /\ UNCHANGED <<nxt, batch, committed, delivered, dropped, abandoned>>
  BY <1>1 DEF PutSentinel, TypeOK, prodRest, laneVars, outVars
<1>4. /\ DOMAIN queue'[k] = DOMAIN queue[k] \cup {Len(queue[k]) + 1}
      /\ \A i \in DOMAIN queue[k] : queue'[k][i] = queue[k][i]
      /\ queue'[k][Len(queue[k]) + 1] = e
  BY <1>1, <1>2, <1>3, AppendFacts
<1> HIDE DEF k, e
<1>5. InFlightBounds'
  <2> SUFFICES ASSUME NEW l \in Lanes, NEW i \in DOMAIN queue'[l]
               PROVE  /\ LaneOf[queue'[l][i].src] = l
                      /\ queue'[l][i].pos < nxt[queue'[l][i].src]
                      /\ queue'[l][i].pos # 0 =>
                            queue'[l][i].pos > committed[queue'[l][i].src]
    BY <1>3 DEF FlowInv, InFlightBounds
  <2>1. CASE queue'[l][i] = e /\ l = k
    BY <1>1, <1>2, <2>1 DEF k
  <2>2. CASE i \in DOMAIN queue[l] /\ queue'[l][i] = queue[l][i]
    BY <2>2 DEF FlowInv, InFlightBounds
  <2>3. QED
    BY <1>3, <1>4, <2>1, <2>2
<1>6. InFlightOrdered'
  <2>1. InOrder(batch[k], Append(queue[k], e))
    BY <1>1, <1>2, OrderAppend DEF FlowInv, InFlightOrdered
  <2>2. QED
    BY <1>3, <2>1 DEF FlowInv, InFlightOrdered
<1>7. Accounted'
  <2>1. \A l \in Lanes : Elems(queue[l]) \subseteq Elems(queue'[l])
    BY <1>3, <1>4 DEF Elems
  <2>2. \A r \in Sources : LaneOf[r] \in Lanes
    BY PipelineAssumption DEF PipelineAssumption
  <2>3. QED
    BY <1>3, <2>1, <2>2 DEF FlowInv, Accounted
<1>8. QED
  BY <1>5, <1>6, <1>7 DEF FlowInv

\* Get moves the head of the queue to the end of the batch, or drops a sentinel.
LEMMA GetFlow ==
  ASSUME TypeOK, FlowInv, NEW l \in Lanes, GetEntry(l) \/ GetSentinel(l)
  PROVE  FlowInv'
<1> DEFINE e == Head(queue[l])
           q == Tail(queue[l])
<1>1. /\ queue[l] # <<>> /\ queue[l] \in Seq(Items) /\ batch[l] \in Seq(Entries)
  BY DEF GetEntry, GetSentinel, TypeOK
<1>2. /\ e \in Items /\ q \in Seq(Items) /\ 1 \in DOMAIN queue[l] /\ e = queue[l][1]
      /\ \A i \in DOMAIN q : i + 1 \in DOMAIN queue[l] /\ q[i] = queue[l][i + 1]
      /\ \A i \in DOMAIN queue[l] : i # 1 => i - 1 \in DOMAIN q /\ q[i - 1] = queue[l][i]
  BY <1>1, TailFacts
<1>3. /\ queue'[l] = q
      /\ \A k \in Lanes : k # l => queue'[k] = queue[k] /\ batch'[k] = batch[k]
      /\ UNCHANGED <<nxt, committed, delivered, dropped, abandoned>>
  BY DEF GetEntry, GetSentinel, TypeOK, consRest, outVars
<1>4. InOrder(batch[l], queue[l])
  BY DEF FlowInv, InFlightOrdered
<1>5. \/ e \in Entries /\ batch'[l] = Append(batch[l], e)
      \/ e.pos = 0 /\ batch'[l] = batch[l]
  <2>1. CASE GetEntry(l)
    BY <1>2, <2>1, ItemFacts DEF GetEntry, TypeOK
  <2>2. CASE GetSentinel(l)
    BY <2>2 DEF GetSentinel, IsSentinel
  <2>3. QED
    BY <2>1, <2>2
<1>6. e \in Entries => /\ DOMAIN Append(batch[l], e) = DOMAIN batch[l] \cup {Len(batch[l]) + 1}
                       /\ \A i \in DOMAIN batch[l] : Append(batch[l], e)[i] = batch[l][i]
                       /\ Append(batch[l], e)[Len(batch[l]) + 1] = e
  BY <1>1, AppendFacts
<1>7. InOrder(batch[l], q) /\ (e \in Entries => InOrder(Append(batch[l], e), q))
  BY <1>1, <1>4, OrderTail
<1>8. e \in Entries => e.pos # 0
  BY DEF Entries
<1>9. /\ LaneOf[e.src] = l /\ e.pos < nxt[e.src]
      /\ e.pos # 0 => e.pos > committed[e.src]
  BY <1>2 DEF FlowInv, InFlightBounds
<1> HIDE DEF e, q
<1>10. InFlightBounds'
  <2>1. ASSUME NEW k \in Lanes, NEW i \in DOMAIN batch'[k]
        PROVE  /\ LaneOf[batch'[k][i].src] = k
               /\ batch'[k][i].pos < nxt[batch'[k][i].src]
               /\ batch'[k][i].pos > committed[batch'[k][i].src]
    <3>1. CASE k = l /\ e \in Entries /\ batch'[k][i] = e
      BY <1>8, <1>9, <3>1
    <3>2. CASE i \in DOMAIN batch[k] /\ batch'[k][i] = batch[k][i]
      BY <3>2 DEF FlowInv, InFlightBounds
    <3>3. QED
      BY <1>3, <1>5, <1>6, <3>1, <3>2
  <2>2. ASSUME NEW k \in Lanes, NEW i \in DOMAIN queue'[k]
        PROVE  \E j \in DOMAIN queue[k] : queue'[k][i] = queue[k][j]
    BY <1>2, <1>3
  <2>3. ASSUME NEW k \in Lanes, NEW i \in DOMAIN queue'[k]
        PROVE  /\ LaneOf[queue'[k][i].src] = k
               /\ queue'[k][i].pos < nxt[queue'[k][i].src]
               /\ queue'[k][i].pos # 0 => queue'[k][i].pos > committed[queue'[k][i].src]
    BY <2>2 DEF FlowInv, InFlightBounds
  <2>4. QED
    BY <1>3, <2>1, <2>3 DEF InFlightBounds
<1>11. InFlightOrdered'
  <2>1. InOrder(batch'[l], queue'[l])
    BY <1>3, <1>5, <1>7
  <2>2. QED
    BY <1>3, <2>1 DEF FlowInv, InFlightOrdered
<1>12. Accounted'
  <2>1. ASSUME NEW k \in Lanes, NEW x \in Elems(batch[k]) \cup Elems(queue[k]), x.pos # 0
        PROVE  x \in Elems(batch'[k]) \cup Elems(queue'[k])
    <3>1. CASE k # l
      BY <1>3, <3>1
    <3>2. CASE k = l /\ x \in Elems(batch[k])
      BY <1>5, <1>6, <3>2 DEF Elems
    <3>3. CASE k = l /\ x \in Elems(queue[k])
      <4>1. PICK i \in DOMAIN queue[l] : x = queue[l][i]
        BY <3>3 DEF Elems
      <4>2. CASE i = 1
        BY <1>2, <1>5, <1>6, <2>1, <3>3, <4>1, <4>2 DEF Elems
      <4>3. CASE i # 1
        BY <1>2, <1>3, <3>3, <4>1, <4>3 DEF Elems
      <4>4. QED
        BY <4>2, <4>3
    <3>4. QED
      BY <3>1, <3>2, <3>3
  <2>2. ASSUME NEW s \in Sources
        PROVE  /\ committed[s] < nxt[s]
               /\ \A p \in 1..Len(Script[s]) : (p < nxt[s] /\ Script[s][p].live) =>
                     Entry(s, p) \in delivered \cup dropped \cup abandoned
                        \cup Elems(batch'[LaneOf[s]]) \cup Elems(queue'[LaneOf[s]])
    <3>1. LaneOf[s] \in Lanes
      BY PipelineAssumption DEF PipelineAssumption
    <3>2. \A p \in 1..Len(Script[s]) : Entry(s, p).pos # 0
      BY DEF Entry
    <3>3. QED
      BY <2>1, <3>1, <3>2 DEF FlowInv, Accounted
  <2>3. QED
    BY <1>3, <2>2 DEF Accounted
<1>13. QED
  BY <1>10, <1>11, <1>12 DEF FlowInv

\* Leaving a batch behind is safe once all of it is settled or abandoned, and
\* the checkpoint moves to its last tokens or stays.
LEMMA NextBatchFlow ==
  ASSUME TypeOK, FlowInv, NEW l \in Lanes, NextBatch(l),
         UNCHANGED <<nxt, queue>>,
         delivered \subseteq delivered', dropped \subseteq dropped',
         abandoned \subseteq abandoned',
         Real(batch[l]) \subseteq delivered' \cup dropped' \cup abandoned',
         \/ UNCHANGED committed
         \/ committed' = LastTokens(batch[l])
  PROVE  /\ FlowInv'
         /\ \A s \in Sources : committed'[s] >= committed[s]
<1>1. /\ batch'[l] = <<>>
      /\ \A k \in Lanes : k # l => batch'[k] = batch[k]
  BY DEF NextBatch, TypeOK
<1>2. batch[l] \in Seq(Entries)
  BY DEF TypeOK
<1>3. ASSUME NEW s \in Sources
      PROVE  \/ committed'[s] = committed[s]
             \/ \E i \in DOMAIN batch[l] : batch[l][i].src = s /\ committed'[s] = batch[l][i].pos
  BY <1>2, LastTokenFacts
<1>4. ASSUME NEW s \in Sources
      PROVE  /\ committed[s] \in Nat /\ nxt[s] \in Nat /\ committed'[s] \in Nat
             /\ committed'[s] >= committed[s]
             /\ committed'[s] < nxt[s]
  <2>1. committed[s] \in Nat /\ nxt[s] \in Nat /\ committed[s] < nxt[s]
    BY DEF TypeOK, FlowInv, Accounted
  <2>2. \A i \in DOMAIN batch[l] : batch[l][i].src = s =>
           batch[l][i].pos \in Nat /\ batch[l][i].pos > committed[s] /\ batch[l][i].pos < nxt[s]
    BY InFlightFields DEF FlowInv, InFlightBounds
  <2>3. QED
    BY <1>3, <2>1, <2>2
<1>5. InFlightBounds'
  <2>1. ASSUME NEW k \in Lanes, NEW i \in DOMAIN batch'[k]
        PROVE  /\ LaneOf[batch'[k][i].src] = k
               /\ batch'[k][i].pos < nxt[batch'[k][i].src]
               /\ batch'[k][i].pos > committed'[batch'[k][i].src]
    <3>1. k # l /\ batch'[k] = batch[k]
      BY <1>1, <2>1
    <3>2. /\ LaneOf[batch[k][i].src] = k
          /\ batch[k][i].pos < nxt[batch[k][i].src]
          /\ batch[k][i].pos > committed[batch[k][i].src]
          /\ batch[k][i].src \in Sources
      BY <2>1, <3>1, InFlightFields DEF FlowInv, InFlightBounds
    <3>3. \A j \in DOMAIN batch[l] : LaneOf[batch[l][j].src] = l
      BY DEF FlowInv, InFlightBounds
    <3>4. committed'[batch[k][i].src] = committed[batch[k][i].src]
      BY <1>3, <3>1, <3>2, <3>3
    <3>5. QED
      BY <3>1, <3>2, <3>4
  <2>2. ASSUME NEW k \in Lanes, NEW i \in DOMAIN queue[k]
        PROVE  /\ LaneOf[queue[k][i].src] = k
               /\ queue[k][i].pos < nxt[queue[k][i].src]
               /\ queue[k][i].pos # 0 => queue[k][i].pos > committed'[queue[k][i].src]
    <3>1. /\ LaneOf[queue[k][i].src] = k
          /\ queue[k][i].pos < nxt[queue[k][i].src]
          /\ queue[k][i].pos # 0 => queue[k][i].pos > committed[queue[k][i].src]
          /\ queue[k][i].src \in Sources
      BY InFlightFields DEF FlowInv, InFlightBounds
    <3>2. \A j \in DOMAIN batch[l] : LaneOf[batch[l][j].src] = l
      BY DEF FlowInv, InFlightBounds
    <3>3. CASE k # l
      BY <1>3, <3>1, <3>2, <3>3
    <3>4. CASE k = l
      <4>1. \A j \in DOMAIN batch[l] :
              (batch[l][j].src = queue[k][i].src /\ queue[k][i].pos # 0)
                  => batch[l][j].pos < queue[k][i].pos
        BY <3>4 DEF FlowInv, InFlightOrdered, InOrder
      <4>2. \A j \in DOMAIN batch[l] : batch[l][j].pos \in Nat
        BY InFlightFields
      <4>3. queue[k][i].pos \in Nat
        BY InFlightFields
      <4>4. QED
        BY <1>3, <3>1, <4>1, <4>2, <4>3
    <3>5. QED
      BY <3>3, <3>4
  <2>3. QED
    BY <2>1, <2>2 DEF InFlightBounds
<1>6. InFlightOrdered'
  <2>1. InOrder(<<>>, queue[l])
    BY DEF FlowInv, InFlightOrdered, InOrder
  <2>2. QED
    BY <1>1, <2>1 DEF FlowInv, InFlightOrdered
<1>7. Accounted'
  <2>1. ASSUME NEW k \in Lanes, NEW x \in Elems(batch[k]), IsLive(x)
        PROVE  x \in delivered' \cup dropped' \cup abandoned' \cup Elems(batch'[k])
    BY <1>1, <2>1 DEF Real
  <2>2. ASSUME NEW s \in Sources, NEW p \in 1..Len(Script[s]), p < nxt[s], Script[s][p].live
        PROVE  Entry(s, p) \in delivered' \cup dropped' \cup abandoned'
                  \cup Elems(batch'[LaneOf[s]]) \cup Elems(queue[LaneOf[s]])
    <3>1. LaneOf[s] \in Lanes
      BY PipelineAssumption DEF PipelineAssumption
    <3>2. IsLive(Entry(s, p))
      BY <2>2 DEF IsLive, Entry
    <3>3. Entry(s, p) \in delivered \cup dropped \cup abandoned
             \cup Elems(batch[LaneOf[s]]) \cup Elems(queue[LaneOf[s]])
      BY <2>2 DEF FlowInv, Accounted
    <3>4. QED
      BY <2>1, <3>1, <3>2, <3>3
  <2>3. QED
    BY <1>4, <2>2 DEF Accounted
<1>8. QED
  BY <1>4, <1>5, <1>6, <1>7 DEF FlowInv

\* No step loses an entry in flight or changes the order of a source.
LEMMA FlowStep ==
  ASSUME IInv, [Next]_vars
  PROVE  FlowInv'
<1>0. TypeOK /\ ProducedExists /\ FlowInv /\ CommitSettled
  BY DEF IInv, FlowInv
<1>1. CASE Start
  BY <1>0, <1>1, ResetFlow DEF Start
<1>2. CASE Kill
  BY <1>0, <1>2, ResetFlow DEF Kill, outVars
<1>3. CASE SetStop \/ Wake \/ Join \/ Close \/ GraceExpired
  <2>1. UNCHANGED <<nxt, queue, batch, committed, delivered, dropped, abandoned>>
    BY <1>3 DEF SetStop, Wake, Join, Close, GraceExpired, taskVars, laneVars, outVars
  <2>2. QED
    BY <1>0, <2>1, FlowFrame
<1>4. ASSUME NEW s \in Sources, Producer(s)
      PROVE  FlowInv'
  <2>1. CASE Put(s)
    BY <1>0, <2>1, PutFlow
  <2>2. CASE PutSentinel(s)
    BY <1>0, <2>2, PutSentinelFlow
  <2>3. CASE Yield(s) \/ Charge(s) \/ SourceEnds(s) \/ SourceFails(s)
    <3>1. UNCHANGED <<nxt, queue, batch, committed, delivered, dropped, abandoned>>
      BY <2>3 DEF Yield, Charge, SourceEnds, SourceFails, prodRest, laneVars, outVars
    <3>2. QED
      BY <1>0, <3>1, FlowFrame
  <2>4. QED
    BY <1>4, <2>1, <2>2, <2>3 DEF Producer
<1>5. ASSUME NEW l \in Lanes, Consumer(l)
      PROVE  FlowInv'
  <2>1. CASE GetEntry(l) \/ GetSentinel(l)
    BY <1>0, <2>1, GetFlow
  <2>2. CASE FlushDeadline(l) \/ Admit(l) \/ CommitFails(l)
    <3>1. UNCHANGED <<nxt, queue, batch, committed, delivered, dropped, abandoned>>
      BY <2>2 DEF FlushDeadline, Admit, CommitFails, consRest, outVars
    <3>2. QED
      BY <1>0, <3>1, FlowFrame
  <2>3. CASE DropOverBudget(l) \/ PushOk(l) \/ PushPermanent(l)
    <3>1. /\ UNCHANGED <<nxt, queue, batch, committed, abandoned>>
          /\ delivered \subseteq delivered' /\ dropped \subseteq dropped'
      BY <2>3 DEF DropOverBudget, PushOk, PushPermanent, consRest
    <3>2. QED
      BY <1>0, <3>1, FlowFrame
  <2>4. CASE PushRetryable(l) \/ Backoff(l)
    <3>1. /\ UNCHANGED <<nxt, queue, committed, dropped>>
          /\ delivered \subseteq delivered'
      BY <2>4 DEF PushRetryable, Backoff, consRest
    <3>2. CASE Abandon(l)
      <4>1. /\ abandoned \subseteq abandoned' /\ NextBatch(l)
            /\ Real(batch[l]) \subseteq abandoned'
        BY <3>2 DEF Abandon, Real
      <4>2. QED
        BY <1>0, <3>1, <4>1, NextBatchFlow
    <3>3. CASE UNCHANGED <<batch, abandoned>>
      BY <1>0, <3>1, <3>3, FlowFrame
    <3>4. QED
      BY <2>4, <3>2, <3>3 DEF PushRetryable, Backoff
  <2>5. CASE Commit(l)
    <3>1. Real(batch[l]) \subseteq delivered \cup dropped
      BY <1>0, <2>5 DEF CommitSettled, Commit
    <3>2. /\ UNCHANGED <<nxt, queue, delivered, dropped, abandoned>>
          /\ NextBatch(l) /\ committed' = LastTokens(batch[l])
      BY <2>5 DEF Commit, consRest
    <3>3. QED
      BY <1>0, <3>1, <3>2, NextBatchFlow
  <2>6. QED
    BY <1>5, <2>1, <2>2, <2>3, <2>4, <2>5 DEF Consumer
<1>6. CASE UNCHANGED vars
  BY <1>0, <1>6, FlowFrame DEF vars, taskVars, laneVars, outVars
<1>7. QED
  BY <1>1, <1>2, <1>3, <1>4, <1>5, <1>6 DEF Next, Control

\* A producer takes an entry only from its script, and moves on by putting it.
LEMMA ProducedStep ==
  ASSUME TypeOK, ProducedExists, [Next]_vars
  PROVE  ProducedExists'
<1> USE DEF ProducedExists
<1>1. CASE Start
  BY <1>1 DEF Start
<1>2. CASE Kill
  BY <1>2 DEF Kill
<1>3. CASE Wake \/ Join \/ GraceExpired
  <2>1. UNCHANGED nxt
    BY <1>3 DEF Wake, Join, GraceExpired
  <2>2. CancelProducers \/ UNCHANGED prod
    BY <1>3 DEF Wake, Join, GraceExpired, Finally
  <2>3. \A s \in Sources : prod'[s] \in {"charge", "put"} => prod[s] \in {"charge", "put"}
    BY <2>2 DEF CancelProducers, CancelledProd
  <2>4. QED
    BY <2>1, <2>3
<1>4. CASE SetStop \/ Close
  BY <1>4 DEF SetStop, Close, taskVars
<1>5. ASSUME NEW s \in Sources, Producer(s)
      PROVE  ProducedExists'
  <2>1. CASE Yield(s)
    BY <2>1 DEF Yield, TypeOK
  <2>2. CASE Charge(s)
    BY <2>2 DEF Charge, TypeOK
  <2>3. CASE Put(s)
    BY <2>3 DEF Put, TypeOK
  <2>4. CASE SourceEnds(s) \/ SourceFails(s)
    BY <2>4 DEF SourceEnds, SourceFails, TypeOK
  <2>5. CASE PutSentinel(s)
    BY <2>5 DEF PutSentinel, TypeOK, ProducerEnded
  <2>6. QED
    BY <1>5, <2>1, <2>2, <2>3, <2>4, <2>5 DEF Producer
<1>6. ASSUME NEW l \in Lanes, Consumer(l)
      PROVE  ProducedExists'
  <2>1. UNCHANGED <<prod, nxt>>
    BY <1>6 DEF Consumer, GetEntry, GetSentinel, FlushDeadline, Admit, DropOverBudget, PushOk,
                PushPermanent, PushRetryable, Backoff, Commit, CommitFails, consRest
  <2>2. QED
    BY <2>1
<1>7. CASE UNCHANGED vars
  BY <1>7 DEF vars, taskVars
<1>8. QED
  BY <1>1, <1>2, <1>3, <1>4, <1>5, <1>6, <1>7 DEF Next, Control

\* Only a settled batch, or one of keepalives, reaches the commit.
LEMMA CommitSettledStep ==
  ASSUME TypeOK, CommitSettled, [Next]_vars
  PROVE  CommitSettled'
<1> USE DEF CommitSettled
<1>1. CASE Start
  BY <1>1 DEF Start
<1>2. CASE Kill
  BY <1>2 DEF Kill
<1>3. CASE SetStop \/ Wake \/ Join \/ Close \/ GraceExpired
  <2>1. UNCHANGED <<batch, delivered, dropped>>
    BY <1>3 DEF SetStop, Wake, Join, Close, GraceExpired, laneVars, outVars
  <2>2. CancelConsumers \/ UNCHANGED cons
    BY <1>3 DEF SetStop, Wake, Join, Close, GraceExpired, Finally, laneVars
  <2>3. \A l \in Lanes : cons'[l] = "commit" => cons[l] = "commit"
    BY <2>2 DEF CancelConsumers, CancelledCons
  <2>4. QED
    BY <2>1, <2>3 DEF Real, Elems
<1>4. ASSUME NEW s \in Sources, Producer(s)
      PROVE  CommitSettled'
  <2>1. UNCHANGED <<cons, batch, delivered, dropped>>
    BY <1>4 DEF Producer, Yield, Charge, Put, SourceEnds, SourceFails, PutSentinel,
                prodRest, laneVars, outVars
  <2>2. QED
    BY <2>1 DEF Real, Elems
<1>5. ASSUME NEW l \in Lanes, Consumer(l)
      PROVE  CommitSettled'
  <2>1. delivered \subseteq delivered' /\ dropped \subseteq dropped'
    BY <1>5 DEF Consumer, GetEntry, GetSentinel, FlushDeadline, Admit, DropOverBudget, PushOk,
                PushPermanent, PushRetryable, Backoff, Commit, CommitFails, outVars
  <2>2. \A k \in Lanes : k # l => cons'[k] = cons[k] /\ batch'[k] = batch[k]
    BY <1>5 DEF Consumer, GetEntry, GetSentinel, FlushDeadline, Admit, DropOverBudget, PushOk,
                PushPermanent, PushRetryable, Backoff, Commit, CommitFails, Abandon, NextBatch,
                TypeOK
  <2>3. cons'[l] = "commit" => Real(batch'[l]) \subseteq delivered' \cup dropped'
    <3>1. CASE GetEntry(l)
      BY <3>1 DEF GetEntry, FlushAt, TypeOK
    <3>2. CASE GetSentinel(l)
      BY <3>2 DEF GetSentinel, FlushAt, TypeOK
    <3>3. CASE FlushDeadline(l)
      BY <3>3 DEF FlushDeadline, FlushAt, TypeOK
    <3>4. CASE Admit(l) \/ CommitFails(l)
      BY <3>4 DEF Admit, CommitFails, TypeOK
    <3>5. CASE DropOverBudget(l) \/ PushOk(l) \/ PushPermanent(l)
      BY <3>5 DEF DropOverBudget, PushOk, PushPermanent, TypeOK
    <3>6. CASE PushRetryable(l) \/ Backoff(l) \/ Commit(l)
      BY <3>6 DEF PushRetryable, Backoff, Commit, Abandon, NextBatch, TypeOK
    <3>7. QED
      BY <1>5, <3>1, <3>2, <3>3, <3>4, <3>5, <3>6 DEF Consumer
  <2>4. QED
    BY <2>1, <2>2, <2>3
<1>6. CASE UNCHANGED vars
  BY <1>6 DEF vars, laneVars, outVars, Real, Elems
<1>7. QED
  BY <1>1, <1>2, <1>3, <1>4, <1>5, <1>6 DEF Next, Control

\* The inductive invariant holds before the first run().
LEMMA InitInv == Init => IInv
<1> SUFFICES ASSUME Init PROVE IInv
  OBVIOUS
<1>1. TypeOK
  BY InitType
<1>2. ProducedExists /\ CommitSettled
  BY DEF Init, ProducedExists, CommitSettled
<1>3. InFlightBounds /\ InFlightOrdered
  BY DEF Init, InFlightBounds, InFlightOrdered, InOrder
<1>4. Accounted
  BY DEF Init, Accounted
<1>5. QED
  BY <1>1, <1>2, <1>3, <1>4 DEF IInv

\* IInv is inductive.
LEMMA InvStep == IInv /\ [Next]_vars => IInv'
<1> SUFFICES ASSUME IInv, [Next]_vars PROVE IInv'
  OBVIOUS
<1>1. TypeOK' /\ ProducedExists' /\ CommitSettled'
  BY TypeStep, ProducedStep, CommitSettledStep DEF IInv
<1>2. FlowInv'
  BY FlowStep
<1>3. QED
  BY <1>1, <1>2 DEF IInv, FlowInv

-----------------------------------------------------------------------------
(* Theorems.                                                                *)

\* The invariant behind everything: nothing produced is lost between producer,
\* queue, batch and sink, and everything stays in its source's order.
THEOREM PipelineInvariant == Spec => []IInv
  BY InitInv, InvStep, PTL DEF Spec

\* Every variable of the pipeline keeps its type.
THEOREM PipelineTypeCorrect == Spec => []TypeOK
<1>1. IInv => TypeOK
  BY DEF IInv
<1>2. QED
  BY <1>1, PipelineInvariant, PTL

\* Commit after push (Pipeline._flush and _commit): in every lane, under every
\* interleaving, retry, crash, restart and cancellation, a checkpoint passes
\* only entries that were delivered, dropped and counted, or abandoned by stop.
THEOREM CommitAfterPush == Spec => []CheckpointCovered
<1>1. IInv => CheckpointCovered
  BY PassedIsSettled DEF IInv, FlowInv
<1>2. QED
  BY <1>1, PipelineInvariant, PTL

\* The queued bytes of a lane only grow in Charge, below the budget.
LEMMA BytesStep ==
  ASSUME TypeOK, ProducedExists, QueuedBytesBounded, [Next]_vars
  PROVE  QueuedBytesBounded'
<1> SUFFICES ASSUME ByteBudget > 0, NEW k \in Lanes
             PROVE  queuedBytes'[k] < ByteBudget + MaxCost
  BY DEF QueuedBytesBounded
<1>0. /\ queuedBytes[k] \in Int /\ queuedBytes[k] < ByteBudget + MaxCost
      /\ ByteBudget \in Nat /\ MaxCost \in Nat
  BY PipelineAssumption DEF QueuedBytesBounded, TypeOK, PipelineAssumption
<1>1. CASE Start \/ Kill
  BY <1>0, <1>1 DEF Start, Kill, Reset
<1>2. CASE SetStop \/ Wake \/ Join \/ Close \/ GraceExpired
  <2>1. UNCHANGED queuedBytes
    BY <1>2 DEF SetStop, Wake, Join, Close, GraceExpired, taskVars
  <2>2. QED
    BY <1>0, <2>1
<1>3. ASSUME NEW s \in Sources, Producer(s)
      PROVE  queuedBytes'[k] < ByteBudget + MaxCost
  <2>1. CASE Charge(s)
    <3>1. /\ EntryCost(Entry(s, nxt[s])) \in Nat
          /\ EntryCost(Entry(s, nxt[s])) <= MaxCost
      BY <2>1, ProducedType, EntryCostType DEF Charge
    <3>2. CASE UNCHANGED queuedBytes
      BY <1>0, <3>2
    <3>3. CASE /\ queuedBytes[LaneOf[s]] < ByteBudget
               /\ queuedBytes' = [queuedBytes EXCEPT ![LaneOf[s]] =
                                     @ + EntryCost(Entry(s, nxt[s]))]
      BY <1>0, <3>1, <3>3 DEF TypeOK
    <3>4. QED
      BY <2>1, <3>2, <3>3 DEF Charge, Headroom
  <2>2. CASE Yield(s) \/ Put(s) \/ SourceEnds(s) \/ SourceFails(s) \/ PutSentinel(s)
    <3>1. UNCHANGED queuedBytes
      BY <2>2 DEF Yield, Put, SourceEnds, SourceFails, PutSentinel
    <3>2. QED
      BY <1>0, <3>1
  <2>3. QED
    BY <1>3, <2>1, <2>2 DEF Producer
<1>4. ASSUME NEW l \in Lanes, Consumer(l)
      PROVE  queuedBytes'[k] < ByteBudget + MaxCost
  <2>1. CASE GetEntry(l) \/ GetSentinel(l)
    <3>1. EntryCost(Head(queue[l])) \in Nat
      BY <2>1, HeadType DEF GetEntry, GetSentinel
    <3>2. Release(l, Head(queue[l]))
      BY <2>1 DEF GetEntry, GetSentinel
    <3>3. queuedBytes'[k] = queuedBytes[k]
          \/ queuedBytes'[k] = queuedBytes[k] - EntryCost(Head(queue[l]))
      BY <3>2 DEF Release, TypeOK
    <3>4. QED
      BY <1>0, <3>1, <3>3
  <2>2. CASE ~(GetEntry(l) \/ GetSentinel(l))
    <3>1. UNCHANGED queuedBytes
      BY <1>4, <2>2 DEF Consumer, FlushDeadline, Admit, DropOverBudget, PushOk,
                PushPermanent, PushRetryable, Backoff, Commit, CommitFails
    <3>2. QED
      BY <1>0, <3>1
  <2>3. QED
    BY <2>1, <2>2
<1>5. CASE UNCHANGED vars
  BY <1>0, <1>5 DEF vars, taskVars
<1>6. QED
  BY <1>1, <1>2, <1>3, <1>4, <1>5 DEF Next, Control

\* The queue byte budget (Pipeline._charge and _release): a lane never holds
\* more than its budget plus the one entry that is let over it.
THEOREM ByteBudgetHolds == Spec => []QueuedBytesBounded
<1>1. Init => QueuedBytesBounded
  BY PipelineAssumption DEF Init, QueuedBytesBounded, PipelineAssumption
<1>2. IInv /\ QueuedBytesBounded /\ [Next]_vars => QueuedBytesBounded'
  BY BytesStep DEF IInv
<1>3. QED
  BY <1>1, <1>2, PipelineInvariant, PTL DEF Spec

-----------------------------------------------------------------------------
(* Refinement of the delivery contract.                                     *)

\* Every step of the pipeline is a step of the contract, or changes nothing
\* that the contract sees.
LEMMA ContractStep ==
  ASSUME IInv, [Next]_vars
  PROVE  [Contract!Next]_(Contract!vars)
<1>0. TypeOK /\ FlowInv /\ CommitSettled
  BY DEF IInv, FlowInv
<1> DEFINE settled == delivered \cup dropped
<1>1. ASSUME UNCHANGED committed, delivered \subseteq delivered', dropped \subseteq dropped',
             abandoned \subseteq abandoned'
      PROVE  Contract!Settle
  BY <1>1 DEF Contract!Settle
<1>2. CASE Start
  BY <1>2 DEF Start, Contract!Resume, Contract!Next
<1>3. CASE Kill \/ SetStop \/ Wake \/ Join \/ Close \/ GraceExpired
  <2>1. UNCHANGED outVars
    BY <1>3 DEF Kill, SetStop, Wake, Join, Close, GraceExpired
  <2>2. QED
    BY <2>1 DEF outVars, Contract!vars
<1>4. ASSUME NEW s \in Sources, Producer(s)
      PROVE  UNCHANGED Contract!vars
  BY <1>4 DEF Producer, Yield, Charge, Put, SourceEnds, SourceFails, PutSentinel,
              prodRest, outVars, Contract!vars
<1>5. ASSUME NEW l \in Lanes, Consumer(l)
      PROVE  Contract!Next
  <2>1. CASE Commit(l)
    <3>1. Real(batch[l]) \subseteq delivered \cup dropped
      BY <1>0, <2>1 DEF CommitSettled, Commit
    <3>2. /\ UNCHANGED <<nxt, queue, delivered, dropped, abandoned>>
          /\ NextBatch(l) /\ committed' = LastTokens(batch[l])
      BY <2>1 DEF Commit, consRest
    <3>3. FlowInv' /\ \A s \in Sources : committed'[s] >= committed[s]
      BY <1>0, <3>1, <3>2, NextBatchFlow
    <3>4. TypeOK'
      BY TypeStep DEF IInv
    <3>5. CheckpointCovered'
      BY <3>3, <3>4, FlowCovers, PTL
    <3>6. \A s \in Sources : \A p \in 1..Len(Script[s]) :
             (Script[s][p].live /\ p <= committed'[s]) =>
                 Entry(s, p) \in (delivered \cup dropped) \cup abandoned
      BY <3>2, <3>5 DEF CheckpointCovered, Passed
    <3>7. Contract!Advance
      BY <3>2, <3>3, <3>6 DEF Contract!Advance, Contract!Entry, Entry
    <3>8. QED
      BY <3>7 DEF Contract!Next
  <2>2. CASE ~Commit(l)
    <3>1. /\ UNCHANGED committed
          /\ delivered \subseteq delivered' /\ dropped \subseteq dropped'
          /\ abandoned \subseteq abandoned'
      BY <1>5, <2>2 DEF Consumer, GetEntry, GetSentinel, FlushDeadline, Admit, DropOverBudget,
                PushOk, PushPermanent, PushRetryable, Backoff, CommitFails, Abandon, outVars
    <3>2. QED
      BY <1>1, <3>1 DEF Contract!Next
  <2>3. QED
    BY <2>1, <2>2
<1>6. CASE UNCHANGED vars
  BY <1>6 DEF vars, outVars, Contract!vars
<1>7. QED
  BY <1>2, <1>3, <1>4, <1>5, <1>6 DEF Next, Control

\* The pipeline implements its delivery contract: whatever is retried,
\* cancelled, killed or restarted, checkpoints only move forward, and only
\* past settled or forfeit entries.
THEOREM PipelineKeepsContract == Spec => KeepsContract
<1>1. Init => Contract!Init
  BY DEF Init, Contract!Init
<1>2. IInv /\ [Next]_vars => [Contract!Next]_(Contract!vars)
  BY ContractStep
<1>3. QED
  BY <1>1, <1>2, PipelineInvariant, PTL DEF Spec, KeepsContract, Contract!Spec

-----------------------------------------------------------------------------
(* A clean return leaves nothing behind.                                    *)

\* The elements of a queue after an append and without its head.
LEMMA ElemsAppend ==
  ASSUME NEW S, NEW q \in Seq(S), NEW x \in S
  PROVE  Elems(Append(q, x)) = Elems(q) \cup {x}
<1>1. /\ DOMAIN Append(q, x) = DOMAIN q \cup {Len(q) + 1}
      /\ \A i \in DOMAIN q : Append(q, x)[i] = q[i]
      /\ Append(q, x)[Len(q) + 1] = x
  BY AppendFacts
<1>2. QED
  BY <1>1 DEF Elems

LEMMA ElemsTail ==
  ASSUME NEW S, NEW q \in Seq(S), q # <<>>
  PROVE  Elems(q) = Elems(Tail(q)) \cup {Head(q)}
<1>1. /\ 1 \in DOMAIN q /\ Head(q) = q[1]
      /\ \A i \in DOMAIN Tail(q) : i + 1 \in DOMAIN q /\ Tail(q)[i] = q[i + 1]
      /\ \A i \in DOMAIN q : i # 1 => i - 1 \in DOMAIN Tail(q) /\ Tail(q)[i - 1] = q[i]
  BY TailFacts
<1>2. Elems(Tail(q)) \subseteq Elems(q) /\ Head(q) \in Elems(q)
  BY <1>1 DEF Elems
<1>3. ASSUME NEW x \in Elems(q), x # Head(q) PROVE x \in Elems(Tail(q))
  <2>1. PICK i \in DOMAIN q : x = q[i]
    BY <1>3 DEF Elems
  <2>2. i # 1
    BY <1>1, <1>3, <2>1
  <2>3. QED
    BY <1>1, <2>1, <2>2 DEF Elems
<1>4. QED
  BY <1>2, <1>3

\* The last entry of a source that was put is committed or not out of sight.
LastAccounted == \A s \in Sources :
    \/ committed[s] = nxt[s] - 1
    \/ Entry(s, nxt[s] - 1) \in abandoned \cup Elems(batch[LaneOf[s]]) \cup Elems(queue[LaneOf[s]])

\* The consumer waits for a sentinel of these producers.
Pending(l) == {s \in SourcesOf(l) :
    prod[s] \notin ProducerEnded \/ Sentinel(s) \in Elems(queue[l])}

\* While run() waits, a lane's count is that of its pending producers, nothing is
\* behind a producer's sentinel, and what is queued comes from pending producers.
LaneAccount(l) ==
    /\ \A s \in SourcesOf(l) : Sentinel(s) \in Elems(queue[l]) => prod[s] \in ProducerEnded
    /\ \A x \in Elems(queue[l]) : x.src \in Pending(l)
    /\ \A i, j \in DOMAIN queue[l] :
          queue[l][i].pos = 0 /\ queue[l][j].src = queue[l][i].src => j <= i
    /\ active[l] = Cardinality(Pending(l))
    /\ cons[l] = "done" => active[l] = 0 /\ batch[l] = <<>>

Waiting == main \in {"waiting", "joining"}
LanesAccounted ==
    /\ Waiting => \A l \in Lanes : LaneAccount(l)
    /\ main = "waiting" => \A l \in Lanes : cons[l] # "cancelled"

\* Once run() is bound to return, every task has ended and memory is empty.
Returning == main = "returned" \/ (main = "closing" /\ verdict = "returned")
ReturnsQuiet == Returning =>
    /\ \A s \in Sources : prod[s] \in ProducerEnded
    /\ \A l \in Lanes : cons[l] = "done" /\ batch[l] = <<>> /\ queue[l] = <<>>

\* The inductive invariant behind DrainedOnReturn, next to IInv.
DrainInv == LastAccounted /\ LanesAccounted /\ ReturnsQuiet

\* Steps that move no entry keep the account of the last entries.
LEMMA LastFrame ==
  ASSUME LastAccounted, UNCHANGED <<nxt, queue, batch, committed>>, abandoned \subseteq abandoned'
  PROVE  LastAccounted'
  BY DEF LastAccounted, Elems

\* What the commit of a batch does to the account of the last entries.
LEMMA LastCommit ==
  ASSUME TypeOK, FlowInv, LastAccounted, NEW l \in Lanes, Commit(l)
  PROVE  LastAccounted'
<1>1. /\ UNCHANGED <<nxt, queue, abandoned>> /\ committed' = LastTokens(batch[l])
      /\ \A k \in Lanes : k # l => batch'[k] = batch[k]
  BY DEF Commit, NextBatch, consRest, TypeOK
<1> SUFFICES ASSUME NEW s \in Sources, committed'[s] # nxt[s] - 1
             PROVE  Entry(s, nxt[s] - 1) \in abandoned \cup Elems(batch'[LaneOf[s]])
                                              \cup Elems(queue[LaneOf[s]])
  BY <1>1 DEF LastAccounted
<1>2. LaneOf[s] \in Lanes /\ batch[l] \in Seq(Entries) /\ nxt[s] \in Nat /\ committed[s] \in Nat
  BY PipelineAssumption DEF TypeOK, PipelineAssumption
<1>3. \/ /\ \A i \in DOMAIN batch[l] : batch[l][i].src # s
         /\ committed'[s] = committed[s]
      \/ \E i \in DOMAIN batch[l] :
           /\ batch[l][i].src = s
           /\ \A j \in DOMAIN batch[l] : batch[l][j].src = s => j <= i
           /\ committed'[s] = batch[l][i].pos
  BY <1>1, <1>2, LastTokenFacts
<1>4. \A i \in DOMAIN batch[l] : /\ batch[l][i].pos \in Nat /\ i \in Nat
                                 /\ batch[l][i].pos < nxt[batch[l][i].src]
                                 /\ batch[l][i].pos > committed[batch[l][i].src]
  BY <1>2, InFlightFields DEF FlowInv, InFlightBounds
<1>5. Entry(s, nxt[s] - 1) \notin Elems(batch[l])
  <2> SUFFICES ASSUME NEW j \in DOMAIN batch[l], batch[l][j] = Entry(s, nxt[s] - 1)
               PROVE  FALSE
    BY DEF Elems
  <2>1. batch[l][j].src = s /\ batch[l][j].pos = nxt[s] - 1
    BY DEF Entry
  <2>2. PICK i \in DOMAIN batch[l] : /\ batch[l][i].src = s /\ j <= i
                                     /\ committed'[s] = batch[l][i].pos
    BY <1>3, <2>1
  <2>3. i # j
    BY <2>1, <2>2
  <2>4. j < i
    BY <1>4, <2>2, <2>3
  <2>5. batch[l][j].pos < batch[l][i].pos
    BY <2>1, <2>2, <2>4 DEF FlowInv, InFlightOrdered, InOrder
  <2>6. QED
    BY <1>2, <1>4, <2>1, <2>2, <2>5
<1>6. committed[s] # nxt[s] - 1
  BY <1>2, <1>3, <1>4
<1>7. Entry(s, nxt[s] - 1) \in abandoned \cup Elems(batch[LaneOf[s]]) \cup Elems(queue[LaneOf[s]])
  BY <1>6 DEF LastAccounted
<1>8. QED
  BY <1>1, <1>2, <1>5, <1>7

\* Every step keeps the account of the last entries.
LEMMA LastStep ==
  ASSUME IInv, LastAccounted, [Next]_vars
  PROVE  LastAccounted'
<1>0. TypeOK /\ ProducedExists /\ FlowInv
  BY DEF IInv, FlowInv
<1>1. CASE Start \/ Kill
  <2>1. \A s \in Sources : nxt'[s] = committed[s] + 1 /\ committed'[s] = committed[s]
                           /\ committed[s] \in Nat
    BY <1>0, <1>1 DEF Start, Kill, Reset, outVars, TypeOK
  <2>2. QED
    BY <2>1 DEF LastAccounted
<1>2. CASE SetStop \/ Wake \/ Join \/ Close \/ GraceExpired
  <2>1. UNCHANGED <<nxt, queue, batch, committed, abandoned>>
    BY <1>2 DEF SetStop, Wake, Join, Close, GraceExpired, taskVars, laneVars, outVars
  <2>2. QED
    BY <2>1, LastFrame
<1>3. ASSUME NEW s \in Sources, Producer(s)
      PROVE  LastAccounted'
  <2> DEFINE k == LaneOf[s]
  <2>0. k \in Lanes /\ queue[k] \in Seq(Items) /\ nxt[s] \in Nat
    BY <1>0, PipelineAssumption DEF TypeOK, PipelineAssumption
  <2>1. CASE Put(s)
    <3> DEFINE e == Entry(s, nxt[s])
    <3>1. e \in Items
      BY <1>0, <2>1, ProducedType DEF Put
    <3>2. /\ queue'[k] = Append(queue[k], e)
          /\ \A l \in Lanes : l # k => queue'[l] = queue[l]
          /\ nxt'[s] = nxt[s] + 1
          /\ \A r \in Sources : r # s => nxt'[r] = nxt[r]
          /\ UNCHANGED <<batch, committed, abandoned>>
      BY <1>0, <2>0, <2>1 DEF Put, TypeOK, prodRest, laneVars, outVars
    <3>3. Elems(queue'[k]) = Elems(queue[k]) \cup {e}
      BY <2>0, <3>1, <3>2, ElemsAppend
    <3>4. nxt'[s] - 1 = nxt[s]
      BY <2>0, <3>2
    <3>5. \A r \in Sources : LaneOf[r] \in Lanes
      BY PipelineAssumption DEF PipelineAssumption
    <3> QED
      BY <3>2, <3>3, <3>4, <3>5 DEF LastAccounted
  <2>2. CASE PutSentinel(s)
    <3>1. Sentinel(s) \in Items
      BY DEF Items
    <3>2. /\ queue'[k] = Append(queue[k], Sentinel(s))
          /\ \A l \in Lanes : l # k => queue'[l] = queue[l]
          /\ UNCHANGED <<nxt, batch, committed, abandoned>>
      BY <1>0, <2>0, <2>2 DEF PutSentinel, TypeOK, prodRest, laneVars, outVars
    <3>3. Elems(queue[k]) \subseteq Elems(queue'[k])
      BY <2>0, <3>1, <3>2, ElemsAppend
    <3>4. \A r \in Sources : LaneOf[r] \in Lanes
      BY PipelineAssumption DEF PipelineAssumption
    <3> QED
      BY <3>2, <3>3, <3>4 DEF LastAccounted
  <2>3. CASE Yield(s) \/ Charge(s) \/ SourceEnds(s) \/ SourceFails(s)
    <3>1. UNCHANGED <<nxt, queue, batch, committed, abandoned>>
      BY <2>3 DEF Yield, Charge, SourceEnds, SourceFails, prodRest, laneVars, outVars
    <3>2. QED
      BY <3>1, LastFrame
  <2>4. QED
    BY <1>3, <2>1, <2>2, <2>3 DEF Producer
<1>4. ASSUME NEW l \in Lanes, Consumer(l)
      PROVE  LastAccounted'
  <2>1. CASE GetEntry(l) \/ GetSentinel(l)
    <3> DEFINE e == Head(queue[l])
    <3>1. queue[l] # <<>> /\ queue[l] \in Seq(Items) /\ batch[l] \in Seq(Entries)
      BY <1>0, <2>1 DEF GetEntry, GetSentinel, TypeOK
    <3>2. e \in Items
      BY <1>0, <3>1, HeadType
    <3>3. /\ queue'[l] = Tail(queue[l])
          /\ \A k \in Lanes : k # l => queue'[k] = queue[k] /\ batch'[k] = batch[k]
          /\ UNCHANGED <<nxt, committed, abandoned>>
      BY <1>0, <2>1 DEF GetEntry, GetSentinel, TypeOK, consRest, outVars
    <3>4. Elems(queue[l]) = Elems(queue'[l]) \cup {e}
      BY <3>1, <3>3, ElemsTail
    <3>5. /\ Elems(batch[l]) \subseteq Elems(batch'[l])
          /\ e \in Elems(batch'[l]) \/ e.pos = 0
      <4>1. CASE GetEntry(l)
        <5>1. e \in Entries /\ batch'[l] = Append(batch[l], e)
          BY <1>0, <3>2, <4>1, ItemFacts DEF GetEntry, TypeOK
        <5>2. Elems(batch'[l]) = Elems(batch[l]) \cup {e}
          BY <3>1, <5>1, ElemsAppend
        <5> QED
          BY <5>2
      <4>2. CASE GetSentinel(l)
        BY <4>2 DEF GetSentinel, IsSentinel
      <4> QED
        BY <2>1, <4>1, <4>2
    <3> HIDE DEF e
    <3>6. \A s \in Sources : /\ LaneOf[s] \in Lanes
                             /\ nxt[s] \in Nat /\ committed[s] \in Nat /\ committed[s] < nxt[s]
                             /\ Entry(s, nxt[s] - 1).pos = nxt[s] - 1
      BY <1>0, PipelineAssumption DEF TypeOK, FlowInv, Accounted, PipelineAssumption, Entry
    <3>7. \A s \in Sources : nxt[s] - 1 = 0 => committed[s] = nxt[s] - 1
      BY <3>6
    <3> QED
      BY <3>3, <3>4, <3>5, <3>6, <3>7 DEF LastAccounted
  <2>2. CASE \/ FlushDeadline(l) \/ Admit(l) \/ CommitFails(l)
             \/ DropOverBudget(l) \/ PushOk(l) \/ PushPermanent(l)
    <3>1. UNCHANGED <<nxt, queue, batch, committed, abandoned>>
      BY <2>2 DEF FlushDeadline, Admit, CommitFails, DropOverBudget, PushOk, PushPermanent,
                  consRest, outVars
    <3>2. QED
      BY <3>1, LastFrame
  <2>3. CASE PushRetryable(l) \/ Backoff(l)
    <3>1. UNCHANGED <<nxt, queue, committed>>
      BY <2>3 DEF PushRetryable, Backoff, consRest
    <3>2. CASE Abandon(l)
      <4>1. /\ abandoned' = abandoned \cup Elems(batch[l])
            /\ \A k \in Lanes : k # l => batch'[k] = batch[k]
        BY <1>0, <3>2 DEF Abandon, NextBatch, TypeOK
      <4>2. \A s \in Sources : LaneOf[s] \in Lanes
        BY PipelineAssumption DEF PipelineAssumption
      <4> QED
        BY <3>1, <4>1, <4>2 DEF LastAccounted
    <3>3. CASE UNCHANGED <<batch, abandoned>>
      BY <3>1, <3>3, LastFrame
    <3>4. QED
      BY <2>3, <3>2, <3>3 DEF PushRetryable, Backoff
  <2>4. CASE Commit(l)
    BY <1>0, <2>4, LastCommit
  <2>5. QED
    BY <1>4, <2>1, <2>2, <2>3, <2>4 DEF Consumer
<1>5. CASE UNCHANGED vars
  BY <1>5, LastFrame DEF vars, taskVars, laneVars, outVars
<1>6. QED
  BY <1>1, <1>2, <1>3, <1>4, <1>5 DEF Next, Control

\* A lane keeps its account in a step that leaves its queue alone, ends no producer
\* and ends its consumer only when no sentinel is awaited.
LEMMA LaneFrame ==
  ASSUME NEW l \in Lanes, LaneAccount(l),
         queue'[l] = queue[l], active'[l] = active[l],
         \A s \in SourcesOf(l) : prod'[s] \in ProducerEnded <=> prod[s] \in ProducerEnded,
         cons'[l] = "done" => \/ cons[l] = "done" /\ batch'[l] = batch[l]
                              \/ active[l] = 0 /\ batch'[l] = <<>>
  PROVE  LaneAccount(l)'
<1>1. Elems(queue[l])' = Elems(queue[l])
  BY DEF Elems
<1>2. Pending(l)' = Pending(l)
  BY <1>1 DEF Pending
<1>3. QED
  BY <1>1, <1>2 DEF LaneAccount

\* A producer appends its entry, or its sentinel as it ends.
LEMMA LaneAppend ==
  ASSUME TypeOK, NEW k \in Lanes, LaneAccount(k), NEW s \in SourcesOf(k), NEW e \in Items,
         e.src = s, prod[s] \notin ProducerEnded, queue'[k] = Append(queue[k], e),
         \/ e = Sentinel(s) /\ prod'[s] \in ProducerEnded
         \/ e.pos # 0 /\ prod'[s] \notin ProducerEnded,
         \A r \in Sources : r # s => prod'[r] = prod[r],
         UNCHANGED <<active, cons, batch>>
  PROVE  LaneAccount(k)'
<1>1. queue[k] \in Seq(Items)
  BY DEF TypeOK
<1>2. Elems(queue[k])' = Elems(queue[k]) \cup {e}
  BY <1>1, ElemsAppend
<1>3. /\ DOMAIN queue'[k] = DOMAIN queue[k] \cup {Len(queue[k]) + 1}
      /\ \A i \in DOMAIN queue[k] : i \in 1..Len(queue[k]) /\ queue'[k][i] = queue[k][i]
      /\ queue'[k][Len(queue[k]) + 1] = e
      /\ Len(queue[k]) \in Nat
  BY <1>1, AppendFacts
<1>4. Sentinel(s) \notin Elems(queue[k])
  BY DEF LaneAccount
<1>5. \A r \in Sources : r # s => Sentinel(r) # e
  BY DEF Sentinel, Entry
<1>6. SourcesOf(k) \subseteq Sources
  BY DEF SourcesOf
<1>7. Sentinel(s).pos = 0
  BY DEF Sentinel, Entry
<1>8. Pending(k)' = Pending(k)
  <2>1. ASSUME NEW r \in SourcesOf(k)
        PROVE  (prod'[r] \notin ProducerEnded \/ Sentinel(r) \in Elems(queue[k])')
                  <=> (prod[r] \notin ProducerEnded \/ Sentinel(r) \in Elems(queue[k]))
    <3>1. CASE r = s
      BY <1>2, <1>4, <1>7, <3>1
    <3>2. CASE r # s
      BY <1>2, <1>5, <1>6, <3>2
    <3> QED
      BY <3>1, <3>2
  <2> QED
    BY <2>1 DEF Pending
<1>9. \A r \in SourcesOf(k) : Sentinel(r) \in Elems(queue[k])' => prod'[r] \in ProducerEnded
  <2> SUFFICES ASSUME NEW r \in SourcesOf(k), Sentinel(r) \in Elems(queue[k])'
               PROVE  prod'[r] \in ProducerEnded
    OBVIOUS
  <2>1. CASE r = s
    BY <1>2, <1>4, <1>7, <2>1
  <2>2. CASE r # s
    BY <1>2, <1>5, <1>6, <2>2 DEF LaneAccount
  <2> QED
    BY <2>1, <2>2
<1>10. \A x \in Elems(queue[k])' : x.src \in Pending(k)
  <2>1. s \in Pending(k)
    BY DEF Pending
  <2> QED
    BY <1>2, <2>1 DEF LaneAccount
<1>11. \A i, j \in DOMAIN queue'[k] :
          queue'[k][i].pos = 0 /\ queue'[k][j].src = queue'[k][i].src => j <= i
  <2> SUFFICES ASSUME NEW i \in DOMAIN queue'[k], NEW j \in DOMAIN queue'[k],
                      queue'[k][i].pos = 0, queue'[k][j].src = queue'[k][i].src
               PROVE  j <= i
    OBVIOUS
  <2>1. CASE i = Len(queue[k]) + 1
    BY <1>3, <2>1
  <2>2. CASE i \in DOMAIN queue[k] /\ j \in DOMAIN queue[k]
    BY <1>3, <2>2 DEF LaneAccount
  <2>3. CASE i \in DOMAIN queue[k] /\ j = Len(queue[k]) + 1
    <3>1. queue[k][i] \in Items /\ queue[k][i] \in Elems(queue[k])
      BY <1>1, <2>3, ElemsType DEF Elems
    <3>2. queue[k][i].src = s /\ queue[k][i].pos = 0
      BY <1>3, <2>3
    <3>3. queue[k][i] = Sentinel(s)
      BY <3>1, <3>2, ItemFacts DEF Sentinel
    <3> QED
      BY <1>4, <3>1, <3>3
  <2> QED
    BY <1>3, <2>1, <2>2, <2>3
<1>12. QED
  BY <1>8, <1>9, <1>10, <1>11 DEF LaneAccount

\* The consumer takes the head off its queue.
LEMMA LaneGet ==
  ASSUME TypeOK, NEW l \in Lanes, LaneAccount(l), GetEntry(l) \/ GetSentinel(l)
  PROVE  LaneAccount(l)'
<1> DEFINE e == Head(queue[l])
<1>1. queue[l] # <<>> /\ queue[l] \in Seq(Items)
  BY DEF GetEntry, GetSentinel, TypeOK
<1>2. queue'[l] = Tail(queue[l]) /\ UNCHANGED prod
  BY DEF GetEntry, GetSentinel, TypeOK, consRest
<1>3. Elems(queue[l]) = Elems(queue[l])' \cup {e}
  BY <1>1, <1>2, ElemsTail
<1>4. /\ e \in Items /\ 1 \in DOMAIN queue[l] /\ e = queue[l][1]
      /\ \A i \in DOMAIN queue'[l] : i + 1 \in DOMAIN queue[l] /\ queue'[l][i] = queue[l][i + 1]
                                     /\ i \in Nat /\ 1 < i + 1
  BY <1>1, <1>2, TailFacts
<1>5. \A i, j \in DOMAIN queue'[l] :
          queue'[l][i].pos = 0 /\ queue'[l][j].src = queue'[l][i].src => j <= i
  <2> SUFFICES ASSUME NEW i \in DOMAIN queue'[l], NEW j \in DOMAIN queue'[l],
                      queue'[l][i].pos = 0, queue'[l][j].src = queue'[l][i].src
               PROVE  j <= i
    OBVIOUS
  <2>1. j + 1 <= i + 1
    BY <1>4 DEF LaneAccount
  <2> QED
    BY <1>4, <2>1
<1>6. e.src \in Pending(l)
  BY <1>3 DEF LaneAccount
<1>7. \A s \in SourcesOf(l) : Sentinel(s) \in Elems(queue[l])' => prod'[s] \in ProducerEnded
  BY <1>2, <1>3 DEF LaneAccount
<1> HIDE DEF e
<1>8. CASE GetEntry(l)
  <2>1. e.pos # 0 /\ active' = active /\ cons'[l] # "done"
    BY <1>8 DEF GetEntry, IsSentinel, FlushAt, TypeOK, e
  <2>2. \A s \in Sources : Sentinel(s) # e
    BY <2>1 DEF Sentinel, Entry
  <2>3. Pending(l)' = Pending(l)
    <3>1. \A s \in SourcesOf(l) : Sentinel(s) \in Elems(queue[l])' <=> Sentinel(s) \in Elems(queue[l])
      BY <1>3, <2>2 DEF SourcesOf
    <3> QED
      BY <1>2, <3>1 DEF Pending
  <2>4. \A x \in Elems(queue[l])' : x.src \in Pending(l)
    BY <1>3 DEF LaneAccount
  <2>5. active[l] = Cardinality(Pending(l))
    BY DEF LaneAccount
  <2> QED
    BY <1>5, <1>7, <2>1, <2>3, <2>4, <2>5 DEF LaneAccount
<1>9. CASE GetSentinel(l)
  <2> DEFINE s == e.src
  <2>1. e.pos = 0
    BY <1>9 DEF GetSentinel, IsSentinel, e
  <2>2. e = Sentinel(s)
    BY <1>4, <2>1, ItemFacts DEF Sentinel
  <2> HIDE DEF s
  <2>3. \A x \in Elems(queue[l])' : x.src # s
    <3> SUFFICES ASSUME NEW i \in DOMAIN queue'[l], queue'[l][i].src = s PROVE FALSE
      BY DEF Elems
    <3>1. i + 1 \in DOMAIN queue[l] /\ queue[l][i + 1].src = queue[l][1].src /\ queue[l][1].pos = 0
      BY <1>4, <2>1 DEF s
    <3>2. i + 1 <= 1
      BY <1>4, <3>1 DEF LaneAccount
    <3> QED
      BY <1>4, <3>2
  <2>4. \A r \in Sources : Sentinel(r).src = r
    BY DEF Sentinel, Entry
  <2>5. s \in SourcesOf(l) /\ s \in Sources /\ s \in Pending(l)
    BY <1>6 DEF Pending, SourcesOf, s
  <2>6. prod[s] \in ProducerEnded
    BY <1>3, <2>2, <2>5 DEF LaneAccount
  <2>7. Pending(l)' = Pending(l) \ {s}
    <3>1. ASSUME NEW r \in SourcesOf(l)
          PROVE  (prod'[r] \notin ProducerEnded \/ Sentinel(r) \in Elems(queue[l])')
                   <=> /\ r # s
                       /\ prod[r] \notin ProducerEnded \/ Sentinel(r) \in Elems(queue[l])
      <4>1. r \in Sources
        BY DEF SourcesOf
      <4>2. CASE r = s
        BY <1>2, <2>3, <2>4, <2>6, <4>1, <4>2
      <4>3. CASE r # s
        <5>1. Sentinel(r) # e
          BY <2>2, <2>4, <2>5, <4>1, <4>3
        <5> QED
          BY <1>2, <1>3, <4>3, <5>1
      <4> QED
        BY <4>2, <4>3
    <3> QED
      BY <3>1 DEF Pending
  <2>8. /\ Cardinality(Pending(l)) \in Nat /\ Cardinality(Pending(l)) > 0
        /\ Cardinality(Pending(l) \ {s}) = Cardinality(Pending(l)) - 1
    <3>1. Pending(l) \subseteq Sources
      BY DEF Pending, SourcesOf
    <3>2. IsFiniteSet(Pending(l))
      BY <3>1, FS_Subset, PipelineAssumption DEF PipelineAssumption
    <3>3. Pending(l) # {}
      BY <2>5
    <3>4. Cardinality(Pending(l)) \in Nat /\ Cardinality(Pending(l)) # 0
      BY <3>2, <3>3, FS_CardinalityType, FS_EmptySet
    <3>5. Cardinality(Pending(l) \ {s}) = Cardinality(Pending(l)) - 1
      BY <2>5, <3>2, FS_RemoveElement
    <3> QED
      BY <3>4, <3>5
  <2>9. /\ active[l] = Cardinality(Pending(l)) /\ active'[l] = active[l] - 1
        /\ batch' = batch
        /\ cons'[l] = "done" => active[l] <= 1 /\ batch[l] = <<>>
    <3>1. active[l] = Cardinality(Pending(l))
      BY DEF LaneAccount
    <3>2. active'[l] = active[l] - 1 /\ batch' = batch
      BY <1>9 DEF GetSentinel, TypeOK
    <3>3. cons'[l] = "done" => ~(active[l] > 1) /\ batch[l] = <<>>
      BY <1>9 DEF GetSentinel, TypeOK, FlushAt
    <3> QED
      BY <2>8, <3>1, <3>2, <3>3
  <2>10. \A x \in Elems(queue[l])' : x.src \in Pending(l) \ {s}
    BY <1>3, <2>3 DEF LaneAccount
  <2>11. active'[l] = Cardinality(Pending(l) \ {s}) /\ (cons'[l] = "done" => active'[l] = 0)
    BY <2>8, <2>9
  <2> QED
    BY <1>5, <1>7, <2>7, <2>9, <2>10, <2>11 DEF LaneAccount
<1>10. QED
  BY <1>8, <1>9

\* A lane whose consumer is through has no producer at work and nothing in memory.
LEMMA LaneDone ==
  ASSUME TypeOK, NEW l \in Lanes, LaneAccount(l), cons[l] = "done"
  PROVE  /\ batch[l] = <<>> /\ queue[l] = <<>>
         /\ \A s \in SourcesOf(l) : prod[s] \in ProducerEnded
<1>1. Pending(l) \subseteq Sources
  BY DEF Pending, SourcesOf
<1>2. IsFiniteSet(Pending(l))
  BY <1>1, FS_Subset, PipelineAssumption DEF PipelineAssumption
<1>3. Cardinality(Pending(l)) = 0 /\ batch[l] = <<>>
  BY DEF LaneAccount
<1>4. Pending(l) = {}
  BY <1>2, <1>3, FS_EmptySet
<1>5. Elems(queue[l]) = {}
  BY <1>4 DEF LaneAccount
<1>6. queue[l] = <<>>
  <2>1. queue[l] \in Seq(Items)
    BY DEF TypeOK
  <2>2. queue[l] # <<>> => 1 \in DOMAIN queue[l]
    BY <2>1, TailFacts
  <2> QED
    BY <1>5, <2>2 DEF Elems
<1>7. QED
  BY <1>3, <1>4, <1>6 DEF Pending

\* Every lane keeps its account as long as run() waits.
LEMMA LanesStep ==
  ASSUME IInv, LanesAccounted, [Next]_vars
  PROVE  LanesAccounted'
<1>0. TypeOK /\ ProducedExists
  BY DEF IInv
<1>1. CASE Start
  <2>1. /\ \A l \in Lanes : queue'[l] = <<>> /\ batch'[l] = <<>>
        /\ \A s \in Sources : prod'[s] = "events"
        /\ \A l \in Lanes : /\ active'[l] = Cardinality(SourcesOf(l))
                            /\ cons'[l] = IF SourcesOf(l) = {} THEN "done" ELSE "get"
    BY <1>1 DEF Start, Reset
  <2> SUFFICES ASSUME NEW l \in Lanes PROVE LaneAccount(l)' /\ cons'[l] # "cancelled"
    BY DEF LanesAccounted
  <2>2. Elems(queue[l])' = {}
    BY <2>1 DEF Elems
  <2>3. Pending(l)' = SourcesOf(l)
    BY <2>1, <2>2 DEF Pending, ProducerEnded, SourcesOf
  <2>4. cons'[l] = "done" => active'[l] = 0
    BY <2>1, FS_EmptySet
  <2>5. \A s \in SourcesOf(l) : ~(Sentinel(s) \in Elems(queue[l])')
    BY <2>2
  <2> QED
    BY <2>1, <2>2, <2>3, <2>4, <2>5 DEF LaneAccount
<1>2. CASE ~Waiting'
  BY <1>2 DEF LanesAccounted, Waiting
<1>3. CASE Waiting' /\ ~Start
  <2>1. Waiting /\ (main' = "waiting" => main = "waiting")
    BY <1>0, <1>3 DEF Next, Control, Kill, SetStop, Wake, Join, Close, GraceExpired, Finally,
                      Waiting, TypeOK, Finished, Producer, Yield, Charge, Put, SourceEnds,
                      SourceFails, PutSentinel, Consumer, GetEntry, GetSentinel, FlushDeadline,
                      Admit, DropOverBudget, PushOk, PushPermanent, PushRetryable, Backoff, Commit,
                      CommitFails, prodRest, consRest, vars, mainVars
  <2>2. \A l \in Lanes : LaneAccount(l) /\ (main = "waiting" => cons[l] # "cancelled")
    BY <2>1 DEF LanesAccounted
  <2> SUFFICES ASSUME NEW l \in Lanes
               PROVE  LaneAccount(l)' /\ (main' = "waiting" => cons'[l] # "cancelled")
    BY DEF LanesAccounted
  <2>3. CASE SetStop \/ Wake \/ Join \/ Close \/ GraceExpired \/ Kill \/ UNCHANGED vars
    <3>1. /\ UNCHANGED <<queue, active, batch, prod>>
          /\ UNCHANGED cons \/ (main = "joining" /\ CancelConsumers)
      BY <1>0, <1>3, <2>1, <2>3 DEF SetStop, Wake, Join, Close, GraceExpired, Kill, Finally, Waiting,
             TypeOK, Finished, taskVars, laneVars, vars
    <3>2. cons'[l] = "done" => cons[l] = "done"
      BY <3>1 DEF CancelConsumers, CancelledCons, ConsumerEnded
    <3>3. LaneAccount(l)'
      BY <2>2, <3>1, <3>2, LaneFrame
    <3> QED
      BY <2>1, <2>2, <3>1, <3>3
  <2>4. ASSUME NEW s \in Sources, Producer(s)
        PROVE  LaneAccount(l)' /\ cons'[l] = cons[l]
    <3>0. UNCHANGED <<active, cons, batch>> /\ (\A r \in Sources : r # s => prod'[r] = prod[r])
      BY <1>0, <2>4 DEF Producer, Yield, Charge, Put, SourceEnds, SourceFails, PutSentinel,
                        prodRest, laneVars, TypeOK
    <3>1. CASE l = LaneOf[s] /\ (Put(s) \/ PutSentinel(s))
      <4>1. s \in SourcesOf(l)
        BY <3>1 DEF SourcesOf
      <4>2. CASE Put(s)
        <5>1. Entry(s, nxt[s]) \in Items /\ Entry(s, nxt[s]).src = s /\ Entry(s, nxt[s]).pos # 0
          <6>1. nxt[s] # 0
            BY <1>0 DEF TypeOK
          <6> QED
            BY <1>0, <4>2, <6>1, ProducedType DEF Put, Entry
        <5>2. /\ queue'[l] = Append(queue[l], Entry(s, nxt[s]))
              /\ prod[s] \notin ProducerEnded /\ prod'[s] \notin ProducerEnded
          BY <1>0, <3>1, <4>2 DEF Put, TypeOK, ProducerEnded
        <5>3. LaneAccount(l)'
          BY <1>0, <2>2, <3>0, <4>1, <5>1, <5>2, LaneAppend
        <5> QED
          BY <3>0, <5>3
      <4>3. CASE PutSentinel(s)
        <5>1. Sentinel(s) \in Items /\ Sentinel(s).src = s
          BY DEF Items, Sentinel, Entry
        <5>2. /\ queue'[l] = Append(queue[l], Sentinel(s))
              /\ prod[s] \notin ProducerEnded /\ prod'[s] \in ProducerEnded
          BY <1>0, <3>1, <4>3 DEF PutSentinel, TypeOK, ProducerEnded
        <5>3. LaneAccount(l)'
          BY <1>0, <2>2, <3>0, <4>1, <5>1, <5>2, LaneAppend
        <5> QED
          BY <3>0, <5>3
      <4> QED
        BY <3>1, <4>2, <4>3
    <3>2. CASE ~(l = LaneOf[s] /\ (Put(s) \/ PutSentinel(s)))
      <4>1. queue'[l] = queue[l]
        BY <1>0, <2>4, <3>2 DEF Producer, Yield, Charge, Put, SourceEnds, SourceFails, PutSentinel, TypeOK
      <4>2. \A r \in SourcesOf(l) : prod'[r] \in ProducerEnded <=> prod[r] \in ProducerEnded
        <5>1. l = LaneOf[s] => (prod'[s] \notin ProducerEnded /\ prod[s] \notin ProducerEnded)
          BY <1>0, <2>4, <3>2 DEF Producer, Yield, Charge, SourceEnds, SourceFails, TypeOK, ProducerEnded
        <5> QED
          BY <3>0, <5>1 DEF SourcesOf
      <4>3. LaneAccount(l)'
        BY <2>2, <3>0, <4>1, <4>2, LaneFrame
      <4> QED
        BY <3>0, <4>3
    <3> QED
      BY <3>1, <3>2
  <2>5. ASSUME NEW k \in Lanes, Consumer(k)
        PROVE  LaneAccount(l)' /\ (cons'[l] = "cancelled" => cons[l] = "cancelled")
    <3>0. cons'[l] = "cancelled" => cons[l] = "cancelled"
      BY <1>0, <2>5 DEF Consumer, GetEntry, GetSentinel, FlushDeadline, Admit, DropOverBudget, PushOk,
                 PushPermanent, PushRetryable, Backoff, Commit, CommitFails, Abandon, NextBatch,
                 FlushAt, TypeOK
    <3>1. CASE l # k
      <4>1. /\ queue'[l] = queue[l] /\ active'[l] = active[l] /\ prod' = prod
            /\ cons'[l] = cons[l] /\ batch'[l] = batch[l]
        BY <1>0, <2>5, <3>1 DEF Consumer, GetEntry, GetSentinel, FlushDeadline, Admit, DropOverBudget,
                 PushOk, PushPermanent, PushRetryable, Backoff, Commit, CommitFails, Abandon,
                 NextBatch, consRest, TypeOK
      <4>2. LaneAccount(l)'
        BY <2>2, <4>1, LaneFrame
      <4> QED
        BY <3>0, <4>2
    <3>2. CASE l = k /\ (GetEntry(l) \/ GetSentinel(l))
      BY <1>0, <2>2, <3>0, <3>2, LaneGet
    <3>3. CASE l = k /\ ~(GetEntry(l) \/ GetSentinel(l))
      <4>1. queue' = queue /\ active' = active /\ prod' = prod
        BY <2>5, <3>3 DEF Consumer, FlushDeadline, Admit, DropOverBudget, PushOk, PushPermanent,
                 PushRetryable, Backoff, Commit, CommitFails, consRest
      <4>2. cons'[l] = "done" => active[l] = 0 /\ batch'[l] = <<>>
        BY <1>0, <2>5, <3>3 DEF Consumer, FlushDeadline, Admit, DropOverBudget, PushOk, PushPermanent,
                 PushRetryable, Backoff, Commit, CommitFails, Abandon, NextBatch, FlushAt, TypeOK
      <4>3. LaneAccount(l)'
        BY <2>2, <4>1, <4>2, LaneFrame
      <4> QED
        BY <3>0, <4>3
    <3> QED
      BY <3>1, <3>2, <3>3
  <2> QED
    BY <1>3, <2>1, <2>2, <2>3, <2>4, <2>5 DEF Next, Control
<1>4. QED
  BY <1>1, <1>2, <1>3

\* run() gets ready to return only after its tasks, and then nothing moves.
LEMMA QuietStep ==
  ASSUME IInv, LanesAccounted, ReturnsQuiet, [Next]_vars
  PROVE  ReturnsQuiet'
<1>0. TypeOK
  BY DEF IInv
<1> SUFFICES ASSUME Returning'
             PROVE  /\ \A s \in Sources : prod'[s] \in ProducerEnded
                    /\ \A l \in Lanes : cons'[l] = "done" /\ batch'[l] = <<>> /\ queue'[l] = <<>>
  BY DEF ReturnsQuiet
<1> DEFINE Quiet == /\ \A s \in Sources : prod[s] \in ProducerEnded
                    /\ \A l \in Lanes : cons[l] = "done" /\ batch[l] = <<>> /\ queue[l] = <<>>
<1>1. ASSUME Waiting, \A l \in Lanes : cons[l] = "done" PROVE Quiet
  <2>1. \A l \in Lanes : /\ batch[l] = <<>> /\ queue[l] = <<>>
                         /\ \A s \in SourcesOf(l) : prod[s] \in ProducerEnded
    BY <1>0, <1>1, LaneDone DEF LanesAccounted
  <2>2. \A s \in Sources : LaneOf[s] \in Lanes /\ s \in SourcesOf(LaneOf[s])
    BY PipelineAssumption DEF PipelineAssumption, SourcesOf
  <2> QED
    BY <1>1, <2>1, <2>2
<1>2. Quiet => /\ CancelProducers => UNCHANGED prod
               /\ CancelConsumers => UNCHANGED cons
  BY DEF CancelProducers, CancelConsumers, ProducersDone, ConsumersDone, ConsumerEnded
<1>3. Returning => Quiet
  BY DEF ReturnsQuiet
<1>4. CASE Quiet /\ UNCHANGED <<batch, queue>> /\ UNCHANGED prod /\ UNCHANGED cons
  BY <1>4
<1>5. CASE Start \/ Kill
  BY <1>5 DEF Start, Kill, Returning
<1>6. CASE SetStop \/ UNCHANGED vars
  <2>1. UNCHANGED <<main, verdict, batch, queue, prod, cons>>
    BY <1>6 DEF SetStop, vars, mainVars, taskVars, laneVars
  <2> QED
    BY <1>3, <1>4, <2>1 DEF Returning
<1>7. CASE Wake
  <2>1. UNCHANGED <<batch, queue>> /\ main = "waiting"
    BY <1>7 DEF Wake
  <2>2. /\ ConsumersDone /\ ~ProducersDone /\ \A l \in Lanes : cons[l] # "dead"
    BY <1>7 DEF Wake, Finally, Returning
  <2>3. \A l \in Lanes : cons[l] = "done"
    BY <2>1, <2>2 DEF ConsumersDone, ConsumerEnded, LanesAccounted
  <2>4. \A s \in Sources : prod[s] \in ProducerEnded
    BY <1>1, <2>1, <2>3 DEF Waiting
  <2> QED
    BY <2>2, <2>4 DEF ProducersDone
<1>8. CASE Join
  <2>1. UNCHANGED <<batch, queue>> /\ main = "joining" /\ CancelProducers /\ CancelConsumers
    BY <1>8 DEF Join, Finally
  <2>2. ConsumersDone /\ \A l \in Lanes : cons[l] # "dead" /\ cons[l] # "cancelled"
    BY <1>8 DEF Join, Finally, Returning
  <2>3. \A l \in Lanes : cons[l] = "done"
    BY <2>2 DEF ConsumersDone, ConsumerEnded
  <2>4. Quiet
    BY <1>1, <2>1, <2>3 DEF Waiting
  <2> QED
    BY <1>2, <1>4, <2>1, <2>4
<1>9. CASE Close
  <2>1. UNCHANGED <<batch, queue, prod, cons>> /\ main = "closing" /\ main' = verdict
        /\ UNCHANGED verdict
    BY <1>9 DEF Close, taskVars, laneVars
  <2>2. verdict \in Finished
    BY <1>0, <2>1 DEF TypeOK
  <2>3. Returning
    BY <2>1, <2>2 DEF Returning, Finished
  <2> QED
    BY <1>3, <1>4, <2>1, <2>3
<1>10. CASE GraceExpired
  <2>1. /\ UNCHANGED <<batch, queue>> /\ main = "closing" /\ UNCHANGED <<main, verdict>>
        /\ CancelProducers /\ CancelConsumers
    BY <1>10 DEF GraceExpired, Finally, Returning
  <2>2. Quiet
    BY <1>3, <2>1 DEF Returning
  <2> QED
    BY <1>2, <1>4, <2>1, <2>2
<1>11. ASSUME NEW s \in Sources, Producer(s) PROVE FALSE
  <2>1. UNCHANGED <<main, verdict>> /\ prod[s] \notin ProducerEnded
    BY <1>11 DEF Producer, Yield, Charge, Put, SourceEnds, SourceFails, PutSentinel, prodRest,
                 mainVars, ProducerEnded
  <2> QED
    BY <1>3, <2>1 DEF Returning
<1>12. ASSUME NEW l \in Lanes, Consumer(l) PROVE FALSE
  <2>1. UNCHANGED <<main, verdict>> /\ cons[l] # "done"
    BY <1>12 DEF Consumer, GetEntry, GetSentinel, FlushDeadline, Admit, DropOverBudget, PushOk,
                 PushPermanent, PushRetryable, Backoff, Commit, CommitFails, consRest, mainVars
  <2> QED
    BY <1>3, <2>1 DEF Returning
<1>13. QED
  BY <1>5, <1>6, <1>7, <1>8, <1>9, <1>10, <1>11, <1>12 DEF Next, Control

\* A clean return of run() leaves no entry behind: whatever was produced, in
\* whichever lane and order, is committed, or abandoned to stop.
THEOREM ReturnDrains == Spec => []DrainedOnReturn
<1>1. Init => DrainInv
  <2> SUFFICES ASSUME Init PROVE DrainInv
    OBVIOUS
  <2>1. LanesAccounted /\ ReturnsQuiet
    BY DEF Init, LanesAccounted, ReturnsQuiet, Returning, Waiting
  <2>2. LastAccounted
    BY DEF Init, LastAccounted
  <2> QED
    BY <2>1, <2>2 DEF DrainInv
<1>2. IInv /\ DrainInv /\ [Next]_vars => DrainInv'
  BY LastStep, LanesStep, QuietStep DEF DrainInv
<1>3. IInv /\ DrainInv => DrainedOnReturn
  <2> SUFFICES ASSUME DrainInv, main = "returned", NEW s \in Sources, committed[s] # nxt[s] - 1
               PROVE  Entry(s, nxt[s] - 1) \in abandoned
    BY DEF DrainedOnReturn
  <2>1. LaneOf[s] \in Lanes
    BY PipelineAssumption DEF PipelineAssumption
  <2>2. batch[LaneOf[s]] = <<>> /\ queue[LaneOf[s]] = <<>>
    BY <2>1 DEF DrainInv, ReturnsQuiet, Returning
  <2>3. Elems(batch[LaneOf[s]]) = {} /\ Elems(queue[LaneOf[s]]) = {}
    BY <2>2 DEF Elems
  <2> QED
    BY <2>3 DEF DrainInv, LastAccounted
<1>4. QED
  BY <1>1, <1>2, <1>3, PipelineInvariant, PTL DEF Spec

-----------------------------------------------------------------------------
(* The byte accounts are exact.                                             *)

\* A finite set of entries has finitely many bytes.
LEMMA BytesFinite ==
  ASSUME NEW S \in SUBSET Items, IsFiniteSet(S)
  PROVE  IsFiniteSet(BytesOf(S)) /\ CostOf(S) \in Nat
<1>1. \A e \in S : EntryCost(e) \in Nat /\ EntryCost(e) <= MaxCost
  BY EntryCostType
<1>2. MaxCost \in Nat
  BY PipelineAssumption DEF PipelineAssumption
<1>3. BytesOf(S) \subseteq S \X (1..MaxCost)
  BY <1>1, <1>2 DEF BytesOf
<1>4. IsFiniteSet(S \X (1..MaxCost))
  <2>1. IsFiniteSet(1..MaxCost)
    BY <1>2, FS_Interval
  <2> QED
    BY <2>1, FS_Product
<1> QED
  BY <1>3, <1>4, FS_Subset, FS_CardinalityType DEF CostOf

\* One more entry adds what it costs.
LEMMA CostAdds ==
  ASSUME NEW S \in SUBSET Items, IsFiniteSet(S), NEW e \in Items, e \notin S \/ EntryCost(e) = 0
  PROVE  IsFiniteSet(S \cup {e}) /\ CostOf(S \cup {e}) = CostOf(S) + EntryCost(e)
<1> DEFINE own == {e} \X (1..EntryCost(e))
<1>0. IsFiniteSet(S \cup {e})
  BY FS_AddElement
<1>1. EntryCost(e) \in Nat
  BY EntryCostType
<1>2. BytesOf(S \cup {e}) = BytesOf(S) \cup own
  BY DEF BytesOf
<1>3. BytesOf(S) \cap own = {}
  <2>1. CASE e \notin S
    BY <2>1 DEF BytesOf
  <2>2. CASE EntryCost(e) = 0
    <3>1. 1..EntryCost(e) = {}
      BY <2>2
    <3> QED
      BY <3>1
  <2> QED
    BY <2>1, <2>2
<1>4. IsFiniteSet(own) /\ Cardinality(own) = EntryCost(e)
  <2>1. IsFiniteSet({e}) /\ Cardinality({e}) = 1
    BY FS_Singleton
  <2>2. IsFiniteSet(1..EntryCost(e)) /\ Cardinality(1..EntryCost(e)) = EntryCost(e)
    BY <1>1, FS_Interval
  <2>3. IsFiniteSet(own) /\ Cardinality(own) = 1 * EntryCost(e)
    BY <2>1, <2>2, FS_Product
  <2> QED
    BY <1>1, <2>3
<1>5. IsFiniteSet(BytesOf(S)) /\ CostOf(S) \in Nat
  BY BytesFinite
<1>6. Cardinality(BytesOf(S) \cup own)
        = Cardinality(BytesOf(S)) + Cardinality(own) - Cardinality(BytesOf(S) \cap own)
  BY <1>4, <1>5, FS_Union
<1>7. Cardinality(BytesOf(S) \cap own) = 0
  BY <1>3, FS_EmptySet
<1>8. CostOf(S \cup {e}) = CostOf(S) + EntryCost(e) - 0
  BY <1>2, <1>4, <1>6, <1>7 DEF CostOf
<1> QED
  BY <1>0, <1>1, <1>5, <1>8

\* Nothing costs nothing.
LEMMA CostOfNothing == CostOf({}) = 0
<1>1. BytesOf({}) = {}
  BY DEF BytesOf
<1> QED
  BY <1>1, FS_EmptySet DEF CostOf

\* What a lane holds, and what is still to be put into it, are finitely many items.
LEMMA LaneHolds ==
  ASSUME TypeOK, ProducedExists, NEW l \in Lanes
  PROVE  /\ Elems(queue[l]) \in SUBSET Items /\ IsFiniteSet(Elems(queue[l]))
         /\ Unput(l) \in SUBSET Items /\ IsFiniteSet(Unput(l))
<1>1. queue[l] \in Seq(Items)
  BY DEF TypeOK
<1>2. Elems(queue[l]) \in SUBSET Items
  BY <1>1, ElemsType
<1>3. IsFiniteSet(Elems(queue[l]))
  <2>1. DOMAIN queue[l] = 1..Len(queue[l]) /\ Len(queue[l]) \in Nat
    BY <1>1
  <2>2. IsFiniteSet(DOMAIN queue[l])
    BY <2>1, FS_Interval
  <2>3. queue[l] \in Surjection(DOMAIN queue[l], Elems(queue[l]))
    BY <1>1 DEF Surjection, Elems
  <2> QED
    BY <2>2, <2>3, FS_Surjection
<1> DEFINE at == {x \in SourcesOf(l) : prod[x] = "put"}
<1>4. IsFiniteSet(at) /\ at \subseteq Sources
  <2>1. at \in SUBSET Sources
    BY DEF SourcesOf
  <2> QED
    BY <2>1, FS_Subset, PipelineAssumption DEF PipelineAssumption
<1>5. IsFiniteSet({Entry(s, nxt[s]) : s \in at})
  <2> DEFINE put == [s \in at |-> Entry(s, nxt[s])]
  <2>1. put \in Surjection(at, {Entry(s, nxt[s]) : s \in at})
    BY DEF Surjection
  <2> QED
    BY <1>4, <2>1, FS_Surjection
<1>6. \A s \in at : Entry(s, nxt[s]) \in Items
  BY <1>4, ProducedType
<1> QED
  BY <1>2, <1>3, <1>5, <1>6 DEF Unput

\* The account of one lane.
LaneExact(l) == queuedBytes[l] = CostOf(Elems(queue[l])) + CostOf(Unput(l))

\* A producer's step keeps the account of its lane and of the others.
LEMMA ProducerExact ==
  ASSUME IInv, ByteBudget > 0, NEW s \in Sources, Producer(s), NEW l \in Lanes, LaneExact(l)
  PROVE  LaneExact(l)'
<1>0. TypeOK /\ ProducedExists /\ InFlightBounds
  BY DEF IInv
<1>1. /\ Elems(queue[l]) \in SUBSET Items /\ IsFiniteSet(Elems(queue[l]))
      /\ Unput(l) \in SUBSET Items /\ IsFiniteSet(Unput(l))
  BY <1>0, LaneHolds
<1>2. CostOf(Elems(queue[l])) \in Nat /\ CostOf(Unput(l)) \in Nat /\ queuedBytes[l] \in Int
  BY <1>0, <1>1, BytesFinite DEF TypeOK
<1> DEFINE e == Entry(s, nxt[s])
<1>3. e.src = s /\ e.pos = nxt[s] /\ \A r \in Sources : Entry(r, nxt[r]) = e => r = s
  BY DEF Entry
<1>4. CASE LaneOf[s] # l
  <2>1. queue'[l] = queue[l] /\ queuedBytes'[l] = queuedBytes[l]
    BY <1>0, <1>4 DEF Producer, Yield, Charge, Put, SourceEnds, SourceFails, PutSentinel, TypeOK
  <2>2. \A r \in SourcesOf(l) : prod'[r] = prod[r] /\ nxt'[r] = nxt[r]
    BY <1>0, <1>4 DEF Producer, Yield, Charge, Put, SourceEnds, SourceFails, PutSentinel, TypeOK,
                      SourcesOf
  <2>3. Unput(l)' = Unput(l)
    BY <2>2 DEF Unput, SourcesOf
  <2> QED
    BY <2>1, <2>3 DEF LaneExact, Elems
<1>5. CASE LaneOf[s] = l /\ Charge(s)
  <2>1. prod' = [prod EXCEPT ![s] = "put"] /\ prod[s] = "charge" /\ UNCHANGED <<nxt, queue>>
    BY <1>5 DEF Charge
  <2>2. e \in Items /\ EntryCost(e) \in Nat
    BY <1>0, <2>1, ProducedType, EntryCostType
  <2>3. e \notin Unput(l)
    BY <1>3, <2>1 DEF Unput, SourcesOf
  <2>4. Unput(l)' = Unput(l) \cup {e}
    <3>1. \A r \in SourcesOf(l) : prod'[r] = "put" <=> (r = s \/ prod[r] = "put")
      BY <1>0, <2>1 DEF SourcesOf, TypeOK
    <3>2. s \in SourcesOf(l)
      BY <1>5 DEF SourcesOf
    <3> QED
      BY <2>1, <3>1, <3>2 DEF Unput, SourcesOf
  <2>5. CostOf(Unput(l) \cup {e}) = CostOf(Unput(l)) + EntryCost(e)
    BY <1>1, <2>2, <2>3, CostAdds
  <2>6. queuedBytes'[l] = queuedBytes[l] + EntryCost(e)
    <3>1. CASE EntryCost(e) = 0
      BY <1>2, <1>5, <3>1 DEF Charge
    <3>2. CASE EntryCost(e) # 0
      <4>1. ByteBudget # 0
        BY PipelineAssumption DEF PipelineAssumption
      <4>2. queuedBytes' = [queuedBytes EXCEPT ![LaneOf[s]] = @ + EntryCost(e)]
        BY <1>5, <3>2, <4>1 DEF Charge
      <4> QED
        BY <1>0, <1>5, <4>2 DEF TypeOK
    <3> QED
      BY <3>1, <3>2
  <2> QED
    BY <1>2, <2>1, <2>2, <2>4, <2>5, <2>6 DEF LaneExact, Elems
<1>6. CASE LaneOf[s] = l /\ Put(s)
  <2>1. /\ prod[s] = "put" /\ prod' = [prod EXCEPT ![s] = "events"]
        /\ nxt' = [nxt EXCEPT ![s] = @ + 1]
        /\ queue'[l] = Append(queue[l], e) /\ queuedBytes' = queuedBytes
    BY <1>0, <1>6 DEF Put, TypeOK
  <2>2. e \in Items /\ EntryCost(e) \in Nat
    BY <1>0, <2>1, ProducedType, EntryCostType
  <2>3. e \notin Elems(queue[l])
    <3>1. \A i \in DOMAIN queue[l] : queue[l][i].src = s => queue[l][i].pos < nxt[s]
      BY <1>0 DEF InFlightBounds
    <3>2. nxt[s] \in Nat
      BY <1>0 DEF TypeOK
    <3> QED
      BY <1>3, <3>1, <3>2 DEF Elems
  <2>4. Elems(queue[l])' = Elems(queue[l]) \cup {e}
    <3>1. queue[l] \in Seq(Items)
      BY <1>0 DEF TypeOK
    <3>2. Elems(Append(queue[l], e)) = Elems(queue[l]) \cup {e}
      BY <2>2, <3>1, ElemsAppend
    <3> QED
      BY <2>1, <3>2 DEF Elems
  <2>5. e \notin Unput(l)'
    <3>1. \A r \in SourcesOf(l) : prod'[r] = "put" => r # s
      BY <1>0, <2>1 DEF SourcesOf, TypeOK
    <3> QED
      BY <1>3, <3>1 DEF Unput, SourcesOf, Entry
  <2>6. Unput(l) = Unput(l)' \cup {e}
    <3>1. \A r \in SourcesOf(l) : (prod[r] = "put" <=> (r = s \/ prod'[r] = "put"))
                                  /\ (r # s => nxt'[r] = nxt[r] /\ prod'[r] = prod[r])
      BY <1>0, <2>1 DEF SourcesOf, TypeOK
    <3>2. s \in SourcesOf(l) /\ prod'[s] # "put"
      BY <1>0, <1>6, <2>1 DEF SourcesOf, TypeOK
    <3> QED
      BY <2>1, <3>1, <3>2 DEF Unput, SourcesOf
  <2>7. Unput(l)' \in SUBSET Items /\ IsFiniteSet(Unput(l)')
    BY <1>1, <2>6, FS_Subset
  <2>8. CostOf(Unput(l)' \cup {e}) = CostOf(Unput(l)') + EntryCost(e) /\ CostOf(Unput(l)') \in Nat
    BY <2>2, <2>5, <2>7, CostAdds, BytesFinite
  <2>9. CostOf(Elems(queue[l]) \cup {e}) = CostOf(Elems(queue[l])) + EntryCost(e)
    BY <1>1, <2>2, <2>3, CostAdds
  <2>10. CostOf(Unput(l)) = CostOf(Unput(l)') + EntryCost(e)
    BY <2>6, <2>8
  <2>11. queuedBytes'[l] = CostOf(Elems(queue[l])') + CostOf(Unput(l)')
    BY <1>2, <2>1, <2>2, <2>4, <2>8, <2>9, <2>10 DEF LaneExact
  <2> QED
    BY <2>11 DEF LaneExact, CostOf, BytesOf
<1>7. CASE LaneOf[s] = l /\ (Yield(s) \/ SourceEnds(s) \/ SourceFails(s) \/ PutSentinel(s))
  <2>1. UNCHANGED <<queuedBytes, nxt>> /\ prod[s] # "put" /\ prod'[s] # "put"
    BY <1>0, <1>7 DEF Yield, SourceEnds, SourceFails, PutSentinel, TypeOK, ProducerEnded
  <2>2. \A r \in Sources : r # s => prod'[r] = prod[r]
    BY <1>0, <1>7 DEF Yield, SourceEnds, SourceFails, PutSentinel, TypeOK
  <2>3. Unput(l)' = Unput(l)
    BY <2>1, <2>2 DEF Unput, SourcesOf
  <2>4. CASE PutSentinel(s)
    <3>1. queue[l] \in Seq(Items) /\ Sentinel(s) \in Items /\ EntryCost(Sentinel(s)) = 0
      BY <1>0 DEF TypeOK, Items, EntryCost, IsLive, Sentinel, Entry
    <3>2. queue'[l] = Append(queue[l], Sentinel(s))
      BY <1>0, <1>7, <2>4 DEF PutSentinel, TypeOK
    <3>3. Elems(Append(queue[l], Sentinel(s))) = Elems(queue[l]) \cup {Sentinel(s)}
      BY <3>1, ElemsAppend
    <3>4. CostOf(Elems(queue[l]) \cup {Sentinel(s)}) = CostOf(Elems(queue[l])) + 0
      BY <1>1, <3>1, CostAdds
    <3>5. Elems(queue[l])' = Elems(queue[l]) \cup {Sentinel(s)}
      BY <3>2, <3>3 DEF Elems
    <3>6. CostOf(Elems(queue[l])') = CostOf(Elems(queue[l]))
      BY <1>2, <3>4, <3>5
    <3> QED
      BY <2>1, <2>3, <3>6 DEF LaneExact, CostOf, BytesOf
  <2>5. CASE ~PutSentinel(s)
    <3>1. queue' = queue
      BY <1>7, <2>5 DEF Yield, SourceEnds, SourceFails
    <3> QED
      BY <2>1, <2>3, <3>1 DEF LaneExact, Elems
  <2> QED
    BY <2>4, <2>5
<1> QED
  BY <1>4, <1>5, <1>6, <1>7 DEF Producer

\* A consumer gives back exactly what the entry it takes was charged.
LEMMA ConsumerExact ==
  ASSUME IInv, ByteBudget > 0, NEW k \in Lanes, Consumer(k), NEW l \in Lanes, LaneExact(l)
  PROVE  LaneExact(l)'
<1>0. TypeOK /\ ProducedExists /\ InFlightOrdered
  BY DEF IInv
<1>1. Unput(l)' = Unput(l)
  <2>1. UNCHANGED <<prod, nxt>>
    BY DEF Consumer, GetEntry, GetSentinel, FlushDeadline, Admit, DropOverBudget, PushOk,
           PushPermanent, PushRetryable, Backoff, Commit, CommitFails, consRest
  <2> QED
    BY <2>1 DEF Unput
<1>2. CASE ~(k = l /\ (GetEntry(k) \/ GetSentinel(k)))
  <2>1. queue'[l] = queue[l] /\ queuedBytes'[l] = queuedBytes[l]
    BY <1>0, <1>2 DEF Consumer, GetEntry, GetSentinel, FlushDeadline, Admit, DropOverBudget, PushOk,
           PushPermanent, PushRetryable, Backoff, Commit, CommitFails, Release, TypeOK
  <2> QED
    BY <1>1, <2>1 DEF LaneExact, Elems
<1>3. CASE k = l /\ (GetEntry(k) \/ GetSentinel(k))
  <2> DEFINE e == Head(queue[l])
             rest == Tail(queue[l])
  <2>1. /\ queue[l] # <<>> /\ Release(l, e)
        /\ queue' = [queue EXCEPT ![l] = rest]
    BY <1>3 DEF GetEntry, GetSentinel
  <2>2. queue[l] \in Seq(Items) /\ e \in Items /\ EntryCost(e) \in Nat /\ rest \in Seq(Items)
    BY <1>0, <2>1, HeadType
  <2>3. Elems(queue[l]) = Elems(rest) \cup {e}
    BY <2>1, <2>2, ElemsTail
  <2>4. Elems(queue[l]) \in SUBSET Items /\ IsFiniteSet(Elems(queue[l]))
    BY <1>0, LaneHolds
  <2>5. Elems(rest) \in SUBSET Items /\ IsFiniteSet(Elems(rest))
    BY <2>3, <2>4, FS_Subset
  <2>6. e \notin Elems(rest) \/ EntryCost(e) = 0
    <3>1. CASE e.pos = 0
      BY <3>1 DEF EntryCost, IsLive
    <3>2. CASE e.pos # 0
      <4> SUFFICES ASSUME NEW i \in DOMAIN rest, rest[i] = e PROVE FALSE
        BY DEF Elems
      <4>1. /\ 1 \in DOMAIN queue[l] /\ e = queue[l][1]
            /\ i + 1 \in DOMAIN queue[l] /\ rest[i] = queue[l][i + 1] /\ 1 < i + 1
        BY <2>1, <2>2, TailFacts
      <4>2. queue[l][1].pos < queue[l][i + 1].pos
        BY <1>0, <3>2, <4>1 DEF InFlightOrdered, InOrder
      <4>3. e.pos \in Nat
        BY <2>2, ItemFacts
      <4> QED
        BY <4>1, <4>2, <4>3
    <3> QED
      BY <3>1, <3>2
  <2>7. CostOf(Elems(queue[l])) = CostOf(Elems(rest)) + EntryCost(e)
    BY <2>2, <2>3, <2>5, <2>6, CostAdds
  <2>8. CostOf(Elems(rest)) \in Nat /\ CostOf(Unput(l)) \in Nat /\ queuedBytes[l] \in Int
    BY <1>0, <2>5, BytesFinite, LaneHolds DEF TypeOK
  <2>9. queuedBytes'[l] = queuedBytes[l] - EntryCost(e) /\ queue'[l] = rest
    <3>1. ByteBudget # 0
      BY PipelineAssumption DEF PipelineAssumption
    <3> QED
      BY <1>0, <2>1, <3>1 DEF Release, TypeOK
  <2>10. Elems(queue[l])' = Elems(rest)
    BY <2>9 DEF Elems
  <2> QED
    BY <1>1, <2>2, <2>7, <2>8, <2>9, <2>10 DEF LaneExact
<1> QED
  BY <1>2, <1>3

\* While run() waits, every step keeps every lane's account.
LEMMA ExactStep ==
  ASSUME IInv, QueuedBytesExact, [Next]_vars
  PROVE  QueuedBytesExact'
<1>0. TypeOK
  BY DEF IInv
<1> SUFFICES ASSUME ByteBudget > 0, Waiting', NEW l \in Lanes PROVE LaneExact(l)'
  BY DEF QueuedBytesExact, Waiting, LaneExact
<1>1. CASE Start
  <2>1. queue'[l] = <<>> /\ queuedBytes'[l] = 0 /\ \A s \in Sources : prod'[s] = "events"
    BY <1>1 DEF Start, Reset
  <2>2. Elems(queue[l])' = {} /\ Unput(l)' = {}
    BY <2>1 DEF Elems, Unput, SourcesOf
  <2>3. LaneExact(l)' <=> queuedBytes'[l] = CostOf({}) + CostOf({})
    BY <2>2 DEF LaneExact
  <2>4. queuedBytes'[l] = CostOf({}) + CostOf({})
    BY <2>1, CostOfNothing
  <2> QED
    BY <2>3, <2>4
<1>2. CASE ~Start
  <2>1. Waiting
    BY <1>0, <1>2 DEF Next, Control, Kill, SetStop, Wake, Join, Close, GraceExpired, Finally,
                      Waiting, TypeOK, Finished, Producer, Yield, Charge, Put, SourceEnds,
                      SourceFails, PutSentinel, Consumer, GetEntry, GetSentinel, FlushDeadline,
                      Admit, DropOverBudget, PushOk, PushPermanent, PushRetryable, Backoff, Commit,
                      CommitFails, prodRest, consRest, vars, mainVars
  <2>2. LaneExact(l)
    BY <2>1 DEF QueuedBytesExact, Waiting, LaneExact
  <2>3. CASE SetStop \/ Wake \/ Join \/ Close \/ GraceExpired \/ Kill \/ UNCHANGED vars
    <3>1. UNCHANGED <<queue, queuedBytes, prod, nxt>>
      BY <1>0, <2>1, <2>3 DEF SetStop, Wake, Join, Close, GraceExpired, Kill, Finally, Waiting,
             TypeOK, Finished, taskVars, laneVars, vars
    <3> QED
      BY <2>2, <3>1 DEF LaneExact, Unput, Elems
  <2>4. ASSUME NEW s \in Sources, Producer(s) PROVE LaneExact(l)'
    BY <2>2, <2>4, ProducerExact
  <2>5. ASSUME NEW k \in Lanes, Consumer(k) PROVE LaneExact(l)'
    BY <2>2, <2>5, ConsumerExact
  <2> QED
    BY <1>2, <2>3, <2>4, <2>5 DEF Next, Control
<1> QED
  BY <1>1, <1>2

\* The byte account (Pipeline._charge and _release) is exact while run() waits: it
\* is what the lane's queue holds plus what is charged and not yet put, so no byte
\* leaks however producers, consumer, stop and retries interleave.
THEOREM ByteAccountExact == Spec => []QueuedBytesExact
<1>1. Init => QueuedBytesExact
  BY DEF Init, QueuedBytesExact
<1>2. IInv /\ QueuedBytesExact /\ [Next]_vars => QueuedBytesExact'
  BY ExactStep
<1>3. QED
  BY <1>1, <1>2, PipelineInvariant, PTL DEF Spec

=============================================================================
