---------------------------- MODULE MempoolProofs ----------------------------
(* A digest reaches the consensus of its maker only when a quorum has taken the *)
(* batch, for any number of operators, batches and stops.                       *)
EXTENDS Mempool, FiniteSetTheorems, TLAPS

\* Operator n has taken batch b, and without the batch it is only if it has stopped since.
Taken(n, b) == Has(n, b) \/ b \in lost[n]

\* The types of the tables.
CopyTypes ==
    /\ rx_batch \in [Node -> SUBSET Batch]
    /\ writing \in [Node -> SUBSET Batch]
    /\ store \in [Node -> SUBSET Batch]
    /\ digests \in [Node -> SUBSET Batch]
    /\ lost \in [Node -> SUBSET Batch]

\* An acknowledgement is the word of a peer that has taken the batch, and the maker's own
\* copy and digest come after a quorum of the stake.
CopyInvariant ==
    /\ CopyTypes
    /\ answer \in [Batch -> [Peers -> {"none", "Ack", "No handler found"}]]
    /\ \A b \in Batch, n \in Peers : answer[b][n] = "Ack" => Taken(n, b)
    /\ \A b \in digests[Maker] : Taken(Maker, b)
    /\ \A b \in Batch : Taken(Maker, b) => TotalStake(b) >= QuorumThreshold

\* The number of acknowledgements of a batch is a natural number.
LEMMA StakeIsNatural ==
    ASSUME NEW S \in SUBSET Peers
    PROVE  IsFiniteSet(S) /\ Cardinality(S) \in Nat
BY FS_Subset, FS_CardinalityType, QuorumWaiterAssumption

\* The quorum is a natural number.
LEMMA QuorumIsNatural == IsFiniteSet(Node) /\ QuorumThreshold \in Nat
<1>1. IsFiniteSet(Node)
  BY FS_AddElement, QuorumWaiterAssumption DEF Node
<1> QED
  BY <1>1, FS_CardinalityType DEF QuorumThreshold

\* Answers are never taken back, so the stake of a batch never shrinks.
LEMMA StakeGrows ==
    ASSUME NEW b \in Batch,
           \A n \in Peers : answer[b][n] = "Ack" => answer'[b][n] = "Ack",
           TotalStake(b) >= QuorumThreshold
    PROVE  TotalStake(b)' >= QuorumThreshold
<1> DEFINE A == {n \in Peers : answer[b][n] = "Ack"}
           B == {n \in Peers : answer'[b][n] = "Ack"}
<1>1. A \subseteq B /\ B \in SUBSET Peers /\ A \in SUBSET Peers
  OBVIOUS
<1>2. IsFiniteSet(B) /\ Cardinality(A) \in Nat /\ Cardinality(B) \in Nat
  BY <1>1, StakeIsNatural
<1>3. Cardinality(A) <= Cardinality(B)
  BY <1>1, <1>2, FS_Subset
<1>4. TotalStake(b) = 1 + Cardinality(A) /\ TotalStake(b)' = 1 + Cardinality(B)
  BY DEF TotalStake
<1>5. QuorumThreshold \in Nat /\ QuorumThreshold' = QuorumThreshold
  BY QuorumIsNatural DEF QuorumThreshold
<1> HIDE DEF A, B
<1> QED
  BY <1>2, <1>3, <1>4, <1>5

\* What an operator has taken it keeps, or it is recorded as lost: Take, Process,
\* StoreCommand::Write and the stop of the validator.
LEMMA TakenForever ==
    ASSUME CopyTypes, MempoolNext
    PROVE  \A n \in Node, b \in Batch : Taken(n, b) => Taken(n, b)'
<1> SUFFICES ASSUME NEW n \in Node, NEW b \in Batch, Taken(n, b) PROVE Taken(n, b)'
  OBVIOUS
<1>1. CASE UNCHANGED copyVars
  BY <1>1 DEF copyVars, Taken, Has
<1>2. CASE \E m \in Node, c \in Batch : Take(m, c)
  BY <1>2 DEF Take, Taken, Has, CopyTypes
<1>3. CASE \E m \in Node, c \in Batch : Process(m, c)
  BY <1>3 DEF Process, Taken, Has, CopyTypes
<1>4. CASE \E m \in Node, c \in Batch : StoreBatch(m, c)
  BY <1>4 DEF StoreBatch, Taken, Has, CopyTypes
<1>5. CASE \E m \in Node : StopMempool(m)
  BY <1>5 DEF StopMempool, Taken, Has, CopyTypes
<1> QED
  BY <1>1, <1>2, <1>3, <1>4, <1>5
  DEF MempoolNext, DeliverOwnBatch, ReceiveBatch, ReceiveBatchReplyLost, Node

\* Of the steps, only an answer changes what the peers have said, and it changes no
\* answer that was given.
LEMMA AnswersStand ==
    ASSUME CopyInvariant, MempoolNext
    PROVE  /\ answer' \in [Batch -> [Peers -> {"none", "Ack", "No handler found"}]]
           /\ \A b \in Batch, n \in Peers : answer[b][n] = "Ack" => answer'[b][n] = "Ack"
           /\ \A b \in Batch, n \in Peers :
                answer'[b][n] = "Ack" => answer[b][n] = "Ack" \/ ReceiveBatch(n, b)
<1>1. CASE UNCHANGED answer
  BY <1>1, Zenon DEF CopyInvariant
<1>2. CASE \E n \in Peers, b \in Batch : ReceiveBatch(n, b)
  <2>1. PICK n \in Peers, b \in Batch : ReceiveBatch(n, b)
    BY <1>2
  <2>2. PICK v \in {"Ack", "No handler found"} : answer' = [answer EXCEPT ![b][n] = v]
    BY <2>1, Zenon DEF ReceiveBatch, Answer
  <2>3. answer[b][n] = "none"
    BY <2>1, Zenon DEF ReceiveBatch, Answer
  <2> QED
    BY <2>1, <2>2, <2>3, Zenon DEF CopyInvariant
<1> QED
  BY <1>1, <1>2, Zenon
  DEF MempoolNext, Seal, WaitForQuorum, WaitTimesOut, DeliverOwnBatch, QuorumReached,
      QuorumMissed, EndOfTask, StopMempool, StopValidator, StartValidator,
      ReceiveBatchReplyLost, Process, StoreBatch, waiterVars

\* The tables keep their types.
LEMMA CopiesKeepTypes ==
    ASSUME CopyTypes, MempoolNext
    PROVE  CopyTypes'
<1>1. ASSUME UNCHANGED copyVars PROVE CopyTypes'
  BY <1>1 DEF copyVars, CopyTypes
<1>2. ASSUME NEW m \in Node, NEW c \in Batch, Take(m, c) PROVE CopyTypes'
  BY <1>2 DEF Take, CopyTypes
<1>3. ASSUME NEW m \in Node, NEW c \in Batch, Process(m, c) PROVE CopyTypes'
  BY <1>3 DEF Process, CopyTypes
<1>4. ASSUME NEW m \in Node, NEW c \in Batch, StoreBatch(m, c) PROVE CopyTypes'
  BY <1>4 DEF StoreBatch, CopyTypes
<1>5. ASSUME NEW m \in Node, StopMempool(m) PROVE CopyTypes'
  BY <1>5 DEF StopMempool, CopyTypes
<1>6. Maker \in Node /\ Peers \subseteq Node
  BY DEF Node
<1> QED
  BY <1>1, <1>2, <1>3, <1>4, <1>5, <1>6
  DEF MempoolNext, DeliverOwnBatch, ReceiveBatch, ReceiveBatchReplyLost

\* The maker takes a batch of its own only from the task of the quorum waiter, and gives
\* to its consensus only what it has taken.
LEMMA MakerTakesItsOwn ==
    ASSUME CopyTypes, MempoolNext
    PROVE  /\ \A b \in Batch : Taken(Maker, b)' => Taken(Maker, b) \/ QuorumReached(b)
           /\ \A b \in digests'[Maker] : b \in digests[Maker] \/ b \in rx_batch[Maker]
<1> DEFINE Goal == /\ \A b \in Batch : Taken(Maker, b)' => Taken(Maker, b) \/ QuorumReached(b)
                   /\ \A b \in digests'[Maker] : b \in digests[Maker] \/ b \in rx_batch[Maker]
<1>0. Maker \in Node /\ \A n \in Peers : n \in Node /\ n /= Maker
  BY QuorumWaiterAssumption DEF Node
<1>1. ASSUME UNCHANGED copyVars PROVE Goal
  BY <1>1 DEF copyVars, Taken, Has
<1>2. ASSUME NEW m \in Peers, NEW c \in Batch, Take(m, c) PROVE Goal
  BY <1>0, <1>2 DEF Take, Taken, Has, CopyTypes
<1>3. ASSUME NEW c \in Batch, QuorumReached(c), Take(Maker, c) PROVE Goal
  BY <1>0, <1>3 DEF Take, Taken, Has, CopyTypes
<1>4. ASSUME NEW m \in Node, NEW c \in Batch, Process(m, c) PROVE Goal
  BY <1>0, <1>4 DEF Process, Taken, Has, CopyTypes
<1>5. ASSUME NEW m \in Node, NEW c \in Batch, StoreBatch(m, c) PROVE Goal
  BY <1>0, <1>5 DEF StoreBatch, Taken, Has, CopyTypes
<1>6. ASSUME NEW m \in Node, StopMempool(m) PROVE Goal
  BY <1>0, <1>6 DEF StopMempool, Taken, Has, CopyTypes
<1> HIDE DEF Goal
<1>7. Goal
  BY <1>1, <1>2, <1>3, <1>4, <1>5, <1>6
  DEF MempoolNext, DeliverOwnBatch, ReceiveBatch, ReceiveBatchReplyLost
<1> QED
  BY <1>7 DEF Goal

\* Every step keeps CopyInvariant.
LEMMA CopyInvariantHolds == MempoolSpec => []CopyInvariant
<1>1. MempoolInit => CopyInvariant
  BY DEF MempoolInit, Init, CopyInvariant, CopyTypes, Taken, Has, Node
<1>2. CopyInvariant /\ [MempoolNext]_vars => CopyInvariant'
  <2> SUFFICES ASSUME CopyInvariant, [MempoolNext]_vars PROVE CopyInvariant'
    OBVIOUS
  <2>1. CASE UNCHANGED vars
    BY <2>1, Zenon DEF vars, copyVars, waiterVars, CopyInvariant, CopyTypes, Taken, Has, TotalStake, QuorumThreshold
  <2>2. CASE MempoolNext
    <3>1. ASSUME NEW b \in Batch, NEW n \in Peers, answer'[b][n] = "Ack" PROVE Taken(n, b)'
      <4>1. CASE answer[b][n] = "Ack"
        BY <2>2, <4>1, TakenForever, Zenon DEF CopyInvariant, Node
      <4>2. CASE answer[b][n] /= "Ack" /\ ReceiveBatch(n, b)
        <5>1. handler[n]
          BY <3>1, <4>2, Zenon DEF ReceiveBatch, Answer, CopyInvariant
        <5>2. Take(n, b) /\ n \in Node
          BY <4>2, <5>1 DEF ReceiveBatch, Node
        <5> QED
          BY <5>2, Zenon DEF Take, Taken, Has, CopyInvariant, CopyTypes
      <4> QED
        BY <2>2, <3>1, <4>1, <4>2, AnswersStand, Zenon
    <3>2. ASSUME NEW b \in digests'[Maker] PROVE Taken(Maker, b)'
      <4>1. b \in Batch /\ Maker \in Node
        BY <2>2, CopiesKeepTypes, Zenon DEF CopyInvariant, CopyTypes, Node
      <4>2. Taken(Maker, b)
        BY <2>2, <4>1, MakerTakesItsOwn, Zenon DEF CopyInvariant, Taken, Has
      <4> QED
        BY <2>2, <4>1, <4>2, TakenForever, Zenon DEF CopyInvariant
    <3>3. ASSUME NEW b \in Batch, Taken(Maker, b)' PROVE TotalStake(b)' >= QuorumThreshold
      <4>1. TotalStake(b) >= QuorumThreshold
        BY <2>2, <3>3, MakerTakesItsOwn, Zenon DEF CopyInvariant, QuorumReached
      <4> QED
        BY <2>2, <4>1, StakeGrows, AnswersStand, Zenon
    <3>4. QuorumThreshold' = QuorumThreshold
      BY DEF QuorumThreshold
    <3> QED
      BY <2>2, <3>1, <3>2, <3>3, <3>4, AnswersStand, CopiesKeepTypes, Zenon DEF CopyInvariant
  <2> QED
    BY <2>1, <2>2
<1> QED
  BY <1>1, <1>2, PTL DEF MempoolSpec

\* The consensus of a maker orders only batches that a quorum of the operators has taken:
\* whatever operators stop and start while the quorum waiter counts, and however often a
\* batch arrives.
THEOREM OrderedBatchesAreReplicated == MempoolSpec => []QuorumHasBatch
<1>1. CopyInvariant => QuorumHasBatch
  <2> SUFFICES ASSUME CopyInvariant, NEW b \in digests[Maker]
               PROVE  Cardinality({n \in Node : Has(n, b) \/ b \in lost[n]}) >= QuorumThreshold
    BY DEF QuorumHasBatch
  <2> DEFINE A == {n \in Peers : answer[b][n] = "Ack"}
             H == {n \in Node : Has(n, b) \/ b \in lost[n]}
  <2>1. b \in Batch /\ Maker \in Node /\ Maker \notin Peers
    BY QuorumWaiterAssumption, Zenon DEF CopyInvariant, CopyTypes, Node
  <2>2. A \union {Maker} \subseteq H /\ H \subseteq Node
    BY <2>1, Zenon DEF CopyInvariant, Taken, Node
  <2>3. IsFiniteSet(A) /\ Cardinality(A) \in Nat
    BY StakeIsNatural
  <2>4. 1 + Cardinality(A) >= QuorumThreshold
    BY <2>1, Zenon DEF CopyInvariant, TotalStake
  <2>5. Maker \notin A
    BY <2>1
  <2> HIDE DEF A, H
  <2>6. Cardinality(A \union {Maker}) = Cardinality(A) + 1
    BY <2>3, <2>5, FS_AddElement, SMTT(30)
  <2>7. IsFiniteSet(H) /\ Cardinality(H) \in Nat
    BY <2>2, QuorumIsNatural, FS_Subset, FS_CardinalityType
  <2>8. Cardinality(A \union {Maker}) <= Cardinality(H)
    BY <2>2, <2>7, FS_Subset
  <2>9. Cardinality(H) >= QuorumThreshold
    BY <2>3, <2>4, <2>6, <2>7, <2>8, QuorumIsNatural
  <2> QED
    BY <2>9 DEF H
<1> QED
  BY <1>1, CopyInvariantHolds, PTL
==============================================================================
