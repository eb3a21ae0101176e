------------------------------- MODULE Mempool -------------------------------
(* The batches of one maker in the mempools of all operators of a validator:    *)
(* the quorum waiter of the maker (QuorumWaiter) with the processors and stores *)
(* that the batches reach (mempool.rs, processor.rs).  Fetching a batch that an *)
(* operator missed is the subject of BlockSync.                                 *)
EXTENDS QuorumWaiter

VARIABLES
    rx_batch,           \* rx_batch[n]: batches on their way to the processor of n
    writing,            \* writing[n]: batches on their way to the store of n
    store,              \* store[n]: batches in the store of n
    digests,            \* digests[n]: digests that n gave to its consensus
    lost                \* history: batches that n had taken and lost when it stopped

copyVars == <<rx_batch, writing, store, digests, lost>>

vars == <<waiterVars, copyVars>>

MempoolInit ==
    /\ Init
    /\ rx_batch = [n \in Node |-> {}]
    /\ writing = [n \in Node |-> {}]
    /\ store = [n \in Node |-> {}]
    /\ digests = [n \in Node |-> {}]
    /\ lost = [n \in Node |-> {}]

Has(n, b) == b \in store[n] \union writing[n] \union rx_batch[n]

\* A batch that the operator has already is stored and announced once more, which
\* changes nothing.
Take(n, b) ==
    /\ rx_batch' = [rx_batch EXCEPT ![n] = IF Has(n, b) THEN @ ELSE @ \union {b}]
    /\ UNCHANGED <<writing, store, digests, lost>>

\* MempoolReceiverHandler::dispatch at a peer: the acknowledgement, then the batch to the
\* processor.  Without a handler the peer answers and takes nothing.
ReceiveBatch(n, b) ==
    /\ Answer(n, b)
    /\ IF handler[n] THEN Take(n, b) ELSE UNCHANGED copyVars

\* The same, and the answer gets lost: the batch will come again.
ReceiveBatchReplyLost(n, b) ==
    /\ b <= sealed /\ handler[n]
    /\ Take(n, b)
    /\ UNCHANGED waiterVars

\* The task of the quorum waiter gives the batch to the processor of the maker.
DeliverOwnBatch(b) == QuorumReached(b) /\ Take(Maker, b)

\* Processor: the write is queued at the store, then the digest goes to the consensus.
Process(n, b) ==
    /\ b \in rx_batch[n]
    /\ rx_batch' = [rx_batch EXCEPT ![n] = @ \ {b}]
    /\ writing' = [writing EXCEPT ![n] = @ \union {b}]
    /\ digests' = [digests EXCEPT ![n] = @ \union {b}]
    /\ UNCHANGED <<store, lost, waiterVars>>

\* StoreCommand::Write.
StoreBatch(n, b) ==
    /\ b \in writing[n]
    /\ writing' = [writing EXCEPT ![n] = @ \ {b}]
    /\ store' = [store EXCEPT ![n] = @ \union {b}]
    /\ UNCHANGED <<rx_batch, digests, lost, waiterVars>>

\* All but the store is lost when the validator stops.
StopMempool(n) ==
    /\ StopValidator(n)
    /\ lost' = [lost EXCEPT ![n] = @ \union rx_batch[n] \union writing[n]]
    /\ rx_batch' = [rx_batch EXCEPT ![n] = {}]
    /\ writing' = [writing EXCEPT ![n] = {}]
    /\ UNCHANGED <<store, digests>>

MempoolNext ==
    \/ (Seal \/ WaitForQuorum \/ WaitTimesOut) /\ UNCHANGED copyVars
    \/ \E b \in Batch : DeliverOwnBatch(b) \/ (QuorumMissed(b) /\ UNCHANGED copyVars)
    \/ \E n \in Node : StopMempool(n) \/ (StartValidator(n) /\ UNCHANGED copyVars)
    \/ \E n \in Peers, b \in Batch : ReceiveBatch(n, b) \/ ReceiveBatchReplyLost(n, b)
    \/ \E n \in Node, b \in Batch : Process(n, b) \/ StoreBatch(n, b)

MempoolSpec == MempoolInit /\ [][MempoolNext]_vars
------------------------------------------------------------------------------
\* The state has its types, and an operator holds batches in memory only while it runs
\* the validator.
MempoolTypeOK ==
    /\ TypeOK
    /\ rx_batch \in [Node -> SUBSET Batch]
    /\ writing \in [Node -> SUBSET Batch]
    /\ store \in [Node -> SUBSET Batch]
    /\ digests \in [Node -> SUBSET Batch]
    /\ lost \in [Node -> SUBSET Batch]
    /\ \A n \in Node : ~handler[n] => rx_batch[n] = {} /\ writing[n] = {}

\* The digest of a batch reaches the consensus of its maker only when operators with a
\* quorum of the stake have taken the batch, and of these only those that stopped before
\* the batch was stored can be without it: a peer that stops and starts while the quorum
\* waiter counts, or that gets the batch more than once, is counted once, and only when
\* it took the batch.
QuorumHasBatch ==
    \A b \in digests[Maker] :
        Cardinality({n \in Node : Has(n, b) \/ b \in lost[n]}) >= QuorumThreshold
==============================================================================
