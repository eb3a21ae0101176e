----------------------------- MODULE PayloadSync -----------------------------
(* How one operator gets the batches that a block names and that it misses:     *)
(* MempoolDriver::verify and cleanup and the payload waiter of the consensus    *)
(* (consensus/src/mempool.rs), and the synchronizer of the mempool              *)
(* (mempool/src/synchronizer.rs), which run concurrently and are driven over    *)
(* two channels.                                                                *)
EXTENDS Integers, Sequences, FiniteSets

CONSTANTS
    Block, Batch,
    Round,              \* Round[b]: the round of block b
    Payload,            \* Payload[b]: the batches that block b names
    Rounds,             \* bound: rounds whose blocks are committed
    gc_depth,
    Capacity            \* CHANNEL_CAPACITY

ASSUME PayloadSyncAssumption ==
    /\ Round \in [Block -> Nat] /\ Payload \in [Block -> SUBSET Batch]
    /\ Rounds \subseteq Nat /\ gc_depth \in Nat /\ Capacity \in Nat \ {0}

VARIABLES
    stored,             \* batches in the store
    tx_mempool,         \* the channel to the synchronizer of the mempool
    tx_payload_waiter,  \* the channel to the payload waiter
    round,              \* the synchronizer's idea of the consensus' round
    pending,            \* the batches it asks for, with the round of the request
    awaiting,           \* the blocks in the payload waiter
    tx_loopback,        \* blocks on their way back to the core
    collected           \* history: the last cleanup that cancelled the request for a batch

vars == <<stored, tx_mempool, tx_payload_waiter, round, pending, awaiting, tx_loopback, collected>>

Never == -1

Init ==
    /\ stored = {}
    /\ tx_mempool = << >> /\ tx_payload_waiter = << >>
    /\ round = 0
    /\ pending = [x \in Batch |-> Never]
    /\ awaiting = {} /\ tx_loopback = {}
    /\ collected = [x \in Batch |-> Never]

Synchronize(b) == [kind |-> "Synchronize", digests |-> Payload[b] \ stored]

Wait(b) == [kind |-> "Wait", block |-> b]

Cleanup(r) == [kind |-> "Cleanup", round |-> r]

\* Both channels are bounded: the core waits for room.
Send(m1, m2) ==
    /\ Len(tx_mempool) < Capacity /\ Len(tx_payload_waiter) < Capacity
    /\ tx_mempool' = Append(tx_mempool, m1)
    /\ tx_payload_waiter' = Append(tx_payload_waiter, m2)

\* Core::handle_proposal with a block whose payload is not complete.
Verify(b) ==
    /\ ~(Payload[b] \subseteq stored)
    /\ Send(Synchronize(b), Wait(b))
    /\ UNCHANGED <<stored, round, pending, awaiting, tx_loopback, collected>>

\* Core::process_block commits a block of round r.
Commit(r) ==
    /\ Send(Cleanup(r), Cleanup(r))
    /\ UNCHANGED <<stored, round, pending, awaiting, tx_loopback, collected>>

\* A batch reaches the store, in answer to a request or from its maker.
StoreBatch(x) ==
    /\ x \notin stored
    /\ stored' = stored \union {x}
    /\ UNCHANGED <<tx_mempool, tx_payload_waiter, round, pending, awaiting, tx_loopback, collected>>
------------------------------------------------------------------------------
HandleSynchronize_StopsAtKnown ==
    /\ tx_mempool /= << >> /\ Head(tx_mempool).kind = "Synchronize"
    /\ pending' = IF \E y \in Head(tx_mempool).digests : pending[y] /= Never THEN pending
                  ELSE [x \in Batch |-> IF x \in Head(tx_mempool).digests THEN round ELSE pending[x]]
    /\ tx_mempool' = Tail(tx_mempool)
    /\ UNCHANGED <<stored, tx_payload_waiter, round, awaiting, tx_loopback, collected>>

\* The synchronizer of the mempool asks for the batches it does not already ask for.
HandleSynchronize ==
    /\ tx_mempool /= << >> /\ Head(tx_mempool).kind = "Synchronize"
    /\ pending' = [x \in Batch |-> IF x \in Head(tx_mempool).digests /\ pending[x] = Never
                                   THEN round ELSE pending[x]]
    /\ tx_mempool' = Tail(tx_mempool)
    /\ UNCHANGED <<stored, tx_payload_waiter, round, awaiting, tx_loopback, collected>>

\* It cancels the requests made gc_depth rounds ago or earlier.
HandleCleanup ==
    /\ tx_mempool /= << >> /\ Head(tx_mempool).kind = "Cleanup"
    /\ round' = Head(tx_mempool).round
    /\ LET old == {x \in Batch : pending[x] /= Never /\ pending[x] <= round' - gc_depth}
       IN  /\ pending' = [x \in Batch |-> IF x \in old THEN Never ELSE pending[x]]
           /\ collected' = [x \in Batch |-> IF x \in old THEN round' ELSE collected[x]]
    /\ tx_mempool' = Tail(tx_mempool)
    /\ UNCHANGED <<stored, tx_payload_waiter, awaiting, tx_loopback>>

\* The waiter of a batch ends: the batch is in the store.
BatchArrives(x) ==
    /\ pending[x] /= Never /\ x \in stored
    /\ pending' = [pending EXCEPT ![x] = Never]
    /\ UNCHANGED <<stored, tx_mempool, tx_payload_waiter, round, awaiting, tx_loopback, collected>>
------------------------------------------------------------------------------
\* The payload waiter starts to wait for the payload of a block.
HandleWait ==
    /\ tx_payload_waiter /= << >> /\ Head(tx_payload_waiter).kind = "Wait"
    /\ awaiting' = awaiting \union {Head(tx_payload_waiter).block}
    /\ tx_payload_waiter' = Tail(tx_payload_waiter)
    /\ UNCHANGED <<stored, tx_mempool, round, pending, tx_loopback, collected>>

Ready(b) == Payload[b] \subseteq stored

\* It gives up blocks that are too old.  A waiter that is cancelled when its batches have
\* just arrived may still deliver its block.
CancelWait ==
    /\ tx_payload_waiter /= << >> /\ Head(tx_payload_waiter).kind = "Cleanup"
    /\ LET old == {b \in awaiting : Round[b] <= Head(tx_payload_waiter).round}
       IN  /\ awaiting' = awaiting \ old
           /\ \E back \in SUBSET {b \in old : Ready(b)} : tx_loopback' = tx_loopback \union back
    /\ tx_payload_waiter' = Tail(tx_payload_waiter)
    /\ UNCHANGED <<stored, tx_mempool, round, pending, collected>>


\* All batches of a block have arrived.
PayloadReady(b) ==
    /\ b \in awaiting /\ Ready(b)
    /\ awaiting' = awaiting \ {b}
    /\ tx_loopback' = tx_loopback \union {b}
    /\ UNCHANGED <<stored, tx_mempool, tx_payload_waiter, round, pending, collected>>

\* The core resumes the block.
Loopback(b) ==
    /\ b \in tx_loopback
    /\ tx_loopback' = tx_loopback \ {b}
    /\ UNCHANGED <<stored, tx_mempool, tx_payload_waiter, round, pending, awaiting, collected>>

Next ==
    \/ \E b \in Block : Verify(b) \/ PayloadReady(b) \/ Loopback(b)
    \/ \E r \in Rounds : Commit(r)
    \/ \E x \in Batch : StoreBatch(x) \/ BatchArrives(x)
    \/ HandleSynchronize \/ HandleCleanup \/ HandleWait \/ CancelWait

\* The tasks are scheduled fairly.  A batch that is asked for arrives in the end: the
\* request is repeated to three operators at a time, and a quorum has the batch (Mempool).
Fairness ==
    /\ WF_vars(HandleSynchronize) /\ WF_vars(HandleCleanup)
    /\ WF_vars(HandleWait) /\ WF_vars(CancelWait)
    /\ \A x \in Batch : WF_vars(pending[x] /= Never /\ StoreBatch(x)) /\ WF_vars(BatchArrives(x))
    /\ \A b \in Block : WF_vars(PayloadReady(b)) /\ WF_vars(Loopback(b))

Spec == Init /\ [][Next]_vars /\ Fairness
------------------------------------------------------------------------------
\* The state has its types, and the channels hold no more than their capacity.
TypeOK ==
    /\ stored \subseteq Batch
    /\ Len(tx_mempool) <= Capacity /\ Len(tx_payload_waiter) <= Capacity
    /\ round \in Rounds \union {0}
    /\ pending \in [Batch -> Rounds \union {0, Never}]
    /\ awaiting \subseteq Block /\ tx_loopback \subseteq Block
    /\ collected \in [Batch -> Rounds \union {Never}]


AskedFor(x) ==
    \/ pending[x] /= Never
    \/ \E i \in DOMAIN tx_mempool :
        tx_mempool[i].kind = "Synchronize" /\ x \in tx_mempool[i].digests

\* A block waits for a batch that nobody asks for only if it is younger than the commit
\* that cancelled the request, so that this commit did not cancel the block too, or if the
\* payload waiter has yet to learn of that commit.
OnlyYoungBlocksWait ==
    \A b \in awaiting : \A x \in Payload[b] \ stored :
        \/ AskedFor(x)
        \/ Round[b] > collected[x] /\ collected[x] /= Never
        \/ \E i \in DOMAIN tx_payload_waiter :
            /\ tx_payload_waiter[i].kind = "Cleanup"
            /\ tx_payload_waiter[i].round >= Round[b]

\* A block in the payload waiter is resumed or given up, unless a cleanup has cancelled
\* the request for one of its batches.
EventuallyResumed ==
    \A b \in Block : b \in awaiting ~>
        (b \notin awaiting \/ \E x \in Payload[b] : collected[x] /= Never)

\* The comment in Core::handle_proposal, "the mempool will get it and then make us resume
\* processing this block": the mempool asks for the batches that a block waits for.
AwaitedIsAskedFor ==
    tx_payload_waiter = << >> => \A b \in awaiting : \A x \in Payload[b] \ stored : AskedFor(x)
==============================================================================
