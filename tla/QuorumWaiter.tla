---------------------------- MODULE QuorumWaiter ----------------------------
(* The batches that one operator makes, from BatchMaker::seal to the moment the *)
(* quorum waiter hands them to the processor (batch_maker.rs,                   *)
(* quorum_waiter.rs).                                                           *)
(*                                                                              *)
(* The network is represented by what ReliableSender shows of it: a batch is    *)
(* retransmitted to a peer until it is answered or cancelled, so the peer may   *)
(* take it more than once, and also after it was cancelled; a peer without a    *)
(* handler for the validator answers too, and is then not asked again.          *)
EXTENDS Naturals, Sequences, FiniteSets

CONSTANTS
    Maker,              \* the operator that makes the batches
    Peers,              \* the other operators; each has one unit of stake
    MaxBatches,         \* bound: batches
    MaxStops            \* bound: how often the validator stops at some operator

ASSUME QuorumWaiterAssumption ==
    /\ IsFiniteSet(Peers) /\ Peers /= {} /\ Maker \notin Peers
    /\ MaxBatches \in Nat /\ MaxStops \in Nat

VARIABLES
    sealed,             \* number of batches sealed
    rx_message,         \* batches that wait for the quorum waiter
    waiting,            \* the batch that the quorum waiter waits for; 0 if none
    collecting,         \* batches whose task counts acknowledgements
    answer,             \* answer[b][n]: the answer of n to batch b
    delivered,          \* batches handed to the processor
    handler,            \* handler[n]: the validator runs at operator n
    late,               \* history: batches that the quorum waiter has given up
    stops

waiterVars == <<sealed, rx_message, waiting, collecting, answer, delivered, handler, late, stops>>

Node == Peers \union {Maker}

Batch == 1 .. MaxBatches

QuorumThreshold == (2 * Cardinality(Node)) \div 3 + 1

Init ==
    /\ sealed = 0
    /\ rx_message = << >>
    /\ waiting = 0
    /\ collecting = {}
    /\ answer = [b \in Batch |-> [n \in Peers |-> "none"]]
    /\ delivered = {}
    /\ handler = [n \in Node |-> TRUE]
    /\ late = {}
    /\ stops = 0

\* BatchMaker::seal, when the batch is full or the timer fires.
Seal ==
    /\ handler[Maker] /\ sealed < MaxBatches
    /\ sealed' = sealed + 1
    /\ rx_message' = Append(rx_message, sealed + 1)
    /\ UNCHANGED <<waiting, collecting, answer, delivered, handler, late, stops>>

\* The batch has its cancel handlers, in the queue of the quorum waiter or in its task.
UnderWay(b) == b \in collecting \/ \E i \in DOMAIN rx_message : rx_message[i] = b

\* The answer of a peer reaches the maker.
Answer(n, b) ==
    /\ b <= sealed /\ answer[b][n] = "none"
    /\ answer' = [answer EXCEPT ![b][n] = IF handler[n] THEN "Ack" ELSE "No handler found"]
    /\ UNCHANGED <<sealed, rx_message, waiting, collecting, delivered, handler, late, stops>>

\* QuorumWaiter::run turns to the next batch and spawns the task that counts.
WaitForQuorum ==
    /\ waiting = 0 /\ rx_message /= << >>
    /\ waiting' = Head(rx_message)
    /\ collecting' = collecting \union {Head(rx_message)}
    /\ rx_message' = Tail(rx_message)
    /\ UNCHANGED <<sealed, answer, delivered, handler, late, stops>>

\* The stake counted so far: the maker's own and that of every normal acknowledgement.
TotalStake(b) == 1 + Cardinality({n \in Peers : answer[b][n] = "Ack"})

EndOfTask(b) ==
    /\ b \in collecting
    /\ collecting' = collecting \ {b}
    /\ waiting' = IF waiting = b THEN 0 ELSE waiting
    /\ UNCHANGED <<sealed, rx_message, answer, handler, late, stops>>

\* With a quorum the task hands the batch to the processor.
QuorumReached(b) ==
    /\ TotalStake(b) >= QuorumThreshold
    /\ delivered' = delivered \union {b}
    /\ EndOfTask(b)

\* All peers have answered, and too few of them with an acknowledgement.
QuorumMissed(b) ==
    /\ TotalStake(b) < QuorumThreshold
    /\ \A n \in Peers : answer[b][n] /= "none"
    /\ UNCHANGED delivered
    /\ EndOfTask(b)

WaitTimesOut_Never == FALSE /\ UNCHANGED waiterVars

\* The timeout of 12 seconds is on the handle of the task: the task itself goes on.
WaitTimesOut ==
    /\ waiting /= 0
    /\ late' = late \union {waiting}
    /\ waiting' = 0
    /\ UNCHANGED <<sealed, rx_message, collecting, answer, delivered, handler, stops>>

\* The validator stops at operator n, by a command or a crash.  What the tasks of the
\* maker hold is lost; the batches that the network has may still reach the peers.
StopValidator(n) ==
    /\ handler[n] /\ stops < MaxStops
    /\ stops' = stops + 1
    /\ handler' = [handler EXCEPT ![n] = FALSE]
    /\ IF n = Maker
       THEN collecting' = {} /\ rx_message' = << >> /\ waiting' = 0
       ELSE UNCHANGED <<collecting, rx_message, waiting>>
    /\ UNCHANGED <<sealed, answer, delivered, late>>

StartValidator(n) ==
    /\ ~handler[n]
    /\ handler' = [handler EXCEPT ![n] = TRUE]
    /\ UNCHANGED <<sealed, rx_message, waiting, collecting, answer, delivered, late, stops>>

Next ==
    \/ Seal \/ WaitForQuorum \/ WaitTimesOut
    \/ \E b \in Batch : QuorumReached(b) \/ QuorumMissed(b)
    \/ \E n \in Node : StopValidator(n) \/ StartValidator(n)
    \/ \E n \in Peers, b \in Batch : Answer(n, b)

\* The tasks are scheduled fairly, and while a batch is under way a peer that runs the
\* validator answers it (ReliableSender).  A peer that does not run the validator may
\* be unreachable for ever.
Fairness ==
    /\ WF_waiterVars(WaitForQuorum) /\ WF_waiterVars(WaitTimesOut)
    /\ \A b \in Batch :
        /\ WF_waiterVars(QuorumReached(b)) /\ WF_waiterVars(QuorumMissed(b))
        /\ \A n \in Peers : WF_waiterVars(UnderWay(b) /\ handler[n] /\ Answer(n, b))

Spec == Init /\ [][Next]_waiterVars /\ Fairness
------------------------------------------------------------------------------
\* The state has its types, and the quorum waiter waits for a batch whose task is alive.
TypeOK ==
    /\ sealed \in 0 .. MaxBatches
    /\ rx_message \in Seq(Batch)
    /\ waiting \in collecting \union {0}
    /\ collecting \subseteq Batch
    /\ answer \in [Batch -> [Peers -> {"none", "Ack", "No handler found"}]]
    /\ delivered \subseteq Batch
    /\ handler \in [Node -> BOOLEAN]
    /\ late \subseteq Batch
    /\ stops \in 0 .. MaxStops

\* No batch blocks another.  If from some moment on the maker and enough peers for a
\* quorum stay up, and none of these had refused the batch before, the batch that is under
\* way then is delivered, also when batches queued before it never get their quorum:
\* the quorum waiter waits for each of them 12 seconds at most.
EventuallyDelivered ==
    \A b \in Batch, Q \in SUBSET Peers :
        1 + Cardinality(Q) >= QuorumThreshold =>
            [](   /\ UnderWay(b)
                  /\ \A n \in Q : answer[b][n] /= "No handler found"
                  /\ [](\A n \in Q \union {Maker} : handler[n])
               => <>(b \in delivered))

\* The comment in QuorumWaiter::run, "Drop the batch after 12 seconds": a batch that the
\* quorum waiter has given up is not delivered to the processor later.
LateIsDropped == [][delivered' \intersect late \subseteq delivered]_waiterVars
==============================================================================
