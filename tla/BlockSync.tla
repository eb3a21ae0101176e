------------------------------ MODULE BlockSync ------------------------------
(* How one operator gets the parent of a block that it has to process: the      *)
(* lookup in Synchronizer::get_ancestors, the task of the synchronizer with its *)
(* waiters and requests (consensus/src/synchronizer.rs), the notifications of   *)
(* the store (store/src/lib.rs) and the answers of the helpers of the others    *)
(* (consensus/src/helper.rs).                                                   *)
EXTENDS Naturals, FiniteSets

CONSTANTS
    Block,              \* the blocks that peers may send
    Parent              \* Parent[b]: the parent of b, or Genesis

Genesis == "genesis"

ASSUME BlockSyncAssumption ==
    /\ Genesis \notin Block
    /\ Parent \in [Block -> Block \union {Genesis}]

VARIABLES
    stored,             \* blocks in the store
    rx_inner,           \* blocks on their way to the task of the synchronizer
    pending,            \* blocks that the task knows to be waiting
    waiter,             \* waiter[b]: state of the waiter of block b
    obligations,        \* waiters registered in the store, by block
    requests,           \* parents that the task asks for, and repeatedly
    fed,                \* requests given to the connections, not flushed
    asked,              \* requests on the network
    rx_loopback,        \* blocks on their way back to the core
    suspended           \* history: blocks the core has suspended

vars == <<stored, rx_inner, pending, waiter, obligations, requests, fed, asked, rx_loopback,
          suspended>>

Init ==
    /\ stored = {}
    /\ rx_inner = {} /\ pending = {}
    /\ waiter = [b \in Block |-> "none"]
    /\ obligations = {}
    /\ requests = {} /\ fed = {} /\ asked = {}
    /\ rx_loopback = {}
    /\ suspended = {}

Children(p) == {b \in Block : Parent[b] = p}

\* The block that get_ancestors hands to the synchronizer: the block itself if its parent
\* is missing, the parent if only the grandparent is.
Suspends(b, in_store) ==
    IF Parent[b] = Genesis THEN {}
    ELSE IF Parent[b] \notin in_store THEN {b}
    ELSE IF Parent[Parent[b]] \notin in_store \union {Genesis} THEN {Parent[b]}
    ELSE {}

\* Core::process_block up to the lookup of the ancestors: the block is stored, which
\* notifies those who wait for it.
Process(b) ==
    /\ stored' = stored \union {b}
    /\ waiter' = [c \in Block |-> IF c \in obligations /\ Parent[c] = b THEN "ready" ELSE waiter[c]]
    /\ obligations' = obligations \ Children(b)
    /\ rx_inner' = rx_inner \union Suspends(b, stored')
    /\ suspended' = suspended \union Suspends(b, stored')
    /\ UNCHANGED <<pending, requests, fed>>

\* A proposal arrives, for the first time or again.
ReceiveBlock(b) ==
    /\ Process(b)
    /\ UNCHANGED <<asked, rx_loopback>>

\* The helper of a peer answers a request.
ReceiveAnswer(p) ==
    /\ p \in asked
    /\ asked' = asked \ {p}
    /\ Process(p)
    /\ UNCHANGED <<rx_loopback>>

\* The simple sender drops a request, or no peer has the block.
LoseRequest(p) ==
    /\ p \in asked
    /\ asked' = asked \ {p}
    /\ UNCHANGED <<stored, rx_inner, pending, waiter, obligations, requests, fed, rx_loopback,
                   suspended>>

Loopback(b) ==
    /\ b \in rx_loopback
    /\ rx_loopback' = rx_loopback \ {b}
    /\ Process(b)
    /\ UNCHANGED <<asked>>

\* The task takes a block: it starts a waiter for the parent, and asks for the parent
\* unless another block did.
HandleInner(b) ==
    /\ b \in rx_inner
    /\ rx_inner' = rx_inner \ {b}
    /\ IF b \in pending
       THEN UNCHANGED <<pending, waiter, requests, fed>>
       ELSE /\ pending' = pending \union {b}
            /\ waiter' = [waiter EXCEPT ![b] = "asking"]
            /\ requests' = requests \union {Parent[b]}
            /\ fed' = IF Parent[b] \in requests THEN fed ELSE fed \union {Parent[b]}
    /\ UNCHANGED <<stored, obligations, asked, rx_loopback, suspended>>

NotifyRead_Blind(b) ==
    /\ waiter[b] = "asking"
    /\ waiter' = [waiter EXCEPT ![b] = "obliged"]
    /\ obligations' = obligations \union {b}
    /\ UNCHANGED <<stored, rx_inner, pending, requests, fed, asked, rx_loopback, suspended>>

\* StoreCommand::NotifyRead: the store answers at once or registers the waiter.
NotifyRead(b) ==
    /\ waiter[b] = "asking"
    /\ IF Parent[b] \in stored
       THEN waiter' = [waiter EXCEPT ![b] = "ready"] /\ UNCHANGED obligations
       ELSE /\ waiter' = [waiter EXCEPT ![b] = "obliged"]
            /\ obligations' = obligations \union {b}
    /\ UNCHANGED <<stored, rx_inner, pending, requests, fed, asked, rx_loopback, suspended>>

EndWait(b) ==
    /\ waiter' = [waiter EXCEPT ![b] = "none"]
    /\ pending' = pending \ {b}
    /\ requests' = requests \ {Parent[b]}
    /\ suspended' = suspended \ {b}
    /\ UNCHANGED <<stored, rx_inner, fed, asked>>

\* The parent is there: the block goes back to the core.
ParentArrives(b) ==
    /\ waiter[b] = "ready"
    /\ EndWait(b)
    /\ rx_loopback' = rx_loopback \union {b}
    /\ UNCHANGED obligations

WaitTimesOut_KeepsPending(b) ==
    /\ waiter[b] \in {"asking", "obliged"}
    /\ waiter' = [waiter EXCEPT ![b] = "none"]
    /\ requests' = requests \ {Parent[b]}
    /\ suspended' = suspended \ {b}
    /\ obligations' = obligations \ {b}
    /\ UNCHANGED <<stored, rx_inner, pending, fed, asked, rx_loopback>>

WaitTimesOut_KeepsRequest(b) ==
    /\ waiter[b] \in {"asking", "obliged"}
    /\ waiter' = [waiter EXCEPT ![b] = "none"]
    /\ pending' = pending \ {b}
    /\ suspended' = suspended \ {b}
    /\ obligations' = obligations \ {b}
    /\ UNCHANGED <<stored, rx_inner, requests, fed, asked, rx_loopback>>

\* After 20 seconds the block is dropped.  Its registration in the store is without
\* effect from now on.
WaitTimesOut(b) ==
    /\ waiter[b] \in {"asking", "obliged"}
    /\ EndWait(b)
    /\ obligations' = obligations \ {b}
    /\ UNCHANGED rx_loopback

\* The timer, every 5 seconds: the connections are flushed, and the requests that are
\* due are repeated, except for parents that are themselves waiting.  A flush that does
\* not finish in time changes nothing.
Timer ==
    \E due \in SUBSET (requests \ pending) :
        /\ asked' = asked \union fed \union due
        /\ fed' = {}
            /\ UNCHANGED <<stored, rx_inner, pending, waiter, obligations, requests, rx_loopback,
                       suspended>>

Next ==
    \/ Timer
    \/ \E b \in Block :
        \/ ReceiveBlock(b) \/ ReceiveAnswer(b) \/ LoseRequest(b) \/ Loopback(b)
        \/ HandleInner(b) \/ NotifyRead(b) \/ ParentArrives(b) \/ WaitTimesOut(b)

\* The core, the synchronizer and the store are scheduled fairly, and timers fire.
Fairness ==
    /\ WF_vars(Timer)
    /\ \A b \in Block :
        /\ WF_vars(Loopback(b)) /\ WF_vars(HandleInner(b)) /\ WF_vars(NotifyRead(b))
        /\ WF_vars(ParentArrives(b)) /\ WF_vars(WaitTimesOut(b))

Spec == Init /\ [][Next]_vars /\ Fairness
------------------------------------------------------------------------------
\* The state has its types.
TypeOK ==
    /\ stored \subseteq Block
    /\ rx_inner \subseteq Block /\ pending \subseteq Block
    /\ waiter \in [Block -> {"none", "asking", "obliged", "ready"}]
    /\ obligations \subseteq Block
    /\ requests \subseteq Block /\ fed \subseteq Block /\ asked \subseteq Block
    /\ rx_loopback \subseteq Block
    /\ suspended \subseteq Block

\* No wake-up is lost: a waiter that has to be notified is registered in the store, and
\* the block it is registered for is not there, although the core looked for the block,
\* the synchronizer started the waiter and the store registered it at different times.
NoLostWakeUp ==
    \A b \in Block : waiter[b] = "obliged" => b \in obligations /\ Parent[b] \notin stored

\* The tables of the synchronizer agree with its futures: the blocks in pending are those
\* with a waiter, and a request is repeated only while some block waits for its answer.
TablesAgree ==
    /\ pending = {b \in Block : waiter[b] /= "none"}
    /\ \A p \in requests : pending \intersect Children(p) /= {}

\* The inductive invariant: the registrations in the store are those of the waiters that
\* have to be notified, and no block is made to wait for the genesis block.
SyncInvariant ==
    /\ TypeOK
    /\ obligations = {b \in Block : waiter[b] = "obliged"}
    /\ \A b \in obligations : Parent[b] \notin stored
    /\ \A b \in rx_inner \union pending : Parent[b] \in Block
    /\ TablesAgree

\* A block that the core has suspended is given back to it or dropped in the end, however
\* often it is received, suspended and dropped.
EventuallyResolved == \A b \in Block : b \in suspended ~> b \notin suspended

\* The comment at the timer of the synchronizer, "This implements the 'perfect point to
\* point link' abstraction": while a block waits for its parent, the request for the
\* parent is kept and repeated.
WaitingIsRequested ==
    \A b \in pending : Parent[b] \in requests \union stored
==============================================================================
