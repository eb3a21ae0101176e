--------------------------- MODULE BlockSyncProofs ---------------------------
(* Proofs about BlockSync, for every set of blocks and every parent relation:   *)
(* the store loses no notification and the tables of the synchronizer agree     *)
(* with its waiters.                                                            *)
EXTENDS BlockSync, TLAPS

\* What get_ancestors hands to the synchronizer is a block whose parent is not genesis.
LEMMA SuspendedHasParent ==
    ASSUME NEW b \in Block, NEW S \in SUBSET Block
    PROVE  /\ Suspends(b, S) \subseteq Block
           /\ \A c \in Suspends(b, S) : Parent[c] \in Block
  BY BlockSyncAssumption DEF Suspends, Genesis

\* process_block keeps the invariant: the write of the block wakes all those, and only
\* those, that are registered for it.
LEMMA ProcessKeepsInvariant ==
    ASSUME NEW b \in Block, SyncInvariant, Process(b),
           asked' \subseteq Block, rx_loopback' \subseteq Block
    PROVE  SyncInvariant'
  <1>0. TypeOK /\ TablesAgree
    BY DEF SyncInvariant
  <1>1. /\ Suspends(b, stored') \subseteq Block
        /\ \A c \in Suspends(b, stored') : Parent[c] \in Block
    <2>1. stored' \in SUBSET Block
      BY <1>0 DEF Process, TypeOK
    <2> QED
      BY <2>1, SuspendedHasParent
  <1>2. TypeOK'
    BY <1>0, <1>1 DEF TypeOK, Process
  <1>3. obligations' = {c \in Block : waiter'[c] = "obliged"}
    BY <1>0 DEF SyncInvariant, Process, TypeOK, Children
  <1>4. \A c \in obligations' : Parent[c] \notin stored'
    BY <1>0 DEF SyncInvariant, Process, TypeOK, Children
  <1>5. \A c \in rx_inner' \union pending' : Parent[c] \in Block
    BY <1>1 DEF SyncInvariant, Process
  <1>6. {c \in Block : waiter'[c] /= "none"} = {c \in Block : waiter[c] /= "none"}
    BY <1>0 DEF SyncInvariant, Process, TypeOK
  <1>7. TablesAgree'
    BY <1>0, <1>6 DEF TablesAgree, Process, Children
  <1> QED
    BY <1>2, <1>3, <1>4, <1>5, <1>7 DEF SyncInvariant

\* The end of a wait keeps the invariant, whether the parent arrived or not: the block
\* leaves the table of waiting blocks together with its waiter, and the request for its
\* parent is forgotten.
LEMMA EndWaitKeepsInvariant ==
    ASSUME NEW b \in Block, SyncInvariant, EndWait(b), waiter[b] /= "none",
           obligations' = obligations \ {b}, rx_loopback' \subseteq Block
    PROVE  SyncInvariant'
  <1>0. TypeOK /\ TablesAgree
    BY DEF SyncInvariant
  <1>1. TypeOK'
    BY <1>0 DEF TypeOK, EndWait
  <1>2. /\ obligations' = {c \in Block : waiter'[c] = "obliged"}
        /\ \A c \in obligations' : Parent[c] \notin stored'
        /\ \A c \in rx_inner' \union pending' : Parent[c] \in Block
    BY <1>0 DEF SyncInvariant, TypeOK, EndWait
  <1>3. pending' = {c \in Block : waiter'[c] /= "none"}
    BY <1>0 DEF TablesAgree, TypeOK, EndWait
  <1>4. ASSUME NEW p \in requests'
        PROVE  pending' \intersect Children(p) /= {}
    <2>1. p \in requests /\ p /= Parent[b]
      BY DEF EndWait
    <2>2. PICK c \in pending \intersect Children(p) : TRUE
      BY <2>1, <1>0 DEF TablesAgree
    <2>3. c /= b
      BY <2>1, <2>2 DEF Children
    <2> QED
      BY <2>2, <2>3 DEF EndWait
  <1>5. TablesAgree'
    BY <1>3, <1>4 DEF TablesAgree
  <1> QED
    BY <1>1, <1>2, <1>5 DEF SyncInvariant

\* Every step of the synchronizer, the store and the core keeps the invariant.
THEOREM SyncInvariance == Spec => []SyncInvariant
  <1>1. Init => SyncInvariant
    BY DEF Init, SyncInvariant, TypeOK, TablesAgree
  <1>2. SyncInvariant /\ [Next]_vars => SyncInvariant'
    <2> SUFFICES ASSUME SyncInvariant, [Next]_vars
                 PROVE  SyncInvariant'
      OBVIOUS
    <2>0. TypeOK /\ TablesAgree
      BY DEF SyncInvariant
    <2>1. CASE Timer
      BY <2>0, <2>1 DEF Timer, SyncInvariant, TypeOK, TablesAgree
    <2>2. ASSUME NEW b \in Block, ReceiveBlock(b)
          PROVE  SyncInvariant'
      BY <2>0, <2>2, ProcessKeepsInvariant DEF ReceiveBlock, TypeOK
    <2>3. ASSUME NEW b \in Block, ReceiveAnswer(b)
          PROVE  SyncInvariant'
      BY <2>0, <2>3, ProcessKeepsInvariant DEF ReceiveAnswer, TypeOK
    <2>4. ASSUME NEW b \in Block, LoseRequest(b)
          PROVE  SyncInvariant'
      BY <2>0, <2>4 DEF LoseRequest, SyncInvariant, TypeOK, TablesAgree
    <2>5. ASSUME NEW b \in Block, Loopback(b)
          PROVE  SyncInvariant'
      BY <2>0, <2>5, ProcessKeepsInvariant DEF Loopback, TypeOK
    <2>6. ASSUME NEW b \in Block, HandleInner(b)
          PROVE  SyncInvariant'
      <3>1. CASE b \in pending
        BY <2>0, <2>6, <3>1 DEF HandleInner, SyncInvariant, TypeOK, TablesAgree
      <3>2. CASE b \notin pending
        <4>1. Parent[b] \in Block /\ waiter[b] = "none"
          BY <2>0, <2>6, <3>2 DEF HandleInner, SyncInvariant, TablesAgree
        <4>2. TypeOK'
          BY <2>0, <2>6, <3>2, <4>1 DEF HandleInner, TypeOK
        <4>3. /\ obligations' = {c \in Block : waiter'[c] = "obliged"}
              /\ \A c \in obligations' : Parent[c] \notin stored'
              /\ \A c \in rx_inner' \union pending' : Parent[c] \in Block
          BY <2>0, <2>6, <3>2, <4>1 DEF HandleInner, SyncInvariant, TypeOK
        <4>4. pending' = {c \in Block : waiter'[c] /= "none"}
          BY <2>0, <2>6, <3>2, <4>1 DEF HandleInner, TypeOK, TablesAgree
        <4>5. \A p \in requests' : pending' \intersect Children(p) /= {}
          BY <2>0, <2>6, <3>2, <4>1 DEF HandleInner, TablesAgree, Children
        <4> QED
          BY <4>2, <4>3, <4>4, <4>5 DEF SyncInvariant, TablesAgree
      <3> QED
        BY <3>1, <3>2
    <2>7. ASSUME NEW b \in Block, NotifyRead(b)
          PROVE  SyncInvariant'
      <3>1. TypeOK'
        BY <2>0, <2>7 DEF NotifyRead, TypeOK
      <3>2. /\ obligations' = {c \in Block : waiter'[c] = "obliged"}
            /\ \A c \in obligations' : Parent[c] \notin stored'
            /\ \A c \in rx_inner' \union pending' : Parent[c] \in Block
        BY <2>0, <2>7 DEF NotifyRead, SyncInvariant, TypeOK
      <3>3. TablesAgree'
        BY <2>0, <2>7 DEF NotifyRead, TypeOK, TablesAgree
      <3> QED
        BY <3>1, <3>2, <3>3 DEF SyncInvariant
    <2>8. ASSUME NEW b \in Block, ParentArrives(b)
          PROVE  SyncInvariant'
      <3>1. obligations' = obligations \ {b}
        BY <2>8 DEF ParentArrives, SyncInvariant
      <3> QED
        BY <2>0, <2>8, <3>1, EndWaitKeepsInvariant DEF ParentArrives, TypeOK
    <2>9. ASSUME NEW b \in Block, WaitTimesOut(b)
          PROVE  SyncInvariant'
      BY <2>0, <2>9, EndWaitKeepsInvariant DEF WaitTimesOut, TypeOK
    <2>10. CASE UNCHANGED vars
      BY <2>0, <2>10 DEF vars, SyncInvariant, TypeOK, TablesAgree
    <2> QED
      BY <2>1, <2>2, <2>3, <2>4, <2>5, <2>6, <2>7, <2>8, <2>9, <2>10 DEF Next
  <1> QED
    BY <1>1, <1>2, PTL DEF Spec

\* The notifications of the store are never lost, whatever is written between the lookup
\* of the core, the start of the waiter and its registration.
THEOREM WakeUpsAreKept == Spec => []NoLostWakeUp
  <1>1. SyncInvariant => NoLostWakeUp
    BY DEF SyncInvariant, NoLostWakeUp
  <1> QED
    BY <1>1, SyncInvariance, PTL

\* The table of waiting blocks and the table of requests always agree with the waiters.
THEOREM TablesAlwaysAgree == Spec => []TablesAgree
  <1>1. SyncInvariant => TablesAgree
    BY DEF SyncInvariant
  <1> QED
    BY <1>1, SyncInvariance, PTL
==============================================================================
