-------------------------------- MODULE Chain --------------------------------
(***************************************************************************)
(* The block tree of one HotStuff instance and the two walks over it that  *)
(* a commit makes: the collection of the blocks to deliver and the pruning *)
(* of the store.                                                           *)
(*                                                                         *)
(* A block's digest covers its author, round, payload and the digest of    *)
(* its parent, and the author is the leader of the round.  A digest is     *)
(* therefore represented by what it commits to: the sequence of the        *)
(* (round, payload) pairs from the first block after genesis to the block  *)
(* itself.  The parent of a block is the sequence without its last entry   *)
(* and genesis is the empty sequence.  A quorum certificate names the      *)
(* block it certifies, so a QC is represented by that block too.           *)
(***************************************************************************)
EXTENDS Integers, Sequences, FiniteSets

CONSTANTS Payload,        \* the batches a block can carry
          NoPayload,      \* the empty payload
          HistoryRounds,  \* most ancestors one commit collects (13 in the code)
          PruneDepth      \* first ancestor that a commit deletes (15 in the code)

ASSUME ChainAssumption ==
    /\ HistoryRounds \in Nat
    /\ PruneDepth \in Nat \ {0}

Entry == [round : Nat \ {0}, payload : Payload]
Block == Seq(Entry)

Genesis == << >>

\* The round of a block; genesis has round 0.
Round(b) == IF b = Genesis THEN 0 ELSE b[Len(b)].round

PayloadOf(b) == IF b = Genesis THEN NoPayload ELSE b[Len(b)].payload

\* The block that a block's QC certifies; the default QC of genesis names
\* genesis itself.
Parent(b) == IF b = Genesis THEN Genesis ELSE SubSeq(b, 1, Len(b) - 1)

\* Block b has block a on its chain of ancestors, or is a.
Extends(b, a) == Len(a) <= Len(b) /\ \A i \in 1 .. Len(a) : b[i] = a[i]

\* A new block on top of the block certified by qc.
NewBlock(qc, r, p) == Append(qc, [round |-> r, payload |-> p])

------------------------------------------------------------------------------
\* The k-th ancestor of a block; genesis is its own parent.
Ancestor(b, k) == IF k < Len(b) THEN SubSeq(b, 1, Len(b) - k) ELSE Genesis

\* get_parent_block answers without the store for a child of genesis.
HasParent(b, store) == Parent(b) = Genesis \/ Parent(b) \in store

\* The commit loop goes from the k-th ancestor of b to the next one.
CommitLoop(b, k, last, store) ==
    /\ last + 1 < Round(Ancestor(b, k))
    /\ k < HistoryRounds
    /\ HasParent(Ancestor(b, k), store)

\* The number of ancestors that the loop collects.
Collected(b, last, store) ==
    CHOOSE k \in 0 .. Len(b) :
        /\ ~CommitLoop(b, k, last, store)
        /\ \A j \in 0 .. k - 1 : CommitLoop(b, j, last, store)

\* What one commit hands to the application, in the order of delivery: every
\* ancestor goes to the front of the queue, then the block does, and the queue
\* is emptied from its back.  Blocks without payload are skipped.
Delivery(b, last, store) ==
    LET k == Collected(b, last, store)
        queue == [i \in 1 .. k + 1 |-> IF i <= k THEN Ancestor(b, i) ELSE b]
    IN  SelectSeq(queue, LAMBDA x : PayloadOf(x) # NoPayload)

\* The store after a commit of b: the walk goes up through blocks that are
\* present and deletes them from the PruneDepth-th ancestor on.
Prune(b, store) ==
    LET Present(k) == \A j \in 0 .. k - 1 : HasParent(Ancestor(b, j), store)
    IN  store \ {Ancestor(b, k) : k \in {j \in PruneDepth .. Len(b) : Present(j)}}

==============================================================================
