----------------------------- MODULE HotStuffInv -----------------------------
(***************************************************************************)
(* The inductive invariant behind the safety of HotStuff.  It is the       *)
(* conjunction of what every handler may rely on.                          *)
(***************************************************************************)
EXTENDS HotStuff

\* The high QC of every operator is a certificate.
HighQCs == \A n \in Node : Certified(core[n].high_qc)

\* A proposed block extends a certified one, and its TC was broadcast.
Proposed ==
    \A p \in proposals :
        p.block # Genesis /\ Certified(Parent(p.block)) /\ p.tc \in tcs \cup {NoTC}

\* A vote is for a block on a certified parent that its author knows, of a round
\* that its author has marked as voted.
Voted ==
    \A v \in votes :
        /\ v.block # Genesis
        /\ Certified(Parent(v.block))
        /\ Round(v.block) <= core[v.author].last_voted_round
        /\ Round(Parent(v.block)) <= Round(core[v.author].high_qc)

\* A timeout ends its author's voting in its round and carries a high QC that
\* covers the parent of every block its author voted for until then.
TimedOut ==
    \A t \in timeouts :
        /\ Certified(t.high_qc)
        /\ t.round <= core[t.author].last_voted_round
        /\ \A v \in votes :
             v.author = t.author /\ Round(v.block) <= t.round
             => Round(Parent(v.block)) <= Round(t.high_qc)

\* A TC stands for timeouts of a quorum, with no high QC above the TC's.
TCBacked ==
    \A tc \in tcs : \E Q \in Quorum : \A n \in Q : \E t \in timeouts :
        t.author = n /\ t.round = tc.round /\ Round(t.high_qc) <= tc.high

\* A quorum has voted for b or can still do so.
Choosable(b) ==
    \E Q \in Quorum : \A n \in Q :
        \/ [author |-> n, block |-> b] \in votes
        \/ core[n].last_voted_round < Round(b)

\* As long as a block b1 of the round after its parent's can get a quorum, every
\* block of a later round that has a vote extends the parent of b1.
LockHeld(Blocks) ==
    \A b1 \in Blocks, b \in VotedBlocks :
        /\ Round(Parent(b1)) + 1 = Round(b1)
        /\ Round(b1) < Round(b)
        /\ Choosable(b1)
        => Extends(b, Parent(b1))

\* A committed block has a certified child of the next round.
CommitRule ==
    \A n \in Node : \A b \in committed[n] : \E b1 \in VotedBlocks :
        Parent(b1) = b /\ Round(b1) = Round(b) + 1 /\ Certified(b1)

IInv(Blocks) ==
    /\ TypeOK
    /\ HighQCs
    /\ Proposed
    /\ Voted
    /\ VoteOnce
    /\ TimedOut
    /\ TCBacked
    /\ LockHeld(Blocks)
    /\ CommitRule

==============================================================================
