--------------------------- MODULE HotStuffSafeStep ---------------------------
(***************************************************************************)
(* Blocks, quorums and the step all handlers of HotStuff have in common:   *)
(* the inductive invariant is preserved by it.                             *)
(***************************************************************************)
EXTENDS HotStuffInv, FiniteSetTheorems, TLAPS

------------------------------------------------------------------------------
(* Blocks. *)

\* Only genesis has round 0, and a block's parent is a block.
LEMMA BlockFacts ==
    ASSUME NEW b \in Block
    PROVE  /\ Round(b) \in Nat
           /\ Round(b) = 0 <=> b = Genesis
           /\ Parent(b) \in Block
<1>1. CASE b = Genesis
  BY <1>1 DEF Round, Parent
<1>2. CASE b # Genesis
  <2>1. Len(b) \in Nat \ {0}
    BY <1>2 DEF Block, Genesis
  <2>2. b[Len(b)] \in Entry
    BY <2>1 DEF Block
  <2>3. b[Len(b)].round \in Nat \ {0}
    BY <2>2 DEF Entry
  <2>4. SubSeq(b, 1, Len(b) - 1) \in Block
    BY <2>1 DEF Block
  <2> QED
    BY <1>2, <2>3, <2>4 DEF Round, Parent
<1> QED
  BY <1>1, <1>2

\* What Block::new makes from a QC.
LEMMA NewBlockFacts ==
    ASSUME NEW qc \in Block, NEW r \in Nat \ {0}, NEW p \in Payload
    PROVE  /\ NewBlock(qc, r, p) \in Block
           /\ NewBlock(qc, r, p) # Genesis
           /\ Parent(NewBlock(qc, r, p)) = qc
           /\ Round(NewBlock(qc, r, p)) = r
<1>1. [round |-> r, payload |-> p] \in Entry
  BY DEF Entry
<1>2. NewBlock(qc, r, p) \in Block /\ Len(NewBlock(qc, r, p)) = Len(qc) + 1
  BY <1>1 DEF NewBlock, Block
<1>3. NewBlock(qc, r, p) # Genesis
  BY <1>2 DEF Genesis, Block
<1>4. Parent(NewBlock(qc, r, p)) = qc
  BY <1>1, <1>2, <1>3 DEF Parent, NewBlock, Block
<1>5. Round(NewBlock(qc, r, p)) = r
  BY <1>1, <1>2, <1>3 DEF Round, NewBlock, Block
<1> QED
  BY <1>2, <1>3, <1>4, <1>5

\* A block extends itself and whatever its parent extends.
LEMMA ExtendsParent ==
    ASSUME NEW b \in Block, NEW a \in Block
    PROVE  /\ Extends(b, b)
           /\ Extends(Parent(b), a) => Extends(b, a)
           /\ Extends(b, Parent(b))
BY DEF Extends, Parent, Block, Genesis

------------------------------------------------------------------------------
(* Quorums. *)

\* Any two quorums of quorum_threshold() operators have an operator in common.
LEMMA QuorumIntersection ==
    ASSUME NEW P \in Quorum, NEW Q \in Quorum
    PROVE  \E n \in Node : n \in P /\ n \in Q
<1>1. N \in Nat \ {0}
  BY HotStuffAssumption
<1>2. IsFiniteSet(Node) /\ Cardinality(Node) = N
  BY <1>1, FS_Interval DEF Node
<1>3. P \subseteq Node /\ Q \subseteq Node
  BY DEF Quorum
<1>4. IsFiniteSet(P) /\ IsFiniteSet(Q)
  BY <1>2, <1>3, FS_Subset
<1>5. Cardinality(P) \in Nat /\ Cardinality(Q) \in Nat /\ Cardinality(P \cap Q) \in Nat
  BY Zenon, <1>4, FS_CardinalityType, FS_Intersection
<1>6. /\ Cardinality(P \cup Q) = Cardinality(P) + Cardinality(Q) - Cardinality(P \cap Q)
      /\ IsFiniteSet(P \cup Q)
  BY <1>4, FS_Union
<1>7. Cardinality(P \cup Q) <= N
  BY <1>2, <1>3, FS_Subset
<1>8. 2 * QuorumThreshold > N /\ QuorumThreshold \in Nat
  BY <1>1 DEF QuorumThreshold
<1>9. Cardinality(P) >= QuorumThreshold /\ Cardinality(Q) >= QuorumThreshold
  BY DEF Quorum
<1>10. Cardinality(P \cap Q) # 0
  BY <1>1, <1>5, <1>6, <1>7, <1>8, <1>9
<1>11. P \cap Q # {}
  BY <1>10, FS_EmptySet
<1> QED
  BY <1>3, <1>11

------------------------------------------------------------------------------
(* The steps of a Core on its own state. *)

\* process_qc keeps the larger of the two certificates and touches neither the
\* votes nor the commits.
LEMMA ProcessQCFacts ==
    ASSUME NEW c \in CoreState, NEW qc \in Block
    PROVE  /\ ProcessQC(c, qc) \in CoreState
           /\ ProcessQC(c, qc).last_voted_round = c.last_voted_round
           /\ ProcessQC(c, qc).last_committed_round = c.last_committed_round
           /\ ProcessQC(c, qc).high_qc \in {c.high_qc, qc}
           /\ Round(ProcessQC(c, qc).high_qc) >= Round(c.high_qc)
           /\ Round(ProcessQC(c, qc).high_qc) >= Round(qc)
<1>1. c.high_qc \in Block
  BY DEF CoreState
<1>2. Round(qc) \in Nat /\ Round(c.high_qc) \in Nat
  BY <1>1, BlockFacts
<1> DEFINE a == AdvanceRound(c, Round(qc))
<1>3. /\ a \in CoreState
      /\ a.high_qc = c.high_qc
      /\ a.last_voted_round = c.last_voted_round
      /\ a.last_committed_round = c.last_committed_round
  BY <1>2 DEF AdvanceRound, CoreState
<1> HIDE DEF a
<1> DEFINE u == UpdateHighQC(a, qc)
<1>4. /\ u \in CoreState
      /\ u.last_voted_round = a.last_voted_round
      /\ u.last_committed_round = a.last_committed_round
      /\ u.high_qc = IF Round(qc) > Round(a.high_qc) THEN qc ELSE a.high_qc
  BY <1>3 DEF UpdateHighQC, CoreState
<1>5. ProcessQC(c, qc) = u
  BY DEF ProcessQC, a
<1> HIDE DEF u
<1> QED
  BY <1>2, <1>3, <1>4, <1>5

\* process_tc changes the round and the high TC only.
LEMMA ProcessTCFacts ==
    ASSUME NEW c \in CoreState, NEW r \in Nat
    PROVE  /\ ProcessTC(c, r) \in CoreState
           /\ ProcessTC(c, r).last_voted_round = c.last_voted_round
           /\ ProcessTC(c, r).last_committed_round = c.last_committed_round
           /\ ProcessTC(c, r).high_qc = c.high_qc
<1> DEFINE a == AdvanceRound(c, r)
<1>1. /\ a \in CoreState
      /\ a.high_qc = c.high_qc
      /\ a.last_voted_round = c.last_voted_round
      /\ a.last_committed_round = c.last_committed_round
  BY DEF AdvanceRound, CoreState
<1> HIDE DEF a
<1>2. /\ UpdateHighTC(a, r) \in CoreState
      /\ UpdateHighTC(a, r).last_voted_round = a.last_voted_round
      /\ UpdateHighTC(a, r).last_committed_round = a.last_committed_round
      /\ UpdateHighTC(a, r).high_qc = a.high_qc
  BY <1>1 DEF UpdateHighTC, CoreState
<1> QED
  BY <1>1, <1>2 DEF ProcessTC, a

\* increase_last_voted_round never lowers it.
LEMMA VotedRoundFacts ==
    ASSUME NEW c \in CoreState, NEW r \in Nat
    PROVE  /\ IncreaseLastVotedRound(c, r) \in CoreState
           /\ IncreaseLastVotedRound(c, r).last_voted_round >= c.last_voted_round
           /\ IncreaseLastVotedRound(c, r).last_voted_round >= r
           /\ IncreaseLastVotedRound(c, r).high_qc = c.high_qc
           /\ IncreaseLastVotedRound(c, r).high_tc = c.high_tc
           /\ IncreaseLastVotedRound(c, r).round = c.round
BY DEF IncreaseLastVotedRound, CoreState

\* The bookkeeping of a commit leaves votes and certificates alone.
LEMMA AfterCommitFacts ==
    ASSUME NEW c \in CoreState, NEW b \in Block
    PROVE  /\ AfterCommit(c, b) \in CoreState
           /\ AfterCommit(c, b).last_voted_round = c.last_voted_round
           /\ AfterCommit(c, b).high_qc = c.high_qc
           /\ AfterCommit(c, b).round = c.round
BY BlockFacts DEF AfterCommit, CoreState

------------------------------------------------------------------------------
(* Certificates and locks in one state. *)

\* The operators that voted for a block are operators of the committee.
LEMMA VotersAreNodes ==
    ASSUME TypeOK, NEW b
    PROVE  /\ Voters(b) \subseteq Node
           /\ \A n \in Voters(b) : [author |-> n, block |-> b] \in votes
BY DEF TypeOK, Voters, Vote

\* A certified block other than genesis has a vote.
LEMMA CertifiedHasVote ==
    ASSUME TypeOK, NEW b \in Block, Certified(b), b # Genesis
    PROVE  b \in VotedBlocks /\ Voters(b) \in Quorum
<1>1. Voters(b) \in Quorum
  BY DEF Certified
<1>2. PICK n \in Node : n \in Voters(b)
  BY <1>1, QuorumIntersection
<1>3. [author |-> n, block |-> b] \in votes
  BY <1>2, VotersAreNodes
<1> QED
  BY <1>1, <1>3 DEF VotedBlocks

\* Two certified blocks of one round are the same block: an operator in both
\* quorums voted once in the round.
LEMMA CertifiedUnique ==
    ASSUME TypeOK, VoteOnce, NEW a \in Block, NEW b \in Block,
           Certified(a), Certified(b), Round(a) = Round(b)
    PROVE  a = b
<1>1. CASE a = Genesis \/ b = Genesis
  BY <1>1, BlockFacts
<1>2. CASE a # Genesis /\ b # Genesis
  <2>1. PICK n \in Node : n \in Voters(a) /\ n \in Voters(b)
    BY <1>2, CertifiedHasVote, QuorumIntersection
  <2>2. /\ [author |-> n, block |-> a] \in votes
        /\ [author |-> n, block |-> b] \in votes
    BY <2>1, VotersAreNodes
  <2> QED
    BY <2>2 DEF VoteOnce
<1> QED
  BY <1>1, <1>2

\* make_vote never bypasses a lock: a block that passes safety rule 2 extends the
\* parent of every block of an earlier round that can still get a quorum and is
\* of the round after its parent's.
LEMMA VoteRespectsLock ==
    ASSUME IInv(Block), NEW b \in Block, NEW b1 \in Block,
           Certified(Parent(b)),
           \/ Round(Parent(b)) + 1 = Round(b)
           \/ \E tc \in tcs : tc.round + 1 = Round(b) /\ Round(Parent(b)) >= tc.high,
           Round(Parent(b1)) + 1 = Round(b1),
           Round(b1) < Round(b),
           Choosable(b1)
    PROVE  Extends(b, Parent(b1))
<1> DEFINE P == Parent(b)
           b0 == Parent(b1)
<1>1. TypeOK /\ VoteOnce /\ Voted /\ TimedOut /\ TCBacked /\ LockHeld(Block)
  BY DEF IInv
<1>2. /\ P \in Block /\ b0 \in Block
      /\ Round(b) \in Nat /\ Round(b1) \in Nat /\ Round(P) \in Nat /\ Round(b0) \in Nat
  BY BlockFacts
<1>3. PICK Q \in Quorum :
        \A n \in Q : \/ [author |-> n, block |-> b1] \in votes
                    \/ core[n].last_voted_round < Round(b1)
  BY DEF Choosable
<1>4. ASSUME NEW n \in Node, n \in Q, core[n].last_voted_round >= Round(b1)
      PROVE  [author |-> n, block |-> b1] \in votes
  BY <1>1, <1>2, <1>3, <1>4 DEF TypeOK, CoreState
<1>5. SUFFICES Extends(P, b0)
  BY <1>2, ExtendsParent
<1>6. ASSUME Round(P) >= Round(b1)
      PROVE  Extends(P, b0)
  <2>1. P # Genesis
    BY <1>2, <1>6, BlockFacts
  <2>2. P \in VotedBlocks /\ Voters(P) \in Quorum
    BY <1>1, <1>2, <2>1, CertifiedHasVote
  <2>3. CASE Round(P) = Round(b1)
    <3>1. PICK n \in Node : n \in Voters(P) /\ n \in Q
      BY <2>2, QuorumIntersection
    <3>2. [author |-> n, block |-> P] \in votes
      BY <1>1, <3>1, VotersAreNodes
    <3>3. core[n].last_voted_round >= Round(b1)
      BY <1>1, <1>2, <2>3, <3>2 DEF Voted, TypeOK, CoreState
    <3>4. [author |-> n, block |-> b1] \in votes
      BY <1>4, <3>1, <3>3
    <3>5. P = b1
      BY <1>1, <2>3, <3>2, <3>4 DEF VoteOnce
    <3> QED
      BY <3>5, <1>2, ExtendsParent
  <2>4. CASE Round(P) > Round(b1)
    BY <1>1, <2>2, <2>4 DEF LockHeld
  <2> QED
    BY <1>2, <1>6, <2>3, <2>4
<1>7. CASE Round(P) + 1 = Round(b)
  BY <1>2, <1>6, <1>7
<1>8. CASE \E tc \in tcs : tc.round + 1 = Round(b) /\ Round(P) >= tc.high
  <2>1. PICK tc \in tcs : tc.round + 1 = Round(b) /\ Round(P) >= tc.high
    BY <1>8
  <2>2. PICK T \in Quorum : \A n \in T : \E t \in timeouts :
          t.author = n /\ t.round = tc.round /\ Round(t.high_qc) <= tc.high
    BY <1>1 DEF TCBacked
  <2>3. PICK n \in Node : n \in T /\ n \in Q
    BY <2>2, QuorumIntersection
  <2>4. PICK t \in timeouts :
          t.author = n /\ t.round = tc.round /\ Round(t.high_qc) <= tc.high
    BY <2>2, <2>3
  <2>5. /\ tc.round \in Nat /\ tc.high \in Nat
        /\ t.high_qc \in Block
        /\ core[n].last_voted_round \in Nat
    BY <1>1 DEF TypeOK, TC, Timeout, CoreState
  <2>6. tc.round >= Round(b1)
    BY <1>2, <2>1, <2>5
  <2>7. core[n].last_voted_round >= Round(b1)
    BY <1>1, <1>2, <2>4, <2>5, <2>6 DEF TimedOut
  <2>8. [author |-> n, block |-> b1] \in votes
    BY <1>4, <2>3, <2>7
  <2>9. Round(b0) <= Round(t.high_qc)
    BY <1>1, <2>4, <2>6, <2>8 DEF TimedOut
  <2>10. Round(b0) <= Round(P)
    BY <1>2, <2>1, <2>4, <2>5, <2>9, BlockFacts
  <2>11. CASE Round(P) = Round(b0)
    <3>1. Certified(b0)
      BY <1>1, <2>8 DEF Voted
    <3>2. P = b0
      BY <1>1, <1>2, <2>11, <3>1, CertifiedUnique
    <3> QED
      BY <1>2, <3>2, ExtendsParent
  <2>12. CASE Round(P) # Round(b0)
    BY <1>2, <1>6, <2>10, <2>12
  <2> QED
    BY <2>11, <2>12
<1> QED
  BY <1>7, <1>8

------------------------------------------------------------------------------
(* What the handlers have in common.  Operator n moves to state c and sends   *)
(* messages; every action of the specification is such a step, and every      *)
(* such step preserves the invariant.                                         *)

\* The vote, if any, passes both safety rules.
VoteStep(n, c) ==
    \/ votes' = votes
    \/ \E b \in Block :
         /\ votes' = votes \cup {[author |-> n, block |-> b]}
         /\ b # Genesis
         /\ Certified(Parent(b))
         /\ core[n].last_voted_round < Round(b)
         /\ Round(b) <= c.last_voted_round
         /\ Round(Parent(b)) <= Round(c.high_qc)
         /\ \/ Round(Parent(b)) + 1 = Round(b)
            \/ \E tc \in tcs : tc.round + 1 = Round(b) /\ Round(Parent(b)) >= tc.high

\* The timeout, if any, carries the high QC of n, which votes no more up to it.
TimeoutStep(n, c) ==
    \/ timeouts' = timeouts
    \/ /\ votes' = votes
       /\ \E t \in Timeout :
            /\ timeouts' = timeouts \cup {t}
            /\ t.author = n
            /\ t.high_qc = core[n].high_qc
            /\ t.round <= c.last_voted_round

SafeStep(n, c) ==
    /\ core' = [core EXCEPT ![n] = c]
    /\ c.last_voted_round >= core[n].last_voted_round
    /\ Round(c.high_qc) >= Round(core[n].high_qc)
    /\ Certified(c.high_qc)'
    /\ VoteStep(n, c)
    /\ TimeoutStep(n, c)
    /\ tcs \subseteq tcs'
    /\ \A tc \in tcs' \ tcs : \E Q \in Quorum : \A m \in Q : \E t \in timeouts' :
         t.author = m /\ t.round = tc.round /\ Round(t.high_qc) <= tc.high
    /\ \A p \in proposals' \ proposals :
         p.block # Genesis /\ Certified(Parent(p.block))' /\ p.tc \in tcs' \cup {NoTC}
    /\ \A m \in Node : \A b \in committed'[m] \ committed[m] : \E b1 \in VotedBlocks :
         Parent(b1) = b /\ Round(b1) = Round(b) + 1 /\ Certified(b1)

\* A certificate stays one: votes are never withdrawn.
LEMMA CertifiedStays ==
    ASSUME TypeOK', votes \subseteq votes', NEW b, Certified(b)
    PROVE  Certified(b)'
<1>1. CASE b = Genesis
  BY <1>1 DEF Certified
<1>2. CASE Voters(b) \in Quorum
  <2>1. Voters(b) \subseteq Voters(b)'
    BY DEF Voters
  <2>2. Voters(b)' \subseteq Node
    BY DEF TypeOK, Voters, Vote
  <2>3. IsFiniteSet(Node)
    BY HotStuffAssumption, FS_Interval DEF Node
  <2>4. IsFiniteSet(Voters(b)')
    BY <2>2, <2>3, FS_Subset
  <2>5. Cardinality(Voters(b)) <= Cardinality(Voters(b)')
    BY <2>1, <2>4, FS_Subset
  <2>6. /\ Cardinality(Voters(b)) \in Nat
        /\ Cardinality(Voters(b)') \in Nat
        /\ QuorumThreshold \in Nat
    BY <2>1, <2>4, FS_Subset, FS_CardinalityType, HotStuffAssumption DEF QuorumThreshold
  <2>7. Cardinality(Voters(b)) >= QuorumThreshold
    BY <1>2 DEF Quorum
  <2>8. Voters(b)' \in Quorum
    BY <2>2, <2>5, <2>6, <2>7 DEF Quorum
  <2> QED
    BY <2>8 DEF Certified
<1> QED
  BY <1>1, <1>2 DEF Certified

\* The induction step, once for all handlers.
LEMMA SafeStepPreserves ==
    ASSUME IInv(Block), TypeOK', NEW n \in Node, NEW c \in CoreState, SafeStep(n, c)
    PROVE  IInv(Block)'
<1> DEFINE NewVote(b) ==
             /\ votes' = votes \cup {[author |-> n, block |-> b]}
             /\ b # Genesis
             /\ Certified(Parent(b))
             /\ core[n].last_voted_round < Round(b)
             /\ Round(b) <= c.last_voted_round
             /\ Round(Parent(b)) <= Round(c.high_qc)
             /\ \/ Round(Parent(b)) + 1 = Round(b)
                \/ \E tc \in tcs : tc.round + 1 = Round(b) /\ Round(Parent(b)) >= tc.high
<1>1. /\ TypeOK /\ HighQCs /\ Proposed /\ Voted /\ VoteOnce /\ TimedOut /\ TCBacked
      /\ LockHeld(Block) /\ CommitRule
  BY DEF IInv
<1>2. votes' = votes \/ \E b \in Block : NewVote(b)
  BY DEF SafeStep, VoteStep
<1>3. votes \subseteq votes' /\ timeouts \subseteq timeouts'
  BY <1>2 DEF SafeStep, TimeoutStep
<1>4. /\ core' = [core EXCEPT ![n] = c]
      /\ c.last_voted_round >= core[n].last_voted_round
      /\ Round(c.high_qc) >= Round(core[n].high_qc)
  BY DEF SafeStep
<1>5. \A m \in Node :
        /\ core[m] \in CoreState
        /\ core[m].last_voted_round \in Nat
        /\ core[m].high_qc \in Block
        /\ Round(core[m].high_qc) \in Nat
        /\ core'[m] = IF m = n THEN c ELSE core[m]
        /\ core'[m].last_voted_round \in Nat
        /\ core'[m].high_qc \in Block
        /\ Round(core'[m].high_qc) \in Nat
  BY <1>1, <1>4, BlockFacts DEF TypeOK, CoreState
<1>6. \A m \in Node :
        /\ core'[m].last_voted_round >= core[m].last_voted_round
        /\ Round(core'[m].high_qc) >= Round(core[m].high_qc)
  BY <1>4, <1>5
<1>7. \A b : Certified(b) => Certified(b)'
  BY <1>3, CertifiedStays
<1>8. \A v \in votes : v.author \in Node /\ v.block \in Block
  BY <1>1 DEF TypeOK, Vote
<1>9. \A t \in timeouts : t.author \in Node /\ t.round \in Nat /\ t.high_qc \in Block
  BY <1>1 DEF TypeOK, Timeout
<1>10. HighQCs'
  BY <1>1, <1>5, <1>7 DEF HighQCs, SafeStep
<1>11. Proposed'
  BY <1>1, <1>7 DEF Proposed, SafeStep
<1>12. Voted'
  <2>1. ASSUME NEW v \in votes
        PROVE  /\ v.block # Genesis
               /\ Certified(Parent(v.block))'
               /\ Round(v.block) <= core'[v.author].last_voted_round
               /\ Round(Parent(v.block)) <= Round(core'[v.author].high_qc)
    <3>1. /\ v.block # Genesis
          /\ Certified(Parent(v.block))
          /\ Round(v.block) <= core[v.author].last_voted_round
          /\ Round(Parent(v.block)) <= Round(core[v.author].high_qc)
      BY <1>1 DEF Voted
    <3>2. Round(v.block) \in Nat /\ Round(Parent(v.block)) \in Nat
      BY <1>8, BlockFacts
    <3> QED
      BY <1>5, <1>6, <1>7, <1>8, <3>1, <3>2
  <2>2. ASSUME NEW b \in Block, NewVote(b)
        PROVE  /\ b # Genesis
               /\ Certified(Parent(b))'
               /\ Round(b) <= core'[n].last_voted_round
               /\ Round(Parent(b)) <= Round(core'[n].high_qc)
    BY <1>5, <1>7, <2>2
  <2>3. CASE votes' = votes
    BY <2>1, <2>3 DEF Voted
  <2>4. CASE \E b \in Block : NewVote(b)
    <3>1. PICK b \in Block : NewVote(b)
      BY <2>4
    <3>2. \A v \in votes' : v \in votes \/ (v.author = n /\ v.block = b)
      BY <3>1
    <3> HIDE DEF NewVote
    <3> QED
      BY <2>1, <2>2, <3>1, <3>2 DEF Voted
  <2> QED
    BY <1>2, <2>3, <2>4
<1>13. VoteOnce'
  <2>1. CASE votes' = votes
    BY <1>1, <2>1 DEF VoteOnce
  <2>2. CASE \E b \in Block : NewVote(b)
    <3>1. PICK b \in Block : NewVote(b)
      BY <2>2
    <3>2. \A v \in votes' : v \in votes \/ v = [author |-> n, block |-> b]
      BY <3>1
    <3>3. ASSUME NEW v \in votes, v.author = n
          PROVE  Round(v.block) # Round(b)
      <4>1. Round(v.block) <= core[n].last_voted_round
        BY <1>1, <3>3 DEF Voted
      <4>2. Round(v.block) \in Nat /\ Round(b) \in Nat
        BY <1>8, BlockFacts
      <4> QED
        BY <1>5, <3>1, <4>1, <4>2
    <3> HIDE DEF NewVote
    <3> QED
      BY <1>1, <3>2, <3>3 DEF VoteOnce
  <2> QED
    BY <1>2, <2>1, <2>2
<1>14. TimedOut'
  <2> SUFFICES ASSUME NEW t \in timeouts'
               PROVE  /\ Certified(t.high_qc)'
                      /\ t.round <= core'[t.author].last_voted_round
                      /\ \A v \in votes' :
                           v.author = t.author /\ Round(v.block) <= t.round
                           => Round(Parent(v.block)) <= Round(t.high_qc)
    BY DEF TimedOut
  <2>1. CASE t \in timeouts
    <3>1. /\ Certified(t.high_qc)
          /\ t.round <= core[t.author].last_voted_round
          /\ \A v \in votes :
               v.author = t.author /\ Round(v.block) <= t.round
               => Round(Parent(v.block)) <= Round(t.high_qc)
      BY <1>1, <2>1 DEF TimedOut
    <3>2. t.round <= core'[t.author].last_voted_round
      BY <1>5, <1>6, <1>9, <2>1, <3>1
    <3>3. ASSUME NEW v \in votes', v \notin votes, v.author = t.author
          PROVE  ~(Round(v.block) <= t.round)
      <4>1. PICK b \in Block : NewVote(b)
        BY <1>2, <3>3
      <4>2. v.author = n /\ v.block = b
        BY <3>3, <4>1
      <4>3. Round(b) \in Nat
        BY BlockFacts
      <4> QED
        BY <1>5, <1>9, <2>1, <3>1, <3>3, <4>1, <4>2, <4>3
    <3> QED
      BY <1>7, <3>1, <3>2, <3>3
  <2>2. CASE t \notin timeouts
    <3>1. /\ votes' = votes
          /\ t.author = n
          /\ t.high_qc = core[n].high_qc
          /\ t.round <= c.last_voted_round
      BY <2>2 DEF SafeStep, TimeoutStep
    <3>2. Certified(t.high_qc)'
      BY <1>1, <1>7, <3>1 DEF HighQCs
    <3>3. t.round <= core'[t.author].last_voted_round
      BY <1>5, <3>1
    <3>4. \A v \in votes' :
            v.author = n => Round(Parent(v.block)) <= Round(t.high_qc)
      BY <1>1, <3>1 DEF Voted
    <3> QED
      BY <3>1, <3>2, <3>3, <3>4
  <2> QED
    BY <2>1, <2>2
<1>15. TCBacked'
  <2> SUFFICES ASSUME NEW tc \in tcs'
               PROVE  \E Q \in Quorum : \A m \in Q : \E t \in timeouts' :
                        t.author = m /\ t.round = tc.round /\ Round(t.high_qc) <= tc.high
    BY DEF TCBacked
  <2>1. CASE tc \in tcs
    BY <1>1, <1>3, <2>1 DEF TCBacked
  <2>2. CASE tc \notin tcs
    BY <2>2 DEF SafeStep
  <2> QED
    BY <2>1, <2>2
<1>16. LockHeld(Block)'
  <2> SUFFICES ASSUME NEW b1 \in Block, NEW b \in VotedBlocks',
                      Round(Parent(b1)) + 1 = Round(b1),
                      Round(b1) < Round(b),
                      Choosable(b1)'
               PROVE  Extends(b, Parent(b1))
    BY DEF LockHeld
  <2>1. Round(b1) \in Nat
    BY BlockFacts
  <2>2. PICK Q \in Quorum :
          \A m \in Q : \/ [author |-> m, block |-> b1] \in votes'
                      \/ core'[m].last_voted_round < Round(b1)
    BY DEF Choosable
  <2>3. ASSUME NEW m \in Q
        PROVE  \/ [author |-> m, block |-> b1] \in votes
               \/ core[m].last_voted_round < Round(b1)
    <3>1. m \in Node
      BY DEF Quorum
    <3>2. CASE core'[m].last_voted_round < Round(b1)
      BY SMTT(20), <1>5, <1>6, <2>1, <3>1, <3>2
    <3>3. CASE [author |-> m, block |-> b1] \in votes' \ votes
      <4>1. PICK x \in Block : NewVote(x)
        BY <1>2, <3>3
      <4>2. [author |-> m, block |-> b1] = [author |-> n, block |-> x]
        BY <3>3, <4>1
      <4>3. m = n /\ b1 = x
        BY <4>2
      <4> QED
        BY <4>1, <4>3
    <3> QED
      BY <2>2, <3>2, <3>3
  <2>4. Choosable(b1)
    BY <2>3 DEF Choosable
  <2>5. CASE b \in VotedBlocks
    BY SMTT(20), <1>1, <2>4, <2>5 DEF LockHeld
  <2>6. CASE b \notin VotedBlocks
    <3>1. PICK x \in Block : NewVote(x)
      BY <1>2, <2>6 DEF VotedBlocks
    <3>2. b = x
      BY <2>6, <3>1 DEF VotedBlocks
    <3> QED
      BY <2>4, <3>1, <3>2, VoteRespectsLock
  <2> QED
    BY <2>5, <2>6
<1>17. CommitRule'
  <2>1. VotedBlocks \subseteq VotedBlocks'
    BY <1>3 DEF VotedBlocks
  <2>2. ASSUME NEW m \in Node, NEW b \in committed'[m]
        PROVE  \E b1 \in VotedBlocks :
                 Parent(b1) = b /\ Round(b1) = Round(b) + 1 /\ Certified(b1)
    BY <1>1 DEF CommitRule, SafeStep
  <2> QED
    BY <1>7, <2>1, <2>2 DEF CommitRule
<1> QED
  BY <1>10, <1>11, <1>12, <1>13, <1>14, <1>15, <1>16, <1>17 DEF IInv
==============================================================================
