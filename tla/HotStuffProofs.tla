---------------------------- MODULE HotStuffProofs ----------------------------
(***************************************************************************)
(* Proofs about HotStuff for every committee size, every set of operators  *)
(* that are up, every payload set and every value of the bounds.           *)
(***************************************************************************)
EXTENDS HotStuffHandlers

------------------------------------------------------------------------------
\* handle_proposal, with the commit, the vote and the certificate that it leads to.
LEMMA HandleProposalPreserves ==
    ASSUME IInv(Block), NEW n \in Node, NEW p \in proposals, HandleProposal(n, p)
    PROVE  IInv(Block)'
<1>1. TypeOK /\ HighQCs /\ Proposed
  BY DEF IInv
<1>a. PICK b : b = p.block
  OBVIOUS
<1>b. PICK k1 : k1 = ProcessQC(core[n], Parent(b))
  OBVIOUS
<1>c. PICK k2 : k2 = IF p.tc = NoTC THEN k1 ELSE ProcessTC(k1, p.tc.round)
  OBVIOUS
<1>2. /\ core[n] \in CoreState
      /\ b \in Block /\ p.tc \in TC /\ p.tc.round \in Nat
      /\ b # Genesis /\ Certified(Parent(b)) /\ p.tc \in tcs \cup {NoTC}
  BY <1>1, <1>a DEF TypeOK, Proposal, TC, Proposed
<1>3. Parent(b) \in Block /\ Round(b) \in Nat /\ Round(Parent(b)) \in Nat
  BY <1>2, BlockFacts
<1>4. /\ k1 \in CoreState
      /\ k1.last_voted_round = core[n].last_voted_round
      /\ k1.high_qc \in {core[n].high_qc, Parent(b)}
      /\ Round(k1.high_qc) >= Round(core[n].high_qc)
      /\ Round(k1.high_qc) >= Round(Parent(b))
  BY SMTT(20), <1>b, <1>2, <1>3, ProcessQCFacts
<1>5. /\ k2 \in CoreState
      /\ k2.last_voted_round = core[n].last_voted_round
      /\ k2.high_qc \in {core[n].high_qc, Parent(b)}
      /\ Round(k2.high_qc) >= Round(core[n].high_qc)
      /\ Round(k2.high_qc) >= Round(Parent(b))
  BY Zenon, <1>c, <1>2, <1>4, ProcessTCFacts
<1>6. /\ UNCHANGED <<timeouts, tcs>>
      /\ \/ /\ core' = [core EXCEPT ![n] = k2]
            /\ UNCHANGED <<store, tx_commit, committed, proposals, votes>>
         \/ ProcessBlock(n, k2, p)
  BY <1>a, <1>b, <1>c DEF HandleProposal
<1>7. Certified(k2.high_qc)
  BY <1>1, <1>2, <1>5 DEF HighQCs
<1>8. core[n].last_voted_round \in Nat /\ k2.round \in Nat
  BY <1>2, <1>5 DEF CoreState
<1>9. ASSUME core' = [core EXCEPT ![n] = k2], UNCHANGED <<committed, proposals, votes>>,
             store' \in [Node -> SUBSET Block]
      PROVE  IInv(Block)'
  <2>1. TypeOK'
    BY <1>1, <1>5, <1>6, <1>9 DEF TypeOK
  <2>2. Certified(k2.high_qc)'
    BY <1>7, <1>9, <2>1, CertifiedStays
  <2>3. VoteStep(n, k2) /\ TimeoutStep(n, k2)
    BY <1>6, <1>9 DEF VoteStep, TimeoutStep
  <2>4. SafeStep(n, k2)
    BY <1>5, <1>6, <1>8, <1>9, <2>2, <2>3 DEF SafeStep
  <2> QED
    BY <1>5, <2>1, <2>4, SafeStepPreserves
<1>10. ASSUME ProcessBlock(n, k2, p)
       PROVE  IInv(Block)'
  <2>1. PICK b0 : b0 = TwoChainHead(b)
    OBVIOUS
  <2>2. PICK k3 : k3 = AfterCommit(k2, b0)
    OBVIOUS
  <2>3. PICK k4 : k4 = IncreaseLastVotedRound(k3, Round(b))
    OBVIOUS
  <2>4. PICK st : st = store[n] \cup {b}
    BY Zenon
  <2>5. st \in SUBSET Block /\ store \in [Node -> SUBSET Block]
    BY <1>1, <1>2, <2>4 DEF TypeOK
  <2>6. /\ b0 \in Block
        /\ b0 # Genesis =>
             /\ Parent(Parent(b)) = b0
             /\ Round(Parent(b)) = Round(b0) + 1
             /\ Parent(b) # Genesis
    BY <1>2, <2>1, TwoChainHeadFacts
  <2>7. /\ k3 \in CoreState
        /\ k3.last_voted_round = core[n].last_voted_round
        /\ k3.high_qc = k2.high_qc
    BY <1>5, <2>2, <2>6, AfterCommitFacts
  <2>8. /\ k4 \in CoreState
        /\ k4.last_voted_round >= core[n].last_voted_round
        /\ k4.last_voted_round >= Round(b)
        /\ k4.high_qc = k2.high_qc
    BY <1>3, <2>3, <2>7, VotedRoundFacts
  <2>9. \/ /\ Commit(n, k2, b0, st)
           /\ \/ /\ MakesVote(k3, b, p.tc)
                 /\ \/ AssembleQC(n, k4, b, Voters(b) \cup {n})
                    \/ core' = [core EXCEPT ![n] = k4] /\ UNCHANGED proposals
                 /\ votes' = votes \cup {[author |-> n, block |-> b]}
              \/ /\ core' = [core EXCEPT ![n] = k3]
                 /\ UNCHANGED <<proposals, votes>>
        \/ /\ core' = [core EXCEPT ![n] = k2]
           /\ store' = [store EXCEPT ![n] = st]
           /\ UNCHANGED <<tx_commit, committed, proposals, votes>>
    BY <1>a, <1>10, <2>1, <2>2, <2>3, <2>4 DEF ProcessBlock
  <2>10. CASE /\ core' = [core EXCEPT ![n] = k2]
              /\ store' = [store EXCEPT ![n] = st]
              /\ UNCHANGED <<tx_commit, committed, proposals, votes>>
    BY <1>9, <2>5, <2>10
  <2>11. ASSUME Commit(n, k2, b0, st)
         PROVE  /\ store' \in [Node -> SUBSET Block]
                /\ committed' \in [Node -> SUBSET Block]
                /\ \A m \in Node : \A x \in committed'[m] \ committed[m] :
                     \E b1 \in VotedBlocks :
                       Parent(b1) = x /\ Round(b1) = Round(x) + 1 /\ Certified(b1)
    <3>1. /\ store' \in [Node -> SUBSET Block]
          /\ committed' \in [Node -> SUBSET Block]
          /\ \A m \in Node : \A x \in committed'[m] \ committed[m] : x = b0 /\ b0 # Genesis
      BY <1>1, <1>5, <2>5, <2>6, <2>11, CommitFacts
    <3>2. b0 # Genesis => Parent(b) \in VotedBlocks
      BY <1>1, <1>2, <1>3, <2>6, CertifiedHasVote
    <3> QED
      BY <1>2, <2>6, <3>1, <3>2
  <2>12. CASE /\ Commit(n, k2, b0, st)
              /\ core' = [core EXCEPT ![n] = k3]
              /\ UNCHANGED <<proposals, votes>>
    <3>1. TypeOK'
      BY <1>1, <1>6, <2>7, <2>11, <2>12 DEF TypeOK
    <3>2. Certified(k3.high_qc)'
      BY <1>7, <2>7, <2>12, <3>1, CertifiedStays
    <3>3. VoteStep(n, k3) /\ TimeoutStep(n, k3)
      BY <1>6, <2>12 DEF VoteStep, TimeoutStep
    <3>4. SafeStep(n, k3)
      BY <1>5, <1>6, <1>8, <2>7, <2>11, <2>12, <3>2, <3>3 DEF SafeStep
    <3> QED
      BY <2>7, <3>1, <3>4, SafeStepPreserves
  <2>13. CASE /\ Commit(n, k2, b0, st)
              /\ MakesVote(k3, b, p.tc)
              /\ \/ AssembleQC(n, k4, b, Voters(b) \cup {n})
                 \/ core' = [core EXCEPT ![n] = k4] /\ UNCHANGED proposals
              /\ votes' = votes \cup {[author |-> n, block |-> b]}
    <3>1. PICK d \in CoreState :
            /\ core' = [core EXCEPT ![n] = d]
            /\ d.last_voted_round = k4.last_voted_round
            /\ \/ d.high_qc = k4.high_qc
               \/ d.high_qc = b /\ Voters(b) \cup {n} \in Quorum
            /\ Round(d.high_qc) >= Round(k4.high_qc)
            /\ proposals' \subseteq Proposal
            /\ \A q \in proposals' \ proposals :
                 q.block # Genesis /\ Parent(q.block) = d.high_qc /\ q.tc = NoTC
      <4>1. CASE AssembleQC(n, k4, b, Voters(b) \cup {n})
        <5>1. PICK d \in CoreState :
                /\ core' = [core EXCEPT ![n] = d]
                /\ Voters(b) \cup {n} \in Quorum
                /\ d.last_voted_round = k4.last_voted_round
                /\ d.high_qc \in {k4.high_qc, b}
                /\ Round(d.high_qc) >= Round(k4.high_qc)
                /\ proposals' \subseteq Proposal
                /\ \A q \in proposals' \ proposals :
                     q.block # Genesis /\ Parent(q.block) = d.high_qc /\ q.tc = NoTC
          BY <1>1, <1>2, <2>8, <4>1, AssembleQCFacts
        <5> QED
          BY Zenon, <5>1
      <4>2. CASE core' = [core EXCEPT ![n] = k4] /\ UNCHANGED proposals
        <5>1. k4.high_qc \in Block
          BY <2>8 DEF CoreState
        <5>2. Round(k4.high_qc) >= Round(k4.high_qc)
          BY <5>1, BlockFacts
        <5>3. proposals' \subseteq Proposal /\ proposals' \ proposals = {}
          BY <1>1, <4>2 DEF TypeOK
        <5> QED
          BY Zenon, <2>8, <4>2, <5>2, <5>3
      <4> QED
        BY <2>13, <4>1, <4>2
    <3>2. Voters(b)' = Voters(b) \cup {n}
      <4>1. \A v \in votes' : v \in votes \/ v = [author |-> n, block |-> b]
        BY <2>13
      <4>2. votes \subseteq votes' /\ [author |-> n, block |-> b] \in votes'
        BY <2>13
      <4>3. \A m : m \in Voters(b)' <=> \E v \in votes' : v.block = b /\ v.author = m
        BY DEF Voters
      <4>4. \A m : m \in Voters(b) <=> \E v \in votes : v.block = b /\ v.author = m
        BY DEF Voters
      <4> QED
        BY <4>1, <4>2, <4>3, <4>4
    <3>3. [author |-> n, block |-> b] \in Vote
      BY SMTT(20), <1>2 DEF Vote
    <3>4. TypeOK'
      BY <1>1, <1>6, <2>11, <2>13, <3>1, <3>3 DEF TypeOK
    <3>5. Certified(d.high_qc)'
      <4>1. CASE d.high_qc = k4.high_qc
        BY <1>7, <2>8, <2>13, <3>4, <4>1, CertifiedStays
      <4>2. CASE d.high_qc = b /\ Voters(b) \cup {n} \in Quorum
        BY <3>2, <4>2 DEF Certified
      <4> QED
        BY <3>1, <4>1, <4>2
    <3>6. /\ core[n].last_voted_round < Round(b)
          /\ \/ Round(Parent(b)) + 1 = Round(b)
             \/ \E tc \in tcs : tc.round + 1 = Round(b) /\ Round(Parent(b)) >= tc.high
      BY <1>2, <1>3, <1>8, <2>7, <2>13 DEF MakesVote, SafetyRule1, SafetyRule2
    <3>7. Round(Parent(b)) <= Round(d.high_qc) /\ Round(core[n].high_qc) <= Round(d.high_qc)
      <4>1. core[n].high_qc \in Block /\ k2.high_qc \in Block /\ d.high_qc \in Block
        BY SMTT(20), <1>2, <1>5, <3>1 DEF CoreState
      <4> QED
        BY <1>3, <1>5, <2>8, <3>1, <4>1, BlockFacts
    <3>8. VoteStep(n, d)
      BY <1>2, <1>3, <2>8, <2>13, <3>1, <3>6, <3>7 DEF VoteStep
    <3>9. TimeoutStep(n, d)
      BY <1>6 DEF TimeoutStep
    <3>10. d.last_voted_round >= core[n].last_voted_round
      BY <2>8, <3>1
    <3>11. Round(d.high_qc) >= Round(core[n].high_qc)
      <4>1. core[n].high_qc \in Block /\ d.high_qc \in Block
        BY SMTT(20), <1>2, <3>1 DEF CoreState
      <4> QED
        BY <3>7, <4>1, BlockFacts
    <3>12. SafeStep(n, d)
      BY <1>6, <2>11, <2>13, <3>1, <3>5, <3>8, <3>9, <3>10, <3>11 DEF SafeStep
    <3> QED
      BY <3>1, <3>4, <3>12, SafeStepPreserves
  <2> QED
    BY <2>9, <2>10, <2>12, <2>13
<1> QED
  BY <1>1, <1>6, <1>9, <1>10 DEF TypeOK

------------------------------------------------------------------------------
(* The theorems. *)

\* The invariant holds when the operators boot.
LEMMA InitIInv == Init => IInv(Block)
<1> SUFFICES ASSUME Init PROVE IInv(Block)
  OBVIOUS
<1>1. N \in Nat \ {0}
  BY HotStuffAssumption
<1>2. /\ core = [n \in Node |-> InitCore]
      /\ store = [n \in Node |-> {}]
      /\ committed = [n \in Node |-> {}]
      /\ votes = {} /\ timeouts = {} /\ tcs = {}
  BY DEF Init
<1>3. Genesis \in Block
  BY DEF Genesis, Block
<1>4. InitCore \in CoreState /\ InitCore.high_qc = Genesis
  BY <1>3 DEF InitCore, CoreState
<1>5. Leader(1) \in Node
  BY <1>1 DEF Leader, Node
<1>6. /\ proposals \subseteq Proposal
      /\ \A p \in proposals :
           p.block # Genesis /\ Parent(p.block) = Genesis /\ p.tc = NoTC
  <2>1. CASE Leader(1) \in Active
    <3>1. proposals \in ProposalsOf(Leader(1), InitCore, NoTC)
      BY <2>1 DEF Init
    <3> QED
      BY <1>4, <1>5, <3>1, NoTCType, ProposalsOfFacts
  <2>2. CASE Leader(1) \notin Active
    BY <2>2 DEF Init
  <2> QED
    BY <2>1, <2>2
<1>7. TypeOK
  BY <1>2, <1>4, <1>6 DEF TypeOK
<1>8. HighQCs
  BY <1>2, <1>4 DEF HighQCs, Certified
<1>9. Proposed
  BY <1>6 DEF Proposed, Certified
<1>10. Voted /\ VoteOnce /\ TimedOut /\ TCBacked
  BY <1>2 DEF Voted, VoteOnce, TimedOut, TCBacked
<1>11. LockHeld(Block) /\ CommitRule
  BY <1>2 DEF LockHeld, VotedBlocks, CommitRule
<1> QED
  BY <1>7, <1>8, <1>9, <1>10, <1>11 DEF IInv

\* Every step of the specification preserves the invariant.
LEMMA NextIInv == IInv(Block) /\ [Next]_vars => IInv(Block)'
<1> SUFFICES ASSUME IInv(Block), [Next]_vars PROVE IInv(Block)'
  OBVIOUS
<1>1. CASE Next
  <2>1. PICK n \in Node :
          \/ \E p \in proposals : HandleProposal(n, p)
          \/ \E b \in VotedBlocks : HandleVote(n, b)
          \/ \E t \in timeouts : HandleTimeout(n, t, timeouts)
          \/ LocalTimeoutRound(n, timeouts)
          \/ \E tc \in tcs : HandleTC(n, tc)
    BY <1>1 DEF Next
  <2> QED
    BY <2>1, HandleProposalPreserves, HandleVotePreserves, HandleTimeoutPreserves,
       LocalTimeoutRoundPreserves, HandleTCPreserves
<1>2. CASE UNCHANGED vars
  <2>1. /\ core' = core /\ store' = store /\ committed' = committed
        /\ proposals' = proposals /\ votes' = votes /\ timeouts' = timeouts /\ tcs' = tcs
    BY <1>2 DEF vars
  <2>2. VotedBlocks' = VotedBlocks
    BY <2>1 DEF VotedBlocks
  <2>3. \A b : Certified(b)' <=> Certified(b)
    BY <2>1 DEF Certified, Voters
  <2>4. \A b : Choosable(b)' <=> Choosable(b)
    BY <2>1 DEF Choosable
  <2>5. TypeOK' /\ VoteOnce'
    BY <2>1 DEF IInv, TypeOK, VoteOnce
  <2>6. HighQCs' /\ Proposed'
    BY <2>1, <2>3 DEF IInv, HighQCs, Proposed
  <2>7. Voted' /\ TimedOut'
    BY <2>1, <2>3 DEF IInv, Voted, TimedOut
  <2>8. TCBacked'
    BY <2>1 DEF IInv, TCBacked
  <2>9. LockHeld(Block)'
    BY <2>2, <2>4 DEF IInv, LockHeld
  <2>10. CommitRule'
    BY <2>1, <2>2, <2>3 DEF IInv, CommitRule
  <2> QED
    BY <2>5, <2>6, <2>7, <2>8, <2>9, <2>10 DEF IInv
<1> QED
  BY <1>1, <1>2

\* The invariant makes quorums lock the chain.
LEMMA IInvQuorumLock == IInv(Block) => QuorumLock
<1> SUFFICES ASSUME IInv(Block), NEW b1 \in VotedBlocks, NEW b \in VotedBlocks,
                    Round(Parent(b1)) + 1 = Round(b1),
                    Round(b1) < Round(b),
                    Certified(b1)
             PROVE  Extends(b, Parent(b1))
  BY DEF QuorumLock
<1>1. TypeOK /\ LockHeld(Block) /\ Voted
  BY DEF IInv
<1>2. b1 \in Block /\ b1 # Genesis
  BY <1>1 DEF TypeOK, VotedBlocks, Vote, Voted
<1>3. Choosable(b1)
  <2>1. Voters(b1) \in Quorum
    BY <1>2 DEF Certified
  <2>2. \A n \in Voters(b1) : [author |-> n, block |-> b1] \in votes
    BY <1>1, VotersAreNodes
  <2> QED
    BY <2>1, <2>2 DEF Choosable
<1> QED
  BY <1>1, <1>2, <1>3 DEF LockHeld

\* The invariant keeps the committed blocks on one chain.
LEMMA IInvAgreement == IInv(Block) => Agreement
<1> SUFFICES ASSUME IInv(Block), NEW n \in Node, NEW m \in Node,
                    NEW a \in committed[n], NEW b \in committed[m]
             PROVE  Extends(a, b) \/ Extends(b, a)
  BY DEF Agreement
<1>1. TypeOK /\ VoteOnce /\ Voted /\ CommitRule
  BY DEF IInv
<1>2. a \in Block /\ b \in Block
  BY <1>1 DEF TypeOK
<1>3. ASSUME NEW x \in Block, NEW y \in Block,
             NEW x1 \in VotedBlocks, NEW y1 \in VotedBlocks,
             Parent(x1) = x, Round(x1) = Round(x) + 1, Certified(x1),
             Parent(y1) = y, Round(y1) = Round(y) + 1, Certified(y1),
             Round(x) <= Round(y)
      PROVE  Extends(y, x)
  <2>1. x1 \in Block /\ y1 \in Block /\ x1 # Genesis /\ y1 # Genesis
    BY <1>1 DEF TypeOK, VotedBlocks, Vote, Voted
  <2>2. Certified(x) /\ Certified(y)
    BY <1>1, <1>3 DEF Voted, VotedBlocks
  <2>3. /\ Round(x) \in Nat /\ Round(y) \in Nat /\ Round(x1) \in Nat
    BY SMTT(20), <1>3, <2>1, BlockFacts
  <2>4. CASE Round(y) = Round(x)
    BY <1>1, <2>2, <2>4, CertifiedUnique, ExtendsParent
  <2>5. CASE Round(y) = Round(x1)
    <3>1. y = x1
      BY <1>1, <1>3, <2>1, <2>2, <2>5, CertifiedUnique
    <3> QED
      BY <1>3, <2>1, <3>1, ExtendsParent
  <2>6. CASE Round(y) > Round(x1)
    <3>1. y # Genesis
      BY <2>3, <2>6, BlockFacts
    <3>2. y \in VotedBlocks
      BY <1>1, <2>2, <3>1, CertifiedHasVote
    <3> QED
      BY <1>3, <2>6, <3>2, IInvQuorumLock DEF QuorumLock
  <2> QED
    BY <1>3, <2>3, <2>4, <2>5, <2>6
<1>4. PICK a1 \in VotedBlocks : Parent(a1) = a /\ Round(a1) = Round(a) + 1 /\ Certified(a1)
  BY <1>1 DEF CommitRule
<1>5. PICK b1 \in VotedBlocks : Parent(b1) = b /\ Round(b1) = Round(b) + 1 /\ Certified(b1)
  BY <1>1 DEF CommitRule
<1>6. Round(a) <= Round(b) \/ Round(b) <= Round(a)
  BY <1>2, BlockFacts
<1> QED
  BY <1>2, <1>3, <1>4, <1>5, <1>6

\* The inductive invariant holds in every reachable state.
THEOREM Invariance == Spec => []IInv(Block)
BY InitIInv, NextIInv, PTL DEF Spec

\* Every component of the state keeps its type: the fields of a Core, the store,
\* the commits and the messages.
THEOREM TypeCorrect == Spec => []TypeOK
<1>1. IInv(Block) => TypeOK
  BY DEF IInv
<1> QED
  BY <1>1, Invariance, PTL

\* make_vote: no operator ever votes for two blocks of one round, as long as it
\* is not restarted.
THEOREM VotesOnce == Spec => []VoteOnce
<1>1. IInv(Block) => VoteOnce
  BY DEF IInv
<1> QED
  BY <1>1, Invariance, PTL

\* make_vote: once a two-chain has a quorum, no later vote bypasses its head.
THEOREM LocksHold == Spec => []QuorumLock
BY IInvQuorumLock, Invariance, PTL

\* commit: the blocks that all operators ever commit lie on one chain, for every
\* committee size, with any number of lost, late or repeated messages, view
\* changes and operators that are down.
THEOREM CommitsAgree == Spec => []Agreement
BY IInvAgreement, Invariance, PTL
==============================================================================
