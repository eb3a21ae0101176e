--------------------------- MODULE HotStuffHandlers ---------------------------
(***************************************************************************)
(* What the helpers of the handlers of HotStuff compute, and that the      *)
(* handlers of timeouts, TCs and votes preserve the inductive invariant.   *)
(***************************************************************************)
EXTENDS HotStuffSafeStep

------------------------------------------------------------------------------
(* What the parts of the handlers do. *)

\* A proposal is a new block on the high QC of its author.
LEMMA ProposalsOfFacts ==
    ASSUME NEW n \in Node, NEW c \in CoreState, NEW tc \in TC,
           NEW new \in ProposalsOf(n, c, tc)
    PROVE  /\ new \subseteq Proposal
           /\ \A p \in new : p.block # Genesis /\ Parent(p.block) = c.high_qc /\ p.tc = tc
<1>1. c.high_qc \in Block /\ c.round \in Nat \ {0}
  BY DEF CoreState
<1>2. CASE n # Leader(c.round)
  BY <1>2 DEF ProposalsOf
<1>3. CASE n = Leader(c.round)
  <2>1. PICK x \in Payload :
          new = {[author |-> n, block |-> NewBlock(c.high_qc, c.round, x), tc |-> tc]}
    BY <1>3 DEF ProposalsOf
  <2>2. /\ NewBlock(c.high_qc, c.round, x) \in Block
        /\ NewBlock(c.high_qc, c.round, x) # Genesis
        /\ Parent(NewBlock(c.high_qc, c.round, x)) = c.high_qc
    BY <1>1, NewBlockFacts
  <2> QED
    BY <2>1, <2>2 DEF Proposal
<1> QED
  BY <1>2, <1>3

\* The absent TC has the type of a TC.
LEMMA NoTCType == NoTC \in TC
BY DEF NoTC, TC

\* A vote that completes a QC moves n to the next round and high QC only.
LEMMA AssembleQCFacts ==
    ASSUME TypeOK, NEW n \in Node, NEW c \in CoreState, NEW b \in Block, NEW signed,
           AssembleQC(n, c, b, signed)
    PROVE  \E d \in CoreState :
             /\ core' = [core EXCEPT ![n] = d]
             /\ signed \in Quorum
             /\ d.last_voted_round = c.last_voted_round
             /\ d.high_qc \in {c.high_qc, b}
             /\ Round(d.high_qc) >= Round(c.high_qc)
             /\ proposals' \subseteq Proposal
             /\ \A p \in proposals' \ proposals :
                  p.block # Genesis /\ Parent(p.block) = d.high_qc /\ p.tc = NoTC
<1> DEFINE d == ProcessQC(c, b)
<1>1. /\ d \in CoreState
      /\ d.last_voted_round = c.last_voted_round
      /\ d.high_qc \in {c.high_qc, b}
      /\ Round(d.high_qc) >= Round(c.high_qc)
  BY ProcessQCFacts
<1>2. /\ signed \in Quorum
      /\ core' = [core EXCEPT ![n] = d]
      /\ \E new \in ProposalsOf(n, d, NoTC) : proposals' = proposals \cup new
  BY DEF AssembleQC
<1> HIDE DEF d
<1>3. PICK new \in ProposalsOf(n, d, NoTC) : proposals' = proposals \cup new
  BY <1>2
<1>4. /\ new \subseteq Proposal
      /\ \A p \in new : p.block # Genesis /\ Parent(p.block) = d.high_qc /\ p.tc = NoTC
  BY <1>1, NoTCType, ProposalsOfFacts
<1>5. proposals' \subseteq Proposal
  BY <1>3, <1>4 DEF TypeOK
<1> QED
  BY Zenon, <1>1, <1>2, <1>3, <1>4, <1>5

\* A commit keeps the types and commits b0 only, never genesis.
LEMMA CommitFacts ==
    ASSUME TypeOK, NEW n \in Node, NEW c \in CoreState, NEW b0 \in Block,
           NEW st \in SUBSET Block, Commit(n, c, b0, st)
    PROVE  /\ store' \in [Node -> SUBSET Block]
           /\ committed' \in [Node -> SUBSET Block]
           /\ \A m \in Node : \A b \in committed'[m] \ committed[m] : b = b0 /\ b0 # Genesis
<1>1. Prune(b0, st) \in SUBSET Block
  BY DEF Prune
<1>2. c.last_committed_round \in Nat /\ Round(b0) \in Nat /\ (Round(b0) = 0 <=> b0 = Genesis)
  BY BlockFacts DEF CoreState
<1>3. store \in [Node -> SUBSET Block] /\ committed \in [Node -> SUBSET Block]
  BY DEF TypeOK
<1>4. CASE c.last_committed_round >= Round(b0)
  <2>1. store' = [store EXCEPT ![n] = st] /\ committed' = committed
    BY Zenon, <1>4 DEF Commit
  <2> QED
    BY <1>3, <2>1
<1>5. CASE ~(c.last_committed_round >= Round(b0))
  <2>1. /\ store' = [store EXCEPT ![n] = Prune(b0, st)]
        /\ committed' = [committed EXCEPT ![n] = committed[n] \cup {b0}]
    BY Zenon, <1>5 DEF Commit
  <2>2. b0 # Genesis
    BY <1>2, <1>5
  <2>3. store' \in [Node -> SUBSET Block]
    BY <1>1, <1>3, <2>1
  <2>4. committed' \in [Node -> SUBSET Block]
    BY <1>3, <2>1
  <2> QED
    BY <1>3, <2>1, <2>2, <2>3, <2>4
<1> QED
  BY <1>4, <1>5

\* The block that another makes committable has a child of the next round.
LEMMA TwoChainHeadFacts ==
    ASSUME NEW b \in Block
    PROVE  /\ TwoChainHead(b) \in Block
           /\ TwoChainHead(b) # Genesis =>
                /\ Parent(Parent(b)) = TwoChainHead(b)
                /\ Round(Parent(b)) = Round(TwoChainHead(b)) + 1
                /\ Parent(b) # Genesis
<1>1. Parent(b) \in Block /\ Parent(Parent(b)) \in Block /\ Genesis \in Block
  BY BlockFacts DEF Genesis, Block
<1>2. Parent(Genesis) = Genesis
  BY DEF Parent
<1> QED
  BY <1>1, <1>2 DEF TwoChainHead

\* A set of timeouts that completes a TC has the authors of a quorum.
LEMMA TimeoutQuorumFacts ==
    ASSUME NEW t, NEW heard \in SUBSET Timeout, NEW S \in TimeoutQuorums(t, heard)
    PROVE  /\ {x.author : x \in S} \in Quorum
           /\ S \subseteq heard
           /\ \A x \in S : x.round = t.round
<1>1. /\ S \subseteq heard
      /\ \A x \in S : x.round = t.round
      /\ Cardinality({x.author : x \in S}) = QuorumThreshold
  BY DEF TimeoutQuorums
<1>2. {x.author : x \in S} \subseteq Node
  BY <1>1 DEF Timeout
<1>3. QuorumThreshold \in Nat
  BY HotStuffAssumption DEF QuorumThreshold
<1> QED
  BY <1>1, <1>2, <1>3 DEF Quorum

\* What handle_timeout does to the Core, the TCs and the proposals.
LEMMA HandleTimeoutInFacts ==
    ASSUME TypeOK, NEW n \in Node, NEW c \in CoreState, NEW t \in Timeout,
           NEW heard \in SUBSET Timeout, HandleTimeoutIn(n, c, t, heard)
    PROVE  \E d \in CoreState :
             /\ core' = [core EXCEPT ![n] = d]
             /\ d.last_voted_round = c.last_voted_round
             /\ d.high_qc \in {c.high_qc, t.high_qc}
             /\ Round(d.high_qc) >= Round(c.high_qc)
             /\ tcs \subseteq tcs' /\ tcs' \subseteq TC
             /\ \A tc \in tcs' \ tcs : \E Q \in Quorum : \A m \in Q : \E x \in heard :
                  x.author = m /\ x.round = tc.round /\ Round(x.high_qc) <= tc.high
             /\ proposals' \subseteq Proposal
             /\ \A p \in proposals' \ proposals :
                  p.block # Genesis /\ Parent(p.block) = d.high_qc /\ p.tc \in tcs'
<1> DEFINE c0 == ProcessQC(c, t.high_qc)
           c1 == ProcessTC(c0, t.high_tc)
           c2 == ProcessTC(c1, t.round)
           Follows(d) ==
             /\ d \in CoreState
             /\ d.last_voted_round = c.last_voted_round
             /\ d.high_qc \in {c.high_qc, t.high_qc}
             /\ Round(d.high_qc) >= Round(c.high_qc)
<1>1. t.high_qc \in Block /\ t.high_tc \in Nat /\ t.round \in Nat
  BY DEF Timeout
<1>2. Follows(c0)
  BY <1>1, ProcessQCFacts
<1> HIDE DEF c0
<1>3. Follows(c1)
  BY Zenon, <1>1, <1>2, ProcessTCFacts
<1> HIDE DEF c1
<1>4. Follows(c2)
  BY SMTT(20), <1>1, <1>3, ProcessTCFacts
<1> HIDE DEF c2
<1>5. proposals \subseteq Proposal /\ tcs \subseteq TC
  BY DEF TypeOK
<1>6. CASE core' = [core EXCEPT ![n] = c1] /\ UNCHANGED <<proposals, tcs>>
  BY Zenon, <1>3, <1>5, <1>6
<1>7. CASE \E S \in TimeoutQuorums(t, heard) : \E x \in S :
             LET tc == [round |-> t.round, high |-> Round(x.high_qc)] IN
             /\ \A y \in S : Round(y.high_qc) <= tc.high
             /\ core' = [core EXCEPT ![n] = c2]
             /\ tcs' = tcs \cup {tc}
             /\ \E new \in ProposalsOf(n, c2, tc) : proposals' = proposals \cup new
  <2>a. PICK S \in TimeoutQuorums(t, heard) : \E x \in S :
             LET tc == [round |-> t.round, high |-> Round(x.high_qc)] IN
             /\ \A y \in S : Round(y.high_qc) <= tc.high
             /\ core' = [core EXCEPT ![n] = c2]
             /\ tcs' = tcs \cup {tc}
             /\ \E new \in ProposalsOf(n, c2, tc) : proposals' = proposals \cup new
    BY Zenon, <1>7
  <2>1. PICK x \in S :
             LET tc == [round |-> t.round, high |-> Round(x.high_qc)] IN
             /\ \A y \in S : Round(y.high_qc) <= tc.high
             /\ core' = [core EXCEPT ![n] = c2]
             /\ tcs' = tcs \cup {tc}
             /\ \E new \in ProposalsOf(n, c2, tc) : proposals' = proposals \cup new
    BY Zenon, <2>a
  <2> DEFINE tc == [round |-> t.round, high |-> Round(x.high_qc)]
  <2>2. /\ {y.author : y \in S} \in Quorum
        /\ S \subseteq heard
        /\ \A y \in S : y.round = t.round
    BY Zenon, TimeoutQuorumFacts
  <2>3. tc \in TC /\ tc.round = t.round
    BY <1>1, <2>2, BlockFacts DEF TC, Timeout
  <2>4. /\ \A y \in S : Round(y.high_qc) <= tc.high
        /\ core' = [core EXCEPT ![n] = c2]
        /\ tcs' = tcs \cup {tc}
        /\ \E new \in ProposalsOf(n, c2, tc) : proposals' = proposals \cup new
    BY <2>1
  <2> HIDE DEF tc
  <2>5. PICK new \in ProposalsOf(n, c2, tc) : proposals' = proposals \cup new
    BY <2>4
  <2>6. /\ new \subseteq Proposal
        /\ \A p \in new : p.block # Genesis /\ Parent(p.block) = c2.high_qc /\ p.tc = tc
    BY <1>4, <2>3, ProposalsOfFacts
  <2>7. \A m \in {y.author : y \in S} : \E y \in heard :
           y.author = m /\ y.round = tc.round /\ Round(y.high_qc) <= tc.high
    BY <2>2, <2>3, <2>4
  <2>8. \E Q \in Quorum : \A m \in Q : \E y \in heard :
           y.author = m /\ y.round = tc.round /\ Round(y.high_qc) <= tc.high
    BY <2>2, <2>7
  <2>9. tcs \subseteq tcs' /\ tcs' \subseteq TC /\ proposals' \subseteq Proposal
    BY <1>5, <2>3, <2>4, <2>5, <2>6
  <2>10. \A u \in tcs' \ tcs : \E Q \in Quorum : \A m \in Q : \E y \in heard :
           y.author = m /\ y.round = u.round /\ Round(y.high_qc) <= u.high
    <3>1. \A u \in tcs' \ tcs : u = tc
      BY <2>4
    <3> QED
      BY <2>8, <3>1
  <2>11. \A p \in proposals' \ proposals :
           p.block # Genesis /\ Parent(p.block) = c2.high_qc /\ p.tc \in tcs'
    BY <2>4, <2>5, <2>6
  <2> HIDE DEF Follows
  <2> QED
    BY Zenon, <1>4, <2>4, <2>9, <2>10, <2>11 DEF Follows
<1> QED
  BY Zenon, <1>6, <1>7 DEF HandleTimeoutIn, c0, c1, c2

------------------------------------------------------------------------------
(* Every action preserves the invariant. *)

\* handle_timeout on the timeout of another operator.
LEMMA HandleTimeoutPreserves ==
    ASSUME IInv(Block), NEW n \in Node, NEW t \in timeouts, HandleTimeout(n, t, timeouts)
    PROVE  IInv(Block)'
<1>1. TypeOK /\ HighQCs /\ TimedOut
  BY DEF IInv
<1>2. /\ HandleTimeoutIn(n, core[n], t, timeouts)
      /\ UNCHANGED <<store, tx_commit, committed, votes, timeouts>>
  BY DEF HandleTimeout
<1>3. core[n] \in CoreState /\ timeouts \subseteq Timeout /\ t \in Timeout
  BY <1>1 DEF TypeOK
<1>4. PICK d \in CoreState :
        /\ core' = [core EXCEPT ![n] = d]
        /\ d.last_voted_round = core[n].last_voted_round
        /\ d.high_qc \in {core[n].high_qc, t.high_qc}
        /\ Round(d.high_qc) >= Round(core[n].high_qc)
        /\ tcs \subseteq tcs' /\ tcs' \subseteq TC
        /\ \A tc \in tcs' \ tcs : \E Q \in Quorum : \A m \in Q : \E x \in timeouts :
             x.author = m /\ x.round = tc.round /\ Round(x.high_qc) <= tc.high
        /\ proposals' \subseteq Proposal
        /\ \A p \in proposals' \ proposals :
             p.block # Genesis /\ Parent(p.block) = d.high_qc /\ p.tc \in tcs'
  BY SMTT(20), <1>1, <1>2, <1>3, HandleTimeoutInFacts
<1>5. TypeOK'
  BY <1>1, <1>2, <1>4 DEF TypeOK
<1>6. Certified(d.high_qc)'
  <2>1. Certified(d.high_qc)
    BY <1>1, <1>4 DEF HighQCs, TimedOut
  <2> QED
    BY <1>2, <1>5, <2>1, CertifiedStays
<1>7. VoteStep(n, d) /\ TimeoutStep(n, d)
  BY <1>2 DEF VoteStep, TimeoutStep
<1>8. d.last_voted_round >= core[n].last_voted_round
  BY <1>3, <1>4 DEF CoreState
<1>9. SafeStep(n, d)
  BY <1>2, <1>4, <1>6, <1>7, <1>8 DEF SafeStep
<1> QED
  BY <1>5, <1>9, SafeStepPreserves

\* local_timeout_round: the timer of n fires.
LEMMA LocalTimeoutRoundPreserves ==
    ASSUME IInv(Block), NEW n \in Node, LocalTimeoutRound(n, timeouts)
    PROVE  IInv(Block)'
<1>1. TypeOK /\ HighQCs
  BY DEF IInv
<1> DEFINE c == IncreaseLastVotedRound(core[n], core[n].round)
           t == TimeoutOf(n, c)
<1>2. /\ timeouts' = timeouts \cup {t}
      /\ HandleTimeoutIn(n, c, t, timeouts \cup {t})
      /\ UNCHANGED <<store, tx_commit, committed, votes>>
  BY DEF LocalTimeoutRound
<1>3. core[n] \in CoreState /\ core[n].round \in Nat /\ timeouts \subseteq Timeout
  BY <1>1 DEF TypeOK, CoreState
<1>4. /\ c \in CoreState
      /\ c.last_voted_round >= core[n].last_voted_round
      /\ c.last_voted_round >= core[n].round
      /\ c.high_qc = core[n].high_qc
      /\ c.round = core[n].round
  BY <1>3, VotedRoundFacts
<1> HIDE DEF c
<1>5. /\ t \in Timeout
      /\ t.author = n /\ t.high_qc = core[n].high_qc /\ t.round <= c.last_voted_round
  BY <1>4 DEF TimeoutOf, Timeout, CoreState
<1> HIDE DEF t
<1>6. PICK d \in CoreState :
        /\ core' = [core EXCEPT ![n] = d]
        /\ d.last_voted_round = c.last_voted_round
        /\ d.high_qc \in {c.high_qc, t.high_qc}
        /\ Round(d.high_qc) >= Round(c.high_qc)
        /\ tcs \subseteq tcs' /\ tcs' \subseteq TC
        /\ \A tc \in tcs' \ tcs : \E Q \in Quorum : \A m \in Q : \E x \in timeouts \cup {t} :
             x.author = m /\ x.round = tc.round /\ Round(x.high_qc) <= tc.high
        /\ proposals' \subseteq Proposal
        /\ \A p \in proposals' \ proposals :
             p.block # Genesis /\ Parent(p.block) = d.high_qc /\ p.tc \in tcs'
  <2>1. timeouts \cup {t} \in SUBSET Timeout
    BY <1>3, <1>5
  <2> QED
    BY <1>1, <1>2, <1>4, <1>5, <2>1, HandleTimeoutInFacts
<1>7. TypeOK'
  BY <1>1, <1>2, <1>5, <1>6 DEF TypeOK
<1>8. d.high_qc = core[n].high_qc
  BY <1>4, <1>5, <1>6
<1>9. Certified(d.high_qc)'
  BY SMTT(20), <1>1, <1>2, <1>7, <1>8, CertifiedStays DEF HighQCs
<1>10. VoteStep(n, d) /\ TimeoutStep(n, d)
  BY <1>2, <1>5, <1>6 DEF VoteStep, TimeoutStep
<1>11. SafeStep(n, d)
  BY <1>2, <1>4, <1>6, <1>8, <1>9, <1>10 DEF SafeStep
<1> QED
  BY <1>7, <1>11, SafeStepPreserves

\* handle_tc.
LEMMA HandleTCPreserves ==
    ASSUME IInv(Block), NEW n \in Node, NEW tc \in tcs, HandleTC(n, tc)
    PROVE  IInv(Block)'
<1>1. TypeOK /\ HighQCs
  BY DEF IInv
<1>0. PICK c : c = ProcessTC(core[n], tc.round)
  OBVIOUS
<1>2. /\ core' = [core EXCEPT ![n] = c]
      /\ \E new \in ProposalsOf(n, c, tc) : proposals' = proposals \cup new
      /\ UNCHANGED <<store, tx_commit, committed, votes, timeouts, tcs>>
  BY <1>0 DEF HandleTC
<1>3. core[n] \in CoreState /\ tc \in TC /\ tc.round \in Nat
  BY <1>1 DEF TypeOK, TC
<1>4. /\ c \in CoreState
      /\ c.last_voted_round = core[n].last_voted_round
      /\ c.high_qc = core[n].high_qc
  BY <1>0, <1>3, ProcessTCFacts
<1>5. PICK new \in ProposalsOf(n, c, tc) : proposals' = proposals \cup new
  BY <1>2
<1>6. /\ new \subseteq Proposal
      /\ \A p \in new : p.block # Genesis /\ Parent(p.block) = c.high_qc /\ p.tc = tc
  BY <1>3, <1>4, ProposalsOfFacts
<1>7. TypeOK'
  BY <1>1, <1>2, <1>4, <1>5, <1>6 DEF TypeOK
<1>8. Certified(c.high_qc)'
  BY SMTT(20), <1>1, <1>2, <1>4, <1>7, CertifiedStays DEF HighQCs
<1>9. VoteStep(n, c) /\ TimeoutStep(n, c)
  BY <1>2 DEF VoteStep, TimeoutStep
<1>10. /\ c.last_voted_round >= core[n].last_voted_round
       /\ Round(c.high_qc) >= Round(core[n].high_qc)
  BY <1>3, <1>4, BlockFacts DEF CoreState
<1>11. SafeStep(n, c)
  BY <1>2, <1>5, <1>6, <1>8, <1>9, <1>10 DEF SafeStep
<1> QED
  BY <1>4, <1>7, <1>11, SafeStepPreserves

\* handle_vote on a vote of another operator.
LEMMA HandleVotePreserves ==
    ASSUME IInv(Block), NEW n \in Node, NEW b \in VotedBlocks, HandleVote(n, b)
    PROVE  IInv(Block)'
<1>1. TypeOK /\ HighQCs
  BY DEF IInv
<1>2. /\ AssembleQC(n, core[n], b, Voters(b))
      /\ UNCHANGED <<store, tx_commit, committed, votes, timeouts, tcs>>
  BY DEF HandleVote
<1>3. core[n] \in CoreState /\ b \in Block
  BY <1>1 DEF TypeOK, VotedBlocks, Vote
<1>4. PICK d \in CoreState :
        /\ core' = [core EXCEPT ![n] = d]
        /\ Voters(b) \in Quorum
        /\ d.last_voted_round = core[n].last_voted_round
        /\ d.high_qc \in {core[n].high_qc, b}
        /\ Round(d.high_qc) >= Round(core[n].high_qc)
        /\ proposals' \subseteq Proposal
        /\ \A p \in proposals' \ proposals :
             p.block # Genesis /\ Parent(p.block) = d.high_qc /\ p.tc = NoTC
  BY <1>1, <1>2, <1>3, AssembleQCFacts
<1>5. TypeOK'
  BY <1>1, <1>2, <1>4 DEF TypeOK
<1>6. Certified(d.high_qc)
  BY <1>1, <1>4 DEF HighQCs, Certified
<1>7. Certified(d.high_qc)'
  BY <1>2, <1>5, <1>6, CertifiedStays
<1>8. VoteStep(n, d) /\ TimeoutStep(n, d)
  BY <1>2 DEF VoteStep, TimeoutStep
<1>9. d.last_voted_round >= core[n].last_voted_round
  BY SMTT(20), <1>3, <1>4 DEF CoreState
<1>10. SafeStep(n, d)
  BY <1>2, <1>4, <1>7, <1>8, <1>9 DEF SafeStep
<1> QED
  BY <1>5, <1>10, SafeStepPreserves
==============================================================================
