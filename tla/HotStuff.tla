------------------------------- MODULE HotStuff -------------------------------
(***************************************************************************)
(* The consensus core (hotstuff/consensus) of one validator: the two-chain *)
(* HotStuff protocol that the operators of the validator run to agree on   *)
(* the duties they sign.                                                   *)
(*                                                                         *)
(* Every operator runs one Core.  Its volatile state is a record of        *)
(* core[n]; store[n] is its RocksDB store of blocks and tx_commit[n] what  *)
(* it has handed to the application.  Messages are never removed from the  *)
(* sets of sent messages: a handler may see a message late, twice, out of  *)
(* order or never.                                                         *)
(*                                                                         *)
(* The vote and timeout aggregators (module Aggregator) are represented by *)
(* what they can produce: a vote or a timeout completes a certificate for  *)
(* n when, with those of other authors that were sent, it makes a quorum.  *)
(* A delivery that completes nothing changes only the aggregator.          *)
(***************************************************************************)
EXTENDS Chain

CONSTANTS N,         \* number of operators; each has one unit of stake
          Active,    \* the operators that are up
          MaxRound,  \* bound: no certificate of this round is assembled
          Timers,    \* bound: <<n, r>> if the timer of n may fire in round r
          MaxTimeouts \* bound: the timers fire while fewer timeouts were sent

Node == 0 .. N - 1   \* positions of the operators in the order of their keys

ASSUME HotStuffAssumption ==
    /\ N \in Nat \ {0}
    /\ Active \subseteq Node
    /\ MaxRound \in Nat
    /\ Timers \subseteq Node \X Nat
    /\ MaxTimeouts \in Nat

VARIABLES
    core,       \* core[n]: the volatile state of operator n's Core
    store,      \* store[n]: the blocks in the store of operator n
    tx_commit,  \* tx_commit[n]: the blocks n delivered to the application
    committed,  \* committed[n]: the blocks on which n ran a commit (history)
    proposals,  \* Propose messages sent
    votes,      \* Vote messages sent
    timeouts,   \* Timeout messages sent
    tcs         \* TC messages sent

vars == <<core, store, tx_commit, committed, proposals, votes, timeouts, tcs>>

------------------------------------------------------------------------------
QuorumThreshold == (2 * N) \div 3 + 1

Leader(r) == r % N

Quorum == {Q \in SUBSET Node : Cardinality(Q) >= QuorumThreshold}

Vote == [author : Node, block : Block]

\* The votes of a TC are abstracted to the largest round of a high QC in them.
TC == [round : Nat, high : Nat]
NoTC == [round |-> 0, high |-> 0]

\* Of the high TC in a timeout only the round is ever used.
Timeout == [author : Node, round : Nat, high_qc : Block, high_tc : Nat]

Proposal == [author : Node, block : Block, tc : TC]

CoreState == [round : Nat \ {0}, last_voted_round : Nat, last_committed_round : Nat,
              high_qc : Block, high_tc : Nat]

VotedBlocks == {v.block : v \in votes}

Voters(b) == {v.author : v \in {w \in votes : w.block = b}}

\* A block that a QC can name: genesis or one with votes from a quorum.
Certified(b) == b = Genesis \/ Voters(b) \in Quorum

------------------------------------------------------------------------------
(* Steps of a Core on its own state. *)

AdvanceRound(c, r) == IF r < c.round THEN c ELSE [c EXCEPT !.round = r + 1]

\* Mutant: the last certificate seen replaces a higher one.
UpdateHighQC_Latest(c, qc) == [c EXCEPT !.high_qc = qc]

UpdateHighQC(c, qc) ==
    IF Round(qc) > Round(c.high_qc) THEN [c EXCEPT !.high_qc = qc] ELSE c

\* Mutant: the timeout certificate is used but not kept.
UpdateHighTC_Forgets(c, r) == c

UpdateHighTC(c, r) == IF r > c.high_tc THEN [c EXCEPT !.high_tc = r] ELSE c

ProcessQC(c, qc) == UpdateHighQC(AdvanceRound(c, Round(qc)), qc)

ProcessTC(c, r) == UpdateHighTC(AdvanceRound(c, r), r)

\* Mutant: a vote or a timeout is not remembered.
IncreaseLastVotedRound_Forgets(c, r) == c

IncreaseLastVotedRound(c, r) ==
    IF r > c.last_voted_round THEN [c EXCEPT !.last_voted_round = r] ELSE c

\* The two safety rules of make_vote, for a block with timeout certificate tc.
SafetyRule1(c, b) == Round(b) > c.last_voted_round

SafetyRule2(b, tc) ==
    \/ Round(Parent(b)) + 1 = Round(b)
    \/ /\ tc # NoTC
       /\ tc.round + 1 = Round(b)
       /\ Round(Parent(b)) >= tc.high

MakesVote(c, b, tc) == SafetyRule1(c, b) /\ SafetyRule2(b, tc)

\* generate_proposal and the proposer: if n leads the round it is in, it
\* broadcasts a block of that round on its high QC, with any payload.
ProposalsOf(n, c, tc) ==
    IF n = Leader(c.round)
    THEN {{[author |-> n, block |-> NewBlock(c.high_qc, c.round, p), tc |-> tc]} :
            p \in Payload}
    ELSE {{}}

------------------------------------------------------------------------------
\* Core::spawn: nothing is read back from the store.
InitCore == [round |-> 1, last_voted_round |-> 0, last_committed_round |-> 0,
             high_qc |-> Genesis, high_tc |-> 0]

\* The leader of the first round has proposed upon booting.
Init ==
    /\ core = [n \in Node |-> InitCore]
    /\ store = [n \in Node |-> {}]
    /\ tx_commit = [n \in Node |-> << >>]
    /\ committed = [n \in Node |-> {}]
    /\ proposals \in
         IF Leader(1) \in Active THEN ProposalsOf(Leader(1), InitCore, NoTC) ELSE {{}}
    /\ votes = {}
    /\ timeouts = {}
    /\ tcs = {}

\* commit(b0), where c is the state of n and st its store.
Commit(n, c, b0, st) ==
    IF c.last_committed_round >= Round(b0)
    THEN /\ store' = [store EXCEPT ![n] = st]
         /\ UNCHANGED <<tx_commit, committed>>
    ELSE /\ store' = [store EXCEPT ![n] = Prune(b0, st)]
         /\ tx_commit' = [tx_commit EXCEPT ![n] =
                            @ \o Delivery(b0, c.last_committed_round, st)]
         /\ committed' = [committed EXCEPT ![n] = @ \cup {b0}]

\* The state of the Core after commit(b0).
AfterCommit(c, b0) ==
    IF c.last_committed_round >= Round(b0) THEN c
    ELSE [c EXCEPT !.last_committed_round = Round(b0)]

\* handle_vote at n in state c for a vote on b that completes a QC: n processes
\* the QC and proposes if it leads the new round.  "signed" are the authors of
\* the votes on b.
AssembleQC(n, c, b, signed) ==
    /\ Round(b) \in c.round .. MaxRound - 1
    /\ signed \in Quorum
    /\ LET c1 == ProcessQC(c, b) IN
       /\ core' = [core EXCEPT ![n] = c1]
       /\ \E new \in ProposalsOf(n, c1, NoTC) : proposals' = proposals \cup new

\* Mutant: a block is committed as soon as it has a QC.
TwoChainHead_OneChain(b) == Parent(b)

\* The block that b makes committable: its grandparent, if the parent is of the
\* next round.  Otherwise genesis, whose commit changes nothing.
TwoChainHead(b) ==
    LET b1 == Parent(b)  b0 == Parent(b1)
    IN  IF Round(b0) + 1 = Round(b1) THEN b0 ELSE Genesis

\* process_block: store the block; with its two ancestors at hand commit the
\* head of a two-chain and, if the block is of the current round, vote: the
\* vote is processed locally and broadcast.
ProcessBlock(n, c, p) ==
    LET b  == p.block
        b0 == TwoChainHead(b)
        st == store[n] \cup {b}
        c1 == AfterCommit(c, b0)
        c2 == IncreaseLastVotedRound(c1, Round(b))
    IN  IF HasParent(b, st) /\ HasParent(Parent(b), st)
        THEN /\ Commit(n, c, b0, st)
             /\ IF Round(b) = c1.round /\ MakesVote(c1, b, p.tc)
                THEN /\ \/ AssembleQC(n, c2, b, Voters(b) \cup {n})
                        \/ core' = [core EXCEPT ![n] = c2] /\ UNCHANGED proposals
                     /\ votes' = votes \cup {[author |-> n, block |-> b]}
                ELSE /\ core' = [core EXCEPT ![n] = c1]
                     /\ UNCHANGED <<proposals, votes>>
        ELSE /\ core' = [core EXCEPT ![n] = c]
             /\ store' = [store EXCEPT ![n] = st]
             /\ UNCHANGED <<tx_commit, committed, proposals, votes>>

\* handle_proposal.  The block comes from its author, from a peer that answers
\* a sync request, or from a loopback: the QC and the TC of a looped-back block
\* are already processed, so processing them once more changes nothing.  A block
\* whose payload is missing waits for it and is looped back later.
HandleProposal(n, p) ==
    /\ n \in Active
    /\ p.author = Leader(Round(p.block))
    /\ LET c1 == ProcessQC(core[n], Parent(p.block))
           c2 == IF p.tc = NoTC THEN c1 ELSE ProcessTC(c1, p.tc.round)
       IN \/ /\ PayloadOf(p.block) # NoPayload
             /\ core' = [core EXCEPT ![n] = c2]
             /\ UNCHANGED <<store, tx_commit, committed, proposals, votes>>
          \/ ProcessBlock(n, c2, p)
    /\ UNCHANGED <<timeouts, tcs>>

\* handle_vote for a vote of another operator that completes a QC on b.
HandleVote(n, b) ==
    /\ n \in Active
    /\ AssembleQC(n, core[n], b, Voters(b))
    /\ UNCHANGED <<store, tx_commit, committed, votes, timeouts, tcs>>

\* The sets of timeouts that t can complete to a TC: the aggregator keeps the
\* first timeout of every author for the round and stops at a quorum.
TimeoutQuorums(t, heard) ==
    {S \in SUBSET {x \in heard : x.round = t.round} :
        /\ t \in S
        /\ Cardinality(S) = QuorumThreshold
        /\ Cardinality({x.author : x \in S}) = QuorumThreshold}

\* handle_timeout at n in state c, with "heard" the timeouts that may have reached
\* n: the certificates in the timeout are processed first; a TC that it completes is
\* processed, broadcast and, at the leader of the new round, proposed upon.
HandleTimeoutIn(n, c, t, heard) ==
    LET c1 == ProcessTC(ProcessQC(c, t.high_qc), t.high_tc)
        c2 == ProcessTC(c1, t.round)
    IN  \/ /\ core' = [core EXCEPT ![n] = c1]
           /\ UNCHANGED <<proposals, tcs>>
        \/ /\ t.round < MaxRound
           /\ \E S \in TimeoutQuorums(t, heard) : \E x \in S :
                LET tc == [round |-> t.round, high |-> Round(x.high_qc)] IN
                /\ \A y \in S : Round(y.high_qc) <= tc.high
                /\ core' = [core EXCEPT ![n] = c2]
                /\ tcs' = tcs \cup {tc}
                /\ \E new \in ProposalsOf(n, c2, tc) : proposals' = proposals \cup new

HandleTimeout(n, t, heard) ==
    /\ n \in Active
    /\ t.author # n
    /\ t.round >= core[n].round
    /\ HandleTimeoutIn(n, core[n], t, heard)
    /\ UNCHANGED <<store, tx_commit, committed, votes, timeouts>>

\* The timeout that operator n sends in state c.
TimeoutOf(n, c) ==
    [author |-> n, round |-> c.round, high_qc |-> c.high_qc, high_tc |-> c.high_tc]

\* local_timeout_round: the timer of n fires.  It is reset, so it fires again and
\* again while n stays in the round.
LocalTimeoutRound(n, heard) ==
    /\ n \in Active
    /\ <<n, core[n].round>> \in Timers
    /\ Cardinality(timeouts) < MaxTimeouts
    /\ LET c == IncreaseLastVotedRound(core[n], core[n].round)
           t == TimeoutOf(n, c)
       IN  /\ timeouts' = timeouts \cup {t}
           /\ HandleTimeoutIn(n, c, t, heard \cup {t})
    /\ UNCHANGED <<store, tx_commit, committed, votes>>

\* handle_tc: the leader of the round that n is in afterwards proposes with the
\* TC it was handed, even if that is an old one.
HandleTC(n, tc) ==
    /\ n \in Active
    /\ LET c == ProcessTC(core[n], tc.round) IN
       /\ core' = [core EXCEPT ![n] = c]
       /\ \E new \in ProposalsOf(n, c, tc) : proposals' = proposals \cup new
    /\ UNCHANGED <<store, tx_commit, committed, votes, timeouts, tcs>>

Next == \E n \in Node :
    \/ \E p \in proposals : HandleProposal(n, p)
    \/ \E b \in VotedBlocks : HandleVote(n, b)
    \/ \E t \in timeouts : HandleTimeout(n, t, timeouts)
    \/ LocalTimeoutRound(n, timeouts)
    \/ \E tc \in tcs : HandleTC(n, tc)

Spec == Init /\ [][Next]_vars

\* The timeouts that their authors still repeat.  A block, a vote, a TC and the
\* timeout of a round that its author has left may be lost for good.
Repeated == {t \in timeouts : t = TimeoutOf(t.author, core[t.author])}

\* Some timer fires or some repeated timeout is handled, as long as that changes
\* anything.
PacemakerSpec ==
    /\ Spec
    /\ WF_vars(\E n \in Active :
                 \/ LocalTimeoutRound(n, Repeated)
                 \/ \E t \in Repeated : HandleTimeout(n, t, Repeated))

------------------------------------------------------------------------------
\* The state of every Core, the stores, the commits and the messages are of the
\* types the code gives them.
TypeOK ==
    /\ core \in [Node -> CoreState]
    /\ store \in [Node -> SUBSET Block]
    /\ committed \in [Node -> SUBSET Block]
    /\ proposals \subseteq Proposal
    /\ votes \subseteq Vote
    /\ timeouts \subseteq Timeout
    /\ tcs \subseteq TC

\* Agreement: any two blocks on which two operators (or one) ran a commit lie on
\* one chain.  Core::commit on the head of a two-chain never forks the ledger.
Agreement ==
    \A n, m \in Node : \A a \in committed[n], b \in committed[m] :
        Extends(a, b) \/ Extends(b, a)

\* "Ensure we won't vote for contradicting blocks" (make_vote): an operator
\* votes for at most one block of a round, however many blocks the leader of the
\* round proposes.
VoteOnce ==
    \A v, w \in votes :
        v.author = w.author /\ Round(v.block) = Round(w.block) => v.block = w.block

\* A lock is never bypassed: once the child b1 of b0, of the next round, has a
\* quorum, every block of a later round that any operator votes for extends b0,
\* whatever view changes happened in between and even if the vote came first.  It
\* is what makes it safe for process_block to commit b0 when it sees a QC for b1.
QuorumLock ==
    \A b1, b \in VotedBlocks :
        /\ Round(Parent(b1)) + 1 = Round(b1)
        /\ Round(b1) < Round(b)
        /\ Certified(b1)
        => Extends(b, Parent(b1))

\* "Send all the newly committed blocks to the node's application layer" (commit):
\* no block is handed to the application twice.
DeliveredOnce ==
    \A n \in Node : \A i, j \in DOMAIN tx_commit[n] :
        tx_commit[n][i] = tx_commit[n][j] => i = j

\* "Ensure we commit the entire chain" and "we commit blocks only if we have all its
\* ancestors" (commit, process_block): whatever lies below a committed block and has
\* a payload was handed to the application.
DeliversEntireChain ==
    \A n \in Node : \A b \in committed[n] : \A k \in 0 .. Len(b) :
        PayloadOf(Ancestor(b, k)) # NoPayload =>
            \E i \in DOMAIN tx_commit[n] : tx_commit[n][i] = Ancestor(b, k)

\* The bound on the timeouts keeps the timer of n silent.
Silenced(n) == Cardinality(timeouts) >= MaxTimeouts /\ TimeoutOf(n, core[n]) \notin timeouts

\* With a quorum of operators up, every one of them leaves every round, also that
\* of a dead leader: the high QC and the high TC in the timeouts that
\* local_timeout_round repeats bring a straggler to the round of the others even
\* if it never receives a block, a vote or a TC.  (The bounds keep the timers of
\* round MaxRound silent, so only arrival in the round before it is promised, and
\* limit the number of timeouts.)
PacemakerProgress ==
    <>(\/ \A n \in Active : core[n].round >= MaxRound - 1
       \/ \E n \in Active : Silenced(n))

==============================================================================
