--------------------------- MODULE AggregatorProofs ---------------------------
(* The aggregator makes every certificate once and overlooks no quorum, for any *)
(* committee, any ballots and any number of rounds.                             *)
EXTENDS Aggregator, FiniteSetTheorems, TLAPS

\* Until the round of a ballot is over, its maker has exactly the votes received, fewer
\* than a quorum, and its weight counts them; afterwards the maker is gone.
MakerInvariant ==
    /\ round \in Nat
    /\ used \in [Ballot -> SUBSET Node]
    /\ weight \in [Ballot -> Nat]
    /\ received \in [Ballot -> SUBSET Node]
    /\ made \in [Ballot -> Seq(SUBSET Node)]
    /\ \A k \in Ballot : Round[k] >= round =>
        /\ used[k] = received[k]
        /\ weight[k] = Cardinality(used[k])
        /\ weight[k] < QuorumThreshold
        /\ made[k] = << >>
    /\ \A k \in Ballot :
        /\ Len(made[k]) <= 1
        /\ \A i \in DOMAIN made[k] : Cardinality(made[k][i]) >= QuorumThreshold

\* The quorum is a positive number.
LEMMA QuorumIsPositive == ASSUME Parameters PROVE QuorumThreshold \in Nat /\ 0 < QuorumThreshold
<1>1. Cardinality(Node) \in Nat
  BY FS_CardinalityType DEF Parameters
<1> QED
  BY <1>1 DEF QuorumThreshold

\* A vote that is the first of its author raises the number of votes by one.
LEMMA OneMoreVote ==
    ASSUME Parameters, NEW S \in SUBSET Node, NEW a \in Node, a \notin S
    PROVE  Cardinality(S \union {a}) = Cardinality(S) + 1 /\ Cardinality(S) \in Nat
<1>1. IsFiniteSet(S)
  BY FS_Subset DEF Parameters
<1> QED
  BY <1>1, FS_AddElement, FS_CardinalityType

\* A vote keeps MakerInvariant (handle_vote, handle_timeout, QCMaker::append and
\* TCMaker::append): it refills no maker that has made its certificate, because the
\* certificate ends the round.
LEMMA VoteKeepsInvariant ==
    ASSUME Parameters, MakerInvariant, NEW a \in Node, NEW k \in Ballot, AddVote(a, k)
    PROVE  MakerInvariant'
<1> DEFINE u == [used EXCEPT ![k] = @ \union {a}]
<1>1. /\ Round[k] >= round /\ a \notin used[k]
      /\ received' = [received EXCEPT ![k] = @ \union {a}]
  BY DEF AddVote
<1>2. Round \in [Ballot -> Nat] /\ QuorumThreshold \in Nat
  BY QuorumIsPositive DEF Parameters
<1>3. /\ Cardinality(u[k]) = weight[k] + 1
      /\ u \in [Ballot -> SUBSET Node]
      /\ u[k] = received'[k]
  BY <1>1, OneMoreVote, ZenonT(60) DEF MakerInvariant
<1>4. CASE weight[k] + 1 >= QuorumThreshold
  <2>1. /\ made' = [made EXCEPT ![k] = Append(@, u[k])]
        /\ AdvanceRound(Round[k], u, [weight EXCEPT ![k] = 0])
    BY <1>4 DEF AddVote
  <2>2. /\ round' = Round[k] + 1
        /\ used' = [j \in Ballot |-> IF Kept(j, Round[k] + 1) THEN u[j] ELSE {}]
        /\ weight' = [j \in Ballot |-> IF Kept(j, Round[k] + 1) THEN [weight EXCEPT ![k] = 0][j] ELSE 0]
    BY <1>1, <1>2, <2>1 DEF AdvanceRound, MakerInvariant
  <2>3. /\ made[k] = << >>
        /\ made'[k] = <<u[k]>>
        /\ made' \in [Ballot -> Seq(SUBSET Node)]
    <3>1. made[k] = << >> /\ u[k] \in SUBSET Node /\ made \in [Ballot -> Seq(SUBSET Node)]
      BY <1>1, <1>3 DEF MakerInvariant
    <3> HIDE DEF u
    <3>2. made'[k] = <<u[k]>> /\ <<u[k]>> \in Seq(SUBSET Node)
      BY <2>1, <3>1
    <3>3. made' = [made EXCEPT ![k] = <<u[k]>>]
      BY <2>1, <3>1, <3>2
    <3> QED
      BY <3>1, <3>2, <3>3
  <2>4. \A j \in Ballot : Round[j] >= round' =>
            /\ j /= k /\ Round[j] >= round
            /\ used'[j] = used[j] /\ weight'[j] = weight[j] /\ received'[j] = received[j]
            /\ made'[j] = made[j]
    BY <1>1, <1>2, <2>1, <2>2 DEF MakerInvariant, Kept
  <2>5. round' \in Nat /\ used' \in [Ballot -> SUBSET Node] /\ weight' \in [Ballot -> Nat]
        /\ received' \in [Ballot -> SUBSET Node]
    <3>1. round' \in Nat /\ used' \in [Ballot -> SUBSET Node]
      BY <1>2, <1>3, <2>2
    <3>2. [weight EXCEPT ![k] = 0] \in [Ballot -> Nat]
      BY DEF MakerInvariant
    <3>3. weight' \in [Ballot -> Nat]
      BY <2>2, <3>2
    <3>4. received' \in [Ballot -> SUBSET Node]
      BY <1>1 DEF MakerInvariant
    <3> QED
      BY <3>1, <3>3, <3>4
  <2>6. \A j \in Ballot :
            /\ Len(made'[j]) <= 1
            /\ \A i \in DOMAIN made'[j] : Cardinality(made'[j][i]) >= QuorumThreshold
    <3> SUFFICES ASSUME NEW j \in Ballot
                 PROVE  /\ Len(made'[j]) <= 1
                        /\ \A i \in DOMAIN made'[j] : Cardinality(made'[j][i]) >= QuorumThreshold
      OBVIOUS
    <3>1. CASE j /= k
      <4>1. made'[j] = made[j]
        BY <2>1, <3>1 DEF MakerInvariant
      <4> QED
        BY <4>1 DEF MakerInvariant
    <3>2. CASE j = k
      <4>1. Cardinality(u[k]) >= QuorumThreshold
        BY <1>3, <1>4
      <4> HIDE DEF u
      <4>2. made'[j] = <<u[k]>>
        BY <2>3, <3>2
      <4>3. Len(<<u[k]>>) = 1 /\ DOMAIN <<u[k]>> = {1} /\ <<u[k]>>[1] = u[k]
        OBVIOUS
      <4>4. Len(made'[j]) <= 1
        BY <4>2, <4>3
      <4>5. \A i \in DOMAIN made'[j] : made'[j][i] = u[k]
        BY <4>2, <4>3, Zenon
      <4> QED
        BY <4>1, <4>4, <4>5
    <3> QED
      BY <3>1, <3>2
  <2> QED
    BY <2>3, <2>4, <2>5, <2>6 DEF MakerInvariant, QuorumThreshold
<1>5. CASE ~(weight[k] + 1 >= QuorumThreshold)
  <2>1. /\ made' = made /\ round' = round /\ used' = u
        /\ weight' = [weight EXCEPT ![k] = @ + 1]
    BY <1>5 DEF AddVote
  <2>2. weight[k] + 1 < QuorumThreshold
    BY <1>2, <1>5 DEF MakerInvariant
  <2> QED
    <3>1. /\ used' \in [Ballot -> SUBSET Node] /\ weight' \in [Ballot -> Nat]
          /\ received' \in [Ballot -> SUBSET Node]
      BY <1>1, <1>3, <2>1 DEF MakerInvariant
    <3>2. ASSUME NEW j \in Ballot, Round[j] >= round
          PROVE  /\ used'[j] = received'[j]
                 /\ weight'[j] = Cardinality(used'[j])
                 /\ weight'[j] < QuorumThreshold
                 /\ made'[j] = << >>
      <4>1. CASE j = k
        BY <1>1, <1>3, <2>1, <2>2, <4>1 DEF MakerInvariant
      <4>2. CASE j /= k
        BY <1>1, <2>1, <3>2, <4>2 DEF MakerInvariant
      <4> QED
        BY <4>1, <4>2
    <3> QED
      BY <2>1, <3>1, <3>2, Zenon DEF MakerInvariant, QuorumThreshold
<1> QED
  BY <1>4, <1>5

\* A certificate that arrives keeps MakerInvariant (advance_round and cleanup).
LEMMA CertificateKeepsInvariant ==
    ASSUME Parameters, MakerInvariant, NEW r \in 1 .. MaxRound, ReceiveCertificate(r)
    PROVE  MakerInvariant'
<1>1. UNCHANGED <<received, made>> /\ AdvanceRound(r, used, weight)
  BY DEF ReceiveCertificate
<1>2. Round \in [Ballot -> Nat] /\ r \in Nat
  BY DEF Parameters
<1>3. CASE r < round
  BY <1>1, <1>3 DEF AdvanceRound, MakerInvariant, QuorumThreshold
<1>4. CASE ~(r < round)
  <2>1. /\ round' = r + 1
        /\ used' = [j \in Ballot |-> IF Kept(j, r + 1) THEN used[j] ELSE {}]
        /\ weight' = [j \in Ballot |-> IF Kept(j, r + 1) THEN weight[j] ELSE 0]
    BY <1>1, <1>4 DEF AdvanceRound
  <2>2. \A j \in Ballot : Round[j] >= round' =>
            Round[j] >= round /\ used'[j] = used[j] /\ weight'[j] = weight[j]
    BY <1>2, <1>4, <2>1 DEF MakerInvariant, Kept
  <2> QED
    <3>1. round' \in Nat /\ used' \in [Ballot -> SUBSET Node] /\ weight' \in [Ballot -> Nat]
      BY <1>2, <2>1 DEF MakerInvariant
    <3> QED
      BY <1>1, <2>2, <3>1 DEF MakerInvariant, QuorumThreshold
<1> QED
  BY <1>3, <1>4

\* Every step of the aggregator keeps MakerInvariant.
LEMMA MakersAreSound == ASSUME Parameters PROVE Spec => []MakerInvariant
<1>1. Init => MakerInvariant
  BY QuorumIsPositive, FS_EmptySet DEF Init, MakerInvariant
<1>2. MakerInvariant /\ [Next]_vars => MakerInvariant'
  <2> SUFFICES ASSUME MakerInvariant, [Next]_vars PROVE MakerInvariant'
    OBVIOUS
  <2>1. CASE UNCHANGED vars
    BY <2>1 DEF vars, MakerInvariant, QuorumThreshold
  <2> QED
    BY <2>1, VoteKeepsInvariant, CertificateKeepsInvariant DEF Next
<1> QED
  BY <1>1, <1>2, PTL DEF Spec

\* "Ensures QC is only made once": an operator makes at most one certificate of a
\* ballot, with the votes of a quorum, however late and often votes arrive.
THEOREM CertificatesAreMadeOnce == ASSUME Parameters PROVE Spec => []MadeOnce
<1>1. MakerInvariant => MadeOnce
  BY DEF MakerInvariant, MadeOnce
<1> QED
  BY <1>1, MakersAreSound, PTL

\* As long as the round of a ballot is not over, the votes received for it are fewer
\* than a quorum: clean-up and duplicates never cost a certificate.
THEOREM NoQuorumIsOverlooked == ASSUME Parameters PROVE Spec => []NoQuorumOverlooked
<1>1. MakerInvariant => NoQuorumOverlooked
  BY DEF MakerInvariant, NoQuorumOverlooked
<1> QED
  BY <1>1, MakersAreSound, PTL
==============================================================================
