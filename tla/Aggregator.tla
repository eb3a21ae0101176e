----------------------------- MODULE Aggregator -----------------------------
(* The aggregator of one operator (consensus/src/aggregator.rs) and the parts  *)
(* of the core that feed it and clean it up: votes and timeouts of the others  *)
(* arrive in any order, repeatedly and late, and the round advances when a     *)
(* certificate is complete or when one arrives in a message.                   *)
(*                                                                             *)
(* A ballot is what the votes for one certificate have in common: the round    *)
(* and the block for a QC, the round alone for a TC.                           *)
EXTENDS Naturals, Sequences, FiniteSets

CONSTANTS
    Node,               \* the operators; each has one unit of stake
    Ballot,             \* the ballots
    Round,              \* Round[k]: the round of ballot k
    MaxRound            \* bound: the last round that a certificate may end

\* What the theorems assume of the constants.
Parameters ==
    /\ IsFiniteSet(Node) /\ Node /= {}
    /\ Round \in [Ballot -> 1 .. MaxRound]
    /\ MaxRound \in Nat

VARIABLES
    round,              \* the round of the core
    used,               \* used[k]: authors in the maker of ballot k
    weight,             \* weight[k]: the weight in the maker
    received,           \* history: authors whose vote was accepted, since the start
    made                \* history: the author sets of the certificates made of a ballot

vars == <<round, used, weight, received, made>>

QuorumThreshold == (2 * Cardinality(Node)) \div 3 + 1

Init ==
    /\ round = 1
    /\ used = [k \in Ballot |-> {}]
    /\ weight = [k \in Ballot |-> 0]
    /\ received = [k \in Ballot |-> {}]
    /\ made = [k \in Ballot |-> << >>]

\* Aggregator::cleanup keeps the makers of this round and later ones.
Kept(k, r) == Round[k] >= r

\* Core::advance_round from round to r + 1, with the makers as they are then.
AdvanceRound(r, u, w) ==
    IF r < round
    THEN round' = round /\ used' = u /\ weight' = w
    ELSE /\ round' = r + 1
         /\ used' = [k \in Ballot |-> IF Kept(k, r + 1) THEN u[k] ELSE {}]
         /\ weight' = [k \in Ballot |-> IF Kept(k, r + 1) THEN w[k] ELSE 0]

\* Core::handle_vote and handle_timeout with QCMaker::append and TCMaker::append: a vote
\* of an earlier round and a second vote of an author are refused; the vote that
\* completes the quorum makes the certificate, which ends the round.
AddVote(a, k) ==
    /\ Round[k] >= round
    /\ a \notin used[k]
    /\ received' = [received EXCEPT ![k] = @ \union {a}]
    /\ LET u == [used EXCEPT ![k] = @ \union {a}]
           w == weight[k] + 1
       IN IF w >= QuorumThreshold
          THEN /\ made' = [made EXCEPT ![k] = Append(@, u[k])]
               /\ AdvanceRound(Round[k], u, [weight EXCEPT ![k] = 0])
          ELSE made' = made /\ round' = round /\ used' = u /\ weight' = [weight EXCEPT ![k] = w]

\* A certificate of round r arrives in a block, a timeout or a TC message.
ReceiveCertificate(r) ==
    /\ AdvanceRound(r, used, weight)
    /\ UNCHANGED <<received, made>>

Next ==
    \/ \E a \in Node, k \in Ballot : AddVote(a, k)
    \/ \E r \in 1 .. MaxRound : ReceiveCertificate(r)

Spec == Init /\ [][Next]_vars
------------------------------------------------------------------------------
\* The state has its types, and the aggregator has no makers of past rounds: its size is
\* bounded by the rounds that are ahead.
TypeOK ==
    /\ round \in 1 .. MaxRound + 1
    /\ used \in [Ballot -> SUBSET Node]
    /\ weight \in [Ballot -> 0 .. Cardinality(Node)]
    /\ received \in [Ballot -> SUBSET Node]
    /\ \A k \in Ballot : Round[k] < round => used[k] = {} /\ weight[k] = 0

\* "Ensures QC is only made once": an operator makes at most one certificate of a ballot,
\* although the weight starts from zero again and votes come late and repeatedly, and the
\* certificate has the votes of a quorum.
MadeOnce ==
    \A k \in Ballot :
        /\ Len(made[k]) <= 1
        /\ \A i \in DOMAIN made[k] : Cardinality(made[k][i]) >= QuorumThreshold

\* No quorum is overlooked: as long as the round of a ballot is not over, the votes
\* received for it are fewer than a quorum.
NoQuorumOverlooked ==
    \A k \in Ballot : Round[k] >= round => Cardinality(received[k]) < QuorumThreshold
==============================================================================
