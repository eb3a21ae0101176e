---------------------------- MODULE MCAggregator ----------------------------
(* Four operators; a QC and a TC of rounds 1 and 2 and a QC of round 3. *)
EXTENDS Aggregator, TLC

CONSTANTS n1, n2, n3, n4

MCNode == {n1, n2, n3, n4}

MCSymmetry == Permutations(MCNode)

MCBallot == {"qc1", "tc1", "qc2", "tc2", "qc3"}

MCRound == [qc1 |-> 1, tc1 |-> 1, qc2 |-> 2, tc2 |-> 2, qc3 |-> 3]
==============================================================================
