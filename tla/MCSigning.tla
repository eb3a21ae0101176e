----------------------------- MODULE MCSigning -----------------------------
(* Four operators, one of them faulty, that attest to one of two heads, make a *)
(* selection proof, or sign the same head for the sync committee in two slots. *)
EXTENDS Signing

MCJob == {"att", "sel", "sync1", "sync2"}

MCAgenda == {
    [jobs |-> {"att"}, faults |-> {"crash"}],
    [jobs |-> {"sel"}, faults |-> {}],
    [jobs |-> {"sync1", "sync2"}, faults |-> {"timeout", "loss"}]}

MCKind == [att |-> "ATTESTER", sel |-> "SELECT", sync1 |-> "SYNC_COMMITTEE", sync2 |-> "SYNC_COMMITTEE"]

MCEpoch == [att |-> 5, sel |-> 5, sync1 |-> 6, sync2 |-> 6]

MCCandidate == [att |-> {"head1", "head2"}, sel |-> {"slot"}, sync1 |-> {"head"}, sync2 |-> {"head"}]

MCConflict == {<<"head1", "head2">>, <<"head2", "head1">>}
==============================================================================
