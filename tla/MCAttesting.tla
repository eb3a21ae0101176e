---------------------------- MODULE MCAttesting ----------------------------
(* A client with one or two keys from genesis or from the first epoch on: an   *)
(* epoch has two slots, a period of the sync committee four epochs, and a      *)
(* re-org exchanges the slots of the keys and their places in the committee.   *)
EXTENDS SyncCommittee

MCDutySlot(v, e, r) == e * SlotsPerEpoch + ((v + r) % SlotsPerEpoch)

\* Key 1 is a member of the committee in every other period; key 2 always, and its subnet
\* changes with the period.
MCSubnets(v, p, r) == IF (v + p + r) % 2 = 0 THEN {1} ELSE IF v = 1 THEN {} ELSE {2}

MCSelected(v, s, n) == (s + n) % 2 = 0

MCAgenda == {
    [duty |-> "attesting", keys |-> {1, 2}, start |-> 3, last |-> 10, events |-> {}],
    [duty |-> "attesting", keys |-> {1}, start |-> 3, last |-> 9, events |-> {"other", "stop", "add"}],
    [duty |-> "attesting", keys |-> {1}, start |-> 3, last |-> 9, events |-> {"other", "query"}],
    [duty |-> "attesting", keys |-> {1}, start |-> 3, last |-> 9, events |-> {"late", "start"}],
    [duty |-> "attesting", keys |-> {1, 2}, start |-> 0, last |-> 4, events |-> {"reorg", "late"}],
    [duty |-> "attesting", keys |-> {1, 2}, start |-> 0, last |-> 3, events |-> {"duties", "proof"}],
    [duty |-> "attesting", keys |-> {1}, start |-> 0, last |-> 4, events |-> {"data", "stop", "add"}],
    [duty |-> "sync", keys |-> {1, 2}, start |-> 3, last |-> 17, events |-> {}],
    [duty |-> "sync", keys |-> {1}, start |-> 3, last |-> 9, events |-> {"sync duties", "add"}],
    [duty |-> "sync", keys |-> {2}, start |-> 6, last |-> 9, events |-> {"reorg", "add", "stop"}],
    [duty |-> "sync", keys |-> {2}, start |-> 3, last |-> 9, events |-> {"sync proof", "late"}],
    [duty |-> "sync", keys |-> {2}, start |-> 3, last |-> 9, events |-> {"root", "post"}]}
=============================================================================
