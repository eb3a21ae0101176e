---------------------------- MODULE MCProposing ----------------------------
(* Two beacon nodes, two keys and three slots; a re-org gives the second slot  *)
(* to the other key.                                                           *)
EXTENDS Proposing

MCCandidates == <<"b1", "b2">>

MCProposer(s, r) ==
    CASE s = 1 -> {1}
      [] s = 2 -> IF r = 0 THEN {1} ELSE {2}
      [] OTHER -> {}

MCAgenda == {{"unsynced", "ok"}, {"down", "late"}, {"sign"}, {"randao", "down"}, {"not leader"}, {"reorg", "late"}, {"wrong", "ok"}}
=============================================================================
