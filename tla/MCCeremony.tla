------------------------------ MODULE MCCeremony ------------------------------
(* Three operators, two initiators and at most two faults, for TLC. *)
EXTENDS Ceremony

MCAgenda == {{"lookup", "remove"}, {"share"}, {"web"}, {"beacon node"}, {"crash"}}

MCInitiators == <<"i1", "i2">>
==============================================================================
