----------------------------- MODULE MCBlockSync -----------------------------
(* A chain of three blocks and a second child of the first one. *)
EXTENDS BlockSync

MCBlock == {"b1", "b2", "b3", "c2"}

MCParent == [b1 |-> Genesis, b2 |-> "b1", b3 |-> "b2", c2 |-> "b1"]
==============================================================================
