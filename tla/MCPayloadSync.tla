---------------------------- MODULE MCPayloadSync ----------------------------
(* Two blocks that name a common batch, of rounds 2 and 4. *)
EXTENDS PayloadSync

MCBlock == {"b2", "b4"}

MCBatch == {"x", "y"}

MCRound == [b2 |-> 2, b4 |-> 4]

MCPayload == [b2 |-> {"x"}, b4 |-> {"x", "y"}]

MCRounds == 2 .. 4
==============================================================================
