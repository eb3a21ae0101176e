------------------------------ MODULE MCHotStuff ------------------------------
(* The timers and the blocks of the HotStuff instances for TLC. *)
EXTENDS HotStuffInv

AllTimers == Node \X (1 .. MaxRound - 1)

NoTimers == {}

\* The blocks of at most three rounds that an instance can build.
SmallBlocks ==
    {b \in UNION {[1 .. k -> [round : 1 .. MaxRound, payload : Payload]] : k \in 0 .. 3} :
        \A i \in 1 .. Len(b) - 1 : b[i].round < b[i + 1].round}

\* The inductive invariant behind Agreement, over the blocks of the instance: in
\* particular no vote that handle_proposal casts bypasses a block that could
\* still get a quorum, and every TC stands for timeouts of a quorum.
InductiveInvariant == IInv(SmallBlocks)
==============================================================================
