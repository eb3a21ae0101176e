---------------------------- MODULE HotStuffRestart ----------------------------
(***************************************************************************)
(* HotStuff with operators that restart.  The committee address monitor    *)
(* restarts a validator when an operator's address changes, and the        *)
(* process may be restarted: Core::spawn starts a new Core on the old      *)
(* store, reading nothing back from it.                                    *)
(***************************************************************************)
EXTENDS HotStuff

\* The Core of n is replaced by a new one; the leader of round 1 proposes.
Restart(n) ==
    /\ n \in Active
    /\ core' = [core EXCEPT ![n] = InitCore]
    /\ \E new \in ProposalsOf(n, InitCore, NoTC) : proposals' = proposals \cup new
    /\ UNCHANGED <<store, tx_commit, committed, votes, timeouts, tcs>>

RestartSpec == Init /\ [][Next \/ \E n \in Node : Restart(n)]_vars

==============================================================================
