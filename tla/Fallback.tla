------------------------------ MODULE Fallback ------------------------------
(* The beacon nodes of a validator client and the request that tries them in   *)
(* turn (validation/beacon_node_fallback.rs, check_synced.rs).  The status of  *)
(* a node is a cached opinion: a request that fails sets it offline, and two   *)
(* kinds of refresh write what they have read some time ago.                   *)
EXTENDS Naturals, Sequences

CONSTANTS
    Candidates,         \* the beacon nodes in the order in which they are tried
    None

Node == {Candidates[i] : i \in DOMAIN Candidates}

VARIABLES
    health,             \* the nodes as they are: "ok", "unsynced", "wrong" (another network), "down"
    good,               \* history: good[b], the requirements b has met all the time
    status,             \* the status of the candidates
    refresh             \* the results of update_unready_candidates that are not written yet

fallback == <<health, good, status, refresh>>

FallbackInit ==
    /\ health \in [Node -> {"ok", "unsynced"}]
    /\ good = [b \in Node |-> IF health[b] = "ok" THEN {TRUE, FALSE} ELSE {FALSE}]
    /\ status = [b \in Node |-> "Uninitialized"]
    /\ refresh = [b \in Node |-> None]

\* check_synced, of a node that answers and belongs to the network.
CheckSynced(b) == IF health[b] = "unsynced" THEN "NotSynced" ELSE "ok"

\* is_online, is_compatible and is_synced, in this order
Observed(b) ==
    CASE health[b] = "down" -> "Offline"
      [] health[b] = "wrong" -> "Incompatible"
      [] OTHER -> CheckSynced(b)

\* A node answers requests unless it is down, and is not fit for them when it is wrong.
Answers(b) == health[b] \in {"ok", "unsynced"}

\* The environment: a node becomes h.
NodeBecomes(b, h) ==
    /\ health[b] /= h
    /\ health' = [health EXCEPT ![b] = h]
    /\ good' = [good EXCEPT ![b] = CASE h = "ok" -> @ [] h = "unsynced" -> @ \ {TRUE} [] OTHER -> {}]
    /\ UNCHANGED <<status, refresh>>

\* update_unready_candidates: a node that is not known to be ready is examined,
UpdateUnready(b) ==
    /\ status[b] /= "ok" /\ refresh[b] = None
    /\ refresh' = [refresh EXCEPT ![b] = Observed(b)]
    /\ UNCHANGED <<health, good, status>>

\* and refresh_status writes what it found, whatever was written meanwhile.
WriteStatus(b) ==
    /\ refresh[b] /= None
    /\ status' = [status EXCEPT ![b] = refresh[b]]
    /\ refresh' = [refresh EXCEPT ![b] = None]
    /\ UNCHANGED <<health, good>>

-----------------------------------------------------------------------------
(* first_success.  A call has the rest of its current pass, the candidates it  *)
(* keeps for the second and the third pass, whether the first of the third was  *)
(* found ready, and the nodes it has tried.                                     *)

NewCall(synced) ==
    [synced |-> synced, pass |-> 1, todo |-> Candidates, unsynced |-> <<>>, retry |-> <<>>,
     ready |-> FALSE, tried |-> {}]

NoCall == [NewCall(FALSE) EXCEPT !.pass = 3, !.todo = <<>>]

\* status(require_synced) is Ok
Usable(st, synced) == st = "ok" \/ (st = "NotSynced" /\ ~synced)

\* The nodes that are not ready are given up.
NextPass_NoRetry(c) ==
    IF c.todo /= <<>> \/ c.pass = 3 THEN c
    ELSE IF c.pass = 1 /\ c.unsynced /= <<>> THEN [c EXCEPT !.pass = 2, !.todo = c.unsynced]
    ELSE [c EXCEPT !.pass = 3, !.todo = <<>>]

\* The passes end: the second has the unsynced nodes, the third the others.
NextPass(c) ==
    IF c.todo /= <<>> \/ c.pass = 3 THEN c
    ELSE IF c.pass = 1 /\ c.unsynced /= <<>> THEN [c EXCEPT !.pass = 2, !.todo = c.unsynced]
    ELSE [c EXCEPT !.pass = 3, !.todo = c.retry]

Exhausted(c) == c.pass = 3 /\ c.todo = <<>>

\* The node that func is to be called with now.
MayTry(c) ==
    /\ c.todo /= <<>>
    /\ LET b == Head(c.todo)
       IN  CASE c.pass = 1 -> status[b] = "ok"
             [] c.pass = 2 -> TRUE
             [] OTHER -> c.ready \/ Usable(status[b], c.synced)

\* A node that is not tried now: it is kept for a later pass, or refreshed in the third.
Classified(c) ==
    LET b == Head(c.todo)
        rest == [c EXCEPT !.todo = Tail(@)]
    IN  IF c.pass = 1
        THEN IF Usable(status[b], c.synced)
             THEN NextPass([rest EXCEPT !.unsynced = Append(@, b)])
             ELSE NextPass([rest EXCEPT !.retry = Append(@, b)])
        ELSE IF Usable(Observed(b), c.synced) THEN [c EXCEPT !.ready = TRUE] ELSE rest

Classify(c) ==
    /\ c.todo /= <<>> /\ ~MayTry(c)
    /\ status' = IF c.pass = 3 THEN [status EXCEPT ![Head(c.todo)] = Observed(Head(c.todo))] ELSE status
    /\ UNCHANGED <<health, good, refresh>>

\* func has failed on the node: OfflineOnFailure::Yes.
FailedOn(c) == NextPass([c EXCEPT !.todo = Tail(@), !.ready = FALSE, !.tried = @ \cup {Head(c.todo)}])

SetOffline(b) ==
    /\ status' = [status EXCEPT ![b] = "Offline"]
    /\ UNCHANGED <<health, good, refresh>>

\* A call that has failed has tried every node that met its requirement all the
\* time, whatever the cached status of the node was when the call looked at it.
TriedAllGood(c) == Exhausted(c) => \A b \in Node : c.synced \in good[b] => b \in c.tried
=============================================================================
