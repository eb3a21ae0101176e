------------------------------- MODULE Ceremony -------------------------------
(* The ceremonies that the operators of an initiator run together: distributed  *)
(* key generation (start_initiator with DKGMalicious), the two deposit          *)
(* signatures (minipool_deposit) and the exit (remove_initiator).  An operator  *)
(* executes one command of its table at a time; a ceremony is a session: a      *)
(* committee of channels to all the others, then rounds in which a party sends  *)
(* to all and waits for all.  A channel names the party at its other end and    *)
(* nothing else, so it may join sessions of different commands.  A party whose  *)
(* peer is gone panics in recv, which ends its command loop until a restart.    *)
EXTENDS Naturals, Sequences, FiniteSets

CONSTANTS
    Party,              \* the operators, with the ids that decide who connects to whom
    Threshold,          \* signatures that make a signature of the validator
    Initiators,         \* the registered initiators, in the order of the chain
    Agenda,             \* bound: the sets of unusual events, each of which may happen once
    None

ASSUME CeremonyAssumption ==
    /\ Party \subseteq Nat \ {0} /\ IsFiniteSet(Party)
    /\ Threshold \in 1 .. Cardinality(Party)

VARIABLES
    plan,               \* the unusual events still to come
    fired,              \* history: the ones that have happened
    queue,              \* contract_commands of every operator, next command first
    loop,               \* process_contract_command: idle, busy, or dead after a panic
    session,            \* history: the sessions of every operator, the newest last
    store,              \* table initiator_store: the key of every initiator
    web,                \* what the web server has received
    chain               \* how far the contract is with every initiator

vars == <<plan, fired, queue, loop, session, store, web, chain>>

Initiator == {Initiators[k] : k \in DOMAIN Initiators}

Cmd(i, kind, key) == [init |-> i, kind |-> kind, key |-> key]

Init ==
    /\ plan \in Agenda
    /\ fired = {}
    /\ queue = [p \in Party |-> [k \in DOMAIN Initiators |-> Cmd(Initiators[k], "dkg", None)]]
    /\ loop = [p \in Party |-> "idle"]
    /\ session = [p \in Party |-> << >>]
    /\ store = [p \in Party |-> [i \in Initiator |-> None]]
    /\ web = {}
    /\ chain = [i \in Initiator |-> "registered"]

Event(e) == e \in plan /\ plan' = plan \ {e} /\ fired' = fired \union {e}

NoEvent == UNCHANGED <<plan, fired>>
------------------------------------------------------------------------------
(* What ends a command. *)

Number(p) == Len(session[p])

Current(p) == session[p][Number(p)]

Update(p, s) == session' = [session EXCEPT ![p][Number(p)] = s]

\* Success and error alike delete the command; the channels are closed.
Finish(p) ==
    /\ Update(p, [Current(p) EXCEPT !.ended = TRUE])
    /\ queue' = [queue EXCEPT ![p] = Tail(@)]
    /\ loop' = [loop EXCEPT ![p] = "idle"]

Fails(p) == Finish(p) /\ UNCHANGED <<store, web>>

Panics(p) ==
    /\ Update(p, [Current(p) EXCEPT !.ended = TRUE])
    /\ loop' = [loop EXCEPT ![p] = "dead"]
    /\ UNCHANGED <<queue, store, web>>

Goes(p, s) ==
    /\ Update(p, s)
    /\ UNCHANGED <<queue, loop, store, web>>
------------------------------------------------------------------------------
(* The committee. *)

NewSession(p, c) ==
    [cmd |-> c, stage |-> 1, ended |-> FALSE, cheated |-> {},
     peer |-> [q \in Party |-> IF q = p THEN Number(p) + 1 ELSE 0]]

\* start_initiator, minipool_deposit: the addresses of all operators are needed, and a
\* deposit needs a stored key.
StartCeremony(p) ==
    /\ loop[p] = "idle" /\ queue[p] /= << >>
    /\ LET c == Head(queue[p]) IN
        /\ c.kind /= "remove"
        /\ \/ /\ NoEvent
              /\ c.kind /= "dkg" => store[p][c.init] /= None
              /\ session' = [session EXCEPT ![p] = Append(@, NewSession(p, c))]
              /\ loop' = [loop EXCEPT ![p] = "busy"]
              /\ UNCHANGED queue
           \/ /\ (NoEvent /\ c.kind /= "dkg" /\ store[p][c.init] = None) \/ Event("lookup")
              /\ queue' = [queue EXCEPT ![p] = Tail(@)]
              /\ UNCHANGED <<session, loop>>
    /\ UNCHANGED <<store, web, chain>>

\* The command of a removal carries no operators (query_initiator), so its committee
\* is empty and no signature is aggregated; a missing address is unwrapped.
RemoveInitiator(p) ==
    /\ loop[p] = "idle" /\ queue[p] /= << >>
    /\ Head(queue[p]).kind = "remove"
    /\ \/ NoEvent /\ queue' = [queue EXCEPT ![p] = Tail(@)] /\ UNCHANGED loop
       \/ Event("lookup") /\ loop' = [loop EXCEPT ![p] = "dead"] /\ UNCHANGED queue
    /\ UNCHANGED <<session, store, web, chain>>

Listening(p) == loop[p] = "busy" /\ Current(p).stage \in {1, 2}

\* The party with the larger id connects and names itself.  The other side files the
\* connection under that id, in place of an earlier one that it has not taken yet.
Connect(q, p) ==
    /\ p < q
    /\ loop[q] = "busy" /\ Current(q).stage = 1 /\ Current(q).peer[p] = 0
    /\ Listening(p)
    /\ \E taken \in BOOLEAN :
        /\ taken => Current(p).peer[q] /= 0
        /\ Current(p).stage = 2 => taken
        /\ session' = [session EXCEPT
            ![q][Number(q)].peer[p] = Number(p),
            ![p][Number(p)].peer[q] = IF taken THEN @ ELSE Number(q)]
    /\ UNCHANGED <<plan, fired, queue, loop, store, web, chain>>

\* The session at the other end of p's channel to q.
Other(p, q) == session[q][Current(p).peer[q]]

Joined(p, q) == Other(p, q).peer[p] = Number(p)

\* recv: what q has sent in this round has arrived, or never will.
Received(p, q) == Joined(p, q) /\ Other(p, q).stage >= Current(p).stage

Closed(p, q) ==
    /\ ~Received(p, q)
    /\ Other(p, q).ended \/ (~Joined(p, q) /\ Other(p, q).stage > 2)

\* After the channel keys, a payload of key generation is no signature and vice versa.
Readable(p, q) ==
    Current(p).stage > 3 => (Other(p, q).cmd.kind = "dkg" <=> Current(p).cmd.kind = "dkg")

Others(p) == Party \ {p}

InRound(p) == loop[p] = "busy" /\ Current(p).stage \in 2 .. 7

AllReceived(p) == InRound(p) /\ \A q \in Others(p) : Received(p, q) /\ Readable(p, q)

\* recv and from_bytes panic.
RecvPanics(p) ==
    /\ InRound(p)
    /\ \E q \in Others(p) : Closed(p, q) \/ (Received(p, q) /\ ~Readable(p, q))
    /\ Panics(p)
    /\ UNCHANGED <<plan, fired, chain>>


BuildCommittee(p) ==
    /\ \/ loop[p] = "busy" /\ Current(p).stage = 1 /\ \A q \in Party : Current(p).peer[q] /= 0
       \/ AllReceived(p) /\ Current(p).stage = 2
    /\ Goes(p, [Current(p) EXCEPT !.stage = @ + 1])
    /\ UNCHANGED <<plan, fired, chain>>
------------------------------------------------------------------------------
(* DKGMalicious::run. *)

At(p, kinds, stage) == AllReceived(p) /\ Current(p).cmd.kind \in kinds /\ Current(p).stage = stage

\* share_generation, share_transmission: a corrupted party gives one of the others a
\* share that does not fit its commitment.
SendShares(p) ==
    /\ At(p, {"dkg"}, 3)
    /\ \/ NoEvent /\ Goes(p, [Current(p) EXCEPT !.stage = 4])
       \/ /\ Event("share")
          /\ \E q \in Others(p) : Goes(p, [Current(p) EXCEPT !.stage = 4, !.cheated = {q}])
    /\ UNCHANGED chain

\* share_verification, exchange_verification_results, issude_dispute_claim.
Accuses_Smaller(p, s) == {q \in Party : q < p /\ p \in session[q][s.peer[q]].cheated}

Accuses(p, s) == {q \in Party \ {p} : p \in session[q][s.peer[q]].cheated}

SendResults(p) ==
    /\ At(p, {"dkg"}, 4)
    /\ Goes(p, [Current(p) EXCEPT !.stage = 5])
    /\ UNCHANGED <<plan, fired, chain>>

\* verify_dispute_claim asks for a channel of the party to itself when it is the
\* accused one.  A valid claim, its own included, is an error.
Disputed(p) == {q \in Party : \E r \in Party : q \in Accuses(r, session[r][Current(p).peer[r]])}

Judge(p) ==
    /\ At(p, {"dkg"}, 5)
    /\ CASE p \in Disputed(p) -> Panics(p)
         [] p \notin Disputed(p) /\ Disputed(p) /= {} -> Fails(p)
         [] OTHER -> Goes(p, [Current(p) EXCEPT !.stage = 6])
    /\ UNCHANGED <<plan, fired, chain>>

\* exchange_public_keys.
SendGroupKey(p) ==
    /\ At(p, {"dkg"}, 6)
    /\ Goes(p, [Current(p) EXCEPT !.stage = 7])
    /\ UNCHANGED <<plan, fired, chain>>

Receipt(p, key) == [party |-> p, init |-> Current(p).cmd.init, kind |-> Current(p).cmd.kind, key |-> key]

\* request_to_web_server gives up after three attempts and reports success.
Request(p, key) ==
    \/ NoEvent /\ web' = web \union {Receipt(p, key)}
    \/ Event("web") /\ UNCHANGED web

\* exchange_group_public_keys: the key of a party fits the polynomials that this party
\* holds exactly if both hold the same ones.  The key is then sent to the web server.
ReportKey(p) ==
    /\ At(p, {"dkg"}, 7)
    /\ IF \A q \in Others(p) : Other(p, q).peer = Current(p).peer
       THEN /\ Request(p, Current(p).peer)
            /\ Update(p, [Current(p) EXCEPT !.stage = 8])
            /\ UNCHANGED <<queue, loop, store>>
       ELSE Fails(p) /\ NoEvent
    /\ UNCHANGED chain

StoreKey_OneRow(p) ==
    /\ loop[p] = "busy" /\ Current(p).stage = 8
    /\ store' = [store EXCEPT ![p] =
                    [i \in Initiator |-> IF i = Current(p).cmd.init THEN Current(p).peer ELSE None]]
    /\ Finish(p)
    /\ UNCHANGED <<plan, fired, web, chain>>

\* insert_initiator_store, after the web server was told.
StoreKey(p) ==
    /\ loop[p] = "busy" /\ Current(p).stage = 8
    /\ store' = [store EXCEPT ![p][Current(p).cmd.init] = Current(p).peer]
    /\ Finish(p)
    /\ UNCHANGED <<plan, fired, web, chain>>
------------------------------------------------------------------------------
(* minipool_deposit, SimpleDistributedSigner::sign. *)

Deposits == {"created", "ready"}

\* The key of the contract must be the stored one; then a beacon node is asked for the
\* genesis, and the signature is sent.
SendSignature(p) ==
    /\ At(p, Deposits, 3)
    /\ \/ /\ NoEvent
          /\ IF Current(p).cmd.key = store[p][Current(p).cmd.init]
             THEN Goes(p, [Current(p) EXCEPT !.stage = 4])
             ELSE Fails(p)
       \/ Event("beacon node") /\ Fails(p)
    /\ UNCHANGED chain

\* threshold_aggregate: the signatures that verify under the stored shares.
Valid(p) == {q \in Party : Other(p, q).cmd = Current(p).cmd}

Aggregate(p) ==
    /\ At(p, Deposits, 4)
    /\ IF Cardinality(Valid(p)) >= Threshold
       THEN Request(p, Current(p).cmd.key) /\ Finish(p) /\ UNCHANGED store
       ELSE Fails(p) /\ NoEvent
    /\ UNCHANGED chain
------------------------------------------------------------------------------
(* The contract and the faults. *)

Announce(i, kind, key) ==
    /\ queue' = [p \in Party |-> Append(queue[p], Cmd(i, kind, key))]
    /\ chain' = [chain EXCEPT ![i] = kind]
    /\ UNCHANGED <<loop, session, store, web>>

\* The web server passes a key on when all operators have sent the same one.
MinipoolCreated(i) ==
    /\ chain[i] = "registered"
    /\ \E r \in web :
        /\ r.init = i /\ \A p \in Party : [r EXCEPT !.party = p] \in web
        /\ Announce(i, "created", r.key)
    /\ NoEvent

MinipoolReady(i) ==
    /\ chain[i] = "created"
    /\ \E r \in web : r.init = i /\ r.kind = "created" /\ Announce(i, "ready", r.key)
    /\ NoEvent

InitiatorRemoved(i) ==
    /\ chain[i] = "ready"
    /\ Event("remove")
    /\ Announce(i, "remove", None)

\* The process stops and starts again.  The command in execution has the newest
\* update_time, so the commands of the other initiators may go first.
Crash(p) ==
    /\ Event("crash")
    /\ loop' = [loop EXCEPT ![p] = "idle"]
    /\ IF loop[p] = "idle" THEN UNCHANGED queue
       ELSE queue' \in {queue, [queue EXCEPT ![p] = Append(Tail(@), Head(@))]}
    /\ IF loop[p] = "busy" THEN Update(p, [Current(p) EXCEPT !.ended = TRUE]) ELSE UNCHANGED session
    /\ UNCHANGED <<store, web, chain>>

Step(p) ==
    \/ StartCeremony(p) \/ RemoveInitiator(p) \/ (\E q \in Party : Connect(p, q))
    \/ RecvPanics(p) \/ BuildCommittee(p)
    \/ SendShares(p) \/ SendResults(p) \/ Judge(p) \/ SendGroupKey(p) \/ ReportKey(p) \/ StoreKey(p)
    \/ SendSignature(p) \/ Aggregate(p)

Contract == \E i \in Initiator : MinipoolCreated(i) \/ MinipoolReady(i) \/ InitiatorRemoved(i)

Next == Contract \/ \E p \in Party : Step(p) \/ Crash(p)

\* As long as an operator or the contract can go on, one of them does.
Spec == Init /\ [][Next]_vars /\ WF_vars(Contract \/ \E p \in Party : Step(p))
------------------------------------------------------------------------------
\* A key in initiator_store is a key that all operators have: each of them was in the
\* same session with the same polynomials, got past the disputes, and no share in it
\* was bad; whatever crashed, panicked or reconnected in between.
StoredKeyIsShared ==
    \A p \in Party, i \in Initiator : LET key == store[p][i] IN
        key /= None => \A q \in Party :
            /\ session[q][key[q]].peer = key
            /\ session[q][key[q]].stage >= 7
            /\ session[q][key[q]].cheated = {}

\* The web server is told before the key is stored, and still a crash costs one share at
\* most: when the web server can announce a key, every operator but a crashed one has it in
\* its store or is about to put it there.
AnnouncedKeyIsKept ==
    \A r \in web :
        r.kind = "dkg" /\ (\A p \in Party : [r EXCEPT !.party = p] \in web) =>
            LET Without == {q \in Party :
                    /\ store[q][r.init] /= r.key
                    /\ ~(loop[q] = "busy" /\ Current(q).stage = 8 /\ Current(q).peer = r.key)}
            IN  Cardinality(Without) <= IF "crash" \in fired THEN 1 ELSE 0


\* "DKG requests are created and processed one by one sequentially": operators that
\* hold a key together hold it for the same initiator.
KeyOfOneInitiator ==
    \A p, q \in Party, i, j \in Initiator :
        store[p][i] /= None /\ store[p][i] = store[q][j] => i = j
==============================================================================
