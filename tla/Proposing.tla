------------------------------ MODULE Proposing ------------------------------
(* Block proposals: the polling of proposer duties with its two notifications  *)
(* (validation/duties_service.rs), the block service (block_service.rs) that   *)
(* tries a blinded and then a full block, and sign_block of the validator      *)
(* store, over several beacon nodes.  The slashing protection database, the    *)
(* beacon nodes and the threshold signature are external.                      *)
EXTENDS Fallback, FiniteSets

CONSTANTS
    Validator,
    Proposer(_, _),     \* Proposer(s, r): the keys that propose in slot s on the branch r
    RequireSynced,      \* require_synced of the duties service
    PrivateTx,          \* private_tx_proposals
    SlotsPerEpoch,
    HistoricalDutiesEpochs,
    LastSlot,           \* bound: the last slot of an execution
    Agenda              \* bound: the sets of events each of which may happen once

Epoch(s) == s \div SlotsPerEpoch

ASSUME ProposingAssumption ==
    SlotsPerEpoch \in Nat \ {0} /\ LastSlot \in Nat /\ RequireSynced \in BOOLEAN /\ PrivateTx \in BOOLEAN

VARIABLES
    slot,               \* the slot clock
    branch,             \* the dependent root of the duties, on the beacon nodes
    proposers,          \* proposers: a function from epochs to [root, duties]
    poll,               \* the poll_beacon_proposers in progress
    polled,             \* the slot in which the last poll was due
    channel,            \* the notifications for the block service
    task,               \* the tasks of the block service: a function from <<key, slot, n>>
    started,            \* history: started[v][s], the tasks that were spawned
    protection,         \* slashing protection: the blocks [key, slot, block] in the database
    signed,             \* history: the blocks with a signature
    posted,             \* history: the blocks a beacon node has taken
    plan, events        \* the member of Agenda that is executed, and its events so far

duties == <<branch, proposers, poll, polled>>
blocks == <<task, started, protection, signed, posted>>
vars == <<fallback, slot, duties, channel, blocks, plan, events>>

Event(kind) == kind \in plan \ events /\ events' = events \cup {kind}

NoPoll == [stage |-> "idle", slot |-> 0, initial |-> {}, call |-> NoCall]

Empty == [e \in {} |-> e]

Init ==
    /\ FallbackInit
    /\ slot = 0 /\ branch = 0
    /\ proposers = Empty /\ poll = NoPoll /\ polled = 0
    /\ channel = <<>> /\ task = Empty
    /\ started = [v \in Validator |-> [s \in 0..LastSlot |-> 0]]
    /\ protection = {} /\ signed = {} /\ posted = {}
    /\ plan \in Agenda /\ events = {}

-----------------------------------------------------------------------------
(* poll_beacon_proposers.                                                      *)

\* block_proposers(s)
BlockProposers(map, s) ==
    IF Epoch(s) \in DOMAIN map THEN {v \in Validator : <<v, s>> \in map[Epoch(s)].duties} ELSE {}

\* notify_block_production_service
Notify(s, keys) == IF keys = {} THEN channel ELSE Append(channel, [slot |-> s, keys |-> keys])

\* The proposers in the cache are notified before the download.
StartPoll ==
    /\ polled /= slot /\ poll.stage = "idle"
    /\ polled' = slot
    /\ channel' = Notify(slot, BlockProposers(proposers, slot))
    /\ poll' = [stage |-> "download", slot |-> slot, initial |-> BlockProposers(proposers, slot),
                call  |-> NewCall(RequireSynced)]
    /\ UNCHANGED <<fallback, slot, branch, proposers, blocks, plan, events>>

ClassifyPoll ==
    /\ poll.stage = "download"
    /\ Classify(poll.call)
    /\ poll' = [poll EXCEPT !.call = Classified(@)]
    /\ UNCHANGED <<slot, branch, proposers, polled, channel, blocks, plan, events>>

\* Everybody with a duty is notified again.
Additional_All(map) == BlockProposers(map, poll.slot)

\* The keys to notify after the download: those the first notification did not have.
Additional(map) == BlockProposers(map, poll.slot) \ poll.initial

\* The end of the poll: the second notification and the pruning.
FinishPoll(map) ==
    /\ channel' = Notify(poll.slot, Additional(map))
    /\ proposers' = [e \in {e \in DOMAIN map : e + HistoricalDutiesEpochs >= Epoch(poll.slot)} |-> map[e]]
    /\ poll' = NoPoll

Downloaded ==
    LET e == Epoch(poll.slot)
        fresh == [root   |-> branch,
                  duties |-> {<<v, s>> \in Validator \X ((e * SlotsPerEpoch)..((e + 1) * SlotsPerEpoch - 1)) :
                                  v \in Proposer(s, branch)}]
    IN  [k \in DOMAIN proposers \cup {e} |-> IF k = e THEN fresh ELSE proposers[k]]

\* get_validator_duties_proposer on one node.
Download ==
    /\ poll.stage = "download" /\ MayTry(poll.call)
    /\ LET b == Head(poll.call.todo)
       IN  IF Answers(b)
           THEN FinishPoll(Downloaded) /\ UNCHANGED fallback
           ELSE /\ SetOffline(b)
                /\ poll' = [poll EXCEPT !.call = FailedOn(@)]
                /\ UNCHANGED <<channel, proposers>>
    /\ UNCHANGED <<slot, branch, polled, blocks, plan, events>>

\* Every node failed: the cached duties are used.
DownloadFails ==
    /\ poll.stage = "download" /\ Exhausted(poll.call)
    /\ FinishPoll(proposers)
    /\ UNCHANGED <<fallback, slot, branch, polled, blocks, plan, events>>

-----------------------------------------------------------------------------
(* The block service.                                                          *)

NewTask(payload) == [payload |-> payload, stage |-> "randao", call |-> NoCall, irrecoverable |-> FALSE]

\* do_update: a notification that is late is dropped, as is one for the genesis slot.
DoUpdate ==
    /\ channel /= <<>>
    /\ channel' = Tail(channel)
    /\ LET s == Head(channel).slot
           new == IF s /= slot \/ s = 0 THEN {} ELSE {<<v, s, started[v][s] + 1>> : v \in Head(channel).keys}
       IN  /\ task' = [t \in DOMAIN task \cup new |->
                          IF t \in new THEN NewTask(IF PrivateTx THEN "blinded" ELSE "full") ELSE task[t]]
           /\ started' = [v \in Validator |-> [n \in 0..LastSlot |->
                              IF n = s /\ \E t \in new : t[1] = v THEN started[v][n] + 1 ELSE started[v][n]]]
    /\ UNCHANGED <<fallback, slot, duties, protection, signed, posted, plan, events>>

End(t) == [k \in DOMAIN task \ {t} |-> task[k]]

\* What do_update does with the result of publish_block: a blinded block that was
\* not signed is followed by a full one.
Result(t, recoverable) ==
    IF task[t].payload = "blinded" /\ recoverable
    THEN [task EXCEPT ![t] = NewTask("full")]
    ELSE End(t)

\* The start of publish_block: randao_reveal.  An operator that is not the leader ends here.
RandaoReveal(t) ==
    /\ task[t].stage = "randao"
    /\ \/ task' = [task EXCEPT ![t].stage = "get", ![t].call = NewCall(FALSE)] /\ UNCHANGED events
       \/ Event("randao") /\ task' = Result(t, TRUE)
       \/ Event("not leader") /\ task' = End(t)
    /\ UNCHANGED <<fallback, slot, duties, channel, started, protection, signed, posted, plan>>

ClassifyTask(t) ==
    /\ task[t].stage = "get"
    /\ Classify(task[t].call)
    /\ task' = [task EXCEPT ![t].call = Classified(@)]
    /\ UNCHANGED <<slot, duties, channel, started, protection, signed, posted, plan, events>>

\* The block that a node makes for a task: nodes, payloads and branches differ.
BlockOf(t) ==
    [key |-> t[1], slot |-> t[2], block |-> <<Head(task[t].call.todo), task[t].payload, branch>>]

\* A block may replace one for the same slot.
SafeBlock_SameSlot(k) == \A o \in protection : o.key = k.key => o.slot <= k.slot

\* check_and_insert_block_proposal
SafeBlock(k) == \A o \in protection : o.key = k.key => o.slot < k.slot

\* One node makes the block; sign_block checks it before it asks for the signature.
GetBlock(t) ==
    /\ task[t].stage = "get" /\ MayTry(task[t].call)
    /\ LET b == Head(task[t].call.todo)
           k == BlockOf(t)
       IN  IF Answers(b) /\ t[1] \in Proposer(t[2], branch) /\ SafeBlock(k)
           THEN /\ task' = [task EXCEPT ![t].stage = "sign"]
                /\ protection' = protection \cup {k}
                /\ UNCHANGED fallback
           ELSE /\ task' = [task EXCEPT ![t].call = FailedOn(@)]
                /\ SetOffline(b)
                /\ UNCHANGED protection
    /\ UNCHANGED <<slot, duties, channel, started, signed, posted, plan, events>>

Mine(t) == CHOOSE k \in protection : k.key = t[1] /\ k.slot = t[2]

\* The signature arrives, or does not: the operator is not the leader or the
\* committee fails, which first_success takes for a failure of the node.
SignBlock(t) ==
    /\ task[t].stage = "sign"
    /\ \/ /\ task' = [task EXCEPT ![t].stage = "post"]
          /\ signed' = signed \cup {Mine(t)}
          /\ UNCHANGED <<status, events>>
       \/ /\ Event("sign")
          /\ task' = [task EXCEPT ![t].stage = "get", ![t].call = FailedOn(@)]
          /\ status' = [status EXCEPT ![Head(task[t].call.todo)] = "Offline"]
          /\ UNCHANGED signed
    /\ UNCHANGED <<health, good, refresh, slot, duties, channel, started, protection, posted, plan>>

\* The node that made the block takes it, or the block is lost.
PostBlock(t) ==
    /\ task[t].stage = "post"
    /\ LET b == Head(task[t].call.todo)
       IN  IF Answers(b)
           THEN /\ task' = End(t) /\ posted' = posted \cup {Mine(t)}
                /\ UNCHANGED fallback
           ELSE /\ task' = [task EXCEPT ![t].stage = "get", ![t].call = FailedOn(@), ![t].irrecoverable = TRUE]
                /\ SetOffline(b) /\ UNCHANGED posted
    /\ UNCHANGED <<slot, duties, channel, started, protection, signed, plan, events>>

\* No node is left: the error is irrecoverable if a signed block was lost.
PublishFails(t) ==
    /\ task[t].stage = "get" /\ Exhausted(task[t].call)
    /\ task' = Result(t, ~task[t].irrecoverable)
    /\ UNCHANGED <<fallback, slot, duties, channel, started, protection, signed, posted, plan, events>>

-----------------------------------------------------------------------------

Reorg ==
    /\ Event("reorg")
    /\ branch' = branch + 1
    /\ UNCHANGED <<fallback, slot, proposers, poll, polled, channel, blocks, plan>>

\* A node fails, falls behind or comes back.
NodeChanges ==
    /\ \E b \in Node, h \in {"ok", "unsynced", "wrong", "down"} : Event(h) /\ NodeBecomes(b, h)
    /\ UNCHANGED <<slot, duties, channel, blocks, plan>>

Update ==
    /\ \E b \in Node : UpdateUnready(b) \/ WriteStatus(b)
    /\ UNCHANGED <<slot, duties, channel, blocks, plan, events>>

\* The next slot begins; work of the last one that is not finished counts as an event.
Tick ==
    /\ slot < LastSlot
    /\ slot' = slot + 1
    /\ IF polled /= slot \/ poll.stage /= "idle" \/ channel /= <<>> \/ DOMAIN task /= {}
       THEN Event("late") ELSE UNCHANGED events
    /\ UNCHANGED <<fallback, duties, channel, blocks, plan>>

Next ==
    \/ Tick \/ Reorg \/ NodeChanges \/ Update
    \/ StartPoll \/ ClassifyPoll \/ Download \/ DownloadFails \/ DoUpdate
    \/ \E t \in DOMAIN task : \/ RandaoReveal(t) \/ ClassifyTask(t) \/ GetBlock(t) \/ SignBlock(t)
                              \/ PostBlock(t) \/ PublishFails(t)

Spec == Init /\ [][Next]_vars

-----------------------------------------------------------------------------

\* A key gets one task in a slot, although the duties are looked at before and
\* after the download, and the download may change them (the comment of
\* poll_beacon_proposers).
NotifiedOnce == \A v \in Validator : \A s \in 0..LastSlot : started[v][s] <= 1

\* A key signs one block in a slot, although the block service asks every node for
\* another block and falls back from a blinded to a full one.
SignedOnce == \A a, b \in signed : a.key = b.key /\ a.slot = b.slot => a = b

\* first_success fails only after it has tried every node that was fit all the time.
GoodNodesTried ==
    /\ poll.stage = "download" => TriedAllGood(poll.call)
    /\ \A t \in DOMAIN task : task[t].stage = "get" => TriedAllGood(task[t].call)

\* When the slot of a proposal is over, the block was posted, if some node was fit
\* all the time for the duties and the block, the committee signed, no work was
\* late, the duties did not move, and no node went down between making the block
\* and taking it.
ProposalLands ==
    events \subseteq {"ok", "unsynced"} /\ (\E b \in Node : RequireSynced \in good[b]) =>
        \A s \in 1..(slot - 1) : \A v \in Proposer(s, 0) : \E k \in posted : k.key = v /\ k.slot = s
=============================================================================
