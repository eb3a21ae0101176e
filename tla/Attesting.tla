------------------------------ MODULE Attesting ------------------------------
(* The attestations of a validator client: the polling of attester duties      *)
(* (validation/duties_service.rs), the attestation service                     *)
(* (validation/attestation_service.rs) and sign_attestation of the validator   *)
(* store, beside the doppelganger protection that says which keys may sign.    *)
(* The slashing protection database and the beacon nodes are external.         *)
EXTENDS Doppelganger

CONSTANTS
    DutySlot(_, _, _),          \* DutySlot(v, e, r): the slot of v in epoch e on the branch r
    Aggregator,                 \* the keys that a selection proof makes aggregators
    HistoricalDutiesEpochs,     \* HISTORICAL_DUTIES_EPOCHS
    HistoryEpochs               \* SLASHING_PROTECTION_HISTORY_EPOCHS

VARIABLES
    branch,             \* the dependent root of the duties, on the beacon node
    attesters,          \* attesters[v]: a function from epochs to [root, slot, proof]
    poll,               \* the poll_beacon_attesters in progress
    polled,             \* the slot in which the last poll was due
    spawned,            \* the slot in which the last attestation tasks were due
    job,                \* the publish_attestations_and_aggregates tasks: a function from slots
    protection,         \* slashing protection: the target epochs in the database
    last_prune,         \* slashing_protection_last_prune
    signed,             \* history: the signed attestations [key, slot]
    aggregated          \* history: the signed aggregates [key, slot]

duties == <<branch, attesters, poll, polled>>
tasks == <<spawned, job, protection, last_prune, signed, aggregated>>
vars == <<client, duties, tasks>>

NoPoll == [stage |-> "idle", slot |-> 0, epoch |-> 0, keys |-> {}, root |-> 0, fresh |-> {}]

Empty == [e \in {} |-> e]

Init ==
    /\ DoppelgangerInit
    /\ branch = 0
    /\ attesters = [v \in Validator |-> Empty]
    /\ poll = NoPoll /\ polled = slot
    /\ spawned = slot /\ job = Empty
    /\ protection = [v \in Validator |-> {}]
    /\ last_prune = Epoch(slot)
    /\ signed = {} /\ aggregated = {}

-----------------------------------------------------------------------------
(* The duties.                                                                 *)

\* The head moves to another branch, which changes the dependent root.
Reorg ==
    /\ Event("reorg")
    /\ branch' = branch + 1
    /\ UNCHANGED <<slot, part, voting, index, service, plan, attesters, poll, polled, tasks>>

\* poll_beacon_attesters: the keys and their indices are read once, for both epochs.
StartPoll ==
    /\ polled /= slot /\ poll.stage = "idle"
    /\ polled' = slot
    /\ poll' = [NoPoll EXCEPT !.stage = "fetch", !.slot = slot, !.epoch = Epoch(slot),
                              !.keys = KnownKeys \cap index]
    /\ UNCHANGED <<client, branch, attesters, tasks>>

Retain(map, e) == [k \in {k \in DOMAIN map : k + HistoricalDutiesEpochs >= e} |-> map[k]]


\* The end of the work for one epoch: the next epoch, or the pruning of old duties (the
\* subscriptions of the subnets before it change nothing here).
FinishEpoch(map) ==
    IF poll.epoch = Epoch(poll.slot)
    THEN /\ poll' = [poll EXCEPT !.stage = "fetch", !.epoch = @ + 1, !.fresh = {}]
         /\ attesters' = map
    ELSE /\ poll' = NoPoll
         /\ attesters' = [v \in Validator |-> Retain(map[v], Epoch(poll.slot))]

\* The first half of poll_beacon_attesters_for_epoch: the download, and the duties that are new
\* or whose dependent root has changed.
DownloadDuties ==
    /\ poll.stage = "fetch"
    /\ \/ /\ poll.keys /= {}
          /\ LET fresh == {v \in poll.keys : poll.epoch \in DOMAIN attesters[v] =>
                                                attesters[v][poll.epoch].root /= branch}
             IN  poll' = [poll EXCEPT !.stage = "proofs", !.root = branch, !.fresh = fresh]
          /\ UNCHANGED <<attesters, events>>
       \/ poll.keys = {} /\ FinishEpoch(attesters) /\ UNCHANGED events
       \/ Event("duties") /\ FinishEpoch(attesters)
    /\ UNCHANGED <<slot, part, voting, index, service, plan, branch, polled, tasks>>

NewDuty(v) == [root |-> poll.root, slot |-> DutySlot(v, poll.epoch, poll.root), proof |-> v \in Aggregator]

\* The second half: the selection proofs are awaited together; a key without one
\* gets no duty, and the next poll tries again.
InsertDuties ==
    /\ poll.stage = "proofs"
    /\ \E proved \in SUBSET poll.fresh :
          /\ IF proved = poll.fresh THEN UNCHANGED events ELSE Event("proof")
          /\ FinishEpoch([v \in Validator |->
                IF v \in proved
                THEN [e \in DOMAIN attesters[v] \cup {poll.epoch} |->
                          IF e = poll.epoch THEN NewDuty(v) ELSE attesters[v][e]]
                ELSE attesters[v]])
    /\ UNCHANGED <<slot, part, voting, index, service, plan, branch, polled, tasks>>

-----------------------------------------------------------------------------
(* The attestations.                                                           *)

\* DutiesService::attesters
Attesters(s) ==
    {v \in SafeKeys : Epoch(s) \in DOMAIN attesters[v] /\ attesters[v][Epoch(s)].slot = s}

\* spawn_attestation_tasks, a third into the slot; the members keep the duty they have now.
SpawnAttestationTasks ==
    /\ part >= 1 /\ spawned /= slot
    /\ spawned' = slot
    /\ job' = IF Attesters(slot) = {} THEN job
              ELSE [s \in DOMAIN job \cup {slot} |->
                      IF s = slot
                      THEN [stage     |-> "data",
                            members   |-> Attesters(slot),
                            selected  |-> {v \in Attesters(slot) : attesters[v][Epoch(slot)].proof}]
                      ELSE job[s]]
    /\ UNCHANGED <<client, duties, protection, last_prune, signed, aggregated>>

\* check_and_insert_attestation: a target epoch is used once, and never one
\* below those the database still has.
SafeTarget(v, e) == e \notin protection[v] /\ (protection[v] /= {} => \E k \in protection[v] : k < e)

\* The slashing protection is left to the beacon node.
MaySign_NoRecord(v, s) == OnlySafe(v) /\ v \in voting

\* sign_attestation up to the signature: the slashing protection comes first.
MaySign(v, s) == SafeTarget(v, Epoch(s)) /\ OnlySafe(v) /\ v \in voting

Without(s) == [k \in DOMAIN job \ {s} |-> job[k]]

\* produce_and_publish_attestations up to the signatures.
ProduceAttestations(s) ==
    /\ job[s].stage = "data"
    /\ \/ LET signers == {v \in job[s].members : MaySign(v, s)}
          IN  /\ protection' = [v \in Validator |->
                     IF v \in job[s].members /\ SafeTarget(v, Epoch(s))
                     THEN protection[v] \cup {Epoch(s)} ELSE protection[v]]
              /\ signed' = signed \cup {[key |-> v, slot |-> s] : v \in signers}
              /\ job' = IF signers = {} THEN Without(s)
                        ELSE [job EXCEPT ![s].stage = "publish", ![s].members = signers]
              /\ UNCHANGED events
       \/ Event("data") /\ job' = Without(s) /\ UNCHANGED <<protection, signed>>
    /\ UNCHANGED <<slot, part, voting, index, service, plan, duties, spawned, last_prune, aggregated>>

\* The signatures arrive and are posted, successfully or not; the aggregates come next.
PublishAttestationsAndAggregates(s) ==
    /\ job[s].stage = "publish"
    /\ job' = [job EXCEPT ![s].stage = "aggregate"]
    /\ UNCHANGED <<client, duties, spawned, protection, last_prune, signed, aggregated>>

\* produce_and_publish_aggregates, two thirds into the slot: the selected keys that may
\* sign make an aggregate.  Nothing is tried again when a step fails.
ProduceAggregates(s) ==
    /\ job[s].stage = "aggregate" /\ (slot > s \/ part = 2)
    /\ job' = Without(s)
    /\ aggregated' = aggregated \cup {[key |-> v, slot |-> s] :
                           v \in {v \in job[s].selected : OnlySafe(v) /\ v \in voting}}
    /\ UNCHANGED <<client, duties, spawned, protection, last_prune, signed>>

\* spawn_slashing_protection_pruning_task, with the other tasks of a slot.
PruneDue == part = 2 /\ spawned = slot

\* prune_slashing_protection_db
Prune ==
    /\ PruneDue
    /\ Epoch(slot) \div HistoryEpochs > last_prune \div HistoryEpochs
    /\ last_prune' = Epoch(slot)
    /\ protection' = [v \in Validator |->
          IF v \in KnownKeys
          THEN {k \in protection[v] : k + HistoryEpochs >= Epoch(slot)
                                        \/ \A o \in protection[v] : o <= k}
          ELSE protection[v]]
    /\ UNCHANGED <<client, duties, spawned, job, signed, aggregated>>

-----------------------------------------------------------------------------

\* Work that the services should have done by the end of the slot.
Overdue ==
    DetectionDue \/ polled /= slot \/ poll.stage /= "idle" \/ spawned /= slot \/ DOMAIN job /= {}

\* Time passes.  That a service has not finished when its slot ends counts as a
\* fault; within the slot nothing is promised.
Clock(overdue) ==
    /\ \/ part < 2 /\ part' = part + 1 /\ UNCHANGED <<slot, events>>
       \/ /\ part = 2 /\ slot < plan.last
          /\ part' = 0 /\ slot' = slot + 1
          /\ IF overdue THEN Event("late") ELSE UNCHANGED events
    /\ UNCHANGED <<voting, index, service, plan>>

Tick == Clock(Overdue) /\ UNCHANGED <<duties, tasks>>

Store ==
    /\ \/ \E v \in Validator : OtherActs(v) \/ RemoveValidator(v) \/ AddValidator(v) \/ StartValidator(v)
       \/ PollValidatorIndices \/ Detection
    /\ UNCHANGED <<duties, tasks>>

Next ==
    \/ Store \/ Tick \/ Reorg
    \/ StartPoll \/ DownloadDuties \/ InsertDuties
    \/ SpawnAttestationTasks \/ Prune
    \/ \E s \in DOMAIN job : \/ ProduceAttestations(s) \/ PublishAttestationsAndAggregates(s)
                             \/ ProduceAggregates(s)

Spec == Init /\ [][Next]_vars

-----------------------------------------------------------------------------

\* The keys and the tables have their types, and a task has members.
TypeOK ==
    /\ slot \in plan.start..plan.last /\ part \in 0..2 /\ index \subseteq voting /\ voting \subseteq Validator
    /\ \A v \in Validator : \A e \in DOMAIN attesters[v] : Epoch(attesters[v][e].slot) = e
    /\ \A s \in DOMAIN job : job[s].members /= {} /\ job[s].selected \subseteq Validator

\* A key attests once in an epoch, although a re-org may give it a second duty
\* there after the first is done, tasks may end late, old records are pruned and
\* the key may be removed and added again meanwhile.
AttestOnce ==
    \A a, b \in signed : a.key = b.key /\ Epoch(a.slot) = Epoch(b.slot) => a = b

=============================================================================
