---------------------------- MODULE SyncCommittee ----------------------------
(* The sync committee duties of a validator client: the polling of the         *)
(* committees of this and the next period with the selection proofs that are   *)
(* computed ahead (validation/duties_service/sync.rs), and the service that    *)
(* signs, aggregates and subscribes (validation/sync_committee_service.rs).    *)
(* A message that is made in a slot is for the next slot, so the committee     *)
(* changes one slot before the period does.                                    *)
(*                                                                             *)
(* The services of a client share the clock and the keys, which they only      *)
(* read: an execution has the attestations or the sync committee.              *)
EXTENDS Attesting

CONSTANTS
    Subnets(_, _, _),   \* Subnets(v, p, r): where v is in the committee of period p on the branch r
    Selected(_, _, _),  \* Selected(v, s, n): the proof of v for slot s and subnet n makes it an aggregator
    EpochsPerPeriod,    \* epochs_per_sync_committee_period
    PreComputeEpochs,   \* AGGREGATION_PRE_COMPUTE_EPOCHS
    LookaheadEpochs     \* SUBSCRIPTION_LOOKAHEAD_EPOCHS

ASSUME SyncAssumption ==
    /\ EpochsPerPeriod \in Nat \ {0} /\ PreComputeEpochs \in Nat /\ LookaheadEpochs \in Nat
    /\ \A a \in Agenda : a.duty \in {"attesting", "sync"}

VARIABLES
    committees,         \* sync_duties: committees[p][v], the duty of a member, or None
    sync_poll,          \* the poll_sync_committee_duties in progress
    sync_polled,        \* the slot in which the last poll was due
    fills,              \* the fill_in_aggregation_proofs tasks
    contributed,        \* the slot in which the last contribution tasks were due
    publishing,         \* the tasks of a slot: [slot, subnet, keys]; None for the messages
    subscribing,        \* publish_subscriptions was spawned
    subscription_done,  \* first_subscription_done
    subscribed,         \* history: the subscriptions a beacon node has, [key, until]
    messages            \* history: what was posted, [key, slot, subnet]

duties_map == <<committees, sync_poll, sync_polled, fills>>
publication == <<contributed, publishing, subscribing, subscription_done, subscribed, messages>>
clientVars == <<vars, duties_map, publication>>

\* What the sync committee only reads.
read_only == <<slot, part, voting, index, service, plan, duties, tasks>>

Period(e) == e \div EpochsPerPeriod
FirstEpoch(p) == p * EpochsPerPeriod
LastEpoch(p) == FirstEpoch(p + 1) - 1

Least(a, b) == IF a < b THEN a ELSE b
Greatest(a, b) == IF a > b THEN a ELSE b

NoSyncPoll == [stage |-> "idle", epoch |-> 0, keys |-> {}]

ClientInit ==
    /\ Init
    /\ committees = Empty
    /\ sync_poll = NoSyncPoll /\ sync_polled = None
    /\ fills = {}
    /\ contributed = slot /\ publishing = {}
    /\ subscribing = FALSE /\ subscription_done = FALSE
    /\ subscribed = {} /\ messages = {}

-----------------------------------------------------------------------------
(* The duties.                                                                 *)

\* poll_sync_committee_duties: the keys and the epoch are read once.
StartSyncPoll ==
    /\ sync_polled /= slot /\ sync_poll.stage = "idle"
    /\ sync_polled' = slot
    /\ sync_poll' = [stage |-> "current", epoch |-> Epoch(slot), keys |-> KnownKeys \cap index]
    /\ UNCHANGED <<read_only, events, committees, fills, publication>>

AllDutiesKnown(p, keys) == p \in DOMAIN committees /\ keys \subseteq DOMAIN committees[p]

\* ValidatorDuties::new
NewDuties(v, p) == [subnets |-> Subnets(v, p, branch), pre_compute_epoch |-> None, proofs |-> {}]

\* poll_sync_committee_duties_for_period: the answer has the members.  A member whose
\* place is new or has changed starts anew; the other keys are marked as known.
Fetched(p, keys) ==
    LET old == IF p \in DOMAIN committees THEN committees[p] ELSE Empty
        kept(v) == IF v \in DOMAIN old THEN old[v] ELSE None
        changed(v) == kept(v) = None \/ kept(v).subnets /= Subnets(v, p, branch)
        new == [v \in DOMAIN old \cup keys |->
                   IF v \in keys /\ Subnets(v, p, branch) /= {} /\ changed(v)
                   THEN NewDuties(v, p) ELSE kept(v)]
    IN  IF keys = {} THEN committees
        ELSE [q \in DOMAIN committees \cup {p} |-> IF q = p THEN new ELSE committees[q]]

PrunePeriods(map, p) == [q \in {q \in DOMAIN map : q >= p} |-> map[q]]

Members(map, p) == IF p \in DOMAIN map THEN {v \in DOMAIN map[p] : map[p][v] /= None} ELSE {}

\* prepare_for_aggregator_pre_compute: the epoch up to which proofs are computed, where a
\* member starts, and the epoch as it is noted before there are proofs.
PreComputeEpoch(p, e) == Least(e + PreComputeEpochs, LastEpoch(p))

StartEpoch(duty, p, e) ==
    IF duty.pre_compute_epoch = None THEN Greatest(e, FirstEpoch(p)) ELSE duty.pre_compute_epoch + 1

PreComputeDuties(map, p, e) ==
    {[key |-> v, start |-> StartEpoch(map[p][v], p, e), subnets |-> map[p][v].subnets] :
        v \in {v \in Members(map, p) :
                 \/ map[p][v].pre_compute_epoch = None
                 \/ map[p][v].pre_compute_epoch < PreComputeEpoch(p, e)}}

Prepared(map, p, e) ==
    [q \in DOMAIN map |-> [v \in DOMAIN map[q] |->
        IF q = p /\ v \in Members(map, p)
        THEN [map[q][v] EXCEPT !.pre_compute_epoch = PreComputeEpoch(p, e)] ELSE map[q][v]]]

\* What the poll does for the period p: the download, if the duties are not known, and
\* the task that computes the proofs.
PollPeriod(p, unknown, compute) ==
    \E answered \in BOOLEAN :
        LET e == sync_poll.epoch
            map == IF ~unknown THEN committees
                   ELSE PrunePeriods(IF answered THEN Fetched(p, sync_poll.keys) ELSE committees, Period(e))
            new == PreComputeDuties(map, p, e)
        IN  /\ IF answered THEN UNCHANGED events ELSE unknown /\ Event("sync duties")
            /\ committees' = IF compute THEN Prepared(map, p, e) ELSE map
            /\ fills' = IF compute /\ new /= {}
                        THEN fills \cup {[period |-> p, epoch |-> e, last |-> PreComputeEpoch(p, e), duties |-> new]}
                        ELSE fills

PollCurrentPeriod ==
    /\ sync_poll.stage = "current"
    /\ LET p == Period(sync_poll.epoch) IN PollPeriod(p, ~AllDutiesKnown(p, sync_poll.keys), TRUE)
    /\ sync_poll' = [sync_poll EXCEPT !.stage = "next"]
    /\ UNCHANGED <<read_only, sync_polled, publication>>

\* epoch_offset
EpochOffset == EpochsPerPeriod \div 2

PollNextPeriod ==
    /\ sync_poll.stage = "next"
    /\ LET e == sync_poll.epoch
           p == Period(e) + 1
       IN  PollPeriod(p, e % EpochsPerPeriod >= EpochOffset /\ ~AllDutiesKnown(p, sync_poll.keys),
                      Period(e + PreComputeEpochs) = p)
    /\ sync_poll' = NoSyncPoll
    /\ UNCHANGED <<read_only, sync_polled, publication>>

\* The proofs of one epoch are for the slots before its slots.
ProofSlots(e) == {s - 1 : s \in (Greatest(1, e * SlotsPerEpoch))..EndSlot(e)}

\* fill_in_aggregation_proofs, one epoch: the keys that are still there sign, and the
\* proofs go to the duties that are still there.  A proof that fails is not tried again.
FillInAggregationProofs(f) ==
    LET signers == {d \in f.duties : d.start <= f.epoch /\ d.key \in voting}
        signed_proofs == UNION {{d.key} \X ProofSlots(f.epoch) \X d.subnets : d \in signers}
    IN  /\ \E failed \in {{}} \cup {{x} : x \in signed_proofs} :
              LET proofs(v) == {<<x[2], x[3]>> : x \in {x \in signed_proofs \ failed :
                                                      x[1] = v /\ Selected(v, x[2], x[3])}}
              IN  /\ IF failed = {} THEN UNCHANGED events ELSE Event("sync proof")
                  /\ committees' = [q \in DOMAIN committees |-> [v \in DOMAIN committees[q] |->
                         IF q = f.period /\ v \in Members(committees, q)
                         THEN [committees[q][v] EXCEPT !.proofs = @ \cup proofs(v)]
                         ELSE committees[q][v]]]
        /\ fills' = (fills \ {f}) \cup (IF f.epoch = f.last THEN {} ELSE {[f EXCEPT !.epoch = @ + 1]})
        /\ UNCHANGED <<read_only, sync_poll, sync_polled, publication>>

-----------------------------------------------------------------------------
(* The service.                                                                *)


\* "Sync duties lag their assigned slot by 1"
DutyPeriod(s) == Period(Epoch(s + 1))

\* get_duties_for_slot: the members, and the aggregators of a subnet.
SlotDuties(s) == Members(committees, DutyPeriod(s))

Aggregators(s, n) ==
    {v \in SlotDuties(s) : LET duty == committees[DutyPeriod(s)][v]
                           IN  n \in duty.subnets /\ <<s, n>> \in duty.proofs}

SubnetIds(s) == UNION {committees[DutyPeriod(s)][v].subnets : v \in SlotDuties(s)}

\* start_update_service, spawn_contribution_tasks: a third into the slot, with one task for
\* the messages and one for every subnet that has aggregators; then the subscriptions.
SpawnContributionTasks ==
    /\ part >= 1 /\ contributed /= slot
    /\ contributed' = slot
    /\ subscribing' = TRUE
    /\ \/ /\ publishing' = publishing \cup
                (IF SlotDuties(slot) = {} THEN {}
                 ELSE {[slot |-> slot, subnet |-> None, keys |-> SlotDuties(slot)]}
                      \cup {[slot |-> slot, subnet |-> n, keys |-> Aggregators(slot, n)] :
                               n \in {n \in SubnetIds(slot) : Aggregators(slot, n) /= {}}})
          /\ UNCHANGED events
       \/ SlotDuties(slot) /= {} /\ Event("root") /\ UNCHANGED publishing
    /\ UNCHANGED <<read_only, duties_map, subscription_done, subscribed, messages>>

\* What a task posts: the keys that are still there have signed.
Post(t) ==
    /\ publishing' = publishing \ {t}
    /\ \/ /\ messages' = messages \cup {[key |-> v, slot |-> t.slot, subnet |-> t.subnet] : v \in t.keys \cap voting}
          /\ UNCHANGED events
       \/ Event("post") /\ UNCHANGED messages
    /\ UNCHANGED <<read_only, duties_map, contributed, subscribing, subscription_done, subscribed>>

PublishSyncCommitteeSignatures(t) == t.subnet = None /\ Post(t)

\* publish_sync_committee_aggregate_for_subnet, two thirds into the slot.
PublishSyncCommitteeAggregate(t) == t.subnet /= None /\ (slot > t.slot \/ part = 2) /\ Post(t)

\* The slots whose duties publish_subscriptions sends, with the period it takes for theirs.
SubscriptionSlots ==
    LET ahead == slot + LookaheadEpochs * SlotsPerEpoch
    IN  {<<s, Period(Epoch(s))>> : s \in
            (IF ~subscription_done \/ slot % SlotsPerEpoch = 0 THEN {slot} ELSE {})
                \cup (IF Period(Epoch(ahead)) > Period(Epoch(slot)) THEN {ahead} ELSE {})}

\* subscriptions_from_sync_duties
Subscriptions ==
    UNION {{[key |-> v, until |-> FirstEpoch(d[2] + 1)] : v \in SlotDuties(d[1])} : d \in SubscriptionSlots}

PublishSubscriptions ==
    /\ subscribing
    /\ subscribing' = FALSE
    /\ LET known == \A d \in SubscriptionSlots : DutyPeriod(d[1]) \in DOMAIN committees
       IN  \/ /\ subscribed' = subscribed \cup Subscriptions
              /\ subscription_done' = (subscription_done \/ (Subscriptions /= {} /\ known))
              /\ UNCHANGED events
           \/ Subscriptions /= {} /\ Event("post") /\ UNCHANGED <<subscribed, subscription_done>>
    /\ UNCHANGED <<read_only, duties_map, contributed, publishing, messages>>

-----------------------------------------------------------------------------

SyncOverdue ==
    \/ index /= KnownKeys \/ sync_polled /= slot \/ sync_poll.stage /= "idle" \/ fills /= {}
    \/ contributed /= slot \/ publishing /= {} \/ subscribing

\* The clock and the keys, as for the attestations.
SyncWorld ==
    /\ \/ Clock(SyncOverdue)
       \/ \E v \in Validator : RemoveValidator(v) \/ AddValidator(v)
       \/ PollValidatorIndices
    /\ UNCHANGED <<duties, tasks>>

SyncNext ==
    \/ (SyncWorld \/ Reorg) /\ UNCHANGED <<duties_map, publication>>
    \/ StartSyncPoll \/ PollCurrentPeriod \/ PollNextPeriod
    \/ \E f \in fills : FillInAggregationProofs(f)
    \/ SpawnContributionTasks \/ PublishSubscriptions
    \/ \E t \in publishing : PublishSyncCommitteeSignatures(t) \/ PublishSyncCommitteeAggregate(t)

ClientNext ==
    \/ plan.duty = "attesting" /\ Next /\ UNCHANGED <<duties_map, publication>>
    \/ plan.duty = "sync" /\ SyncNext

ClientSpec == ClientInit /\ [][ClientNext]_clientVars

-----------------------------------------------------------------------------

=============================================================================
