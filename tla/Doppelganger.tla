---------------------------- MODULE Doppelganger ----------------------------
(* The doppelganger protection of a validator client                           *)
(* (validation/doppelganger_service.rs and its callers in validator_store.rs). *)
(* A validator that is registered may not sign until the beacon node reports   *)
(* one whole epoch in which nobody else used its key.  The service asks once a *)
(* slot, with two queries that are answered at different times, while keys are *)
(* removed and registered again and the slots go by.                           *)
EXTENDS Naturals, FiniteSets, Sequences

CONSTANTS
    Validator,
    SlotsPerEpoch,
    Forever,            \* u64::MAX
    None,
    Agenda              \* bound: the executions: the duty that is followed, the keys and the slot the
                        \* client starts with, the last slot, and the events each of which may
                        \* happen once

Epoch(s) == s \div SlotsPerEpoch

EndSlot(e) == (e + 1) * SlotsPerEpoch - 1

Previous(e) == IF e = 0 THEN 0 ELSE e - 1

ASSUME DoppelgangerAssumption ==
    /\ SlotsPerEpoch \in Nat \ {0} /\ Forever \in Nat
    /\ \A a \in Agenda : a.keys \subseteq Validator /\ a.start \in 0..a.last /\ a.last < Forever

VARIABLES
    slot,               \* the slot clock
    part,               \* how far the slot is: 0 its start, 1 from a third on, 2 from two thirds on
    voting,             \* the keys in InitializedValidators
    index,              \* the keys whose validator index is known
    states,             \* doppelganger_states: [next_check_epoch, remaining_epochs] or None
    query,              \* the detect_doppelgangers in progress
    asked,              \* the slot in which the last detection was due
    others,             \* history: <<v, e>>, another client acted for v in epoch e
    registered,         \* history: the epoch in which the key was registered last
    detected,           \* history: the keys found live since they were registered
    shutdown,           \* the shutdown signal was sent
    plan,               \* the member of Agenda that is executed
    events              \* the failures and changes so far

service == <<states, query, asked, others, registered, detected, shutdown>>
client == <<slot, part, voting, index, service, plan, events>>

NoQuery == [stage |-> "idle", slot |-> 0, indices |-> {}, previous |-> <<>>]

Event(kind) == kind \in plan.events \ events /\ events' = events \cup {kind}

\* register_new_validator: what the service remembers of a key registered in epoch e.
NewState(e) == [next_check_epoch |-> e + 1, remaining_epochs |-> IF e = 0 THEN 0 ELSE 1]

\* register_all_in_doppelganger_protection_if_enabled when the client starts; a
\* key whose definition is disabled is not registered.
DoppelgangerInit ==
    /\ plan \in Agenda /\ events = {}
    /\ slot = plan.start /\ part = 2
    /\ voting = plan.keys /\ index = {}
    /\ states = [v \in Validator |-> IF v \in voting THEN NewState(Epoch(slot)) ELSE None]
    /\ registered = [v \in Validator |-> Epoch(slot)]
    /\ query = NoQuery /\ asked = slot
    /\ others = {} /\ detected = {} /\ shutdown = FALSE

RequiresFurtherChecks(v) == states[v].remaining_epochs > 0

\* validator_status(v).only_safe()
OnlySafe(v) == states[v] /= None /\ ~RequiresFurtherChecks(v)

\* voting_pubkeys(DoppelgangerStatus::ignored) and ::only_safe
KnownKeys == {v \in voting : states[v] /= None}
SafeKeys == {v \in voting : OnlySafe(v)}

-----------------------------------------------------------------------------
(* The environment: the other client, and what a beacon node knows of it.      *)

\* Another client uses the key.
OtherActs(v) ==
    /\ Event("other")
    /\ others' = others \cup {<<v, Epoch(slot)>>}
    /\ UNCHANGED <<slot, part, voting, index, states, query, asked, registered, detected, shutdown, plan>>

\* The keys a beacon node may report live in epoch e.  It has seen every message
\* of e once the last slot of e + 1 has come; before that it may miss some.
Answers(keys, e) ==
    LET active == {v \in keys : <<v, e>> \in others}
    IN  IF slot >= EndSlot(e + 1) THEN {active} ELSE SUBSET active

-----------------------------------------------------------------------------
(* ValidatorStore: keys come and go.                                           *)

\* remove_validator_keystore and stop_validator_keystore: the service keeps the
\* state of the key.
RemoveValidator(v) ==
    /\ v \in voting /\ Event("stop")
    /\ voting' = voting \ {v} /\ index' = index \ {v}
    /\ UNCHANGED <<slot, part, service, plan>>

\* add_validator: the key is registered anew before it is added.
AddValidator(v) ==
    /\ v \notin voting /\ Event("add")
    /\ voting' = voting \cup {v}
    /\ states' = [states EXCEPT ![v] = NewState(Epoch(slot))]
    /\ registered' = [registered EXCEPT ![v] = Epoch(slot)]
    /\ detected' = detected \ {v}
    /\ UNCHANGED <<slot, part, index, query, asked, others, shutdown, plan>>

\* start_validator_keystore: the key is added but not registered.
StartValidator(v) ==
    /\ v \notin voting /\ Event("start")
    /\ voting' = voting \cup {v}
    /\ UNCHANGED <<slot, part, index, service, plan>>

\* poll_validator_indices
PollValidatorIndices ==
    /\ index /= KnownKeys
    /\ index' = KnownKeys
    /\ UNCHANGED <<slot, part, voting, service, plan, events>>

-----------------------------------------------------------------------------
(* detect_doppelgangers.                                                       *)

\* compute_detection_indices_map
DetectionIndices == {v \in index : states[v] /= None /\ RequiresFurtherChecks(v)}

\* start_update_service wakes up at three quarters of a slot; nothing is asked when no
\* key needs it.
StartDetection ==
    /\ part = 2 /\ asked /= slot /\ query.stage = "idle"
    /\ asked' = slot
    /\ query' = IF DetectionIndices = {} THEN NoQuery
                ELSE [stage    |-> IF Epoch(slot) = 0 THEN "current" ELSE "previous",
                      slot     |-> slot, indices |-> DetectionIndices, previous |-> <<>>]
    /\ UNCHANGED <<slot, part, voting, index, states, others, registered, detected, shutdown, plan, events>>

\* A response is a sequence of length 0 (the query failed) or 1 (the live keys).
PreviousAnswered ==
    /\ query.stage = "previous"
    /\ \/ /\ \E live \in Answers(query.indices, Epoch(query.slot) - 1) :
                query' = [query EXCEPT !.stage = "current", !.previous = <<live>>]
          /\ UNCHANGED events
       \/ /\ Event("query")
          /\ query' = [query EXCEPT !.stage = "current"]
    /\ UNCHANGED <<slot, part, voting, index, states, asked, others, registered, detected, shutdown, plan>>

Live(response) == IF response = <<>> THEN {} ELSE response[1]

\* The keys that were live in an epoch that is to be checked.
Violators(prev, cur, e) ==
    {v \in Live(prev) : states[v].next_check_epoch <= Previous(e)}
        \cup {v \in Live(cur) : states[v].next_check_epoch <= e}

\* The first slot at which the previous epoch counts as checked has been reached.
IsSatisfied(s) == s >= EndSlot(Previous(Epoch(s)) + 1)

CompleteDetection(state, e) ==
    [next_check_epoch |-> e + 1,
     remaining_epochs |-> IF state.remaining_epochs = 0 THEN 0 ELSE state.remaining_epochs - 1]

\* The answer is applied although the key was registered after it was asked for.
NewlySatisfied_AnyEpoch(v, s) == IsSatisfied(s)

NewlySatisfied(v, s) ==
    IsSatisfied(s) /\ Previous(Epoch(s)) >= states[v].next_check_epoch

\* The state of a key of the previous response after the two responses.
Checked(v, prev, found, s) ==
    IF found /= {} THEN [states[v] EXCEPT !.remaining_epochs = Forever]
    ELSE IF v \notin Live(prev) /\ NewlySatisfied(v, s)
         THEN CompleteDetection(states[v], Previous(Epoch(s)))
         ELSE states[v]

ProcessLivenessResponses(cur) ==
    LET s == query.slot
        prev == query.previous
        found == Violators(prev, cur, Epoch(s))
        reported == IF prev = <<>> THEN {} ELSE query.indices
    IN  /\ states' = [v \in Validator |->
                          IF v \in reported THEN Checked(v, prev, found, s) ELSE states[v]]
        /\ detected' = detected \cup found
        /\ shutdown' = (shutdown \/ found /= {})

CurrentAnswered ==
    /\ query.stage = "current"
    /\ \/ /\ \E live \in Answers(query.indices, Epoch(query.slot)) : ProcessLivenessResponses(<<live>>)
          /\ UNCHANGED events
       \/ Event("query") /\ ProcessLivenessResponses(<<>>)
    /\ query' = NoQuery
    /\ UNCHANGED <<slot, part, voting, index, asked, others, registered, plan>>

Detection == StartDetection \/ PreviousAnswered \/ CurrentAnswered

\* What the service has to do in this slot.
DetectionDue == query.stage /= "idle" \/ asked /= slot \/ index /= KnownKeys

-----------------------------------------------------------------------------

\* A key that was registered after genesis may sign only when some whole epoch
\* after its registration is over, all of its messages had time to be seen, and
\* no other client used the key in it, whatever was answered late or failed.
QuietEpochFirst ==
    \A v \in Validator : OnlySafe(v) /\ registered[v] > 0 =>
        \E e \in (registered[v] + 1)..Epoch(slot) : slot >= EndSlot(e + 1) /\ <<v, e>> \notin others

\* When no query failed, a key that was found in use elsewhere may not sign
\* again until it is registered again, even if the client does not shut down
\* (the comment at remaining_epochs = u64::MAX).
DetectedStaysDisabled ==
    "query" \notin events => \A v \in detected : ~OnlySafe(v)
=============================================================================
