------------------------------- MODULE Signing -------------------------------
(* How the operators of one validator sign its messages together               *)
(* (validation/signing_method.rs, validator_store.rs, impls/hotstuff.rs,       *)
(* operator.rs, crypto/generic_threshold.rs and node/dvfcore.rs).  An operator *)
(* checks the message against its slashing protection, puts its own partial    *)
(* signature in its store, and, when it has to aggregate, proposes the signing *)
(* root to the consensus, waits until the root is committed, asks the others   *)
(* for their partial signatures and aggregates them.                           *)
(*                                                                             *)
(* A job is one call of get_signature; jobs may have the same root (the head   *)
(* of two slots of a sync committee).  HotStuff is external here: it commits   *)
(* the proposed roots.  So is the slashing protection database.                *)
EXTENDS Naturals, FiniteSets

CONSTANTS
    Operator,           \* the identifiers of the operators, positive numbers
    Faulty,             \* operators whose answers are arbitrary
    Threshold,
    Job, Kind, Epoch,   \* Kind[j], Epoch[j]: the type of message and its signing epoch
    Agenda,             \* the instances: the jobs of an execution and its kinds of faults
    Candidate,          \* Candidate[j]: the roots that a beacon node may ask to sign
    Conflict,           \* the pairs of roots that are slashable together
    None,
    NTry,               \* n_try of RemoteOperator::sign
    MaxFault            \* bound: the faults of an execution

Honest == Operator \ Faulty

Root == UNION {Candidate[j] : j \in Job}

ASSUME SigningAssumption ==
    /\ Operator \subseteq Nat \ {0} /\ IsFiniteSet(Operator) /\ Faulty \subseteq Operator
    /\ Threshold \in Nat \ {0} /\ NTry \in Nat \ {0}
    /\ None \notin Job /\ Agenda \subseteq [jobs : SUBSET Job, faults : SUBSET {"crash", "timeout", "loss"}]
    /\ \A r, q \in Root : <<r, q>> \in Conflict =>
          /\ r /= q /\ <<q, r>> \in Conflict
          /\ \A j \in Job : r \in Candidate[j] => Kind[j] \in {"ATTESTER", "PROPOSER"}

\* Two sets of operators that can aggregate share an honest operator.
ASSUME ThresholdAssumption ==
    \A A, B \in SUBSET Operator :
        Cardinality(A) >= Threshold /\ Cardinality(B) >= Threshold => A \cap B \cap Honest /= {}

VARIABLES
    slashing,           \* slashing[o]: the roots in the slashing protection database (disk)
    store,              \* store[o]: the roots with a partial signature in the store (disk)
    task,               \* task[o][j]: the task of job j
    notes,              \* notes[o][r]: consensus_notifications, a Notify or None; a Notify
                        \* has the name of the job that made it
    permit,             \* permit[o]: the Notifys with a stored permit
    txs,                \* txs[o]: the roots o has proposed that are not committed yet
    pending,            \* pending[o]: the committed roots DvfCore::run has not passed on; an
                        \* undelivered root that is committed once more counts once
    committed,          \* history: the roots that were committed
    aggregated,         \* history: the roots with an aggregated signature
    duties,             \* the member of Agenda that is executed
    count               \* the faults so far

persistent == <<slashing, store>>
consensus == <<txs, pending, committed, duties>>
vars == <<persistent, task, notes, permit, consensus, aggregated, count>>

NoTask == [phase |-> "idle", root |-> None, notify |-> None, tries |-> 0]

Init ==
    /\ slashing = [o \in Honest |-> {}]
    /\ store = [o \in Honest |-> {}]
    /\ task = [o \in Honest |-> [j \in Job |-> NoTask]]
    /\ notes = [o \in Honest |-> [r \in Root |-> None]]
    /\ permit = [o \in Honest |-> {}]
    /\ txs = [o \in Honest |-> {}]
    /\ pending = [o \in Honest |-> {}]
    /\ committed = {}
    /\ aggregated = {}
    /\ duties \in Agenda
    /\ count = [crash |-> 0, timeout |-> 0, loss |-> 0]

MayFail(kind) == kind \in duties.faults /\ count.crash + count.timeout + count.loss < MaxFault

Fail(kind) == MayFail(kind) /\ count' = [count EXCEPT ![kind] = @ + 1]

To(o, j, phase) == task' = [task EXCEPT ![o][j].phase = phase]
------------------------------------------------------------------------------
(* The validator store and the signing method.                                 *)

Slashable(kind) == kind \in {"ATTESTER", "PROPOSER"}

\* The table of get_signature_from_root: these messages are aggregated by the aggregators
\* only, RANDAO, SELECT and SYNC_SELECT by every operator.
OnlyAggregator(kind) ==
    kind \in {"ATTESTER", "PROPOSER", "AGGREGATE", "SYNC_COMMITTEE", "CONTRIB", "VA_REG"}

\* get_leader: the identifiers in their order, in rotation.
GetLeader(nonce) ==
    CHOOSE o \in Operator :
        Cardinality({p \in Operator : p < o}) = nonce % Cardinality(Operator)

IsAggregator(o, epoch) == o \in {GetLeader(epoch), GetLeader(epoch + 1)}

\* check_and_insert_attestation and check_and_insert_block_proposal: Valid, or SameData or
\* a reason why the message is not safe.
Valid_Unchecked(o, r) == r \notin slashing[o]

Valid(o, r) == r \notin slashing[o] /\ \A q \in slashing[o] : <<r, q>> \notin Conflict

\* get_signature_from_root: the operator signs and stores its part (local_sign_and_store);
\* one that aggregates goes on to consensus(), which finds or makes the Notify of the
\* root before it proposes the root.
GetSignature(o, j, r) ==
    LET leads == ~OnlyAggregator(Kind[j]) \/ IsAggregator(o, Epoch[j])
        notify == IF notes[o][r] = None THEN j ELSE notes[o][r]
    IN /\ store' = [store EXCEPT ![o] = @ \union {r}]
       /\ task' = [task EXCEPT ![o][j] =
                      IF leads THEN [NoTask EXCEPT !.phase = "registered", !.root = r, !.notify = notify]
                      ELSE [NoTask EXCEPT !.phase = "notleader", !.root = r]]
       /\ notes' = [notes EXCEPT ![o][r] = IF leads THEN notify ELSE @]

\* A service asks for the signature of job j.  A message that is not slashable is signed
\* at once.
Request(o, j, r) ==
    /\ j \in duties.jobs /\ task[o][j].phase = "idle" /\ ~Slashable(Kind[j])
    /\ GetSignature(o, j, r)
    /\ UNCHANGED <<slashing, permit, consensus, aggregated, count>>

\* sign_attestation and sign_block: what is safe is recorded before anything is signed.
RequestSlashable(o, j, r) ==
    /\ j \in duties.jobs /\ task[o][j].phase = "idle" /\ Slashable(Kind[j])
    /\ task' = [task EXCEPT ![o][j] =
                   [NoTask EXCEPT !.phase = IF Valid(o, r) THEN "permitted" ELSE "refused", !.root = r]]
    /\ slashing' = [slashing EXCEPT ![o] = IF Valid(o, r) THEN @ \union {r} ELSE @]
    /\ UNCHANGED <<store, notes, permit, consensus, aggregated, count>>

\* What was recorded is signed, unless doppelganger_checked_signing_method refuses now.
SignPermitted(o, j) ==
    /\ task[o][j].phase = "permitted"
    /\ GetSignature(o, j, task[o][j].root)
    /\ UNCHANGED <<slashing, permit, consensus, aggregated, count>>

DoppelgangerRefuses(o, j) ==
    /\ task[o][j].phase = "permitted"
    /\ To(o, j, "refused")
    /\ UNCHANGED <<persistent, notes, permit, consensus, aggregated, count>>

\* A task that is notified removes the Notify of its root, whichever it is now, and goes on
\* to ask the operators; what other tasks wait for is unreachable from then on.
EndConsensus(o, j) ==
    /\ task' = [task EXCEPT ![o][j].phase = "asking", ![o][j].notify = None]
    /\ notes' = [notes EXCEPT ![o][task[o][j].root] = None]

\* notify.notified(): a stored permit is taken at once.
Await(o, j) ==
    LET n == task[o][j].notify
    IN IF n \in permit[o]
       THEN permit' = [permit EXCEPT ![o] = @ \ {n}] /\ EndConsensus(o, j)
       ELSE To(o, j, "waiting") /\ UNCHANGED <<permit, notes>>

Propose_OnlyMaker(o, j) ==
    /\ task[o][j].phase = "registered"
    /\ Await(o, j)
    /\ txs' = [txs EXCEPT ![o] = IF task[o][j].notify = j THEN @ \union {task[o][j].root} ELSE @]
    /\ UNCHANGED <<persistent, pending, committed, duties, aggregated, count>>

\* Only LocalOperator::propose sends anything; the message goes to the own mempool.
Propose(o, j) ==
    /\ task[o][j].phase = "registered"
    /\ Await(o, j)
    /\ \/ txs' = [txs EXCEPT ![o] = @ \union {task[o][j].root}] /\ UNCHANGED count
       \/ Fail("loss") /\ UNCHANGED txs
    /\ UNCHANGED <<persistent, pending, committed, duties, aggregated>>

\* External: the proposal is in a committed block, which HotStuff delivers to everyone.
Commit(o, r) ==
    /\ r \in txs[o]
    /\ txs' = [txs EXCEPT ![o] = @ \ {r}]
    /\ pending' = [q \in Honest |-> pending[q] \union {r}]
    /\ committed' = committed \union {r}
    /\ UNCHANGED <<persistent, task, notes, permit, duties, aggregated, count>>

\* DvfCore::run passes the root on, and the task of HotstuffOperatorCommittee::new calls
\* notify_one: a waiting task is woken, or the permit is kept for the next one; a root
\* without a Notify is dropped.
NotifyOne(o, r) ==
    /\ r \in pending[o]
    /\ pending' = [pending EXCEPT ![o] = @ \ {r}]
    /\ LET n == notes[o][r]
           W == {j \in Job : task[o][j].phase = "waiting" /\ task[o][j].notify = n}
       IN \/ n = None /\ UNCHANGED <<task, notes, permit>>
          \/ n /= None /\ W = {} /\ permit' = [permit EXCEPT ![o] = @ \union {n}] /\ UNCHANGED <<task, notes>>
          \/ n /= None /\ UNCHANGED permit /\ \E j \in W : EndConsensus(o, j)
    /\ UNCHANGED <<persistent, txs, committed, duties, aggregated, count>>
------------------------------------------------------------------------------
(* The partial signatures.                                                     *)

\* DvfSignatureReceiverHandler::dispatch answers with the signature that is in the store or
\* with "can't find signature, please wait", which is not a signature.
\* LocalOperator::sign signs in any case.
Signers(o, r) == {p \in Honest : p = o \/ r \in store[p]}

\* threshold_aggregate: enough signatures, and enough of them valid.
Aggregates(got, bad) ==
    /\ Cardinality(got \union bad) >= Threshold
    /\ Cardinality(got) >= Threshold

Failed_Final(j, r) == [NoTask EXCEPT !.phase = "failed", !.root = r]

\* poll_beacon_attesters_for_epoch makes the selection proofs that are missing anew in
\* every slot; the other messages are not repeated.
Failed(j, r) ==
    IF Kind[j] = "SELECT" THEN NoTask ELSE [NoTask EXCEPT !.phase = "failed", !.root = r]

\* RemoteOperator::sign ends with an answer or after n_try attempts of 600 ms.
Over(tries, answered) == tries + 1 = NTry \/ answered = Operator

\* HotstuffOperatorCommittee::sign: join_all starts the requests to all operators
\* together, and this is their next attempt.  Faulty operators answer anything, and an
\* answer may come too late for the attempt.  (An operator that has answered is not asked
\* again in the code; it would give the same answer, as its store only grows.)  When all
\* have answered or been given up the signatures are aggregated.
Ask(o, j) ==
    LET t == task[o][j]
        r == t.root
    IN /\ t.phase = "asking"
       /\ \E valid, bad \in SUBSET Faulty, late \in {{}} \union {{p} : p \in Operator \ {o}} :
             LET got == (Signers(o, r) \union valid) \ late
                 over == Over(t.tries, got \union bad)
                 signed == over /\ Aggregates(got, bad \ got)
             IN /\ IF late = {} THEN UNCHANGED count ELSE Fail("loss")
                /\ task' = [task EXCEPT ![o][j] =
                       IF ~over THEN [t EXCEPT !.tries = @ + 1]
                       ELSE IF signed THEN [NoTask EXCEPT !.phase = "signed", !.root = r]
                       ELSE Failed(j, r)]
                /\ aggregated' = IF signed THEN aggregated \union {r} ELSE aggregated
       /\ UNCHANGED <<persistent, notes, permit, consensus>>

\* The timeout of get_signature_from_root drops the task where it is; the Notify stays.
Timeout(o, j) ==
    /\ task[o][j].phase \in {"registered", "waiting", "asking"}
    /\ Fail("timeout")
    /\ task' = [task EXCEPT ![o][j] = Failed(j, task[o][j].root)]
    /\ UNCHANGED <<persistent, notes, permit, consensus, aggregated>>

\* The operator stops and starts again: only the databases are left.
Crash(o) ==
    /\ Fail("crash")
    /\ task' = [task EXCEPT ![o] = [j \in Job |-> NoTask]]
    /\ notes' = [notes EXCEPT ![o] = [r \in Root |-> None]]
    /\ permit' = [permit EXCEPT ![o] = {}]
    /\ pending' = [pending EXCEPT ![o] = {}]
    /\ UNCHANGED <<persistent, txs, committed, duties, aggregated>>

Deliver(o) == \E r \in Root : Commit(o, r) \/ NotifyOne(o, r)

Work(o) ==
    \E j \in Job :
        \/ \E r \in Candidate[j] : Request(o, j, r) \/ RequestSlashable(o, j, r)
        \/ SignPermitted(o, j) \/ Propose(o, j) \/ Ask(o, j)

Next ==
    \E o \in Honest :
        \/ Deliver(o) \/ Work(o) \/ Crash(o)
        \/ \E j \in Job : DoppelgangerRefuses(o, j) \/ Timeout(o, j)

\* The consensus commits what is proposed and delivers it, and the tasks of an operator go
\* on when they can; crashes, losses, timeouts and refusals need not happen.
Fairness == \A o \in Honest : WF_vars(Deliver(o)) /\ WF_vars(Work(o))

Spec == Init /\ [][Next]_vars /\ Fairness
------------------------------------------------------------------------------
\* The state has its types.
TypeOK ==
    /\ slashing \in [Honest -> SUBSET Root] /\ store \in [Honest -> SUBSET Root]
    /\ task \in [Honest -> [Job -> [
           phase : {"idle", "refused", "permitted", "notleader", "registered", "waiting",
                    "asking", "signed", "failed"},
           root : Root \union {None}, notify : Job \union {None},
           tries : 0 .. NTry]]]
    /\ notes \in [Honest -> [Root -> Job \union {None}]] /\ permit \in [Honest -> SUBSET Job]
    /\ txs \in [Honest -> SUBSET Root] /\ pending \in [Honest -> SUBSET Root]
    /\ committed \subseteq Root /\ aggregated \subseteq committed

\* The committee never makes two signatures that are slashable together, although its
\* operators see different heads, two of them aggregate, operators restart between the
\* check and the signature, and up to the tolerated number of them answer anything.
NoConflictSigned == \A r, q \in aggregated : <<r, q>> \notin Conflict

Shared(o, j) ==
    \E k \in Job \ {j} : task[o][k].notify = task[o][j].notify

\* A task that waits alone on the Notify that consensus_notifications has for its root has
\* a wake-up ahead: its proposal is not committed yet, a commit of the root is on the way
\* to it, or the permit is there.  (A proposal that the mempool lost is the exception.)
WakeUpComing ==
    \A o \in Honest, j \in Job :
        LET t == task[o][j]
        IN t.phase = "waiting" /\ ~Shared(o, j) /\ notes[o][t.root] = t.notify /\ count.loss = 0
           => t.root \in txs[o] \union pending[o] \/ t.notify \in permit[o]

\* "Every operator should be able to get selection proof signature": as long as nothing
\* crashes, is lost or times out, every operator gets it, although the others may not have
\* signed yet when it asks them, and gives up after NTry attempts.
EveryOperatorProves ==
    [](\A f \in DOMAIN count : count[f] = 0)
        => <>(\A o \in Honest, j \in duties.jobs : Kind[j] = "SELECT" => task[o][j].phase = "signed")
==============================================================================
