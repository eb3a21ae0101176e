---------------------------- MODULE SigningProofs ----------------------------
(* The committee signs no two conflicting messages, for any committee in which  *)
(* two aggregating sets share an honest operator, any messages and any number   *)
(* of crashes, losses and timeouts.                                             *)
EXTENDS Signing, TLAPS

Phase == {"idle", "refused", "permitted", "notleader", "registered", "waiting", "asking",
          "signed", "failed"}

Task == [phase : Phase, root : Root \union {None}, notify : Job \union {None}, tries : Nat]

\* The root is slashable together with another one.
Contested(r) == \E q \in Root : <<r, q>> \in Conflict

SignTypes ==
    /\ slashing \in [Honest -> SUBSET Root] /\ store \in [Honest -> SUBSET Root]
    /\ task \in [Honest -> [Job -> Task]]
    /\ notes \in [Honest -> [Root -> Job \union {None}]]
    /\ aggregated \subseteq Root

\* A task that may sign has its root in the slashing protection database, and one that
\* collects signatures has its own part in the store.
TasksRecorded ==
    \A o \in Honest, j \in Job :
        /\ task[o][j].phase = "permitted" => task[o][j].root \in slashing[o]
        /\ task[o][j].phase \in {"registered", "waiting", "asking"} => task[o][j].root \in store[o]

\* What is contested is signed only if it is recorded, and the records do not conflict.
RecordsSafe ==
    \A o \in Honest :
        /\ \A r \in store[o] : Contested(r) => r \in slashing[o]
        /\ \A r, q \in slashing[o] : <<r, q>> \notin Conflict

\* r has the parts of a set of operators that is large enough to aggregate.
Backed(r) ==
    \E A \in SUBSET Operator :
        Cardinality(A) >= Threshold /\ \A p \in A \cap Honest : r \in store[p]

SignInvariant ==
    /\ SignTypes
    /\ TasksRecorded
    /\ RecordsSafe
    /\ \A r \in aggregated : Backed(r)

\* The tasks that the steps write are tasks.
LEMMA TaskWritten ==
    ASSUME NEW r \in Root \union {None}, NEW x \in Phase
    PROVE  /\ [NoTask EXCEPT !.phase = x, !.root = r] \in Task
           /\ [NoTask EXCEPT !.phase = x, !.root = r].phase = x
           /\ [NoTask EXCEPT !.phase = x, !.root = r].root = r
BY Zenon DEF NoTask, Task

\* A task that is registered has the Notify of its root.
LEMMA TaskRegistered ==
    ASSUME NEW r \in Root \union {None}, NEW n \in Job \union {None}
    PROVE  /\ [NoTask EXCEPT !.phase = "registered", !.root = r, !.notify = n] \in Task
           /\ [NoTask EXCEPT !.phase = "registered", !.root = r, !.notify = n].phase = "registered"
           /\ [NoTask EXCEPT !.phase = "registered", !.root = r, !.notify = n].root = r
BY Zenon DEF NoTask, Task, Phase

\* A job without a task.
LEMMA TaskIdle == NoTask \in Task /\ NoTask.phase = "idle"
BY DEF NoTask, Task, Phase

\* A task that changes its phase keeps its root.
LEMMA TaskChanged ==
    ASSUME NEW t \in Task, NEW x \in Phase
    PROVE  /\ [t EXCEPT !.phase = x] \in Task
           /\ [t EXCEPT !.phase = x].phase = x
           /\ [t EXCEPT !.phase = x].root = t.root
BY DEF Task

\* So does one that leaves its Notify.
LEMMA TaskNotified ==
    ASSUME NEW t \in Task
    PROVE  /\ [t EXCEPT !.phase = "asking", !.notify = None] \in Task
           /\ [t EXCEPT !.phase = "asking", !.notify = None].phase = "asking"
           /\ [t EXCEPT !.phase = "asking", !.notify = None].root = t.root
BY Zenon DEF Task, Phase

\* So does one that asks again.
LEMMA TaskRepeated ==
    ASSUME NEW t \in Task
    PROVE  /\ [t EXCEPT !.tries = @ + 1] \in Task
           /\ [t EXCEPT !.tries = @ + 1].phase = t.phase
           /\ [t EXCEPT !.tries = @ + 1].root = t.root
BY DEF Task

\* A step that leaves the databases alone, makes no signature, and changes tasks only to
\* ones that are recorded keeps SignInvariant.
LEMMA DatabasesUntouched ==
    ASSUME SignInvariant, UNCHANGED <<slashing, store, aggregated>>,
           task' \in [Honest -> [Job -> Task]],
           notes' \in [Honest -> [Root -> Job \union {None}]],
           \A o \in Honest, j \in Job :
               \/ task'[o][j].phase \notin {"permitted", "registered", "waiting", "asking"}
               \/ /\ task[o][j].phase \in {"registered", "waiting", "asking"}
                  /\ task'[o][j].phase \in {"registered", "waiting", "asking"}
                  /\ task'[o][j].root = task[o][j].root
               \/ task'[o][j] = task[o][j]
    PROVE  SignInvariant'
<1>1. SignTypes'
  BY DEF SignInvariant, SignTypes
<1>2. TasksRecorded'
  BY DEF SignInvariant, TasksRecorded
<1>3. RecordsSafe'
  BY DEF SignInvariant, RecordsSafe, Contested
<1>4. \A r \in aggregated' : Backed(r)'
  BY DEF SignInvariant, Backed
<1> QED
  BY <1>1, <1>2, <1>3, <1>4 DEF SignInvariant

\* local_sign_and_store keeps SignInvariant when a contested root is recorded.
LEMMA SignatureKeepsInvariant ==
    ASSUME SignInvariant, NEW o \in Honest, NEW j \in Job, NEW r \in Root,
           Contested(r) => r \in slashing[o], GetSignature(o, j, r),
           UNCHANGED <<slashing, aggregated>>
    PROVE  SignInvariant'
<1>1. /\ store' = [store EXCEPT ![o] = @ \union {r}]
      /\ store \in [Honest -> SUBSET Root]
      /\ \A p \in Honest : store[p] \subseteq store'[p]
  BY DEF GetSignature, SignInvariant, SignTypes
<1>2. PICK n \in Job \union {None}, t \in Task :
          /\ notes' = [notes EXCEPT ![o][r] = n]
          /\ task' = [task EXCEPT ![o][j] = t]
          /\ t.phase \in {"registered", "notleader"} /\ t.root = r
  <2> DEFINE leads == ~OnlyAggregator(Kind[j]) \/ IsAggregator(o, Epoch[j])
             notify == IF notes[o][r] = None THEN j ELSE notes[o][r]
             u == IF leads THEN [NoTask EXCEPT !.phase = "registered", !.root = r, !.notify = notify]
                  ELSE [NoTask EXCEPT !.phase = "notleader", !.root = r]
             n == IF leads THEN notify ELSE notes[o][r]
  <2>1. notify \in Job \union {None} /\ notes[o][r] \in Job \union {None}
    BY DEF SignInvariant, SignTypes
  <2>2. task' = [task EXCEPT ![o][j] = u] /\ notes' = [notes EXCEPT ![o][r] = n]
    BY DEF GetSignature
  <2>3. "registered" \in Phase /\ "notleader" \in Phase
    BY DEF Phase
  <2>4. u \in Task /\ u.phase \in {"registered", "notleader"} /\ u.root = r /\ n \in Job \union {None}
    <3> HIDE DEF notify
    <3>1. CASE leads
      BY <2>1, <2>3, <3>1, TaskRegistered, ZenonT(60)
    <3>2. CASE ~leads
      <4> DEFINE w == [NoTask EXCEPT !.phase = "notleader", !.root = r]
      <4>1. w \in Task /\ w.phase = "notleader" /\ w.root = r
        BY <2>3, TaskWritten, Zenon
      <4>2. u = w /\ n = notes[o][r]
        BY <3>2
      <4> HIDE DEF w, u, n
      <4> QED
        BY <2>1, <4>1, <4>2
    <3> QED
      BY <3>1, <3>2
  <2> HIDE DEF u, n
  <2> QED
    BY <2>2, <2>4, Zenon
<1>3. SignTypes'
  BY <1>1, <1>2 DEF SignInvariant, SignTypes
<1>4. TasksRecorded'
  BY <1>1, <1>2 DEF SignInvariant, SignTypes, TasksRecorded
<1>5. RecordsSafe'
  BY <1>1, Zenon DEF SignInvariant, SignTypes, RecordsSafe, Contested
<1>6. \A q \in aggregated' : Backed(q)'
  BY <1>1 DEF SignInvariant, Backed
<1> QED
  BY <1>3, <1>4, <1>5, <1>6 DEF SignInvariant

\* sign_attestation and sign_block: check and record.
LEMMA RecordKeepsInvariant ==
    ASSUME SignInvariant, NEW o \in Honest, NEW j \in Job, NEW r \in Candidate[j],
           RequestSlashable(o, j, r)
    PROVE  SignInvariant'
<1>0. r \in Root
  BY DEF Root
<1>1. PICK t \in Task :
          task' = [task EXCEPT ![o][j] = t] /\ t.phase = (IF Valid(o, r) THEN "permitted" ELSE "refused") /\ t.root = r
  <2> DEFINE x == IF Valid(o, r) THEN "permitted" ELSE "refused"
  <2>1. x \in Phase
    BY DEF Phase
  <2>2. task' = [task EXCEPT ![o][j] = [NoTask EXCEPT !.phase = x, !.root = r]]
    BY SMTT(30) DEF RequestSlashable
  <2> HIDE DEF x
  <2>3. /\ [NoTask EXCEPT !.phase = x, !.root = r] \in Task
        /\ [NoTask EXCEPT !.phase = x, !.root = r].phase = x
        /\ [NoTask EXCEPT !.phase = x, !.root = r].root = r
    BY <1>0, <2>1, TaskWritten, Zenon
  <2> QED
    BY <2>2, <2>3, Zenon DEF x
<1>2. /\ slashing' = [slashing EXCEPT ![o] = IF Valid(o, r) THEN @ \union {r} ELSE @]
      /\ UNCHANGED <<store, notes, aggregated>>
  BY DEF RequestSlashable
<1>3. /\ slashing' \in [Honest -> SUBSET Root]
      /\ \A p \in Honest : slashing[p] \subseteq slashing'[p]
      /\ \A p \in Honest : p /= o \/ ~Valid(o, r) => slashing'[p] = slashing[p]
      /\ Valid(o, r) => slashing'[o] = slashing[o] \union {r}
  BY <1>0, <1>2 DEF SignInvariant, SignTypes
<1>4. SignTypes'
  BY <1>1, <1>2, <1>3 DEF SignInvariant, SignTypes
<1>5. TasksRecorded'
  BY <1>1, <1>2, <1>3 DEF SignInvariant, SignTypes, TasksRecorded
<1>6. ASSUME NEW p \in Honest, NEW q \in slashing'[p], NEW s \in slashing'[p]
      PROVE  <<q, s>> \notin Conflict
  <2>1. CASE q \in slashing[p] /\ s \in slashing[p]
    BY <2>1 DEF SignInvariant, RecordsSafe
  <2>2. CASE ~(q \in slashing[p] /\ s \in slashing[p])
    <3>1. p = o /\ Valid(o, r) /\ (q = r \/ s = r) /\ slashing'[o] = slashing[o] \union {r}
      BY <1>3, <2>2
    <3>2. q \in Root /\ s \in Root
      BY <1>3
    <3>3. <<q, s>> \in Conflict => q /= s /\ <<s, q>> \in Conflict
      BY <3>2, SigningAssumption
    <3>4. \A x \in slashing[o] : <<r, x>> \notin Conflict
      BY <3>1 DEF Valid
    <3> QED
      BY <3>1, <3>3, <3>4
  <2> QED
    BY <2>1, <2>2
<1>7. RecordsSafe'
  BY <1>2, <1>3, <1>6 DEF SignInvariant, RecordsSafe, Contested
<1>8. \A q \in aggregated' : Backed(q)'
  BY <1>2 DEF SignInvariant, Backed
<1> QED
  BY <1>4, <1>5, <1>7, <1>8 DEF SignInvariant

\* RemoteOperator::sign and threshold_aggregate: what is aggregated is backed by the stores
\* of all honest operators that are counted.
LEMMA AskKeepsInvariant ==
    ASSUME SignInvariant, NEW o \in Honest, NEW j \in Job, Ask(o, j)
    PROVE  SignInvariant'
<1> DEFINE t == task[o][j]
<1>1. t \in Task /\ t.phase = "asking" /\ t.root \in store[o] /\ t.root \in Root
  BY DEF Ask, SignInvariant, SignTypes, TasksRecorded
<1>2. UNCHANGED <<slashing, store, notes>>
  BY SMTT(30) DEF Ask, persistent
<1>3. PICK valid \in SUBSET Faulty, bad \in SUBSET Faulty,
           late \in {{}} \union {{p} : p \in Operator \ {o}} :
          LET got == (Signers(o, t.root) \union valid) \ late
              over == Over(t.tries, got \union bad)
              signed == over /\ Aggregates(got, bad \ got)
          IN /\ task' = [task EXCEPT ![o][j] =
                    IF ~over THEN [t EXCEPT !.tries = @ + 1]
                    ELSE IF signed THEN [NoTask EXCEPT !.phase = "signed", !.root = t.root]
                    ELSE Failed(j, t.root)]
             /\ aggregated' = IF signed THEN aggregated \union {t.root} ELSE aggregated
  BY ZenonT(60) DEF Ask
<1> DEFINE got == (Signers(o, t.root) \union valid) \ late
           over == Over(t.tries, got \union bad)
           signed == over /\ Aggregates(got, bad \ got)
<1>4. got \in SUBSET Operator /\ \A p \in got \cap Honest : t.root \in store[p]
  BY <1>1, SigningAssumption, Zenon DEF Signers, Honest
<1>5. signed => Backed(t.root)
  BY <1>4 DEF Aggregates, Backed
<1>6. PICK u \in Task :
          /\ task' = [task EXCEPT ![o][j] = u]
          /\ u.phase \notin {"permitted", "registered", "waiting", "asking"} \/ (u.phase = "asking" /\ u.root = t.root)
  <2> DEFINE u == IF ~over THEN [t EXCEPT !.tries = @ + 1]
                  ELSE IF signed THEN [NoTask EXCEPT !.phase = "signed", !.root = t.root]
                  ELSE Failed(j, t.root)
  <2>1. task' = [task EXCEPT ![o][j] = u]
    BY <1>3
  <2>2. "signed" \in Phase /\ "failed" \in Phase
    BY DEF Phase
  <2> HIDE DEF t, over, signed
  <2>6. u \in Task /\ (u.phase \notin {"permitted", "registered", "waiting", "asking"} \/ (u.phase = "asking" /\ u.root = t.root))
    <3>1. CASE ~over
      BY <1>1, <2>2, <3>1, TaskRepeated
    <3>2. CASE over /\ signed
      BY <1>1, <2>2, <3>2, TaskWritten, ZenonT(60)
    <3>3. CASE over /\ ~signed
      BY <1>1, <2>2, <3>3, TaskWritten, TaskIdle, ZenonT(60) DEF Failed
    <3> QED
      BY <3>1, <3>2, <3>3
  <2> HIDE DEF u
  <2> QED
    BY <2>1, <2>6, Zenon
<1>7. aggregated' \subseteq Root /\ \A r \in aggregated' : Backed(r)
  BY <1>1, <1>3, <1>5, Zenon DEF SignInvariant, SignTypes
<1> HIDE DEF t, got, over, signed
<1>8. SignTypes'
  BY <1>2, <1>6, <1>7 DEF SignInvariant, SignTypes
<1>9. TasksRecorded'
  BY <1>1, <1>2, <1>6 DEF SignInvariant, SignTypes, TasksRecorded, t
<1>10. RecordsSafe'
  BY <1>2 DEF SignInvariant, RecordsSafe, Contested
<1>11. \A r \in aggregated' : Backed(r)'
  BY <1>2, <1>7 DEF Backed
<1> QED
  BY <1>8, <1>9, <1>10, <1>11 DEF SignInvariant

\* The steps of consensus(), the doppelganger check, timeouts and crashes.
LEMMA OtherStepsKeepInvariant ==
    ASSUME SignInvariant, NEW o \in Honest,
           \/ Deliver(o) \/ Crash(o)
           \/ \E j \in Job : DoppelgangerRefuses(o, j) \/ Timeout(o, j) \/ Propose(o, j)
    PROVE  SignInvariant'
<1> DEFINE Kept(p, k) ==
               \/ task'[p][k].phase \notin {"permitted", "registered", "waiting", "asking"}
               \/ /\ task[p][k].phase \in {"registered", "waiting", "asking"}
                  /\ task'[p][k].phase \in {"registered", "waiting", "asking"}
                  /\ task'[p][k].root = task[p][k].root
               \/ task'[p][k] = task[p][k]
           Goal == /\ task' \in [Honest -> [Job -> Task]]
                   /\ notes' \in [Honest -> [Root -> Job \union {None}]]
                   /\ \A p \in Honest, k \in Job : Kept(p, k)
<1>1. UNCHANGED <<slashing, store, aggregated>>
  BY DEF Deliver, Commit, NotifyOne, Crash, DoppelgangerRefuses, Timeout, Propose, persistent
<1>2. task \in [Honest -> [Job -> Task]] /\ notes \in [Honest -> [Root -> Job \union {None}]]
  BY DEF SignInvariant, SignTypes
<1>3. ASSUME UNCHANGED <<task, notes>> PROVE Goal
  BY <1>2, <1>3
<1>4. ASSUME NEW j \in Job, task[o][j].phase \in {"registered", "waiting"}, EndConsensus(o, j) PROVE Goal
  <2>1. task[o][j].root \in Root
    BY <1>4, SMTT(30) DEF SignInvariant, SignTypes, TasksRecorded
  <2>2. PICK u \in Task : task' = [task EXCEPT ![o][j] = u] /\ u.phase = "asking" /\ u.root = task[o][j].root
    <3>1. task' = [task EXCEPT ![o][j] = [task[o][j] EXCEPT !.phase = "asking", !.notify = None]]
      BY <1>2, <1>4, Zenon DEF EndConsensus
    <3>2. "asking" \in Phase /\ task[o][j] \in Task
      BY <1>2 DEF Phase
    <3> QED
      BY <3>1, <3>2, TaskNotified, Zenon
  <2>3. notes' = [notes EXCEPT ![o][task[o][j].root] = None]
    BY <1>4 DEF EndConsensus
  <2> QED
    BY <1>2, <1>4, <2>1, <2>2, <2>3
<1>5. ASSUME NEW r \in Root, NotifyOne(o, r) PROVE Goal
  BY <1>3, <1>4, <1>5 DEF NotifyOne
<1>6. ASSUME NEW r \in Root, Commit(o, r) PROVE Goal
  BY <1>3, <1>6 DEF Commit
<1>7. ASSUME Crash(o) PROVE Goal
  BY <1>2, <1>7, TaskIdle DEF Crash
<1>8. ASSUME NEW j \in Job, DoppelgangerRefuses(o, j) PROVE Goal
  <2>1. PICK u \in Task : task' = [task EXCEPT ![o][j] = u] /\ u.phase = "refused"
    <3>1. task' = [task EXCEPT ![o][j] = [task[o][j] EXCEPT !.phase = "refused"]]
      BY <1>2, <1>8 DEF DoppelgangerRefuses, To
    <3>2. "refused" \in Phase /\ task[o][j] \in Task
      BY <1>2 DEF Phase
    <3> QED
      BY <3>1, <3>2, TaskChanged, ZenonT(60)
  <2> QED
    BY <1>2, <1>8, <2>1 DEF DoppelgangerRefuses
<1>9. ASSUME NEW j \in Job, Timeout(o, j) PROVE Goal
  <2>1. PICK u \in Task : task' = [task EXCEPT ![o][j] = u] /\ u.phase \in {"idle", "failed"}
    <3>1. task' = [task EXCEPT ![o][j] = Failed(j, task[o][j].root)]
      BY <1>9 DEF Timeout
    <3>2. "failed" \in Phase /\ task[o][j].root \in Root \union {None}
      BY <1>2 DEF Phase, Task
    <3>3. Failed(j, task[o][j].root) \in Task /\ Failed(j, task[o][j].root).phase \in {"idle", "failed"}
      <4> DEFINE f == [NoTask EXCEPT !.phase = "failed", !.root = task[o][j].root]
      <4>1. f \in Task /\ f.phase = "failed"
        BY <3>2, TaskWritten, ZenonT(60)
      <4>2. Failed(j, task[o][j].root) \in {NoTask, f}
        BY DEF Failed
      <4> HIDE DEF f
      <4> QED
        BY <4>1, <4>2, TaskIdle, SMTT(30)
    <3> QED
      BY <3>1, <3>3, Zenon
  <2> QED
    BY <1>2, <1>9, <2>1 DEF Timeout
<1>10. ASSUME NEW j \in Job, Propose(o, j) PROVE Goal
  <2>1. CASE EndConsensus(o, j)
    BY <1>4, <1>10, <2>1 DEF Propose
  <2>2. CASE To(o, j, "waiting") /\ UNCHANGED notes
    <3>1. PICK u \in Task : task' = [task EXCEPT ![o][j] = u] /\ u.phase = "waiting" /\ u.root = task[o][j].root
      <4>1. task' = [task EXCEPT ![o][j] = [task[o][j] EXCEPT !.phase = "waiting"]]
        BY <1>2, <2>2 DEF To
      <4>2. "waiting" \in Phase /\ task[o][j] \in Task
        BY <1>2 DEF Phase
      <4> QED
        BY <4>1, <4>2, TaskChanged, Zenon
    <3> QED
      BY <1>2, <1>10, <2>2, <3>1 DEF Propose
  <2> QED
    BY <1>10, <2>1, <2>2, SMTT(30) DEF Propose, Await
<1> HIDE DEF Goal
<1>11. Goal
  BY <1>5, <1>6, <1>7, <1>8, <1>9, <1>10 DEF Deliver
<1> QED
  BY <1>1, <1>11, DatabasesUntouched DEF Goal

\* Every step keeps SignInvariant.
LEMMA SignInvariantHolds == Spec => []SignInvariant
<1>1. Init => SignInvariant
  BY DEF Init, SignInvariant, SignTypes, TasksRecorded, RecordsSafe, NoTask, Task, Phase
<1>2. SignInvariant /\ [Next]_vars => SignInvariant'
  <2> SUFFICES ASSUME SignInvariant, [Next]_vars PROVE SignInvariant'
    OBVIOUS
  <2>1. CASE UNCHANGED vars
    BY <2>1, DatabasesUntouched DEF vars, persistent, SignInvariant, SignTypes
  <2>2. ASSUME NEW o \in Honest, NEW j \in Job, NEW r \in Candidate[j], Request(o, j, r)
        PROVE  SignInvariant'
    <3>1. r \in Root /\ ~Contested(r)
      BY <2>2, SigningAssumption, Zenon DEF Root, Contested, Request, Slashable
    <3> QED
      BY <2>2, <3>1, SignatureKeepsInvariant DEF Request
  <2>3. ASSUME NEW o \in Honest, NEW j \in Job, SignPermitted(o, j)
        PROVE  SignInvariant'
    <3>1. task[o][j].root \in slashing[o] /\ task[o][j].root \in Root
      BY <2>3 DEF SignPermitted, SignInvariant, SignTypes, TasksRecorded
    <3> QED
      BY <2>3, <3>1, SignatureKeepsInvariant DEF SignPermitted
  <2> QED
    BY <2>1, <2>2, <2>3, RecordKeepsInvariant, AskKeepsInvariant, OtherStepsKeepInvariant
    DEF Next, Work
<1> QED
  BY <1>1, <1>2, PTL DEF Spec

\* Whatever heads the beacon nodes of the operators show, and whatever crashes, is lost or
\* times out, the validator's signatures do not conflict: check_and_insert comes before
\* local_sign_and_store at every honest operator, both are on disk, and two sets that
\* aggregate share an honest operator.
THEOREM CommitteeIsSlashingSafe == Spec => []NoConflictSigned
<1>1. SignInvariant => NoConflictSigned
  <2> SUFFICES ASSUME SignInvariant, NEW r \in aggregated, NEW q \in aggregated, <<r, q>> \in Conflict
               PROVE  FALSE
    BY Zenon DEF NoConflictSigned
  <2>1. r \in Root /\ q \in Root /\ Contested(r) /\ Contested(q)
    BY SigningAssumption, Zenon DEF SignInvariant, SignTypes, Contested
  <2>2. PICK A \in SUBSET Operator : Cardinality(A) >= Threshold /\ \A p \in A \cap Honest : r \in store[p]
    BY DEF SignInvariant, Backed
  <2>3. PICK B \in SUBSET Operator : Cardinality(B) >= Threshold /\ \A p \in B \cap Honest : q \in store[p]
    BY DEF SignInvariant, Backed
  <2>4. PICK p \in A \cap B : p \in Honest
    BY <2>2, <2>3, ThresholdAssumption
  <2>5. r \in slashing[p] /\ q \in slashing[p]
    BY <2>1, <2>2, <2>3, <2>4 DEF SignInvariant, RecordsSafe
  <2> QED
    BY <2>4, <2>5 DEF SignInvariant, RecordsSafe
<1> QED
  BY <1>1, SignInvariantHolds, PTL
==============================================================================
