---------------------------- MODULE PipelineProofs ----------------------------
(* What the path from a log to its command guarantees, for any number of blocks, *)
(* owners, commands, clock ticks, failures and crashes.  The scanner and the      *)
(* command table are proved by themselves first; a step of the pipeline is a step *)
(* of each of them or leaves its variables alone.                                 *)
EXTENDS Pipeline, TLAPS

ScanSteps == Init /\ [][Next]_vars

QueueSteps == QueueInit /\ [][QueueNext]_queueVars
------------------------------------------------------------------------------
\* The part of TypeOK that the proof uses, and: no log and no record is ahead of
\* the chain.
ScanType ==
    /\ head \in Nat
    /\ failures \in Nat
    /\ logs \subseteq Log
    /\ \A l \in logs : l.block <= head
    /\ record \in 0 .. head + 1
    /\ \A n \in file : n \in 0 .. head + 1
    /\ batch \subseteq logs
    /\ pc \in {"down", "idle", "current", "truncate", "write"} => batch = {}

\* Every step of the scanner keeps the types.
LEMMA ScanTypeInvariant == ScanSteps => []ScanType
<1>1. Init => ScanType
  BY LogScannerAssumption DEF Init, ScanType
<1>2. ScanType /\ [Next]_vars => ScanType'
  <2> SUFFICES ASSUME ScanType, [Next]_vars PROVE ScanType'
    OBVIOUS
  <2> USE LogScannerAssumption DEF ScanType
  <2>1. CASE Mine
    BY <2>1 DEF Mine, Log
  <2>2. CASE QueryVa
    BY <2>2 DEF QueryVa, GetLogs, Answers, Matching, Fails
  <2>3. CASE QueryInitiator
    BY <2>3 DEF QueryInitiator, GetLogs, Answers, Matching, Fails
  <2>4. CASE GetCurrentBlock
    BY <2>4 DEF GetCurrentBlock, Fails
  <2>5. CASE HandleLog
    BY <2>5, SMTT(20) DEF HandleLog, Log, Fails
  <2>6. CASE TruncateRecordFile \/ WriteRecordFile
    BY <2>6 DEF TruncateRecordFile, WriteRecordFile
  <2>7. CASE Crash
    BY <2>7 DEF Crash
  <2>8. CASE Boot
    BY <2>8 DEF Boot
  <2>9. CASE UNCHANGED vars
    BY <2>9 DEF vars
  <2> QED
    BY <2>1, <2>2, <2>3, <2>4, <2>5, <2>6, <2>7, <2>8, <2>9 DEF Next, Poll
<1> QED
  BY <1>1, <1>2, PTL DEF ScanSteps

\* A request covers every log of its topic that is on the chain.
LEMMA RequestCovers ==
    ASSUME NEW t, GetLogs(t), ScanType
    PROVE  \A l \in logs : l.topic = t /\ l.block >= record =>
               l \in batch' \union excused'
  BY DEF GetLogs, Answers, Matching

\* Every step of the scanner keeps ScanInvariant: the requests, the handlers, the two
\* steps of update_record_file, a crash and a start.
THEOREM ScanInvariance == ScanSteps => []ScanInvariant
<1>1. Init => ScanInvariant
  BY DEF Init, ScanInvariant, SavedLogsAreHandled, Covered
<1>2. ScanType /\ ScanInvariant /\ [Next]_vars => ScanInvariant'
  <2> SUFFICES ASSUME ScanType, ScanInvariant, [Next]_vars PROVE ScanInvariant'
    OBVIOUS
  <2> USE DEF ScanType, ScanInvariant, Covered, SavedLogsAreHandled
  <2>1. CASE Mine
    <3>1. PICK S \in SUBSET {l \in Log : l.block = head + 1} :
            logs' = logs \union S /\ excused' = excused \union {l \in S : TooLate(l)}
      BY <2>1 DEF Mine
    <3>2. /\ head' = head + 1
          /\ UNCHANGED <<record, file, pc, batch, done>>
      BY <2>1 DEF Mine
    <3>3. \A l \in S : l.block = head + 1 /\ l.topic \in Topic
      BY <3>1 DEF Log
    <3> QED
      BY <3>1, <3>2, <3>3 DEF Log, TooLate
  <2>2. CASE QueryVa
    <3>1. \A l \in logs : l.topic = "va" /\ l.block >= record => l \in batch' \union excused'
      BY <2>2, RequestCovers DEF QueryVa
    <3>2. excused \subseteq excused' /\ batch \subseteq batch'
      BY <2>2 DEF QueryVa, GetLogs
    <3> QED
      BY <2>2, <3>1, <3>2 DEF QueryVa, Log
  <2>3. CASE QueryInitiator
    <3>1. \A l \in logs : l.topic = "initiator" /\ l.block >= record => l \in batch' \union excused'
      BY <2>3, RequestCovers DEF QueryInitiator
    <3>2. excused \subseteq excused' /\ batch \subseteq batch'
      BY <2>3 DEF QueryInitiator, GetLogs
    <3> QED
      BY <2>3, <3>1, <3>2 DEF QueryInitiator, Log, Topic
  <2>4. CASE GetCurrentBlock
    BY <2>4 DEF GetCurrentBlock
  <2>5. CASE HandleLog
    BY <2>5 DEF HandleLog, Log, Before
  <2>6. CASE TruncateRecordFile \/ WriteRecordFile
    BY <2>6 DEF TruncateRecordFile, WriteRecordFile
  <2>7. CASE Crash
    BY <2>7 DEF Crash
  <2>8. CASE Boot
    BY <2>8 DEF Boot, Log
  <2>9. CASE UNCHANGED vars
    BY <2>9 DEF vars
  <2> QED
    BY <2>1, <2>2, <2>3, <2>4, <2>5, <2>6, <2>7, <2>8, <2>9 DEF Next, Poll
<1> QED
  BY <1>1, <1>2, ScanTypeInvariant, PTL DEF ScanSteps

------------------------------------------------------------------------------
\* What keeps the handlers in order: the logs handled since the start are below the
\* record and before every log that waits, and, from the first request of a poll on,
\* below the head, because the chain has grown since the end of the last poll.
OrderInvariant ==
    /\ handled \in Seq(Log)
    /\ polled \in Nat
    /\ \A i \in 1 .. Len(handled) :
        /\ handled[i].block <= head
        /\ pc = "idle" => handled[i].block <= polled
        /\ pc \in {"initiator", "current"} => handled[i].block < head
        /\ pc /= "down" => handled[i].block < record
        /\ \A k \in batch : Before(handled[i], k)
    /\ pc = "down" => handled = << >>
    /\ \A i, j \in 1 .. Len(handled) : i < j => Before(handled[i], handled[j])

\* No log is handled twice or after a newer one between two starts of the process.
THEOREM HandledInOrderByScanner == ScanSteps => []HandledInOrder
<1>1. Init => OrderInvariant
  BY SMTT(20) DEF Init, OrderInvariant
<1>2. ScanType /\ OrderInvariant /\ [Next]_vars => OrderInvariant'
  <2> SUFFICES ASSUME ScanType, OrderInvariant, [Next]_vars PROVE OrderInvariant'
    OBVIOUS
  <2> USE DEF ScanType, OrderInvariant
  <2>0. \A l \in Log : l.block \in Nat
    BY LogScannerAssumption DEF Log
  <2>1. CASE Mine
    BY <2>0, <2>1 DEF Mine
  <2>2. CASE QueryVa
    BY <2>0, <2>2 DEF QueryVa, GetLogs, Answers, Matching, Before
  <2>3. CASE QueryInitiator
    BY <2>0, <2>3 DEF QueryInitiator, GetLogs, Answers, Matching, Before
  <2>4. CASE GetCurrentBlock
    BY <2>0, <2>4 DEF GetCurrentBlock
  <2>5. CASE HandleLog
    <3>1. PICK l \in batch :
            /\ \A k \in batch \ {l} : Before(l, k)
            /\ record' = l.block + 1
            /\ handled' = Append(handled, l)
            /\ batch' = batch \ {l}
            /\ pc' = IF batch' = {} THEN "truncate" ELSE "handle"
      BY <2>5 DEF HandleLog
    <3>2. /\ handled' \in Seq(Log)
          /\ Len(handled') = Len(handled) + 1
          /\ handled'[Len(handled) + 1] = l
          /\ \A i \in 1 .. Len(handled) : handled'[i] = handled[i]
      BY <3>1
    <3>3. UNCHANGED <<head, polled>> /\ l \in Log /\ l.block <= head
      BY <2>5, <3>1 DEF HandleLog
    <3>4. \A i \in 1 .. Len(handled) : handled[i].block <= l.block
      BY <2>0, <3>1, <3>3, SMTT(20) DEF Before
    <3> QED
      BY <2>0, <2>5, <3>1, <3>2, <3>3, <3>4, SMTT(20) DEF HandleLog
  <2>6. CASE TruncateRecordFile \/ WriteRecordFile
    BY <2>6 DEF TruncateRecordFile, WriteRecordFile
  <2>7. CASE Crash
    BY <2>7 DEF Crash
  <2>8. CASE Boot
    BY <2>8 DEF Boot
  <2>9. CASE UNCHANGED vars
    BY <2>9 DEF vars
  <2> QED
    BY <2>1, <2>2, <2>3, <2>4, <2>5, <2>6, <2>7, <2>8, <2>9 DEF Next, Poll
<1>3. OrderInvariant => HandledInOrder
  <2> SUFFICES ASSUME OrderInvariant,
                      NEW i \in DOMAIN handled, NEW j \in DOMAIN handled, i < j
               PROVE  handled[i] /= handled[j] /\ handled[i].block <= handled[j].block
    BY DEF HandledInOrder
  <2>1. i \in 1 .. Len(handled) /\ j \in 1 .. Len(handled)
    BY DEF OrderInvariant
  <2>2. Before(handled[i], handled[j]) /\ handled[i] \in Log /\ handled[j] \in Log
    BY <2>1 DEF OrderInvariant
  <2> QED
    BY <2>2, LogScannerAssumption DEF Before, Log
<1> QED
  BY <1>1, <1>2, <1>3, ScanTypeInvariant, PTL DEF ScanSteps
------------------------------------------------------------------------------
\* Every step of the command table and of process_contract_command keeps the
\* types, and the command in execution keeps its row until its handler returns.
THEOREM TypeCorrect == QueueSteps => []QueueTypeOK
<1>1. QueueInit => QueueTypeOK
  BY CommandQueueAssumption DEF QueueInit, QueueTypeOK
<1>2. QueueTypeOK /\ [QueueNext]_queueVars => QueueTypeOK'
  <2> SUFFICES ASSUME QueueTypeOK, [QueueNext]_queueVars PROVE QueueTypeOK'
    OBVIOUS
  <2> USE CommandQueueAssumption DEF QueueTypeOK
  <2>1. ASSUME NEW v \in Id, InsertContractCommand(v) PROVE QueueTypeOK'
    BY <2>1 DEF InsertContractCommand, Row, Command, RowsOf
  <2>2. CASE GetContractCommand
    <3>1. PICK r \in rows :
            /\ fetched' = [va |-> r.va, seq |-> r.seq]
            /\ rows' = (rows \ {r}) \union {[r EXCEPT !.time = now]}
      BY <2>2 DEF GetContractCommand
    <3>2. [r EXCEPT !.time = now] \in Row
      BY <3>1 DEF Row
    <3>3. [r EXCEPT !.time = now] \in RowsOf(fetched)'
      BY <3>1 DEF RowsOf, Row
    <3> QED
      BY <2>2, <3>1, <3>2, <3>3 DEF GetContractCommand, Row, Command
  <2>3. CASE CommandSucceeds
    BY <2>3 DEF CommandSucceeds, DeleteContractCommand, Row, Command, RowsOf
  <2>4. CASE CommandFails
    BY <2>4 DEF CommandFails, UpdatetimeContractCommand, Row, Command, RowsOf
  <2>5. CASE QueueCrash
    BY <2>5 DEF QueueCrash, RowsOf
  <2>6. CASE Tick
    BY <2>6 DEF Tick, RowsOf
  <2>7. CASE UNCHANGED queueVars
    BY <2>7 DEF queueVars, RowsOf
  <2> QED
    BY <2>1, <2>2, <2>3, <2>4, <2>5, <2>6, <2>7 DEF QueueNext
<1> QED
  BY <1>1, <1>2, PTL DEF QueueSteps

\* Renewing the update_time of a row, as get_contract_command does, leaves the
\* waiting commands of every owner as they are.
LEMMA RenewKeepsWaiting ==
    ASSUME rows \subseteq Row, NEW r \in rows, NEW t \in 0 .. MaxTime,
           rows' = (rows \ {r}) \union {[r EXCEPT !.time = t]}
    PROVE  Waiting' = Waiting
<1> DEFINE n == [r EXCEPT !.time = t]
<1>1. n \in rows' /\ n.va = r.va /\ n.seq = r.seq
  BY DEF Row
<1>2. ASSUME NEW v \in Id
      PROVE  {s.seq : s \in {u \in rows' : u.va = v}} = {s.seq : s \in {u \in rows : u.va = v}}
  <2>1. \A s \in rows' : s.va = v => \E u \in rows : u.va = v /\ u.seq = s.seq
    BY <1>1, Zenon
  <2>2. \A s \in rows : s.va = v => \E u \in rows' : u.va = v /\ u.seq = s.seq
    BY <1>1, Zenon
  <2> QED
    BY <2>1, <2>2
<1> QED
  BY <1>2 DEF Waiting

\* Deleting the rows of a command removes its number from its owner's queue and
\* leaves the queues of the other owners as they are.
LEMMA DeleteShortensQueue ==
    ASSUME rows \subseteq Row, NEW c \in Command, rows' = rows \ RowsOf(c)
    PROVE  Waiting' = [Waiting EXCEPT ![c.va] = @ \ {c.seq}]
<1>1. ASSUME NEW v \in Id
      PROVE  {s.seq : s \in {u \in rows' : u.va = v}}
                = IF v = c.va THEN {s.seq : s \in {u \in rows : u.va = v}} \ {c.seq}
                              ELSE {s.seq : s \in {u \in rows : u.va = v}}
  BY <1>1 DEF RowsOf
<1> QED
  BY <1>1, Zenon DEF Waiting, Command

\* The detailed table, with its selection by update_time and its ties between
\* timestamps, implements the queues of CommandFifo.
THEOREM Refinement == QueueSteps => ImplementsFifo
<1>1. QueueInit => Fifo!Init
  BY DEF QueueInit, Fifo!Init, Waiting
<1>2. QueueTypeOK /\ [QueueNext]_queueVars => [Fifo!Next]_<<Waiting, sequence, fetched>>
  <2> SUFFICES ASSUME QueueTypeOK, [QueueNext]_queueVars
               PROVE  Fifo!Next \/ UNCHANGED <<Waiting, sequence, fetched>>
    OBVIOUS
  <2>1. ASSUME NEW v \in Id, InsertContractCommand(v) PROVE Fifo!Enqueue(v)
    <3>1. ASSUME NEW w \in Id
          PROVE  {s.seq : s \in {u \in rows' : u.va = w}}
                    = IF w = v THEN {s.seq : s \in {u \in rows : u.va = w}} \union {sequence[v] + 1}
                               ELSE {s.seq : s \in {u \in rows : u.va = w}}
      <4>1. PICK n : n.va = v /\ n.seq = sequence[v] + 1 /\ rows' = rows \union {n}
        BY <2>1, Zenon DEF InsertContractCommand
      <4> QED
        BY <4>1
    <3>2. Waiting' = [Waiting EXCEPT ![v] = @ \union {sequence[v] + 1}]
      BY <3>1, Zenon DEF Waiting
    <3> QED
      BY <2>1, <3>2 DEF InsertContractCommand, Fifo!Enqueue
  <2>2. CASE GetContractCommand
    <3>1. PICK r \in rows :
            /\ Selected(r)
            /\ fetched' = [va |-> r.va, seq |-> r.seq]
            /\ rows' = (rows \ {r}) \union {[r EXCEPT !.time = now]}
      BY <2>2 DEF GetContractCommand
    <3>2. Waiting' = Waiting
      BY <3>1, RenewKeepsWaiting DEF QueueTypeOK
    <3>3. r.seq \in Waiting[r.va] /\ \A k \in Waiting[r.va] : r.seq <= k
      BY <3>1 DEF Waiting, Selected, QueueTypeOK, Row
    <3>4. r.va \in Id
      BY <3>1 DEF QueueTypeOK, Row
    <3>5. Fifo!Begin(r.va)
      BY <2>2, <3>1, <3>2, <3>3 DEF Fifo!Begin, GetContractCommand
    <3> QED
      BY <3>4, <3>5 DEF Fifo!Next
  <2>3. CASE CommandSucceeds
    BY <2>3, DeleteShortensQueue
    DEF CommandSucceeds, DeleteContractCommand, QueueTypeOK, Fifo!Finish, Fifo!Next
  <2>4. CASE CommandFails
    BY <2>4, DeleteShortensQueue
    DEF CommandFails, UpdatetimeContractCommand, QueueTypeOK, Fifo!Finish, Fifo!Next
  <2>5. CASE QueueCrash
    BY <2>5 DEF QueueCrash, Fifo!Crash, Fifo!Next, Waiting
  <2>6. CASE Tick
    BY <2>6 DEF Tick, Waiting
  <2>7. CASE UNCHANGED queueVars
    BY <2>7 DEF queueVars, Waiting
  <2> QED
    BY <2>1, <2>2, <2>3, <2>4, <2>5, <2>6, <2>7 DEF QueueNext, Fifo!Next
<1> QED
  BY <1>1, <1>2, TypeCorrect, PTL DEF QueueSteps, ImplementsFifo, Fifo!Spec, Fifo!vars
------------------------------------------------------------------------------
\* Every step of the pipeline is a step of the scanner or leaves it alone.
LEMMA ScannerPart == PipelineSpec => ScanSteps
<1>1. PipelineInit => Init
  BY DEF PipelineInit
<1>2. [PipelineNext]_pipelineVars => [Next]_vars
  BY DEF PipelineNext, pipelineVars, Handle, Scan, Insert, Execute, Clock, Stop, Next, Poll
<1> QED
  BY <1>1, <1>2, PTL DEF PipelineSpec, ScanSteps

\* The channel holds logs that have been handled.
ChannelType == channel \in Seq(Log) /\ \A i \in 1 .. Len(channel) : channel[i] \in logs

\* Every step of the pipeline keeps the type of the channel.
LEMMA ChannelTypeInvariant == PipelineSpec => []ChannelType
<1>1. PipelineInit => ChannelType
  BY DEF PipelineInit, ChannelType
<1>2. ScanType /\ ChannelType /\ [PipelineNext]_pipelineVars => ChannelType'
  <2> SUFFICES ASSUME ScanType, ChannelType, [PipelineNext]_pipelineVars PROVE ChannelType'
    OBVIOUS
  <2> USE DEF ChannelType, ScanType
  <2>1. CASE Handle
    <3>1. PICK l \in batch : channel' = Append(channel, l) \/ channel' = channel
      BY <2>1 DEF Handle, Sent
    <3>2. logs' = logs
      BY <2>1 DEF Handle, HandleLog
    <3> QED
      BY <3>1, <3>2
  <2>2. CASE Scan
    <3>1. channel' = channel /\ logs \subseteq logs'
      BY <2>2 DEF Scan, Mine, QueryVa, QueryInitiator, GetCurrentBlock, TruncateRecordFile,
                  WriteRecordFile, Boot
    <3> QED
      BY <3>1
  <2>3. CASE Insert
    <3>1. channel /= << >> /\ channel' = Tail(channel) /\ logs' = logs
      BY <2>3 DEF Insert, vars
    <3> QED
      BY <3>1
  <2>4. CASE Execute \/ Clock \/ UNCHANGED pipelineVars
    BY <2>4 DEF Execute, Clock, pipelineVars, vars
  <2>5. CASE Stop
    BY <2>5 DEF Stop, Crash
  <2> QED
    BY <2>1, <2>2, <2>3, <2>4, <2>5 DEF PipelineNext
<1> QED
  BY <1>1, <1>2, ScannerPart, ScanTypeInvariant, PTL DEF PipelineSpec

\* Every step of the pipeline is a step of the command table or leaves it alone.
LEMMA TablePart == PipelineSpec => QueueSteps
<1>1. PipelineInit => QueueInit
  BY DEF PipelineInit
<1>2. ChannelType /\ [PipelineNext]_pipelineVars => [QueueNext]_queueVars
  <2> SUFFICES ASSUME ChannelType, [PipelineNext]_pipelineVars
               PROVE  QueueNext \/ UNCHANGED queueVars
    OBVIOUS
  <2>1. CASE Insert
    <3>1. InsertContractCommand(Owner(Head(channel))) /\ channel /= << >>
      BY <2>1 DEF Insert
    <3>2. Head(channel) \in Log
      BY <3>1 DEF ChannelType
    <3>3. Owner(Head(channel)) \in Id
      BY <3>2, OwnerAssumption DEF Owner, Log
    <3> QED
      BY <3>1, <3>3 DEF QueueNext
  <2>2. CASE ~Insert
    BY <2>2 DEF PipelineNext, pipelineVars, Handle, Scan, Execute, Clock, Stop, QueueNext
  <2> QED
    BY <2>1, <2>2
<1> QED
  BY <1>1, <1>2, ChannelTypeInvariant, PTL DEF PipelineSpec, QueueSteps

\* In the composed process a log below the saved record was handled or is one of the
\* exceptions that SavedLogsAreHandled names.
THEOREM NothingElseIsMissed == PipelineSpec => []SavedLogsAreHandled
<1>1. ScanInvariant => SavedLogsAreHandled
  BY DEF ScanInvariant
<1> QED
  BY <1>1, ScannerPart, ScanInvariance, PTL

\* In the composed process no log is handled twice or after a newer one between two
\* starts.
THEOREM HandlersRunInOrder == PipelineSpec => []HandledInOrder
  BY ScannerPart, HandledInOrderByScanner, PTL

\* In the composed process the command table is one first-in first-out queue for
\* every owner.
THEOREM TableIsFifo == PipelineSpec => ImplementsFifo
  BY TablePart, Refinement, PTL

------------------------------------------------------------------------------
Cmd(v, n) == [va |-> v, seq |-> n]

\* What the table keeps of the order of an owner's commands: every number given out
\* is executed or has a row, and what is executed or in execution has nothing
\* unexecuted before it.
ServedInOrder ==
    /\ \A r \in rows : r.seq <= sequence[r.va]
    /\ \A v \in Id : \A n \in 1 .. sequence[v] :
        Cmd(v, n) \in executed \/ \E r \in rows : r.va = v /\ r.seq = n
    /\ \A c \in executed : \A n \in 1 .. c.seq : Cmd(c.va, n) \in executed
    /\ fetched /= Idle => \A n \in 1 .. fetched.seq : n < fetched.seq => Cmd(fetched.va, n) \in executed

\* Every step of the command table and of process_contract_command keeps that order.
LEMMA ServedInOrderInvariant == QueueSteps => []ServedInOrder
<1>1. QueueInit => ServedInOrder
  BY DEF QueueInit, ServedInOrder
<1>2. QueueTypeOK /\ ServedInOrder /\ [QueueNext]_queueVars => ServedInOrder'
  <2> SUFFICES ASSUME QueueTypeOK, ServedInOrder, [QueueNext]_queueVars PROVE ServedInOrder'
    OBVIOUS
  <2> USE CommandQueueAssumption DEF QueueTypeOK, ServedInOrder, Cmd
  <2>1. ASSUME NEW v \in Id, InsertContractCommand(v) PROVE ServedInOrder'
    <3>1. PICK n : /\ n = [va |-> v, seq |-> sequence[v] + 1, time |-> now]
                   /\ rows' = rows \union {n}
                   /\ sequence' = [sequence EXCEPT ![v] = @ + 1]
                   /\ UNCHANGED <<fetched, executed>>
      BY <2>1, Zenon DEF InsertContractCommand
    <3>2. \A r \in rows' : r.seq <= sequence'[r.va]
      BY <3>1 DEF Row
    <3>3. \A w \in Id : \A k \in 1 .. sequence'[w] :
            Cmd(w, k) \in executed' \/ \E r \in rows' : r.va = w /\ r.seq = k
      <4> SUFFICES ASSUME NEW w \in Id, NEW k \in 1 .. sequence'[w]
                   PROVE  Cmd(w, k) \in executed' \/ \E r \in rows' : r.va = w /\ r.seq = k
        BY Zenon
      <4>1. CASE w = v /\ k = sequence[v] + 1
        <5>1. n \in rows' /\ n.va = w /\ n.seq = k
          BY <3>1, <4>1
        <5> QED
          BY <5>1
      <4>2. CASE ~(w = v /\ k = sequence[v] + 1)
        <5>1. k \in 1 .. sequence[w]
          BY <3>1, <4>2
        <5>2. Cmd(w, k) \in executed \/ \E r \in rows : r.va = w /\ r.seq = k
          BY <5>1
        <5> QED
          BY <3>1, <5>2
      <4> QED
        BY <4>1, <4>2
    <3> QED
      BY <3>1, <3>2, <3>3
  <2>2. CASE GetContractCommand
    <3>1. PICK r \in rows :
            /\ \A s \in rows : s.va = r.va => r.seq <= s.seq
            /\ fetched' = [va |-> r.va, seq |-> r.seq]
            /\ rows' = (rows \ {r}) \union {[r EXCEPT !.time = now]}
      BY <2>2 DEF GetContractCommand, Selected
    <3>2. UNCHANGED <<sequence, executed>>
      BY <2>2 DEF GetContractCommand
    <3>3. [r EXCEPT !.time = now].va = r.va /\ [r EXCEPT !.time = now].seq = r.seq
      BY DEF Row
    <3>4. \A n \in 1 .. r.seq : n < r.seq => Cmd(r.va, n) \in executed
      BY <3>1 DEF Row
    <3>5. \A v \in Id : \A n \in 1 .. sequence[v] :
            Cmd(v, n) \in executed \/ \E s \in rows' : s.va = v /\ s.seq = n
      <4> SUFFICES ASSUME NEW v \in Id, NEW n \in 1 .. sequence[v]
                   PROVE  Cmd(v, n) \in executed \/ \E s \in rows' : s.va = v /\ s.seq = n
        BY Zenon
      <4>1. ASSUME NEW s \in rows, s.va = v, s.seq = n
            PROVE  \E t \in rows' : t.va = v /\ t.seq = n
        BY <3>1, <3>3, <4>1, Zenon
      <4>2. Cmd(v, n) \in executed \/ \E s \in rows : s.va = v /\ s.seq = n
        OBVIOUS
      <4> QED
        BY <4>1, <4>2
    <3>6. \A s \in rows' : s.seq <= sequence[s.va]
      BY <3>1, <3>3, Zenon
    <3> QED
      BY <3>1, <3>2, <3>4, <3>5, <3>6
  <2>3. CASE CommandSucceeds \/ CommandFails
    <3>1. /\ fetched \in Command
          /\ rows' = rows \ RowsOf(fetched)
          /\ executed' = executed \union {fetched}
          /\ fetched' = Idle
          /\ sequence' = sequence
      BY <2>3 DEF CommandSucceeds, CommandFails, DeleteContractCommand, UpdatetimeContractCommand
    <3>2. Cmd(fetched.va, fetched.seq) = fetched
      BY <3>1 DEF Command
    <3>3. \A v \in Id : \A n \in 1 .. sequence[v] :
            Cmd(v, n) \in executed' \/ \E r \in rows' : r.va = v /\ r.seq = n
      <4> SUFFICES ASSUME NEW v \in Id, NEW n \in 1 .. sequence[v]
                   PROVE  Cmd(v, n) \in executed' \/ \E r \in rows' : r.va = v /\ r.seq = n
        BY Zenon
      <4>1. CASE Cmd(v, n) \in executed
        BY <3>1, <4>1, Zenon
      <4>2. ASSUME NEW r \in rows, r.va = v, r.seq = n
            PROVE  Cmd(v, n) \in executed' \/ \E t \in rows' : t.va = v /\ t.seq = n
        <5>1. CASE r \in RowsOf(fetched)
          <6>1. v = fetched.va /\ n = fetched.seq
            BY <4>2, <5>1, Zenon DEF RowsOf
          <6> QED
            BY <3>1, <3>2, <6>1, Zenon
        <5>2. CASE r \notin RowsOf(fetched)
          BY <3>1, <4>2, <5>2, Zenon
        <5> QED
          BY <5>1, <5>2, Zenon
      <4> QED
        BY <4>1, <4>2, Zenon
    <3>4. \A n \in 1 .. fetched.seq : Cmd(fetched.va, n) \in executed'
      BY <2>3, <3>1, <3>2 DEF Command, CommandSucceeds, CommandFails
    <3> QED
      BY <3>1, <3>3, <3>4
  <2>4. CASE QueueCrash \/ Tick \/ UNCHANGED queueVars
    BY <2>4 DEF QueueCrash, Tick, queueVars
  <2> QED
    BY <2>1, <2>2, <2>3, <2>4 DEF QueueNext
<1> QED
  BY <1>1, <1>2, TypeCorrect, PTL DEF QueueSteps

------------------------------------------------------------------------------
InChannel(l) == \E i \in 1 .. Len(channel) : channel[i] = l

Inserted(l) == \E s \in source : s.log = l

Older(k, l) == k.topic = l.topic /\ k.block < l.block

\* Every handled log has its command in the channel or in the table, or lost it in a
\* crash; and the older logs of the same owner are ahead of it in both.
ChainOrder ==
    /\ \A l \in done : l \in lost \/ InChannel(l) \/ Inserted(l)
    /\ \A s \in source :
        /\ s.log \in logs
        /\ s.va = s.log.topic
        /\ s.seq \in 1 .. sequence[s.va]
        /\ \A k \in logs : Older(k, s.log) =>
            \/ k \in excused \union lost
            \/ \E t \in source : t.log = k /\ t.seq < s.seq
    /\ \A i \in 1 .. Len(channel) : \A k \in logs : Older(k, channel[i]) =>
        \/ k \in excused \union lost
        \/ Inserted(k)
        \/ \E j \in 1 .. Len(channel) : j < i /\ channel[j] = k

\* Every step of the scanner other than a handler keeps ChainOrder: a new log is newer
\* than every log handled so far.
LEMMA ScanKeepsChainOrder ==
    ASSUME ScanType, ChannelType, ChainOrder, Scan PROVE ChainOrder'
<1>1. /\ UNCHANGED <<sequence, channel, source, lost, done>>
      /\ excused \subseteq excused'
      /\ logs \subseteq logs'
      /\ \A k \in logs' : k \in logs \/ k.block = head + 1
  BY DEF Scan, queueVars, Mine, QueryVa, QueryInitiator, GetLogs, GetCurrentBlock,
         TruncateRecordFile, WriteRecordFile, Boot
<1>2. \A k \in logs', l \in logs : Older(k, l) => k \in logs
  BY <1>1, LogScannerAssumption DEF ScanType, Older, Log
<1>3. \A l : InChannel(l)' = InChannel(l) /\ Inserted(l)' = Inserted(l)
  BY <1>1 DEF InChannel, Inserted
<1> QED
  BY <1>1, <1>2, <1>3 DEF ChainOrder, ChannelType, Older

\* A handler keeps ChainOrder: when it runs, the older logs have been handled.
LEMMA HandleKeepsChainOrder ==
    ASSUME ScanType, ScanInvariant, ChannelType, ChainOrder, Handle PROVE ChainOrder'
<1>1. PICK l \in batch :
        /\ \A k \in batch \ {l} : Before(l, k)
        /\ batch' = batch \ {l}
        /\ \/ done' = done \union {l} /\ UNCHANGED <<excused, failures>>
           \/ excused' = excused \union {l} /\ failures' = failures + 1 /\ UNCHANGED done
  BY DEF Handle, HandleLog, Fails
<1>2. UNCHANGED <<logs, sequence, source, lost>> /\ pc = "handle"
  BY DEF Handle, HandleLog, queueVars
<1>3. \A k \in logs : Older(k, l) => k \in done \union excused
  <2> SUFFICES ASSUME NEW k \in logs, Older(k, l) PROVE k \in done \union excused
    OBVIOUS
  <2>1. k.block \in Nat /\ l.block \in Nat
    BY LogScannerAssumption DEF ScanType, Log
  <2>2. k \in Covered
    BY <1>2, <2>1 DEF ScanInvariant, Older
  <2>3. k \notin batch
    BY <1>1, <2>1 DEF Older, Before
  <2> QED
    BY <2>2, <2>3 DEF Covered
<1>4. CASE channel' = Append(channel, l) /\ done' = done \union {l} /\ UNCHANGED excused
  <2>1. /\ Len(channel') = Len(channel) + 1
        /\ channel'[Len(channel) + 1] = l
        /\ \A i \in 1 .. Len(channel) : channel'[i] = channel[i]
        /\ Len(channel) \in Nat
    BY <1>4 DEF ChannelType
  <2>2. \A k : InChannel(k) => InChannel(k)'
    BY <2>1 DEF InChannel
  <2>3. InChannel(l)'
    BY <2>1 DEF InChannel
  <2>4. \A k : Inserted(k)' = Inserted(k)
    BY <1>2 DEF Inserted
  <2>5. \A k \in done' : k \in lost' \/ InChannel(k)' \/ Inserted(k)'
    BY <1>2, <1>4, <2>2, <2>3, <2>4 DEF ChainOrder
  <2>6. ASSUME NEW i \in 1 .. Len(channel'), NEW k \in logs', Older(k, channel'[i])
        PROVE  \/ k \in excused' \union lost'
               \/ Inserted(k)'
               \/ \E j \in 1 .. Len(channel') : j < i /\ channel'[j] = k
    <3>1. CASE i \in 1 .. Len(channel)
      BY <1>2, <1>4, <2>1, <2>4, <2>6, <3>1, SMTT(20) DEF ChainOrder
    <3>2. CASE i = Len(channel) + 1
      <4>1. k \in excused \union lost \/ InChannel(k) \/ Inserted(k)
        BY <1>2, <1>3, <2>1, <2>6, <3>2, SMTT(20) DEF ChainOrder
      <4> QED
        BY <1>2, <1>4, <2>1, <2>4, <3>2, <4>1 DEF InChannel
    <3> QED
      BY <2>1, <3>1, <3>2, SMTT(20)
  <2> QED
    BY <1>2, <1>4, <2>5, <2>6 DEF ChainOrder, Older
<1>5. CASE channel' = channel /\ done' = done /\ excused \subseteq excused'
  <2>1. \A k : InChannel(k)' = InChannel(k) /\ Inserted(k)' = Inserted(k)
    BY <1>2, <1>5 DEF InChannel, Inserted
  <2> QED
    BY <1>2, <1>5, <2>1 DEF ChainOrder, Older
<1>6. (batch \ batch') \subseteq {l}
  BY <1>1
<1>7. failures' = failures => channel' = Append(channel, l)
  BY <1>6 DEF Handle, Sent
<1>8. failures' /= failures => channel' = channel
  BY DEF Handle, Sent
<1>9. failures \in Nat
  BY SMTT(20) DEF ScanType
<1> QED
  BY <1>1, <1>4, <1>5, <1>7, <1>8, <1>9

\* The task of the database keeps ChainOrder: it inserts the oldest command of the
\* channel, with a number above all the numbers its owner has.
LEMMA InsertKeepsChainOrder ==
    ASSUME ScanType, QueueTypeOK, ChannelType, ChainOrder, Insert PROVE ChainOrder'
<1>1. PICK l, n :
      /\ l = Head(channel)
      /\ n = [va |-> l.topic, seq |-> sequence[l.topic] + 1, log |-> l]
      /\ channel /= << >>
      /\ sequence' = [sequence EXCEPT ![l.topic] = @ + 1]
      /\ source' = source \union {n}
      /\ channel' = Tail(channel)
      /\ UNCHANGED <<logs, done, excused, lost>>
  BY Zenon DEF Insert, InsertContractCommand, Owner, vars
<1>2. l = channel[1] /\ l \in logs /\ l \in Log /\ 1 \in 1 .. Len(channel)
  BY <1>1 DEF ChannelType
<1>3. l.topic \in Id /\ sequence \in [Id -> Nat]
  BY <1>2, OwnerAssumption, CommandQueueAssumption DEF Log, QueueTypeOK
<1>4. /\ Len(channel') = Len(channel) - 1
      /\ \A i \in 1 .. Len(channel') : channel'[i] = channel[i + 1]
      /\ Len(channel) \in Nat
  BY <1>1 DEF ChannelType
<1>5. \A k : Inserted(k) => Inserted(k)'
  BY <1>1 DEF Inserted
<1>6. Inserted(l)'
  BY <1>1 DEF Inserted
<1>7. \A k : InChannel(k) => k = l \/ InChannel(k)'
  <2> SUFFICES ASSUME NEW i \in 1 .. Len(channel), i /= 1
               PROVE  \E j \in 1 .. Len(channel') : channel'[j] = channel[i]
    BY <1>2 DEF InChannel
  <2>1. i - 1 \in 1 .. Len(channel') /\ channel'[i - 1] = channel[i]
    BY <1>4
  <2> QED
    BY <2>1
<1>8. \A k \in done' : k \in lost' \/ InChannel(k)' \/ Inserted(k)'
  BY <1>1, <1>5, <1>6, <1>7, SMTT(20) DEF ChainOrder
<1>9. \A k \in logs : Older(k, l) => k \in excused \union lost \/ Inserted(k)
  BY <1>1, <1>2 DEF ChainOrder
<1>10. \A t \in source : t.va = l.topic => t.seq < n.seq /\ t.seq \in Nat
  BY <1>1, <1>3 DEF ChainOrder
<1>11. \A k \in logs : Older(k, l) => k \in excused \union lost \/ \E t \in source' : t.log = k /\ t.seq < n.seq
  <2> SUFFICES ASSUME NEW k \in logs, Older(k, l), NEW t \in source, t.log = k
               PROVE  t.seq < n.seq
    BY <1>1, <1>9, SMTT(20) DEF Inserted
  <2>1. t.va = l.topic
    BY SMTT(20) DEF ChainOrder, Older
  <2> QED
    BY <1>10, <2>1
<1>12. ASSUME NEW s \in source'
       PROVE  /\ s.log \in logs'
              /\ s.va = s.log.topic
              /\ s.seq \in 1 .. sequence'[s.va]
              /\ \A k \in logs' : Older(k, s.log) =>
                    \/ k \in excused' \union lost'
                    \/ \E t \in source' : t.log = k /\ t.seq < s.seq
  <2>1. CASE s = n
    <3>1. n.log = l /\ n.va = l.topic /\ n.seq = sequence[l.topic] + 1
      BY <1>1
    <3> QED
      BY <1>1, <1>2, <1>3, <1>11, <2>1, <3>1
  <2>2. CASE s \in source
    <3>1. s.log \in logs /\ s.va = s.log.topic /\ s.seq \in 1 .. sequence[s.va]
      BY <2>2 DEF ChainOrder
    <3>2. sequence[s.va] <= sequence'[s.va] /\ sequence'[s.va] \in Nat /\ sequence[s.va] \in Nat
      <4>1. s.va \in Id
        BY <3>1, OwnerAssumption, SMTT(20) DEF ScanType, Log
      <4> QED
        BY <1>1, <1>3, <4>1
    <3>3. \A k \in logs : Older(k, s.log) =>
            k \in excused \union lost \/ \E t \in source : t.log = k /\ t.seq < s.seq
      BY <2>2 DEF ChainOrder
    <3> QED
      BY <1>1, <3>1, <3>2, <3>3, SMTT(20)
  <2> QED
    BY <1>1, <2>1, <2>2, SMTT(20)
<1>13. ASSUME NEW i \in 1 .. Len(channel'), NEW k \in logs', Older(k, channel'[i])
       PROVE  \/ k \in excused' \union lost'
              \/ Inserted(k)'
              \/ \E j \in 1 .. Len(channel') : j < i /\ channel'[j] = k
  <2>1. i + 1 \in 1 .. Len(channel) /\ channel'[i] = channel[i + 1]
    BY <1>4
  <2>2. \/ k \in excused \union lost
        \/ Inserted(k)
        \/ \E j \in 1 .. Len(channel) : j < i + 1 /\ channel[j] = k
    BY <1>1, <1>13, <2>1 DEF ChainOrder
  <2>3. ASSUME NEW j \in 1 .. Len(channel), j < i + 1, channel[j] = k, j /= 1
        PROVE  \E m \in 1 .. Len(channel') : m < i /\ channel'[m] = k
    <3>1. j - 1 \in 1 .. Len(channel') /\ j - 1 < i /\ channel'[j - 1] = k
      BY <1>4, <2>3, SMTT(20)
    <3> QED
      BY <3>1
  <2> QED
    BY <1>1, <1>2, <1>5, <1>6, <2>2, <2>3
<1> QED
  BY <1>8, <1>12, <1>13 DEF ChainOrder, Older

\* A crash keeps ChainOrder: the commands of the channel are lost, in the whole.
LEMMA StopKeepsChainOrder ==
    ASSUME ChannelType, ChainOrder, Stop PROVE ChainOrder'
<1>1. /\ UNCHANGED <<logs, done, excused, sequence, source>>
      /\ lost' = lost \union {channel[i] : i \in DOMAIN channel}
      /\ channel' = << >>
  BY DEF Stop, Crash, QueueCrash
<1>2. \A k : InChannel(k) => k \in lost'
  BY <1>1, SMTT(20) DEF InChannel, ChannelType
<1>3. \A k : Inserted(k)' = Inserted(k)
  BY <1>1 DEF Inserted
<1> QED
  BY <1>1, <1>2, <1>3, SMTT(20) DEF ChainOrder, Older

\* Whatever fails and whenever the process crashes, the command of a log is executed
\* only after the commands of the older logs of its owner, except the logs that the
\* scanner may miss and the commands that a crash caught in the channel.
THEOREM CommandsFollowTheChain == PipelineSpec => []ExecutedInChainOrder
<1>1. PipelineInit => ChainOrder
  BY DEF PipelineInit, Init, QueueInit, ChainOrder
<1>2. /\ ScanType /\ ScanInvariant /\ QueueTypeOK /\ ChannelType /\ ChainOrder
      /\ [PipelineNext]_pipelineVars
      => ChainOrder'
  <2> SUFFICES ASSUME ScanType, ScanInvariant, QueueTypeOK, ChannelType, ChainOrder,
                      [PipelineNext]_pipelineVars
               PROVE  ChainOrder'
    OBVIOUS
  <2>1. CASE Execute \/ Clock \/ UNCHANGED pipelineVars
    <3>1. UNCHANGED <<logs, done, excused, sequence, source, lost, channel>>
      BY <2>1 DEF Execute, Clock, pipelineVars, vars, queueVars, GetContractCommand,
                  CommandSucceeds, CommandFails, Tick
    <3> QED
      BY <3>1 DEF ChainOrder, Older, InChannel, Inserted
  <2> QED
    BY <2>1, ScanKeepsChainOrder, HandleKeepsChainOrder, InsertKeepsChainOrder,
       StopKeepsChainOrder DEF PipelineNext
<1>3. ScanType /\ ServedInOrder /\ QueueTypeOK /\ ChainOrder => ExecutedInChainOrder
  <2> SUFFICES ASSUME ScanType, ServedInOrder, QueueTypeOK, ChainOrder,
                      NEW k \in logs, NEW l \in logs, Older(k, l), Ran(l),
                      k \notin excused \union lost
               PROVE  Ran(k)
    BY DEF ExecutedInChainOrder, Older
  <2>1. PICK s \in source : s.log = l /\ Cmd(s.va, s.seq) \in executed
    BY SMTT(20) DEF Ran, Commands, Cmd
  <2>2. PICK t \in source : t.log = k /\ t.seq < s.seq
    BY <2>1, SMTT(20) DEF ChainOrder
  <2>3. t.va = s.va /\ s.va \in Id /\ t.seq \in 1 .. sequence[t.va] /\ s.seq \in 1 .. sequence[s.va]
    BY <2>1, <2>2, OwnerAssumption DEF ChainOrder, Older, ScanType, Log
  <2>4. t.seq \in 1 .. s.seq
    BY <2>2, <2>3, CommandQueueAssumption DEF QueueTypeOK
  <2>5. Cmd(s.va, s.seq).seq = s.seq /\ Cmd(s.va, s.seq).va = s.va
    BY DEF Cmd
  <2>6. Cmd(t.va, t.seq) \in executed
    BY <2>1, <2>3, <2>4, <2>5 DEF ServedInOrder
  <2> QED
    BY <2>2, <2>6 DEF Ran, Commands, Cmd
<1> QED
  BY <1>1, <1>2, <1>3, ScannerPart, TablePart, ScanTypeInvariant, ScanInvariance, TypeCorrect,
     ServedInOrderInvariant, ChannelTypeInvariant, PTL DEF PipelineSpec
==============================================================================
