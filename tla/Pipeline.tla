------------------------------- MODULE Pipeline -------------------------------
(* From a log of the contract to the execution of its command: the scanner      *)
(* (LogScanner), the channel to the task of the database, and the command table *)
(* (CommandQueue), in one process that crashes as a whole.  A handler sends its *)
(* command to the database task and returns without an answer, so the scanner   *)
(* may save its record while the command is still in the channel.               *)
EXTENDS LogScanner, CommandQueue

ASSUME OwnerAssumption == Topic \subseteq Id

VARIABLES
    channel,            \* DbCommand::InsertContractCommand not yet applied
    source,             \* history: the log of every inserted command
    lost                \* history: the logs whose command a crash lost in the channel

pipelineVars == <<vars, queueVars, channel, source, lost>>

PipelineInit ==
    /\ Init
    /\ QueueInit
    /\ channel = << >>
    /\ source = {}
    /\ lost = {}

Up == pc /= "down"

\* The owner of the command of a log: a validator or an initiator.
Owner(l) == l.topic

\* A handler that succeeds ends by sending its command to the database task.
Sent(l) == IF failures' = failures THEN Append(channel, l) ELSE channel

Handle ==
    /\ HandleLog
    /\ \E l \in batch \ batch' : channel' = Sent(l)
    /\ UNCHANGED <<queueVars, source, lost>>

\* Every other step of the scanner.
Scan ==
    /\ Mine \/ QueryVa \/ QueryInitiator \/ GetCurrentBlock
        \/ TruncateRecordFile \/ WriteRecordFile \/ Boot
    /\ UNCHANGED <<queueVars, channel, source, lost>>

\* The task of the database receives a command.
Insert_Newest ==
    /\ channel /= << >>
    /\ LET l == channel[Len(channel)] IN
        /\ InsertContractCommand(Owner(l))
        /\ source' = source \union {[va |-> Owner(l), seq |-> sequence[Owner(l)] + 1, log |-> l]}
    /\ channel' = SubSeq(channel, 1, Len(channel) - 1)
    /\ UNCHANGED <<vars, lost>>

Insert ==
    /\ channel /= << >>
    /\ LET l == Head(channel) IN
        /\ InsertContractCommand(Owner(l))
        /\ source' = source \union {[va |-> Owner(l), seq |-> sequence[Owner(l)] + 1, log |-> l]}
    /\ channel' = Tail(channel)
    /\ UNCHANGED <<vars, lost>>

\* One iteration of process_contract_command, which runs while the process is up.
Execute ==
    /\ Up
    /\ GetContractCommand \/ CommandSucceeds \/ CommandFails
    /\ UNCHANGED <<vars, channel, source, lost>>

\* (Only a tick between the times of two rows makes a difference.)
Clock ==
    /\ rows /= {}
    /\ Tick
    /\ UNCHANGED <<vars, channel, source, lost>>

Stop ==
    /\ Crash
    /\ QueueCrash
    /\ lost' = lost \union {channel[i] : i \in DOMAIN channel}
    /\ channel' = << >>
    /\ UNCHANGED source

PipelineNext == Handle \/ Scan \/ Insert \/ Execute \/ Clock \/ Stop

\* The chain grows, the timer of the scanner fires for ever and a stopped process is
\* started again; the task of the database and the loop of process_contract_command
\* run, and every handler returns.
PipelineSpec ==
    /\ PipelineInit
    /\ [][PipelineNext]_pipelineVars
    /\ WF_pipelineVars(Handle \/ Scan)
    /\ WF_pipelineVars(Insert)
    /\ WF_pipelineVars(Execute)
------------------------------------------------------------------------------
Commands(l) == {[va |-> s.va, seq |-> s.seq] : s \in {t \in source : t.log = l}}

Ran(l) == Commands(l) \intersect executed /= {}

\* The logs that the operator has overtaken may be missing only for the reasons the
\* scanner and the channel have: when the command of a log has been executed, so
\* have the commands of the older logs of the same owner, although commands are
\* executed again after a crash and the tables of the database know no blocks.
ExecutedInChainOrder ==
    \A k, l \in logs :
        k.topic = l.topic /\ k.block < l.block /\ Ran(l) => Ran(k) \/ k \in excused \union lost

\* Every log of the contract is executed in the end, across crashes, unless the
\* scanner may miss it or a crash caught its command in the channel.
EveryLogExecuted == []<>(\A l \in logs : Ran(l) \/ l \in excused \union lost)
==============================================================================
