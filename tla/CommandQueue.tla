---------------------------- MODULE CommandQueue ----------------------------
(* The tables contract_commands and contract_cmd_sequence of db.rs and the task *)
(* process_contract_command of node.rs that empties them.  A command is        *)
(* identified by its owner and its sequence number; what it does is the        *)
(* business of module ValidatorLifecycle.  All database operations run in one  *)
(* task, so each is atomic; a crash loses the operations still in its channel. *)
EXTENDS Naturals

CONSTANTS
    Id,                 \* validators and initiators that own commands
    Idle,               \* process_contract_command is not executing a command
    MaxCommands,        \* bound: commands inserted for one owner
    MaxTime,            \* bound: the clock, in the seconds of CURRENT_TIMESTAMP
    MaxQueueCrashes     \* bound: crashes of the operator process

VARIABLES
    rows,               \* table contract_commands
    sequence,           \* table contract_cmd_sequence
    now,                \* CURRENT_TIMESTAMP
    fetched,            \* the command in execution, or Idle
    executed,           \* history: the commands whose handler has returned
    queueCrashes        \* crashes so far

queueVars == <<rows, sequence, now, fetched, executed, queueCrashes>>

Row == [va : Id, seq : 1 .. MaxCommands, time : 0 .. MaxTime]

Command == [va : Id, seq : 1 .. MaxCommands]

ASSUME CommandQueueAssumption ==
    /\ MaxCommands \in Nat /\ MaxTime \in Nat /\ MaxQueueCrashes \in Nat
    /\ Idle \notin Command

RowsOf(c) == {r \in rows : r.va = c.va /\ r.seq = c.seq}

QueueInit ==
    /\ rows = {}
    /\ sequence = [v \in Id |-> 0]
    /\ now = 0
    /\ fetched = Idle
    /\ executed = {}
    /\ queueCrashes = 0

InsertContractCommand(v) ==
    /\ sequence[v] < MaxCommands
    /\ sequence' = [sequence EXCEPT ![v] = @ + 1]
    /\ rows' = rows \union {[va |-> v, seq |-> sequence[v] + 1, time |-> now]}
    /\ UNCHANGED <<now, fetched, executed, queueCrashes>>

\* The row the query selects: first the owner of a row with the oldest
\* update_time, then that owner's row with the smallest sequence number.
Selected_Newest(r) ==
    /\ \E o \in rows : o.va = r.va /\ \A s \in rows : o.time <= s.time
    /\ \A s \in rows : s.va = r.va => r.seq >= s.seq

Selected(r) ==
    /\ \E o \in rows : o.va = r.va /\ \A s \in rows : o.time <= s.time
    /\ \A s \in rows : s.va = r.va => r.seq <= s.seq

\* The fetched row is updated in place, which renews its update_time.
GetContractCommand ==
    /\ fetched = Idle
    /\ \E r \in rows :
        /\ Selected(r)
        /\ fetched' = [va |-> r.va, seq |-> r.seq]
        /\ rows' = (rows \ {r}) \union {[r EXCEPT !.time = now]}
    /\ UNCHANGED <<sequence, now, executed, queueCrashes>>

DeleteContractCommand(c) == rows \ RowsOf(c)

\* The function sends DbCommand::DeleteContractCommand.
UpdatetimeContractCommand(c) == rows \ RowsOf(c)

CommandSucceeds ==
    /\ fetched /= Idle
    /\ rows' = DeleteContractCommand(fetched)
    /\ executed' = executed \union {fetched}
    /\ fetched' = Idle
    /\ UNCHANGED <<sequence, now, queueCrashes>>

CommandFails ==
    /\ fetched /= Idle
    /\ rows' = UpdatetimeContractCommand(fetched)
    /\ executed' = executed \union {fetched}
    /\ fetched' = Idle
    /\ UNCHANGED <<sequence, now, queueCrashes>>

\* The process stops before the command's row is deleted, and starts again.
QueueCrash ==
    /\ queueCrashes < MaxQueueCrashes
    /\ queueCrashes' = queueCrashes + 1
    /\ fetched' = Idle
    /\ UNCHANGED <<rows, sequence, now, executed>>

Tick ==
    /\ now < MaxTime
    /\ now' = now + 1
    /\ UNCHANGED <<rows, sequence, fetched, executed, queueCrashes>>

QueueNext ==
    \/ \E v \in Id : InsertContractCommand(v)
    \/ GetContractCommand
    \/ CommandSucceeds
    \/ CommandFails
    \/ QueueCrash
    \/ Tick
------------------------------------------------------------------------------
\* The tables hold rows of their types, the command in execution has a row, and
\* the histories are commands (db.rs, table contract_commands).
QueueTypeOK ==
    /\ rows \subseteq Row
    /\ sequence \in [Id -> 0 .. MaxCommands]
    /\ now \in 0 .. MaxTime
    /\ fetched \in Command \union {Idle}
    /\ fetched /= Idle => RowsOf(fetched) /= {}
    /\ executed \subseteq Command
    /\ queueCrashes \in 0 .. MaxQueueCrashes

Waiting == [v \in Id |-> {r.seq : r \in {s \in rows : s.va = v}}]

Fifo == INSTANCE CommandFifo WITH
    queue <- Waiting, last <- sequence, busy <- fetched

\* However owners, clock ticks, failures and crashes interleave, the two-level
\* selection by update_time and sequence_num of get_contract_command executes
\* the commands of one owner first-in first-out.
ImplementsFifo == Fifo!Spec

\* A command whose handler returned an error is still in the table, to be tried
\* again: the error arms of process_contract_command call
\* updatetime_contract_command and say they "save va information to database".
FailedIsKept ==
    [][CommandFails => \E r \in rows' : r.va = fetched.va /\ r.seq = fetched.seq]_queueVars
==============================================================================
