-------------------------- MODULE ValidatorLifecycle --------------------------
(* How an operator node starts, stops, restarts and removes one validator.      *)
(* Five activities share the validator's state: the contract listener and the   *)
(* paid-block monitor (contract.rs) queue commands, process_contract_command    *)
(* (node.rs) executes them one at a time, the committee IP monitors restart the *)
(* validator when an operator's address changes, and the process may crash at   *)
(* any step and start again, discovering key shares left on disk (mod.rs).      *)
(* The command queue is the abstract one of CommandFifo, for one owner.         *)
EXTENDS Naturals, Sequences

CONSTANTS
    BootWindow,         \* commands may be executed before the validator store is set
    MaxRegistrations,   \* bound: registrations on the contract
    MaxPayments,        \* bound: changes of the owner's paid state
    MaxRestarts,        \* bound: restarts by the IP monitors
    MaxCrashes          \* bound: crashes and repeated starts of the process

ASSUME LifecycleAssumption ==
    /\ BootWindow \in BOOLEAN
    /\ MaxRegistrations \in Nat /\ MaxPayments \in Nat
    /\ MaxRestarts \in Nat /\ MaxCrashes \in Nat

VARIABLES
    contract,           \* what the contract says of the validator
    row,                \* its row in table validators of the database
    queue,              \* its rows in table contract_commands, oldest first
    disk,               \* its files, its saved definition, its slashing registration
    mem,                \* its definition, signing method and handlers in memory
    locked,             \* its RocksDB is open
    process,            \* the stage of the operator process
    pc,                 \* the command in execution and the step it is at
    monitor,            \* what the paid-block monitor has yet to queue
    restart,            \* the restarts by the IP monitors
    intent,             \* history: what the last operation made of the validator
    count               \* how often each bounded event has happened

vars == <<contract, row, queue, disk, mem, locked, process, pc, monitor, restart, intent, count>>

NoDef == [known |-> FALSE, enabled |-> FALSE, path |-> FALSE]

EnabledDef(path) == [known |-> TRUE, enabled |-> TRUE, path |-> path]

Command == {"StartValidator", "StopValidator", "ActivateValidator", "RemoveValidator"}

Idle == [cmd |-> "none", at |-> "none"]

At(cmd, step) == pc = [cmd |-> cmd, at |-> step]

Goto(step) == pc' = [pc EXCEPT !.at = step]

\* Ok and Err both delete the command (see CommandQueue).
Done == pc' = Idle /\ queue' = Tail(queue)

InitDisk == [dir |-> FALSE, password |-> FALSE, share |-> FALSE, committee |-> FALSE,
             slashing |-> FALSE, def |-> NoDef]

InitMem == [def |-> NoDef, running |-> FALSE, handlers |-> FALSE]

Init ==
    /\ contract = [registered |-> FALSE, paid |-> TRUE]
    /\ row = "none"
    /\ queue = << >>
    /\ disk = InitDisk
    /\ mem = InitMem
    /\ locked = FALSE
    /\ process = "up"
    /\ pc = Idle
    /\ monitor = "idle"
    /\ restart = [r \in 1 .. MaxRestarts |-> "unused"]
    /\ intent = "none"
    /\ count = [registrations |-> 0, payments |-> 0, crashes |-> 0]

Alive == process /= "down"

StoreReady == process = "up"
------------------------------------------------------------------------------
(* contract.rs: the listener and the paid-block monitor. *)

\* A row that is already there is left as it is: the insertion violates the
\* primary key and is rolled back.
ProcessValidatorRegistration ==
    /\ Alive
    /\ ~contract.registered /\ count.registrations < MaxRegistrations
    /\ contract' = [contract EXCEPT !.registered = TRUE]
    /\ row' = IF row = "none" THEN "active" ELSE row
    /\ queue' = Append(queue, "StartValidator")
    /\ count' = [count EXCEPT !.registrations = @ + 1]
    /\ UNCHANGED <<disk, mem, locked, process, pc, monitor, restart, intent>>

\* The row stays: db.delete_validator is commented out.
ProcessValidatorRemoval ==
    /\ Alive
    /\ contract.registered
    /\ contract' = [contract EXCEPT !.registered = FALSE]
    /\ queue' = Append(queue, "RemoveValidator")
    /\ UNCHANGED <<row, disk, mem, locked, process, pc, monitor, restart, intent, count>>

PaidBlockPasses ==
    /\ count.payments < MaxPayments
    /\ contract' = [contract EXCEPT !.paid = ~@]
    /\ count' = [count EXCEPT !.payments = @ + 1]
    /\ UNCHANGED <<row, queue, disk, mem, locked, process, pc, monitor, restart, intent>>

\* The database is told to change the row, and in a second message to queue the
\* command.
MonitorValidatorPaidblock ==
    /\ Alive
    /\ monitor = "idle"
    /\ \/ ~contract.paid /\ row = "active" /\ row' = "inactive" /\ monitor' = "StopValidator"
       \/ contract.paid /\ row = "inactive" /\ row' = "active" /\ monitor' = "ActivateValidator"
    /\ UNCHANGED <<contract, queue, disk, mem, locked, process, pc, restart, intent, count>>

MonitorInsertsCommand ==
    /\ monitor /= "idle"
    /\ queue' = Append(queue, monitor)
    /\ monitor' = "idle"
    /\ UNCHANGED <<contract, row, disk, mem, locked, process, pc, restart, intent, count>>
------------------------------------------------------------------------------
(* initialized_validators.rs, under the write lock of the validator store. *)

CanInitialize(d, files) ==
    /\ d.enabled /\ d.path
    /\ files.share /\ files.committee /\ files.password
    /\ ~locked


\* Initialising a validator opens its RocksDB, registers its handlers and spawns
\* its IP monitor; a failure is only logged.
UpdateValidators(d, files) ==
    LET starts == ~mem.running /\ CanInitialize(d, files)
    IN  /\ mem' = [def |-> d,
                   running |-> d.enabled /\ (mem.running \/ starts),
                   handlers |-> mem.handlers \/ starts]
        /\ locked' = (locked \/ starts)
        /\ disk' = [files EXCEPT !.def = d]

EnableKeystore ==
    /\ UpdateValidators([mem.def EXCEPT !.enabled = mem.def.known], disk)
    /\ intent' = IF mem.def.known THEN "enabled" ELSE intent

Disabled(d) == [d EXCEPT !.enabled = FALSE]


DisableKeystore ==
    /\ mem' = IF mem.def.known THEN [mem EXCEPT !.def = Disabled(@), !.running = FALSE] ELSE mem
    /\ disk' = IF mem.def.known THEN [disk EXCEPT !.def = Disabled(mem.def)] ELSE disk
    /\ intent' = IF mem.def.known THEN "disabled" ELSE intent

CleanupHandler == mem' = [mem EXCEPT !.handlers = FALSE]

\* The tasks of a dropped signer have ended and its RocksDB is closed.
SignerExits ==
    /\ locked /\ ~mem.running
    /\ locked' = FALSE
    /\ UNCHANGED <<contract, row, queue, disk, mem, process, pc, monitor, restart, intent, count>>
------------------------------------------------------------------------------
(* node.rs: the commands. *)

FetchCommand ==
    /\ IF BootWindow THEN Alive ELSE StoreReady
    /\ pc = Idle /\ queue /= << >>
    /\ pc' = [cmd |-> Head(queue), at |-> "begin"]
    /\ UNCHANGED <<contract, row, queue, disk, mem, locked, process, monitor, restart, intent, count>>

AddValidatorDir ==
    /\ At("StartValidator", "begin")
    /\ IF disk.dir
       THEN Done /\ UNCHANGED <<disk, intent>>
       ELSE /\ disk' = [disk EXCEPT !.dir = TRUE]
            /\ intent' = "enabled"
            /\ Goto("password") /\ UNCHANGED queue
    /\ UNCHANGED <<contract, row, mem, locked, process, monitor, restart, count>>

AddPassword ==
    /\ At("StartValidator", "password")
    /\ IF disk.password
       THEN Done /\ UNCHANGED disk
       ELSE disk' = [disk EXCEPT !.password = TRUE] /\ Goto("share") /\ UNCHANGED queue
    /\ UNCHANGED <<contract, row, mem, locked, process, monitor, restart, intent, count>>

AddShare ==
    /\ At("StartValidator", "share")
    /\ disk' = [disk EXCEPT !.share = TRUE] /\ Goto("committee")
    /\ UNCHANGED <<contract, row, queue, mem, locked, process, monitor, restart, intent, count>>

AddCommittee ==
    /\ At("StartValidator", "committee")
    /\ disk' = [disk EXCEPT !.committee = TRUE] /\ Goto("store")
    /\ UNCHANGED <<contract, row, queue, mem, locked, process, monitor, restart, intent, count>>

\* A definition that is still enabled makes the addition fail, which is ignored;
\* without a validator store only the files are written.
AddToStore ==
    /\ At("StartValidator", "store")
    /\ IF ~StoreReady
       THEN UNCHANGED <<disk, mem, locked>>
       ELSE IF mem.def.enabled
       THEN disk' = [disk EXCEPT !.slashing = TRUE] /\ UNCHANGED <<mem, locked>>
       ELSE UpdateValidators(EnabledDef(TRUE), [disk EXCEPT !.slashing = TRUE])
    /\ Done
    /\ UNCHANGED <<contract, row, process, monitor, restart, intent, count>>

ActivateValidator ==
    /\ At("ActivateValidator", "begin")
    /\ IF StoreReady THEN EnableKeystore ELSE UNCHANGED <<disk, mem, locked, intent>>
    /\ Done
    /\ UNCHANGED <<contract, row, process, monitor, restart, count>>

CommandCleansHandlers ==
    /\ At("StopValidator", "begin") \/ At("RemoveValidator", "begin")
    /\ CleanupHandler
    /\ Goto("disable")
    /\ UNCHANGED <<contract, row, queue, disk, locked, process, monitor, restart, intent, count>>

StopValidator_HandlersOnly ==
    /\ At("StopValidator", "disable")
    /\ Done
    /\ UNCHANGED <<contract, row, disk, mem, locked, process, monitor, restart, intent, count>>

StopValidator ==
    /\ At("StopValidator", "disable")
    /\ IF StoreReady THEN DisableKeystore ELSE UNCHANGED <<disk, mem, intent>>
    /\ Done
    /\ UNCHANGED <<contract, row, locked, process, monitor, restart, count>>

\* delete_definition_and_keystore, stage 1; without a store or a definition the
\* three stages are skipped.
RemoveDisables ==
    /\ At("RemoveValidator", "disable")
    /\ IF StoreReady /\ mem.def.known
       THEN /\ mem' = [mem EXCEPT !.def = Disabled(@)]
            /\ disk' = [disk EXCEPT !.def = Disabled(mem.def)]
            /\ intent' = "disabled"
            /\ Goto("delete")
       ELSE Goto("dir") /\ UNCHANGED <<disk, mem, intent>>
    /\ UNCHANGED <<contract, row, queue, locked, process, monitor, restart, count>>

RemoveDeletesShare_KeepsSigner ==
    /\ At("RemoveValidator", "delete")
    /\ disk' = [disk EXCEPT !.share = FALSE]
    /\ Goto("undefine")
    /\ UNCHANGED <<contract, row, queue, mem, locked, process, monitor, restart, intent, count>>

\* Stage 2: only a validator that is running has its share deleted here.
RemoveDeletesShare ==
    /\ At("RemoveValidator", "delete")
    /\ mem' = [mem EXCEPT !.running = FALSE]
    /\ disk' = IF mem.running THEN [disk EXCEPT !.share = FALSE] ELSE disk
    /\ Goto("undefine")
    /\ UNCHANGED <<contract, row, queue, locked, process, monitor, restart, intent, count>>


\* Stage 3.
RemoveUndefines ==
    /\ At("RemoveValidator", "undefine")
    /\ mem' = [mem EXCEPT !.def = NoDef]
    /\ disk' = [disk EXCEPT !.def = NoDef]
    /\ Goto("dir")
    /\ UNCHANGED <<contract, row, queue, locked, process, monitor, restart, intent, count>>

CleanupValidatorDir ==
    /\ At("RemoveValidator", "dir")
    /\ disk' = [disk EXCEPT !.dir = FALSE, !.share = FALSE, !.committee = FALSE]
    /\ Goto("password")
    /\ UNCHANGED <<contract, row, queue, mem, locked, process, monitor, restart, intent, count>>

CleanupPasswordDir ==
    /\ At("RemoveValidator", "password")
    /\ disk' = [disk EXCEPT !.password = FALSE]
    /\ Done
    /\ intent' = "removed"
    /\ UNCHANGED <<contract, row, mem, locked, process, monitor, restart, count>>

\* delete_definition_and_keystore holds the write lock of the store throughout.
StoreLocked == pc.cmd = "RemoveValidator" /\ pc.at \in {"delete", "undefine"}
------------------------------------------------------------------------------
(* node.rs, validator_store.rs: a restart by an IP monitor. *)

\* The monitor of the running signer, which makes one restart at a time, finds a
\* new address and saves the committee definition in the validator's directory.
RestartBegins(r) ==
    /\ restart[r] = "unused"
    /\ \A q \in 1 .. MaxRestarts : restart[q] \notin {"begin", "stop"}
    /\ mem.running /\ disk.dir
    /\ disk' = [disk EXCEPT !.committee = TRUE]
    /\ restart' = [restart EXCEPT ![r] = "begin"]
    /\ UNCHANGED <<contract, row, queue, mem, locked, process, pc, monitor, intent, count>>

\* Without a validator store the restart is tried again from here.
RestartCleansHandlers(r) ==
    /\ restart[r] = "begin"
    /\ CleanupHandler
    /\ restart' = [restart EXCEPT ![r] = IF StoreReady THEN "stop" ELSE "begin"]
    /\ UNCHANGED <<contract, row, queue, disk, locked, process, pc, monitor, intent, count>>

RestartStops(r) ==
    /\ restart[r] = "stop"
    /\ ~StoreLocked
    /\ DisableKeystore
    /\ restart' = [restart EXCEPT ![r] = "cooling"]
    /\ UNCHANGED <<contract, row, queue, locked, process, pc, monitor, count>>


\* The cooling down of 60 seconds outlasts the tasks of the stopped signer.
RestartStarts(r) ==
    /\ restart[r] = "cooling"
    /\ ~StoreLocked
    /\ mem.running \/ ~locked
    /\ EnableKeystore
    /\ restart' = [restart EXCEPT ![r] = "done"]
    /\ UNCHANGED <<contract, row, queue, process, pc, monitor, count>>
------------------------------------------------------------------------------
(* validation/mod.rs: crash and start of the process. *)

ProcessEnds ==
    /\ process' = "down"
    /\ mem' = InitMem
    /\ locked' = FALSE
    /\ pc' = Idle
    /\ monitor' = "idle"
    /\ restart' = [r \in 1 .. MaxRestarts |-> IF restart[r] = "unused" THEN "unused" ELSE "done"]
    /\ UNCHANGED <<contract, row, queue, disk, intent>>

Crash ==
    /\ Alive
    /\ count.crashes < MaxCrashes
    /\ count' = [count EXCEPT !.crashes = @ + 1]
    /\ ProcessEnds

\* A share without a definition gets an enabled one, with the path of the
\* committee definition if that file is there.
Discover(d) ==
    IF d.share /\ ~d.def.known THEN [d EXCEPT !.def = EnabledDef(d.committee)] ELSE d

\* The definitions are read, completed by discovery and saved, and Node::new
\* spawns the listener, the monitor and the command loop.
Boot ==
    /\ process = "down"
    /\ disk' = Discover(disk)
    /\ mem' = [mem EXCEPT !.def = Discover(disk).def]
    /\ process' = "defined"
    /\ UNCHANGED <<contract, row, queue, locked, pc, monitor, restart, intent, count>>

FromDefinitions ==
    /\ process = "defined"
    /\ LET starts == CanInitialize(mem.def, disk)
       IN  /\ mem' = [mem EXCEPT !.running = starts, !.handlers = @ \/ starts]
           /\ locked' = (locked \/ starts)
    /\ process' = "initialized"
    /\ UNCHANGED <<contract, row, queue, disk, pc, monitor, restart, intent, count>>

BootCompletes ==
    /\ process = "initialized"
    /\ mem.running => disk.slashing
    /\ process' = "up"
    /\ UNCHANGED <<contract, row, queue, disk, mem, locked, pc, monitor, restart, intent, count>>

\* A running validator that the slashing protection database does not know ends
\* the start of the client.
BootFails ==
    /\ process = "initialized"
    /\ mem.running /\ ~disk.slashing
    /\ ProcessEnds
    /\ UNCHANGED count

Next ==
    \/ ProcessValidatorRegistration \/ ProcessValidatorRemoval \/ PaidBlockPasses
    \/ MonitorValidatorPaidblock \/ MonitorInsertsCommand
    \/ SignerExits
    \/ FetchCommand
    \/ AddValidatorDir \/ AddPassword \/ AddShare \/ AddCommittee \/ AddToStore
    \/ ActivateValidator
    \/ CommandCleansHandlers \/ StopValidator
    \/ RemoveDisables \/ RemoveDeletesShare \/ RemoveUndefines
    \/ CleanupValidatorDir \/ CleanupPasswordDir
    \/ \E r \in 1 .. MaxRestarts :
        RestartBegins(r) \/ RestartCleansHandlers(r) \/ RestartStops(r) \/ RestartStarts(r)
    \/ Crash \/ Boot \/ FromDefinitions \/ BootCompletes \/ BootFails

CommandLoop ==
    \/ FetchCommand
    \/ AddValidatorDir \/ AddPassword \/ AddShare \/ AddCommittee \/ AddToStore
    \/ ActivateValidator
    \/ CommandCleansHandlers \/ StopValidator
    \/ RemoveDisables \/ RemoveDeletesShare \/ RemoveUndefines
    \/ CleanupValidatorDir \/ CleanupPasswordDir

\* The tasks of the process are scheduled fairly and a stopped process is started
\* again; registrations, payments, address changes and crashes need not happen.
Fairness ==
    /\ WF_vars(CommandLoop)
    /\ WF_vars(MonitorValidatorPaidblock) /\ WF_vars(MonitorInsertsCommand)
    /\ WF_vars(SignerExits)
    /\ \A r \in 1 .. MaxRestarts :
        WF_vars(RestartCleansHandlers(r)) /\ WF_vars(RestartStops(r)) /\ WF_vars(RestartStarts(r))
    /\ WF_vars(Boot) /\ WF_vars(FromDefinitions) /\ WF_vars(BootCompletes \/ BootFails)

Spec == Init /\ [][Next]_vars /\ Fairness
------------------------------------------------------------------------------
Def == [known : BOOLEAN, enabled : BOOLEAN, path : BOOLEAN]

Step == {"none", "begin", "password", "share", "committee", "store",
         "disable", "delete", "undefine", "dir"}

\* The state has its types, and the command in execution is the head of the queue.
TypeOK ==
    /\ contract \in [registered : BOOLEAN, paid : BOOLEAN]
    /\ row \in {"none", "active", "inactive"}
    /\ queue \in Seq(Command)
    /\ disk \in [dir : BOOLEAN, password : BOOLEAN, share : BOOLEAN, committee : BOOLEAN,
                 slashing : BOOLEAN, def : Def]
    /\ mem \in [def : Def, running : BOOLEAN, handlers : BOOLEAN]
    /\ locked \in BOOLEAN
    /\ process \in {"down", "defined", "initialized", "up"}
    /\ pc \in [cmd : Command, at : Step \ {"none"}] \union {Idle}
    /\ pc /= Idle => queue /= << >> /\ pc.cmd = Head(queue)
    /\ monitor \in {"idle", "StopValidator", "ActivateValidator"}
    /\ restart \in [1 .. MaxRestarts -> {"unused", "begin", "stop", "cooling", "done"}]
    /\ intent \in {"none", "enabled", "disabled", "removed"}
    /\ count \in [registrations : Nat, payments : Nat, crashes : Nat]

Cleaning == pc.at = "disable" \/ StoreLocked




Settled ==
    /\ process = "up" /\ pc = Idle /\ queue = << >> /\ monitor = "idle"
    /\ \A r \in 1 .. MaxRestarts : restart[r] \in {"unused", "done"}

\* No crash so far, and no registration after a removal: the row of a removed validator
\* stays, and its RocksDB may still be open when it is registered again.
Undisturbed == count.crashes = 0 /\ count.registrations <= 1

\* Once the queue is empty the definition says what the contract and the database
\* say: enabled if and only if the validator is registered and its row is active,
\* however stops, activations and the removal followed each other.  Restarts are
\* the exception (see UnpaidStops).
SettledAsPaid ==
    Settled /\ Undisturbed /\ (\A r \in 1 .. MaxRestarts : restart[r] = "unused") =>
        /\ mem.def.enabled <=> contract.registered /\ row = "active"
        /\ mem.running => mem.def.enabled

\* Without crashes, a validator removed from the contract for good stops for good: in
\* the end no command, monitor or restart runs it again.
RemovedStops ==
    <>[](~contract.registered) /\ [](count.crashes = 0) => <>[](~mem.running)


\* "If the block is behind the current block number, stop validators related to
\* the address": once the monitor has marked the row of an unpaid validator as
\* inactive and all its commands are executed, the validator is not running.
UnpaidStops == Settled /\ ~contract.paid /\ row = "inactive" => ~mem.running

\* "We disable before removing so that in case of a crash the auto-discovery
\* mechanism won't re-activate the keystore": a start of the process does not enable
\* the definition of a validator that was stopped, or whose removal had disabled it.
NoReactivation == [][Boot /\ intent = "disabled" => ~disk'.def.enabled]_vars

\* "Query IP for each operator in this committee. If any of them changed, should
\* restart the VA": a restart that has stopped a validator is followed by its
\* start, unless it is removed or becomes unpaid.
RestartCompletes ==
    \A r \in 1 .. MaxRestarts :
        restart[r] = "cooling" ~> mem.running \/ ~contract.registered \/ ~contract.paid
==============================================================================
