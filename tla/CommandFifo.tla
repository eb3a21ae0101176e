----------------------------- MODULE CommandFifo -----------------------------
(* What the command table of the operator's database promises to the code that *)
(* executes contract commands: one first-in first-out queue for every          *)
(* validator or initiator, with at most one command in execution.  A command   *)
(* leaves its queue only when its execution ends; a crash leaves it at the     *)
(* head, so that it is executed again.                                         *)
EXTENDS Naturals

CONSTANTS
    Id,                 \* validators and initiators that own commands
    Idle                \* no command is in execution

VARIABLES
    queue,              \* the numbers of the commands every owner waits for
    last,               \* the number of the newest command of every owner
    busy                \* the command in execution, or Idle

vars == <<queue, last, busy>>

Init ==
    /\ queue = [v \in Id |-> {}]
    /\ last = [v \in Id |-> 0]
    /\ busy = Idle

\* Commands are numbered in the order in which they arrive.
Enqueue(v) ==
    /\ last' = [last EXCEPT ![v] = @ + 1]
    /\ queue' = [queue EXCEPT ![v] = @ \union {last[v] + 1}]
    /\ UNCHANGED busy

\* Only the oldest command of an owner is ever executed.
Begin(v) ==
    /\ busy = Idle
    /\ \E n \in queue[v] :
        /\ \A k \in queue[v] : n <= k
        /\ busy' = [va |-> v, seq |-> n]
    /\ UNCHANGED <<queue, last>>

Finish ==
    /\ busy /= Idle
    /\ queue' = [queue EXCEPT ![busy.va] = @ \ {busy.seq}]
    /\ busy' = Idle
    /\ UNCHANGED last

Crash ==
    /\ busy' = Idle
    /\ UNCHANGED <<queue, last>>

Next == Finish \/ Crash \/ \E v \in Id : Enqueue(v) \/ Begin(v)

Spec == Init /\ [][Next]_vars
==============================================================================
