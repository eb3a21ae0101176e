------------------------------ MODULE LogScanner ------------------------------
(* The task of get_logs_from_contract (contract.rs): it polls the chain for the *)
(* logs of two filters from a recorded block on, hands them to the handlers in  *)
(* block order and saves the record.  A poll is not atomic: blocks are mined    *)
(* between its requests, each request and each handler may fail, and the        *)
(* process may crash at any point.                                              *)
EXTENDS Naturals, FiniteSets, Sequences

CONSTANTS
    Limit,              \* most logs of one answer (20 in the code)
    MaxHead,            \* bound: blocks mined
    MaxFailures,        \* bound: failed requests and handlers
    MaxCrashes          \* bound: crashes of the process

ASSUME LogScannerAssumption ==
    Limit \in Nat \ {0} /\ MaxHead \in Nat /\ MaxFailures \in Nat /\ MaxCrashes \in Nat

VARIABLES
    head,               \* the number of the newest block
    logs,               \* the logs on the chain
    record,             \* record.block_num
    file,               \* what the record file holds: one number, or nothing
    pc,                 \* the request or step the task makes next
    batch,              \* all_logs: the logs still to be handled
    polled,             \* the newest block when the last poll ended
    handled,            \* history: the logs handled since the process started
    done,               \* history: the logs whose handler succeeded, ever
    excused,            \* history: the logs that may be missed, see below
    failures, crashes

vars == <<head, logs, record, file, pc, batch, polled, handled, done, excused, failures, crashes>>

Topic == {"va", "initiator"}

Log == [topic : Topic, block : 1 .. MaxHead]

Init ==
    /\ head = 0
    /\ logs = {}
    /\ record = 0
    /\ file = {}
    /\ pc = "down"
    /\ batch = {}
    /\ polled = 0
    /\ handled = << >>
    /\ done = {}
    /\ excused = {}
    /\ failures = 0
    /\ crashes = 0

\* A log mined after the request for its topic and before the end of the requests
\* of the same poll may be missed.
TooLate(l) == pc = "current" \/ (pc = "initiator" /\ l.topic = "va")

\* The last block of the bound is mined while the task waits for its timer.
Mine ==
    /\ head + 1 < MaxHead \/ (head < MaxHead /\ pc = "idle")
    /\ head' = head + 1
    /\ \E S \in SUBSET {l \in Log : l.block = head + 1} :
        /\ logs' = logs \union S
        /\ excused' = excused \union {l \in S : TooLate(l)}
    /\ UNCHANGED <<record, file, pc, batch, polled, handled, done, failures, crashes>>

Matching_After(t) == {l \in logs : l.topic = t /\ l.block > record}

Matching(t) == {l \in logs : l.topic = t /\ l.block >= record}

\* The answer to a request for the logs of topic t.  Which logs a limited answer
\* leaves out is up to the node that is asked.
Answers(t) ==
    {A \in SUBSET Matching(t) :
        Cardinality(A) = IF Cardinality(Matching(t)) > Limit THEN Limit ELSE Cardinality(Matching(t))}

Fails == failures < MaxFailures /\ failures' = failures + 1

\* A failed request is logged and its topic has no logs in this poll.
GetLogs(t) ==
    \E A \in Answers(t) \union {{}} :
        /\ IF A \in Answers(t) THEN UNCHANGED failures ELSE Fails
        /\ batch' = batch \union A
        /\ excused' = excused \union (Matching(t) \ A)

\* The polls are 180 seconds apart: there is a new block after the end of the last.
QueryVa ==
    /\ pc = "idle" /\ polled < head
    /\ GetLogs("va")
    /\ pc' = "initiator"
    /\ UNCHANGED <<head, logs, record, file, polled, handled, done, crashes>>

QueryInitiator ==
    /\ pc = "initiator"
    /\ GetLogs("initiator")
    /\ pc' = IF batch' = {} THEN "current" ELSE "handle"
    /\ UNCHANGED <<head, logs, record, file, polled, handled, done, crashes>>

\* Without logs the record becomes the current block number, if that request
\* succeeds.
GetCurrentBlock ==
    /\ pc = "current"
    /\ \/ record' = head /\ UNCHANGED failures
       \/ UNCHANGED record /\ Fails
    /\ pc' = "truncate"
    /\ UNCHANGED <<head, logs, file, batch, polled, handled, done, excused, crashes>>

\* The order of all_logs: a stable sort by block of va logs and initiator logs.
Before(a, b) == a.block < b.block \/ (a.block = b.block /\ a.topic = "va" /\ b.topic = "initiator")

\* The record moves past the log before its handler runs; an error of the handler
\* is logged.
HandleLog ==
    /\ pc = "handle"
    /\ \E l \in batch :
        /\ \A k \in batch \ {l} : Before(l, k)
        /\ record' = l.block + 1
        /\ handled' = Append(handled, l)
        /\ \/ done' = done \union {l} /\ UNCHANGED <<excused, failures>>
           \/ excused' = excused \union {l} /\ Fails /\ UNCHANGED done
        /\ batch' = batch \ {l}
        /\ pc' = IF batch' = {} THEN "truncate" ELSE "handle"
    /\ UNCHANGED <<head, logs, file, polled, crashes>>

\* update_record_file opens the file, which truncates it, and then writes it.
TruncateRecordFile ==
    /\ pc = "truncate"
    /\ file' = {}
    /\ pc' = "write"
    /\ UNCHANGED <<head, logs, record, batch, polled, handled, done, excused, failures, crashes>>

WriteRecordFile ==
    /\ pc = "write"
    /\ file' = {record}
    /\ polled' = head
    /\ pc' = "idle"
    /\ UNCHANGED <<head, logs, record, batch, handled, done, excused, failures, crashes>>

Crash ==
    /\ pc /= "down"
    /\ crashes < MaxCrashes
    /\ crashes' = crashes + 1
    /\ pc' = "down"
    /\ batch' = {}
    /\ handled' = << >>
    /\ UNCHANGED <<head, logs, record, file, polled, done, excused, failures>>

Boot_FromHead ==
    /\ pc = "down"
    /\ record' = head /\ UNCHANGED excused
    /\ polled' = 0
    /\ pc' = "idle"
    /\ UNCHANGED <<head, logs, file, batch, handled, done, failures, crashes>>

\* Contract::new: without a readable record file the scan starts at the current
\* block, and older logs may be missed.
Boot ==
    /\ pc = "down"
    /\ IF file = {}
       THEN record' = head /\ excused' = excused \union {l \in logs : l.block < head}
       ELSE record' \in file /\ UNCHANGED excused
    /\ polled' = 0
    /\ pc' = "idle"
    /\ UNCHANGED <<head, logs, file, batch, handled, done, failures, crashes>>

Poll ==
    \/ QueryVa \/ QueryInitiator \/ GetCurrentBlock \/ HandleLog
    \/ TruncateRecordFile \/ WriteRecordFile

Next == Mine \/ Poll \/ Crash \/ Boot
------------------------------------------------------------------------------
\* The state has its types, and logs wait to be handled only between the requests
\* and the last handler.
TypeOK ==
    /\ head \in 0 .. MaxHead
    /\ logs \subseteq Log
    /\ record \in 0 .. MaxHead + 1
    /\ file \in {{}} \union {{n} : n \in 0 .. MaxHead + 1}
    /\ pc \in {"down", "idle", "initiator", "current", "handle", "truncate", "write"}
    /\ batch \subseteq logs
    /\ pc = "handle" => batch /= {}
    /\ pc \in {"down", "idle", "current", "truncate", "write"} => batch = {}
    /\ polled \in 0 .. MaxHead
    /\ handled \in Seq(logs)
    /\ done \subseteq logs /\ excused \subseteq logs
    /\ failures \in 0 .. MaxFailures /\ crashes \in 0 .. MaxCrashes

\* Crashes lose nothing: a log below the record that the next start would read has
\* been handled, unless a request or its handler failed, it was mined between the
\* requests of one poll, or the record file was lost while it was being written.
\* The handlers run before update_record_file for this reason.
\* (Handled means that the handler has returned: its command may still be in the
\* channel of the database task.)
SavedLogsAreHandled ==
    \A l \in logs : \A n \in file : l.block < n => l \in done \union excused

\* Between two starts of the process, logs are handled in the order of the chain
\* and none twice, although every poll asks again from the recorded block and the
\* record is set back to the current block by a poll without logs.
HandledInOrder ==
    \A i, j \in DOMAIN handled :
        i < j => handled[i] /= handled[j] /\ handled[i].block <= handled[j].block

Covered == done \union excused \union batch

\* The inductive invariant behind SavedLogsAreHandled: logs below the record are
\* covered; so are, after the request for a topic, the logs of that topic and,
\* while logs are handled, every log that is not newer than one of them.
ScanInvariant ==
    /\ \A l \in logs : pc /= "down" /\ l.block < record => l \in Covered
    /\ pc = "initiator" => \A l \in logs : l.topic = "va" => l \in Covered
    /\ pc = "current" => logs \subseteq Covered
    /\ \A l \in logs, k \in batch : pc = "handle" /\ l.block <= k.block => l \in Covered
    /\ SavedLogsAreHandled
==============================================================================
