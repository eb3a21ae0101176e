---------------------------- MODULE ReliableSender ----------------------------
(* One Connection of a ReliableSender (reliable_sender.rs) and the runners that *)
(* the peer's Receiver (receiver.rs) spawns for it.  Messages wait in a channel *)
(* and a buffer; transmitted messages wait for their replies, which carry no    *)
(* number and are matched by position.  When a TCP connection breaks the        *)
(* unanswered messages go back to the buffer and are sent on the next one,      *)
(* while the runner of the old one may still be reading what it has received.   *)
EXTENDS Naturals, Sequences

CONSTANTS
    MaxMessages,        \* bound: messages sent
    MaxConnections      \* bound: TCP connections established

ASSUME ReliableSenderAssumption == MaxMessages \in Nat /\ MaxConnections \in Nat

VARIABLES
    sent,               \* messages given to send() so far; they are numbered from 1
    channel,            \* the channel from send() to the connection task
    buffer,             \* Connection::buffer
    pending_replies,    \* transmitted on the current connection, not yet answered
    mode,               \* what the connection task does
    conns,              \* connections established so far; the last is the current one
    wire,               \* wire[c]: messages on connection c, not yet read
    replies,            \* replies[c]: replies on connection c, not yet read
    runner,             \* runner[c]: the state of the receiver's runner of c
    handler,            \* the validator has a handler in the receiver's map
    dispatched,         \* history: messages the handler was given
    cancelled,          \* messages whose cancel handler was dropped
    reply               \* reply[m]: what the cancel handler of m received

vars == <<sent, channel, buffer, pending_replies, mode, conns, wire, replies, runner,
          handler, dispatched, cancelled, reply>>

peer == <<wire, replies, runner, handler, dispatched>>

Message == 1 .. MaxMessages

Connection == 1 .. MaxConnections

Init ==
    /\ sent = 0
    /\ channel = << >> /\ buffer = << >> /\ pending_replies = << >>
    /\ mode = "connecting"
    /\ conns = 0
    /\ wire = [c \in Connection |-> << >>]
    /\ replies = [c \in Connection |-> << >>]
    /\ runner = [c \in Connection |-> "reading"]
    /\ handler \in BOOLEAN
    /\ dispatched = {}
    /\ cancelled = {}
    /\ reply = [m \in Message |-> "none"]

Live(m) == m \notin cancelled
------------------------------------------------------------------------------
(* reliable_sender.rs *)

Send ==
    /\ sent < MaxMessages
    /\ mode /= "dropped"
    /\ sent' = sent + 1
    /\ channel' = Append(channel, sent + 1)
    /\ UNCHANGED <<buffer, pending_replies, mode, conns, peer, cancelled, reply>>

\* The caller has no more use for the reply (the quorum waiter has its quorum).
Cancel(m) ==
    /\ m <= sent /\ Live(m) /\ reply[m] = "none"
    /\ cancelled' = cancelled \union {m}
    /\ UNCHANGED <<sent, channel, buffer, pending_replies, mode, conns, peer, reply>>

Connect ==
    /\ mode = "connecting" /\ conns < MaxConnections
    /\ conns' = conns + 1
    /\ mode' = "connected"
    /\ UNCHANGED <<sent, channel, buffer, pending_replies, peer, cancelled, reply>>

ConnectFails ==
    /\ mode = "connecting"
    /\ mode' = "waiting"
    /\ UNCHANGED <<sent, channel, buffer, pending_replies, conns, peer, cancelled, reply>>

RetryDelayEnds ==
    /\ mode = "waiting"
    /\ mode' = "connecting"
    /\ UNCHANGED <<sent, channel, buffer, pending_replies, conns, peer, cancelled, reply>>

DrainChannel ==
    /\ mode = "waiting" /\ channel /= << >>
    /\ channel' = Tail(channel)
    /\ buffer' = SelectSeq(Append(buffer, Head(channel)), Live)
    /\ UNCHANGED <<sent, pending_replies, mode, conns, peer, cancelled, reply>>

\* A message that fails to be sent goes back to the buffer before the connection is
\* given up: that is KeepAliveEnds.
SendBuffered ==
    /\ mode = "connected" /\ buffer /= << >>
    /\ buffer' = Tail(buffer)
    /\ IF Live(Head(buffer))
       THEN /\ wire' = [wire EXCEPT ![conns] = Append(@, Head(buffer))]
            /\ pending_replies' = Append(pending_replies, Head(buffer))
       ELSE UNCHANGED <<wire, pending_replies>>
    /\ UNCHANGED <<sent, channel, mode, conns, replies, runner, handler, dispatched, cancelled, reply>>

\* The channel and the replies are looked at only while the buffer is empty.
ReceiveMessage ==
    /\ mode = "connected" /\ buffer = << >> /\ channel /= << >>
    /\ channel' = Tail(channel)
    /\ buffer' = << Head(channel) >>
    /\ UNCHANGED <<sent, pending_replies, mode, conns, peer, cancelled, reply>>

ReceiveReply_LastFirst ==
    /\ mode = "connected" /\ buffer = << >> /\ replies[conns] /= << >>
    /\ replies' = [replies EXCEPT ![conns] = Tail(@)]
    /\ reply' = [reply EXCEPT ![pending_replies[Len(pending_replies)]] = Head(replies[conns])]
    /\ pending_replies' = SubSeq(pending_replies, 1, Len(pending_replies) - 1)
    /\ UNCHANGED <<sent, channel, buffer, mode, conns, wire, runner, handler, dispatched, cancelled>>

\* Whatever the reply says, it goes to the oldest unanswered message.
ReceiveReply ==
    /\ mode = "connected" /\ buffer = << >> /\ replies[conns] /= << >>
    /\ replies' = [replies EXCEPT ![conns] = Tail(@)]
    /\ reply' = [reply EXCEPT ![Head(pending_replies)] = Head(replies[conns])]
    /\ pending_replies' = Tail(pending_replies)
    /\ UNCHANGED <<sent, channel, buffer, mode, conns, wire, runner, handler, dispatched, cancelled>>

KeepAliveEnds_AtBack ==
    /\ mode = "connected"
    /\ runner[conns] /= "gone" => conns < MaxConnections
    /\ buffer' = buffer \o pending_replies
    /\ pending_replies' = << >>
    /\ mode' = "connecting"
    /\ UNCHANGED <<sent, channel, conns, peer, cancelled, reply>>

KeepAliveEnds_Forgets ==
    /\ mode = "connected"
    /\ runner[conns] /= "gone" => conns < MaxConnections
    /\ pending_replies' = << >>
    /\ mode' = "connecting"
    /\ UNCHANGED <<sent, channel, buffer, conns, peer, cancelled, reply>>

\* The connection is closed by the peer or breaks; within the bound the last one
\* does not break.
KeepAliveEnds ==
    /\ mode = "connected"
    /\ runner[conns] /= "gone" => conns < MaxConnections
    /\ buffer' = pending_replies \o buffer
    /\ pending_replies' = << >>
    /\ mode' = "connecting"
    /\ UNCHANGED <<sent, channel, conns, peer, cancelled, reply>>

\* The ReliableSender is dropped: the connection task ends, and with it all the
\* senders of replies.
DropSender ==
    /\ mode /= "dropped"
    /\ mode' = "dropped"
    /\ channel' = << >> /\ buffer' = << >> /\ pending_replies' = << >>
    /\ UNCHANGED <<sent, conns, peer, cancelled, reply>>
------------------------------------------------------------------------------
(* receiver.rs *)

\* The validator is started, stopped or restarted at the peer.
ChangeHandler ==
    /\ handler' = ~handler
    /\ UNCHANGED <<sent, channel, buffer, pending_replies, mode, conns, wire, replies, runner,
                   dispatched, cancelled, reply>>

\* The handlers of mempool and signatures answer "Ack" and take the message.
Dispatch(c) ==
    /\ runner[c] = "reading" /\ wire[c] /= << >> /\ handler
    /\ wire' = [wire EXCEPT ![c] = Tail(@)]
    /\ replies' = [replies EXCEPT ![c] = Append(@, "Ack")]
    /\ dispatched' = dispatched \union {Head(wire[c])}
    /\ UNCHANGED <<sent, channel, buffer, pending_replies, mode, conns, runner, handler, cancelled, reply>>

\* After "No handler found" the runner sleeps for ten seconds and closes the
\* connection.
NoHandlerFound(c) ==
    /\ runner[c] = "reading" /\ wire[c] /= << >> /\ ~handler
    /\ wire' = [wire EXCEPT ![c] = Tail(@)]
    /\ replies' = [replies EXCEPT ![c] = Append(@, "No handler found")]
    /\ runner' = [runner EXCEPT ![c] = "sleeping"]
    /\ UNCHANGED <<sent, channel, buffer, pending_replies, mode, conns, handler, dispatched, cancelled, reply>>

CloseConnection(c) ==
    /\ runner[c] = "sleeping"
    /\ runner' = [runner EXCEPT ![c] = "gone"]
    /\ UNCHANGED <<sent, channel, buffer, pending_replies, mode, conns, wire, replies, handler,
                   dispatched, cancelled, reply>>

Next ==
    \/ Send \/ (\E m \in Message : Cancel(m))
    \/ Connect \/ ConnectFails \/ RetryDelayEnds \/ DrainChannel
    \/ SendBuffered \/ ReceiveMessage \/ ReceiveReply \/ KeepAliveEnds \/ DropSender
    \/ ChangeHandler
    \/ \E c \in Connection : Dispatch(c) \/ NoHandlerFound(c) \/ CloseConnection(c)

\* The tasks are scheduled fairly, a peer that stays up is reached in the end, and
\* a connection that the peer has closed is noticed.
Fairness ==
    /\ WF_vars(RetryDelayEnds) /\ SF_vars(Connect)
    /\ WF_vars(SendBuffered) /\ WF_vars(ReceiveMessage) /\ WF_vars(ReceiveReply)
    /\ WF_vars(KeepAliveEnds /\ runner[conns] = "gone")
    /\ \A c \in Connection :
        WF_vars(Dispatch(c) \/ NoHandlerFound(c)) /\ WF_vars(CloseConnection(c))

Spec == Init /\ [][Next]_vars /\ Fairness
------------------------------------------------------------------------------
Elements(s) == {s[i] : i \in DOMAIN s}

\* The state has its types, and there are replies on the current connection only
\* for messages that wait for one.
TypeOK ==
    /\ sent \in 0 .. MaxMessages
    /\ channel \in Seq(Message) /\ buffer \in Seq(Message) /\ pending_replies \in Seq(Message)
    /\ mode \in {"connecting", "waiting", "connected", "dropped"}
    /\ conns \in 0 .. MaxConnections
    /\ wire \in [Connection -> Seq(Message)]
    /\ replies \in [Connection -> Seq({"Ack", "No handler found"})]
    /\ runner \in [Connection -> {"reading", "sleeping", "gone"}]
    /\ handler \in BOOLEAN
    /\ dispatched \subseteq 1 .. sent /\ cancelled \subseteq 1 .. sent
    /\ reply \in [Message -> {"none", "Ack", "No handler found"}]
    /\ mode = "connected" =>
        /\ conns > 0
        /\ Len(replies[conns]) + Len(wire[conns]) = Len(pending_replies)

\* Replies carry no number, and connections break with messages and replies under
\* way; still a cancel handler that receives "Ack" belongs to a message that the
\* handler of the peer was given.
AckIsDelivery == \A m \in Message : reply[m] = "Ack" => m \in dispatched

Queued == Elements(channel) \union Elements(buffer) \union Elements(pending_replies)

\* While the ReliableSender exists no break of a connection loses a message: one that
\* is neither answered nor cancelled is in the channel, in the buffer or waiting
\* for its reply, exactly once.
NothingLost ==
    mode /= "dropped" =>
        \A m \in 1 .. sent : Live(m) /\ reply[m] = "none" => m \in Queued

\* Messages are never queued twice or out of order: a new transmission keeps the order
\* of the first.
QueuedInOrder ==
    LET q == pending_replies \o buffer \o channel
    IN  \A i, j \in DOMAIN q : i < j => q[i] < q[j]

\* "This sender is 'reliable' in the sense that it keeps trying to re-transmit
\* messages": once the peer has its handler for good, every message is answered.
\* (The last connection of the bound must not be one that the peer closes.)
EventuallyAnswered ==
    \A m \in Message :
        <>[](handler /\ mode /= "dropped" /\ runner[MaxConnections] = "reading") =>
            (m <= sent ~> reply[m] /= "none" \/ ~Live(m))

\* "it keeps trying to re-transmit messages for which it didn't receive an ACK back
\* (until they succeed or are canceled)": a message whose reply is not an Ack is
\* still to be sent.
RetransmitsUntilAck ==
    mode /= "dropped" =>
        \A m \in 1 .. sent : Live(m) /\ reply[m] /= "Ack" => m \in Queued
==============================================================================
