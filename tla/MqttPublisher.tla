---------------------------- MODULE MqttPublisher ----------------------------
(***************************************************************************)
(* displays/bridge.py, class MqttPublisher, and the thread of Bridge that  *)
(* feeds it: how a published value travels                                 *)
(*                                                                         *)
(*   Bridge main thread -> mailbox + command queue -> publisher worker     *)
(*     -> paho client -> connection -> Mosquitto's retained messages       *)
(*                                                                         *)
(* The main thread and paho's network thread only append commands (under   *)
(* the condition's lock); the worker is the one thread that calls paho.    *)
(* paho-mqtt and Mosquitto are external: modelled from how the publisher   *)
(* uses them (QoS 1 packets stay queued until acknowledged and are sent    *)
(* again after a reconnection, QoS 0 packets die with the connection, the  *)
(* last will is published when a session is lost).                         *)
(*                                                                         *)
(* Abstractions.  A payload is the number of the publication on its topic  *)
(* (0: none), so two publications with equal text are still two; the       *)
(* status topic carries the two constants Online and Offline.  A retained  *)
(* topic's sent_generation and retained_generation are only ever compared  *)
(* for equality: "dirty" is the set of topics where they differ.  An mid   *)
(* stands for the topic it was sent on (_mid_topics).  _sent_retained is   *)
(* written and never read: left out.                                       *)
(***************************************************************************)
EXTENDS Naturals, Sequences, FiniteSets, SequencesExt

CONSTANTS
  Topics,          \* retained topics
  Status,          \* the bridge/status topic: online, offline, last will
  SnapshotTopics,  \* the topics on_mqtt_connected republishes, in its order
  Qos1,            \* topics published with QoS 1; the others use QoS 0
  EventTopic,      \* stands for every topic published without retain
  MaxQueued,       \* MQTT_MAX_QUEUED_MESSAGES: commands and waiting list
  PahoQueue,       \* paho's max_queued_messages (unacknowledged QoS 1 packets)
  MaxVersion,      \* bound: publications of one topic
  MaxEvents,       \* bound: publications without retain
  MaxConnects      \* bound: connections to the broker

Snapshot == Range(SnapshotTopics)

Online  == 2
Offline == 1
NoValue == 0

ASSUME TopicsAssumption ==
  /\ Status \in Snapshot \cap Qos1
  /\ SnapshotTopics \in Seq(Topics)
  /\ Qos1 \subseteq Topics
  /\ EventTopic \notin Topics
ASSUME BoundsAssumption ==
  /\ MaxQueued \in Nat \ {0} /\ PahoQueue \in Nat \ {0}
  /\ MaxVersion \in Nat /\ MaxEvents \in Nat /\ MaxConnects \in Nat

VARIABLES
  \* Bridge's main thread
  main,        \* "running", then shutdown(): "offline", "joining", "done"
  value,       \* value[t]: the last publication of t, for a Snapshot topic the bridge's state
  unsent,      \* Snapshot topics whose state changed and is not published yet
  issued,      \* publications without retain so far
  steady,      \* the link was up at the offline publication and stayed up since
  \* shared under the condition
  commands,    \* _commands
  mailbox,     \* _retained_mailbox: NoValue when the topic has no entry
  stopping,    \* _stopping
  late,        \* _stop_deadline has passed
  \* worker thread
  worker,      \* where the worker is in _run
  snap,        \* topics on_connect still has to publish
  todo,        \* topics the current drain has still to look at
  connected,   \* _connected
  retained,    \* _retained: NoValue when the topic has no entry
  dirty,       \* topics with sent_generation # retained_generation
  outstanding, \* keys of _outstanding
  waiting,     \* _waiting
  \* paho, the connection and the broker
  link,        \* "down", "up", "closing" (DISCONNECT sent) or "closed"
  connects,    \* connections so far
  outMsgs,     \* paho's unacknowledged QoS 1 packets, oldest first
  wire,        \* packets sent and not yet read by the broker
  acks,        \* PUBACKs sent and not yet read by the client
  session,     \* the broker holds a session, with its last will
  broker,      \* broker[t]: the retained message of t
  seen         \* messages without retain the broker has read

mainVars   == <<main, value, unsent, issued, steady>>
sharedVars == <<commands, mailbox, stopping, late>>
workerVars == <<worker, snap, todo, connected, retained, dirty, outstanding, waiting>>
netVars    == <<link, connects, outMsgs, wire, acks, session, broker, seen>>
vars == <<mainVars, sharedVars, workerVars, netVars>>

-----------------------------------------------------------------------------
(* Commands of _commands, packets of the connection. *)

ConnectCmd     == [kind |-> "connect"]
DisconnectCmd  == [kind |-> "disconnect"]
AckCmd(t)      == [kind |-> "ack", topic |-> t]
RetainedCmd(t) == [kind |-> "retained", topic |-> t]
PublishCmd(e)  == [kind |-> "publish", event |-> e]

Command == {ConnectCmd, DisconnectCmd}
             \cup [kind : {"ack", "retained"}, topic : Topics]
             \cup [kind : {"publish"}, event : Nat]

Packet(t, v) == [topic |-> t, payload |-> v]
Packets == [topic : Topics \cup {EventTopic}, payload : Nat]

Init ==
  /\ main = "running"
  \* signalk and ha start "disconnected"; run() publishes signalk, ha only on a change
  /\ value = [t \in Topics |-> IF t \in Snapshot \ {Status} THEN 1 ELSE NoValue]
  /\ unsent \in SUBSET (Snapshot \ {Status})
  /\ issued = 0 /\ steady = FALSE
  /\ commands = <<>> /\ mailbox = [t \in Topics |-> NoValue]
  /\ stopping = FALSE /\ late = FALSE
  /\ worker = "take" /\ snap = <<>> /\ todo = {}
  /\ connected = FALSE /\ retained = [t \in Topics |-> NoValue]
  /\ dirty = {} /\ outstanding = {} /\ waiting = <<>>
  /\ link = "down" /\ connects = 0 /\ outMsgs = <<>> /\ wire = <<>> /\ acks = <<>>
  /\ session = FALSE /\ broker = [t \in Topics |-> NoValue] /\ seen = <<>>

-----------------------------------------------------------------------------
(* Names ending in Mutant are deliberately wrong variants of the definition  *)
(* that follows them: each shows that a property notices that mistake.       *)

(* The main thread.  publish(..., retain=True): the mailbox keeps the newest *)
(* value of a topic and only its first entry queues a command.               *)
FirstMutant(t) == TRUE
First(t) == mailbox[t] = NoValue

SubmitRetained(t, v) ==
  /\ ~stopping
  /\ mailbox' = [mailbox EXCEPT ![t] = v]
  /\ commands' = IF First(t) THEN Append(commands, RetainedCmd(t)) ELSE commands
  /\ UNCHANGED <<stopping, late>>

\* _set_signalk / _set_ha: the new state is visible to on_mqtt_connected at once,
\* and published only after the engines' messages and the summary.
SetState(t) ==
  /\ main = "running"
  /\ t \in Snapshot \ ({Status} \cup unsent)
  /\ value[t] < MaxVersion
  /\ value' = [value EXCEPT ![t] = @ + 1]
  /\ unsent' = unsent \cup {t}
  /\ UNCHANGED <<main, issued, steady, sharedVars, workerVars, netVars>>

PublishState(t) ==
  /\ main = "running"
  /\ t \in unsent
  /\ SubmitRetained(t, value[t])
  /\ unsent' = unsent \ {t}
  /\ UNCHANGED <<main, value, issued, steady, workerVars, netVars>>

\* Items, the alarm summary: published by the main thread only.
PublishItem(t) ==
  /\ main = "running"
  /\ t \in Topics \ Snapshot
  /\ value[t] < MaxVersion
  /\ value' = [value EXCEPT ![t] = @ + 1]
  /\ SubmitRetained(t, value[t] + 1)
  /\ UNCHANGED <<main, unsent, issued, steady, workerVars, netVars>>

\* publish(..., retain=False): dropped when the command queue is full.
PublishEvent ==
  /\ main = "running"
  /\ issued < MaxEvents
  /\ ~stopping
  /\ issued' = issued + 1
  /\ commands' = IF Len(commands) < MaxQueued
                 THEN Append(commands, PublishCmd(issued + 1)) ELSE commands
  /\ UNCHANGED <<main, value, unsent, steady, mailbox, stopping, late, workerVars, netVars>>

\* shutdown(): the offline status, then (another step) stop().
PublishOffline ==
  /\ main = "running"
  /\ unsent = {}
  /\ SubmitRetained(Status, Offline)
  /\ main' = "offline"
  /\ steady' = (link = "up")
  /\ UNCHANGED <<value, unsent, issued, workerVars, netVars>>

Stop ==
  /\ main = "offline"
  /\ stopping' = TRUE
  /\ main' = "joining"
  /\ UNCHANGED <<value, unsent, issued, steady, commands, mailbox, late, workerVars, netVars>>

\* stop(): the worker has returned or join timed out; client.disconnect(), loop_stop().
Joined ==
  /\ main = "joining"
  /\ worker = "exited" \/ late
  /\ main' = "done"
  /\ link' = IF link = "up" THEN "closing" ELSE "closed"
  /\ UNCHANGED <<value, unsent, issued, steady, sharedVars, workerVars,
                 connects, outMsgs, wire, acks, session, broker, seen>>

\* Three seconds after stop() set _stop_deadline.
DeadlinePasses ==
  /\ stopping /\ ~late
  /\ late' = TRUE
  /\ UNCHANGED <<mainVars, commands, mailbox, stopping, workerVars, netVars>>

-----------------------------------------------------------------------------
(* _send and paho's publish(): a QoS 1 packet is refused when paho's queue is *)
(* full, else kept until acknowledged even without a connection; a QoS 0      *)
(* packet is refused without a connection.  A refused value stays dirty.      *)
Accepts(t) == IF t \in Qos1 THEN Len(outMsgs) < PahoQueue ELSE link = "up"

Deliver(p) == wire' = IF link = "up" THEN Append(wire, p) ELSE wire

Send(t, v) ==
  IF Accepts(t)
  THEN /\ Deliver(Packet(t, v))
       /\ IF t \in Qos1
          THEN /\ outMsgs' = Append(outMsgs, Packet(t, v))
               /\ outstanding' = outstanding \cup {t}
          ELSE UNCHANGED <<outMsgs, outstanding>>
       /\ dirty' = dirty \ {t}
  ELSE dirty' = dirty \cup {t} /\ UNCHANGED <<outMsgs, wire, outstanding>>

\* The unacknowledged packets of t.
InFlight(t) == {i \in DOMAIN outMsgs : outMsgs[i].topic = t}

Known == {t \in Topics : retained[t] # NoValue}

MaySendMutant(t) == connected   \* does not wait for the acknowledgement

\* _drain_topic: one packet of a topic at a time.
MaySend(t) == connected /\ t \notin outstanding

\* The worker goes on to drain the topics of ts, then back to the queue.
DrainNext(ts) == /\ todo' = ts
                 /\ worker' = IF ts = {} THEN "take" ELSE "drain"

\* The top of _run's loop: past the deadline the worker takes nothing more.
CanTake == worker = "take" /\ commands # <<>> /\ ~(stopping /\ late)

\* What a new connection makes dirty: the broker may have lost all of it.
Resend == Known

TakeConnect ==
  /\ CanTake /\ Head(commands) = ConnectCmd
  /\ commands' = Tail(commands)
  /\ connected' = TRUE
  /\ dirty' = dirty \cup Resend
  /\ worker' = "connected"
  /\ UNCHANGED <<mainVars, mailbox, stopping, late, snap, todo, retained,
                 outstanding, waiting, netVars>>

\* if not self._stopping: on_connect()
CallOnConnect ==
  /\ worker = "connected"
  /\ snap' = IF stopping THEN <<>> ELSE SnapshotTopics
  /\ worker' = IF stopping THEN "flush" ELSE "snapshot"
  /\ UNCHANGED <<mainVars, sharedVars, todo, connected, retained, dirty,
                 outstanding, waiting, netVars>>

SnapshotDone == Tail(snap) = <<>>

\* on_mqtt_connected publishes the state it reads now; publish() runs inline on the worker.
PublishSnapshot ==
  /\ worker = "snapshot"
  /\ LET t == Head(snap)
         v == IF t = Status THEN Online ELSE value[t]
     IN  /\ retained' = [retained EXCEPT ![t] = v]
         /\ IF MaySend(t) THEN Send(t, v)
            ELSE dirty' = dirty \cup {t} /\ UNCHANGED <<outMsgs, wire, outstanding>>
  /\ snap' = Tail(snap)
  /\ worker' = IF SnapshotDone THEN "flush" ELSE "snapshot"
  /\ UNCHANGED <<mainVars, sharedVars, todo, connected, waiting,
                 link, connects, acks, session, broker, seen>>

\* The messages without retain that waited for the connection, one per step.
FlushWaiting ==
  /\ worker = "flush"
  /\ IF waiting = <<>>
     THEN DrainNext(Known) /\ UNCHANGED <<waiting, wire>>
     ELSE /\ waiting' = Tail(waiting)
          /\ IF link = "up" THEN Deliver(Packet(EventTopic, Head(waiting))) ELSE UNCHANGED wire
          /\ UNCHANGED <<worker, todo>>
  /\ UNCHANGED <<mainVars, sharedVars, snap, connected, retained, dirty, outstanding,
                 link, connects, outMsgs, acks, session, broker, seen>>

Drain(t) ==
  /\ worker = "drain"
  /\ t \in todo
  /\ IF MaySend(t) /\ t \in dirty THEN Send(t, retained[t])
     ELSE UNCHANGED <<dirty, outMsgs, wire, outstanding>>
  /\ DrainNext(todo \ {t})
  /\ UNCHANGED <<mainVars, sharedVars, snap, connected, retained, waiting,
                 link, connects, acks, session, broker, seen>>

TakeDisconnect ==
  /\ CanTake /\ Head(commands) = DisconnectCmd
  /\ commands' = Tail(commands)
  /\ connected' = FALSE
  /\ UNCHANGED <<mainVars, mailbox, stopping, late, worker, snap, todo, retained,
                 dirty, outstanding, waiting, netVars>>

\* An acknowledgement may have made room in paho's queue: every topic is looked at.
AfterAckMutant(t) == {}
AfterAckOwnMutant(t) == {t} \cap Known
AfterAck(t) == Known

TakeAck(t) ==
  /\ CanTake /\ Head(commands) = AckCmd(t)
  /\ commands' = Tail(commands)
  /\ outstanding' = outstanding \ {t}
  /\ DrainNext(AfterAck(t))
  /\ UNCHANGED <<mainVars, mailbox, stopping, late, snap, connected, retained,
                 dirty, waiting, netVars>>

\* A retained command, and (the lock is released in between) the mailbox entry it names.
TakeRetained(t) ==
  /\ CanTake /\ Head(commands) = RetainedCmd(t)
  /\ commands' = Tail(commands)
  /\ worker' = "pop"
  /\ todo' = {t}
  /\ UNCHANGED <<mainVars, mailbox, stopping, late, snap, connected, retained,
                 dirty, outstanding, waiting, netVars>>

PopMailbox(t) ==
  /\ worker = "pop"
  /\ t \in todo
  /\ mailbox' = [mailbox EXCEPT ![t] = NoValue]
  /\ IF mailbox[t] # NoValue
     THEN /\ retained' = [retained EXCEPT ![t] = mailbox[t]]
          /\ dirty' = dirty \cup {t}
          /\ DrainNext({t})
     ELSE DrainNext({}) /\ UNCHANGED <<retained, dirty>>
  /\ UNCHANGED <<mainVars, commands, stopping, late, snap, connected, outstanding,
                 waiting, netVars>>

SendsAtOnceMutant == link = "up"   \* ahead of the messages still waiting
SendsAtOnce == connected

TakePublish(e) ==
  /\ CanTake /\ Head(commands) = PublishCmd(e)
  /\ commands' = Tail(commands)
  /\ IF SendsAtOnce
     THEN /\ IF link = "up" THEN Deliver(Packet(EventTopic, e)) ELSE UNCHANGED wire
          /\ UNCHANGED waiting
     ELSE /\ waiting' = IF Len(waiting) < MaxQueued THEN Append(waiting, e) ELSE waiting
          /\ UNCHANGED wire
  /\ UNCHANGED <<mainVars, mailbox, stopping, late, worker, snap, todo, connected, retained,
                 dirty, outstanding, link, connects, outMsgs, acks, session, broker, seen>>

AcknowledgedMutant == TRUE
Acknowledged == outstanding = {} \/ ~connected

\* Stopping: the queue is empty and nothing can still be acknowledged, or the deadline passed.
WorkerExits ==
  /\ worker = "take" /\ stopping
  /\ late \/ (commands = <<>> /\ Acknowledged)
  /\ worker' = "exited"
  /\ UNCHANGED <<mainVars, sharedVars, snap, todo, connected, retained, dirty,
                 outstanding, waiting, netVars>>

-----------------------------------------------------------------------------
(* paho's network thread and the broker (external, but for the callbacks). *)

\* CONNACK: a session the broker still held is taken over (its will goes out first)
\* and paho sends its unacknowledged packets again.
Connect ==
  /\ link = "down" /\ connects < MaxConnects
  /\ link' = "up" /\ connects' = connects + 1
  /\ broker' = IF session THEN [broker EXCEPT ![Status] = Offline] ELSE broker
  /\ session' = TRUE
  /\ wire' = outMsgs /\ acks' = <<>>
  /\ commands' = Append(commands, ConnectCmd)
  /\ UNCHANGED <<mainVars, mailbox, stopping, late, workerVars, outMsgs, seen>>

Disconnected ==
  /\ link = "up" /\ connects < MaxConnects
  /\ link' = "down" /\ acks' = <<>>
  /\ steady' = FALSE
  /\ commands' = Append(commands, DisconnectCmd)

\* The connection breaks; the broker may not know yet and still reads what has arrived.
Drop ==
  /\ Disconnected
  /\ UNCHANGED <<main, value, unsent, issued, mailbox, stopping, late, workerVars,
                 connects, outMsgs, wire, session, broker, seen>>

\* Mosquitto restarts, with the database it saved (kept) or without it.
BrokerRestart ==
  /\ Disconnected
  /\ \E kept \in BOOLEAN : broker' = IF kept THEN broker ELSE [t \in DOMAIN broker |-> NoValue]
  /\ session' = FALSE /\ wire' = <<>>
  /\ UNCHANGED <<main, value, unsent, issued, mailbox, stopping, late, workerVars,
                 connects, outMsgs, seen>>

BrokerRead ==
  /\ session /\ wire # <<>>
  /\ LET p == Head(wire)
     IN  /\ IF p.topic = EventTopic
            THEN seen' = Append(seen, p.payload) /\ UNCHANGED broker
            ELSE broker' = [broker EXCEPT ![p.topic] = p.payload] /\ UNCHANGED seen
         /\ acks' = IF p.topic \in Qos1 /\ link = "up" THEN Append(acks, p.topic) ELSE acks
  /\ wire' = Tail(wire)
  /\ UNCHANGED <<mainVars, sharedVars, workerVars, link, connects, outMsgs, session>>

\* The broker notices that the client is gone: last will.
BrokerLosesSession ==
  /\ session /\ link \in {"down", "closed"}
  /\ session' = FALSE /\ wire' = <<>>
  /\ broker' = [broker EXCEPT ![Status] = Offline]
  /\ UNCHANGED <<mainVars, sharedVars, workerVars, link, connects, outMsgs, acks, seen>>

\* The broker reads DISCONNECT behind everything sent before it: no will.
BrokerReadsDisconnect ==
  /\ session /\ link = "closing" /\ wire = <<>>
  /\ link' = "closed" /\ session' = FALSE
  /\ UNCHANGED <<mainVars, sharedVars, workerVars, connects, outMsgs, wire, acks, broker, seen>>

\* PUBACK: paho forgets the packet, on_publish queues the acknowledgement.
OnPublish ==
  /\ link = "up" /\ acks # <<>>
  /\ \E i \in InFlight(Head(acks)) : outMsgs' = RemoveAt(outMsgs, i)
  /\ commands' = Append(commands, AckCmd(Head(acks)))
  /\ acks' = Tail(acks)
  /\ UNCHANGED <<mainVars, mailbox, stopping, late, workerVars, link, connects,
                 wire, session, broker, seen>>

\* After shutdown nothing needs to happen any more.
Terminated == main = "done" /\ UNCHANGED vars

-----------------------------------------------------------------------------
MainStep ==
  \/ \E t \in Topics : SetState(t) \/ PublishState(t) \/ PublishItem(t)
  \/ PublishEvent \/ PublishOffline \/ Stop \/ Joined

WorkerStep ==
  \/ TakeConnect \/ CallOnConnect \/ PublishSnapshot \/ FlushWaiting \/ TakeDisconnect
  \/ \E t \in Topics : Drain(t) \/ TakeAck(t) \/ TakeRetained(t) \/ PopMailbox(t)
  \/ \E e \in 1 .. MaxEvents : TakePublish(e)
  \/ WorkerExits

NetStep ==
  \/ Connect \/ Drop \/ BrokerRestart \/ BrokerRead \/ BrokerLosesSession
  \/ BrokerReadsDisconnect \/ OnPublish

Next == MainStep \/ WorkerStep \/ NetStep \/ DeadlinePasses \/ Terminated

\* Threads are scheduled, paho keeps reconnecting, a live broker reads what it is
\* sent; nothing obliges the bridge to change state, to publish or to stop.
Fairness ==
  /\ WF_vars(WorkerStep)
  /\ WF_vars(\E t \in Topics : PublishState(t))
  /\ WF_vars(Stop \/ Joined)
  /\ WF_vars(DeadlinePasses)
  /\ WF_vars(Connect)
  /\ WF_vars(BrokerRead)
  /\ WF_vars(BrokerReadsDisconnect)
  /\ WF_vars(BrokerLosesSession)
  /\ WF_vars(OnPublish)

Spec == Init /\ [][Next]_vars
FairSpec == Spec /\ Fairness

-----------------------------------------------------------------------------
(* Properties. *)

\* TypeOK: every variable keeps the shape the code's containers have.
FlagTypes ==
  /\ steady \in BOOLEAN /\ stopping \in BOOLEAN /\ late \in BOOLEAN
  /\ connected \in BOOLEAN /\ session \in BOOLEAN

DataTypes ==
  /\ main \in {"running", "offline", "joining", "done"}
  /\ value \in [Topics -> Nat] /\ unsent \subseteq Snapshot
  /\ issued \in Nat
  /\ commands \in Seq(Command) /\ mailbox \in [Topics -> Nat]
  /\ worker \in {"take", "connected", "snapshot", "flush", "drain", "pop", "exited"}
  /\ snap \in Seq(Topics) /\ todo \subseteq Topics
  /\ retained \in [Topics -> Nat] /\ dirty \subseteq Topics
  /\ outstanding \subseteq Topics /\ waiting \in Seq(Nat)
  /\ link \in {"down", "up", "closing", "closed"} /\ connects \in Nat
  /\ outMsgs \in Seq(Packets) /\ wire \in Seq(Packets) /\ acks \in Seq(Topics)
  /\ broker \in [Topics -> Nat] /\ seen \in Seq(Nat)
  /\ worker = "snapshot" => snap # <<>>

TypeOK == FlagTypes /\ DataTypes

CountIn(c, s) == Cardinality({i \in DOMAIN s : s[i] = c})

\* MailboxBacked: a topic has a mailbox entry exactly while one command (queued, or
\* just taken by the worker) will collect it - no value waits without a command, and
\* the retained commands of a slow worker never outnumber the topics.
MailboxBacked ==
  \A t \in Topics :
    LET taken == IF worker = "pop" /\ t \in todo THEN 1 ELSE 0
    IN  CountIn(RetainedCmd(t), commands) + taken = IF mailbox[t] = NoValue THEN 0 ELSE 1

\* OneInFlight: a topic is outstanding exactly while one packet of it is unacknowledged
\* or its acknowledgement is queued - never two packets of a topic (a retransmission
\* could bring back the older value), never an outstanding mark nothing will clear.
OneInFlight ==
  \A t \in Topics :
    Cardinality(InFlight(t)) + CountIn(AckCmd(t), commands)
      = IF t \in outstanding THEN 1 ELSE 0

\* NoStall: a worker back at its queue with a value not sent is waiting for something
\* that will make it look again: an acknowledgement, or a new connection.
NoStall ==
  \A t \in dirty \cap Known :
    worker = "take" /\ connected =>
      \/ outstanding # {} /\ t \in Qos1
      \/ link # "up" \/ CountIn(ConnectCmd, commands) > 0

\* EventOrder: messages without retain reach the broker in the order they were
\* published and at most once, whether they waited for the connection or not.
EventOrder == \A i \in 1 .. Len(seen) - 1 : seen[i] < seen[i + 1]

Stopped == main = "done" /\ ~session

\* CleanStopDelivers: stop() with a link that stays up and acknowledgements in time
\* leaves every topic that was ever published at its last publication, and the
\* status offline.
CleanStopDelivers ==
  Stopped /\ steady /\ ~late =>
    /\ broker[Status] = Offline
    /\ \A t \in Known \ {Status} : broker[t] = value[t]

\* CleanStopOffline: the documentation's promise (docs/DISPLAYS.md:116-118): the status
\* topic reads offline after a clean stop, and after a crash through the last will.
CleanStopOffline == Stopped /\ ~late => broker[Status] # Online

\* Channel: for the topics one thread publishes, the broker's message is never
\* replaced by an older publication (RetainedChannel), across reconnections,
\* retransmissions and coalescing.
ItemTopics == Topics \ Snapshot
Channel == INSTANCE RetainedChannel
             WITH Topics <- ItemTopics,
                  latest <- [t \in ItemTopics |-> value[t]],
                  shown  <- [t \in ItemTopics |-> broker[t]]
ChannelSpec == Channel!ChanSpec

\* Converges: while the bridge keeps running, once connections stop failing every
\* retained topic comes to rest at its last publication, and the status at online.
Settled(t) == broker[t] = IF t = Status THEN Online ELSE value[t]
Converges == [](main = "running") => \A t \in Topics : <>[]Settled(t)
=============================================================================
