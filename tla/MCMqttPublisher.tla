--------------------------- MODULE MCMqttPublisher ---------------------------
(***************************************************************************)
(* MqttPublisher for TLC, in three parts: "items" publishes an item and a  *)
(* message without retain, "events" two such messages, "states" has a      *)
(* second topic that every connection publishes again.  All run on the     *)
(* topics of the .cfg; a part leaves those alone that are not its own.     *)
(***************************************************************************)
EXTENDS MqttPublisher

CONSTANTS status, signalk, summary, event

VARIABLE part

partVars == <<part, vars>>

SignalkSnapshot == <<status, signalk>>

Items == INSTANCE MqttPublisher WITH
  Topics <- {status, summary}, SnapshotTopics <- <<status>>, Qos1 <- {status, summary}, MaxEvents <- 1
Events == INSTANCE MqttPublisher WITH
  Topics <- {status}, SnapshotTopics <- <<status>>, Qos1 <- {status}
States == INSTANCE MqttPublisher WITH
  Topics <- {status, signalk}, Qos1 <- {status, signalk}, PahoQueue <- 1, MaxEvents <- 0

PartInit ==
  /\ part \in {"items", "events", "states"}
  /\ Init /\ (part # "states" => unsent = {})

PartNext ==
  \/ part = "items" /\ Items!Next /\ UNCHANGED part
  \/ part = "events" /\ Events!Next /\ UNCHANGED part
  \/ part = "states" /\ States!Next /\ UNCHANGED part

\* The fairness of MqttPublisher.
PartFairness ==
  /\ WF_vars(\/ part = "items" /\ Items!WorkerStep
             \/ part = "events" /\ Events!WorkerStep
             \/ part = "states" /\ States!WorkerStep)
  /\ WF_vars(part = "states" /\ PublishState(signalk))
  /\ WF_vars(Stop \/ Joined)
  /\ WF_vars(DeadlinePasses)
  /\ WF_vars(Connect)
  /\ WF_vars(BrokerRead)
  /\ WF_vars(BrokerReadsDisconnect)
  /\ WF_vars(BrokerLosesSession)
  /\ WF_vars(OnPublish)

PartSpec == PartInit /\ [][PartNext]_partVars /\ PartFairness

-----------------------------------------------------------------------------
\* While the bridge runs, every retained topic of the part comes to rest at its last publication
\* (Converges), once connections stop failing.
Used == CASE part = "items" -> {status, summary} [] part = "events" -> {status} [] part = "states" -> {status, signalk}
AtRest == \A t \in Used : Settled(t)
PartConverges == [](main = "running") => <>[]AtRest
=============================================================================
