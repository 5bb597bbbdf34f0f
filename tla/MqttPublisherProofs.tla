------------------------- MODULE MqttPublisherProofs -------------------------
(***************************************************************************)
(* Theorems about MqttPublisher, for every set of topics, every bound and  *)
(* every interleaving of the main thread, the worker, paho and the broker. *)
(***************************************************************************)
EXTENDS MqttPublisher, FiniteSetTheorems, SequenceTheorems, TLAPS

USE TopicsAssumption, BoundsAssumption DEF Online, Offline, NoValue

(***************************************************************************)
(* The commands and packets the actions build belong to their sets.        *)
(***************************************************************************)
LEMMA CommandTypes ==
  /\ ConnectCmd \in Command /\ DisconnectCmd \in Command
  /\ \A t \in Topics : AckCmd(t) \in Command /\ RetainedCmd(t) \in Command
  /\ \A e \in Nat : PublishCmd(e) \in Command
BY DEF Command, ConnectCmd, DisconnectCmd, AckCmd, RetainedCmd, PublishCmd

LEMMA SnapshotTypes == Snapshot \subseteq Topics /\ SnapshotTopics # <<>>
<1>1. \A i \in DOMAIN SnapshotTopics : SnapshotTopics[i] \in Topics
  BY SMT
<1> QED BY <1>1, EmptySeq DEF Snapshot, Range

\* Appending to and taking from a sequence keeps its element type.
LEMMA AppendType == ASSUME NEW S, NEW s \in Seq(S), NEW e \in S
                    PROVE  Append(s, e) \in Seq(S)
BY AppendProperties

LEMMA TailType == ASSUME NEW S, NEW s \in Seq(S), s # <<>>
                  PROVE  Head(s) \in S /\ Tail(s) \in Seq(S)
BY HeadTailProperties

LEMMA RemoveAtType == ASSUME NEW S, NEW s \in Seq(S), NEW i \in 1 .. Len(s)
                      PROVE  RemoveAt(s, i) \in Seq(S)
<1>1. SubSeq(s, 1, i - 1) \in Seq(S)
  BY SubSeqProperties, ElementOfSeq
<1>2. SubSeq(s, i + 1, Len(s)) \in Seq(S)
  BY SubSeqProperties, ElementOfSeq
<1> QED BY <1>1, <1>2, ConcatProperties DEF RemoveAt

(***************************************************************************)
(* Typing.                                                                 *)
(***************************************************************************)
LEMMA InitType == Init => TypeOK
<1> SUFFICES ASSUME Init PROVE FlagTypes /\ DataTypes
  BY DEF TypeOK
<1>1. FlagTypes
  BY Zenon DEF Init, FlagTypes
<1>2. DataTypes
  BY SnapshotTypes, EmptySeq DEF Init, DataTypes
<1> QED BY <1>1, <1>2

LEMMA FlagStep == FlagTypes /\ [Next]_vars => FlagTypes'
<1> SUFFICES ASSUME FlagTypes, [Next]_vars PROVE FlagTypes'
  OBVIOUS
<1>0. (link = "up") \in BOOLEAN
  OBVIOUS
<1> USE DEF mainVars, sharedVars, workerVars, netVars
<1>1. CASE MainStep
  <2>1. ASSUME NEW t \in Topics, SetState(t) \/ PublishState(t) \/ PublishItem(t) PROVE FlagTypes'
    BY <2>1, Zenon DEF SetState, PublishState, PublishItem, SubmitRetained, FlagTypes
  <2>2. CASE PublishEvent \/ Joined
    BY <2>2, Zenon DEF PublishEvent, Joined, FlagTypes
  <2>3. CASE PublishOffline \/ Stop
    BY <1>0, <2>3, Zenon DEF PublishOffline, Stop, SubmitRetained, FlagTypes
  <2> QED BY <1>1, <2>1, <2>2, <2>3 DEF MainStep
<1>2. CASE WorkerStep
  <2>1. CASE TakeConnect \/ CallOnConnect \/ TakeDisconnect
    BY <2>1, Zenon DEF TakeConnect, CallOnConnect, TakeDisconnect, FlagTypes
  <2>2. CASE PublishSnapshot \/ FlushWaiting \/ WorkerExits
    BY <2>2, Zenon DEF PublishSnapshot, FlushWaiting, WorkerExits, FlagTypes
  <2>3. ASSUME NEW t \in Topics, Drain(t) \/ TakeAck(t) \/ TakeRetained(t) \/ PopMailbox(t)
        PROVE FlagTypes'
    BY <2>3, Zenon DEF Drain, TakeAck, TakeRetained, PopMailbox, FlagTypes
  <2>4. ASSUME NEW e \in 1 .. MaxEvents, TakePublish(e) PROVE FlagTypes'
    BY <2>4, Zenon DEF TakePublish, FlagTypes
  <2> QED BY <1>2, <2>1, <2>2, <2>3, <2>4 DEF WorkerStep
<1>3. CASE NetStep
  <2>1. CASE Connect \/ Drop \/ BrokerRestart
    BY <2>1, Zenon DEF Connect, Drop, BrokerRestart, Disconnected, FlagTypes
  <2>2. CASE BrokerRead \/ BrokerLosesSession \/ BrokerReadsDisconnect \/ OnPublish
    BY <2>2, Zenon DEF BrokerRead, BrokerLosesSession, BrokerReadsDisconnect, OnPublish, FlagTypes
  <2> QED BY <1>3, <2>1, <2>2 DEF NetStep
<1>4. CASE DeadlinePasses
  BY <1>4, Zenon DEF DeadlinePasses, FlagTypes
<1>5. CASE Terminated \/ UNCHANGED vars
  BY <1>5, Zenon DEF Terminated, vars, FlagTypes
<1> QED BY <1>1, <1>2, <1>3, <1>4, <1>5 DEF Next

LEMMA SendType ==
  ASSUME DataTypes, NEW t \in Topics, NEW v \in Nat, Send(t, v)
  PROVE  /\ outMsgs' \in Seq(Packets) /\ wire' \in Seq(Packets)
         /\ outstanding' \subseteq Topics /\ dirty' \subseteq Topics
<1>1. Packet(t, v) \in Packets
  BY DEF Packet, Packets
<1>2. Append(wire, Packet(t, v)) \in Seq(Packets) /\ Append(outMsgs, Packet(t, v)) \in Seq(Packets)
  BY <1>1, AppendType DEF DataTypes
<1> QED BY <1>2 DEF Send, Deliver, DataTypes

LEMMA Bump == ASSUME NEW f \in [Topics -> Nat], NEW t \in Topics
              PROVE  [f EXCEPT ![t] = @ + 1] \in [Topics -> Nat]
OBVIOUS

LEMMA MainStepType == DataTypes /\ MainStep => DataTypes'
<1> SUFFICES ASSUME DataTypes, MainStep PROVE DataTypes'
  OBVIOUS
<1> USE SnapshotTypes
<1>1. ASSUME NEW t \in Topics PROVE Append(commands, RetainedCmd(t)) \in Seq(Command)
  BY CommandTypes, AppendType DEF DataTypes
<1>2. ASSUME NEW t \in Topics, SetState(t) PROVE DataTypes'
  <2>1. value' \in [Topics -> Nat]
    BY <1>2, Bump DEF SetState, DataTypes
  <2>2. unsent' \subseteq Snapshot
    BY <1>2, Zenon DEF SetState, DataTypes
  <2> QED BY <1>2, <2>1, <2>2, Zenon DEF SetState, DataTypes, sharedVars, workerVars, netVars
<1>3. ASSUME NEW t \in Topics, PublishState(t) PROVE DataTypes'
  BY <1>1, <1>3 DEF PublishState, SubmitRetained, DataTypes, workerVars, netVars
<1>4. ASSUME NEW t \in Topics, PublishItem(t) PROVE DataTypes'
  <2>1. value' \in [Topics -> Nat]
    BY <1>4, Bump DEF PublishItem, DataTypes
  <2>2. value[t] + 1 \in Nat
    <3>1. value[t] \in Nat
      BY DEF DataTypes
    <3> QED BY <3>1
  <2>3. mailbox' \in [Topics -> Nat] /\ commands' \in Seq(Command)
    <3> DEFINE n == value[t] + 1
    <3>1. SubmitRetained(t, n)
      BY <1>4 DEF PublishItem
    <3> HIDE DEF n
    <3> QED BY <1>1, <2>2, <3>1 DEF SubmitRetained, DataTypes, n
  <2> QED BY <1>4, <2>1, <2>3, Zenon DEF PublishItem, DataTypes, workerVars, netVars
<1>5. CASE PublishEvent
  <2>1. Append(commands, PublishCmd(issued + 1)) \in Seq(Command)
    BY CommandTypes, AppendType DEF DataTypes
  <2>2. commands' \in Seq(Command)
    BY <1>5, <2>1, Zenon DEF PublishEvent, DataTypes
  <2>3. issued' \in Nat
    BY <1>5 DEF PublishEvent, DataTypes
  <2> QED BY <1>5, <2>2, <2>3, Zenon DEF PublishEvent, DataTypes, workerVars, netVars
<1>6. CASE PublishOffline
  BY <1>1, <1>6 DEF PublishOffline, SubmitRetained, DataTypes, workerVars, netVars
<1>7. CASE Stop
  BY <1>7 DEF Stop, DataTypes, workerVars, netVars
<1>8. CASE Joined
  BY <1>8 DEF Joined, DataTypes, sharedVars, workerVars
<1> QED BY <1>2, <1>3, <1>4, <1>5, <1>6, <1>7, <1>8 DEF MainStep

LEMMA WorkerStepType == DataTypes /\ WorkerStep => DataTypes'
<1> SUFFICES ASSUME DataTypes, WorkerStep PROVE DataTypes'
  OBVIOUS
<1> USE SnapshotTypes
<1>t. CanTake => Tail(commands) \in Seq(Command)
  BY TailType DEF CanTake, DataTypes
<1>k. Known \subseteq Topics
  BY DEF Known
<1>1. CASE TakeConnect
  BY <1>1, <1>t, <1>k DEF Resend, TakeConnect, DataTypes, mainVars, netVars
<1>2. CASE CallOnConnect
  BY <1>2, EmptySeq DEF CallOnConnect, DataTypes, mainVars, sharedVars, netVars
<1>3. CASE PublishSnapshot
  <2> DEFINE t == Head(snap)
             v == IF t = Status THEN Online ELSE value[t]
  <2>1. t \in Topics /\ Tail(snap) \in Seq(Topics)
    BY <1>3, TailType DEF PublishSnapshot, DataTypes
  <2>2. v \in Nat
    BY <2>1 DEF DataTypes
  <2>3. /\ outMsgs' \in Seq(Packets) /\ wire' \in Seq(Packets)
        /\ outstanding' \subseteq Topics /\ dirty' \subseteq Topics
    <3>1. CASE MaySend(t)
      <4>1. Send(t, v)
        BY <1>3, <3>1 DEF PublishSnapshot
      <4> HIDE DEF t, v
      <4> QED BY <4>1, <2>1, <2>2, SendType
    <3>2. CASE ~MaySend(t)
      BY <1>3, <3>2, <2>1 DEF PublishSnapshot, DataTypes
    <3> QED BY <3>1, <3>2
  <2> QED BY <1>3, <2>1, <2>2, <2>3 DEF PublishSnapshot, SnapshotDone, DataTypes, mainVars, sharedVars
<1>4. CASE FlushWaiting
  <2>1. CASE waiting = <<>>
    BY <1>4, <2>1, <1>k DEF FlushWaiting, DrainNext, DataTypes, mainVars, sharedVars
  <2>2. CASE waiting # <<>>
    <3>1. Head(waiting) \in Nat /\ Tail(waiting) \in Seq(Nat)
      BY <2>2, TailType DEF DataTypes
    <3>2. Append(wire, Packet(EventTopic, Head(waiting))) \in Seq(Packets)
      BY <3>1, AppendType DEF Packet, Packets, DataTypes
    <3> QED BY <1>4, <2>2, <3>1, <3>2 DEF FlushWaiting, Deliver, DataTypes, mainVars, sharedVars
  <2> QED BY <2>1, <2>2
<1>5. ASSUME NEW t \in Topics, Drain(t) PROVE DataTypes'
  <2>1. retained[t] \in Nat
    BY DEF DataTypes
  <2>2. /\ outMsgs' \in Seq(Packets) /\ wire' \in Seq(Packets)
        /\ outstanding' \subseteq Topics /\ dirty' \subseteq Topics
    <3>1. CASE MaySend(t) /\ t \in dirty
      BY <1>5, <3>1, <2>1, SendType DEF Drain
    <3>2. CASE ~(MaySend(t) /\ t \in dirty)
      BY <1>5, <3>2 DEF Drain, DataTypes
    <3> QED BY <3>1, <3>2
  <2> QED BY <1>5, <2>2 DEF Drain, DrainNext, DataTypes, mainVars, sharedVars
<1>6. CASE TakeDisconnect
  BY <1>6, <1>t DEF TakeDisconnect, DataTypes, mainVars, netVars
<1>7. ASSUME NEW t \in Topics, TakeAck(t) PROVE DataTypes'
  BY <1>7, <1>t, <1>k DEF AfterAck, TakeAck, DrainNext, DataTypes, mainVars, netVars
<1>8. ASSUME NEW t \in Topics, TakeRetained(t) PROVE DataTypes'
  BY <1>8, <1>t DEF TakeRetained, DataTypes, mainVars, netVars
<1>9. ASSUME NEW t \in Topics, PopMailbox(t) PROVE DataTypes'
  BY <1>9 DEF PopMailbox, DrainNext, DataTypes, mainVars, netVars
<1>10. ASSUME NEW e \in 1 .. MaxEvents, TakePublish(e) PROVE DataTypes'
  <2>1. Append(wire, Packet(EventTopic, e)) \in Seq(Packets) /\ Append(waiting, e) \in Seq(Nat)
    BY AppendType DEF Packet, Packets, DataTypes
  <2> QED BY <1>10, <1>t, <2>1 DEF TakePublish, Deliver, DataTypes, mainVars
<1>11. CASE WorkerExits
  BY <1>11 DEF WorkerExits, DataTypes, mainVars, sharedVars, netVars
<1> QED BY <1>1, <1>2, <1>3, <1>4, <1>5, <1>6, <1>7, <1>8, <1>9, <1>10, <1>11 DEF WorkerStep

LEMMA NetStepType == DataTypes /\ NetStep => DataTypes'
<1> SUFFICES ASSUME DataTypes, NetStep PROVE DataTypes'
  OBVIOUS
<1>s. Status \in Topics
  BY SnapshotTypes
<1>e. <<>> \in Seq(Topics) /\ <<>> \in Seq(Packets)
  BY EmptySeq
<1>1. CASE Connect
  <2>1. Append(commands, ConnectCmd) \in Seq(Command)
    BY CommandTypes, AppendType DEF DataTypes
  <2>2. broker' \in [Topics -> Nat]
    BY <1>1, <1>s DEF Connect, DataTypes
  <2>3. connects' \in Nat
    BY <1>1 DEF Connect, DataTypes
  <2> QED BY <1>1, <1>e, <2>1, <2>2, <2>3, Zenon DEF Connect, DataTypes, mainVars, workerVars
<1>2. CASE Drop \/ BrokerRestart
  <2>1. Append(commands, DisconnectCmd) \in Seq(Command)
    BY CommandTypes, AppendType DEF DataTypes
  <2>2. broker' \in [Topics -> Nat]
    <3>1. CASE broker' = broker
      BY <3>1, Zenon DEF DataTypes
    <3>2. CASE broker' = [t \in DOMAIN broker |-> NoValue]
      <4>1. DOMAIN broker = Topics
        BY Zenon DEF DataTypes
      <4> QED BY <3>2, <4>1
    <3> QED BY <1>2, <3>1, <3>2, Zenon DEF Drop, BrokerRestart
  <2> QED BY <1>2, <1>e, <2>1, <2>2, Zenon DEF Drop, BrokerRestart, Disconnected, DataTypes, workerVars
<1>3. CASE BrokerRead
  <2> DEFINE p == Head(wire)
  <2>1. p \in Packets /\ Tail(wire) \in Seq(Packets)
    BY <1>3, TailType DEF BrokerRead, DataTypes
  <2>2. seen' \in Seq(Nat)
    <3>1. Append(seen, p.payload) \in Seq(Nat)
      BY <2>1, AppendType DEF Packets, DataTypes
    <3> QED BY <1>3, <3>1, Zenon DEF BrokerRead, DataTypes
  <2>3. broker' \in [Topics -> Nat]
    BY <1>3, <2>1 DEF BrokerRead, Packets, DataTypes
  <2>4. acks' \in Seq(Topics)
    <3>1. p.topic \in Qos1 => Append(acks, p.topic) \in Seq(Topics)
      BY AppendType DEF DataTypes
    <3> QED BY <1>3, <3>1, Zenon DEF BrokerRead, DataTypes
  <2> QED BY <1>3, <2>1, <2>2, <2>3, <2>4, Zenon
          DEF BrokerRead, DataTypes, mainVars, sharedVars, workerVars
<1>4. CASE BrokerLosesSession
  <2>1. broker' \in [Topics -> Nat]
    BY <1>4, <1>s DEF BrokerLosesSession, DataTypes
  <2> QED BY <1>4, <1>e, <2>1, Zenon
          DEF BrokerLosesSession, DataTypes, mainVars, sharedVars, workerVars
<1>5. CASE BrokerReadsDisconnect
  BY <1>5, Zenon DEF BrokerReadsDisconnect, DataTypes, mainVars, sharedVars, workerVars
<1>6. CASE OnPublish
  <2>1. Head(acks) \in Topics /\ Tail(acks) \in Seq(Topics)
    BY <1>6, TailType DEF OnPublish, DataTypes
  <2>2. Append(commands, AckCmd(Head(acks))) \in Seq(Command)
    BY <2>1, CommandTypes, AppendType DEF DataTypes
  <2>3. outMsgs' \in Seq(Packets)
    BY <1>6, RemoveAtType DEF OnPublish, InFlight, DataTypes
  <2> QED BY <1>6, <2>1, <2>2, <2>3, Zenon DEF OnPublish, DataTypes, mainVars, workerVars
<1> QED BY <1>1, <1>2, <1>3, <1>4, <1>5, <1>6 DEF NetStep

LEMMA TypeStep == TypeOK /\ [Next]_vars => TypeOK'
<1> SUFFICES ASSUME DataTypes, FlagTypes, [Next]_vars PROVE DataTypes'
  BY FlagStep DEF TypeOK
<1>1. CASE DeadlinePasses
  BY <1>1, Zenon DEF DeadlinePasses, DataTypes, mainVars, workerVars, netVars
<1>2. CASE Terminated \/ UNCHANGED vars
  BY <1>2, Zenon DEF Terminated, vars, DataTypes, mainVars, sharedVars, workerVars, netVars
<1> QED BY <1>1, <1>2, MainStepType, WorkerStepType, NetStepType DEF Next

\* TypeOK holds in every reachable state.
THEOREM Typing == Spec => []TypeOK
<1> QED BY InitType, TypeStep, PTL DEF Spec

(***************************************************************************)
(* Counting in sequences: how many elements of s lie in C, and how that    *)
(* changes when an element is appended, taken from the front or removed.   *)
(***************************************************************************)
Places(C, s) == {i \in DOMAIN s : s[i] \in C}
Among(C, s) == Cardinality(Places(C, s))

LEMMA AmongNat ==
  ASSUME NEW S, NEW s \in Seq(S), NEW C
  PROVE  /\ IsFiniteSet(Places(C, s)) /\ Among(C, s) \in Nat
         /\ Among(C, s) = 0 <=> \A i \in 1 .. Len(s) : s[i] \notin C
<1>1. DOMAIN s = 1 .. Len(s) /\ Len(s) \in Nat
  OBVIOUS
<1>2. IsFiniteSet(1 .. Len(s))
  BY <1>1, FS_Interval
<1>3. IsFiniteSet(Places(C, s))
  BY <1>1, <1>2, FS_Subset DEF Places
<1>4. Among(C, s) \in Nat
  BY <1>3, FS_CardinalityType DEF Among
<1>5. Among(C, s) = 0 <=> Places(C, s) = {}
  BY <1>3, FS_EmptySet DEF Among
<1> QED BY <1>1, <1>3, <1>4, <1>5 DEF Places

LEMMA AmongAppend ==
  ASSUME NEW S, NEW s \in Seq(S), NEW e \in S, NEW C
  PROVE  Among(C, Append(s, e)) = Among(C, s) + (IF e \in C THEN 1 ELSE 0)
<1> DEFINE a == Append(s, e)
           n == Len(s)
<1>1. /\ n \in Nat /\ DOMAIN s = 1 .. n /\ DOMAIN a = 1 .. (n + 1)
      /\ \A i \in 1 .. n : a[i] = s[i]
      /\ a[n + 1] = e
  BY AppendProperties
<1>2. IsFiniteSet(Places(C, s)) /\ Among(C, s) \in Nat
  BY AmongNat
<1>3. n + 1 \notin Places(C, s)
  BY <1>1 DEF Places
<1> HIDE DEF a, n
<1>4. CASE e \in C
  <2>1. Places(C, a) = Places(C, s) \cup {n + 1}
    BY <1>1, <1>4 DEF Places
  <2>2. Cardinality(Places(C, s) \cup {n + 1}) = Cardinality(Places(C, s)) + 1
    BY <1>2, <1>3, FS_AddElement
  <2> QED BY <1>4, <2>1, <2>2 DEF Among, a
<1>5. CASE e \notin C
  <2>1. Places(C, a) = Places(C, s)
    BY <1>1, <1>5 DEF Places
  <2> QED BY <1>2, <1>5, <2>1 DEF Among, a
<1> QED BY <1>4, <1>5

LEMMA RemoveAtProperties ==
  ASSUME NEW S, NEW s \in Seq(S), NEW k \in 1 .. Len(s)
  PROVE  /\ DOMAIN RemoveAt(s, k) = 1 .. (Len(s) - 1)
         /\ \A i \in 1 .. (Len(s) - 1) : RemoveAt(s, k)[i] = IF i < k THEN s[i] ELSE s[i + 1]
<1> DEFINE u == SubSeq(s, 1, k - 1)
           w == SubSeq(s, k + 1, Len(s))
<1>0. Len(s) \in Nat /\ k \in Nat /\ \A i \in 1 .. Len(s) : s[i] \in S
  BY ElementOfSeq
<1>1. /\ u \in Seq(S) /\ Len(u) = k - 1
      /\ \A i \in 1 .. (k - 1) : u[i] = s[i]
  <2>1. \A i \in 1 .. (k - 1) : s[i] \in S
    BY <1>0
  <2>2. /\ u \in Seq(S) /\ Len(u) = IF 1 <= k - 1 THEN k - 1 - 1 + 1 ELSE 0
        /\ \A i \in 1 .. (k - 1 - 1 + 1) : u[i] = s[1 + i - 1]
    BY <1>0, <2>1, SubSeqProperties
  <2> HIDE DEF u
  <2> QED BY <1>0, <2>2
<1>2. /\ w \in Seq(S) /\ Len(w) = Len(s) - k
      /\ \A i \in 1 .. (Len(s) - k) : w[i] = s[k + i]
  <2>1. \A i \in (k + 1) .. Len(s) : s[i] \in S
    BY <1>0
  <2>2. /\ w \in Seq(S) /\ Len(w) = IF k + 1 <= Len(s) THEN Len(s) - (k + 1) + 1 ELSE 0
        /\ \A i \in 1 .. (Len(s) - (k + 1) + 1) : w[i] = s[k + 1 + i - 1]
    BY <1>0, <2>1, SubSeqProperties
  <2> HIDE DEF w
  <2> QED BY <1>0, <2>2
<1> HIDE DEF u, w
<1>3. /\ u \o w \in Seq(S) /\ Len(u \o w) = Len(u) + Len(w)
      /\ \A i \in 1 .. (Len(u) + Len(w)) :
            (u \o w)[i] = IF i <= Len(u) THEN u[i] ELSE w[i - Len(u)]
  BY <1>1, <1>2, ConcatProperties
<1>4. DOMAIN (u \o w) = 1 .. (Len(s) - 1)
  BY <1>0, <1>1, <1>2, <1>3
<1>5. ASSUME NEW i \in 1 .. (Len(s) - 1)
      PROVE  (u \o w)[i] = IF i < k THEN s[i] ELSE s[i + 1]
  <2>1. CASE i < k
    BY <1>0, <1>1, <1>2, <1>3, <2>1
  <2>2. CASE ~(i < k)
    <3>1. i - (k - 1) \in 1 .. (Len(s) - k) /\ k + (i - (k - 1)) = i + 1
      BY <1>0, <2>2
    <3>2. (u \o w)[i] = w[i - Len(u)]
      BY <1>0, <1>1, <1>2, <1>3, <2>2
    <3>3. w[i - (k - 1)] = s[k + (i - (k - 1))]
      BY <1>2, <3>1
    <3> QED BY <1>1, <2>2, <3>1, <3>2, <3>3
  <2> QED BY <2>1, <2>2
<1> QED BY <1>4, <1>5 DEF RemoveAt, u, w

\* Taking out position k removes exactly the place k.
LEMMA AmongRemove ==
  ASSUME NEW S, NEW s \in Seq(S), NEW k \in 1 .. Len(s), NEW C
  PROVE  Among(C, RemoveAt(s, k)) = Among(C, s) - (IF s[k] \in C THEN 1 ELSE 0)
<1> DEFINE r == RemoveAt(s, k)
           n == Len(s)
           f == [i \in Places(C, r) |-> IF i < k THEN i ELSE i + 1]
<1>1. /\ n \in Nat /\ k \in 1 .. n /\ DOMAIN s = 1 .. n /\ DOMAIN r = 1 .. (n - 1)
      /\ \A i \in 1 .. (n - 1) : r[i] = IF i < k THEN s[i] ELSE s[i + 1]
  BY RemoveAtProperties
<1>2. IsFiniteSet(Places(C, s)) /\ Among(C, s) \in Nat
  BY AmongNat
<1> HIDE DEF r, n
<1>3. f \in Bijection(Places(C, r), Places(C, s) \ {k})
  <2>1. f \in [Places(C, r) -> Places(C, s) \ {k}]
    BY <1>1 DEF Places
  <2>2. \A i, j \in Places(C, r) : f[i] = f[j] => i = j
    BY <1>1 DEF Places
  <2>3. ASSUME NEW j \in Places(C, s) \ {k} PROVE \E i \in Places(C, r) : f[i] = j
    <3> DEFINE i == IF j < k THEN j ELSE j - 1
    <3>1. i \in Places(C, r) /\ f[i] = j
      BY <1>1, <2>3 DEF Places
    <3> QED BY <3>1
  <2> HIDE DEF f
  <2> QED BY <2>1, <2>2, <2>3 DEF Bijection, Injection, Surjection, IsInjective
<1>4. /\ IsFiniteSet(Places(C, s) \ {k})
      /\ Cardinality(Places(C, s) \ {k})
           = IF k \in Places(C, s) THEN Cardinality(Places(C, s)) - 1 ELSE Cardinality(Places(C, s))
  BY <1>2, FS_RemoveElement
<1>5. Cardinality(Places(C, r)) = Cardinality(Places(C, s) \ {k})
  <2>1. f \in Injection(Places(C, r), Places(C, s) \ {k})
        /\ f \in Surjection(Places(C, r), Places(C, s) \ {k})
    BY <1>3 DEF Bijection
  <2> HIDE DEF f
  <2> QED BY <1>4, <2>1, FS_Injection
<1>6. k \in Places(C, s) <=> s[k] \in C
  BY <1>1 DEF Places
<1> QED BY <1>2, <1>4, <1>5, <1>6 DEF Among, r

LEMMA AmongTail ==
  ASSUME NEW S, NEW s \in Seq(S), s # <<>>, NEW C
  PROVE  Among(C, Tail(s)) = Among(C, s) - (IF Head(s) \in C THEN 1 ELSE 0)
<1>1. 1 \in 1 .. Len(s) /\ Head(s) = s[1]
  BY EmptySeq
<1>2. Tail(s) = RemoveAt(s, 1)
  <2>1. /\ DOMAIN RemoveAt(s, 1) = 1 .. (Len(s) - 1)
        /\ \A i \in 1 .. (Len(s) - 1) : RemoveAt(s, 1)[i] = IF i < 1 THEN s[i] ELSE s[i + 1]
    BY <1>1, RemoveAtProperties
  <2>2. RemoveAt(s, 1) \in Seq(S)
    BY <1>1, RemoveAtType
  <2>3. /\ Tail(s) \in Seq(S) /\ Len(Tail(s)) = Len(s) - 1
        /\ \A i \in 1 .. Len(Tail(s)) : Tail(s)[i] = s[i + 1]
    BY HeadTailProperties
  <2>4. Len(RemoveAt(s, 1)) = Len(s) - 1
    BY <1>1, <2>1, <2>2
  <2>5. \A i \in 1 .. Len(Tail(s)) : Tail(s)[i] = RemoveAt(s, 1)[i]
    BY <1>1, <2>1, <2>3
  <2> DEFINE u == Tail(s)
             w == RemoveAt(s, 1)
  <2> HIDE DEF u, w
  <2>6. u = w
    BY <2>2, <2>3, <2>4, <2>5, SeqEqual DEF u, w
  <2> QED BY <2>6 DEF u, w
<1>3. Among(C, RemoveAt(s, 1)) = Among(C, s) - (IF s[1] \in C THEN 1 ELSE 0)
  BY <1>1, AmongRemove
<1> QED BY <1>1, <1>2, <1>3, Zenon

\* CountIn and InFlight are the two counts the invariants use.
LEMMA CountIsAmong == \A c, s : CountIn(c, s) = Among({c}, s)
<1> SUFFICES ASSUME NEW c, NEW s PROVE CountIn(c, s) = Among({c}, s)
  OBVIOUS
<1>1. {i \in DOMAIN s : s[i] = c} = Places({c}, s)
  BY DEF Places
<1> QED BY <1>1, Zenon DEF CountIn, Among

OfTopic(t) == [topic : {t}, payload : Nat]

LEMMA InFlightIsAmong ==
  ASSUME NEW m \in Seq(Packets), NEW t
  PROVE  {i \in DOMAIN m : m[i].topic = t} = Places(OfTopic(t), m)
<1>1. \A i \in DOMAIN m : m[i] \in Packets
  BY ElementOfSeq
<1>2. \A p \in Packets : p.topic = t <=> p \in OfTopic(t)
  BY DEF Packets, OfTopic
<1> QED BY <1>1, <1>2 DEF Places

\* How the count of a command changes with the queue.
LEMMA CountAppend ==
  ASSUME NEW q \in Seq(Command), NEW d \in Command, NEW c
  PROVE  /\ CountIn(c, q) \in Nat
         /\ CountIn(c, Append(q, d)) = CountIn(c, q) + (IF d = c THEN 1 ELSE 0)
<1>1. Among({c}, Append(q, d)) = Among({c}, q) + (IF d \in {c} THEN 1 ELSE 0)
  BY AmongAppend
<1>2. Among({c}, q) \in Nat
  BY AmongNat
<1>3. CountIn(c, q) = Among({c}, q) /\ CountIn(c, Append(q, d)) = Among({c}, Append(q, d))
  BY CountIsAmong, Zenon
<1>4. d \in {c} <=> d = c
  OBVIOUS
<1> HIDE DEF CountIn
<1> QED BY <1>1, <1>2, <1>3, <1>4

LEMMA CountTail ==
  ASSUME NEW q \in Seq(Command), q # <<>>, NEW c
  PROVE  /\ CountIn(c, q) \in Nat /\ CountIn(c, Tail(q)) \in Nat
         /\ CountIn(c, Tail(q)) = CountIn(c, q) - (IF Head(q) = c THEN 1 ELSE 0)
<1>1. Tail(q) \in Seq(Command)
  BY TailType
<1>2. Among({c}, Tail(q)) = Among({c}, q) - (IF Head(q) \in {c} THEN 1 ELSE 0)
  BY AmongTail
<1>3. Among({c}, q) \in Nat /\ Among({c}, Tail(q)) \in Nat
  BY <1>1, AmongNat
<1>4. CountIn(c, q) = Among({c}, q) /\ CountIn(c, Tail(q)) = Among({c}, Tail(q))
  BY CountIsAmong, Zenon
<1>5. Head(q) \in {c} <=> Head(q) = c
  OBVIOUS
<1> HIDE DEF CountIn
<1> QED BY <1>2, <1>3, <1>4, <1>5

LEMMA CommandsDiffer ==
  \A t, u \in Topics, e \in Nat :
    /\ ConnectCmd # RetainedCmd(t) /\ DisconnectCmd # RetainedCmd(t)
    /\ AckCmd(u) # RetainedCmd(t) /\ PublishCmd(e) # RetainedCmd(t)
    /\ ConnectCmd # AckCmd(t) /\ DisconnectCmd # AckCmd(t) /\ PublishCmd(e) # AckCmd(t)
    /\ AckCmd(u) = AckCmd(t) => u = t
    /\ RetainedCmd(u) = RetainedCmd(t) => u = t
BY DEF ConnectCmd, DisconnectCmd, AckCmd, RetainedCmd, PublishCmd

(***************************************************************************)
(* The mailbox.  MailboxBacked is inductive with two facts about the code  *)
(* around it: the worker collects one topic at a time, and what the main   *)
(* thread still has to publish is never the value that stands for none.    *)
(***************************************************************************)
Taken(t) == IF worker = "pop" /\ t \in todo THEN 1 ELSE 0
Backed(t) == CountIn(RetainedCmd(t), commands) + Taken(t) = IF mailbox[t] = NoValue THEN 0 ELSE 1

CollectOK ==
  /\ worker = "pop" => \E t \in Topics : todo = {t}
  /\ unsent \subseteq Snapshot \ {Status}
  /\ \A t \in Snapshot \ {Status} : value[t] # NoValue

MailboxInv == MailboxBacked /\ CollectOK

LEMMA BackedDef ==
  /\ MailboxBacked <=> \A t \in Topics : Backed(t)
  /\ MailboxBacked' <=> \A t \in Topics : Backed(t)'
BY Zenon DEF MailboxBacked, Backed, Taken

LEMMA BackedFrame ==
  ASSUME NEW t, Backed(t), commands' = commands, mailbox' = mailbox, Taken(t)' = Taken(t)
  PROVE  Backed(t)'
BY Zenon DEF Backed

LEMMA BackedAppend ==
  ASSUME DataTypes, NEW t \in Topics, Backed(t), NEW d \in Command, d # RetainedCmd(t),
         commands' = Append(commands, d), mailbox' = mailbox, Taken(t)' = Taken(t)
  PROVE  Backed(t)'
<1>1. CountIn(RetainedCmd(t), commands') = CountIn(RetainedCmd(t), commands)
  <2>1. commands \in Seq(Command)
    BY DEF DataTypes
  <2>2. /\ CountIn(RetainedCmd(t), commands) \in Nat
        /\ CountIn(RetainedCmd(t), Append(commands, d))
             = CountIn(RetainedCmd(t), commands) + (IF d = RetainedCmd(t) THEN 1 ELSE 0)
    BY <2>1, CountAppend, Zenon
  <2> HIDE DEF CountIn
  <2> QED BY <2>2
<1> QED BY <1>1, Zenon DEF Backed

LEMMA BackedTake ==
  ASSUME DataTypes, NEW t \in Topics, Backed(t), commands # <<>>, Head(commands) # RetainedCmd(t),
         commands' = Tail(commands), mailbox' = mailbox, Taken(t)' = Taken(t)
  PROVE  Backed(t)'
<1>1. CountIn(RetainedCmd(t), commands') = CountIn(RetainedCmd(t), commands)
  <2>1. commands \in Seq(Command)
    BY DEF DataTypes
  <2>2. /\ CountIn(RetainedCmd(t), commands) \in Nat
        /\ CountIn(RetainedCmd(t), Tail(commands)) = CountIn(RetainedCmd(t), commands)
             - (IF Head(commands) = RetainedCmd(t) THEN 1 ELSE 0)
    BY <2>1, CountTail, Zenon
  <2> HIDE DEF CountIn
  <2> QED BY <2>2
<1> QED BY <1>1, Zenon DEF Backed

\* publish(retain=True) by the main thread.
LEMMA BackedSubmit ==
  ASSUME DataTypes, NEW t \in Topics, Backed(t), NEW u \in Topics, NEW v \in Nat \ {0},
         SubmitRetained(u, v), Taken(t)' = Taken(t)
  PROVE  Backed(t)'
<1>1. commands \in Seq(Command) /\ RetainedCmd(u) \in Command
  BY CommandTypes DEF DataTypes
<1>2. mailbox' = [mailbox EXCEPT ![u] = v] /\ mailbox \in [Topics -> Nat]
  BY Zenon DEF SubmitRetained, DataTypes
<1>3. /\ CountIn(RetainedCmd(t), commands) \in Nat
      /\ CountIn(RetainedCmd(t), Append(commands, RetainedCmd(u)))
           = CountIn(RetainedCmd(t), commands) + (IF RetainedCmd(u) = RetainedCmd(t) THEN 1 ELSE 0)
  BY <1>1, CountAppend, Zenon
<1>4. commands' = IF mailbox[u] = NoValue THEN Append(commands, RetainedCmd(u)) ELSE commands
  BY Zenon DEF SubmitRetained, First
<1>5. Taken(t) \in Nat /\ Taken(t)' \in Nat
  BY DEF Taken
<1> HIDE DEF CountIn, Taken
<1>6. CASE u = t
  <2>1. mailbox'[t] = v
    BY <1>2, <1>6
  <2> QED BY <1>3, <1>4, <1>5, <1>6, <2>1 DEF Backed
<1>7. CASE u # t
  <2>1. mailbox'[t] = mailbox[t] /\ RetainedCmd(u) # RetainedCmd(t)
    BY <1>2, <1>7, CommandsDiffer
  <2> QED BY <1>3, <1>4, <1>5, <2>1 DEF Backed
<1> QED BY <1>6, <1>7

LEMMA MailboxMain == TypeOK /\ MailboxInv /\ MainStep => MailboxInv'
<1> SUFFICES ASSUME DataTypes, \A t \in Topics : Backed(t), CollectOK, MainStep
             PROVE  (\A t \in Topics : Backed(t)') /\ CollectOK'
  BY BackedDef DEF MailboxInv, TypeOK
<1>t. worker' = worker /\ todo' = todo
  <2>1. ASSUME NEW u \in Topics, SetState(u) \/ PublishState(u) \/ PublishItem(u)
        PROVE  worker' = worker /\ todo' = todo
    BY <2>1, Zenon DEF SetState, PublishState, PublishItem, workerVars
  <2>2. CASE PublishEvent \/ PublishOffline \/ Stop \/ Joined
    BY <2>2, Zenon DEF PublishEvent, PublishOffline, Stop, Joined, workerVars
  <2> QED BY <2>1, <2>2, Zenon DEF MainStep
<1>k. \A t \in Topics : Taken(t)' = Taken(t)
  BY <1>t, Zenon DEF Taken
<1>1. ASSUME NEW u \in Topics, SetState(u)
      PROVE  (\A t \in Topics : Backed(t)') /\ CollectOK'
  <2>1. commands' = commands /\ mailbox' = mailbox
    BY <1>1, Zenon DEF SetState, sharedVars
  <2>2. value' = [value EXCEPT ![u] = @ + 1] /\ unsent' = unsent \cup {u} /\ u \in Snapshot \ {Status}
    BY <1>1, Zenon DEF SetState
  <2>3. \A t \in Snapshot \ {Status} : value'[t] # NoValue
    BY <2>2, SnapshotTypes DEF CollectOK, DataTypes
  <2> QED BY <1>t, <1>k, <2>1, <2>2, <2>3, BackedFrame, Zenon DEF CollectOK
<1>2. ASSUME NEW u \in Topics, PublishState(u)
      PROVE  (\A t \in Topics : Backed(t)') /\ CollectOK'
  <2>1. value[u] \in Nat \ {0} /\ SubmitRetained(u, value[u])
    BY <1>2 DEF PublishState, CollectOK, DataTypes
  <2>2. unsent' = unsent \ {u} /\ value' = value
    BY <1>2, Zenon DEF PublishState
  <2> QED BY <1>t, <1>k, <2>1, <2>2, BackedSubmit, Zenon DEF CollectOK
<1>3. ASSUME NEW u \in Topics, PublishItem(u)
      PROVE  (\A t \in Topics : Backed(t)') /\ CollectOK'
  <2>0. value[u] \in Nat
    BY DEF DataTypes
  <2>1. value[u] + 1 \in Nat \ {0}
    BY <2>0
  <2>2. /\ SubmitRetained(u, value[u] + 1) /\ u \notin Snapshot
        /\ value' = [value EXCEPT ![u] = @ + 1] /\ unsent' = unsent
    BY <1>3, Zenon DEF PublishItem
  <2>3. \A t \in Snapshot \ {Status} : value'[t] = value[t]
    BY <2>2, SnapshotTypes DEF DataTypes
  <2> QED BY <1>t, <1>k, <2>1, <2>2, <2>3, BackedSubmit, Zenon DEF CollectOK
<1>4. CASE PublishEvent
  <2>1. mailbox' = mailbox /\ unsent' = unsent /\ value' = value
    BY <1>4, Zenon DEF PublishEvent
  <2>2. CASE commands' = commands
    BY <1>t, <1>k, <2>1, <2>2, BackedFrame, Zenon DEF CollectOK
  <2>3. CASE commands' = Append(commands, PublishCmd(issued + 1))
    <3>1. issued + 1 \in Nat
      BY DEF DataTypes
    <3> QED BY <1>t, <1>k, <2>1, <2>3, <3>1, CommandTypes, CommandsDiffer, BackedAppend, Zenon
            DEF CollectOK
  <2> QED BY <1>4, <2>2, <2>3, Zenon DEF PublishEvent
<1>5. CASE PublishOffline
  <2>1. Offline \in Nat \ {0} /\ Status \in Topics
    BY SnapshotTypes
  <2>2. SubmitRetained(Status, Offline) /\ unsent' = unsent /\ value' = value
    BY <1>5, Zenon DEF PublishOffline
  <2> QED BY <1>t, <1>k, <2>1, <2>2, BackedSubmit, Zenon DEF CollectOK
<1>6. CASE Stop \/ Joined
  <2>1. /\ commands' = commands /\ mailbox' = mailbox
        /\ unsent' = unsent /\ value' = value
    BY <1>6, Zenon DEF Stop, Joined, sharedVars
  <2> QED BY <1>t, <1>k, <2>1, BackedFrame, Zenon DEF CollectOK
<1> QED BY <1>1, <1>2, <1>3, <1>4, <1>5, <1>6, Zenon DEF MainStep

LEMMA MailboxWorker == TypeOK /\ MailboxInv /\ WorkerStep => MailboxInv'
<1> SUFFICES ASSUME DataTypes, \A t \in Topics : Backed(t), CollectOK, WorkerStep
             PROVE  (\A t \in Topics : Backed(t)') /\ CollectOK'
  BY BackedDef DEF MailboxInv, TypeOK
<1>v. unsent' = unsent /\ value' = value
  <2>1. CASE TakeConnect \/ CallOnConnect \/ TakeDisconnect
    BY <2>1, Zenon DEF TakeConnect, CallOnConnect, TakeDisconnect, mainVars
  <2>2. CASE PublishSnapshot \/ FlushWaiting \/ WorkerExits
    BY <2>2, Zenon DEF PublishSnapshot, FlushWaiting, WorkerExits, mainVars
  <2>3. ASSUME NEW t \in Topics, Drain(t) \/ TakeAck(t) \/ TakeRetained(t) \/ PopMailbox(t)
        PROVE  unsent' = unsent /\ value' = value
    BY <2>3, Zenon DEF Drain, TakeAck, TakeRetained, PopMailbox, mainVars
  <2>4. ASSUME NEW e \in 1 .. MaxEvents, TakePublish(e) PROVE unsent' = unsent /\ value' = value
    BY <2>4, Zenon DEF TakePublish, mainVars
  <2> QED BY <2>1, <2>2, <2>3, <2>4, Zenon DEF WorkerStep
<1>c. (worker' = "pop" => \E t \in Topics : todo' = {t}) => CollectOK'
  BY <1>v, Zenon DEF CollectOK
\* away from "pop" nothing is taken, whatever todo holds
<1>k. worker # "pop" /\ worker' # "pop" => \A t : Taken(t)' = Taken(t)
  BY Zenon DEF Taken
<1>1. CASE CallOnConnect \/ PublishSnapshot \/ FlushWaiting \/ WorkerExits
  <2>1. commands' = commands /\ mailbox' = mailbox
    BY <1>1, Zenon DEF CallOnConnect, PublishSnapshot, FlushWaiting, WorkerExits, sharedVars
  <2>2. worker # "pop" /\ worker' # "pop"
    BY <1>1 DEF CallOnConnect, PublishSnapshot, FlushWaiting, WorkerExits, DrainNext
  <2> QED BY <1>c, <1>k, <2>1, <2>2, BackedFrame, Zenon
<1>2. ASSUME NEW u \in Topics, Drain(u)
      PROVE  (\A t \in Topics : Backed(t)') /\ CollectOK'
  <2>1. commands' = commands /\ mailbox' = mailbox
    BY <1>2, Zenon DEF Drain, sharedVars
  <2>2. worker # "pop" /\ worker' # "pop"
    BY <1>2 DEF Drain, DrainNext
  <2> QED BY <1>c, <1>k, <2>1, <2>2, BackedFrame, Zenon
<1>3. CASE TakeConnect \/ TakeDisconnect
  <2>1. /\ commands # <<>> /\ commands' = Tail(commands) /\ mailbox' = mailbox
        /\ Head(commands) \in {ConnectCmd, DisconnectCmd}
    BY <1>3, Zenon DEF TakeConnect, TakeDisconnect, CanTake
  <2>2. worker # "pop" /\ worker' # "pop"
    BY <1>3 DEF TakeConnect, TakeDisconnect, CanTake
  <2>3. \A t \in Topics : Head(commands) # RetainedCmd(t)
    BY <2>1, CommandsDiffer
  <2> QED BY <1>c, <1>k, <2>1, <2>2, <2>3, BackedTake, Zenon
<1>4. ASSUME NEW u \in Topics, TakeAck(u)
      PROVE  (\A t \in Topics : Backed(t)') /\ CollectOK'
  <2>1. /\ commands # <<>> /\ commands' = Tail(commands) /\ mailbox' = mailbox
        /\ Head(commands) = AckCmd(u)
    BY <1>4, Zenon DEF TakeAck, CanTake
  <2>2. worker # "pop" /\ worker' # "pop"
    BY <1>4 DEF TakeAck, CanTake, DrainNext
  <2>3. \A t \in Topics : Head(commands) # RetainedCmd(t)
    BY <2>1, CommandsDiffer
  <2> QED BY <1>c, <1>k, <2>1, <2>2, <2>3, BackedTake, Zenon
<1>5. ASSUME NEW e \in 1 .. MaxEvents, TakePublish(e)
      PROVE  (\A t \in Topics : Backed(t)') /\ CollectOK'
  <2>1. /\ commands # <<>> /\ commands' = Tail(commands) /\ mailbox' = mailbox
        /\ Head(commands) = PublishCmd(e)
    BY <1>5, Zenon DEF TakePublish, CanTake
  <2>2. worker # "pop" /\ worker' # "pop"
    BY <1>5, Zenon DEF TakePublish, CanTake
  <2>3. \A t \in Topics : Head(commands) # RetainedCmd(t)
    BY <2>1, CommandsDiffer
  <2> QED BY <1>c, <1>k, <2>1, <2>2, <2>3, BackedTake, Zenon
\* the command is taken: what the queue loses, the worker holds
<1>6. ASSUME NEW u \in Topics, TakeRetained(u)
      PROVE  (\A t \in Topics : Backed(t)') /\ CollectOK'
  <2>1. /\ commands # <<>> /\ commands' = Tail(commands) /\ mailbox' = mailbox
        /\ Head(commands) = RetainedCmd(u) /\ worker # "pop" /\ worker' = "pop" /\ todo' = {u}
    BY <1>6 DEF TakeRetained, CanTake
  <2>2. ASSUME NEW t \in Topics PROVE Backed(t)'
    <3>1. Taken(t) = 0 /\ Taken(t)' = IF t = u THEN 1 ELSE 0
      BY <2>1 DEF Taken
    <3>2. commands \in Seq(Command)
      BY DEF DataTypes
    <3>3. /\ CountIn(RetainedCmd(t), commands) \in Nat
          /\ CountIn(RetainedCmd(t), Tail(commands)) \in Nat
          /\ CountIn(RetainedCmd(t), Tail(commands)) = CountIn(RetainedCmd(t), commands)
               - (IF Head(commands) = RetainedCmd(t) THEN 1 ELSE 0)
      BY <2>1, <3>2, CountTail, Zenon
    <3>4. Head(commands) = RetainedCmd(t) <=> t = u
      BY <2>1, CommandsDiffer, Zenon
    <3>5. CountIn(RetainedCmd(t), commands') = CountIn(RetainedCmd(t), Tail(commands))
      BY <2>1, Zenon
    <3>6. mailbox'[t] = mailbox[t] /\ Backed(t)
      BY <2>1
    <3> HIDE DEF CountIn, Taken
    <3> QED BY <3>1, <3>3, <3>4, <3>5, <3>6 DEF Backed
  <2> QED BY <1>c, <2>1, <2>2, Zenon
<1>7. ASSUME NEW u \in Topics, PopMailbox(u)
      PROVE  (\A t \in Topics : Backed(t)') /\ CollectOK'
  <2>1. /\ commands' = commands /\ worker = "pop" /\ worker' # "pop"
        /\ mailbox' = [mailbox EXCEPT ![u] = NoValue] /\ todo = {u}
    BY <1>7 DEF PopMailbox, DrainNext, CollectOK
  <2>2. ASSUME NEW t \in Topics PROVE Backed(t)'
    <3>1. Taken(t)' = 0 /\ Taken(t) = IF t = u THEN 1 ELSE 0
      BY <2>1 DEF Taken
    <3>2. commands \in Seq(Command)
      BY DEF DataTypes
    <3>3. CountIn(RetainedCmd(t), commands) \in Nat
      BY <3>2, CommandTypes, CountAppend, Zenon
    <3>4. CountIn(RetainedCmd(t), commands') = CountIn(RetainedCmd(t), commands)
      BY <2>1, Zenon
    <3>5. mailbox'[t] = IF t = u THEN NoValue ELSE mailbox[t]
      BY <2>1 DEF DataTypes
    <3>6. Backed(t)
      OBVIOUS
    <3> HIDE DEF CountIn, Taken
    <3> QED BY <3>1, <3>3, <3>4, <3>5, <3>6 DEF Backed
  <2> QED BY <1>c, <2>1, <2>2, Zenon
<1> QED BY <1>1, <1>2, <1>3, <1>4, <1>5, <1>6, <1>7, Zenon DEF WorkerStep

LEMMA MailboxNet == TypeOK /\ MailboxInv /\ NetStep => MailboxInv'
<1> SUFFICES ASSUME DataTypes, \A t \in Topics : Backed(t), CollectOK, NetStep
             PROVE  (\A t \in Topics : Backed(t)') /\ CollectOK'
  BY BackedDef DEF MailboxInv, TypeOK
<1>1. CASE Connect \/ Drop \/ BrokerRestart
  <2>1. /\ \E d \in {ConnectCmd, DisconnectCmd} : commands' = Append(commands, d)
        /\ mailbox' = mailbox /\ worker' = worker /\ todo' = todo /\ unsent' = unsent /\ value' = value
    BY <1>1, Zenon DEF Connect, Drop, BrokerRestart, Disconnected, mainVars, workerVars
  <2>2. \A t : Taken(t)' = Taken(t)
    BY <2>1, Zenon DEF Taken
  <2>3. PICK d \in {ConnectCmd, DisconnectCmd} : commands' = Append(commands, d)
    BY <2>1
  <2>4. d \in Command /\ \A t \in Topics : d # RetainedCmd(t)
    BY <2>3, CommandTypes, CommandsDiffer
  <2> QED BY <2>1, <2>2, <2>3, <2>4, BackedAppend, Zenon DEF CollectOK
<1>2. CASE OnPublish
  <2>1. /\ commands' = Append(commands, AckCmd(Head(acks))) /\ mailbox' = mailbox
        /\ worker' = worker /\ todo' = todo /\ unsent' = unsent /\ value' = value
    BY <1>2, Zenon DEF OnPublish, mainVars, workerVars
  <2>2. \A t : Taken(t)' = Taken(t)
    BY <2>1, Zenon DEF Taken
  <2>3. Head(acks) \in Topics
    BY <1>2, TailType DEF OnPublish, DataTypes
  <2>4. AckCmd(Head(acks)) \in Command /\ \A t \in Topics : AckCmd(Head(acks)) # RetainedCmd(t)
    BY <2>3, CommandTypes, CommandsDiffer
  <2> QED BY <2>1, <2>2, <2>4, BackedAppend, Zenon DEF CollectOK
<1>3. CASE BrokerRead \/ BrokerLosesSession \/ BrokerReadsDisconnect
  <2>1. /\ commands' = commands /\ mailbox' = mailbox
        /\ worker' = worker /\ todo' = todo /\ unsent' = unsent /\ value' = value
    BY <1>3, Zenon DEF BrokerRead, BrokerLosesSession, BrokerReadsDisconnect, mainVars,
                       sharedVars, workerVars
  <2>2. \A t : Taken(t)' = Taken(t)
    BY <2>1, Zenon DEF Taken
  <2> QED BY <2>1, <2>2, BackedFrame, Zenon DEF CollectOK
<1> QED BY <1>1, <1>2, <1>3, Zenon DEF NetStep

LEMMA CountEmpty == \A c : CountIn(c, <<>>) = 0
<1>1. \A c : {i \in DOMAIN <<>> : <<>>[i] = c} = {}
  OBVIOUS
<1> QED BY <1>1, FS_EmptySet DEF CountIn

\* The invariant of the proof: what a queued command collects, and which topics wait to be published.
LEMMA MailboxKept == Spec => []MailboxInv
<1>1. Init => MailboxInv
  <2> SUFFICES ASSUME Init PROVE (\A t \in Topics : Backed(t)) /\ CollectOK
    BY BackedDef DEF MailboxInv
  <2>1. CollectOK
    BY SnapshotTypes DEF Init, CollectOK
  <2>2. \A t \in Topics : Backed(t)
    <3>1. commands = <<>> /\ worker = "take" /\ \A t \in Topics : mailbox[t] = NoValue
      BY DEF Init
    <3>2. \A t : Taken(t) = 0
      BY <3>1 DEF Taken
    <3> QED BY <3>1, <3>2, CountEmpty DEF Backed
  <2> QED BY <2>1, <2>2
<1>2. TypeOK /\ MailboxInv /\ [Next]_vars => MailboxInv'
  <2> SUFFICES ASSUME TypeOK, MailboxInv, [Next]_vars PROVE MailboxInv'
    OBVIOUS
  <2>1. CASE DeadlinePasses \/ Terminated \/ UNCHANGED vars
    <3>1. /\ commands' = commands /\ mailbox' = mailbox
          /\ worker' = worker /\ todo' = todo /\ unsent' = unsent /\ value' = value
      BY <2>1, Zenon DEF DeadlinePasses, Terminated, vars, mainVars, sharedVars, workerVars
    <3>2. \A t : Taken(t)' = Taken(t)
      BY <3>1, Zenon DEF Taken
    <3> QED BY <3>1, <3>2, BackedFrame, BackedDef, Zenon DEF MailboxInv, CollectOK
  <2> QED BY <2>1, MailboxMain, MailboxWorker, MailboxNet, Zenon DEF Next
<1> QED BY <1>1, <1>2, Typing, PTL DEF Spec

\* MailboxBacked: every value waiting in the mailbox has exactly one command that will
\* collect it, so publish() never loses one and never floods the queue with a topic.
THEOREM MailboxSafe == Spec => []MailboxBacked
BY MailboxKept, PTL DEF MailboxInv

(***************************************************************************)
(* The packets in flight.                                                  *)
(***************************************************************************)
Single(t) ==
  Cardinality(InFlight(t)) + CountIn(AckCmd(t), commands) = IF t \in outstanding THEN 1 ELSE 0

LEMMA SingleDef ==
  /\ OneInFlight <=> \A t \in Topics : Single(t)
  /\ OneInFlight' <=> \A t \in Topics : Single(t)'
BY Zenon DEF OneInFlight, Single

LEMMA FlightCount ==
  ASSUME DataTypes, NEW t
  PROVE  Cardinality(InFlight(t)) = Among(OfTopic(t), outMsgs) /\ Cardinality(InFlight(t)) \in Nat
<1>1. outMsgs \in Seq(Packets)
  BY DEF DataTypes
<1>2. InFlight(t) = Places(OfTopic(t), outMsgs)
  BY <1>1, InFlightIsAmong, Zenon DEF InFlight
<1>3. Among(OfTopic(t), outMsgs) \in Nat
  BY <1>1, AmongNat
<1> QED BY <1>2, <1>3, Zenon DEF Among

LEMMA FlightCountNext ==
  ASSUME DataTypes', NEW t
  PROVE  Cardinality(InFlight(t))' = Among(OfTopic(t), outMsgs')
<1>1. outMsgs' \in Seq(Packets)
  BY DEF DataTypes
<1>2. InFlight(t)' = Places(OfTopic(t), outMsgs')
  BY <1>1, InFlightIsAmong, Zenon DEF InFlight
<1> QED BY <1>2, Zenon DEF Among

\* A step that moves no packet and no acknowledgement.
LEMMA SingleFrame ==
  ASSUME NEW t, Single(t), outMsgs' = outMsgs, outstanding' = outstanding,
         CountIn(AckCmd(t), commands') = CountIn(AckCmd(t), commands)
  PROVE  Single(t)'
<1>1. InFlight(t)' = InFlight(t)
  BY Zenon DEF InFlight
<1> QED BY <1>1, Zenon DEF Single

LEMMA AcksAppend ==
  ASSUME DataTypes, NEW t \in Topics, NEW d \in Command, commands' = Append(commands, d)
  PROVE  /\ CountIn(AckCmd(t), commands) \in Nat
         /\ CountIn(AckCmd(t), commands')
              = CountIn(AckCmd(t), commands) + (IF d = AckCmd(t) THEN 1 ELSE 0)
         /\ d # AckCmd(t) => CountIn(AckCmd(t), commands') = CountIn(AckCmd(t), commands)
<1>1. commands \in Seq(Command)
  BY DEF DataTypes
<1>2. /\ CountIn(AckCmd(t), commands) \in Nat
      /\ CountIn(AckCmd(t), Append(commands, d))
           = CountIn(AckCmd(t), commands) + (IF d = AckCmd(t) THEN 1 ELSE 0)
  BY <1>1, CountAppend, Zenon
<1>3. CountIn(AckCmd(t), commands') = CountIn(AckCmd(t), Append(commands, d))
  BY Zenon
<1> HIDE DEF CountIn
<1> QED BY <1>2, <1>3

LEMMA AcksTake ==
  ASSUME DataTypes, NEW t \in Topics, commands # <<>>, commands' = Tail(commands)
  PROVE  /\ CountIn(AckCmd(t), commands) \in Nat /\ CountIn(AckCmd(t), commands') \in Nat
         /\ CountIn(AckCmd(t), commands')
              = CountIn(AckCmd(t), commands) - (IF Head(commands) = AckCmd(t) THEN 1 ELSE 0)
         /\ Head(commands) # AckCmd(t) => CountIn(AckCmd(t), commands') = CountIn(AckCmd(t), commands)
<1>1. commands \in Seq(Command)
  BY DEF DataTypes
<1>2. /\ CountIn(AckCmd(t), commands) \in Nat /\ CountIn(AckCmd(t), Tail(commands)) \in Nat
      /\ CountIn(AckCmd(t), Tail(commands))
           = CountIn(AckCmd(t), commands) - (IF Head(commands) = AckCmd(t) THEN 1 ELSE 0)
  BY <1>1, CountTail, Zenon
<1>3. CountIn(AckCmd(t), commands') = CountIn(AckCmd(t), Tail(commands))
  BY Zenon
<1> HIDE DEF CountIn
<1> QED BY <1>2, <1>3

\* _drain_topic sends a topic only while it is not outstanding.
LEMMA SingleSend ==
  ASSUME DataTypes, DataTypes', NEW t \in Topics, Single(t), NEW u \in Topics, NEW v \in Nat,
         MaySend(u), Send(u, v), commands' = commands
  PROVE  Single(t)'
<1>1. CASE outMsgs' = outMsgs /\ outstanding' = outstanding
  BY <1>1, SingleFrame, Zenon
<1>2. CASE outMsgs' = Append(outMsgs, Packet(u, v)) /\ outstanding' = outstanding \cup {u}
  <2>1. outMsgs \in Seq(Packets) /\ Packet(u, v) \in Packets
    BY DEF DataTypes, Packet, Packets
  <2>2. Among(OfTopic(t), outMsgs')
          = Among(OfTopic(t), outMsgs) + (IF Packet(u, v) \in OfTopic(t) THEN 1 ELSE 0)
    <3>1. Among(OfTopic(t), Append(outMsgs, Packet(u, v)))
            = Among(OfTopic(t), outMsgs) + (IF Packet(u, v) \in OfTopic(t) THEN 1 ELSE 0)
      BY <2>1, AmongAppend
    <3> QED BY <1>2, <3>1, Zenon
  <2>3. Packet(u, v) \in OfTopic(t) <=> u = t
    BY DEF Packet, OfTopic
  <2>4. /\ Cardinality(InFlight(t)) \in Nat
        /\ Cardinality(InFlight(t)) = Among(OfTopic(t), outMsgs)
        /\ Cardinality(InFlight(t))' = Among(OfTopic(t), outMsgs')
    BY FlightCount, FlightCountNext, Zenon
  <2>5. CountIn(AckCmd(t), commands) \in Nat /\ CountIn(AckCmd(t), commands') = CountIn(AckCmd(t), commands)
    BY CountAppend, CommandTypes, Zenon DEF DataTypes
  <2>6. Cardinality(InFlight(t))' = Cardinality(InFlight(t)) + (IF u = t THEN 1 ELSE 0)
    BY <2>2, <2>3, <2>4, Zenon
  <2>7. u \notin outstanding
    BY DEF MaySend
  <2> HIDE DEF CountIn, InFlight
  <2> QED BY <1>2, <2>4, <2>5, <2>6, <2>7 DEF Single
<1> QED BY <1>1, <1>2, Zenon DEF Send

LEMMA SingleMain == TypeOK /\ OneInFlight /\ MainStep => OneInFlight'
<1> SUFFICES ASSUME DataTypes, \A t \in Topics : Single(t), MainStep
             PROVE  \A t \in Topics : Single(t)'
  BY SingleDef DEF TypeOK
<1>1. outMsgs' = outMsgs /\ outstanding' = outstanding
  <2>1. ASSUME NEW u \in Topics, SetState(u) \/ PublishState(u) \/ PublishItem(u)
        PROVE  outMsgs' = outMsgs /\ outstanding' = outstanding
    BY <2>1, Zenon DEF SetState, PublishState, PublishItem, workerVars, netVars
  <2>2. CASE PublishEvent \/ PublishOffline \/ Stop \/ Joined
    BY <2>2, Zenon DEF PublishEvent, PublishOffline, Stop, Joined, workerVars, netVars
  <2> QED BY <2>1, <2>2, Zenon DEF MainStep
<1>2. \/ commands' = commands
      \/ \E u \in Topics : commands' = Append(commands, RetainedCmd(u))
      \/ commands' = Append(commands, PublishCmd(issued + 1))
  <2>1. ASSUME NEW u \in Topics, NEW v, SubmitRetained(u, v)
        PROVE  commands' = commands \/ commands' = Append(commands, RetainedCmd(u))
    BY <2>1, Zenon DEF SubmitRetained
  <2>2. ASSUME NEW u \in Topics, SetState(u) \/ PublishState(u) \/ PublishItem(u)
        PROVE  commands' = commands \/ commands' = Append(commands, RetainedCmd(u))
    BY <2>1, <2>2, Zenon DEF SetState, PublishState, PublishItem, sharedVars
  <2>3. CASE PublishOffline
    BY <2>1, <2>3, SnapshotTypes, Zenon DEF PublishOffline
  <2>4. CASE PublishEvent \/ Stop \/ Joined
    BY <2>4, Zenon DEF PublishEvent, Stop, Joined, sharedVars
  <2> QED BY <2>2, <2>3, <2>4, Zenon DEF MainStep
<1>3. issued + 1 \in Nat
  BY DEF DataTypes
<1>4. ASSUME NEW t \in Topics
      PROVE  CountIn(AckCmd(t), commands') = CountIn(AckCmd(t), commands)
  <2>1. CASE commands' = commands
    BY <2>1, Zenon
  <2>2. ASSUME NEW u \in Topics, commands' = Append(commands, RetainedCmd(u))
        PROVE  CountIn(AckCmd(t), commands') = CountIn(AckCmd(t), commands)
    <3>1. RetainedCmd(u) \in Command /\ RetainedCmd(u) # AckCmd(t)
      BY CommandTypes DEF RetainedCmd, AckCmd
    <3> QED BY <2>2, <3>1, AcksAppend, Zenon
  <2>3. CASE commands' = Append(commands, PublishCmd(issued + 1))
    <3>1. PublishCmd(issued + 1) \in Command /\ PublishCmd(issued + 1) # AckCmd(t)
      BY <1>3, CommandTypes, CommandsDiffer, Zenon
    <3> QED BY <2>3, <3>1, AcksAppend, Zenon
  <2> QED BY <1>2, <2>1, <2>2, <2>3, Zenon
<1> QED BY <1>1, <1>4, SingleFrame, Zenon

LEMMA SingleWorker == TypeOK /\ TypeOK' /\ OneInFlight /\ WorkerStep => OneInFlight'
<1> SUFFICES ASSUME DataTypes, DataTypes', \A t \in Topics : Single(t), WorkerStep
             PROVE  \A t \in Topics : Single(t)'
  BY SingleDef DEF TypeOK
<1>1. ASSUME CallOnConnect \/ FlushWaiting \/ WorkerExits \/ \E u \in Topics : PopMailbox(u)
      PROVE  \A t \in Topics : Single(t)'
  <2>1. outMsgs' = outMsgs /\ outstanding' = outstanding /\ commands' = commands
    BY <1>1, Zenon DEF CallOnConnect, FlushWaiting, WorkerExits, PopMailbox, sharedVars, netVars
  <2> QED BY <2>1, SingleFrame, Zenon
<1>2. ASSUME TakeConnect \/ TakeDisconnect \/ (\E u \in Topics : TakeRetained(u))
               \/ \E e \in 1 .. MaxEvents : TakePublish(e)
      PROVE  \A t \in Topics : Single(t)'
  <2>1. outMsgs' = outMsgs /\ outstanding' = outstanding /\ commands # <<>> /\ commands' = Tail(commands)
    BY <1>2, Zenon DEF TakeConnect, TakeDisconnect, TakeRetained, TakePublish, CanTake, netVars
  <2>2. \/ Head(commands) \in {ConnectCmd, DisconnectCmd}
        \/ \E u \in Topics : Head(commands) = RetainedCmd(u)
        \/ \E e \in Nat : Head(commands) = PublishCmd(e)
    <3>1. 1 .. MaxEvents \subseteq Nat
      OBVIOUS
    <3> QED BY <1>2, <3>1, Zenon DEF TakeConnect, TakeDisconnect, TakeRetained, TakePublish
  <2>3. \A t \in Topics : Head(commands) # AckCmd(t)
    BY <2>2, CommandsDiffer, Zenon
  <2> QED BY <2>1, <2>3, AcksTake, SingleFrame, Zenon
<1>3. CASE PublishSnapshot
  <2> DEFINE u == Head(snap)
             v == IF u = Status THEN Online ELSE value[u]
  <2>1. u \in Topics
    BY <1>3, TailType DEF PublishSnapshot, DataTypes
  <2>2. v \in Nat
    BY <2>1 DEF DataTypes
  <2>3. commands' = commands
    BY <1>3, Zenon DEF PublishSnapshot, sharedVars
  <2>4. CASE MaySend(u)
    <3>1. Send(u, v)
      BY <1>3, <2>4 DEF PublishSnapshot
    <3> HIDE DEF u, v
    <3> QED BY <2>1, <2>2, <2>3, <2>4, <3>1, SingleSend, Zenon
  <2>5. CASE ~MaySend(u)
    <3>1. outMsgs' = outMsgs /\ outstanding' = outstanding
      BY <1>3, <2>5 DEF PublishSnapshot
    <3> QED BY <2>3, <3>1, SingleFrame, Zenon
  <2> QED BY <2>4, <2>5
<1>4. ASSUME NEW u \in Topics, Drain(u)
      PROVE  \A t \in Topics : Single(t)'
  <2>1. commands' = commands /\ retained[u] \in Nat
    BY <1>4 DEF Drain, sharedVars, DataTypes
  <2>2. CASE MaySend(u) /\ u \in dirty
    BY <1>4, <2>1, <2>2, SingleSend, Zenon DEF Drain
  <2>3. CASE ~(MaySend(u) /\ u \in dirty)
    <3>1. outMsgs' = outMsgs /\ outstanding' = outstanding
      BY <1>4, <2>3, Zenon DEF Drain
    <3> QED BY <2>1, <3>1, SingleFrame, Zenon
  <2> QED BY <2>2, <2>3
<1>5. ASSUME NEW u \in Topics, TakeAck(u), NEW t \in Topics
      PROVE  Single(t)'
  <2>1. /\ commands # <<>> /\ commands' = Tail(commands) /\ Head(commands) = AckCmd(u)
        /\ outMsgs' = outMsgs /\ outstanding' = outstanding \ {u}
    BY <1>5, Zenon DEF TakeAck, CanTake, netVars
  <2>2. Head(commands) = AckCmd(t) <=> t = u
    BY <2>1, CommandsDiffer, Zenon
  <2>3. InFlight(t)' = InFlight(t)
    BY <2>1, Zenon DEF InFlight
  <2>4. Cardinality(InFlight(t)) \in Nat
    BY FlightCount, Zenon
  <2>5. /\ CountIn(AckCmd(t), commands) \in Nat /\ CountIn(AckCmd(t), commands') \in Nat
        /\ CountIn(AckCmd(t), commands')
             = CountIn(AckCmd(t), commands) - (IF t = u THEN 1 ELSE 0)
    BY <2>1, <2>2, AcksTake, Zenon
  <2>6. Single(t)
    OBVIOUS
  <2> HIDE DEF CountIn, InFlight
  <2> QED BY <2>1, <2>3, <2>4, <2>5, <2>6 DEF Single
<1> QED BY <1>1, <1>2, <1>3, <1>4, <1>5, Zenon DEF WorkerStep

LEMMA SingleNet == TypeOK /\ TypeOK' /\ OneInFlight /\ NetStep => OneInFlight'
<1> SUFFICES ASSUME DataTypes, DataTypes', NetStep, NEW t \in Topics, Single(t)
             PROVE  Single(t)'
  BY SingleDef, Zenon DEF TypeOK
<1>1. CASE Connect \/ Drop \/ BrokerRestart
  <2>1. /\ \E d \in {ConnectCmd, DisconnectCmd} : commands' = Append(commands, d)
        /\ outMsgs' = outMsgs /\ outstanding' = outstanding
    BY <1>1, Zenon DEF Connect, Drop, BrokerRestart, Disconnected, workerVars
  <2>2. PICK d \in {ConnectCmd, DisconnectCmd} : commands' = Append(commands, d)
    BY <2>1
  <2>3. d \in Command /\ d # AckCmd(t)
    BY <2>2, CommandTypes, CommandsDiffer
  <2> QED BY <2>1, <2>2, <2>3, AcksAppend, SingleFrame, Zenon
<1>2. CASE OnPublish
  <2> DEFINE u == Head(acks)
  <2>1. u \in Topics
    BY <1>2, TailType DEF OnPublish, DataTypes
  <2>2. PICK k \in InFlight(u) : outMsgs' = RemoveAt(outMsgs, k)
    BY <1>2, Zenon DEF OnPublish
  <2>3. commands' = Append(commands, AckCmd(u)) /\ outstanding' = outstanding
    BY <1>2, Zenon DEF OnPublish, workerVars
  <2>4. /\ outMsgs \in Seq(Packets) /\ k \in 1 .. Len(outMsgs)
        /\ outMsgs[k] \in Packets /\ outMsgs[k].topic = u
    <3>1. outMsgs \in Seq(Packets)
      BY DEF DataTypes
    <3>2. k \in DOMAIN outMsgs /\ outMsgs[k].topic = u
      BY <2>2, Zenon DEF InFlight
    <3> QED BY <3>1, <3>2, ElementOfSeq
  <2> HIDE DEF u
  <2>5. Among(OfTopic(t), outMsgs')
          = Among(OfTopic(t), outMsgs) - (IF outMsgs[k] \in OfTopic(t) THEN 1 ELSE 0)
    BY <2>2, <2>4, AmongRemove, Zenon
  <2>6. outMsgs[k] \in OfTopic(t) <=> u = t
    BY <2>4 DEF Packets, OfTopic
  <2>7. /\ Cardinality(InFlight(t)) \in Nat
        /\ Cardinality(InFlight(t)) = Among(OfTopic(t), outMsgs)
        /\ Cardinality(InFlight(t))' = Among(OfTopic(t), outMsgs')
    BY FlightCount, FlightCountNext, Zenon
  <2>8. AckCmd(u) \in Command /\ (AckCmd(u) = AckCmd(t) <=> u = t)
    BY <2>1, CommandTypes, CommandsDiffer, Zenon
  <2>9. /\ CountIn(AckCmd(t), commands) \in Nat
        /\ CountIn(AckCmd(t), commands') = CountIn(AckCmd(t), commands) + (IF u = t THEN 1 ELSE 0)
    BY <2>3, <2>8, AcksAppend, Zenon
  <2>10. Cardinality(InFlight(t))' = Cardinality(InFlight(t)) - (IF u = t THEN 1 ELSE 0)
    BY <2>5, <2>6, <2>7, Zenon
  <2> HIDE DEF CountIn, InFlight
  <2> QED BY <2>3, <2>7, <2>9, <2>10 DEF Single
<1>3. CASE BrokerRead \/ BrokerLosesSession \/ BrokerReadsDisconnect
  <2>1. outMsgs' = outMsgs /\ outstanding' = outstanding /\ commands' = commands
    BY <1>3, Zenon DEF BrokerRead, BrokerLosesSession, BrokerReadsDisconnect, sharedVars, workerVars
  <2> QED BY <2>1, SingleFrame, Zenon
<1> QED BY <1>1, <1>2, <1>3, Zenon DEF NetStep

\* OneInFlight: whatever is lost, reordered between threads or sent again, a topic never
\* has two packets in flight, and an outstanding topic always has its acknowledgement to come.
THEOREM FlightSafe == Spec => []OneInFlight
<1>1. Init => OneInFlight
  <2> SUFFICES ASSUME Init, NEW t \in Topics PROVE Single(t)
    BY SingleDef, Zenon
  <2>1. outMsgs = <<>> /\ commands = <<>> /\ outstanding = {}
    BY DEF Init
  <2>2. InFlight(t) = {}
    BY <2>1 DEF InFlight
  <2>3. CountIn(AckCmd(t), commands) = 0
    BY <2>1, CountEmpty, Zenon
  <2> QED BY <2>1, <2>2, <2>3, FS_EmptySet DEF Single
<1>2. TypeOK /\ OneInFlight /\ [Next]_vars => OneInFlight'
  <2> SUFFICES ASSUME TypeOK, OneInFlight, [Next]_vars PROVE OneInFlight'
    OBVIOUS
  <2>0. TypeOK'
    BY TypeStep
  <2>1. CASE DeadlinePasses \/ Terminated \/ UNCHANGED vars
    <3>1. outMsgs' = outMsgs /\ outstanding' = outstanding /\ commands' = commands
      BY <2>1, Zenon DEF DeadlinePasses, Terminated, vars, netVars, sharedVars, workerVars
    <3> QED BY <3>1, SingleFrame, SingleDef, Zenon
  <2> QED BY <2>0, <2>1, SingleMain, SingleWorker, SingleNet, Zenon DEF Next
<1> QED BY <1>1, <1>2, Typing, PTL DEF Spec

(***************************************************************************)
(* No stall.  A dirty topic is attended to while the worker still has to   *)
(* look at it, or while something is under way that makes it look again.   *)
(***************************************************************************)
ConnectQueued == CountIn(ConnectCmd, commands) > 0
Waits(t) == (outstanding # {} /\ t \in Qos1) \/ link # "up" \/ ConnectQueued
Attended(t) == (worker = "drain" /\ t \in todo) \/ Waits(t)

Qos1Packets == [topic : Qos1, payload : Nat]
FlightTyped == outstanding \subseteq Qos1 /\ outMsgs \in Seq(Qos1Packets)
AttendedAll ==
  connected /\ worker \in {"take", "drain", "pop"} => \A t \in dirty \cap Known : Attended(t)
StallInv == FlightTyped /\ AttendedAll

LEMMA KnownNext == Known' = {t \in Topics : retained'[t] # NoValue}
BY Zenon DEF Known

\* What the main thread and paho's thread do to the queue: they append to it, and only
\* publish(retain=False) appends an event.
EventCmds == {PublishCmd(e) : e \in Nat}
QuietCmds == Command \ EventCmds
Enqueues(D) == commands' = commands \/ \E d \in D : commands' = Append(commands, d)

LEMMA QuietTypes ==
  /\ EventCmds \subseteq Command /\ QuietCmds \subseteq Command
  /\ ConnectCmd \in QuietCmds /\ DisconnectCmd \in QuietCmds
  /\ \A t \in Topics : AckCmd(t) \in QuietCmds /\ RetainedCmd(t) \in QuietCmds
BY CommandTypes DEF QuietCmds, EventCmds, ConnectCmd, DisconnectCmd, AckCmd, RetainedCmd, PublishCmd

LEMMA MainEnqueues ==
  DataTypes /\ MainStep => Enqueues(Command) /\ (Enqueues(QuietCmds) \/ PublishEvent)
<1> SUFFICES ASSUME DataTypes, MainStep
             PROVE  Enqueues(QuietCmds) \/ (PublishEvent /\ Enqueues(Command))
  BY QuietTypes, Zenon DEF Enqueues
<1>1. ASSUME NEW u \in Topics, NEW v, SubmitRetained(u, v) PROVE Enqueues(QuietCmds)
  BY <1>1, QuietTypes, Zenon DEF SubmitRetained, Enqueues
<1>2. ASSUME NEW u \in Topics, SetState(u) \/ PublishState(u) \/ PublishItem(u) PROVE Enqueues(QuietCmds)
  BY <1>1, <1>2, Zenon DEF SetState, PublishState, PublishItem, sharedVars, Enqueues
<1>3. CASE PublishOffline
  BY <1>1, <1>3, SnapshotTypes, Zenon DEF PublishOffline
<1>4. CASE PublishEvent
  <2>1. issued + 1 \in Nat
    BY DEF DataTypes
  <2> QED BY <1>4, <2>1, CommandTypes, Zenon DEF PublishEvent, Enqueues
<1>5. CASE Stop \/ Joined
  BY <1>5, Zenon DEF Stop, Joined, sharedVars, Enqueues
<1> QED BY <1>2, <1>3, <1>4, <1>5, Zenon DEF MainStep

LEMMA NetEnqueues == DataTypes /\ NetStep => Enqueues(Command) /\ Enqueues(QuietCmds)
<1> SUFFICES ASSUME DataTypes, NetStep PROVE Enqueues(QuietCmds)
  BY QuietTypes, Zenon DEF Enqueues
<1>1. CASE Connect \/ Drop \/ BrokerRestart
  BY <1>1, QuietTypes, Zenon DEF Connect, Drop, BrokerRestart, Disconnected, Enqueues
<1>2. CASE OnPublish
  <2>1. Head(acks) \in Topics
    BY <1>2, TailType DEF OnPublish, DataTypes
  <2> QED BY <1>2, <2>1, QuietTypes, Zenon DEF OnPublish, Enqueues
<1>3. CASE BrokerRead \/ BrokerLosesSession \/ BrokerReadsDisconnect
  BY <1>3, Zenon DEF BrokerRead, BrokerLosesSession, BrokerReadsDisconnect, sharedVars, Enqueues
<1> QED BY <1>1, <1>2, <1>3, Zenon DEF NetStep

LEMMA QueuedStays ==
  ASSUME DataTypes, ConnectQueued,
         Enqueues(Command) \/ (commands # <<>> /\ commands' = Tail(commands) /\ Head(commands) # ConnectCmd)
  PROVE  ConnectQueued'
<1>1. commands \in Seq(Command)
  BY DEF DataTypes
<1>2. CASE commands' = commands
  BY <1>2, Zenon DEF ConnectQueued
<1>3. ASSUME NEW d \in Command, commands' = Append(commands, d) PROVE ConnectQueued'
  <2>1. /\ CountIn(ConnectCmd, commands) \in Nat
        /\ CountIn(ConnectCmd, commands')
             = CountIn(ConnectCmd, commands) + (IF d = ConnectCmd THEN 1 ELSE 0)
    BY <1>1, <1>3, CountAppend, Zenon
  <2> HIDE DEF CountIn
  <2> QED BY <2>1 DEF ConnectQueued
<1>4. CASE commands # <<>> /\ commands' = Tail(commands) /\ Head(commands) # ConnectCmd
  <2>1. /\ CountIn(ConnectCmd, commands) \in Nat
        /\ CountIn(ConnectCmd, commands')
             = CountIn(ConnectCmd, commands) - (IF Head(commands) = ConnectCmd THEN 1 ELSE 0)
    BY <1>1, <1>4, CountTail, Zenon
  <2> HIDE DEF CountIn
  <2> QED BY <1>4, <2>1 DEF ConnectQueued
<1> QED BY <1>2, <1>3, <1>4, Zenon DEF Enqueues

LEMMA QueuedByConnect ==
  ASSUME DataTypes, commands' = Append(commands, ConnectCmd) PROVE ConnectQueued'
<1>1. commands \in Seq(Command)
  BY DEF DataTypes
<1>2. /\ CountIn(ConnectCmd, commands) \in Nat
      /\ CountIn(ConnectCmd, commands') = CountIn(ConnectCmd, commands) + 1
  BY <1>1, CommandTypes, CountAppend, Zenon
<1> HIDE DEF CountIn
<1> QED BY <1>2 DEF ConnectQueued

\* A step of another thread: the link goes down, or comes up with a command that says so.
LEMMA AttendedFrame ==
  ASSUME AttendedAll, UNCHANGED <<worker, todo, connected, retained, dirty, outstanding>>,
         link' = link \/ link' # "up" \/ ConnectQueued', ConnectQueued => ConnectQueued'
  PROVE  AttendedAll'
<1>1. Known' = Known
  BY KnownNext, Zenon DEF Known
<1>2. \A t : Waits(t) => Waits(t)'
  BY Zenon DEF Waits
<1> QED BY <1>1, <1>2, Zenon DEF AttendedAll, Attended

LEMMA StallMain == TypeOK /\ StallInv /\ MainStep => StallInv'
<1> SUFFICES ASSUME DataTypes, FlightTyped, AttendedAll, MainStep PROVE FlightTyped' /\ AttendedAll'
  BY DEF StallInv, TypeOK
<1>1. UNCHANGED <<workerVars, outMsgs>> /\ (link' = link \/ link' # "up")
  <2>1. ASSUME NEW u \in Topics, SetState(u) \/ PublishState(u) \/ PublishItem(u)
        PROVE  UNCHANGED <<workerVars, outMsgs>> /\ link' = link
    BY <2>1, Zenon DEF SetState, PublishState, PublishItem, netVars
  <2>2. CASE PublishEvent \/ PublishOffline \/ Stop
    BY <2>2, Zenon DEF PublishEvent, PublishOffline, Stop, netVars
  <2>3. CASE Joined
    BY <2>3 DEF Joined
  <2> QED BY <2>1, <2>2, <2>3, Zenon DEF MainStep
<1>2. ConnectQueued => ConnectQueued'
  BY MainEnqueues, QueuedStays, Zenon
<1>3. AttendedAll'
  BY <1>1, <1>2, AttendedFrame, Zenon DEF workerVars
<1> QED BY <1>1, <1>3, Zenon DEF FlightTyped, workerVars

LEMMA StallNet == TypeOK /\ StallInv /\ NetStep => StallInv'
<1> SUFFICES ASSUME DataTypes, FlightTyped, AttendedAll, NetStep PROVE FlightTyped' /\ AttendedAll'
  BY DEF StallInv, TypeOK
<1>1. UNCHANGED workerVars
  BY Zenon DEF NetStep, Connect, Drop, BrokerRestart, BrokerRead, BrokerLosesSession,
               BrokerReadsDisconnect, OnPublish
<1>2. link' = link \/ link' # "up" \/ ConnectQueued'
  <2>1. CASE Connect
    BY <2>1, QueuedByConnect, Zenon DEF Connect
  <2>2. CASE Drop \/ BrokerRestart
    BY <2>2 DEF Drop, BrokerRestart, Disconnected
  <2>3. CASE BrokerReadsDisconnect
    BY <2>3 DEF BrokerReadsDisconnect
  <2>4. CASE BrokerRead \/ BrokerLosesSession \/ OnPublish
    BY <2>4, Zenon DEF BrokerRead, BrokerLosesSession, OnPublish
  <2> QED BY <2>1, <2>2, <2>3, <2>4, Zenon DEF NetStep
<1>3. ConnectQueued => ConnectQueued'
  BY NetEnqueues, QueuedStays, Zenon
<1>4. AttendedAll'
  BY <1>1, <1>2, <1>3, AttendedFrame, Zenon DEF workerVars
<1>5. outMsgs' \in Seq(Qos1Packets)
  <2>1. CASE OnPublish
    <3>1. \E i \in 1 .. Len(outMsgs) : outMsgs' = RemoveAt(outMsgs, i)
      BY <2>1 DEF OnPublish, InFlight, FlightTyped
    <3> QED BY <3>1, RemoveAtType DEF FlightTyped
  <2>2. CASE ~OnPublish
    BY <2>2, Zenon DEF NetStep, Connect, Drop, BrokerRestart, BrokerRead, BrokerLosesSession,
                       BrokerReadsDisconnect, FlightTyped
  <2> QED BY <2>1, <2>2
<1> QED BY <1>1, <1>4, <1>5, Zenon DEF FlightTyped, workerVars

\* _send: afterwards the topic is clean, or there is a reason to look again.
LEMMA SendAttends ==
  ASSUME DataTypes, OneInFlight, FlightTyped, NEW t \in Topics, NEW v \in Nat, Send(t, v)
  PROVE  /\ FlightTyped' /\ outstanding \subseteq outstanding'
         /\ dirty' \ {t} = dirty \ {t}
         /\ t \in dirty' => (outstanding' # {} /\ t \in Qos1) \/ link # "up"
<1>1. CASE Accepts(t)
  <2>1. dirty' = dirty \ {t}
    BY <1>1, Zenon DEF Send
  <2>2. CASE t \in Qos1
    <3>1. outMsgs' = Append(outMsgs, Packet(t, v)) /\ outstanding' = outstanding \cup {t}
      BY <1>1, <2>2, Zenon DEF Send
    <3>2. Packet(t, v) \in Qos1Packets
      BY <2>2 DEF Packet, Qos1Packets
    <3>3. Append(outMsgs, Packet(t, v)) \in Seq(Qos1Packets)
      BY <3>2, AppendType, Zenon DEF FlightTyped
    <3> QED BY <2>1, <2>2, <3>1, <3>3 DEF FlightTyped
  <2>3. CASE t \notin Qos1
    BY <1>1, <2>1, <2>3 DEF Send, FlightTyped
  <2> QED BY <2>2, <2>3
<1>2. CASE ~Accepts(t)
  <2>1. UNCHANGED <<outMsgs, outstanding>> /\ dirty' = dirty \cup {t}
    BY <1>2, Zenon DEF Send
  <2>2. t \in Qos1 => outstanding # {}
    <3> SUFFICES ASSUME t \in Qos1 PROVE outstanding # {}
      OBVIOUS
    <3>1. outMsgs \in Seq(Qos1Packets)
      BY DEF FlightTyped
    <3>2. Len(outMsgs) >= PahoQueue /\ Len(outMsgs) \in Nat
      BY <1>2, <3>1 DEF Accepts
    <3>3. 1 \in DOMAIN outMsgs /\ outMsgs[1] \in Qos1Packets
      BY <3>1, <3>2, ElementOfSeq
    <3> DEFINE u == outMsgs[1].topic
    <3>4. u \in Topics /\ 1 \in InFlight(u)
      BY <3>3 DEF Qos1Packets, InFlight
    <3> HIDE DEF u
    <3>5. Cardinality(InFlight(u)) # 0
      <4>1. IsFiniteSet(InFlight(u))
        <5>1. DOMAIN outMsgs = 1 .. Len(outMsgs)
          BY <3>1
        <5>2. IsFiniteSet(DOMAIN outMsgs)
          BY <3>2, <5>1, FS_Interval
        <5> QED BY <5>2, FS_Subset DEF InFlight
      <4> QED BY <3>4, <4>1, FS_EmptySet
    <3>6. Cardinality(InFlight(u)) \in Nat /\ CountIn(AckCmd(u), commands) \in Nat
      BY <3>4, FlightCount, CountAppend, CommandTypes, Zenon DEF DataTypes
    <3>7. Single(u)
      BY <3>4, SingleDef
    <3> HIDE DEF CountIn, InFlight
    <3> QED BY <3>5, <3>6, <3>7 DEF Single
  <2> QED BY <1>2, <2>1, <2>2 DEF FlightTyped, Accepts
<1> QED BY <1>1, <1>2

LEMMA StallWorker == TypeOK /\ OneInFlight /\ StallInv /\ WorkerStep => StallInv'
<1> SUFFICES ASSUME DataTypes, OneInFlight, FlightTyped, AttendedAll, WorkerStep
             PROVE  FlightTyped' /\ AttendedAll'
  BY DEF StallInv, TypeOK
<1>f. UNCHANGED <<outstanding, outMsgs>> => FlightTyped'
  BY Zenon DEF FlightTyped
<1>1. CASE TakeConnect \/ CallOnConnect \/ WorkerExits
  <2>1. UNCHANGED <<outstanding, outMsgs>> /\ worker' \notin {"take", "drain", "pop"}
    BY <1>1 DEF TakeConnect, CallOnConnect, WorkerExits, netVars
  <2> QED BY <1>f, <2>1, Zenon DEF AttendedAll
<1>2. CASE PublishSnapshot
  <2> DEFINE t == Head(snap)
             v == IF t = Status THEN Online ELSE value[t]
  <2>1. worker' \notin {"take", "drain", "pop"}
    BY <1>2 DEF PublishSnapshot
  <2>2. t \in Topics
    BY <1>2, TailType DEF PublishSnapshot, DataTypes
  <2>3. v \in Nat
    BY <2>2 DEF DataTypes
  <2>4. Send(t, v) \/ UNCHANGED <<outstanding, outMsgs>>
    BY <1>2 DEF PublishSnapshot
  <2> HIDE DEF t, v
  <2>5. FlightTyped'
    BY <1>f, <2>2, <2>3, <2>4, SendAttends, Zenon
  <2> QED BY <2>1, <2>5, Zenon DEF AttendedAll
<1>3. CASE FlushWaiting
  <2>1. UNCHANGED <<outstanding, outMsgs, retained>>
    BY <1>3, Zenon DEF FlushWaiting
  <2>2. worker' = "flush" \/ (todo' = Known /\ (Known # {} => worker' = "drain"))
    BY <1>3, Zenon DEF FlushWaiting, DrainNext
  <2>3. Known' = Known
    BY <2>1, KnownNext, Zenon DEF Known
  <2> QED BY <1>f, <2>1, <2>2, <2>3 DEF AttendedAll, Attended
<1>4. ASSUME NEW t \in Topics, Drain(t) PROVE FlightTyped' /\ AttendedAll'
  <2>1. /\ UNCHANGED <<commands, retained, connected, link>> /\ worker = "drain" /\ t \in todo
        /\ todo' = todo \ {t} /\ (todo' # {} => worker' = "drain")
    BY <1>4, Zenon DEF Drain, DrainNext, sharedVars
  <2>2. Known' = Known /\ (ConnectQueued' <=> ConnectQueued)
    BY <2>1, KnownNext, Zenon DEF Known, ConnectQueued
  <2>3. retained[t] \in Nat
    BY DEF DataTypes
  <2>4. /\ FlightTyped' /\ outstanding \subseteq outstanding' /\ dirty' \ {t} = dirty \ {t}
        /\ connected /\ t \in dirty' => (outstanding' # {} /\ t \in Qos1) \/ link # "up"
    <3>1. CASE MaySend(t) /\ t \in dirty
      BY <1>4, <2>3, <3>1, SendAttends, Zenon DEF Drain
    <3>2. CASE ~(MaySend(t) /\ t \in dirty)
      <4>1. UNCHANGED <<dirty, outMsgs, outstanding>>
        BY <1>4, <3>2, Zenon DEF Drain
      <4> QED BY <1>f, <3>2, <4>1 DEF MaySend, FlightTyped
    <3> QED BY <3>1, <3>2
  <2>5. ASSUME connected', NEW u \in dirty' \cap Known' PROVE Attended(u)'
    <3>1. CASE u = t
      BY <2>1, <2>4, <2>5, <3>1 DEF Attended, Waits
    <3>2. CASE u # t
      <4>1. u \in dirty \cap Known
        BY <2>2, <2>4, <2>5, <3>2
      <4>2. (worker = "drain" /\ u \in todo) \/ Waits(u)
        BY <2>1, <2>5, <4>1 DEF AttendedAll, Attended
      <4>3. CASE u \in todo
        BY <2>1, <3>2, <4>3 DEF Attended
      <4>4. CASE Waits(u)
        BY <2>1, <2>2, <2>4, <4>4 DEF Attended, Waits
      <4> QED BY <4>2, <4>3, <4>4
    <3> QED BY <3>1, <3>2
  <2> QED BY <2>4, <2>5, Zenon DEF AttendedAll
<1>5. CASE TakeDisconnect
  BY <1>5, <1>f DEF TakeDisconnect, AttendedAll, netVars
<1>6. ASSUME NEW t \in Topics, TakeAck(t) PROVE FlightTyped' /\ AttendedAll'
  <2>1. /\ UNCHANGED <<retained, outMsgs>> /\ outstanding' = outstanding \ {t}
        /\ todo' = Known /\ (Known # {} => worker' = "drain")
    BY <1>6, Zenon DEF TakeAck, AfterAck, DrainNext, netVars
  <2>2. Known' = Known
    BY <2>1, KnownNext, Zenon DEF Known
  <2> QED BY <2>1, <2>2 DEF AttendedAll, Attended, FlightTyped
\* the command taken is not a new connection, and the topics wait as before
<1>7. ASSUME UNCHANGED <<connected, retained, dirty, outstanding, outMsgs, link>>,
             worker = "take", worker' \in {"take", "pop"},
             commands # <<>>, commands' = Tail(commands), Head(commands) # ConnectCmd
      PROVE  FlightTyped' /\ AttendedAll'
  <2>1. ConnectQueued => ConnectQueued'
    BY <1>7, QueuedStays, Zenon
  <2>2. Known' = Known
    BY <1>7, KnownNext, Zenon DEF Known
  <2> QED BY <1>f, <1>7, <2>1, <2>2 DEF AttendedAll, Attended, Waits
<1>8. ASSUME NEW t \in Topics, TakeRetained(t) PROVE FlightTyped' /\ AttendedAll'
  <2>1. Head(commands) # ConnectCmd
    BY <1>8 DEF TakeRetained, RetainedCmd, ConnectCmd
  <2> QED BY <1>7, <1>8, <2>1, Zenon DEF TakeRetained, CanTake, netVars
<1>9. ASSUME NEW e \in 1 .. MaxEvents, TakePublish(e) PROVE FlightTyped' /\ AttendedAll'
  <2>0. PublishCmd(e) # ConnectCmd
    BY DEF PublishCmd, ConnectCmd
  <2>1. Head(commands) # ConnectCmd
    BY <1>9, <2>0, Zenon DEF TakePublish
  <2> QED BY <1>7, <1>9, <2>1, Zenon DEF TakePublish, CanTake
<1>10. ASSUME NEW t \in Topics, PopMailbox(t) PROVE FlightTyped' /\ AttendedAll'
  <2>1. UNCHANGED <<commands, connected, outstanding, outMsgs, link>> /\ worker = "pop"
    BY <1>10, Zenon DEF PopMailbox, netVars
  <2>2. \A u : Waits(u)' <=> Waits(u)
    BY <2>1, Zenon DEF Waits, ConnectQueued
  <2>3. CASE mailbox[t] # NoValue
    <3>1. /\ retained' = [retained EXCEPT ![t] = mailbox[t]] /\ dirty' = dirty \cup {t}
          /\ todo' = {t} /\ worker' = "drain"
      BY <1>10, <2>3 DEF PopMailbox, DrainNext
    <3>2. \A u \in Topics \ {t} : u \in Known' <=> u \in Known
      BY <3>1, KnownNext DEF Known, DataTypes
    <3>3. Known' \subseteq Topics
      BY KnownNext
    <3> QED BY <1>f, <2>1, <2>2, <3>1, <3>2, <3>3 DEF AttendedAll, Attended
  <2>4. CASE mailbox[t] = NoValue
    <3>1. UNCHANGED <<retained, dirty>>
      BY <1>10, <2>4, Zenon DEF PopMailbox
    <3>2. Known' = Known
      BY <3>1, KnownNext, Zenon DEF Known
    <3> QED BY <1>f, <2>1, <2>2, <3>1, <3>2 DEF AttendedAll, Attended
  <2> QED BY <2>3, <2>4
<1> QED BY <1>1, <1>2, <1>3, <1>4, <1>5, <1>6, <1>8, <1>9, <1>10, Zenon DEF WorkerStep

LEMMA StallStep == TypeOK /\ OneInFlight /\ StallInv /\ [Next]_vars => StallInv'
<1> SUFFICES ASSUME TypeOK, OneInFlight, StallInv, [Next]_vars PROVE StallInv'
  OBVIOUS
<1>1. CASE DeadlinePasses \/ Terminated \/ UNCHANGED vars
  <2>1. UNCHANGED <<workerVars, outMsgs, link, commands>>
    BY <1>1, Zenon DEF DeadlinePasses, Terminated, vars, netVars, sharedVars
  <2>2. ConnectQueued => ConnectQueued'
    BY <2>1, Zenon DEF ConnectQueued
  <2>3. AttendedAll'
    BY <2>1, <2>2, AttendedFrame, Zenon DEF workerVars, StallInv
  <2> QED BY <2>1, <2>3, Zenon DEF StallInv, FlightTyped, workerVars
<1> QED BY <1>1, StallMain, StallNet, StallWorker, Zenon DEF Next

LEMMA StallInit == Init => StallInv
BY EmptySeq DEF Init, StallInv, FlightTyped, AttendedAll

\* The invariant of the proof, and the flight it rests on.
LEMMA StallSafe == Spec => [](OneInFlight /\ StallInv)
<1> QED BY FlightSafe, Typing, StallInit, StallStep, PTL DEF Spec

\* NoStall: a worker that goes back to its queue with a value not sent has been refused by a full
\* paho queue or waits for an acknowledgement - which some outstanding topic has still to bring -
\* or its connection is gone or new.
THEOREM NeverStalls == Spec => []NoStall
<1>1. StallInv => NoStall
  BY DEF StallInv, AttendedAll, Attended, Waits, ConnectQueued, NoStall
<1> QED BY <1>1, StallSafe, PTL

(***************************************************************************)
(* Messages without retain.  The numbers that a sequence carries: f gives  *)
(* the number of its elements in C, the others carry none.                 *)
(***************************************************************************)
Nums(s, C, f) == {f[s[i]] : i \in Places(C, s)}
Rising(s, C, f) == \A i, j \in Places(C, s) : i < j => f[s[i]] < f[s[j]]
Before(A, B) == \A a \in A, b \in B : a < b

LEMMA NumsNat ==
  ASSUME NEW S, NEW s \in Seq(S), NEW C, NEW f \in [S -> Nat] PROVE Nums(s, C, f) \subseteq Nat
<1>1. \A i \in DOMAIN s : s[i] \in S
  BY ElementOfSeq
<1> QED BY <1>1 DEF Nums, Places

LEMMA NumsNone ==
  ASSUME NEW s, NEW C, NEW f, \A i \in DOMAIN s : s[i] \notin C
  PROVE  Nums(s, C, f) = {} /\ Rising(s, C, f)
BY DEF Nums, Rising, Places

LEMMA PlacesAppend ==
  ASSUME NEW S, NEW s \in Seq(S), NEW e \in S, NEW C
  PROVE  /\ Len(s) \in Nat
         /\ Places(C, Append(s, e)) = Places(C, s) \cup (IF e \in C THEN {Len(s) + 1} ELSE {})
         /\ \A i \in Places(C, s) : i \in 1 .. Len(s) /\ Append(s, e)[i] = s[i]
         /\ Append(s, e)[Len(s) + 1] = e
<1> DEFINE a == Append(s, e)
           n == Len(s)
<1>1. /\ n \in Nat /\ DOMAIN s = 1 .. n /\ DOMAIN a = 1 .. (n + 1)
      /\ \A i \in 1 .. n : a[i] = s[i]
      /\ a[n + 1] = e
  BY AppendProperties
<1> HIDE DEF a, n
<1>2. Places(C, a) = Places(C, s) \cup (IF e \in C THEN {n + 1} ELSE {})
  BY <1>1 DEF Places
<1>3. \A i \in Places(C, s) : i \in 1 .. n /\ a[i] = s[i]
  BY <1>1 DEF Places
<1> QED BY <1>1, <1>2, <1>3 DEF a, n

LEMMA NumsSkip ==
  ASSUME NEW S, NEW s \in Seq(S), NEW e \in S, NEW C, e \notin C, NEW f \in [S -> Nat], Rising(s, C, f)
  PROVE  Nums(Append(s, e), C, f) = Nums(s, C, f) /\ Rising(Append(s, e), C, f)
<1> DEFINE a == Append(s, e)
<1>0. /\ Places(C, Append(s, e)) = Places(C, s) \cup (IF e \in C THEN {Len(s) + 1} ELSE {})
      /\ \A i \in Places(C, s) : i \in 1 .. Len(s) /\ Append(s, e)[i] = s[i]
  BY PlacesAppend
<1> HIDE DEF a
<1>1. Places(C, a) = Places(C, s) /\ \A i \in Places(C, s) : a[i] = s[i]
  BY <1>0 DEF a
<1>2. Nums(a, C, f) = Nums(s, C, f) /\ Rising(a, C, f)
  BY <1>1 DEF Nums, Rising
<1> QED BY <1>2 DEF a

LEMMA NumsGrow ==
  ASSUME NEW S, NEW s \in Seq(S), NEW e \in S, NEW C, e \in C, NEW f \in [S -> Nat], Rising(s, C, f),
         Before(Nums(s, C, f), {f[e]})
  PROVE  Nums(Append(s, e), C, f) = Nums(s, C, f) \cup {f[e]} /\ Rising(Append(s, e), C, f)
<1> DEFINE a == Append(s, e)
           n == Len(s)
<1>0. /\ Len(s) \in Nat
      /\ Places(C, Append(s, e)) = Places(C, s) \cup (IF e \in C THEN {Len(s) + 1} ELSE {})
      /\ \A i \in Places(C, s) : i \in 1 .. Len(s) /\ Append(s, e)[i] = s[i]
      /\ Append(s, e)[Len(s) + 1] = e
  BY PlacesAppend
<1> HIDE DEF a, n
<1>1. /\ n \in Nat /\ Places(C, a) = Places(C, s) \cup {n + 1}
      /\ \A i \in Places(C, s) : i \in 1 .. n /\ a[i] = s[i]
      /\ a[n + 1] = e
  BY <1>0 DEF a, n
<1>2. Nums(a, C, f) = Nums(s, C, f) \cup {f[e]}
  <2>1. \A i \in Places(C, s) : f[a[i]] = f[s[i]]
    BY <1>1
  <2>2. f[a[n + 1]] = f[e]
    BY <1>1
  <2>3. \A x : x \in Nums(a, C, f) <=> \E i \in Places(C, s) \cup {n + 1} : x = f[a[i]]
    BY <1>1 DEF Nums
  <2>4. \A x : x \in Nums(s, C, f) <=> \E i \in Places(C, s) : x = f[s[i]]
    BY DEF Nums
  <2> QED BY <2>1, <2>2, <2>3, <2>4
<1>3. ASSUME NEW i \in Places(C, a), NEW j \in Places(C, a), i < j PROVE f[a[i]] < f[a[j]]
  <2>1. i \in Places(C, s)
    BY <1>1, <1>3
  <2>2. CASE j \in Places(C, s)
    BY <1>1, <1>3, <2>1, <2>2 DEF Rising
  <2>3. CASE j = n + 1
    BY <1>1, <2>1, <2>3 DEF Before, Nums
  <2> QED BY <1>1, <2>2, <2>3
<1> QED BY <1>2, <1>3 DEF a, Rising

LEMMA NumsTail ==
  ASSUME NEW S, NEW s \in Seq(S), s # <<>>, NEW C, NEW f \in [S -> Nat], Rising(s, C, f)
  PROVE  /\ Nums(Tail(s), C, f) \subseteq Nums(s, C, f)
         /\ Rising(Tail(s), C, f)
         /\ Head(s) \in C => f[Head(s)] \in Nums(s, C, f) /\ Before({f[Head(s)]}, Nums(Tail(s), C, f))
<1> DEFINE u == Tail(s)
           n == Len(s)
<1>1. /\ n \in Nat /\ n >= 1 /\ DOMAIN s = 1 .. n /\ DOMAIN u = 1 .. (n - 1)
      /\ \A i \in 1 .. (n - 1) : u[i] = s[i + 1]
      /\ Head(s) = s[1]
  BY HeadTailProperties, EmptySeq
<1> HIDE DEF u, n
<1>2. ASSUME NEW i \in Places(C, u)
      PROVE  i \in 1 .. (n - 1) /\ i + 1 \in Places(C, s) /\ u[i] = s[i + 1] /\ i + 1 \in Nat /\ i + 1 > 1
  BY <1>1 DEF Places
<1>3. Nums(u, C, f) \subseteq Nums(s, C, f)
  BY <1>2 DEF Nums
<1>4. Rising(u, C, f)
  <2> SUFFICES ASSUME NEW i \in Places(C, u), NEW j \in Places(C, u), i < j PROVE f[u[i]] < f[u[j]]
    BY DEF Rising
  <2>1. i + 1 < j + 1
    BY <1>2
  <2>2. f[s[i + 1]] < f[s[j + 1]]
    BY <1>2, <2>1 DEF Rising
  <2> QED BY <1>2, <2>2
<1>5. ASSUME Head(s) \in C
      PROVE  f[Head(s)] \in Nums(s, C, f) /\ Before({f[Head(s)]}, Nums(u, C, f))
  <2>1. 1 \in Places(C, s)
    BY <1>1, <1>5 DEF Places
  <2>2. ASSUME NEW j \in Places(C, u) PROVE f[s[1]] < f[u[j]]
    <3>1. f[s[1]] < f[s[j + 1]]
      BY <1>2, <2>1 DEF Rising
    <3> QED BY <1>2, <3>1
  <2> QED BY <1>1, <2>1, <2>2 DEF Nums, Before
<1> QED BY <1>3, <1>4, <1>5 DEF u

(***************************************************************************)
(* Where the events are: read by the broker, on the wire, waiting for the  *)
(* connection, in the queue.  Each group is younger than the one before.   *)
(***************************************************************************)
Same == [n \in Nat |-> n]
EventPackets == {p \in Packets : p.topic = EventTopic}
PayloadOf == [p \in Packets |-> p.payload]
EventOf == [c \in Command |-> IF c \in EventCmds THEN c.event ELSE 0]

SeenEvents    == Nums(seen, Nat, Same)
WireEvents    == Nums(wire, EventPackets, PayloadOf)
WaitingEvents == Nums(waiting, Nat, Same)
QueuedEvents  == Nums(commands, EventCmds, EventOf)

InOrder ==
  /\ Rising(seen, Nat, Same) /\ Rising(wire, EventPackets, PayloadOf)
  /\ Rising(waiting, Nat, Same) /\ Rising(commands, EventCmds, EventOf)
Groups ==
  /\ Before(SeenEvents, WireEvents) /\ Before(SeenEvents, WaitingEvents) /\ Before(SeenEvents, QueuedEvents)
  /\ Before(WireEvents, WaitingEvents) /\ Before(WireEvents, QueuedEvents)
  /\ Before(WaitingEvents, QueuedEvents)
Issued == \A n \in SeenEvents \cup WireEvents \cup WaitingEvents \cup QueuedEvents : n <= issued
\* the worker sends at once only with nothing waiting
WaitOK == waiting # <<>> => ~connected \/ worker \in {"connected", "snapshot", "flush"}
OrderInv == InOrder /\ Groups /\ Issued /\ WaitOK

LEMMA NumberTypes ==
  /\ Same \in [Nat -> Nat] /\ PayloadOf \in [Packets -> Nat] /\ EventOf \in [Command -> Nat]
  /\ \A e \in Nat : PublishCmd(e) \in EventCmds /\ EventOf[PublishCmd(e)] = e /\ Same[e] = e
  /\ \A e \in Nat : /\ Packet(EventTopic, e) \in EventPackets /\ Packet(EventTopic, e) \in Packets
                    /\ PayloadOf[Packet(EventTopic, e)] = e
<1>1. \A c \in EventCmds : c.event \in Nat
  BY DEF EventCmds, PublishCmd
<1>2. EventOf \in [Command -> Nat]
  BY <1>1 DEF EventOf
<1>3. \A e \in Nat : PublishCmd(e) \in EventCmds /\ PublishCmd(e) \in Command /\ PublishCmd(e).event = e
  BY CommandTypes DEF EventCmds, PublishCmd
<1>4. \A e \in Nat : EventOf[PublishCmd(e)] = e
  BY <1>3 DEF EventOf
<1>5. Same \in [Nat -> Nat] /\ PayloadOf \in [Packets -> Nat]
  BY DEF Same, PayloadOf, Packets
<1>6. \A e \in Nat : Packet(EventTopic, e) \in Packets /\ Packet(EventTopic, e).topic = EventTopic
                     /\ Packet(EventTopic, e).payload = e
  BY DEF Packet, Packets
<1> QED BY <1>2, <1>3, <1>4, <1>5, <1>6 DEF EventPackets, PayloadOf, Same

LEMMA EventNats ==
  ASSUME DataTypes
  PROVE  /\ SeenEvents \subseteq Nat /\ WireEvents \subseteq Nat
         /\ WaitingEvents \subseteq Nat /\ QueuedEvents \subseteq Nat
<1>1. seen \in Seq(Nat) /\ wire \in Seq(Packets) /\ waiting \in Seq(Nat) /\ commands \in Seq(Command)
  BY DEF DataTypes
<1> QED BY <1>1, NumsNat, NumberTypes DEF SeenEvents, WireEvents, WaitingEvents, QueuedEvents

\* Steps of a sequence that bring no event.
QuietWire == WireEvents' \subseteq WireEvents /\ Rising(wire, EventPackets, PayloadOf)'
QuietQueue == QueuedEvents' \subseteq QueuedEvents /\ Rising(commands, EventCmds, EventOf)'

LEMMA NumsNext ==
  /\ SeenEvents' = Nums(seen', Nat, Same) /\ WireEvents' = Nums(wire', EventPackets, PayloadOf)
  /\ WaitingEvents' = Nums(waiting', Nat, Same) /\ QueuedEvents' = Nums(commands', EventCmds, EventOf)
  /\ Rising(seen, Nat, Same)' <=> Rising(seen', Nat, Same)
  /\ Rising(wire, EventPackets, PayloadOf)' <=> Rising(wire', EventPackets, PayloadOf)
  /\ Rising(waiting, Nat, Same)' <=> Rising(waiting', Nat, Same)
  /\ Rising(commands, EventCmds, EventOf)' <=> Rising(commands', EventCmds, EventOf)
BY Zenon DEF SeenEvents, WireEvents, WaitingEvents, QueuedEvents, Nums, Rising, Places,
             Same, EventPackets, PayloadOf, EventCmds, EventOf, Packets, Command, PublishCmd,
             ConnectCmd, DisconnectCmd, Snapshot

LEMMA OrderFrame ==
  ASSUME OrderInv, QuietWire, QuietQueue, UNCHANGED <<seen, waiting, issued>>, WaitOK'
  PROVE  OrderInv'
<1>1. SeenEvents' = SeenEvents /\ WaitingEvents' = WaitingEvents
  BY NumsNext, Zenon DEF SeenEvents, WaitingEvents
<1>2. InOrder'
  BY NumsNext, Zenon DEF OrderInv, InOrder, QuietWire, QuietQueue
<1>3. Groups'
  BY <1>1 DEF OrderInv, Groups, Before, QuietWire, QuietQueue
<1>4. Issued'
  BY <1>1, Zenon DEF OrderInv, Issued, QuietWire, QuietQueue
<1> QED BY <1>2, <1>3, <1>4, Zenon DEF OrderInv

LEMMA QuietEnqueue ==
  ASSUME DataTypes, OrderInv, Enqueues(QuietCmds) PROVE QuietQueue
<1>0. commands \in Seq(Command) /\ Rising(commands, EventCmds, EventOf) /\ EventOf \in [Command -> Nat]
  BY NumberTypes DEF DataTypes, OrderInv, InOrder
<1>1. CASE commands' = commands
  BY <1>0, <1>1, NumsNext, Zenon DEF QuietQueue, QueuedEvents
<1>2. ASSUME NEW d \in QuietCmds, commands' = Append(commands, d) PROVE QuietQueue
  <2>1. d \in Command /\ d \notin EventCmds
    BY DEF QuietCmds
  <2>2. /\ Nums(Append(commands, d), EventCmds, EventOf) = Nums(commands, EventCmds, EventOf)
        /\ Rising(Append(commands, d), EventCmds, EventOf)
    BY <1>0, <2>1, NumsSkip, Zenon
  <2> QED BY <1>2, <2>2, NumsNext, Zenon DEF QuietQueue, QueuedEvents
<1> QED BY <1>1, <1>2, Zenon DEF Enqueues

LEMMA QuietTake ==
  ASSUME DataTypes, OrderInv, commands # <<>>, commands' = Tail(commands)
  PROVE  /\ QuietQueue
         /\ \A e \in Nat : Head(commands) = PublishCmd(e)
                             => e \in QueuedEvents /\ Before({e}, QueuedEvents')
<1>0. commands \in Seq(Command) /\ Rising(commands, EventCmds, EventOf) /\ EventOf \in [Command -> Nat]
  BY NumberTypes DEF DataTypes, OrderInv, InOrder
<1>1. /\ Nums(Tail(commands), EventCmds, EventOf) \subseteq Nums(commands, EventCmds, EventOf)
      /\ Rising(Tail(commands), EventCmds, EventOf)
      /\ Head(commands) \in EventCmds
           => /\ EventOf[Head(commands)] \in Nums(commands, EventCmds, EventOf)
              /\ Before({EventOf[Head(commands)]}, Nums(Tail(commands), EventCmds, EventOf))
  BY <1>0, NumsTail, Zenon
<1>2. QuietQueue
  BY <1>1, NumsNext, Zenon DEF QuietQueue, QueuedEvents
<1>3. ASSUME NEW e \in Nat, Head(commands) = PublishCmd(e)
      PROVE  e \in QueuedEvents /\ Before({e}, QueuedEvents')
  <2>1. Head(commands) \in EventCmds /\ EventOf[Head(commands)] = e
    BY <1>3, NumberTypes, Zenon
  <2> QED BY <1>1, <2>1, NumsNext, Zenon DEF QueuedEvents
<1> QED BY <1>2, <1>3

\* A packet on a retained topic, or none.
Sends == wire' = wire \/ \E t \in Topics, v \in Nat : wire' = Append(wire, Packet(t, v))

LEMMA QuietSend == ASSUME DataTypes, OrderInv, Sends PROVE QuietWire
<1>0. wire \in Seq(Packets) /\ Rising(wire, EventPackets, PayloadOf) /\ PayloadOf \in [Packets -> Nat]
  BY NumberTypes DEF DataTypes, OrderInv, InOrder
<1>1. CASE wire' = wire
  BY <1>0, <1>1, NumsNext, Zenon DEF QuietWire, WireEvents
<1>2. ASSUME NEW t \in Topics, NEW v \in Nat, wire' = Append(wire, Packet(t, v)) PROVE QuietWire
  <2>1. Packet(t, v) \in Packets /\ Packet(t, v) \notin EventPackets
    BY DEF Packet, Packets, EventPackets
  <2> DEFINE p == Packet(t, v)
  <2> HIDE DEF p
  <2>2. p \in Packets /\ p \notin EventPackets
    BY <2>1 DEF p
  <2>3. /\ Nums(Append(wire, p), EventPackets, PayloadOf) = Nums(wire, EventPackets, PayloadOf)
        /\ Rising(Append(wire, p), EventPackets, PayloadOf)
    BY <1>0, <2>2, NumsSkip, Zenon
  <2> QED BY <1>2, <2>3, NumsNext, Zenon DEF QuietWire, WireEvents, p
<1> QED BY <1>1, <1>2, Zenon DEF Sends

\* publish(retain=False) numbers the event after every other one.
LEMMA OrderPublish == ASSUME DataTypes, OrderInv, PublishEvent PROVE OrderInv'
<1>0. /\ commands \in Seq(Command) /\ Rising(commands, EventCmds, EventOf) /\ EventOf \in [Command -> Nat]
      /\ issued \in Nat /\ issued' = issued + 1 /\ issued + 1 \in Nat
  BY NumberTypes DEF DataTypes, OrderInv, InOrder, PublishEvent
<1>1. UNCHANGED <<seen, waiting, wire, connected, worker>>
  BY Zenon DEF PublishEvent, netVars, workerVars
<1>2. WaitOK' /\ QuietWire
  BY <1>1, NumsNext, Zenon DEF OrderInv, InOrder, WaitOK, QuietWire, WireEvents
<1>3. CASE commands' = commands
  <2>1. QuietQueue
    BY <1>0, <1>3, NumsNext, Zenon DEF QuietQueue, QueuedEvents
  <2> DEFINE All == SeenEvents \cup WireEvents \cup WaitingEvents \cup QueuedEvents
  <2>2. SeenEvents' = SeenEvents /\ WireEvents' = WireEvents /\ WaitingEvents' = WaitingEvents
        /\ QueuedEvents' = QueuedEvents
    BY <1>1, <1>3, NumsNext, Zenon DEF SeenEvents, WireEvents, WaitingEvents, QueuedEvents
  <2>3. InOrder'
    BY <1>1, <2>1, NumsNext, Zenon DEF OrderInv, InOrder, QuietQueue
  <2>4. Groups'
    BY <2>2, Zenon DEF OrderInv, Groups
  <2>5. Issued'
    BY <1>0, <2>2, EventNats DEF OrderInv, Issued
  <2> QED BY <1>2, <2>3, <2>4, <2>5, Zenon DEF OrderInv
<1>4. CASE commands' = Append(commands, PublishCmd(issued + 1))
  <2> DEFINE d == PublishCmd(issued + 1)
  <2>1. d \in Command /\ d \in EventCmds /\ EventOf[d] = issued + 1
    BY <1>0, NumberTypes, QuietTypes, Zenon
  <2>2. Before(QueuedEvents, {issued + 1})
    BY <1>0, EventNats DEF Before, OrderInv, Issued
  <2> HIDE DEF d
  <2>3. Before(Nums(commands, EventCmds, EventOf), {EventOf[d]})
    BY <2>1, <2>2, Zenon DEF QueuedEvents
  <2>4. /\ Nums(Append(commands, d), EventCmds, EventOf) = Nums(commands, EventCmds, EventOf) \cup {EventOf[d]}
        /\ Rising(Append(commands, d), EventCmds, EventOf)
    BY <1>0, <2>1, <2>3, NumsGrow, Zenon
  <2>5. QueuedEvents' = QueuedEvents \cup {issued + 1} /\ Rising(commands, EventCmds, EventOf)'
    BY <1>4, <2>1, <2>4, NumsNext, Zenon DEF QueuedEvents, d
  <2>6. SeenEvents' = SeenEvents /\ WireEvents' = WireEvents /\ WaitingEvents' = WaitingEvents
    BY <1>1, NumsNext, Zenon DEF SeenEvents, WireEvents, WaitingEvents
  <2>7. InOrder'
    BY <1>1, <2>5, NumsNext, Zenon DEF OrderInv, InOrder
  <2>8. Groups'
    BY <1>0, <2>5, <2>6, EventNats DEF OrderInv, Groups, Before, Issued
  <2>9. Issued'
    BY <1>0, <2>5, <2>6, EventNats DEF OrderInv, Issued
  <2> QED BY <1>2, <2>7, <2>8, <2>9, Zenon DEF OrderInv
<1> QED BY <1>3, <1>4, Zenon DEF PublishEvent

\* An event older than what waits and what is queued goes to the wire.
LEMMA WireGrows ==
  ASSUME DataTypes, OrderInv, NEW e \in Nat, wire' = Append(wire, Packet(EventTopic, e)),
         Before(WireEvents, {e})
  PROVE  WireEvents' = WireEvents \cup {e} /\ Rising(wire, EventPackets, PayloadOf)'
<1> DEFINE p == Packet(EventTopic, e)
<1>1. /\ wire \in Seq(Packets) /\ Rising(wire, EventPackets, PayloadOf) /\ PayloadOf \in [Packets -> Nat]
  BY NumberTypes DEF DataTypes, OrderInv, InOrder
<1>2. p \in Packets /\ p \in EventPackets /\ PayloadOf[p] = e
  BY NumberTypes, Zenon
<1> HIDE DEF p
<1>3. Before(Nums(wire, EventPackets, PayloadOf), {PayloadOf[p]})
  BY <1>2, Zenon DEF WireEvents
<1>4. /\ Nums(Append(wire, p), EventPackets, PayloadOf) = Nums(wire, EventPackets, PayloadOf) \cup {PayloadOf[p]}
      /\ Rising(Append(wire, p), EventPackets, PayloadOf)
  BY <1>1, <1>2, <1>3, NumsGrow, Zenon
<1> QED BY <1>2, <1>4, NumsNext, Zenon DEF WireEvents, p

LEMMA NatsGrow ==
  ASSUME NEW s \in Seq(Nat), NEW e \in Nat, Rising(s, Nat, Same), Before(Nums(s, Nat, Same), {e})
  PROVE  Nums(Append(s, e), Nat, Same) = Nums(s, Nat, Same) \cup {e} /\ Rising(Append(s, e), Nat, Same)
<1>1. Same \in [Nat -> Nat] /\ Same[e] = e
  BY NumberTypes, Zenon
<1>2. Before(Nums(s, Nat, Same), {Same[e]})
  BY <1>1, Zenon
<1>3. /\ Nums(Append(s, e), Nat, Same) = Nums(s, Nat, Same) \cup {Same[e]}
      /\ Rising(Append(s, e), Nat, Same)
  BY <1>1, <1>2, NumsGrow, Zenon
<1> QED BY <1>1, <1>3, Zenon

\* The worker takes an event: with nothing waiting it goes to the wire, else behind the others.
LEMMA OrderTake ==
  ASSUME DataTypes, OrderInv, NEW e \in Nat, TakePublish(e) PROVE OrderInv'
<1>0. /\ UNCHANGED <<seen, issued, connected, worker>> /\ worker = "take"
      /\ commands # <<>> /\ commands' = Tail(commands) /\ Head(commands) = PublishCmd(e)
      /\ waiting \in Seq(Nat)
  BY DEF TakePublish, CanTake, mainVars, netVars, DataTypes
<1>1. QuietQueue /\ e \in QueuedEvents /\ Before({e}, QueuedEvents')
  BY <1>0, QuietTake, Zenon
<1>2. /\ Before(SeenEvents, {e}) /\ Before(WireEvents, {e}) /\ Before(WaitingEvents, {e}) /\ e <= issued
      /\ QueuedEvents' \subseteq QueuedEvents
  BY <1>1, Zenon DEF OrderInv, Groups, Before, Issued, QuietQueue
<1>3. SeenEvents' = SeenEvents
  BY <1>0, NumsNext, Zenon DEF SeenEvents
<1>4. CASE wire' = wire /\ waiting' = waiting
  <2>1. QuietWire /\ WaitOK'
    BY <1>0, <1>4, NumsNext, Zenon DEF OrderInv, InOrder, QuietWire, WireEvents, WaitOK
  <2> QED BY <1>0, <1>1, <1>4, <2>1, OrderFrame, Zenon
<1>5. CASE connected /\ wire' = Append(wire, Packet(EventTopic, e)) /\ waiting' = waiting
  <2>1. waiting = <<>> /\ WaitOK'
    BY <1>0, <1>5 DEF OrderInv, WaitOK
  <2>2. WaitingEvents' = {}
    BY <1>5, <2>1, NumsNext DEF WaitingEvents, Nums, Places
  <2>3. WireEvents' = WireEvents \cup {e} /\ Rising(wire, EventPackets, PayloadOf)'
    BY <1>2, <1>5, WireGrows, Zenon
  <2>4. InOrder'
    BY <1>0, <1>1, <1>5, <2>3, NumsNext, Zenon DEF OrderInv, InOrder, QuietQueue
  <2>5. Groups'
    BY <1>1, <1>2, <1>3, <2>2, <2>3 DEF OrderInv, Groups, Before
  <2>6. Issued'
    BY <1>0, <1>2, <1>3, <2>2, <2>3 DEF OrderInv, Issued
  <2> QED BY <2>1, <2>4, <2>5, <2>6, Zenon DEF OrderInv
<1>6. CASE ~connected /\ wire' = wire /\ waiting' = Append(waiting, e)
  <2>1. WaitOK' /\ WireEvents' = WireEvents
    BY <1>0, <1>6, NumsNext, Zenon DEF WaitOK, WireEvents
  <2>2. WaitingEvents' = WaitingEvents \cup {e} /\ Rising(waiting, Nat, Same)'
    <3>1. Rising(waiting, Nat, Same) /\ Before(Nums(waiting, Nat, Same), {e})
      BY <1>2, Zenon DEF OrderInv, InOrder, WaitingEvents
    <3> QED BY <1>0, <1>6, <3>1, NatsGrow, NumsNext, Zenon DEF WaitingEvents
  <2>4. InOrder'
    BY <1>0, <1>1, <1>6, <2>2, NumsNext, Zenon DEF OrderInv, InOrder, QuietQueue
  <2>5. Groups'
    BY <1>1, <1>2, <1>3, <2>1, <2>2 DEF OrderInv, Groups, Before
  <2>6. Issued'
    BY <1>0, <1>2, <1>3, <2>1, <2>2 DEF OrderInv, Issued
  <2> QED BY <2>1, <2>4, <2>5, <2>6, Zenon DEF OrderInv
<1>7. \/ wire' = wire /\ waiting' = waiting
      \/ connected /\ wire' = Append(wire, Packet(EventTopic, e)) /\ waiting' = waiting
      \/ ~connected /\ wire' = wire /\ waiting' = Append(waiting, e)
  BY Zenon DEF TakePublish, SendsAtOnce, Deliver
<1> QED BY <1>4, <1>5, <1>6, <1>7

\* The events that waited go to the wire, oldest first, before the worker takes a command again.
LEMMA OrderFlush == ASSUME DataTypes, OrderInv, FlushWaiting PROVE OrderInv'
<1>0. /\ UNCHANGED <<seen, issued, connected, commands>> /\ waiting \in Seq(Nat)
      /\ Rising(waiting, Nat, Same) /\ worker = "flush"
  BY DEF FlushWaiting, mainVars, sharedVars, DataTypes, OrderInv, InOrder
<1>1. QuietQueue /\ QueuedEvents' = QueuedEvents /\ SeenEvents' = SeenEvents
  BY <1>0, NumsNext, Zenon DEF QuietQueue, QueuedEvents, SeenEvents, OrderInv, InOrder
<1>2. CASE waiting = <<>>
  <2>1. wire' = wire /\ waiting' = waiting /\ WaitOK'
    BY <1>2, Zenon DEF FlushWaiting, WaitOK
  <2>2. QuietWire
    BY <2>1, NumsNext, Zenon DEF OrderInv, InOrder, QuietWire, WireEvents
  <2> QED BY <1>0, <1>1, <2>1, <2>2, OrderFrame, Zenon
<1>3. CASE waiting # <<>>
  <2> DEFINE h == Head(waiting)
  <2>1. h \in Nat /\ waiting' = Tail(waiting) /\ worker' = "flush"
    BY <1>0, <1>3, TailType DEF FlushWaiting
  <2>2. wire' = wire \/ wire' = Append(wire, Packet(EventTopic, h))
    BY <1>3, Zenon DEF FlushWaiting, Deliver
  <2>3. /\ Nums(Tail(waiting), Nat, Same) \subseteq Nums(waiting, Nat, Same)
        /\ Rising(Tail(waiting), Nat, Same)
        /\ Same[h] \in Nums(waiting, Nat, Same) /\ Before({Same[h]}, Nums(Tail(waiting), Nat, Same))
    BY <1>0, <1>3, <2>1, NumsTail, NumberTypes, Zenon
  <2>4. Same[h] = h
    BY <2>1, NumberTypes, Zenon
  <2> HIDE DEF h
  <2>5. /\ WaitingEvents' \subseteq WaitingEvents /\ Rising(waiting, Nat, Same)'
        /\ h \in WaitingEvents /\ Before({h}, WaitingEvents')
    BY <2>1, <2>3, <2>4, NumsNext, Zenon DEF WaitingEvents
  <2>6. Before(WireEvents, {h}) /\ Before(SeenEvents, {h}) /\ Before({h}, QueuedEvents) /\ h <= issued
    BY <2>5, Zenon DEF OrderInv, Groups, Before, Issued
  <2>7. WaitOK'
    BY <2>1, Zenon DEF WaitOK
  <2>8. /\ WireEvents' = WireEvents \/ WireEvents' = WireEvents \cup {h}
        /\ Rising(wire, EventPackets, PayloadOf)'
    <3>1. CASE wire' = wire
      BY <3>1, NumsNext, Zenon DEF OrderInv, InOrder, WireEvents
    <3>2. CASE wire' = Append(wire, Packet(EventTopic, h))
      BY <2>1, <2>6, <3>2, WireGrows, Zenon DEF h
    <3> QED BY <2>2, <3>1, <3>2
  <2>9. InOrder'
    BY <1>0, <1>1, <2>5, <2>8, NumsNext, Zenon DEF OrderInv, InOrder, QuietQueue
  <2>10. Groups'
    BY <1>1, <2>5, <2>6, <2>8 DEF OrderInv, Groups, Before
  <2>11. Issued'
    BY <1>0, <1>1, <2>5, <2>6, <2>8 DEF OrderInv, Issued
  <2> QED BY <2>7, <2>9, <2>10, <2>11, Zenon DEF OrderInv
<1> QED BY <1>2, <1>3

\* The broker reads the oldest packet.
LEMMA OrderRead == ASSUME DataTypes, OrderInv, BrokerRead PROVE OrderInv'
<1>0. /\ UNCHANGED <<issued, connected, worker, waiting, commands>> /\ wire' = Tail(wire) /\ wire # <<>>
      /\ wire \in Seq(Packets) /\ seen \in Seq(Nat) /\ Rising(seen, Nat, Same)
      /\ Rising(wire, EventPackets, PayloadOf) /\ PayloadOf \in [Packets -> Nat]
  BY NumberTypes DEF BrokerRead, mainVars, sharedVars, workerVars, DataTypes, OrderInv, InOrder
<1>1. /\ QuietQueue /\ QueuedEvents' = QueuedEvents /\ WaitingEvents' = WaitingEvents /\ WaitOK'
      /\ Rising(waiting, Nat, Same)'
  BY <1>0, NumsNext, Zenon DEF QuietQueue, QueuedEvents, WaitingEvents, WaitOK, OrderInv, InOrder
<1> DEFINE p == Head(wire)
<1>2. p \in Packets
  BY <1>0, TailType, Zenon
<1>3. /\ Nums(Tail(wire), EventPackets, PayloadOf) \subseteq Nums(wire, EventPackets, PayloadOf)
      /\ Rising(Tail(wire), EventPackets, PayloadOf)
      /\ p \in EventPackets => /\ PayloadOf[p] \in Nums(wire, EventPackets, PayloadOf)
                               /\ Before({PayloadOf[p]}, Nums(Tail(wire), EventPackets, PayloadOf))
  BY <1>0, NumsTail, Zenon
<1>4. QuietWire
  BY <1>0, <1>3, NumsNext, Zenon DEF QuietWire, WireEvents
<1>5. CASE p.topic # EventTopic
  <2>1. seen' = seen
    BY <1>5, Zenon DEF BrokerRead
  <2> QED BY <1>0, <1>1, <1>4, <2>1, OrderFrame, Zenon
<1>6. CASE p.topic = EventTopic
  <2> DEFINE e == p.payload
  <2>1. seen' = Append(seen, e)
    BY <1>6, Zenon DEF BrokerRead
  <2>2. e \in Nat /\ p \in EventPackets /\ PayloadOf[p] = e
    BY <1>2, <1>6 DEF Packets, EventPackets, PayloadOf
  <2> HIDE DEF e, p
  <2>3. e \in WireEvents /\ Before({e}, WireEvents') /\ WireEvents' \subseteq WireEvents
    BY <1>0, <1>3, <2>2, NumsNext, Zenon DEF WireEvents
  <2>4. /\ Before(SeenEvents, {e}) /\ Before({e}, WaitingEvents) /\ Before({e}, QueuedEvents)
        /\ e <= issued
    BY <2>3, Zenon DEF OrderInv, Groups, Before, Issued
  <2>5. SeenEvents' = SeenEvents \cup {e} /\ Rising(seen, Nat, Same)'
    BY <1>0, <2>1, <2>2, <2>4, NatsGrow, NumsNext, Zenon DEF SeenEvents
  <2>6. InOrder'
    BY <1>1, <1>4, <2>5, Zenon DEF InOrder, QuietQueue, QuietWire
  <2>7. Groups'
    BY <1>1, <2>3, <2>4, <2>5 DEF OrderInv, Groups, Before
  <2>8. Issued'
    BY <1>0, <1>1, <2>3, <2>4, <2>5 DEF OrderInv, Issued
  <2> QED BY <1>1, <2>6, <2>7, <2>8, Zenon DEF OrderInv
<1> QED BY <1>5, <1>6

LEMMA OrderWorker == ASSUME DataTypes, FlightTyped, OrderInv, WorkerStep PROVE OrderInv'
<1>1. ASSUME UNCHANGED <<seen, waiting, issued>>, QuietQueue, Sends, WaitOK' PROVE OrderInv'
  BY <1>1, QuietSend, OrderFrame, Zenon
<1>2. ASSUME UNCHANGED <<seen, waiting, issued, commands>>, Sends, WaitOK' PROVE OrderInv'
  <2>1. QuietQueue
    BY <1>2, QuietEnqueue, Zenon DEF Enqueues
  <2> QED BY <1>1, <1>2, <2>1
<1>3. ASSUME UNCHANGED <<seen, waiting, issued, wire>>, commands # <<>>, commands' = Tail(commands),
             WaitOK' PROVE OrderInv'
  BY <1>1, <1>3, QuietTake, Zenon DEF Sends
<1>4. ASSUME NEW t \in Topics, NEW v \in Nat, Send(t, v) PROVE Sends
  BY <1>4, Zenon DEF Send, Deliver, Sends
<1>5. WaitOK
  BY Zenon DEF OrderInv
<1>6. CASE TakeConnect \/ TakeDisconnect
  <2>1. WaitOK'
    BY <1>5, <1>6 DEF TakeConnect, TakeDisconnect, WaitOK
  <2> QED BY <1>3, <1>6, <2>1, Zenon DEF TakeConnect, TakeDisconnect, CanTake, mainVars, netVars
<1>7. CASE CallOnConnect \/ WorkerExits
  <2>1. WaitOK'
    BY <1>5, <1>7 DEF CallOnConnect, WorkerExits, WaitOK
  <2> QED BY <1>2, <1>7, <2>1, Zenon DEF CallOnConnect, WorkerExits, Sends, mainVars, sharedVars, netVars
<1>8. CASE PublishSnapshot
  <2> DEFINE t == Head(snap)
             v == IF t = Status THEN Online ELSE value[t]
  <2>1. t \in Topics
    BY <1>8, TailType DEF PublishSnapshot, DataTypes
  <2>2. v \in Nat
    BY <2>1 DEF DataTypes
  <2>3. Send(t, v) \/ wire' = wire
    BY <1>8 DEF PublishSnapshot
  <2>4. WaitOK'
    BY <1>5, <1>8 DEF PublishSnapshot, WaitOK
  <2>5. Sends
    <3> HIDE DEF t, v
    <3> QED BY <1>4, <2>1, <2>2, <2>3, Zenon DEF Sends
  <2> QED BY <1>2, <1>8, <2>4, <2>5, Zenon DEF PublishSnapshot, mainVars, sharedVars
<1>9. ASSUME NEW t \in Topics, Drain(t) PROVE OrderInv'
  <2>1. retained[t] \in Nat
    BY DEF DataTypes
  <2>2. Sends
    BY <1>4, <1>9, <2>1, Zenon DEF Drain, Sends
  <2>3. WaitOK'
    BY <1>5, <1>9 DEF Drain, WaitOK
  <2> QED BY <1>2, <1>9, <2>2, <2>3, Zenon DEF Drain, mainVars, sharedVars
<1>10. ASSUME NEW t \in Topics, TakeAck(t) \/ TakeRetained(t) PROVE OrderInv'
  <2>1. WaitOK'
    BY <1>5, <1>10 DEF TakeAck, TakeRetained, CanTake, WaitOK
  <2> QED BY <1>3, <1>10, <2>1, Zenon DEF TakeAck, TakeRetained, CanTake, mainVars, netVars
<1>11. ASSUME NEW t \in Topics, PopMailbox(t) PROVE OrderInv'
  <2>1. WaitOK'
    BY <1>5, <1>11 DEF PopMailbox, WaitOK
  <2> QED BY <1>2, <1>11, <2>1, Zenon DEF PopMailbox, Sends, mainVars, netVars
<1>12. ASSUME NEW e \in 1 .. MaxEvents, TakePublish(e) PROVE OrderInv'
  <2>1. e \in Nat
    OBVIOUS
  <2> QED BY <1>12, <2>1, OrderTake, Zenon
<1> QED BY <1>6, <1>7, <1>8, <1>9, <1>10, <1>11, <1>12, OrderFlush, Zenon DEF WorkerStep

LEMMA OrderNet == ASSUME DataTypes, FlightTyped, OrderInv, NetStep PROVE OrderInv'
<1>1. UNCHANGED <<connected, worker, waiting, issued>> /\ WaitOK'
  <2>1. UNCHANGED <<connected, worker, waiting, issued>>
    BY Zenon DEF NetStep, Connect, Drop, BrokerRestart, BrokerRead, BrokerLosesSession,
                 BrokerReadsDisconnect, OnPublish, workerVars, mainVars
  <2> QED BY <2>1, Zenon DEF OrderInv, WaitOK
<1>2. QuietQueue
  BY NetEnqueues, QuietEnqueue, Zenon
<1>3. ASSUME UNCHANGED seen, QuietWire PROVE OrderInv'
  BY <1>1, <1>2, <1>3, OrderFrame, Zenon
<1>4. ASSUME \A i \in DOMAIN wire' : wire'[i] \notin EventPackets PROVE QuietWire
  BY <1>4, NumsNone, NumsNext DEF QuietWire
<1>5. CASE Connect
  <2>1. outMsgs \in Seq(Qos1Packets) /\ wire' = outMsgs /\ seen' = seen
    BY <1>5, Zenon DEF Connect, FlightTyped
  <2>2. \A i \in DOMAIN outMsgs : outMsgs[i] \notin EventPackets
    <3>1. \A i \in DOMAIN outMsgs : outMsgs[i] \in Qos1Packets
      BY <2>1, ElementOfSeq
    <3> QED BY <3>1 DEF Qos1Packets, EventPackets
  <2> QED BY <1>3, <1>4, <2>1, <2>2, Zenon
<1>6. CASE BrokerRestart \/ BrokerLosesSession
  <2>1. wire' = <<>> /\ seen' = seen
    BY <1>6, Zenon DEF BrokerRestart, BrokerLosesSession
  <2> QED BY <1>3, <1>4, <2>1
<1>7. CASE Drop \/ BrokerReadsDisconnect \/ OnPublish
  <2>1. UNCHANGED <<wire, seen>>
    BY <1>7, Zenon DEF Drop, BrokerReadsDisconnect, OnPublish
  <2> QED BY <1>3, <2>1, QuietSend, Zenon DEF Sends
<1> QED BY <1>5, <1>6, <1>7, OrderRead, Zenon DEF NetStep

LEMMA OrderStep == ASSUME DataTypes, FlightTyped, OrderInv, [Next]_vars PROVE OrderInv'
<1>1. ASSUME UNCHANGED <<workerVars, issued, wire, seen>>, Enqueues(QuietCmds) PROVE OrderInv'
  <2>1. UNCHANGED <<connected, worker, waiting>> /\ WaitOK'
    BY <1>1, Zenon DEF workerVars, OrderInv, WaitOK
  <2> QED BY <1>1, <2>1, QuietEnqueue, QuietSend, OrderFrame, Zenon DEF Sends
<1>2. CASE DeadlinePasses \/ Terminated \/ UNCHANGED vars
  BY <1>1, <1>2, Zenon DEF DeadlinePasses, Terminated, vars, mainVars, netVars, sharedVars, Enqueues
<1>3. CASE MainStep
  <2>1. CASE PublishEvent
    BY <2>1, OrderPublish
  <2>2. ASSUME ~PublishEvent PROVE OrderInv'
    <3>1. Enqueues(QuietCmds)
      BY <1>3, <2>2, MainEnqueues, Zenon
    <3>2. UNCHANGED <<workerVars, issued, wire, seen>>
      BY <1>3, <2>2, Zenon DEF MainStep, SetState, PublishState, PublishItem, PublishOffline, Stop, Joined,
                               netVars
    <3> QED BY <1>1, <3>1, <3>2
  <2> QED BY <2>1, <2>2
<1> QED BY <1>2, <1>3, OrderWorker, OrderNet, Zenon DEF Next

LEMMA OrderInit == Init => OrderInv
<1> SUFFICES ASSUME Init PROVE OrderInv
  OBVIOUS
<1>1. seen = <<>> /\ wire = <<>> /\ waiting = <<>> /\ commands = <<>>
  BY DEF Init
<1>2. \A C, f : Nums(<<>>, C, f) = {} /\ Rising(<<>>, C, f)
  BY DEF Nums, Rising, Places
<1>3. SeenEvents = {} /\ WireEvents = {} /\ WaitingEvents = {} /\ QueuedEvents = {} /\ InOrder
  BY <1>1, <1>2, Zenon DEF SeenEvents, WireEvents, WaitingEvents, QueuedEvents, InOrder
<1> QED BY <1>1, <1>3 DEF OrderInv, Groups, Issued, Before, WaitOK

\* EventOrder: an event is younger than everything ahead of it, wherever it is: on the wire, in the
\* list that waits for a connection, in the queue.  The worker sends one at once only when no
\* older one is waiting, and what paho sends again never includes an event.
THEOREM EventsInOrder == Spec => []EventOrder
<1>1. DataTypes /\ OrderInv => EventOrder
  <2> SUFFICES ASSUME DataTypes, OrderInv, NEW i \in 1 .. Len(seen) - 1 PROVE seen[i] < seen[i + 1]
    BY DEF EventOrder
  <2>1. seen \in Seq(Nat) /\ Len(seen) \in Nat /\ Rising(seen, Nat, Same)
    BY DEF DataTypes, OrderInv, InOrder
  <2>2. i \in DOMAIN seen /\ i + 1 \in DOMAIN seen /\ i < i + 1
    BY <2>1
  <2>3. seen[i] \in Nat /\ seen[i + 1] \in Nat
    BY <2>1, <2>2
  <2>4. Same[seen[i]] < Same[seen[i + 1]]
    BY <2>1, <2>2, <2>3 DEF Rising, Places
  <2> QED BY <2>3, <2>4 DEF Same
<1>2. TypeOK /\ StallInv /\ OrderInv /\ [Next]_vars => OrderInv'
  BY OrderStep, Zenon DEF TypeOK, StallInv
<1>3. TypeOK => DataTypes
  BY DEF TypeOK
<1> QED BY <1>1, <1>2, <1>3, Typing, StallSafe, OrderInit, PTL DEF Spec

(***************************************************************************)
(* The channel of an item topic.  Numbers that never fall along a sequence *)
(* (a coalesced value is sent again, so two neighbours may be equal).      *)
(***************************************************************************)
Growing(s, C, f) == \A i, j \in Places(C, s) : i < j => f[s[i]] <= f[s[j]]
NotAfter(A, B) == \A a \in A, b \in B : a <= b

LEMMA GrowingSkip ==
  ASSUME NEW S, NEW s \in Seq(S), NEW e \in S, NEW C, e \notin C, NEW f \in [S -> Nat], Growing(s, C, f)
  PROVE  Nums(Append(s, e), C, f) = Nums(s, C, f) /\ Growing(Append(s, e), C, f)
<1> DEFINE a == Append(s, e)
<1>0. /\ Places(C, Append(s, e)) = Places(C, s) \cup (IF e \in C THEN {Len(s) + 1} ELSE {})
      /\ \A i \in Places(C, s) : i \in 1 .. Len(s) /\ Append(s, e)[i] = s[i]
  BY PlacesAppend
<1> HIDE DEF a
<1>1. Places(C, a) = Places(C, s) /\ \A i \in Places(C, s) : a[i] = s[i]
  BY <1>0 DEF a
<1>2. Nums(a, C, f) = Nums(s, C, f)
  BY <1>1 DEF Nums
<1>3. Growing(a, C, f)
  BY <1>1 DEF Growing
<1> QED BY <1>2, <1>3 DEF a

LEMMA GrowingAppend ==
  ASSUME NEW S, NEW s \in Seq(S), NEW e \in S, NEW C, e \in C, NEW f \in [S -> Nat], Growing(s, C, f),
         NotAfter(Nums(s, C, f), {f[e]})
  PROVE  Nums(Append(s, e), C, f) = Nums(s, C, f) \cup {f[e]} /\ Growing(Append(s, e), C, f)
<1> DEFINE a == Append(s, e)
           n == Len(s)
<1>0. /\ Len(s) \in Nat
      /\ Places(C, Append(s, e)) = Places(C, s) \cup (IF e \in C THEN {Len(s) + 1} ELSE {})
      /\ \A i \in Places(C, s) : i \in 1 .. Len(s) /\ Append(s, e)[i] = s[i]
      /\ Append(s, e)[Len(s) + 1] = e
  BY PlacesAppend
<1> HIDE DEF a, n
<1>1. /\ n \in Nat /\ Places(C, a) = Places(C, s) \cup {n + 1}
      /\ \A i \in Places(C, s) : i \in 1 .. n /\ a[i] = s[i]
      /\ a[n + 1] = e
  BY <1>0 DEF a, n
<1>2. Nums(a, C, f) = Nums(s, C, f) \cup {f[e]}
  <2>1. \A i \in Places(C, s) : f[a[i]] = f[s[i]]
    BY <1>1
  <2>2. f[a[n + 1]] = f[e]
    BY <1>1
  <2>3. \A x : x \in Nums(a, C, f) <=> \E i \in Places(C, s) \cup {n + 1} : x = f[a[i]]
    BY <1>1 DEF Nums
  <2>4. \A x : x \in Nums(s, C, f) <=> \E i \in Places(C, s) : x = f[s[i]]
    BY DEF Nums
  <2> QED BY <2>1, <2>2, <2>3, <2>4
<1>3. ASSUME NEW i \in Places(C, a), NEW j \in Places(C, a), i < j PROVE f[a[i]] <= f[a[j]]
  <2>1. i \in Places(C, s)
    BY <1>1, <1>3
  <2>2. CASE j \in Places(C, s)
    BY <1>1, <1>3, <2>1, <2>2 DEF Growing
  <2>3. CASE j = n + 1
    BY <1>1, <2>1, <2>3 DEF NotAfter, Nums
  <2> QED BY <1>1, <2>2, <2>3
<1> QED BY <1>2, <1>3 DEF a, Growing

LEMMA GrowingTail ==
  ASSUME NEW S, NEW s \in Seq(S), s # <<>>, NEW C, NEW f \in [S -> Nat], Growing(s, C, f)
  PROVE  /\ Nums(Tail(s), C, f) \subseteq Nums(s, C, f)
         /\ Growing(Tail(s), C, f)
         /\ Head(s) \in C => f[Head(s)] \in Nums(s, C, f) /\ NotAfter({f[Head(s)]}, Nums(Tail(s), C, f))
<1> DEFINE u == Tail(s)
           n == Len(s)
<1>1. /\ n \in Nat /\ n >= 1 /\ DOMAIN s = 1 .. n /\ DOMAIN u = 1 .. (n - 1)
      /\ \A i \in 1 .. (n - 1) : u[i] = s[i + 1]
      /\ Head(s) = s[1]
  BY HeadTailProperties, EmptySeq
<1> HIDE DEF u, n
<1>2. ASSUME NEW i \in Places(C, u)
      PROVE  i \in 1 .. (n - 1) /\ i + 1 \in Places(C, s) /\ u[i] = s[i + 1] /\ i + 1 \in Nat /\ i + 1 > 1
  BY <1>1 DEF Places
<1>3. Nums(u, C, f) \subseteq Nums(s, C, f)
  BY <1>2 DEF Nums
<1>4. Growing(u, C, f)
  <2> SUFFICES ASSUME NEW i \in Places(C, u), NEW j \in Places(C, u), i < j PROVE f[u[i]] <= f[u[j]]
    BY DEF Growing
  <2>1. i + 1 < j + 1
    BY <1>2
  <2>2. f[s[i + 1]] <= f[s[j + 1]]
    BY <1>2, <2>1 DEF Growing
  <2> QED BY <1>2, <2>2
<1>5. ASSUME Head(s) \in C
      PROVE  f[Head(s)] \in Nums(s, C, f) /\ NotAfter({f[Head(s)]}, Nums(u, C, f))
  <2>1. 1 \in Places(C, s)
    BY <1>1, <1>5 DEF Places
  <2>2. ASSUME NEW j \in Places(C, u) PROVE f[s[1]] <= f[u[j]]
    <3>1. f[s[1]] <= f[s[j + 1]]
      BY <1>2, <2>1 DEF Growing
    <3> QED BY <1>2, <3>1
  <2> QED BY <1>1, <2>1, <2>2 DEF Nums, NotAfter
<1> QED BY <1>3, <1>4, <1>5 DEF u

\* What a QoS 1 topic has in flight is one packet.
LEMMA NumsRemove ==
  ASSUME NEW S, NEW s \in Seq(S), NEW k \in 1 .. Len(s), NEW C, NEW f
  PROVE  Nums(RemoveAt(s, k), C, f) \subseteq Nums(s, C, f)
<1> DEFINE r == RemoveAt(s, k)
           n == Len(s)
<1>1. n \in Nat /\ DOMAIN s = 1 .. n /\ DOMAIN r = 1 .. (n - 1)
      /\ \A i \in 1 .. (n - 1) : r[i] = IF i < k THEN s[i] ELSE s[i + 1]
  BY RemoveAtProperties
<1> HIDE DEF r, n
<1>2. \A i \in Places(C, r) : \E j \in Places(C, s) : s[j] = r[i]
  <2> SUFFICES ASSUME NEW i \in Places(C, r) PROVE \E j \in Places(C, s) : s[j] = r[i]
    OBVIOUS
  <2>1. i \in 1 .. (n - 1) /\ r[i] \in C
    BY <1>1 DEF Places
  <2>2. r[i] = s[i] \/ r[i] = s[i + 1]
    BY <1>1, <2>1
  <2>3. i \in DOMAIN s /\ i + 1 \in DOMAIN s
    BY <1>1, <2>1
  <2> QED BY <2>1, <2>2, <2>3 DEF Places
<1> QED BY <1>2 DEF Nums, r

(***************************************************************************)
(* Along the way of an item's value nothing is younger than what comes     *)
(* behind it: broker, wire, paho, _retained, mailbox, the bridge.          *)
(***************************************************************************)
OnWire(t) == Nums(wire, OfTopic(t), PayloadOf)
InPaho(t) == Nums(outMsgs, OfTopic(t), PayloadOf)

FlightOrder(t) ==
  /\ Growing(wire, OfTopic(t), PayloadOf)
  /\ NotAfter({broker[t]}, OnWire(t) \cup InPaho(t) \cup {retained[t]})
  /\ NotAfter(OnWire(t), InPaho(t) \cup {retained[t]})
  /\ NotAfter(InPaho(t), {retained[t]})
ValueOrder(t) ==
  /\ retained[t] <= value[t]
  /\ mailbox[t] # NoValue => retained[t] <= mailbox[t] /\ mailbox[t] <= value[t]
ChanInv ==
  /\ \A t \in ItemTopics : FlightOrder(t) /\ ValueOrder(t)
  /\ snap \in Seq(Snapshot)

LEMMA ItemTypes ==
  ASSUME DataTypes, NEW t \in ItemTopics
  PROVE  /\ t \in Topics /\ t \notin Snapshot /\ t # Status
         /\ broker[t] \in Nat /\ retained[t] \in Nat /\ value[t] \in Nat /\ mailbox[t] \in Nat
         /\ OnWire(t) \subseteq Nat /\ InPaho(t) \subseteq Nat
<1>1. t \in Topics /\ t \notin Snapshot /\ t # Status
  BY DEF ItemTopics
<1>2. wire \in Seq(Packets) /\ outMsgs \in Seq(Packets)
  BY DEF DataTypes
<1>3. OnWire(t) \subseteq Nat /\ InPaho(t) \subseteq Nat
  BY <1>2, NumsNat, NumberTypes DEF OnWire, InPaho
<1> QED BY <1>1, <1>3 DEF DataTypes

LEMMA FlightFacts ==
  ASSUME NEW t
  PROVE  /\ FlightOrder(t) <=>
              /\ Growing(wire, OfTopic(t), PayloadOf) /\ broker[t] <= retained[t]
              /\ \A w \in OnWire(t) : broker[t] <= w /\ w <= retained[t]
              /\ \A m \in InPaho(t) : broker[t] <= m /\ m <= retained[t]
              /\ \A w \in OnWire(t), m \in InPaho(t) : w <= m
         /\ FlightOrder(t)' <=>
              /\ Growing(wire, OfTopic(t), PayloadOf)' /\ broker'[t] <= retained'[t]
              /\ \A w \in OnWire(t)' : broker'[t] <= w /\ w <= retained'[t]
              /\ \A m \in InPaho(t)' : broker'[t] <= m /\ m <= retained'[t]
              /\ \A w \in OnWire(t)', m \in InPaho(t)' : w <= m
BY Zenon DEF FlightOrder, NotAfter

LEMMA ChanNext1 ==
  /\ \A t : OnWire(t)' = Nums(wire', OfTopic(t), PayloadOf)
  /\ \A t : InPaho(t)' = Nums(outMsgs', OfTopic(t), PayloadOf)
  /\ \A t : Growing(wire, OfTopic(t), PayloadOf)' <=> Growing(wire', OfTopic(t), PayloadOf)
BY Zenon DEF OnWire, InPaho, Growing, Nums, Places, OfTopic, PayloadOf, Packets

\* Nothing is added, and the broker keeps its value or loses it.
LEMMA FlightFrame ==
  ASSUME DataTypes, NEW t \in ItemTopics, FlightOrder(t), retained'[t] = retained[t],
         broker'[t] = broker[t] \/ broker'[t] = 0,
         OnWire(t)' \subseteq OnWire(t), Growing(wire, OfTopic(t), PayloadOf)',
         InPaho(t)' \subseteq InPaho(t)
  PROVE  FlightOrder(t)'
BY ItemTypes DEF FlightOrder, NotAfter

LEMMA FlightStays ==
  ASSUME DataTypes, NEW t \in ItemTopics, FlightOrder(t), UNCHANGED <<retained, broker, wire, outMsgs>>
  PROVE  FlightOrder(t)'
<1>1. OnWire(t)' = OnWire(t) /\ InPaho(t)' = InPaho(t)
  BY ChanNext1, Zenon DEF OnWire, InPaho
<1>2. Growing(wire, OfTopic(t), PayloadOf)'
  BY ChanNext1, Zenon DEF FlightOrder
<1> QED BY <1>1, <1>2, FlightFrame, Zenon

LEMMA NoneTopic ==
  ASSUME DataTypes, OneInFlight, NEW t \in Topics, t \notin outstanding PROVE Places(OfTopic(t), outMsgs) = {}
<1>0. outMsgs \in Seq(Packets)
  BY DEF DataTypes
<1>1. Cardinality(InFlight(t)) = 0
  <2>1. Single(t) /\ Cardinality(InFlight(t)) \in Nat /\ CountIn(AckCmd(t), commands) \in Nat
    BY SingleDef, FlightCount, CountAppend, CommandTypes, Zenon DEF DataTypes
  <2> HIDE DEF CountIn, InFlight
  <2> QED BY <2>1 DEF Single
<1>2. InFlight(t) = Places(OfTopic(t), outMsgs) /\ IsFiniteSet(Places(OfTopic(t), outMsgs))
  BY <1>0, InFlightIsAmong, AmongNat, Zenon DEF InFlight
<1> QED BY <1>1, <1>2, FS_EmptySet

LEMMA NoneInFlight ==
  ASSUME DataTypes, OneInFlight, NEW t \in Topics, t \notin outstanding PROVE InPaho(t) = {}
BY NoneTopic DEF InPaho, Nums

LEMMA AtMostOne ==
  ASSUME DataTypes, OneInFlight, NEW t \in Topics
  PROVE  \A i, j \in Places(OfTopic(t), outMsgs) : i = j
<1>0. outMsgs \in Seq(Packets)
  BY DEF DataTypes
<1> DEFINE P == Places(OfTopic(t), outMsgs)
<1>1. InFlight(t) = P /\ IsFiniteSet(P)
  BY <1>0, InFlightIsAmong, AmongNat, Zenon DEF InFlight
<1>2. Cardinality(P) = 0 \/ Cardinality(P) = 1
  <2>1. Single(t) /\ Cardinality(InFlight(t)) \in Nat /\ CountIn(AckCmd(t), commands) \in Nat
    BY SingleDef, FlightCount, CountAppend, CommandTypes, Zenon DEF DataTypes
  <2>2. Cardinality(InFlight(t)) = 0 \/ Cardinality(InFlight(t)) = 1
    <3> HIDE DEF CountIn, InFlight
    <3> QED BY <2>1 DEF Single
  <2> QED BY <1>1, <2>2, Zenon
<1> HIDE DEF P
<1>3. P = {} \/ \E x : P = {x}
  BY <1>1, <1>2, FS_EmptySet, FS_Singleton
<1> QED BY <1>3 DEF P

LEMMA OneGrowing ==
  ASSUME DataTypes, OneInFlight, NEW t \in Topics
  PROVE  /\ Growing(outMsgs, OfTopic(t), PayloadOf)
         /\ \A a, b \in InPaho(t) : a = b
<1>0. \A i, j \in Places(OfTopic(t), outMsgs) : i = j
  BY AtMostOne
<1>1. \A i \in Places(OfTopic(t), outMsgs) : i \in Nat
  <2>1. outMsgs \in Seq(Packets)
    BY DEF DataTypes
  <2> QED BY <2>1 DEF Places
<1>2. Growing(outMsgs, OfTopic(t), PayloadOf)
  BY <1>0, <1>1 DEF Growing
<1>3. \A a, b \in InPaho(t) : a = b
  BY <1>0 DEF InPaho, Nums
<1> QED BY <1>2, <1>3

\* _send of the value the worker retains, with no packet of the topic in flight.
LEMMA FlightSend ==
  ASSUME DataTypes, OneInFlight, NEW t \in ItemTopics, FlightOrder(t), NEW u \in Topics, NEW v \in Nat,
         MaySend(u), Send(u, v), u = t => v = retained[t], retained'[t] = retained[t], broker' = broker
  PROVE  FlightOrder(t)'
<1> DEFINE p == Packet(u, v)
<1>0. /\ wire \in Seq(Packets) /\ outMsgs \in Seq(Packets) /\ PayloadOf \in [Packets -> Nat]
      /\ Growing(wire, OfTopic(t), PayloadOf)
  BY NumberTypes DEF DataTypes, FlightOrder
<1>1. p \in Packets /\ (p \in OfTopic(t) <=> u = t) /\ PayloadOf[p] = v
  BY DEF Packet, Packets, OfTopic, PayloadOf
<1>2. /\ wire' = wire \/ wire' = Append(wire, p)
      /\ outMsgs' = outMsgs \/ outMsgs' = Append(outMsgs, p)
  BY Zenon DEF Send, Deliver
<1>3. u \notin outstanding
  BY DEF MaySend
<1>4. Growing(outMsgs, OfTopic(t), PayloadOf)
  BY OneGrowing, ItemTypes, Zenon
<1> HIDE DEF p
<1>5. CASE u # t
  <2>1. OnWire(t)' = OnWire(t) /\ Growing(wire, OfTopic(t), PayloadOf)'
    <3>1. CASE wire' = wire
      BY <1>0, <3>1, ChanNext1, Zenon DEF OnWire
    <3>2. CASE wire' = Append(wire, p)
      <4>1. /\ Nums(Append(wire, p), OfTopic(t), PayloadOf) = Nums(wire, OfTopic(t), PayloadOf)
            /\ Growing(Append(wire, p), OfTopic(t), PayloadOf)
        BY <1>0, <1>1, <1>5, GrowingSkip, Zenon
      <4> QED BY <3>2, <4>1, ChanNext1, Zenon DEF OnWire
    <3> QED BY <1>2, <3>1, <3>2
  <2>2. InPaho(t)' = InPaho(t)
    <3>1. CASE outMsgs' = outMsgs
      BY <3>1, ChanNext1, Zenon DEF InPaho
    <3>2. CASE outMsgs' = Append(outMsgs, p)
      <4>1. /\ Nums(Append(outMsgs, p), OfTopic(t), PayloadOf) = Nums(outMsgs, OfTopic(t), PayloadOf)
            /\ Growing(Append(outMsgs, p), OfTopic(t), PayloadOf)
        BY <1>0, <1>1, <1>4, <1>5, GrowingSkip, Zenon
      <4> QED BY <3>2, <4>1, ChanNext1, Zenon DEF InPaho
    <3> QED BY <1>2, <3>1, <3>2
  <2> QED BY <2>1, <2>2, FlightFrame, Zenon
<1>6. CASE u = t
  <2>0. InPaho(t) = {} /\ v = retained[t] /\ t \in Topics
    BY <1>3, <1>6, NoneInFlight, ItemTypes, Zenon
  <2>1. NotAfter(Nums(wire, OfTopic(t), PayloadOf), {PayloadOf[p]})
    BY <1>1, <2>0 DEF FlightOrder, OnWire, NotAfter
  <2>2. OnWire(t)' \subseteq OnWire(t) \cup {v} /\ Growing(wire, OfTopic(t), PayloadOf)'
    <3>1. CASE wire' = wire
      <4>1. OnWire(t)' = OnWire(t) /\ Growing(wire, OfTopic(t), PayloadOf)'
        BY <1>0, <3>1, ChanNext1, Zenon DEF OnWire
      <4> QED BY <4>1
    <3>2. CASE wire' = Append(wire, p)
      <4>1. /\ Nums(Append(wire, p), OfTopic(t), PayloadOf) = Nums(wire, OfTopic(t), PayloadOf) \cup {PayloadOf[p]}
            /\ Growing(Append(wire, p), OfTopic(t), PayloadOf)
        BY <1>0, <1>1, <1>6, <2>1, GrowingAppend, Zenon
      <4>2. OnWire(t)' = OnWire(t) \cup {v} /\ Growing(wire, OfTopic(t), PayloadOf)'
        BY <1>1, <3>2, <4>1, ChanNext1, Zenon DEF OnWire
      <4> QED BY <4>2
    <3> QED BY <1>2, <3>1, <3>2
  <2>3. InPaho(t)' \subseteq {v}
    <3>1. CASE outMsgs' = outMsgs
      <4>1. InPaho(t)' = InPaho(t)
        BY <3>1, ChanNext1, Zenon DEF InPaho
      <4> QED BY <2>0, <4>1
    <3>2. CASE outMsgs' = Append(outMsgs, p)
      <4>0. NotAfter(Nums(outMsgs, OfTopic(t), PayloadOf), {PayloadOf[p]})
        BY <2>0 DEF InPaho, NotAfter
      <4>1. /\ Nums(Append(outMsgs, p), OfTopic(t), PayloadOf)
                 = Nums(outMsgs, OfTopic(t), PayloadOf) \cup {PayloadOf[p]}
            /\ Growing(Append(outMsgs, p), OfTopic(t), PayloadOf)
        BY <1>0, <1>1, <1>4, <1>6, <4>0, GrowingAppend, Zenon
      <4>2. InPaho(t)' = InPaho(t) \cup {v}
        BY <1>1, <3>2, <4>1, ChanNext1, Zenon DEF InPaho
      <4> QED BY <2>0, <4>2
    <3> QED BY <1>2, <3>1, <3>2
  <2> QED BY <2>0, <2>2, <2>3, ItemTypes DEF FlightOrder, NotAfter
<1> QED BY <1>5, <1>6

LEMMA ValueStays ==
  ASSUME NEW t, ValueOrder(t), retained'[t] = retained[t], value'[t] = value[t], mailbox'[t] = mailbox[t]
  PROVE  ValueOrder(t)'
BY Zenon DEF ValueOrder

LEMMA ChanMain == ASSUME DataTypes, ChanInv, MainStep PROVE ChanInv'
<1>0. UNCHANGED <<retained, broker, wire, outMsgs, snap>>
  BY Zenon DEF MainStep, SetState, PublishState, PublishItem, PublishEvent, PublishOffline, Stop, Joined,
               netVars, workerVars
<1> SUFFICES ASSUME NEW t \in ItemTopics PROVE FlightOrder(t)' /\ ValueOrder(t)'
  BY <1>0, Zenon DEF ChanInv
<1>1. FlightOrder(t)'
  BY <1>0, FlightStays, Zenon DEF ChanInv
<1>2. /\ ValueOrder(t) /\ t \in Topics /\ t \notin Snapshot /\ t # Status
      /\ retained[t] \in Nat /\ value[t] \in Nat /\ mailbox[t] \in Nat
  BY ItemTypes DEF ChanInv
<1>3. value \in [Topics -> Nat] /\ mailbox \in [Topics -> Nat] /\ unsent \subseteq Snapshot
  BY DEF DataTypes
<1>4. ASSUME UNCHANGED <<value, mailbox>> PROVE ValueOrder(t)'
  BY <1>0, <1>2, <1>4, ValueStays, Zenon
<1>5. ASSUME NEW u \in Snapshot, NEW v, value' = value \/ value' = [value EXCEPT ![u] = @ + 1],
             mailbox' = mailbox \/ mailbox' = [mailbox EXCEPT ![u] = v]
      PROVE  ValueOrder(t)'
  <2>1. value'[t] = value[t] /\ mailbox'[t] = mailbox[t]
    BY <1>2, <1>3, <1>5
  <2> QED BY <1>0, <1>2, <2>1, ValueStays, Zenon
<1>6. ASSUME NEW u \in Topics, SetState(u) PROVE ValueOrder(t)'
  BY <1>5, <1>6, Zenon DEF SetState, sharedVars
<1>7. ASSUME NEW u \in Topics, PublishState(u) PROVE ValueOrder(t)'
  <2>1. u \in Snapshot
    BY <1>3, <1>7 DEF PublishState
  <2> QED BY <1>5, <1>7, <2>1, Zenon DEF PublishState, SubmitRetained
<1>8. ASSUME NEW u \in Topics, PublishItem(u) PROVE ValueOrder(t)'
  <2>1. value' = [value EXCEPT ![u] = @ + 1] /\ mailbox' = [mailbox EXCEPT ![u] = value[u] + 1]
    BY <1>8, Zenon DEF PublishItem, SubmitRetained
  <2>2. CASE u = t
    <3>1. value'[t] = value[t] + 1 /\ mailbox'[t] = value[t] + 1 /\ retained'[t] = retained[t]
      BY <1>0, <1>2, <1>3, <2>1, <2>2
    <3> QED BY <1>2, <3>1 DEF ValueOrder
  <2>3. CASE u # t
    <3>1. value'[t] = value[t] /\ mailbox'[t] = mailbox[t]
      BY <1>2, <1>3, <2>1, <2>3
    <3> QED BY <1>0, <1>2, <3>1, ValueStays, Zenon
  <2> QED BY <2>2, <2>3
<1>9. CASE PublishOffline
  <2>1. value' = value /\ mailbox' = [mailbox EXCEPT ![Status] = Offline]
    BY <1>9 DEF PublishOffline, SubmitRetained
  <2>2. Status \in Snapshot
    OBVIOUS
  <2> QED BY <1>1, <1>5, <2>1, <2>2, Zenon
<1>10. CASE PublishEvent \/ Stop \/ Joined
  <2>1. UNCHANGED <<value, mailbox>>
    BY <1>10, Zenon DEF PublishEvent, Stop, Joined, sharedVars
  <2> QED BY <1>1, <1>4, <2>1, Zenon
<1> QED BY <1>1, <1>6, <1>7, <1>8, <1>9, <1>10, Zenon DEF MainStep

LEMMA ChanWorker == ASSUME DataTypes, OneInFlight, ChanInv, WorkerStep PROVE ChanInv'
<1>0. /\ UNCHANGED <<value, broker>> /\ value \in [Topics -> Nat] /\ mailbox \in [Topics -> Nat]
      /\ retained \in [Topics -> Nat] /\ snap \in Seq(Snapshot)
  BY Zenon DEF WorkerStep, TakeConnect, CallOnConnect, PublishSnapshot, FlushWaiting, TakeDisconnect, Drain,
               TakeAck, TakeRetained, PopMailbox, TakePublish, WorkerExits, mainVars, netVars, DataTypes, ChanInv
<1>i. ASSUME NEW t \in ItemTopics
      PROVE  /\ FlightOrder(t) /\ ValueOrder(t) /\ t \in Topics /\ t \notin Snapshot /\ t # Status
             /\ retained[t] \in Nat /\ value[t] \in Nat /\ mailbox[t] \in Nat /\ broker[t] \in Nat
             /\ OnWire(t) \subseteq Nat /\ InPaho(t) \subseteq Nat
  BY ItemTypes DEF ChanInv
\* steps that move no value and no packet of a retained topic
<1>1. ASSUME UNCHANGED <<mailbox, retained, outMsgs>>, snap' \in Seq(Snapshot),
             wire' = wire \/ \E e \in Nat : wire' = Append(wire, Packet(EventTopic, e))
      PROVE  ChanInv'
  <2> SUFFICES ASSUME NEW t \in ItemTopics PROVE FlightOrder(t)' /\ ValueOrder(t)'
    BY <1>1, Zenon DEF ChanInv
  <2>1. InPaho(t)' = InPaho(t)
    BY <1>1, ChanNext1, Zenon DEF InPaho
  <2>2. OnWire(t)' = OnWire(t) /\ Growing(wire, OfTopic(t), PayloadOf)'
    <3>1. CASE wire' = wire
      BY <1>i, <3>1, ChanNext1, Zenon DEF OnWire, FlightOrder
    <3>2. ASSUME NEW e \in Nat, wire' = Append(wire, Packet(EventTopic, e))
          PROVE  OnWire(t)' = OnWire(t) /\ Growing(wire, OfTopic(t), PayloadOf)'
      <4> DEFINE p == Packet(EventTopic, e)
      <4>1. p \in Packets /\ p \notin OfTopic(t)
        BY <1>i DEF Packet, Packets, OfTopic
      <4>2. wire \in Seq(Packets) /\ PayloadOf \in [Packets -> Nat] /\ Growing(wire, OfTopic(t), PayloadOf)
        BY <1>i, NumberTypes DEF DataTypes, FlightOrder
      <4> HIDE DEF p
      <4>3. /\ Nums(Append(wire, p), OfTopic(t), PayloadOf) = Nums(wire, OfTopic(t), PayloadOf)
            /\ Growing(Append(wire, p), OfTopic(t), PayloadOf)
        BY <4>1, <4>2, GrowingSkip, Zenon
      <4> QED BY <3>2, <4>3, ChanNext1, Zenon DEF OnWire, p
    <3> QED BY <1>1, <3>1, <3>2
  <2>3. FlightOrder(t)'
    BY <1>0, <1>1, <1>i, <2>1, <2>2, FlightFrame, Zenon
  <2> QED BY <1>0, <1>1, <1>i, <2>3, ValueStays, Zenon
<1>2. CASE TakeConnect \/ TakeDisconnect \/ WorkerExits
  BY <1>0, <1>1, <1>2, Zenon DEF TakeConnect, TakeDisconnect, WorkerExits, sharedVars, netVars
<1>3. CASE CallOnConnect
  <2>1. snap' \in Seq(Snapshot)
    <3>1. SnapshotTopics \in Seq(Snapshot)
      BY DEF Snapshot, Range
    <3>2. <<>> \in Seq(Snapshot)
      OBVIOUS
    <3> QED BY <1>3, <3>1, <3>2 DEF CallOnConnect
  <2> QED BY <1>1, <1>3, <2>1, Zenon DEF CallOnConnect, sharedVars, netVars
<1>4. CASE FlushWaiting
  <2>1. wire' = wire \/ (waiting # <<>> /\ wire' = Append(wire, Packet(EventTopic, Head(waiting))))
    BY <1>4, Zenon DEF FlushWaiting, Deliver
  <2>2. waiting # <<>> => Head(waiting) \in Nat
    BY TailType DEF DataTypes
  <2> QED BY <1>0, <1>1, <1>4, <2>1, <2>2, Zenon DEF FlushWaiting, sharedVars
<1>5. ASSUME NEW e \in 1 .. MaxEvents, TakePublish(e) PROVE ChanInv'
  <2>1. wire' = wire \/ wire' = Append(wire, Packet(EventTopic, e))
    BY <1>5, Zenon DEF TakePublish, Deliver
  <2>2. e \in Nat
    OBVIOUS
  <2> QED BY <1>0, <1>1, <1>5, <2>1, <2>2, Zenon DEF TakePublish
<1>6. ASSUME NEW u \in Topics, TakeAck(u) \/ TakeRetained(u) PROVE ChanInv'
  BY <1>0, <1>1, <1>6, Zenon DEF TakeAck, TakeRetained, netVars
\* the steps that send
<1>7. ASSUME NEW u \in Topics, NEW v \in Nat, MaySend(u), Send(u, v), mailbox' = mailbox,
             snap' \in Seq(Snapshot),
             \A t \in ItemTopics : retained'[t] = retained[t] /\ (u = t => v = retained[t])
      PROVE  ChanInv'
  <2> SUFFICES ASSUME NEW t \in ItemTopics PROVE FlightOrder(t)' /\ ValueOrder(t)'
    BY <1>7, Zenon DEF ChanInv
  <2>1. FlightOrder(t)'
    BY <1>0, <1>7, <1>i, FlightSend, Zenon
  <2> QED BY <1>0, <1>7, <1>i, <2>1, ValueStays, Zenon
<1>8. CASE PublishSnapshot
  <2> DEFINE u == Head(snap)
             v == IF u = Status THEN Online ELSE value[u]
  <2>1. snap # <<>>
    BY <1>8 DEF PublishSnapshot, DataTypes
  <2>2. u \in Snapshot /\ Tail(snap) \in Seq(Snapshot)
    BY <1>0, <2>1, TailType
  <2>3. u \in Topics /\ v \in Nat
    BY <1>0, <2>2, SnapshotTypes
  <2>4. retained' = [retained EXCEPT ![u] = v] /\ snap' = Tail(snap) /\ mailbox' = mailbox
    BY <1>8 DEF PublishSnapshot, sharedVars
  <2>5. \A t \in ItemTopics : retained'[t] = retained[t] /\ u # t
    BY <1>0, <1>i, <2>2, <2>4
  <2>6. (MaySend(u) /\ Send(u, v)) \/ UNCHANGED <<outMsgs, wire>>
    BY <1>8 DEF PublishSnapshot
  <2> HIDE DEF u, v
  <2>7. CASE MaySend(u) /\ Send(u, v)
    BY <1>7, <2>2, <2>3, <2>4, <2>5, <2>7, Zenon
  <2>8. CASE UNCHANGED <<outMsgs, wire>>
    <3> SUFFICES ASSUME NEW t \in ItemTopics PROVE FlightOrder(t)' /\ ValueOrder(t)'
      BY <2>2, <2>4, Zenon DEF ChanInv
    <3>1. OnWire(t)' = OnWire(t) /\ InPaho(t)' = InPaho(t) /\ Growing(wire, OfTopic(t), PayloadOf)'
      BY <1>i, <2>8, ChanNext1, Zenon DEF OnWire, InPaho, FlightOrder
    <3>2. FlightOrder(t)'
      BY <1>0, <1>i, <2>5, <3>1, FlightFrame, Zenon
    <3> QED BY <1>0, <1>i, <2>4, <2>5, <3>2, ValueStays, Zenon
  <2> QED BY <2>6, <2>7, <2>8
<1>9. ASSUME NEW u \in Topics, Drain(u) PROVE ChanInv'
  <2>1. retained[u] \in Nat
    BY <1>0
  <2>2. UNCHANGED <<mailbox, snap, retained>>
    BY <1>9, Zenon DEF Drain, sharedVars
  <2>3. CASE MaySend(u) /\ Send(u, retained[u])
    BY <1>0, <1>7, <2>1, <2>2, <2>3, Zenon
  <2>4. CASE UNCHANGED <<wire, outMsgs>>
    BY <1>0, <1>1, <2>2, <2>4, Zenon
  <2> QED BY <1>9, <2>3, <2>4, Zenon DEF Drain
<1>10. ASSUME NEW u \in Topics, PopMailbox(u) PROVE ChanInv'
  <2>1. /\ mailbox' = [mailbox EXCEPT ![u] = NoValue] /\ UNCHANGED <<snap, wire, outMsgs>>
        /\ retained' = IF mailbox[u] # NoValue THEN [retained EXCEPT ![u] = mailbox[u]] ELSE retained
    BY <1>10 DEF PopMailbox, netVars
  <2> SUFFICES ASSUME NEW t \in ItemTopics PROVE FlightOrder(t)' /\ ValueOrder(t)'
    BY <1>0, <2>1, Zenon DEF ChanInv
  <2>2. OnWire(t)' = OnWire(t) /\ InPaho(t)' = InPaho(t) /\ Growing(wire, OfTopic(t), PayloadOf)'
    BY <1>i, <2>1, ChanNext1, Zenon DEF OnWire, InPaho, FlightOrder
  <2>3. retained[t] <= retained'[t] /\ retained'[t] \in Nat
    BY <1>0, <1>i, <2>1 DEF ValueOrder
  <2>4. FlightOrder(t)'
    <3>1. broker'[t] = broker[t] /\ FlightOrder(t)
      BY <1>0, <1>i
    <3> QED BY <1>i, <2>2, <2>3, <3>1, FlightFacts
  <2>5. ValueOrder(t)'
    BY <1>0, <1>i, <2>1 DEF ValueOrder
  <2> QED BY <2>4, <2>5
<1> QED BY <1>2, <1>3, <1>4, <1>5, <1>6, <1>8, <1>9, <1>10, Zenon DEF WorkerStep

\* What the broker reads is not older than what it holds.
LEMMA ReadForward ==
  ASSUME DataTypes, ChanInv, BrokerRead, NEW t \in ItemTopics
  PROVE  /\ OnWire(t)' \subseteq OnWire(t) /\ Growing(wire, OfTopic(t), PayloadOf)'
         /\ \/ broker'[t] = broker[t]
            \/ broker'[t] \in OnWire(t) /\ NotAfter({broker'[t]}, OnWire(t)')
<1>0. /\ wire # <<>> /\ wire \in Seq(Packets) /\ wire' = Tail(wire) /\ PayloadOf \in [Packets -> Nat]
      /\ Growing(wire, OfTopic(t), PayloadOf) /\ broker \in [Topics -> Nat]
  BY NumberTypes DEF BrokerRead, DataTypes, ChanInv, FlightOrder
<1> DEFINE p == Head(wire)
<1>1. p \in Packets
  BY <1>0, TailType, Zenon
<1>2. /\ Nums(Tail(wire), OfTopic(t), PayloadOf) \subseteq Nums(wire, OfTopic(t), PayloadOf)
      /\ Growing(Tail(wire), OfTopic(t), PayloadOf)
      /\ p \in OfTopic(t) => /\ PayloadOf[p] \in Nums(wire, OfTopic(t), PayloadOf)
                             /\ NotAfter({PayloadOf[p]}, Nums(Tail(wire), OfTopic(t), PayloadOf))
  BY <1>0, GrowingTail, Zenon
<1>3. t \in Topics /\ t # EventTopic
  BY ItemTypes
<1>4. CASE p.topic = t
  <2>1. broker' = [broker EXCEPT ![t] = p.payload]
    BY <1>3, <1>4 DEF BrokerRead
  <2>2. broker'[t] = PayloadOf[p] /\ p \in OfTopic(t)
    BY <1>0, <1>1, <1>3, <1>4, <2>1 DEF PayloadOf, OfTopic, Packets
  <2> HIDE DEF p
  <2> QED BY <1>0, <1>2, <2>2, ChanNext1, Zenon DEF OnWire
<1>5. CASE p.topic # t
  <2>1. broker' = broker \/ broker' = [broker EXCEPT ![p.topic] = p.payload]
    BY DEF BrokerRead
  <2>2. broker'[t] = broker[t]
    BY <1>0, <1>3, <1>5, <2>1
  <2> QED BY <1>0, <1>2, <2>2, ChanNext1, Zenon DEF OnWire
<1> QED BY <1>4, <1>5

LEMMA ChanNet == ASSUME DataTypes, OneInFlight, ChanInv, NetStep PROVE ChanInv'
<1>0. UNCHANGED <<value, mailbox, retained, snap>>
  BY Zenon DEF NetStep, Connect, Drop, BrokerRestart, BrokerRead, BrokerLosesSession, BrokerReadsDisconnect,
               OnPublish, mainVars, sharedVars, workerVars
<1> SUFFICES ASSUME NEW t \in ItemTopics PROVE FlightOrder(t)' /\ ValueOrder(t)'
  BY <1>0, Zenon DEF ChanInv
<1>1. /\ FlightOrder(t) /\ ValueOrder(t) /\ t \in Topics /\ t \notin Snapshot /\ t # Status
      /\ retained[t] \in Nat /\ value[t] \in Nat /\ mailbox[t] \in Nat /\ broker[t] \in Nat
      /\ OnWire(t) \subseteq Nat /\ InPaho(t) \subseteq Nat /\ broker \in [Topics -> Nat]
  BY ItemTypes DEF ChanInv, DataTypes
<1>2. ValueOrder(t)'
  BY <1>0, <1>1, ValueStays, Zenon
<1>3. outMsgs' = outMsgs => InPaho(t)' = InPaho(t)
  BY ChanNext1, Zenon DEF InPaho
<1>4. wire' = wire => OnWire(t)' = OnWire(t) /\ Growing(wire, OfTopic(t), PayloadOf)'
  BY <1>1, ChanNext1, Zenon DEF OnWire, FlightOrder
<1>5. wire' = <<>> => OnWire(t)' = {} /\ Growing(wire, OfTopic(t), PayloadOf)'
  <2>1. Nums(<<>>, OfTopic(t), PayloadOf) = {} /\ Growing(<<>>, OfTopic(t), PayloadOf)
    BY DEF Nums, Growing, Places
  <2> QED BY <2>1, ChanNext1, Zenon
<1>6. CASE Connect
  <2>1. wire' = outMsgs /\ outMsgs' = outMsgs
        /\ (broker' = broker \/ broker' = [broker EXCEPT ![Status] = Offline])
    BY <1>6, Zenon DEF Connect
  <2>2. OnWire(t)' = InPaho(t) /\ InPaho(t)' = InPaho(t) /\ Growing(wire, OfTopic(t), PayloadOf)'
    BY <1>1, <2>1, OneGrowing, ChanNext1, Zenon DEF InPaho
  <2>3. broker'[t] = broker[t]
    BY <1>1, <2>1
  <2>4. \A a, b \in InPaho(t) : a <= b
    <3>1. \A a, b \in InPaho(t) : a = b
      BY <1>1, OneGrowing
    <3> QED BY <1>1, <3>1
  <2> QED BY <1>0, <1>1, <1>2, <2>2, <2>3, <2>4 DEF FlightOrder, NotAfter
<1>7. CASE Drop \/ BrokerReadsDisconnect
  <2>1. UNCHANGED <<wire, broker, outMsgs>>
    BY <1>7, Zenon DEF Drop, BrokerReadsDisconnect
  <2> QED BY <1>0, <1>1, <1>2, <2>1, FlightStays, Zenon
<1>8. CASE BrokerRestart
  <2>1. wire' = <<>> /\ outMsgs' = outMsgs
        /\ (broker' = broker \/ broker' = [u \in DOMAIN broker |-> NoValue])
    BY <1>8, Zenon DEF BrokerRestart
  <2>2. broker'[t] = broker[t] \/ broker'[t] = 0
    BY <1>1, <2>1
  <2> QED BY <1>0, <1>1, <1>2, <1>3, <1>5, <2>1, <2>2, FlightFrame
<1>9. CASE BrokerLosesSession
  <2>1. wire' = <<>> /\ outMsgs' = outMsgs /\ broker' = [broker EXCEPT ![Status] = Offline]
    BY <1>9, Zenon DEF BrokerLosesSession
  <2>2. broker'[t] = broker[t]
    BY <1>1, <2>1
  <2> QED BY <1>0, <1>1, <1>2, <1>3, <1>5, <2>1, <2>2, FlightFrame
<1>10. CASE BrokerRead
  <2>1. outMsgs' = outMsgs
    BY <1>10, Zenon DEF BrokerRead
  <2>2. /\ OnWire(t)' \subseteq OnWire(t) /\ Growing(wire, OfTopic(t), PayloadOf)'
        /\ \/ broker'[t] = broker[t]
           \/ broker'[t] \in OnWire(t) /\ NotAfter({broker'[t]}, OnWire(t)')
    BY <1>10, ReadForward, Zenon
  <2> QED BY <1>0, <1>1, <1>2, <1>3, <2>1, <2>2 DEF FlightOrder, NotAfter
<1>11. CASE OnPublish
  <2>1. wire' = wire /\ broker' = broker /\ \E i \in InFlight(Head(acks)) : outMsgs' = RemoveAt(outMsgs, i)
    BY <1>11, Zenon DEF OnPublish
  <2>2. InPaho(t)' \subseteq InPaho(t)
    <3>1. outMsgs \in Seq(Packets)
      BY DEF DataTypes
    <3>2. \E i \in 1 .. Len(outMsgs) : outMsgs' = RemoveAt(outMsgs, i)
      BY <2>1, <3>1 DEF InFlight
    <3>3. PICK i \in 1 .. Len(outMsgs) : outMsgs' = RemoveAt(outMsgs, i)
      BY <3>2
    <3>4. Nums(RemoveAt(outMsgs, i), OfTopic(t), PayloadOf) \subseteq Nums(outMsgs, OfTopic(t), PayloadOf)
      BY <3>1, NumsRemove
    <3> QED BY <3>3, <3>4, ChanNext1, Zenon DEF InPaho
  <2> QED BY <1>0, <1>1, <1>2, <1>4, <2>1, <2>2, FlightFrame, Zenon
<1> QED BY <1>6, <1>7, <1>8, <1>9, <1>10, <1>11, Zenon DEF NetStep

LEMMA ChanStays == ASSUME DataTypes, OneInFlight, ChanInv, [Next]_vars PROVE ChanInv'
<1>1. CASE DeadlinePasses \/ Terminated \/ UNCHANGED vars
  <2>1. UNCHANGED <<value, mailbox, retained, snap, broker, wire, outMsgs>>
    BY <1>1, Zenon DEF DeadlinePasses, Terminated, vars, mainVars, netVars, workerVars, sharedVars
  <2>2. ASSUME NEW t \in ItemTopics PROVE FlightOrder(t)' /\ ValueOrder(t)'
    BY <2>1, FlightStays, ValueStays, Zenon DEF ChanInv
  <2> QED BY <2>1, <2>2, Zenon DEF ChanInv
<1> QED BY <1>1, ChanMain, ChanWorker, ChanNet, Zenon DEF Next

LEMMA ChanStart == Init => ChanInv
<1> SUFFICES ASSUME Init PROVE ChanInv
  OBVIOUS
<1>1. wire = <<>> /\ outMsgs = <<>> /\ snap = <<>>
  BY DEF Init
<1>2. \A C, f : Nums(<<>>, C, f) = {} /\ Growing(<<>>, C, f)
  BY DEF Nums, Growing, Places
<1>3. \A t : OnWire(t) = {} /\ InPaho(t) = {} /\ Growing(wire, OfTopic(t), PayloadOf)
  BY <1>1, <1>2, Zenon DEF OnWire, InPaho
<1>4. ASSUME NEW t \in ItemTopics PROVE FlightOrder(t) /\ ValueOrder(t)
  <2>1. broker[t] = 0 /\ retained[t] = 0 /\ value[t] = 0 /\ mailbox[t] = 0
    BY DEF Init, ItemTopics
  <2> QED BY <1>3, <2>1 DEF FlightOrder, ValueOrder, NotAfter
<1> QED BY <1>1, <1>4 DEF ChanInv

\* The steps seen by the channel: a new item is published, the broker reads one, or it forgets all.
LEMMA ChanRefines ==
  ASSUME DataTypes, ChanInv, [Next]_vars PROVE [Channel!ChanNext]_Channel!chanVars
<1> DEFINE latest == [t \in ItemTopics |-> value[t]]
           shown  == [t \in ItemTopics |-> broker[t]]
<1>0. value \in [Topics -> Nat] /\ broker \in [Topics -> Nat] /\ ItemTopics \subseteq Topics
  BY DEF DataTypes, ItemTopics
<1>1. ASSUME \A t \in ItemTopics : value'[t] = value[t] /\ broker'[t] = broker[t]
      PROVE  UNCHANGED <<latest, shown>>
  BY <1>1
<1>2. ASSUME NEW u \in Snapshot, UNCHANGED broker, value' = value \/ value' = [value EXCEPT ![u] = @ + 1]
      PROVE  UNCHANGED <<latest, shown>>
  <2>1. \A t \in ItemTopics : t # u
    BY DEF ItemTopics
  <2> QED BY <1>0, <1>1, <1>2, <2>1
<1>3. ASSUME UNCHANGED value, broker' = broker \/ broker' = [broker EXCEPT ![Status] = Offline]
      PROVE  UNCHANGED <<latest, shown>>
  <2>1. \A t \in ItemTopics : t # Status
    BY DEF ItemTopics
  <2> QED BY <1>0, <1>1, <1>3, <2>1
<1>4. CASE DeadlinePasses \/ Terminated \/ UNCHANGED vars \/ WorkerStep
  <2>1. UNCHANGED <<value, broker>>
    BY <1>4, Zenon DEF DeadlinePasses, Terminated, vars, mainVars, netVars, WorkerStep, TakeConnect,
       CallOnConnect, PublishSnapshot, FlushWaiting, TakeDisconnect, Drain, TakeAck, TakeRetained,
       PopMailbox, TakePublish, WorkerExits
  <2> QED BY <1>3, <2>1 DEF Channel!chanVars
<1>5. CASE MainStep
  <2>0. UNCHANGED broker
    BY <1>5, Zenon DEF MainStep, SetState, PublishState, PublishItem, PublishEvent, PublishOffline, Stop, Joined,
                       netVars
  <2>1. ASSUME NEW u \in Topics, PublishItem(u) PROVE Channel!ChanPublish(u) /\ u \in ItemTopics
    <3>1. u \in ItemTopics /\ value' = [value EXCEPT ![u] = @ + 1]
      BY <2>1 DEF PublishItem, ItemTopics
    <3>2. latest' = [latest EXCEPT ![u] = @ + 1] /\ shown' = shown
      BY <1>0, <2>0, <3>1
    <3> QED BY <3>1, <3>2 DEF Channel!ChanPublish
  <2>2. ASSUME NEW u \in Topics, SetState(u) PROVE UNCHANGED <<latest, shown>>
    <3>1. u \in Snapshot /\ value' = [value EXCEPT ![u] = @ + 1]
      BY <2>2 DEF SetState
    <3> HIDE DEF latest, shown
    <3> QED BY <1>2, <2>0, <3>1
  <2>3. ASSUME NEW u \in Topics, PublishState(u) PROVE UNCHANGED <<latest, shown>>
    <3>1. value' = value
      BY <2>3, Zenon DEF PublishState
    <3> QED BY <1>3, <2>0, <3>1
  <2>4. CASE PublishEvent \/ PublishOffline \/ Stop \/ Joined
    <3>1. value' = value
      BY <2>4, Zenon DEF PublishEvent, PublishOffline, Stop, Joined
    <3> QED BY <1>3, <2>0, <3>1 DEF Channel!chanVars
  <2> QED BY <1>5, <2>1, <2>2, <2>3, <2>4 DEF MainStep, Channel!ChanNext, Channel!chanVars
<1>6. CASE Connect \/ Drop \/ BrokerLosesSession \/ BrokerReadsDisconnect \/ OnPublish
  <2>1. UNCHANGED value /\ (broker' = broker \/ broker' = [broker EXCEPT ![Status] = Offline])
    BY <1>6, Zenon DEF Connect, Drop, BrokerLosesSession, BrokerReadsDisconnect, OnPublish, mainVars
  <2> QED BY <1>3, <2>1 DEF Channel!chanVars
<1>7. CASE BrokerRestart
  <2>1. value' = value /\ (broker' = broker \/ broker' = [t \in Topics |-> 0])
    BY <1>0, <1>7 DEF BrokerRestart
  <2>2. CASE broker' = broker
    BY <1>3, <2>1, <2>2 DEF Channel!chanVars
  <2>3. CASE broker' = [t \in Topics |-> 0]
    <3>1. latest' = latest /\ shown' = [t \in ItemTopics |-> 0]
      BY <1>0, <2>1, <2>3
    <3> QED BY <3>1 DEF Channel!ChanForget, Channel!ChanNext
  <2> QED BY <2>1, <2>2, <2>3
<1>8. CASE BrokerRead
  <2> DEFINE p == Head(wire)
  <2>1. /\ value' = value /\ p \in Packets
        /\ broker' = IF p.topic = EventTopic THEN broker ELSE [broker EXCEPT ![p.topic] = p.payload]
    BY <1>8, TailType DEF BrokerRead, mainVars, DataTypes
  <2>2. ASSUME NEW q \in ItemTopics, p.topic = q PROVE Channel!ChanNext
    <3> DEFINE n == p.payload
    <3>1. q \in Topics /\ q # EventTopic /\ n \in Nat
      BY <2>1, <2>2, ItemTypes DEF Packets
    <3>2. broker' = [broker EXCEPT ![q] = n] /\ broker'[q] = n
      BY <1>0, <2>1, <2>2, <3>1
    <3> HIDE DEF n
    <3>3. broker[q] <= n /\ n <= value[q]
      <4>1. FlightOrder(q) /\ ValueOrder(q) /\ retained[q] \in Nat /\ value[q] \in Nat /\ broker[q] \in Nat
            /\ OnWire(q) \subseteq Nat
        BY <3>2, ItemTypes DEF ChanInv
      <4>2. n = broker[q] \/ n \in OnWire(q)
        BY <1>8, <3>2, ReadForward, Zenon
      <4>3. /\ broker[q] <= retained[q] /\ retained[q] <= value[q]
            /\ \A w \in OnWire(q) : broker[q] <= w /\ w <= retained[q]
        BY <4>1, FlightFacts, Zenon DEF ValueOrder
      <4> QED BY <3>1, <4>1, <4>2, <4>3
    <3>4. latest' = latest /\ shown' = [shown EXCEPT ![q] = n]
      BY <1>0, <2>1, <3>2
    <3>5. n \in shown[q] .. latest[q]
      <4>1. shown[q] = broker[q] /\ latest[q] = value[q]
        BY <3>2
      <4> HIDE DEF shown, latest
      <4>2. broker[q] \in Nat /\ value[q] \in Nat
        BY <3>2, ItemTypes
      <4> QED BY <3>1, <3>3, <4>1, <4>2
    <3>6. Channel!ChanShow(q)
      BY <3>4, <3>5, Zenon DEF Channel!ChanShow
    <3> QED BY <3>6 DEF Channel!ChanNext
  <2>3. CASE p.topic \notin ItemTopics
    <3>1. \A t \in ItemTopics : t # p.topic
      BY <2>3
    <3>2. \A t \in ItemTopics : broker'[t] = broker[t] /\ value'[t] = value[t]
      BY <1>0, <2>1, <3>1
    <3> QED BY <1>1, <3>2 DEF Channel!chanVars
  <2> QED BY <2>2, <2>3 DEF Channel!chanVars
<1> QED BY <1>4, <1>5, <1>6, <1>7, <1>8, Zenon DEF Next, NetStep

\* ChannelSpec: the publisher implements RetainedChannel for the topics one thread publishes.
\* Coalescing, retransmission and reconnection keep every copy of a value behind the ones the
\* broker has read, and ahead of the mailbox and of the bridge.
THEOREM Implements == Spec => ChannelSpec
<1>1. Init => Channel!ChanInit
  BY DEF Init, Channel!ChanInit, ItemTopics
<1>2. TypeOK => DataTypes
  BY DEF TypeOK
<1> QED BY <1>1, <1>2, Typing, FlightSafe, ChanStart, ChanStays, ChanRefines, PTL
    DEF Spec, ChannelSpec, Channel!ChanSpec


(***************************************************************************)
(* A clean stop.  Where a sequence ends: its last element in C has the     *)
(* number v, or it has none and v is what was there before.                *)
(***************************************************************************)
LastIs(s, C, f, b, v) ==
  \/ Places(C, s) = {} /\ b = v
  \/ \E i \in Places(C, s) : f[s[i]] = v /\ \A j \in Places(C, s) : j <= i

LEMMA LastSkip ==
  ASSUME NEW S, NEW s \in Seq(S), NEW e \in S, NEW C, e \notin C, NEW f, NEW b, NEW v, LastIs(s, C, f, b, v)
  PROVE  LastIs(Append(s, e), C, f, b, v)
<1> DEFINE a == Append(s, e)
<1>0. /\ Places(C, Append(s, e)) = Places(C, s) \cup (IF e \in C THEN {Len(s) + 1} ELSE {})
      /\ \A i \in Places(C, s) : i \in 1 .. Len(s) /\ Append(s, e)[i] = s[i]
  BY PlacesAppend
<1> HIDE DEF a
<1>1. Places(C, a) = Places(C, s) /\ \A i \in Places(C, s) : a[i] = s[i]
  BY <1>0 DEF a
<1>2. LastIs(a, C, f, b, v)
  BY <1>1, Zenon DEF LastIs
<1> QED BY <1>2 DEF a

LEMMA LastGrow ==
  ASSUME NEW S, NEW s \in Seq(S), NEW e \in S, NEW C, e \in C, NEW f, NEW b
  PROVE  LastIs(Append(s, e), C, f, b, f[e])
<1> DEFINE a == Append(s, e)
           n == Len(s)
<1>0. /\ Len(s) \in Nat
      /\ Places(C, Append(s, e)) = Places(C, s) \cup (IF e \in C THEN {Len(s) + 1} ELSE {})
      /\ \A i \in Places(C, s) : i \in 1 .. Len(s) /\ Append(s, e)[i] = s[i]
      /\ Append(s, e)[Len(s) + 1] = e
  BY PlacesAppend
<1> HIDE DEF a, n
<1>1. /\ n \in Nat /\ Places(C, a) = Places(C, s) \cup {n + 1}
      /\ \A i \in Places(C, s) : i \in 1 .. n
      /\ a[n + 1] = e
  BY <1>0 DEF a, n
<1>2. \A j \in Places(C, a) : j <= n + 1
  BY <1>1
<1>3. LastIs(a, C, f, b, f[e])
  BY <1>1, <1>2 DEF LastIs
<1> QED BY <1>3 DEF a

LEMMA LastTail ==
  ASSUME NEW S, NEW s \in Seq(S), s # <<>>, NEW C, NEW f, NEW b, NEW v, LastIs(s, C, f, b, v)
  PROVE  LastIs(Tail(s), C, f, IF Head(s) \in C THEN f[Head(s)] ELSE b, v)
<1> DEFINE u == Tail(s)
           n == Len(s)
           c == IF Head(s) \in C THEN f[Head(s)] ELSE b
<1>1. /\ n \in Nat /\ n >= 1 /\ DOMAIN s = 1 .. n /\ DOMAIN u = 1 .. (n - 1)
      /\ \A i \in 1 .. (n - 1) : u[i] = s[i + 1]
      /\ Head(s) = s[1]
  BY HeadTailProperties, EmptySeq
<1>c. c = IF s[1] \in C THEN f[s[1]] ELSE b
  BY <1>1
<1> HIDE DEF u, n, c
<1>2. \A i \in Places(C, u) : i \in 1 .. (n - 1) /\ i + 1 \in Places(C, s) /\ u[i] = s[i + 1]
  BY <1>1 DEF Places
<1>3. \A j \in Places(C, s) : j \in 1 .. n /\ (j # 1 => j - 1 \in Places(C, u) /\ u[j - 1] = s[j])
  BY <1>1 DEF Places
<1>4. CASE Places(C, s) = {} /\ b = v
  <2>1. s[1] \notin C
    BY <1>1, <1>4 DEF Places
  <2>2. Places(C, u) = {}
    BY <1>2, <1>4
  <2> QED BY <1>4, <1>c, <2>1, <2>2 DEF LastIs, u, c
<1>5. ASSUME NEW i \in Places(C, s), f[s[i]] = v, \A j \in Places(C, s) : j <= i PROVE LastIs(u, C, f, c, v)
  <2>1. CASE i = 1
    <3>1. Places(C, u) = {}
      <4> SUFFICES ASSUME NEW j \in Places(C, u) PROVE FALSE
        OBVIOUS
      <4>1. j \in 1 .. (n - 1) /\ j + 1 \in Places(C, s)
        BY <1>2
      <4>2. j + 1 <= 1
        BY <1>5, <2>1, <4>1
      <4> QED BY <1>1, <4>1, <4>2
    <3>2. s[1] \in C
      BY <1>5, <2>1 DEF Places
    <3> QED BY <1>5, <1>c, <2>1, <3>1, <3>2 DEF LastIs
  <2>2. CASE i # 1
    <3>1. i - 1 \in Places(C, u) /\ f[u[i - 1]] = v
      BY <1>3, <1>5, <2>2
    <3>2. \A j \in Places(C, u) : j <= i - 1
      <4> SUFFICES ASSUME NEW j \in Places(C, u) PROVE j <= i - 1
        OBVIOUS
      <4>1. j \in 1 .. (n - 1) /\ j + 1 \in Places(C, s) /\ i \in 1 .. n
        BY <1>2, <1>3
      <4>2. j + 1 <= i
        BY <1>5, <4>1
      <4> QED BY <1>1, <4>1, <4>2
    <3> QED BY <3>1, <3>2 DEF LastIs
  <2> QED BY <2>1, <2>2
<1>6. LastIs(u, C, f, c, v)
  BY <1>4, <1>5 DEF LastIs, u, c
<1> QED BY <1>6 DEF u, c

(***************************************************************************)
(* The order of the commands that matter to a stop.                        *)
(***************************************************************************)
Holds(c, d) == \E i \in DOMAIN c : c[i] = d
\* the connection the queue ends with is up
LinkOrder(c) == \A i \in DOMAIN c : c[i] = DisconnectCmd => \E j \in DOMAIN c : i < j /\ c[j] = ConnectCmd
\* the offline status comes after every connection
StatusLast(c) == \A i, j \in DOMAIN c : c[i] = ConnectCmd /\ c[j] = RetainedCmd(Status) => i < j

LEMMA CountHolds ==
  ASSUME NEW c \in Seq(Command), NEW d PROVE CountIn(d, c) \in Nat /\ (CountIn(d, c) = 0 <=> ~Holds(c, d))
<1>1. Among({d}, c) \in Nat /\ (Among({d}, c) = 0 <=> \A i \in 1 .. Len(c) : c[i] \notin {d})
  BY AmongNat
<1>2. DOMAIN c = 1 .. Len(c)
  OBVIOUS
<1>3. (\A i \in 1 .. Len(c) : c[i] \notin {d}) <=> ~Holds(c, d)
  BY <1>2 DEF Holds
<1> QED BY <1>1, <1>3, CountIsAmong, Zenon

LEMMA ConnectHolds ==
  ASSUME DataTypes PROVE ConnectQueued <=> Holds(commands, ConnectCmd)
<1>1. commands \in Seq(Command)
  BY DEF DataTypes
<1>2. CountIn(ConnectCmd, commands) \in Nat /\ (CountIn(ConnectCmd, commands) = 0 <=> ~Holds(commands, ConnectCmd))
  BY <1>1, CountHolds, Zenon
<1> HIDE DEF CountIn
<1> QED BY <1>2 DEF ConnectQueued

LEMMA OrderAppend ==
  ASSUME NEW c \in Seq(Command), NEW d \in Command
  PROVE  /\ \A x : Holds(Append(c, d), x) <=> Holds(c, x) \/ x = d
         /\ LinkOrder(c) /\ d # DisconnectCmd => LinkOrder(Append(c, d))
         /\ d = ConnectCmd => LinkOrder(Append(c, d))
         /\ StatusLast(c) /\ d # ConnectCmd => StatusLast(Append(c, d))
<1> DEFINE a == Append(c, d)
           n == Len(c)
<1>1. /\ n \in Nat /\ DOMAIN c = 1 .. n /\ DOMAIN a = 1 .. (n + 1)
      /\ \A i \in 1 .. n : a[i] = c[i]
      /\ a[n + 1] = d
  BY AppendProperties
<1> HIDE DEF a, n
<1>2. \A x : Holds(a, x) <=> Holds(c, x) \/ x = d
  BY <1>1 DEF Holds
<1>3. ConnectCmd # DisconnectCmd
  BY DEF ConnectCmd, DisconnectCmd
<1>4. LinkOrder(c) /\ d # DisconnectCmd => LinkOrder(a)
  BY <1>1 DEF LinkOrder
<1>5. d = ConnectCmd => LinkOrder(a)
  BY <1>1, <1>3 DEF LinkOrder
<1>6. StatusLast(c) /\ d # ConnectCmd => StatusLast(a)
  BY <1>1 DEF StatusLast
<1> QED BY <1>2, <1>4, <1>5, <1>6 DEF a

LEMMA OrderTail ==
  ASSUME NEW c \in Seq(Command), c # <<>>
  PROVE  /\ \A x : Holds(Tail(c), x) => Holds(c, x)
         /\ \A x : Holds(c, x) /\ Head(c) # x => Holds(Tail(c), x)
         /\ LinkOrder(c) => LinkOrder(Tail(c)) /\ (Head(c) = DisconnectCmd => Holds(Tail(c), ConnectCmd))
         /\ StatusLast(c) => StatusLast(Tail(c)) /\ (Head(c) = RetainedCmd(Status) => ~Holds(Tail(c), ConnectCmd))
<1> DEFINE u == Tail(c)
           n == Len(c)
<1>1. /\ n \in Nat /\ n >= 1 /\ DOMAIN c = 1 .. n /\ DOMAIN u = 1 .. (n - 1)
      /\ \A i \in 1 .. (n - 1) : u[i] = c[i + 1]
      /\ Head(c) = c[1]
  BY HeadTailProperties, EmptySeq
<1> HIDE DEF u, n
<1>2. \A i \in DOMAIN u : i \in Nat /\ i >= 1 /\ i + 1 \in DOMAIN c /\ u[i] = c[i + 1]
  BY <1>1
<1>3. \A j \in DOMAIN c : j \in Nat /\ (j # 1 => j - 1 \in DOMAIN u /\ u[j - 1] = c[j])
  BY <1>1
<1>4. \A x : Holds(u, x) => Holds(c, x)
  BY <1>2 DEF Holds
<1>5. \A x : Holds(c, x) /\ Head(c) # x => Holds(u, x)
  BY <1>1, <1>3 DEF Holds
<1>6. ASSUME LinkOrder(c) PROVE LinkOrder(u) /\ (Head(c) = DisconnectCmd => Holds(u, ConnectCmd))
  <2>1. ASSUME NEW i \in DOMAIN u, u[i] = DisconnectCmd PROVE \E j \in DOMAIN u : i < j /\ u[j] = ConnectCmd
    <3>1. i \in Nat /\ i >= 1 /\ i + 1 \in DOMAIN c /\ c[i + 1] = DisconnectCmd
      BY <1>2, <2>1
    <3>2. PICK j \in DOMAIN c : i + 1 < j /\ c[j] = ConnectCmd
      BY <1>6, <3>1 DEF LinkOrder
    <3>3. j \in Nat /\ j # 1 /\ i < j - 1
      BY <1>3, <3>1, <3>2
    <3> QED BY <1>3, <3>2, <3>3
  <2>2. ASSUME Head(c) = DisconnectCmd PROVE Holds(u, ConnectCmd)
    <3>1. 1 \in DOMAIN c /\ c[1] = DisconnectCmd
      BY <1>1, <2>2
    <3>2. PICK j \in DOMAIN c : 1 < j /\ c[j] = ConnectCmd
      BY <1>6, <3>1 DEF LinkOrder
    <3> QED BY <1>3, <3>2 DEF Holds
  <2> QED BY <2>1, <2>2 DEF LinkOrder
<1>7. ASSUME StatusLast(c) PROVE StatusLast(u) /\ (Head(c) = RetainedCmd(Status) => ~Holds(u, ConnectCmd))
  <2>1. ASSUME NEW i \in DOMAIN u, NEW j \in DOMAIN u, u[i] = ConnectCmd, u[j] = RetainedCmd(Status) PROVE i < j
    <3>1. i + 1 < j + 1 /\ i \in Nat /\ j \in Nat
      BY <1>2, <1>7, <2>1 DEF StatusLast
    <3> QED BY <3>1
  <2>2. ASSUME Head(c) = RetainedCmd(Status), NEW i \in DOMAIN u, u[i] = ConnectCmd PROVE FALSE
    <3>1. 1 \in DOMAIN c /\ c[1] = RetainedCmd(Status) /\ i + 1 \in DOMAIN c /\ c[i + 1] = ConnectCmd /\ i \in Nat
      BY <1>1, <1>2, <2>2
    <3>2. i + 1 < 1
      BY <1>7, <3>1 DEF StatusLast
    <3> QED BY <3>1, <3>2
  <2> QED BY <2>1, <2>2 DEF StatusLast, Holds
<1> QED BY <1>4, <1>5, <1>6, <1>7 DEF u


Pending == Holds(commands, ConnectCmd)
Ends    == LinkOrder(commands)
After   == StatusLast(commands)
PlainCmds == Command \ {ConnectCmd, DisconnectCmd}

LEMMA QueueNext ==
  /\ Pending' <=> Holds(commands', ConnectCmd)
  /\ Ends' <=> LinkOrder(commands')
  /\ After' <=> StatusLast(commands')
BY Zenon DEF Pending, Ends, After, Holds, LinkOrder, StatusLast, ConnectCmd, DisconnectCmd, RetainedCmd

LEMMA QueueSame == commands' = commands => (Pending' <=> Pending) /\ (Ends' <=> Ends) /\ (After' <=> After)
BY QueueNext, Zenon DEF Pending, Ends, After

LEMMA QueuePlain ==
  ASSUME DataTypes, Enqueues(PlainCmds)
  PROVE  (Pending' <=> Pending) /\ (Ends => Ends') /\ (After => After')
<1>1. CASE commands' = commands
  BY <1>1, QueueSame, Zenon
<1>2. ASSUME NEW d \in PlainCmds, commands' = Append(commands, d)
      PROVE  (Pending' <=> Pending) /\ (Ends => Ends') /\ (After => After')
  <2>1. commands \in Seq(Command) /\ d \in Command /\ d # ConnectCmd /\ d # DisconnectCmd
    BY DEF DataTypes, PlainCmds
  <2>2. /\ Holds(Append(commands, d), ConnectCmd) <=> Holds(commands, ConnectCmd) \/ ConnectCmd = d
        /\ LinkOrder(commands) => LinkOrder(Append(commands, d))
        /\ StatusLast(commands) => StatusLast(Append(commands, d))
    BY <2>1, OrderAppend, Zenon
  <2> QED BY <1>2, <2>1, <2>2, QueueNext, Zenon DEF Pending, Ends, After
<1> QED BY <1>1, <1>2, Zenon DEF Enqueues

LEMMA QueueConnect ==
  ASSUME DataTypes, commands' = Append(commands, ConnectCmd) PROVE Pending' /\ Ends'
<1>1. commands \in Seq(Command)
  BY DEF DataTypes
<1>2. Holds(Append(commands, ConnectCmd), ConnectCmd) /\ LinkOrder(Append(commands, ConnectCmd))
  BY <1>1, CommandTypes, OrderAppend, Zenon
<1> QED BY <1>2, QueueNext, Zenon

LEMMA QueueTake ==
  ASSUME DataTypes, commands # <<>>, commands' = Tail(commands)
  PROVE  /\ Pending' => Pending
         /\ Head(commands) # ConnectCmd => (Pending' <=> Pending)
         /\ Ends => Ends' /\ (Head(commands) = DisconnectCmd => Pending')
         /\ After => After' /\ (Head(commands) = RetainedCmd(Status) => ~Pending')
<1>1. commands \in Seq(Command)
  BY DEF DataTypes
<1>2. /\ Holds(Tail(commands), ConnectCmd) => Holds(commands, ConnectCmd)
      /\ Holds(commands, ConnectCmd) /\ Head(commands) # ConnectCmd => Holds(Tail(commands), ConnectCmd)
      /\ LinkOrder(commands) => LinkOrder(Tail(commands))
                                /\ (Head(commands) = DisconnectCmd => Holds(Tail(commands), ConnectCmd))
      /\ StatusLast(commands) => StatusLast(Tail(commands))
                                 /\ (Head(commands) = RetainedCmd(Status) => ~Holds(Tail(commands), ConnectCmd))
  BY <1>1, OrderTail, Zenon
<1> QED BY <1>2, QueueNext, Zenon DEF Pending, Ends, After

LEMMA PlainTypes ==
  /\ \A t \in Topics : AckCmd(t) \in PlainCmds /\ RetainedCmd(t) \in PlainCmds
  /\ \A e \in Nat : PublishCmd(e) \in PlainCmds
  /\ ConnectCmd # DisconnectCmd
BY CommandTypes DEF PlainCmds, ConnectCmd, DisconnectCmd, AckCmd, RetainedCmd, PublishCmd

LEMMA MainQueue ==
  ASSUME DataTypes, MainStep PROVE Enqueues(PlainCmds) /\ (stopping => commands' = commands)
<1>1. ASSUME NEW u \in Topics, NEW v, SubmitRetained(u, v)
      PROVE  Enqueues(PlainCmds) /\ (stopping => commands' = commands)
  BY <1>1, PlainTypes, Zenon DEF SubmitRetained, Enqueues
<1>2. ASSUME NEW u \in Topics, SetState(u) \/ PublishState(u) \/ PublishItem(u)
      PROVE  Enqueues(PlainCmds) /\ (stopping => commands' = commands)
  BY <1>1, <1>2, Zenon DEF SetState, PublishState, PublishItem, sharedVars, Enqueues
<1>3. CASE PublishOffline
  BY <1>1, <1>3, SnapshotTypes, Zenon DEF PublishOffline
<1>4. CASE PublishEvent
  <2>1. issued + 1 \in Nat
    BY DEF DataTypes
  <2> QED BY <1>4, <2>1, PlainTypes, Zenon DEF PublishEvent, Enqueues
<1>5. CASE Stop \/ Joined
  BY <1>5, Zenon DEF Stop, Joined, sharedVars, Enqueues
<1> QED BY <1>2, <1>3, <1>4, <1>5, Zenon DEF MainStep

LEMMA WorkerQuiet ==
  ASSUME WorkerStep
  PROVE  UNCHANGED <<main, value, unsent, issued, steady, stopping, late, link, connects, acks, session, broker, seen>>
BY Zenon DEF WorkerStep, TakeConnect, CallOnConnect, PublishSnapshot, FlushWaiting, TakeDisconnect, Drain,
             TakeAck, TakeRetained, PopMailbox, TakePublish, WorkerExits, mainVars, sharedVars, netVars

LEMMA WorkerTakes ==
  ASSUME WorkerStep
  PROVE  \/ commands' = commands /\ connected' = connected
         \/ commands # <<>> /\ commands' = Tail(commands) /\ Head(commands) = ConnectCmd /\ connected' = TRUE
         \/ commands # <<>> /\ commands' = Tail(commands) /\ Head(commands) = DisconnectCmd
         \/ commands # <<>> /\ commands' = Tail(commands) /\ Head(commands) # ConnectCmd /\ connected' = connected
<1>1. CASE CallOnConnect \/ PublishSnapshot \/ FlushWaiting \/ WorkerExits
  BY <1>1, Zenon DEF CallOnConnect, PublishSnapshot, FlushWaiting, WorkerExits, sharedVars
<1>2. ASSUME NEW t \in Topics, Drain(t) \/ PopMailbox(t) PROVE commands' = commands /\ connected' = connected
  BY <1>2, Zenon DEF Drain, PopMailbox, sharedVars
<1>3. CASE TakeConnect \/ TakeDisconnect
  BY <1>3, Zenon DEF TakeConnect, TakeDisconnect, CanTake
<1>4. ASSUME NEW t \in Topics, TakeAck(t) \/ TakeRetained(t)
      PROVE  commands # <<>> /\ commands' = Tail(commands) /\ Head(commands) # ConnectCmd /\ connected' = connected
  BY <1>4, PlainTypes, Zenon DEF TakeAck, TakeRetained, CanTake, PlainCmds
<1>5. ASSUME NEW e \in 1 .. MaxEvents, TakePublish(e)
      PROVE  commands # <<>> /\ commands' = Tail(commands) /\ Head(commands) # ConnectCmd /\ connected' = connected
  <2>1. e \in Nat
    OBVIOUS
  <2> QED BY <1>5, <2>1, PlainTypes, Zenon DEF TakePublish, CanTake, PlainCmds
<1> QED BY <1>1, <1>2, <1>3, <1>4, <1>5, Zenon DEF WorkerStep

(***************************************************************************)
(* The invariant of a clean stop, part by part.                            *)
(***************************************************************************)
\* While the link is up, what is queued ends with connected being true.
LinkOK ==
  /\ link = "up" => session
  /\ link = "up" \/ steady => Ends /\ (connected \/ Pending)

\* How far shutdown() is.
SteadyOK ==
  /\ stopping <=> main \in {"joining", "done"}
  /\ main # "running" => unsent = {}
  /\ main = "running" => mailbox[Status] = NoValue /\ ~steady
  /\ steady => \/ main # "done" /\ link = "up"
               \/ main = "done" /\ link = "closing" /\ session
               \/ main = "done" /\ link = "closed" /\ ~session /\ wire = <<>>
  /\ main = "done" /\ ~late => worker = "exited"

\* No connection announces the bridge online after the offline status.
StatusOK ==
  steady =>
    \/ /\ mailbox[Status] = Offline /\ After
       /\ worker = "pop" /\ Status \in todo => ~Pending
    \/ /\ mailbox[Status] = NoValue /\ retained[Status] = Offline /\ ~Pending
       /\ worker \notin {"connected", "snapshot"}

\* A published value waits in the mailbox or has reached _retained.
ValueOK ==
  \A t \in Topics \ ({Status} \cup unsent) :
    IF mailbox[t] = NoValue THEN t \in Known => retained[t] = value[t] ELSE mailbox[t] = value[t]

\* A clean topic is on its way: the last packet of the connection carries what is retained.
Arrives(t, v) == LastIs(wire, OfTopic(t), PayloadOf, broker[t], v)
SentOK ==
  connected /\ ~Pending /\ (link = "up" \/ (steady /\ ~late)) =>
     \A t \in Known \ dirty : Arrives(t, retained[t])

\* The worker leaves nothing behind.
ExitOK ==
  /\ worker = "exited" => stopping
  /\ worker = "exited" /\ steady /\ ~late =>
       commands = <<>> /\ connected /\ outstanding = {} /\ dirty \cap Known = {}

LEMMA LinkStep == ASSUME DataTypes, LinkOK, [Next]_vars PROVE LinkOK'
<1>1. CASE DeadlinePasses \/ Terminated \/ UNCHANGED vars
  <2>1. UNCHANGED <<link, session, steady, connected, commands>>
    BY <1>1, Zenon DEF DeadlinePasses, Terminated, vars, mainVars, sharedVars, workerVars, netVars
  <2> QED BY <2>1, QueueSame, Zenon DEF LinkOK
<1>2. CASE MainStep
  <2>1. (Pending' <=> Pending) /\ (Ends => Ends')
    BY <1>2, MainQueue, QueuePlain, Zenon
  <2>2. /\ UNCHANGED <<session, connected>> /\ (link' = "up" => link = "up")
        /\ (steady' => steady \/ link = "up")
    <3>1. ASSUME NEW u \in Topics, SetState(u) \/ PublishState(u) \/ PublishItem(u)
          PROVE  UNCHANGED <<session, connected, link, steady>>
      BY <3>1, Zenon DEF SetState, PublishState, PublishItem, netVars, workerVars
    <3>2. CASE PublishEvent \/ Stop
      <4>1. UNCHANGED <<session, connected, link, steady>>
        BY <3>2, Zenon DEF PublishEvent, Stop, netVars, workerVars
      <4> QED BY <4>1, Zenon
    <3>3. CASE PublishOffline
      BY <3>3, Zenon DEF PublishOffline, netVars, workerVars
    <3>4. CASE Joined
      BY <3>4 DEF Joined, workerVars
    <3> QED BY <1>2, <3>1, <3>2, <3>3, <3>4, Zenon DEF MainStep
  <2> QED BY <2>1, <2>2, Zenon DEF LinkOK
<1>3. CASE WorkerStep
  <2>1. UNCHANGED <<link, session, steady>>
    BY <1>3, WorkerQuiet, Zenon
  <2>2. CASE commands' = commands /\ connected' = connected
    BY <2>1, <2>2, QueueSame, Zenon DEF LinkOK
  <2>3. CASE commands # <<>> /\ commands' = Tail(commands) /\ Head(commands) = ConnectCmd /\ connected' = TRUE
    BY <2>1, <2>3, QueueTake, Zenon DEF LinkOK
  <2>4. CASE commands # <<>> /\ commands' = Tail(commands) /\ Head(commands) = DisconnectCmd
    BY <2>1, <2>4, QueueTake, Zenon DEF LinkOK
  <2>5. CASE commands # <<>> /\ commands' = Tail(commands) /\ Head(commands) # ConnectCmd /\ connected' = connected
    BY <2>1, <2>5, QueueTake, Zenon DEF LinkOK
  <2> QED BY <1>3, <2>2, <2>3, <2>4, <2>5, WorkerTakes, Zenon
<1>4. CASE NetStep
  <2>1. connected' = connected
    BY <1>4, Zenon DEF NetStep, Connect, Drop, BrokerRestart, BrokerRead, BrokerLosesSession,
                       BrokerReadsDisconnect, OnPublish, workerVars
  <2>2. CASE Connect
    BY <2>1, <2>2, QueueConnect, Zenon DEF LinkOK, Connect
  <2>3. CASE Drop \/ BrokerRestart
    <3>1. link' # "up" /\ steady' = FALSE
      BY <2>3 DEF Drop, BrokerRestart, Disconnected
    <3> QED BY <3>1, Zenon DEF LinkOK
  <2>4. CASE BrokerRead
    <3>1. UNCHANGED <<link, session, steady, commands>>
      BY <2>4, Zenon DEF BrokerRead, mainVars, sharedVars
    <3> QED BY <2>1, <3>1, QueueSame, Zenon DEF LinkOK
  <2>5. CASE BrokerLosesSession
    <3>1. link # "up" /\ UNCHANGED <<link, steady, commands>>
      BY <2>5 DEF BrokerLosesSession, mainVars, sharedVars
    <3> QED BY <2>1, <3>1, QueueSame, Zenon DEF LinkOK
  <2>6. CASE BrokerReadsDisconnect
    <3>1. link' # "up" /\ UNCHANGED <<steady, commands>>
      BY <2>6 DEF BrokerReadsDisconnect, mainVars, sharedVars
    <3> QED BY <2>1, <3>1, QueueSame, Zenon DEF LinkOK
  <2>7. CASE OnPublish
    <3>1. UNCHANGED <<link, session, steady>> /\ commands' = Append(commands, AckCmd(Head(acks))) /\ acks # <<>>
      BY <2>7, Zenon DEF OnPublish, mainVars
    <3>2. Head(acks) \in Topics
      BY <3>1, TailType DEF DataTypes
    <3>3. Enqueues(PlainCmds)
      BY <3>1, <3>2, PlainTypes, Zenon DEF Enqueues
    <3> QED BY <2>1, <3>1, <3>3, QueuePlain, Zenon DEF LinkOK
  <2> QED BY <1>4, <2>2, <2>3, <2>4, <2>5, <2>6, <2>7, Zenon DEF NetStep
<1> QED BY <1>1, <1>2, <1>3, <1>4, Zenon DEF Next

LEMMA SteadyStep == ASSUME DataTypes, MailboxInv, LinkOK, SteadyOK, ExitOK, [Next]_vars PROVE SteadyOK'
<1>0. mailbox \in [Topics -> Nat] /\ Status \in Topics /\ Status \in Snapshot /\ Status \notin unsent
  BY SnapshotTypes DEF DataTypes, MailboxInv, CollectOK
<1>1. CASE Terminated \/ UNCHANGED vars \/ DeadlinePasses
  <2>1. UNCHANGED <<mainVars, stopping, mailbox, link, session, wire, worker>> /\ (late => late')
    BY <1>1 DEF Terminated, DeadlinePasses, vars, sharedVars, workerVars, netVars
  <2> QED BY <2>1 DEF SteadyOK, mainVars
<1>2. CASE MainStep
  <2>1. ASSUME NEW u \in Topics, SetState(u) PROVE SteadyOK'
    <3>1. main = "running" /\ UNCHANGED <<main, steady, stopping, late, mailbox, link, session, wire, worker>>
      BY <2>1, Zenon DEF SetState, sharedVars, workerVars, netVars
    <3> QED BY <3>1 DEF SteadyOK
  <2>2. ASSUME NEW u \in Topics \ {Status}, NEW v, SubmitRetained(u, v), main = "running",
               UNCHANGED <<main, steady, workerVars, netVars>>
        PROVE  SteadyOK'
    <3>1. mailbox'[Status] = mailbox[Status] /\ UNCHANGED <<stopping, late>>
      BY <1>0, <2>2 DEF SubmitRetained
    <3> QED BY <2>2, <3>1 DEF SteadyOK, workerVars, netVars
  <2>3. ASSUME NEW u \in Topics, PublishState(u) \/ PublishItem(u) PROVE SteadyOK'
    <3>1. u # Status
      BY <1>0, <2>3 DEF PublishState, PublishItem
    <3> QED BY <2>2, <2>3, <3>1, Zenon DEF PublishState, PublishItem
  <2>4. CASE PublishEvent
    <3>1. main = "running" /\ UNCHANGED <<main, steady, stopping, late, mailbox, link, session, wire, worker>>
      BY <2>4, Zenon DEF PublishEvent, workerVars, netVars
    <3> QED BY <3>1 DEF SteadyOK
  <2>5. CASE PublishOffline
    <3>1. /\ main = "running" /\ main' = "offline" /\ unsent' = {} /\ steady' = (link = "up")
          /\ UNCHANGED <<stopping, link, session>>
      BY <2>5 DEF PublishOffline, SubmitRetained, netVars
    <3> QED BY <3>1 DEF SteadyOK
  <2>6. CASE Stop
    BY <2>6 DEF Stop, SteadyOK, workerVars, netVars
  <2>7. CASE Joined
    <3>1. /\ main = "joining" /\ (worker = "exited" \/ late) /\ main' = "done"
          /\ link' = IF link = "up" THEN "closing" ELSE "closed"
          /\ UNCHANGED <<unsent, steady, stopping, late, mailbox, worker, wire, session>>
      BY <2>7, Zenon DEF Joined, sharedVars, workerVars
    <3> QED BY <3>1 DEF SteadyOK, LinkOK
  <2> QED BY <1>2, <2>1, <2>3, <2>4, <2>5, <2>6, <2>7, Zenon DEF MainStep
<1>3. CASE WorkerStep
  <2>1. UNCHANGED <<main, unsent, steady, stopping, late, link, session>>
    BY <1>3, WorkerQuiet, Zenon
  <2>2. mailbox[Status] = NoValue => mailbox'[Status] = NoValue
    <3>1. ASSUME NEW u \in Topics, PopMailbox(u) PROVE mailbox[Status] = NoValue => mailbox'[Status] = NoValue
      BY <1>0, <3>1 DEF PopMailbox
    <3>2. CASE \A u \in Topics : ~PopMailbox(u)
      BY <1>3, <3>2, Zenon DEF WorkerStep, TakeConnect, CallOnConnect, PublishSnapshot, FlushWaiting,
         TakeDisconnect, Drain, TakeAck, TakeRetained, TakePublish, WorkerExits, sharedVars
    <3> QED BY <3>1, <3>2
  <2>3. worker # "exited"
    BY <1>3 DEF WorkerStep, TakeConnect, CallOnConnect, PublishSnapshot, FlushWaiting, TakeDisconnect, Drain,
         TakeAck, TakeRetained, PopMailbox, TakePublish, WorkerExits, CanTake
  <2>4. main = "done" => late
    BY <2>3 DEF SteadyOK
  <2>5. link # "up" => wire' = wire
    BY <1>3, Zenon DEF WorkerStep, TakeConnect, CallOnConnect, PublishSnapshot, FlushWaiting, TakeDisconnect,
       Drain, TakeAck, TakeRetained, PopMailbox, TakePublish, WorkerExits, Send, Deliver, netVars
  <2>6. link = "closed" => link # "up"
    OBVIOUS
  <2> QED BY <2>1, <2>2, <2>3, <2>4, <2>5, <2>6 DEF SteadyOK
<1>4. CASE NetStep
  <2>1. UNCHANGED <<main, unsent, stopping, late, mailbox, worker>>
    BY <1>4, Zenon DEF NetStep, Connect, Drop, BrokerRestart, BrokerRead, BrokerLosesSession,
                       BrokerReadsDisconnect, OnPublish, mainVars, sharedVars, workerVars, Disconnected
  <2>2. CASE Connect
    <3>1. link = "down" /\ steady' = steady
      BY <2>2, Zenon DEF Connect, mainVars
    <3> QED BY <2>1, <3>1 DEF SteadyOK
  <2>3. CASE Drop \/ BrokerRestart
    <3>1. steady' = FALSE
      BY <2>3, Zenon DEF Drop, BrokerRestart, Disconnected
    <3> QED BY <2>1, <3>1 DEF SteadyOK
  <2>4. CASE BrokerRead \/ OnPublish
    <3>1. UNCHANGED <<link, session, steady>> /\ (wire = <<>> => wire' = <<>>)
      BY <2>4, Zenon DEF BrokerRead, OnPublish, mainVars
    <3> QED BY <2>1, <3>1 DEF SteadyOK
  <2>5. CASE BrokerLosesSession
    <3>1. link \in {"down", "closed"} /\ session /\ steady' = steady
      BY <2>5, Zenon DEF BrokerLosesSession, mainVars
    <3> QED BY <2>1, <3>1 DEF SteadyOK
  <2>6. CASE BrokerReadsDisconnect
    <3>1. /\ link = "closing" /\ wire = <<>> /\ link' = "closed" /\ session' = FALSE
          /\ UNCHANGED <<steady, wire>>
      BY <2>6, Zenon DEF BrokerReadsDisconnect, mainVars
    <3> QED BY <2>1, <3>1 DEF SteadyOK
  <2> QED BY <1>4, <2>2, <2>3, <2>4, <2>5, <2>6, Zenon DEF NetStep
<1> QED BY <1>1, <1>2, <1>3, <1>4, Zenon DEF Next


\* Every worker step but PopMailbox and PublishSnapshot leaves the values alone.
LEMMA ValuesKept ==
  ASSUME WorkerStep, \A t \in Topics : ~PopMailbox(t), ~PublishSnapshot PROVE UNCHANGED <<mailbox, retained>>
BY Zenon DEF WorkerStep, TakeConnect, CallOnConnect, FlushWaiting, TakeDisconnect, Drain, TakeAck, TakeRetained,
             TakePublish, WorkerExits, sharedVars

LEMMA PopValues ==
  ASSUME DataTypes, MailboxInv, NEW t \in Topics, PopMailbox(t)
  PROVE  /\ worker = "pop" /\ todo = {t} /\ worker' \in {"take", "drain"}
         /\ mailbox' = [mailbox EXCEPT ![t] = NoValue] /\ commands' = commands
         /\ retained' = IF mailbox[t] # NoValue THEN [retained EXCEPT ![t] = mailbox[t]] ELSE retained
         /\ dirty' = IF mailbox[t] # NoValue THEN dirty \cup {t} ELSE dirty
BY DEF PopMailbox, DrainNext, MailboxInv, CollectOK

LEMMA SnapshotValues ==
  ASSUME DataTypes, PublishSnapshot
  PROVE  \E t \in Topics, v \in Nat :
           /\ v = IF t = Status THEN Online ELSE value[t]
           /\ retained' = [retained EXCEPT ![t] = v]
           /\ UNCHANGED <<mailbox, commands, connected>>
           /\ (MaySend(t) /\ Send(t, v)) \/ (dirty' = dirty \cup {t} /\ wire' = wire)
<1> DEFINE t == Head(snap)
           v == IF t = Status THEN Online ELSE value[t]
<1>1. t \in Topics
  BY TailType DEF PublishSnapshot, DataTypes
<1>2. v \in Nat
  BY <1>1 DEF DataTypes
<1>3. /\ retained' = [retained EXCEPT ![t] = v] /\ UNCHANGED <<mailbox, commands, connected>>
      /\ (MaySend(t) /\ Send(t, v)) \/ (dirty' = dirty \cup {t} /\ wire' = wire)
  BY DEF PublishSnapshot, sharedVars
<1> HIDE DEF t
<1> QED BY <1>1, <1>2, <1>3

LEMMA StatusStep == ASSUME DataTypes, MailboxInv, SteadyOK, SteadyOK', StatusOK, [Next]_vars PROVE StatusOK'
<1>0. /\ mailbox \in [Topics -> Nat] /\ retained \in [Topics -> Nat] /\ commands \in Seq(Command)
      /\ Status \in Topics /\ Status \in Snapshot
  BY SnapshotTypes DEF DataTypes
<1>1. CASE DeadlinePasses \/ Terminated \/ UNCHANGED vars
  <2>1. UNCHANGED <<steady, mailbox, commands, worker, todo, retained>>
    BY <1>1, Zenon DEF DeadlinePasses, Terminated, vars, mainVars, sharedVars, workerVars
  <2> QED BY <2>1, QueueSame, Zenon DEF StatusOK
<1>2. CASE MainStep
  <2>1. ASSUME ~PublishOffline, steady' PROVE StatusOK'
    <3>1. steady /\ main # "running"
      <4>1. steady
        BY <1>2, <2>1, Zenon DEF MainStep, SetState, PublishState, PublishItem, PublishEvent, Stop, Joined
      <4> QED BY <4>1 DEF SteadyOK
    <3>2. UNCHANGED <<mailbox, commands, worker, todo, retained>>
      <4>1. CASE Stop \/ Joined
        BY <4>1, Zenon DEF Stop, Joined, sharedVars, workerVars
      <4>2. Stop \/ Joined
        BY <1>2, <2>1, <3>1, Zenon DEF MainStep, SetState, PublishState, PublishItem, PublishEvent
      <4> QED BY <4>1, <4>2
    <3> QED BY <3>1, <3>2, QueueSame, Zenon DEF StatusOK
  <2>2. CASE PublishOffline
    <3>1. /\ main = "running" /\ mailbox'[Status] = Offline /\ commands' = Append(commands, RetainedCmd(Status))
          /\ UNCHANGED <<worker, todo>>
      <4>1. mailbox[Status] = NoValue /\ main = "running"
        BY <2>2, Zenon DEF PublishOffline, SteadyOK
      <4> QED BY <1>0, <2>2, <4>1 DEF PublishOffline, SubmitRetained, First, workerVars
    <3>2. Backed(Status) /\ mailbox[Status] = NoValue
      BY <1>0, <3>1, BackedDef, Zenon DEF MailboxInv, SteadyOK
    <3>3. CountIn(RetainedCmd(Status), commands) \in Nat /\ Taken(Status) \in {0, 1}
      BY <1>0, CountHolds, Zenon DEF Taken
    <3>4. CountIn(RetainedCmd(Status), commands) = 0 /\ Taken(Status) = 0
      <4> HIDE DEF CountIn, Taken
      <4> QED BY <3>2, <3>3 DEF Backed
    <3>5. ~Holds(commands, RetainedCmd(Status))
      BY <1>0, <3>4, CountHolds, Zenon
    <3>6. StatusLast(commands)
      BY <3>5, Zenon DEF StatusLast, Holds
    <3>7. After'
      <4>1. RetainedCmd(Status) \in Command /\ RetainedCmd(Status) # ConnectCmd
        BY <1>0, PlainTypes, Zenon DEF PlainCmds
      <4>2. StatusLast(Append(commands, RetainedCmd(Status)))
        BY <1>0, <3>6, <4>1, OrderAppend, Zenon
      <4> QED BY <3>1, <4>2, QueueNext, Zenon
    <3>8. ~(worker' = "pop" /\ Status \in todo')
      BY <3>1, <3>4 DEF Taken
    <3> QED BY <3>1, <3>7, <3>8 DEF StatusOK
  <2> QED BY <2>1, <2>2, Zenon DEF StatusOK
<1>3. CASE WorkerStep
  <2> SUFFICES ASSUME steady PROVE StatusOK'
    <3>1. steady' = steady
      BY <1>3, WorkerQuiet, Zenon
    <3> QED BY <3>1, Zenon DEF StatusOK
  <2>1. ASSUME NEW u \in Topics, PopMailbox(u) PROVE StatusOK'
    <3>1. (Pending' <=> Pending) /\ (After' <=> After) /\ worker' # "pop"
          /\ worker' \notin {"connected", "snapshot"}
      BY <2>1, PopValues, QueueSame
    <3>2. CASE u = Status
      BY <1>0, <2>1, <3>1, <3>2, PopValues DEF StatusOK
    <3>3. CASE u # Status
      BY <1>0, <2>1, <3>1, <3>3, PopValues DEF StatusOK
    <3> QED BY <3>2, <3>3
  <2>2. CASE PublishSnapshot
    <3>1. mailbox' = mailbox /\ commands' = commands /\ worker = "snapshot" /\ worker' \in {"flush", "snapshot"}
      BY <2>2 DEF PublishSnapshot, sharedVars
    <3> QED BY <3>1, QueueSame DEF StatusOK
  <2>3. ASSUME \A u \in Topics : ~PopMailbox(u), ~PublishSnapshot PROVE StatusOK'
    <3>1. UNCHANGED <<mailbox, retained>>
      BY <1>3, <2>3, ValuesKept, Zenon
    <3>2. CASE TakeConnect
      <4>1. commands # <<>> /\ commands' = Tail(commands) /\ Head(commands) = ConnectCmd /\ worker' = "connected"
            /\ worker = "take"
        BY <3>2, Zenon DEF TakeConnect, CanTake
      <4>2. Pending
        <5>1. 1 \in DOMAIN commands /\ commands[1] = ConnectCmd
          BY <1>0, <4>1, HeadTailProperties
        <5> QED BY <5>1, Zenon DEF Pending, Holds
      <4> QED BY <3>1, <4>1, <4>2, QueueTake DEF StatusOK
    <3>3. CASE CallOnConnect \/ FlushWaiting \/ WorkerExits
      <4>1. commands' = commands /\ worker' # "pop" /\ (worker' = "snapshot" => worker = "connected")
            /\ worker' # "connected"
        BY <3>3 DEF CallOnConnect, FlushWaiting, WorkerExits, DrainNext, sharedVars
      <4> QED BY <3>1, <4>1, QueueSame DEF StatusOK
    <3>4. ASSUME NEW u \in Topics, Drain(u) PROVE StatusOK'
      <4>1. commands' = commands /\ worker' \in {"take", "drain"}
        BY <3>4 DEF Drain, DrainNext, sharedVars
      <4> QED BY <3>1, <4>1, QueueSame DEF StatusOK
    <3>5. CASE TakeDisconnect
      <4>1. commands # <<>> /\ commands' = Tail(commands) /\ worker' = "take"
        BY <3>5, Zenon DEF TakeDisconnect, CanTake
      <4> QED BY <3>1, <4>1, QueueTake DEF StatusOK
    <3>6. ASSUME NEW u \in Topics, TakeAck(u) PROVE StatusOK'
      <4>1. commands # <<>> /\ commands' = Tail(commands) /\ worker' \in {"take", "drain"}
        BY <3>6 DEF TakeAck, CanTake, DrainNext
      <4> QED BY <3>1, <4>1, QueueTake DEF StatusOK
    <3>7. ASSUME NEW u \in Topics, TakeRetained(u) PROVE StatusOK'
      <4>1. /\ commands # <<>> /\ commands' = Tail(commands) /\ worker' = "pop" /\ todo' = {u}
            /\ Head(commands) = RetainedCmd(u)
        BY <3>7, Zenon DEF TakeRetained, CanTake
      <4>2. Status \in todo' => Head(commands) = RetainedCmd(Status)
        BY <4>1
      <4> QED BY <3>1, <4>1, <4>2, QueueTake DEF StatusOK
    <3>8. ASSUME NEW e \in 1 .. MaxEvents, TakePublish(e) PROVE StatusOK'
      <4>1. commands # <<>> /\ commands' = Tail(commands) /\ worker' = "take"
        BY <3>8, Zenon DEF TakePublish, CanTake
      <4> QED BY <3>1, <4>1, QueueTake DEF StatusOK
    <3> QED BY <1>3, <2>3, <3>2, <3>3, <3>4, <3>5, <3>6, <3>7, <3>8, Zenon DEF WorkerStep
  <2> QED BY <2>1, <2>2, <2>3
<1>4. CASE NetStep
  <2>1. UNCHANGED <<mailbox, worker, todo, retained>>
    BY <1>4, Zenon DEF NetStep, Connect, Drop, BrokerRestart, BrokerRead, BrokerLosesSession,
                       BrokerReadsDisconnect, OnPublish, workerVars, sharedVars
  <2>2. CASE Connect
    <3>1. link = "down" /\ steady' = steady
      BY <2>2, Zenon DEF Connect, mainVars
    <3>2. ~steady'
      BY <3>1 DEF SteadyOK
    <3> QED BY <3>2, Zenon DEF StatusOK
  <2>3. CASE Drop \/ BrokerRestart
    <3>1. steady' = FALSE
      BY <2>3, Zenon DEF Drop, BrokerRestart, Disconnected
    <3> QED BY <3>1, Zenon DEF StatusOK
  <2>4. CASE BrokerRead \/ BrokerLosesSession \/ BrokerReadsDisconnect
    <3>1. UNCHANGED <<steady, commands>>
      BY <2>4, Zenon DEF BrokerRead, BrokerLosesSession, BrokerReadsDisconnect, mainVars, sharedVars
    <3> QED BY <2>1, <3>1, QueueSame, Zenon DEF StatusOK
  <2>5. CASE OnPublish
    <3>1. steady' = steady /\ commands' = Append(commands, AckCmd(Head(acks))) /\ acks # <<>>
      BY <2>5, Zenon DEF OnPublish, mainVars
    <3>2. Head(acks) \in Topics
      BY <3>1, TailType DEF DataTypes
    <3>3. Enqueues(PlainCmds)
      BY <3>1, <3>2, PlainTypes, Zenon DEF Enqueues
    <3> QED BY <2>1, <3>1, <3>3, QueuePlain, Zenon DEF StatusOK
  <2> QED BY <1>4, <2>2, <2>3, <2>4, <2>5, Zenon DEF NetStep
<1> QED BY <1>1, <1>2, <1>3, <1>4, Zenon DEF Next

\* One topic of ValueOK.
Reached(t) ==
  IF mailbox[t] = NoValue THEN retained[t] # NoValue => retained[t] = value[t] ELSE mailbox[t] = value[t]

LEMMA ReachedDef ==
  /\ ValueOK <=> \A t \in Topics \ ({Status} \cup unsent) : Reached(t)
  /\ ValueOK' <=> \A t \in Topics \ ({Status} \cup unsent') : Reached(t)'
BY Zenon DEF ValueOK, Reached, Known

LEMMA ReachedKept ==
  ASSUME NEW t, Reached(t), mailbox'[t] = mailbox[t], retained'[t] = retained[t], value'[t] = value[t]
  PROVE  Reached(t)'
BY Zenon DEF Reached

LEMMA ValueStep == ASSUME DataTypes, MailboxInv, ValueOK, [Next]_vars PROVE ValueOK'
<1>0. /\ mailbox \in [Topics -> Nat] /\ retained \in [Topics -> Nat] /\ value \in [Topics -> Nat]
      /\ Status \in Topics /\ Status \in Snapshot /\ Snapshot \subseteq Topics
      /\ \A t \in Topics \ ({Status} \cup unsent) : Reached(t)
  BY SnapshotTypes, ReachedDef DEF DataTypes
<1>k. ASSUME UNCHANGED <<mailbox, retained, value, unsent>> PROVE ValueOK'
  BY <1>0, <1>k, ReachedKept, ReachedDef, Zenon
<1> SUFFICES ASSUME NEW t \in Topics, t # Status, t \notin unsent' PROVE Reached(t)' \/ ValueOK'
  BY ReachedDef, Zenon
<1>1. CASE DeadlinePasses \/ Terminated \/ UNCHANGED vars \/ NetStep
  <2>1. UNCHANGED <<mailbox, retained, value, unsent>>
    BY <1>1, Zenon DEF DeadlinePasses, Terminated, vars, mainVars, sharedVars, workerVars, NetStep, Connect, Drop,
       BrokerRestart, BrokerRead, BrokerLosesSession, BrokerReadsDisconnect, OnPublish, Disconnected
  <2> QED BY <1>k, <2>1
<1>2. CASE MainStep
  <2>0. retained' = retained
    BY <1>2, Zenon DEF MainStep, SetState, PublishState, PublishItem, PublishEvent, PublishOffline, Stop, Joined,
                       workerVars
  <2>1. ASSUME NEW u \in Topics, SetState(u) PROVE Reached(t)'
    <3>1. value' = [value EXCEPT ![u] = @ + 1] /\ unsent' = unsent \cup {u} /\ mailbox' = mailbox
      BY <2>1, Zenon DEF SetState, sharedVars
    <3>2. t # u /\ t \notin unsent
      BY <3>1
    <3>3. value'[t] = value[t]
      BY <1>0, <3>1, <3>2
    <3> QED BY <1>0, <2>0, <3>1, <3>2, <3>3, ReachedKept
  <2>2. ASSUME NEW u \in Topics, PublishState(u) PROVE Reached(t)'
    <3>1. value' = value /\ unsent' = unsent \ {u} /\ mailbox' = [mailbox EXCEPT ![u] = value[u]]
          /\ u \in Snapshot \ {Status}
      BY <2>2 DEF PublishState, SubmitRetained, MailboxInv, CollectOK
    <3>2. CASE t = u
      <4>1. value[u] # NoValue /\ mailbox'[t] = value'[t]
        BY <1>0, <3>1, <3>2 DEF MailboxInv, CollectOK
      <4> QED BY <3>1, <3>2, <4>1 DEF Reached
    <3>3. CASE t # u
      <4>1. t \notin unsent /\ mailbox'[t] = mailbox[t]
        BY <1>0, <3>1, <3>3
      <4> QED BY <1>0, <2>0, <3>1, <4>1, ReachedKept
    <3> QED BY <3>2, <3>3
  <2>3. ASSUME NEW u \in Topics, PublishItem(u) PROVE Reached(t)'
    <3>1. /\ value' = [value EXCEPT ![u] = @ + 1] /\ mailbox' = [mailbox EXCEPT ![u] = value[u] + 1]
          /\ unsent' = unsent
      BY <2>3, Zenon DEF PublishItem, SubmitRetained
    <3>2. CASE t = u
      <4>1. value'[t] = value[t] + 1 /\ mailbox'[t] = value[t] + 1 /\ value[t] \in Nat
        BY <1>0, <3>1, <3>2
      <4> QED BY <4>1 DEF Reached
    <3>3. CASE t # u
      <4>1. value'[t] = value[t] /\ mailbox'[t] = mailbox[t]
        BY <1>0, <3>1, <3>3
      <4> QED BY <1>0, <2>0, <3>1, <4>1, ReachedKept
    <3> QED BY <3>2, <3>3
  <2>4. CASE PublishOffline
    <3>1. value' = value /\ unsent' = unsent /\ mailbox' = [mailbox EXCEPT ![Status] = Offline]
      BY <2>4, Zenon DEF PublishOffline, SubmitRetained
    <3>2. mailbox'[t] = mailbox[t]
      BY <1>0, <3>1
    <3> QED BY <1>0, <2>0, <3>1, <3>2, ReachedKept
  <2>5. CASE PublishEvent \/ Stop \/ Joined
    <3>1. UNCHANGED <<mailbox, value, unsent>>
      BY <2>5, Zenon DEF PublishEvent, Stop, Joined, sharedVars
    <3> QED BY <1>k, <2>0, <3>1
  <2> QED BY <1>2, <2>1, <2>2, <2>3, <2>4, <2>5, Zenon DEF MainStep
<1>3. CASE WorkerStep
  <2>0. UNCHANGED <<value, unsent>>
    BY <1>3, WorkerQuiet, Zenon
  <2>1. ASSUME NEW u \in Topics, PopMailbox(u) PROVE Reached(t)'
    <3>1. /\ mailbox' = [mailbox EXCEPT ![u] = NoValue] /\ Reached(t)
          /\ retained' = IF mailbox[u] # NoValue THEN [retained EXCEPT ![u] = mailbox[u]] ELSE retained
      BY <1>0, <2>0, <2>1, PopValues
    <3>2. CASE t = u
      <4>1. mailbox'[t] = NoValue
        BY <1>0, <3>1, <3>2
      <4>2. CASE mailbox[t] = NoValue
        BY <2>0, <3>1, <3>2, <4>1, <4>2 DEF Reached
      <4>3. CASE mailbox[t] # NoValue
        <5>1. retained'[t] = mailbox[t]
          BY <1>0, <3>1, <3>2, <4>3
        <5> QED BY <2>0, <3>1, <4>1, <4>3, <5>1 DEF Reached
      <4> QED BY <4>2, <4>3
    <3>3. CASE t # u
      <4>1. mailbox'[t] = mailbox[t] /\ retained'[t] = retained[t]
        BY <1>0, <3>1, <3>3
      <4> QED BY <2>0, <3>1, <4>1, ReachedKept
    <3> QED BY <3>2, <3>3
  <2>2. CASE PublishSnapshot
    <3>1. PICK u \in Topics, v \in Nat :
            v = (IF u = Status THEN Online ELSE value[u]) /\ retained' = [retained EXCEPT ![u] = v] /\ mailbox' = mailbox
      BY <2>2, SnapshotValues, Zenon
    <3>2. Reached(t)
      BY <1>0, <2>0
    <3>3. CASE t = u
      <4>1. retained'[t] = value[t]
        BY <1>0, <3>1, <3>3
      <4> QED BY <2>0, <3>1, <3>2, <4>1 DEF Reached
    <3>4. CASE t # u
      <4>1. retained'[t] = retained[t]
        BY <1>0, <3>1, <3>4
      <4> QED BY <2>0, <3>1, <3>2, <4>1, ReachedKept
    <3> QED BY <3>3, <3>4
  <2>3. ASSUME \A u \in Topics : ~PopMailbox(u), ~PublishSnapshot PROVE ValueOK'
    BY <1>3, <1>k, <2>0, <2>3, ValuesKept, Zenon
  <2> QED BY <2>1, <2>2, <2>3
<1> QED BY <1>1, <1>2, <1>3, Zenon DEF Next


SentWhen == connected /\ ~Pending /\ (link = "up" \/ (steady /\ ~late))

LEMMA ArrivesNext == \A t, v : Arrives(t, v)' <=> LastIs(wire', OfTopic(t), PayloadOf, broker'[t], v')
BY Zenon DEF Arrives, LastIs, Places, OfTopic, PayloadOf, Packets

LEMMA SentDef ==
  /\ SentOK <=> (SentWhen => \A t \in Known \ dirty : Arrives(t, retained[t]))
  /\ SentOK' <=> (SentWhen' => \A t \in Known' \ dirty' : LastIs(wire', OfTopic(t), PayloadOf, broker'[t], retained'[t]))
<1>1. SentOK <=> (SentWhen => \A t \in Known \ dirty : Arrives(t, retained[t]))
  BY Zenon DEF SentOK, SentWhen
<1>2. SentOK' <=> (SentWhen' => \A t \in Known' \ dirty' : Arrives(t, retained[t])')
  BY Zenon DEF SentOK, SentWhen
<1>3. \A t : Arrives(t, retained[t])' <=> LastIs(wire', OfTopic(t), PayloadOf, broker'[t], retained'[t])
  BY Zenon DEF Arrives, LastIs, Places, OfTopic, PayloadOf, Packets
<1> QED BY <1>1, <1>2, <1>3, Zenon

\* Nothing moves.
LEMMA SentStays ==
  ASSUME SentOK, SentWhen' => SentWhen, UNCHANGED <<wire, broker, retained, dirty>> PROVE SentOK'
<1>1. Known' = Known
  BY KnownNext, Zenon DEF Known
<1> QED BY <1>1, SentDef, Zenon DEF Arrives

\* An event goes to the wire.
LEMMA SentEvent ==
  ASSUME DataTypes, SentOK, SentWhen' => SentWhen, UNCHANGED <<broker, retained, dirty>>, NEW e \in Nat,
         wire' = wire \/ wire' = Append(wire, Packet(EventTopic, e))
  PROVE  SentOK'
<1>1. CASE wire' = wire
  BY <1>1, SentStays, Zenon
<1>2. CASE wire' = Append(wire, Packet(EventTopic, e))
  <2> DEFINE p == Packet(EventTopic, e)
  <2>1. Known' = Known /\ Known \subseteq Topics
    BY KnownNext, Zenon DEF Known
  <2>2. wire \in Seq(Packets) /\ p \in Packets /\ \A t \in Topics : p \notin OfTopic(t)
    BY DEF DataTypes, Packet, Packets, OfTopic
  <2> HIDE DEF p
  <2>3. ASSUME NEW t \in Known' \ dirty', SentWhen'
        PROVE  LastIs(wire', OfTopic(t), PayloadOf, broker'[t], retained'[t])
    <3>1. t \in Topics /\ LastIs(wire, OfTopic(t), PayloadOf, broker[t], retained[t])
      BY <2>1, <2>3, SentDef, Zenon DEF Arrives
    <3>2. LastIs(Append(wire, p), OfTopic(t), PayloadOf, broker[t], retained[t])
      BY <2>2, <3>1, LastSkip, Zenon
    <3> QED BY <1>2, <3>2, Zenon DEF p
  <2> QED BY <2>3, SentDef, Zenon
<1> QED BY <1>1, <1>2

\* _send of the value now retained: it goes to the wire, or the topic stays dirty.
LEMMA SentSend ==
  ASSUME DataTypes, SentOK, SentWhen' => SentWhen /\ link = "up", broker' = broker, NEW u \in Topics, NEW v \in Nat,
         retained' = retained \/ retained' = [retained EXCEPT ![u] = v], retained'[u] = v,
         Send(u, v) \/ (dirty' = dirty \cup {u} /\ wire' = wire)
  PROVE  SentOK'
<1> DEFINE p == Packet(u, v)
<1>0. wire \in Seq(Packets) /\ retained \in [Topics -> Nat] /\ dirty \subseteq Topics
  BY DEF DataTypes
<1>1. p \in Packets /\ PayloadOf[p] = v /\ p \in OfTopic(u) /\ \A t \in Topics \ {u} : p \notin OfTopic(t)
  BY DEF Packet, Packets, OfTopic, PayloadOf
<1>2. ASSUME link = "up"
      PROVE  \/ wire' = wire /\ dirty' = dirty \cup {u}
             \/ wire' = Append(wire, p) /\ dirty' = dirty \ {u}
  BY <1>2, Zenon DEF Send, Deliver
<1> HIDE DEF p
<1>3. ASSUME NEW t \in Known' \ dirty', SentWhen'
      PROVE  LastIs(wire', OfTopic(t), PayloadOf, broker'[t], retained'[t])
  <2>0. t \in Topics /\ retained'[t] # NoValue
    BY <1>3, KnownNext, Zenon
  <2>1. CASE t = u
    <3>1. wire' = Append(wire, p)
      BY <1>2, <1>3, <2>1
    <3>2. LastIs(Append(wire, p), OfTopic(u), PayloadOf, broker[u], PayloadOf[p])
      BY <1>0, <1>1, LastGrow, Zenon
    <3> QED BY <1>1, <2>1, <3>1, <3>2, Zenon
  <2>2. CASE t # u
    <3>1. retained'[t] = retained[t]
      BY <1>0, <2>0, <2>2
    <3>2. t \in Known \ dirty
      BY <1>2, <1>3, <2>0, <2>2, <3>1 DEF Known
    <3>3. LastIs(wire, OfTopic(t), PayloadOf, broker[t], retained[t])
      BY <1>3, <3>2, SentDef, Zenon DEF Arrives
    <3>4. LastIs(Append(wire, p), OfTopic(t), PayloadOf, broker[t], retained[t])
      BY <1>0, <1>1, <2>0, <2>2, <3>3, LastSkip
    <3> QED BY <1>2, <1>3, <3>1, <3>3, <3>4
  <2> QED BY <2>1, <2>2
<1> QED BY <1>3, SentDef, Zenon

\* The broker reads the oldest packet.
LEMMA SentRead ==
  ASSUME DataTypes, SentOK, BrokerRead PROVE SentOK'
<1> DEFINE p == Head(wire)
<1>0. /\ wire # <<>> /\ wire \in Seq(Packets) /\ wire' = Tail(wire) /\ broker \in [Topics -> Nat]
      /\ UNCHANGED <<retained, dirty, connected, commands, link, steady, late>>
  BY DEF BrokerRead, DataTypes, mainVars, sharedVars, workerVars
<1>1. (SentWhen' <=> SentWhen) /\ Known' = Known
  BY <1>0, QueueSame, KnownNext, Zenon DEF SentWhen, Known
<1>2. ASSUME NEW t \in Topics PROVE broker'[t] = IF p \in OfTopic(t) THEN PayloadOf[p] ELSE broker[t]
  <2>1. p \in Packets
    BY <1>0, TailType, Zenon
  <2>2. broker' = IF p.topic = EventTopic THEN broker ELSE [broker EXCEPT ![p.topic] = p.payload]
    BY DEF BrokerRead
  <2>3. (p \in OfTopic(t) <=> p.topic = t) /\ PayloadOf[p] = p.payload
    BY <2>1 DEF Packets, OfTopic, PayloadOf
  <2> HIDE DEF p
  <2> QED BY <1>0, <2>2, <2>3
<1>3. ASSUME NEW t \in Known' \ dirty', SentWhen'
      PROVE  LastIs(wire', OfTopic(t), PayloadOf, broker'[t], retained'[t])
  <2>1. t \in Topics /\ LastIs(wire, OfTopic(t), PayloadOf, broker[t], retained[t])
    BY <1>0, <1>1, <1>3, SentDef, Zenon DEF Arrives, Known
  <2>2. LastIs(Tail(wire), OfTopic(t), PayloadOf, IF p \in OfTopic(t) THEN PayloadOf[p] ELSE broker[t], retained[t])
    BY <1>0, <2>1, LastTail, Zenon
  <2> QED BY <1>0, <1>2, <2>1, <2>2, Zenon
<1> QED BY <1>3, SentDef, Zenon

LEMMA SentMain == ASSUME DataTypes, SteadyOK, SentOK, MainStep PROVE SentOK'
<1>1. UNCHANGED <<wire, broker, retained, dirty, connected, late>>
  BY Zenon DEF MainStep, SetState, PublishState, PublishItem, PublishEvent, PublishOffline, Stop, Joined,
               SubmitRetained, sharedVars, workerVars, netVars
<1>2. Pending' <=> Pending
  BY MainQueue, QueuePlain, Zenon
<1>3. (link' = "up" => link = "up") /\ (steady' => steady \/ link = "up")
  <2>1. CASE Joined
    BY <2>1 DEF Joined
  <2>2. ASSUME ~Joined PROVE link' = link
    BY <2>2, Zenon DEF MainStep, SetState, PublishState, PublishItem, PublishEvent, PublishOffline, Stop, netVars
  <2>3. ASSUME ~Joined PROVE steady' => steady \/ link = "up"
    BY <2>3, Zenon DEF MainStep, SetState, PublishState, PublishItem, PublishEvent, PublishOffline, Stop
  <2> QED BY <2>1, <2>2, <2>3
<1>4. SentWhen' => SentWhen
  BY <1>1, <1>2, <1>3, Zenon DEF SentWhen
<1> QED BY <1>1, <1>4, SentStays, Zenon

LEMMA SentNet == ASSUME DataTypes, SteadyOK, SentOK, NetStep PROVE SentOK'
<1>1. UNCHANGED <<retained, dirty, connected, late>>
  BY Zenon DEF NetStep, Connect, Drop, BrokerRestart, BrokerRead, BrokerLosesSession, BrokerReadsDisconnect,
               OnPublish, sharedVars, workerVars
<1>2. CASE Connect
  BY <1>2, QueueConnect, SentDef, Zenon DEF Connect, SentWhen
<1>3. CASE Drop \/ BrokerRestart
  <2>1. link' # "up" /\ steady' = FALSE
    BY <1>3 DEF Drop, BrokerRestart, Disconnected
  <2> QED BY <2>1, SentDef, Zenon DEF SentWhen
<1>4. CASE BrokerLosesSession
  <2>1. link \in {"down", "closed"} /\ session /\ link' = link /\ steady' = steady
    BY <1>4, Zenon DEF BrokerLosesSession, mainVars
  <2>2. ~SentWhen'
    BY <2>1 DEF SentWhen, SteadyOK
  <2> QED BY <2>2, SentDef, Zenon
<1>5. CASE BrokerReadsDisconnect
  <2>1. /\ link' # "up" /\ UNCHANGED <<steady, commands, wire, broker>>
    BY <1>5 DEF BrokerReadsDisconnect, mainVars, sharedVars
  <2>2. SentWhen' => SentWhen
    BY <1>1, <2>1, QueueSame, Zenon DEF SentWhen
  <2> QED BY <1>1, <2>1, <2>2, SentStays, Zenon
<1>6. CASE OnPublish
  <2>1. UNCHANGED <<link, steady, wire, broker>> /\ commands' = Append(commands, AckCmd(Head(acks))) /\ acks # <<>>
    BY <1>6, Zenon DEF OnPublish, mainVars
  <2>2. Head(acks) \in Topics
    BY <2>1, TailType DEF DataTypes
  <2>3. Pending' <=> Pending
    BY <2>1, <2>2, PlainTypes, QueuePlain, Zenon DEF Enqueues
  <2> QED BY <1>1, <2>1, <2>3, SentStays, Zenon DEF SentWhen
<1> QED BY <1>2, <1>3, <1>4, <1>5, <1>6, SentRead, Zenon DEF NetStep

LEMMA SentWorker == ASSUME DataTypes, MailboxInv, SteadyOK, SentOK, WorkerStep PROVE SentOK'
<1>0. UNCHANGED <<link, steady, late, broker>> /\ retained \in [Topics -> Nat]
  BY WorkerQuiet, Zenon DEF DataTypes
<1>u. ASSUME worker # "exited" PROVE SentWhen => link = "up"
  BY <1>u DEF SentWhen, SteadyOK
<1>c. ASSUME commands' = commands, connected' = connected PROVE SentWhen' => SentWhen
  BY <1>0, <1>c, QueueSame, Zenon DEF SentWhen
<1>t. ASSUME commands # <<>>, commands' = Tail(commands), Head(commands) # ConnectCmd, connected' = connected
      PROVE  SentWhen' => SentWhen
  BY <1>0, <1>t, QueueTake, Zenon DEF SentWhen
<1>1. CASE TakeConnect
  <2>1. dirty' = dirty \cup Known /\ retained' = retained
    BY <1>1, Zenon DEF TakeConnect, Resend
  <2>2. Known' \ dirty' = {}
    <3>1. Known' = Known
      BY <2>1, KnownNext, Zenon DEF Known
    <3> QED BY <2>1, <3>1
  <2> QED BY <2>2, SentDef
<1>2. CASE TakeDisconnect
  BY <1>2, SentDef, Zenon DEF TakeDisconnect, SentWhen
<1>3. CASE CallOnConnect \/ WorkerExits
  <2>1. UNCHANGED <<commands, connected, wire, retained, dirty>>
    BY <1>3, Zenon DEF CallOnConnect, WorkerExits, sharedVars, netVars
  <2> QED BY <1>0, <1>c, <2>1, SentStays, Zenon
<1>4. ASSUME NEW t \in Topics, TakeAck(t) \/ TakeRetained(t) PROVE SentOK'
  <2>1. UNCHANGED <<connected, wire, retained, dirty>> /\ commands # <<>> /\ commands' = Tail(commands)
        /\ Head(commands) # ConnectCmd
    BY <1>4, PlainTypes, Zenon DEF TakeAck, TakeRetained, CanTake, PlainCmds, netVars
  <2> QED BY <1>0, <1>t, <2>1, SentStays, Zenon
<1>5. CASE FlushWaiting
  <2>1. UNCHANGED <<commands, connected, retained, dirty>>
    BY <1>5, Zenon DEF FlushWaiting, sharedVars
  <2>2. wire' = wire \/ (waiting # <<>> /\ wire' = Append(wire, Packet(EventTopic, Head(waiting))))
    BY <1>5, Zenon DEF FlushWaiting, Deliver
  <2>3. waiting # <<>> => Head(waiting) \in Nat
    BY TailType DEF DataTypes
  <2> QED BY <1>0, <1>c, <2>1, <2>2, <2>3, SentStays, SentEvent, Zenon
<1>6. ASSUME NEW e \in 1 .. MaxEvents, TakePublish(e) PROVE SentOK'
  <2>0. e \in Nat
    OBVIOUS
  <2>1. UNCHANGED <<connected, retained, dirty>> /\ commands # <<>> /\ commands' = Tail(commands)
        /\ Head(commands) # ConnectCmd
    BY <1>6, <2>0, PlainTypes, Zenon DEF TakePublish, CanTake, PlainCmds
  <2>2. wire' = wire \/ wire' = Append(wire, Packet(EventTopic, e))
    BY <1>6, Zenon DEF TakePublish, Deliver
  <2> QED BY <1>0, <1>t, <2>0, <2>1, <2>2, SentEvent, Zenon
<1>7. ASSUME NEW t \in Topics, Drain(t) PROVE SentOK'
  <2>1. UNCHANGED <<commands, connected, retained>> /\ worker # "exited"
    BY <1>7 DEF Drain, sharedVars
  <2>2. retained[t] \in Nat
    BY <1>0
  <2>3. SentWhen' => SentWhen /\ link = "up"
    BY <1>c, <1>u, <2>1, Zenon
  <2>4. CASE Send(t, retained[t])
    BY <1>0, <2>1, <2>2, <2>3, <2>4, SentSend, Zenon
  <2>5. CASE UNCHANGED <<dirty, wire>>
    BY <1>0, <2>1, <2>3, <2>5, SentStays, Zenon
  <2> QED BY <1>7, <2>4, <2>5, Zenon DEF Drain
<1>8. CASE PublishSnapshot
  <2>0. worker # "exited"
    BY <1>8 DEF PublishSnapshot
  <2>1. PICK t \in Topics, v \in Nat :
          /\ retained' = [retained EXCEPT ![t] = v] /\ UNCHANGED <<commands, connected>>
          /\ (MaySend(t) /\ Send(t, v)) \/ (dirty' = dirty \cup {t} /\ wire' = wire)
    BY <1>8, SnapshotValues, Zenon
  <2>2. retained'[t] = v
    BY <1>0, <2>1
  <2>3. SentWhen' => SentWhen /\ link = "up"
    BY <1>c, <1>u, <2>0, <2>1, Zenon
  <2> QED BY <1>0, <2>1, <2>2, <2>3, SentSend, Zenon
<1>9. ASSUME NEW t \in Topics, PopMailbox(t) PROVE SentOK'
  <2>0. mailbox[t] \in Nat /\ worker # "exited"
    BY <1>9, PopValues DEF DataTypes
  <2>1. UNCHANGED <<commands, connected, wire>>
    BY <1>9, Zenon DEF PopMailbox, netVars
  <2>2. SentWhen' => SentWhen /\ link = "up"
    BY <1>c, <1>u, <2>0, <2>1, Zenon
  <2>3. CASE mailbox[t] # NoValue
    <3>1. retained' = [retained EXCEPT ![t] = mailbox[t]] /\ dirty' = dirty \cup {t}
      BY <1>9, <2>3, PopValues
    <3>2. retained'[t] = mailbox[t]
      BY <1>0, <3>1
    <3> QED BY <1>0, <2>0, <2>1, <2>2, <3>1, <3>2, SentSend, Zenon
  <2>4. CASE mailbox[t] = NoValue
    <3>1. UNCHANGED <<retained, dirty>>
      BY <1>9, <2>4, Zenon DEF PopMailbox
    <3> QED BY <1>0, <2>1, <2>2, <3>1, SentStays, Zenon
  <2> QED BY <2>3, <2>4
<1> QED BY <1>1, <1>2, <1>3, <1>4, <1>5, <1>6, <1>7, <1>8, <1>9, Zenon DEF WorkerStep

LEMMA ExitStep ==
  ASSUME TypeOK, OneInFlight, StallInv, LinkOK, SteadyOK, SteadyOK', ExitOK, [Next]_vars PROVE ExitOK'
<1>0. DataTypes
  BY DEF TypeOK
<1>1. CASE DeadlinePasses \/ Terminated \/ UNCHANGED vars
  <2>1. UNCHANGED <<steady, stopping, workerVars, commands>> /\ (late => late')
    BY <1>1 DEF DeadlinePasses, Terminated, vars, mainVars, sharedVars
  <2>2. retained' = retained => Known' = Known
    BY KnownNext, Zenon DEF Known
  <2> QED BY <2>1, <2>2 DEF ExitOK, workerVars
<1>2. CASE MainStep
  <2>1. UNCHANGED workerVars /\ (stopping => stopping') /\ late' = late
    BY <1>2 DEF MainStep, SetState, PublishState, PublishItem, PublishEvent, PublishOffline, Stop, Joined,
                SubmitRetained, sharedVars
  <2>2. Known' = Known
    BY <2>1, KnownNext, Zenon DEF Known, workerVars
  <2>3. stopping => commands' = commands
    BY <1>0, <1>2, MainQueue, Zenon
  <2>4. stopping => steady' = steady
    <3> SUFFICES ASSUME stopping PROVE steady' = steady
      OBVIOUS
    <3>1. main # "running"
      BY DEF SteadyOK
    <3> QED BY <1>2, <3>1, Zenon DEF MainStep, SetState, PublishState, PublishItem, PublishEvent, PublishOffline,
                                     Stop, Joined
  <2> QED BY <2>1, <2>2, <2>3, <2>4 DEF ExitOK, workerVars
<1>3. CASE WorkerStep
  <2>1. UNCHANGED <<steady, stopping, late, main, link>>
    BY <1>3, WorkerQuiet, Zenon
  <2>2. CASE ~WorkerExits
    <3>1. worker' # "exited"
      BY <1>3, <2>2 DEF WorkerStep, TakeConnect, CallOnConnect, PublishSnapshot, FlushWaiting, TakeDisconnect, Drain,
           TakeAck, TakeRetained, PopMailbox, TakePublish, CanTake, DrainNext
    <3> QED BY <3>1, Zenon DEF ExitOK
  <2>3. CASE WorkerExits
    <3>1. /\ worker = "take" /\ stopping /\ (late \/ (commands = <<>> /\ (outstanding = {} \/ ~connected)))
          /\ UNCHANGED <<commands, connected, outstanding, dirty, retained>>
      BY <2>3, Zenon DEF WorkerExits, Acknowledged, sharedVars
    <3>2. Known' = Known
      BY <3>1, KnownNext, Zenon DEF Known
    <3>3. ASSUME steady, ~late PROVE connected /\ outstanding = {} /\ dirty \cap Known = {}
      <4>1. commands = <<>> /\ ~Pending /\ ~ConnectQueued
        <5>1. commands = <<>>
          BY <3>1, <3>3
        <5>2. ~Pending
          BY <5>1 DEF Pending, Holds
        <5> QED BY <1>0, <5>1, <5>2, ConnectHolds, Zenon DEF Pending
      <4>2. connected /\ outstanding = {}
        BY <3>1, <3>3, <4>1, Zenon DEF LinkOK
      <4>3. link = "up"
        BY <3>1, <3>3 DEF SteadyOK
      <4>4. ASSUME NEW t \in dirty \cap Known PROVE FALSE
        <5>1. Waits(t)
          BY <3>1, <4>2, <4>4 DEF StallInv, AttendedAll, Attended
        <5> QED BY <4>1, <4>2, <4>3, <5>1 DEF Waits
      <4> QED BY <4>2, <4>4
    <3> QED BY <2>1, <3>1, <3>2, <3>3 DEF ExitOK
  <2> QED BY <2>2, <2>3
<1>4. CASE NetStep
  <2>1. UNCHANGED <<workerVars, stopping, late>>
    BY <1>4, Zenon DEF NetStep, Connect, Drop, BrokerRestart, BrokerRead, BrokerLosesSession,
                       BrokerReadsDisconnect, OnPublish, sharedVars
  <2>2. Known' = Known
    BY <2>1, KnownNext, Zenon DEF Known, workerVars
  <2>3. ASSUME worker = "exited", steady', ~late PROVE steady /\ commands' = commands
    <3>1. CASE Connect
      <4>1. link = "down" /\ steady' = steady
        BY <3>1, Zenon DEF Connect, mainVars
      <4> QED BY <2>3, <4>1 DEF SteadyOK
    <3>2. CASE Drop \/ BrokerRestart
      BY <2>3, <3>2 DEF Drop, BrokerRestart, Disconnected
    <3>3. CASE BrokerRead \/ BrokerLosesSession \/ BrokerReadsDisconnect
      BY <2>3, <3>3, Zenon DEF BrokerRead, BrokerLosesSession, BrokerReadsDisconnect, mainVars, sharedVars
    <3>4. CASE OnPublish
      <4>1. steady /\ acks # <<>> /\ \E i \in InFlight(Head(acks)) : TRUE
        BY <2>3, <3>4, Zenon DEF OnPublish, mainVars
      <4>2. Head(acks) \in Topics /\ Head(acks) \notin outstanding
        BY <1>0, <2>3, <4>1, TailType DEF DataTypes, ExitOK
      <4>3. Places(OfTopic(Head(acks)), outMsgs) = {}
        BY <1>0, <4>2, NoneTopic, Zenon
      <4>4. InFlight(Head(acks)) = Places(OfTopic(Head(acks)), outMsgs)
        <5>1. outMsgs \in Seq(Packets)
          BY <1>0 DEF DataTypes
        <5> QED BY <5>1, InFlightIsAmong, Zenon DEF InFlight
      <4> QED BY <4>1, <4>3, <4>4
    <3> QED BY <1>4, <3>1, <3>2, <3>3, <3>4, Zenon DEF NetStep
  <2> QED BY <2>1, <2>2, <2>3 DEF ExitOK, workerVars
<1> QED BY <1>1, <1>2, <1>3, <1>4, Zenon DEF Next

StopInv == LinkOK /\ SteadyOK /\ StatusOK /\ ValueOK /\ SentOK /\ ExitOK

LEMMA StopStep ==
  TypeOK /\ MailboxInv /\ OneInFlight /\ StallInv /\ StopInv /\ [Next]_vars => StopInv'
<1> SUFFICES ASSUME TypeOK, MailboxInv, OneInFlight, StallInv, StopInv, [Next]_vars PROVE StopInv'
  OBVIOUS
<1>0. DataTypes /\ LinkOK /\ SteadyOK /\ StatusOK /\ ValueOK /\ SentOK /\ ExitOK
  BY Zenon DEF TypeOK, StopInv
<1>1. LinkOK' /\ SteadyOK'
  BY <1>0, LinkStep, SteadyStep
<1>2. StatusOK' /\ ValueOK' /\ ExitOK'
  BY <1>0, <1>1, StatusStep, ValueStep, ExitStep
<1>3. SentOK'
  <2>1. CASE DeadlinePasses \/ Terminated \/ UNCHANGED vars
    <3>1. UNCHANGED <<wire, broker, retained, dirty, connected, commands, link, steady>> /\ (late => late')
      BY <2>1 DEF DeadlinePasses, Terminated, vars, mainVars, sharedVars, workerVars, netVars
    <3>2. SentWhen' => SentWhen
      BY <3>1, QueueSame, Zenon DEF SentWhen
    <3> QED BY <1>0, <3>1, <3>2, SentStays, Zenon
  <2> QED BY <1>0, <2>1, SentMain, SentWorker, SentNet, Zenon DEF Next
<1> QED BY <1>1, <1>2, <1>3, Zenon DEF StopInv

LEMMA StopInit == Init => StopInv
<1> SUFFICES ASSUME Init PROVE StopInv
  OBVIOUS
<1>1. /\ link = "down" /\ steady = FALSE /\ stopping = FALSE /\ main = "running" /\ worker = "take"
      /\ mailbox[Status] = NoValue /\ Known = {} /\ connected = FALSE
  BY SnapshotTypes DEF Init, Known
<1>2. LinkOK /\ SteadyOK /\ StatusOK /\ ExitOK
  BY <1>1 DEF LinkOK, SteadyOK, StatusOK, ExitOK
<1>3. ValueOK
  BY <1>1 DEF ValueOK, Init
<1>4. SentOK
  BY <1>1 DEF SentOK
<1> QED BY <1>2, <1>3, <1>4, Zenon DEF StopInv

\* CleanStopDelivers: the worker leaves in time only when every retained topic is clean and
\* acknowledged, a clean topic's last packet is ahead of DISCONNECT, and no connection made before
\* the offline status can announce the bridge online behind it.
THEOREM CleanStop == Spec => []CleanStopDelivers
<1>1. TypeOK /\ MailboxInv /\ StopInv => CleanStopDelivers
  <2> SUFFICES ASSUME DataTypes, MailboxInv, LinkOK, SteadyOK, StatusOK, ValueOK, SentOK, ExitOK,
                      main = "done", ~session, steady, ~late
               PROVE  broker[Status] = Offline /\ \A t \in Known \ {Status} : broker[t] = value[t]
    BY Zenon DEF TypeOK, StopInv, CleanStopDelivers, Stopped
  <2>1. wire = <<>> /\ worker = "exited" /\ unsent = {}
    BY DEF SteadyOK
  <2>2. commands = <<>> /\ connected /\ dirty \cap Known = {}
    BY <2>1 DEF ExitOK
  <2>3. ~Pending
    BY <2>2 DEF Pending, Holds
  <2>4. \A t \in Topics : mailbox[t] = NoValue
    <3> SUFFICES ASSUME NEW t \in Topics PROVE mailbox[t] = NoValue
      OBVIOUS
    <3>1. Backed(t) /\ CountIn(RetainedCmd(t), commands) = 0 /\ Taken(t) = 0
      BY <2>1, <2>2, BackedDef, CountEmpty DEF MailboxInv, Taken
    <3> HIDE DEF CountIn, Taken
    <3> QED BY <3>1 DEF Backed
  <2>5. \A t \in Known : broker[t] = retained[t]
    <3> SUFFICES ASSUME NEW t \in Known PROVE broker[t] = retained[t]
      OBVIOUS
    <3>1. Arrives(t, retained[t])
      BY <2>2, <2>3 DEF SentOK
    <3>2. Places(OfTopic(t), wire) = {}
      BY <2>1 DEF Places
    <3> QED BY <3>1, <3>2 DEF Arrives, LastIs
  <2>6. Status \in Topics /\ Snapshot \subseteq Topics
    BY SnapshotTypes
  <2>7. retained[Status] = Offline
    BY <2>4, <2>6 DEF StatusOK
  <2>8. Status \in Known
    BY <2>6, <2>7 DEF Known
  <2>9. \A t \in Known \ {Status} : retained[t] = value[t]
    BY <2>1, <2>4 DEF ValueOK, Known
  <2> QED BY <2>5, <2>7, <2>8, <2>9
<1> QED BY <1>1, Typing, MailboxKept, StallSafe, StopInit, StopStep, PTL DEF Spec
=============================================================================
