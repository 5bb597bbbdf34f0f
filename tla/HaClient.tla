------------------------------- MODULE HaClient -------------------------------
(***************************************************************************)
(* The Home Assistant side of the display bridge, end to end:              *)
(*                                                                         *)
(*   Home Assistant <- websocket -> HaRunner / HaSession (client thread)   *)
(*     -> HaMailbox -> Bridge._drain_ha (main thread) -> HaEngine          *)
(*                                                                         *)
(* displays/ha_client.py, ha_protocol.py, bridge.py and topics.py.  Home   *)
(* Assistant itself and the websocket (ordered, cut at any time) are       *)
(* external, modelled from what HaSession sends and accepts.               *)
(*                                                                         *)
(* Abstractions.  A state string is the number of the change that set it   *)
(* (ver) and whether the entity was removed by it (gone).  The session a   *)
(* value was heard in travels with it (sess), and whether that session was *)
(* not yet announced (early); "overflowed" remembers that the mailbox has  *)
(* dropped something.  The code carries none of the three and no guard of  *)
(* the model reads them; the properties do.  Backoff and handshake         *)
(* timeouts are a session that ends at any time.                           *)
(***************************************************************************)
EXTENDS Naturals, Sequences, FiniteSets, SequencesExt

CONSTANTS
  Entities,      \* configured entity ids
  MaxControls,   \* MAX_CONTROL_EVENTS
  DrainLimit,    \* HA_DRAIN_LIMIT
  Modes,         \* "entities": subscribe_entities is supported; "events": it is refused
  MaxSessions,   \* bound: websocket connections
  MaxChanges     \* bound: state changes in Home Assistant

ASSUME HaAssumption ==
  /\ Modes \subseteq {"entities", "events"} /\ Modes # {}
  /\ MaxControls \in Nat \ {0} /\ DrainLimit \in Nat \ {0}
  /\ MaxSessions \in Nat /\ MaxChanges \in Nat

VARIABLES
  \* Home Assistant and the websocket
  server,     \* server[e]: the current state of e
  served,     \* what the server was asked to push: "none", "entities" or "events"
  support,    \* the subscription mode the server supports in this session
  toServer, toClient,   \* frames under way
  \* the client thread
  runner,     \* "closed", "reading" or "putting" (the updates of a frame)
  sess,       \* number of the websocket connection
  phase, mode, pending, \* HaSession
  puts,       \* items of the current frame still to be put
  announced,  \* _announced
  \* shared under the mailbox lock
  items,      \* HaMailbox._items
  overflowed, \* history: a control event was dropped so far
  \* the main thread
  drain,      \* entries _drain_ha has popped in this pass, 0 between two passes
  batch,      \* _drain_ha's pending updates, by entity
  haState,    \* Bridge.ha_state
  heard,      \* HaEngine: the state last set for e (None: forgotten)
  since       \* session of the "connected" event the engine last applied

serverVars == <<server, served, support, toServer, toClient>>
clientVars == <<runner, sess, phase, mode, pending, puts, announced>>
mainVars   == <<drain, batch, haState, heard, since>>
mailVars   == <<items, overflowed>>
vars == <<serverVars, clientVars, mailVars, mainVars>>

None == [ver |-> 0, gone |-> TRUE, sess |-> 0, early |-> FALSE]

States == [ver : 0 .. MaxChanges, gone : BOOLEAN]
Heard(s, n, early) == [ver |-> s.ver, gone |-> s.gone, sess |-> n, early |-> early]

\* Functions from a part of the entities: the updates of one frame.
NoUpdates == [e \in {} |-> None]
Present == {e \in Entities : ~server[e].gone}
Snapshot == [e \in Present |-> server[e]]

Frame(type, id, ok, ups) == [type |-> type, id |-> id, ok |-> ok, ups |-> ups]
Plain(type) == Frame(type, 0, TRUE, NoUpdates)

IdEntities == 1
IdEvents == 2
IdGetStates == 3

Init ==
  /\ server \in [Entities -> {[ver |-> 0, gone |-> FALSE]}]
  /\ served = "none" /\ support \in Modes
  /\ toServer = <<>> /\ toClient = <<>>
  /\ runner = "closed" /\ sess = 0
  /\ phase = "new" /\ mode = "none" /\ pending = {}
  /\ puts = {} /\ announced = "disconnected"
  /\ items = <<>> /\ overflowed = FALSE
  /\ drain = 0 /\ batch = NoUpdates /\ haState = "disconnected"
  /\ heard = [e \in Entities |-> None] /\ since = 0

-----------------------------------------------------------------------------
(* HaMailbox.put: an update replaces the pending one of its entity in the    *)
(* open segment; a control event closes the segment and beyond MaxControls   *)
(* the oldest segment goes, with the event that closed it.                   *)

Update(e, h) == [kind |-> "update", entity |-> e, state |-> h]
Control(k, n) == [kind |-> k, sess |-> n]
IsControl(i) == i.kind # "update"

Controls(q) == Cardinality({i \in DOMAIN q : IsControl(q[i])})
LastControl(q) == SelectLastInSeq(q, IsControl)

\* Position of e's entry in the open segment (_latest), 0 if there is none.
OpenEntryMutant(q, e) ==
  LET own == {i \in DOMAIN q : ~IsControl(q[i]) /\ q[i].entity = e}
  IN  IF own = {} THEN 0 ELSE CHOOSE i \in own : \A j \in own : i <= j

OpenEntry(q, e) ==
  LET own == {i \in LastControl(q) + 1 .. Len(q) : q[i].entity = e}
  IN  IF own = {} THEN 0 ELSE CHOOSE i \in own : TRUE

PutUpdate(q, u) ==
  IF OpenEntry(q, u.entity) = 0 THEN Append(q, u) ELSE [q EXCEPT ![OpenEntry(q, u.entity)] = u]

DropOldest(q) == SubSeq(q, SelectInSeq(q, IsControl) + 1, Len(q))

Overfull(q) == Controls(q) > MaxControls

TrimLateMutant(q) == IF Controls(q) > MaxControls + 1 THEN DropOldest(q) ELSE q
Trim(q) == IF Overfull(q) THEN DropOldest(q) ELSE q

PutControl(q, c) == Trim(Append(q, c))


\* HaRunner._announce
Announce(k) ==
  /\ announced' = k
  /\ IF announced = k THEN UNCHANGED mailVars
     ELSE /\ items' = PutControl(items, Control(k, sess))
          /\ overflowed' = (overflowed \/ Overfull(Append(items, Control(k, sess))))

-----------------------------------------------------------------------------
(* Home Assistant (external): ordered frames; a session it accepts answers   *)
(* every command in the order it reads them.                                 *)

Push(f) == toClient' = Append(toClient, f)

ServerAuth ==
  /\ toServer # <<>> /\ Head(toServer) = "auth"
  /\ \E verdict \in {"auth_ok", "auth_invalid"} : Push(Plain(verdict))
  /\ toServer' = Tail(toServer)
  /\ UNCHANGED <<server, served, support, clientVars, mailVars, mainVars>>

ServerSubscribeEntities ==
  /\ toServer # <<>> /\ Head(toServer) = "subscribe_entities"
  /\ toServer' = Tail(toServer)
  /\ IF support = "entities"
     THEN /\ served' = "entities"
          /\ toClient' = toClient \o <<Frame("result", IdEntities, TRUE, NoUpdates),
                                       Frame("event", IdEntities, TRUE, Snapshot)>>
     ELSE /\ Push(Frame("result", IdEntities, FALSE, NoUpdates))
          /\ UNCHANGED served
  /\ UNCHANGED <<server, support, clientVars, mailVars, mainVars>>

ServerSubscribeEvents ==
  /\ toServer # <<>> /\ Head(toServer) = "subscribe_events"
  /\ toServer' = Tail(toServer)
  /\ \E ok \in BOOLEAN :
       /\ Push(Frame("result", IdEvents, ok, NoUpdates))
       /\ served' = IF ok THEN "events" ELSE served
  /\ UNCHANGED <<server, support, clientVars, mailVars, mainVars>>

ServerGetStates ==
  /\ toServer # <<>> /\ Head(toServer) = "get_states"
  /\ toServer' = Tail(toServer)
  /\ Push(Frame("result", IdGetStates, TRUE, Snapshot))
  /\ UNCHANGED <<server, served, support, clientVars, mailVars, mainVars>>

Changes == FoldSet(LAMBDA e, n : n + server[e].ver, 0, Entities)

\* A new state for e, or its removal; pushed when the session subscribed to it.
ServerChange(e) ==
  /\ Changes < MaxChanges
  /\ \E gone \in BOOLEAN :
       LET s == [ver |-> server[e].ver + 1, gone |-> gone]
           id == IF served = "entities" THEN IdEntities ELSE IdEvents
       IN  /\ server' = [server EXCEPT ![e] = s]
           /\ toClient' = IF served = "none" THEN toClient
                          ELSE Append(toClient, Frame("event", id, TRUE, [x \in {e} |-> s]))
  /\ UNCHANGED <<served, support, toServer, clientVars, mailVars, mainVars>>

-----------------------------------------------------------------------------
(* The client thread: HaRunner.run, _session, _read, HaSession.feed.         *)

Open ==
  /\ runner = "closed"
  /\ sess < MaxSessions
  /\ sess' = sess + 1
  /\ runner' = "reading"
  /\ phase' = "new" /\ mode' = "none" /\ pending' = {}
  /\ support' \in Modes
  /\ served' = "none" /\ toServer' = <<>> /\ toClient' = <<Plain("auth_required")>>
  /\ UNCHANGED <<server, puts, announced, mailVars, mainVars>>

\* _session returned: close the socket, announce, wait.
Close(outcome) ==
  /\ runner' = "closed"
  /\ served' = "none" /\ toServer' = <<>> /\ toClient' = <<>>
  /\ Announce(IF outcome = "auth_invalid" THEN "disabled" ELSE "disconnected")
  /\ UNCHANGED <<server, support, sess, mode, pending, puts, mainVars>>

\* The socket drops, a frame is lost with it, or the handshake takes too long.
EndSession ==
  /\ runner = "reading"
  /\ sess < MaxSessions
  /\ Close("closed")
  /\ UNCHANGED phase

\* The next frame, if feed takes it in this phase.
Reads(type) == runner = "reading" /\ toClient # <<>> /\ Head(toClient).type = type
Consume == toClient' = Tail(toClient)

AuthRequired ==
  /\ Reads("auth_required") /\ phase = "new"
  /\ Consume
  /\ phase' = "auth"
  /\ toServer' = Append(toServer, "auth")
  /\ UNCHANGED <<server, served, support, runner, sess, mode, pending, puts, announced,
                 mailVars, mainVars>>

AuthOk ==
  /\ Reads("auth_ok") /\ phase = "auth"
  /\ Consume
  /\ phase' = "subscribing" /\ mode' = "entities"
  /\ toServer' = Append(toServer, "subscribe_entities")
  /\ UNCHANGED <<server, served, support, runner, sess, pending, puts, announced,
                 mailVars, mainVars>>

AuthInvalid ==
  /\ Reads("auth_invalid")
  /\ phase' = "failed"
  /\ Close("auth_invalid")

ReadyEntities ==
  /\ Reads("result") /\ phase = "subscribing" /\ mode = "entities"
  /\ Head(toClient).id = IdEntities /\ Head(toClient).ok
  /\ Consume
  /\ phase' = "ready"
  /\ Announce("connected")
  /\ UNCHANGED <<server, served, support, toServer, runner, sess, mode, pending, puts, mainVars>>

\* An event that arrives before the snapshot is older than the snapshot.
FallbackFrames == <<"subscribe_events", "get_states">>

Fallback ==
  /\ Reads("result") /\ phase = "subscribing" /\ mode = "entities"
  /\ Head(toClient).id = IdEntities /\ ~Head(toClient).ok
  /\ Consume
  /\ mode' = "events" /\ pending' = {IdEvents, IdGetStates}
  /\ toServer' = toServer \o FallbackFrames
  /\ UNCHANGED <<server, served, support, runner, sess, phase, puts, announced, mailVars, mainVars>>

Refused ==
  /\ Reads("result") /\ phase = "subscribing" /\ mode = "events"
  /\ Head(toClient).id \in pending /\ ~Head(toClient).ok
  /\ phase' = "failed"
  /\ Close("closed")

\* The updates of a frame are put one by one, in no promised order, after its events.
PutAll(ups, ready) ==
  /\ puts' = {[entity |-> e, state |-> Heard(ups[e], sess, ~ready)] : e \in DOMAIN ups}
  /\ runner' = IF DOMAIN ups = {} THEN "reading" ELSE "putting"

Complete(left) == left = {}

Accepted ==
  LET left == pending \ {Head(toClient).id} IN
  /\ Reads("result") /\ phase = "subscribing" /\ mode = "events"
  /\ Head(toClient).id \in pending /\ Head(toClient).ok
  /\ Consume
  /\ pending' = left
  /\ PutAll(Head(toClient).ups, Complete(left))
  /\ IF Complete(left) THEN phase' = "ready" /\ Announce("connected")
                  ELSE UNCHANGED <<phase, announced, mailVars>>
  /\ UNCHANGED <<server, served, support, toServer, sess, mode, mainVars>>

Event ==
  /\ Reads("event") /\ phase \in {"subscribing", "ready"}
  /\ Head(toClient).id = IF mode = "entities" THEN IdEntities ELSE IdEvents
  /\ Consume
  /\ PutAll(Head(toClient).ups, phase = "ready")
  /\ UNCHANGED <<server, served, support, toServer, sess, phase, mode, pending, announced,
                 mailVars, mainVars>>

Put ==
  /\ runner = "putting"
  /\ \E u \in puts :
       /\ items' = PutUpdate(items, Update(u.entity, u.state))
       /\ puts' = puts \ {u}
  /\ runner' = IF puts' = {} THEN "reading" ELSE "putting"
  /\ UNCHANGED <<serverVars, sess, phase, mode, pending, announced, overflowed, mainVars>>

Client ==
  \/ AuthRequired \/ AuthOk \/ AuthInvalid
  \/ ReadyEntities \/ Fallback \/ Refused \/ Accepted \/ Event \/ Put

-----------------------------------------------------------------------------
(* The main thread: Bridge._drain_ha, at most DrainLimit entries a pass.     *)

\* The engine's states, each update of the batch applied.
Flushed == [e \in Entities |-> IF e \in DOMAIN batch THEN batch[e] ELSE heard[e]]

Collect(e, h) == [x \in DOMAIN batch \cup {e} |-> IF x = e THEN h ELSE batch[x]]

\* pending.clear()
AfterFlushMutant == batch
AfterFlush == NoUpdates

DrainUpdate ==
  LET item == Head(items) IN
  /\ drain < DrainLimit /\ items # <<>> /\ ~IsControl(item)
  /\ items' = Tail(items)
  /\ drain' = drain + 1
  /\ batch' = Collect(item.entity, item.state)
  /\ UNCHANGED <<serverVars, clientVars, overflowed, haState, heard, since>>

\* HaEngine.source_state: when the connection goes down everything heard is forgotten.
AfterSourceState(connected) ==
  IF haState = "connected" /\ ~connected THEN [e \in Entities |-> None] ELSE Flushed

DrainControl ==
  LET item == Head(items) IN
  /\ drain < DrainLimit /\ items # <<>> /\ IsControl(item)
  /\ items' = Tail(items)
  /\ drain' = drain + 1
  /\ batch' = AfterFlush
  /\ haState' = item.kind
  /\ heard' = AfterSourceState(item.kind = "connected")
  /\ since' = IF item.kind = "connected" THEN item.sess ELSE since
  /\ UNCHANGED <<serverVars, clientVars, overflowed>>

EndDrain ==
  /\ drain > 0
  /\ drain = DrainLimit \/ items = <<>>
  /\ drain' = 0
  /\ heard' = Flushed
  /\ batch' = NoUpdates
  /\ UNCHANGED <<serverVars, clientVars, mailVars, haState, since>>

Main == DrainUpdate \/ DrainControl \/ EndDrain

-----------------------------------------------------------------------------

Server == ServerAuth \/ ServerSubscribeEntities \/ ServerSubscribeEvents \/ ServerGetStates

Next ==
  \/ Server \/ \E e \in Entities : ServerChange(e)
  \/ Open \/ EndSession \/ Client
  \/ Main

Spec == Init /\ [][Next]_vars

\* A server that answers, a client thread and a main loop that run.
FairSpec == Spec /\ WF_vars(Server) /\ WF_vars(Open) /\ WF_vars(Client) /\ WF_vars(Main)

-----------------------------------------------------------------------------
(* Properties.                                                               *)

Kinds == {"connected", "disconnected", "disabled"}
HeardStates == [ver : 0 .. MaxChanges, gone : BOOLEAN, sess : 0 .. MaxSessions, early : BOOLEAN]
Items == [kind : {"update"}, entity : Entities, state : HeardStates]
           \cup [kind : Kinds, sess : 0 .. MaxSessions]
PartialOn(S) == UNION {[D -> S] : D \in SUBSET Entities}
Frames == [type : {"auth_required", "auth_ok", "auth_invalid", "result", "event"},
           id : 0 .. IdGetStates, ok : BOOLEAN, ups : PartialOn(States)]

\* Type invariant.  A batch exists only inside a pass, updates of a frame only while the client
\* puts them, and fallback ids are pending only before the session is ready.
TypeOK ==
  /\ server \in [Entities -> States]
  /\ served \in {"none", "entities", "events"} /\ support \in Modes
  /\ toServer \in Seq({"auth", "subscribe_entities", "subscribe_events", "get_states"})
  /\ \A i \in DOMAIN toClient : toClient[i] \in Frames
  /\ runner \in {"closed", "reading", "putting"} /\ sess \in 0 .. MaxSessions
  /\ phase \in {"new", "auth", "subscribing", "ready", "failed"}
  /\ mode \in {"none", "entities", "events"} /\ pending \subseteq {IdEvents, IdGetStates}
  /\ puts \subseteq [entity : Entities, state : HeardStates]
  /\ announced \in Kinds /\ haState \in Kinds /\ since \in 0 .. MaxSessions
  /\ \A i \in DOMAIN items : items[i] \in Items
  /\ drain \in 0 .. DrainLimit
  /\ batch \in PartialOn(HeardStates) /\ heard \in [Entities -> HeardStates]
  /\ drain = 0 => batch = NoUpdates
  /\ (runner = "putting") <=> (puts # {})
  /\ phase = "ready" => pending = {}

\* HaMailbox: however fast Home Assistant talks and however slowly the bridge drains, the
\* mailbox keeps at most MaxControls connection events and, between two of them, at most one
\* update of an entity.
MailboxBound ==
  /\ Controls(items) <= MaxControls
  /\ \A i, j \in DOMAIN items :
       i < j /\ ~IsControl(items[i]) /\ ~IsControl(items[j]) /\ items[i].entity = items[j].entity
         => \E k \in i .. j : IsControl(items[k])

\* Whatever the mailbox dropped, an empty mailbox means the bridge shows the connection state
\* the client announced last: the control event that survives an overflow is the newest.
DrainedAgrees == items = <<>> => haState = announced

\* MailboxTrue: the mailbox stays small and what it dropped does not matter once it is empty.
MailboxTrue == MailboxBound /\ DrainedAgrees

\* Nothing is shown "ok" on a connection with a value heard on an earlier one: when the
\* connection goes down everything heard is forgotten (HaEngine), also what the current drain
\* has collected and what the client thread had put just before.
ShownFresh ==
  haState = "connected" => \A e \in Entities : ~heard[e].gone => heard[e].sess >= since

\* FreshUnlessEarly: the exceptions are exactly two.  A value heard in a session that ended before
\* it was announced (fallback) has no event behind it that would forget it, and neither has any
\* value once the mailbox has overflowed; every other value shown is of the connection shown.
FreshUnlessEarly ==
  haState = "connected" /\ ~overflowed =>
    \A e \in Entities : heard[e].gone \/ heard[e].early \/ heard[e].sess = since

\* What the display shows of e is what Home Assistant says of e; what FreshUnlessEarly lets stay
\* is shown until the entity is heard of again, which a removed one never is.
Agrees(e) ==
  IF server[e].gone THEN heard[e].gone \/ heard[e].early \/ overflowed
  ELSE heard[e].ver = server[e].ver /\ ~heard[e].gone

\* A subscription that stays established brings every entity to its current state, including a
\* change between the subscription and the snapshot, or while the bridge was draining.
Settles ==
  <>[](runner # "closed" /\ phase = "ready")
    => <>[](haState = "connected" /\ \A e \in Entities : Agrees(e))
=============================================================================
