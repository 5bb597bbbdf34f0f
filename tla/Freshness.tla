------------------------------ MODULE Freshness ------------------------------
(***************************************************************************)
(* The bridge's main thread and the three engines it drives:               *)
(*                                                                         *)
(*   Engine       instruments: a reading, its severity, stale by age       *)
(*   EventEngine  SignalK notifications: fresh while SignalK is connected  *)
(*   HaEngine     Home Assistant items: fresh while HA is connected        *)
(*                                                                         *)
(* displays/topics.py; Bridge._loop, _pump, _idle, _tick, handle_message,  *)
(* _publish_summary and shutdown of displays/bridge.py.  What an engine    *)
(* publishes is the state of a retained topic (pub...); MqttPublisher      *)
(* carries it to the displays.                                             *)
(*                                                                         *)
(* SignalK is external: it sends changes, and on a new connection the      *)
(* active notifications, within Resend.  Time is a whole number of steps   *)
(* that pass only while the thread waits for a message, for the next try   *)
(* or for a connection attempt.  A delta carries one value.  The alarm     *)
(* summary's id list is kept as the sets it is cut from; timestamps are    *)
(* left out, the bridge clock too.                                         *)
(***************************************************************************)
EXTENDS Readings

CONSTANTS
  Instruments, Notifications, HaItems,
  Thresholds,      \* Thresholds[x] for an instrument or numeric item; <<>> when none
  Counted,         \* the items whose "alarm" is true
  Absent,          \* Absent[n]: how silence reads, "ok" or "unknown"
  Raws,            \* raw readings
  HaStates,        \* Home Assistant states: see HaResult
  StaleAfter, MinInterval, HaInterval, Heartbeat, TickInterval, Settle,
  ConnectTimeout,  \* open_timeout of a connection attempt
  Resend,          \* SignalK reports a change, or an active notification, within this time
  MaxTime          \* bound: the clock

Items == Instruments \cup Notifications \cup HaItems

ASSUME ItemsAssumption ==
  /\ Instruments \cap Notifications = {} /\ Instruments \cap HaItems = {}
  /\ Notifications \cap HaItems = {} /\ Counted \subseteq Items
  /\ Raws \subseteq Int
  /\ HaStates \subseteq [kind : {"gone"}] \cup [kind : {"number"}, raw : Int]
                        \cup [kind : {"state"}, index : Nat, sev : Levels]
ASSUME TimesAssumption ==
  /\ {StaleAfter, MinInterval, HaInterval, Heartbeat, ConnectTimeout, Resend, MaxTime} \subseteq Nat
  /\ TickInterval \in Nat \ {0}
  /\ Resend < Settle /\ Settle \in Nat

VARIABLES
  now,        \* the clock
  loop,       \* "connecting", "pumping", "waiting" (_idle) or "stopped"
  connectBy,  \* when the connection attempt gives up
  nextTick,   \* _next_tick
  inst,       \* Engine._state
  note,       \* EventEngine._state
  link,       \* EventEngine: connected, _ever_connected, _connected_at
  has,        \* HaEngine._state
  haLink,     \* HaEngine: connected, _ever_connected
  summary,    \* _summary_sent
  active,     \* SignalK: notification n is raised
  changedAt,  \* SignalK: when it last changed
  due         \* SignalK: by when n is reported, Never when nothing is under way

engineVars == <<inst, note, link, has, haLink>>
signalkVars == <<active, changedAt, due>>
loopVars == <<loop, connectBy, nextTick>>
vars == <<now, loopVars, engineVars, summary, signalkVars>>

Never == -1
NoReading == "none"

Init ==
  /\ now = 0 /\ loop = "connecting" /\ connectBy = ConnectTimeout /\ nextTick = 0
  /\ inst = [i \in Instruments |->
       [value |-> 0, sev |-> NoReading, received |-> Never, state |-> "missing",
        pubValue |-> 0, pubSev |-> NoReading, pubState |-> NoReading, pubTime |-> Never,
        dirty |-> FALSE]]
  /\ note = [n \in Notifications |->
       [sev |-> NoReading, pub |-> <<NoReading, NoReading>>, pubTime |-> Never]]
  /\ link = [up |-> FALSE, ever |-> FALSE, at |-> Never]
  /\ has = [h \in HaItems |->
       [result |-> <<NoReading, NoReading, 0, 0>>, pub |-> <<NoReading, NoReading, 0, 0>>,
        pubTime |-> Never]]
  /\ haLink = [up |-> FALSE, ever |-> FALSE]
  /\ summary = [content |-> [alarms |-> {}, warns |-> {}, unknown |-> {}], at |-> Never]
  /\ active \in [Notifications -> BOOLEAN]
  /\ changedAt = [n \in Notifications |-> 0]
  /\ due = [n \in Notifications |-> Never]

-----------------------------------------------------------------------------
(* Engine: instruments.                                                      *)

HasThresholds(i) == DOMAIN Thresholds[i] # {}

\* _emit
EmitInstrument(s, i) ==
  [s EXCEPT !.pubValue = IF s.state = "ok" THEN s.value ELSE 0,
            !.pubSev = IF ~HasThresholds(i) THEN NoReading
                       ELSE IF s.state = "ok" /\ s.sev # NoReading THEN s.sev ELSE "unknown",
            !.pubState = s.state, !.pubTime = now, !.dirty = FALSE]

\* The instrument after a reading, before deciding what to publish.
Received(s, i, raw) ==
  LET v == RoundHalfUp(raw) IN
  [s EXCEPT !.value = v,
            !.sev = IF HasThresholds(i)
                    THEN NumericSev(v, Thresholds[i], IF s.state = "ok" THEN s.sev ELSE NoReading)
                    ELSE s.sev,
            !.received = now, !.state = "ok"]

PostponedMutant(s) == s
Postponed(s) == [s EXCEPT !.dirty = TRUE]

UpdateInstrument(s, i, raw) ==
  LET r == Received(s, i, raw)
      changed == r.value # s.pubValue \/ r.sev # s.pubSev
  IN  CASE s.pubState # "ok" -> EmitInstrument(r, i)
        [] s.pubState = "ok" /\ changed /\ now - s.pubTime >= MinInterval -> EmitInstrument(r, i)
        [] s.pubState = "ok" /\ changed /\ now - s.pubTime < MinInterval -> Postponed(r)
        [] OTHER -> r

OutdatedMutant(s) == s.state = "ok" /\ now - s.pubTime > StaleAfter
Outdated(s) == s.state = "ok" /\ now - s.received > StaleAfter

Stale(s) == [s EXCEPT !.state = "stale", !.sev = NoReading]

OverdueMutant(s) == s.pubTime = Never \/ s.pubState # s.state \/ now - s.pubTime >= Heartbeat
\* What the display shows is out of date, or old enough to be said again.
Overdue(s) ==
  \/ s.pubTime = Never \/ s.pubState # s.state
  \/ s.dirty /\ now - s.pubTime >= MinInterval
  \/ now - s.pubTime >= Heartbeat

TickInstrument(s, i) ==
  IF Outdated(s) THEN EmitInstrument(Stale(s), i)
  ELSE IF Overdue(s) THEN EmitInstrument(s, i) ELSE s

-----------------------------------------------------------------------------
(* EventEngine: notifications.  l is the SignalK link.                       *)

Fresh(l) == IF l.up THEN "ok" ELSE IF l.ever THEN "stale" ELSE "missing"

\* Right after a connection nobody has reported yet: not known rather than fine.
SettlingMutant(l) == FALSE
Settling(l) == now - l.at < Settle

NotificationSevNow(s, n, l) ==
  CASE ~l.up -> "unknown"
    [] l.up /\ s.sev # NoReading -> s.sev
    [] l.up /\ s.sev = NoReading /\ Settling(l) -> "unknown"
    [] OTHER -> NotificationSev("cleared", Absent[n])

NotificationView(s, n, l) == <<Fresh(l), NotificationSevNow(s, n, l)>>

EmitNotification(s, n, l) == [s EXCEPT !.pub = NotificationView(s, n, l), !.pubTime = now]

UpdateNotification(s, n, state) ==
  LET r == [s EXCEPT !.sev = NotificationSev(state, Absent[n])]
  IN  IF NotificationView(r, n, link) = s.pub THEN r ELSE EmitNotification(r, n, link)

TickNotification(s, n) ==
  IF s.pubTime = Never \/ s.pub # NotificationView(s, n, link) \/ now - s.pubTime >= Heartbeat
  THEN EmitNotification(s, n, link) ELSE s

\* source_state: a connection that goes down takes everything heard with it.
Forgotten(s) == [s EXCEPT !.sev = NoReading]
NotificationsOn(l) ==
  [n \in Notifications |-> EmitNotification(IF l.up THEN note[n] ELSE Forgotten(note[n]), n, l)]

-----------------------------------------------------------------------------
(* HaEngine: items.  A result or a view is <<st, sev, k, v>>, as in the code. *)

Missing == <<"missing", "unknown", 0, 0>>

\* severity.ha_state for "gone" (also unavailable, not a number), a number or a matched state.
HaResult(h, x, prev) ==
  CASE x.kind = "gone" -> Missing
    [] x.kind = "number" ->
         LET v == RoundHalfUp(x.raw)
         IN  <<"ok", IF HasThresholds(h) THEN NumericSev(v, Thresholds[h], prev) ELSE "ok", 0, v>>
    [] x.kind = "state" -> <<"ok", x.sev, x.index, 0>>

HaView(s, up, ever) ==
  CASE up /\ s.result[1] = "ok" -> s.result
    [] up /\ s.result[1] # "ok" -> Missing
    [] ~up /\ ever -> <<"stale", "unknown", 0, 0>>
    [] OTHER -> Missing

EmitHa(s, up, ever) == [s EXCEPT !.pub = HaView(s, up, ever), !.pubTime = now]

\* set_state: only a changing number waits, for the next tick.
UpdateHa(s, h, x) ==
  LET prev == IF s.result[1] = "ok" THEN s.result[2] ELSE NoReading
      r == [s EXCEPT !.result = HaResult(h, x, prev)]
      view == HaView(r, haLink.up, haLink.ever)
  IN  IF /\ view # s.pub
         /\ \/ s.pubTime = Never
            \/ \E c \in 1 .. 3 : view[c] # s.pub[c]
            \/ now - s.pubTime >= HaInterval
      THEN EmitHa(r, haLink.up, haLink.ever) ELSE r

HaOverdue(s) ==
  \/ s.pubTime = Never \/ now - s.pubTime >= Heartbeat
  \/ s.pub # HaView(s, haLink.up, haLink.ever) /\ now - s.pubTime >= HaInterval

TickHa(s) == IF HaOverdue(s) THEN EmitHa(s, haLink.up, haLink.ever) ELSE s

HaOn(up, ever) ==
  [h \in HaItems |->
     EmitHa(IF up THEN has[h] ELSE [has[h] EXCEPT !.result = <<NoReading, NoReading, 0, 0>>],
            up, ever)]

-----------------------------------------------------------------------------
(* topics.alarm_summary and Bridge._publish_summary.                         *)

InstrumentSev(i) ==
  CASE inst[i].state # "ok" -> "unknown"
    [] inst[i].state = "ok" /\ ~HasThresholds(i) -> "ok"
    [] OTHER -> IF inst[i].sev = NoReading THEN "unknown" ELSE inst[i].sev

ItemSev(x) ==
  CASE x \in Instruments -> InstrumentSev(x)
    [] x \in Notifications -> NotificationSevNow(note[x], x, link)
    [] x \in HaItems -> HaView(has[x], haLink.up, haLink.ever)[2]

CountedAs(sev) == {x \in Counted : ItemSev(x) = sev}

Content == [alarms |-> CountedAs("alarm"), warns |-> CountedAs("warn"),
            unknown |-> CountedAs("unknown")]
AllUnknown == [alarms |-> {}, warns |-> {}, unknown |-> Counted]

SummaryMax(c) ==
  CASE c.alarms # {} -> "alarm"
    [] c.alarms = {} /\ c.warns # {} -> "warn"
    [] c.alarms = {} /\ c.warns = {} /\ c.unknown # {} -> "unknown"
    [] OTHER -> "ok"

\* After a handler: on change and every heartbeat; nothing when no item counts.
SummaryDue == summary.at = Never \/ Content' # summary.content \/ now - summary.at >= Heartbeat

PublishSummary ==
  /\ UNCHANGED now
  /\ summary' = IF Counted # {} /\ SummaryDue THEN [content |-> Content', at |-> now] ELSE summary

-----------------------------------------------------------------------------
(* SignalK.                                                                  *)

\* A notification is raised or cleared; a connected server reports it within Resend.
Toggle(n) ==
  /\ now < MaxTime
  /\ active' = [active EXCEPT ![n] = ~@]
  /\ changedAt' = [changedAt EXCEPT ![n] = now]
  /\ due' = [due EXCEPT ![n] = IF link.up /\ @ = Never THEN now + Resend ELSE @]
  /\ UNCHANGED <<now, loopVars, engineVars, summary>>

-----------------------------------------------------------------------------
(* The main thread.                                                          *)

\* Bridge._set_signalk: every notification and the summary, then the state itself.
SetSignalk(up) ==
  LET l == [up |-> up, ever |-> link.ever \/ up, at |-> IF up THEN now ELSE Never] IN
  /\ link' = l
  /\ note' = NotificationsOn(l)
  /\ PublishSummary

SignalkOpens ==
  /\ loop = "connecting"
  /\ loop' = "pumping"
  /\ UNCHANGED <<inst, has, haLink>>
  /\ SetSignalk(TRUE)
  /\ due' = [n \in Notifications |-> IF active[n] THEN now + Resend ELSE Never]
  /\ UNCHANGED <<connectBy, nextTick, active, changedAt>>

SignalkFails ==
  /\ loop = "connecting"
  /\ loop' = "waiting"
  /\ UNCHANGED <<now, connectBy, nextTick, engineVars, summary, signalkVars>>

SignalkCloses ==
  /\ loop = "pumping"
  /\ loop' = "waiting"
  /\ UNCHANGED <<inst, has, haLink>>
  /\ SetSignalk(FALSE)
  /\ due' = [n \in Notifications |-> Never]
  /\ UNCHANGED <<connectBy, nextTick, active, changedAt>>

\* _idle ends, after a look at the clock.
Retry ==
  /\ loop = "waiting" /\ now < nextTick
  /\ loop' = "connecting" /\ connectBy' = now + ConnectTimeout
  /\ UNCHANGED <<now, nextTick, engineVars, summary, signalkVars>>

\* handle_message: a value on an instrument's path; a reading that cannot be rounded is dropped.
ReadingArrives(i, raw) ==
  /\ loop = "pumping"
  /\ inst' = [inst EXCEPT ![i] = IF Readable(raw) THEN UpdateInstrument(@, i, raw) ELSE @]
  /\ UNCHANGED <<note, link, has, haLink>>
  /\ PublishSummary
  /\ UNCHANGED <<loopVars, signalkVars>>

NotificationArrives(n) ==
  /\ loop = "pumping" /\ due[n] # Never
  /\ note' = [note EXCEPT ![n] = UpdateNotification(@, n, IF active[n] THEN "alarm" ELSE "normal")]
  /\ due' = [due EXCEPT ![n] = Never]
  /\ UNCHANGED <<inst, link, has, haLink>>
  /\ PublishSummary
  /\ UNCHANGED <<loopVars, active, changedAt>>

Looping == loop \in {"pumping", "waiting"}

\* _drain_ha: _set_ha and set_state, then the summary.
HaConnects(up) ==
  /\ Looping /\ HaItems # {} /\ up # haLink.up
  /\ haLink' = [up |-> up, ever |-> haLink.ever \/ up]
  /\ has' = HaOn(up, haLink.ever \/ up)
  /\ UNCHANGED <<inst, note, link>>
  /\ PublishSummary
  /\ UNCHANGED <<loopVars, signalkVars>>

HaStateArrives(h, x) ==
  /\ Looping
  /\ has' = [has EXCEPT ![h] = UpdateHa(@, h, x)]
  /\ UNCHANGED <<inst, note, link, haLink>>
  /\ PublishSummary
  /\ UNCHANGED <<loopVars, signalkVars>>

Tick ==
  /\ Looping /\ now >= nextTick
  /\ nextTick' = now + TickInterval
  /\ inst' = [i \in Instruments |-> TickInstrument(inst[i], i)]
  /\ note' = [n \in Notifications |-> TickNotification(note[n], n)]
  /\ has' = [h \in HaItems |-> TickHa(has[h])]
  /\ UNCHANGED <<link, haLink>>
  /\ PublishSummary
  /\ UNCHANGED <<loop, connectBy, signalkVars>>

\* shutdown: both sources down, then a last summary in which every counted item is unknown.
Shutdown ==
  LET l == [link EXCEPT !.up = FALSE, !.at = Never] IN
  /\ Looping
  /\ loop' = "stopped"
  /\ link' = l
  /\ note' = IF link.up THEN NotificationsOn(l) ELSE note
  /\ haLink' = [haLink EXCEPT !.up = FALSE]
  /\ has' = IF haLink.up THEN HaOn(FALSE, TRUE) ELSE has
  /\ summary' = IF Counted # {} THEN [content |-> AllUnknown, at |-> now] ELSE summary
  /\ due' = [n \in Notifications |-> Never]
  /\ UNCHANGED <<now, connectBy, nextTick, inst, active, changedAt>>

\* Time passes in recv, in _wait or in connect.
Elapse ==
  /\ now < MaxTime /\ loop # "stopped"
  /\ IF loop = "connecting" THEN now < connectBy ELSE now < nextTick
  /\ \A n \in Notifications : due[n] # Never => now < due[n]
  /\ now' = now + 1
  /\ UNCHANGED <<loopVars, engineVars, summary, signalkVars>>

Next ==
  \/ \E n \in Notifications : Toggle(n) \/ NotificationArrives(n)
  \/ \E i \in Instruments, raw \in Raws : ReadingArrives(i, raw)
  \/ \E up \in BOOLEAN : HaConnects(up)
  \/ \E h \in HaItems, x \in HaStates : HaStateArrives(h, x)
  \/ SignalkOpens \/ SignalkFails \/ SignalkCloses \/ Retry
  \/ Tick \/ Shutdown \/ Elapse

Spec == Init /\ [][Next]_vars

-----------------------------------------------------------------------------
(* Properties.                                                               *)

\* Two ticks are never further apart: one is due every TickInterval, and a connection attempt
\* that starts just before it holds the thread.
MaxGap == TickInterval + ConnectTimeout

Severities == Levels \cup {"unknown"}
Views == {"missing", "stale", "ok", NoReading} \X (Severities \cup {NoReading}) \X Nat \X Int

\* Type invariant; an instrument's published state is its state once anything was published, and
\* the connection time exists exactly while SignalK is connected.
TypeOK ==
  /\ now \in 0 .. MaxTime /\ nextTick \in Nat /\ connectBy \in Nat
  /\ loop \in {"connecting", "pumping", "waiting", "stopped"}
  /\ inst \in [Instruments ->
       [value : Int, sev : Levels \cup {NoReading}, received : Nat \cup {Never},
        state : {"missing", "ok", "stale"}, pubValue : Int,
        pubSev : Severities \cup {NoReading}, pubState : {"missing", "ok", "stale", NoReading},
        pubTime : Nat \cup {Never}, dirty : BOOLEAN]]
  /\ note \in [Notifications ->
       [sev : Severities \cup {NoReading},
        pub : {"missing", "stale", "ok", NoReading} \X (Severities \cup {NoReading}),
        pubTime : Nat \cup {Never}]]
  /\ has \in [HaItems -> [result : Views, pub : Views, pubTime : Nat \cup {Never}]]
  /\ link \in [up : BOOLEAN, ever : BOOLEAN, at : Nat \cup {Never}]
  /\ haLink \in [up : BOOLEAN, ever : BOOLEAN]
  /\ active \in [Notifications -> BOOLEAN] /\ changedAt \in [Notifications -> Nat]
  /\ due \in [Notifications -> Nat \cup {Never}]
  /\ summary \in [content : [alarms : SUBSET Counted, warns : SUBSET Counted,
                             unknown : SUBSET Counted], at : Nat \cup {Never}]
  /\ link.up <=> link.at # Never
  /\ \A i \in Instruments : inst[i].pubTime # Never => inst[i].pubState = inst[i].state

\* Engine: a value or severity the display does not show yet is marked for the tick, whatever
\* the order of readings, rate limit and heartbeats.
NoLostChange ==
  \A i \in Instruments : LET s == inst[i] IN
    s.state = "ok" /\ (s.value # s.pubValue \/ s.sev # s.pubSev) => s.dirty

\* What a display shows lags what the bridge knows by the rate limit and one gap between ticks,
\* for instruments and Home Assistant items.
ShownSoon ==
  loop # "stopped" =>
    /\ \A i \in Instruments : inst[i].dirty => now - inst[i].pubTime <= MinInterval + MaxGap
    /\ \A h \in HaItems : has[h].pub # HaView(has[h], haLink.up, haLink.ever) /\ has[h].pubTime # Never
         => now - has[h].pubTime <= HaInterval + MaxGap

\* Engine: nothing is shown "ok" longer than stale_after_s after its last reading, but for one
\* gap between ticks; a heartbeat never rejuvenates a value.
StaleInTime ==
  loop # "stopped" =>
    \A i \in Instruments : inst[i].pubState = "ok" => now - inst[i].received <= StaleAfter + MaxGap

\* EventEngine: while SignalK is connected, a notification is shown green, or red, against the
\* facts only for the time SignalK takes to report a change: not after a reconnection either,
\* where an alarm raised or cleared during the outage was never announced as such.
NotificationTrue ==
  link.up => \A n \in Notifications :
    now - changedAt[n] > Resend =>
      /\ note[n].pub[2] = "ok" => ~active[n]
      /\ note[n].pub[2] = "alarm" => active[n]

\* The alarm summary names every item that is an alarm and no other, and never says "ok" while an
\* item is unknown or worse; after a clean stop it says "unknown".
SummaryTrue ==
  summary.at # Never =>
    IF loop = "stopped" THEN SummaryMax(summary.content) = "unknown"
    ELSE /\ summary.content.alarms = CountedAs("alarm")
         /\ summary.content.warns = CountedAs("warn")
         /\ CountedAs("unknown") \subseteq summary.content.unknown

\* The board of instruments: what changed is shown in time, and the summary counts what is shown.
BoardTrue == ShownSoon /\ SummaryTrue

\* The same of notifications and Home Assistant items; and while SignalK is connected, a notification is
\* green or red against the facts only for the time SignalK takes to report a change.
SourcesTrue == NotificationTrue /\ ShownSoon /\ SummaryTrue
=============================================================================
