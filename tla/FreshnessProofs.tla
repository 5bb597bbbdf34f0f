--------------------------- MODULE FreshnessProofs ---------------------------
(***************************************************************************)
(* No instrument change is lost, for every configuration, clock and        *)
(* sequence of readings.                                                   *)
(***************************************************************************)
EXTENDS Freshness, TLAPS

\* What the engine keeps true of one instrument: it has a severity exactly when it is ok and has
\* thresholds, what is ok was published as ok, and what differs from the display is marked.
InstrumentInv(s, i) ==
  /\ HasThresholds(i) => (s.state = "ok" <=> s.sev # NoReading)
  /\ ~HasThresholds(i) => s.sev = NoReading
  /\ s.state = "ok" => s.pubState = "ok"
  /\ s.state = "ok" /\ (s.value # s.pubValue \/ s.sev # s.pubSev) => s.dirty

States == {"missing", "ok", "stale"}
Instrument ==
  [value : Int, sev : Levels \cup {NoReading}, received : Nat \cup {Never}, state : States,
   pubValue : Int, pubSev : Severities \cup {NoReading}, pubState : States \cup {NoReading},
   pubTime : Nat \cup {Never}, dirty : BOOLEAN]

EngineInv ==
  /\ now \in Nat
  /\ inst \in [Instruments -> Instrument]
  /\ \A i \in Instruments : InstrumentInv(inst[i], i)

LEMMA RoundInt == \A n \in Int : RoundHalfUp(n) \in Int
BY UnitAssumption, SMT DEF RoundHalfUp

LEMMA SevIsLevel ==
  ASSUME NEW v, NEW t, NEW prev
  PROVE  NumericSev(v, t, prev) \in Levels /\ NumericSev(v, t, prev) # NoReading
BY Zenon DEF NumericSev, Levels, NoReading

\* _emit brings the display up to date.
LEMMA EmitKeeps ==
  ASSUME NEW s, NEW i, now \in Nat, s \in Instrument,
         HasThresholds(i) => (s.state = "ok" <=> s.sev # NoReading),
         ~HasThresholds(i) => s.sev = NoReading
  PROVE  EmitInstrument(s, i) \in Instrument /\ InstrumentInv(EmitInstrument(s, i), i)
<1> DEFINE e == EmitInstrument(s, i)
<1> DEFINE pv == IF s.state = "ok" THEN s.value ELSE 0
<1> DEFINE ps == IF ~HasThresholds(i) THEN NoReading
                 ELSE IF s.state = "ok" /\ s.sev # NoReading THEN s.sev ELSE "unknown"
<1>1. pv \in Int /\ ps \in Severities \cup {NoReading} BY DEF Instrument, States, Severities, Levels, NoReading, Never
<1>2. e = [s EXCEPT !.pubValue = pv, !.pubSev = ps, !.pubState = s.state,
                    !.pubTime = now, !.dirty = FALSE]
  BY DEF EmitInstrument
<1> HIDE DEF e, pv, ps
<1>3. e \in Instrument BY <1>1, <1>2 DEF Instrument, States
<1>4. /\ e.value = s.value /\ e.sev = s.sev /\ e.state = s.state
      /\ e.pubValue = pv /\ e.pubSev = ps /\ e.pubState = s.state
  BY <1>2 DEF Instrument
<1>5. InstrumentInv(e, i)
  <2>1. s.state = "ok" => pv = s.value /\ ps = s.sev BY DEF pv, ps
  <2> QED BY <1>4, <2>1 DEF InstrumentInv
<1> QED BY <1>3, <1>5 DEF e

\* Engine.update
LEMMA UpdateKeeps ==
  ASSUME NEW s, NEW i, NEW raw \in Int, now \in Nat, s \in Instrument, InstrumentInv(s, i)
  PROVE  UpdateInstrument(s, i, raw) \in Instrument /\ InstrumentInv(UpdateInstrument(s, i, raw), i)
<1> DEFINE v == RoundHalfUp(raw)
<1> DEFINE m == NumericSev(v, Thresholds[i], IF s.state = "ok" THEN s.sev ELSE NoReading)
<1> DEFINE r == Received(s, i, raw)
<1> DEFINE u == UpdateInstrument(s, i, raw)
<1> DEFINE rs == IF HasThresholds(i) THEN m ELSE s.sev
<1>1. m \in Levels /\ m # NoReading /\ v \in Int BY SevIsLevel, RoundInt
<1>2. rs \in Levels \cup {NoReading} BY <1>1 DEF Instrument
<1>3. r = [s EXCEPT !.value = v, !.sev = rs, !.received = now, !.state = "ok"]
  BY DEF Received
<1> HIDE DEF m, v, rs, r
<1>31. r \in Instrument BY <1>1, <1>2, <1>3 DEF Instrument, States
<1>32. /\ r.state = "ok" /\ r.sev = rs /\ r.pubTime = s.pubTime /\ r.pubState = s.pubState
       /\ r.pubValue = s.pubValue /\ r.pubSev = s.pubSev
  BY <1>3 DEF Instrument
<1>4. /\ HasThresholds(i) => (r.state = "ok" <=> r.sev # NoReading)
      /\ ~HasThresholds(i) => r.sev = NoReading
  BY <1>1, <1>32 DEF InstrumentInv, rs
<1>5. Postponed(r) = [r EXCEPT !.dirty = TRUE] BY DEF Postponed
<1>6. u = IF s.pubState # "ok" THEN EmitInstrument(r, i)
          ELSE IF ~(r.value # s.pubValue \/ r.sev # s.pubSev) THEN r
          ELSE IF now - s.pubTime >= MinInterval THEN EmitInstrument(r, i) ELSE Postponed(r)
  <2>1. now - s.pubTime >= MinInterval <=> ~(now - s.pubTime < MinInterval)
    BY TimesAssumption DEF Instrument, Never
  <2> QED BY <2>1, Zenon DEF UpdateInstrument, r
<1> HIDE DEF u
<1>8. CASE s.pubState # "ok"
  BY <1>8, <1>31, <1>4, <1>6, EmitKeeps DEF u
<1>9. CASE s.pubState = "ok" /\ ~(r.value # s.pubValue \/ r.sev # s.pubSev)
  BY <1>9, <1>31, <1>32, <1>4, <1>6 DEF InstrumentInv, u
<1>10. CASE /\ s.pubState = "ok" /\ (r.value # s.pubValue \/ r.sev # s.pubSev)
            /\ now - s.pubTime >= MinInterval
  BY <1>10, <1>31, <1>4, <1>6, EmitKeeps DEF u
<1>11. CASE /\ s.pubState = "ok" /\ (r.value # s.pubValue \/ r.sev # s.pubSev)
            /\ ~(now - s.pubTime >= MinInterval)
  <2>1. u = [r EXCEPT !.dirty = TRUE] BY <1>11, <1>5, <1>6
  <2>2. u \in Instrument BY <2>1, <1>31 DEF Instrument
  <2>3. u.state = "ok" /\ u.sev = r.sev /\ u.pubState = r.pubState /\ u.dirty
    BY <2>1, <1>31, <1>32 DEF Instrument
  <2>4. InstrumentInv(u, i) BY <2>3, <1>32, <1>4, <1>11 DEF InstrumentInv
  <2> QED BY <2>2, <2>4 DEF u
<1> QED BY <1>8, <1>9, <1>10, <1>11

\* Engine.tick
LEMMA TickKeeps ==
  ASSUME NEW s, NEW i, now \in Nat, s \in Instrument, InstrumentInv(s, i)
  PROVE  TickInstrument(s, i) \in Instrument /\ InstrumentInv(TickInstrument(s, i), i)
<1>1. CASE Outdated(s)
  <2>1. Stale(s) = [s EXCEPT !.state = "stale", !.sev = NoReading] BY DEF Stale
  <2>2. Stale(s) \in Instrument BY <2>1 DEF Instrument, States
  <2>3. Stale(s).state # "ok" /\ Stale(s).sev = NoReading BY <2>1 DEF Instrument
  <2>4. TickInstrument(s, i) = EmitInstrument(Stale(s), i) BY <1>1 DEF TickInstrument
  <2> QED BY <2>2, <2>3, <2>4, EmitKeeps
<1>2. CASE ~Outdated(s) /\ Overdue(s)
  <2>1. TickInstrument(s, i) = EmitInstrument(s, i) BY <1>2 DEF TickInstrument
  <2> QED BY <2>1, EmitKeeps DEF InstrumentInv
<1>3. CASE ~Outdated(s) /\ ~Overdue(s)
  BY <1>3 DEF TickInstrument
<1> QED BY <1>1, <1>2, <1>3

LEMMA EngineInit == Init => EngineInv
<1> SUFFICES ASSUME Init PROVE EngineInv
    OBVIOUS
<1>1. now \in Nat BY DEF Init
<1>2. ASSUME NEW i \in Instruments PROVE inst[i] \in Instrument /\ InstrumentInv(inst[i], i)
  <2>1. inst[i] = [value |-> 0, sev |-> NoReading, received |-> Never, state |-> "missing",
                   pubValue |-> 0, pubSev |-> NoReading, pubState |-> NoReading,
                   pubTime |-> Never, dirty |-> FALSE]
    BY DEF Init
  <2>2. inst[i] \in Instrument BY <2>1 DEF Instrument, States, Severities, Levels, NoReading, Never
  <2>3. InstrumentInv(inst[i], i) BY <2>1 DEF InstrumentInv, Never
  <2> QED BY <2>2, <2>3
<1>3. inst \in [Instruments -> Instrument] BY <1>2 DEF Init
<1> QED BY <1>1, <1>2, <1>3 DEF EngineInv

LEMMA EngineInductive == EngineInv /\ [Next]_vars => EngineInv'
<1> SUFFICES ASSUME EngineInv, [Next]_vars PROVE EngineInv'
    OBVIOUS
<1> USE DEF EngineInv
<1>0. ASSUME UNCHANGED inst, now' \in Nat PROVE EngineInv'
  <2>1. inst' = inst BY <1>0
  <2>2. \A i \in Instruments : inst'[i] = inst[i] BY <2>1
  <2>3. \A i \in Instruments : inst'[i] \in Instrument /\ InstrumentInv(inst'[i], i)
    BY <2>2
  <2> QED BY <1>0, <2>1, <2>3 DEF InstrumentInv, HasThresholds
<1>1. ASSUME NEW i \in Instruments, NEW raw \in Raws, ReadingArrives(i, raw) PROVE EngineInv'
  <2>1. now' = now BY <1>1 DEF ReadingArrives, PublishSummary
  <2>2. inst' = [inst EXCEPT ![i] = IF Readable(raw) THEN UpdateInstrument(@, i, raw) ELSE @]
    BY <1>1 DEF ReadingArrives
  <2>3. ASSUME NEW j \in Instruments PROVE inst'[j] \in Instrument /\ InstrumentInv(inst'[j], j)
    <3>1. inst'[j] = IF j = i /\ Readable(raw) THEN UpdateInstrument(inst[j], j, raw)
                     ELSE inst[j]
      BY <2>2
    <3>2. inst[j] \in Instrument /\ InstrumentInv(inst[j], j) OBVIOUS
    <3>3. UpdateInstrument(inst[j], j, raw) \in Instrument
            /\ InstrumentInv(UpdateInstrument(inst[j], j, raw), j)
      BY <3>2, UpdateKeeps, ItemsAssumption
    <3> QED BY <3>1, <3>2, <3>3
  <2>4. inst' \in [Instruments -> Instrument] BY <2>2, <2>3
  <2> QED BY <2>1, <2>3, <2>4
<1>2. CASE Tick
  <2>1. now' = now BY <1>2 DEF Tick, PublishSummary
  <2>2. inst' = [i \in Instruments |-> TickInstrument(inst[i], i)] BY <1>2 DEF Tick
  <2>3. ASSUME NEW j \in Instruments PROVE inst'[j] \in Instrument /\ InstrumentInv(inst'[j], j)
    BY <2>2, TickKeeps
  <2>4. inst' \in [Instruments -> Instrument] BY <2>2, <2>3
  <2> QED BY <2>1, <2>3, <2>4
<1>3. ASSUME NEW n \in Notifications, Toggle(n) \/ NotificationArrives(n) PROVE EngineInv'
  BY <1>0, <1>3 DEF Toggle, NotificationArrives, PublishSummary, engineVars
<1>4. ASSUME NEW up \in BOOLEAN, HaConnects(up) PROVE EngineInv'
  BY <1>0, <1>4 DEF HaConnects, PublishSummary
<1>5. ASSUME NEW h \in HaItems, NEW x \in HaStates, HaStateArrives(h, x) PROVE EngineInv'
  BY <1>0, <1>5 DEF HaStateArrives, PublishSummary
<1>6. CASE SignalkOpens \/ SignalkCloses
  BY <1>0, <1>6 DEF SignalkOpens, SignalkCloses, SetSignalk, PublishSummary
<1>7. CASE SignalkFails \/ Retry \/ Shutdown
  BY <1>0, <1>7 DEF SignalkFails, Retry, Shutdown, engineVars
<1>8. CASE Elapse BY <1>0, <1>8 DEF Elapse, engineVars
<1>9. CASE UNCHANGED vars BY <1>0, <1>9 DEF vars, engineVars
<1> QED BY <1>1, <1>2, <1>3, <1>4, <1>5, <1>6, <1>7, <1>8, <1>9 DEF Next

\* A value or severity the display does not show yet is marked for the next tick, for every
\* configuration of instruments, thresholds and rate limits.
THEOREM NothingLost == Spec => []NoLostChange
<1>1. EngineInv => NoLostChange BY DEF EngineInv, InstrumentInv, NoLostChange
<1> QED BY <1>1, EngineInit, EngineInductive, PTL DEF Spec

-----------------------------------------------------------------------------
(* The clock, and what is out of date for how long.                          *)

\* The thread is never later for a tick than a connection attempt that began before it was due.
ClockInv ==
  /\ now \in Nat /\ nextTick \in Nat /\ connectBy \in Nat
  /\ loop \in {"connecting", "pumping", "waiting", "stopped"}
  /\ nextTick <= now + TickInterval
  /\ loop # "stopped" => now <= nextTick + ConnectTimeout
  /\ loop = "connecting" => now <= connectBy /\ connectBy <= nextTick + ConnectTimeout

\* The last tick found no reading too old, and no marked change with its rate limit over.
Timely(s) ==
  /\ s.pubState = "ok" => s.state = "ok"
  /\ s.dirty => nextTick < s.pubTime + MinInterval + TickInterval
  /\ s.state = "ok" => nextTick <= s.received + StaleAfter + TickInterval

InstrumentsTimely == \A i \in Instruments : Timely(inst[i])

HaItem == [result : Views, pub : Views, pubTime : Nat \cup {Never}]

HaTimely(s) ==
  s.pub # HaView(s, haLink.up, haLink.ever) /\ s.pubTime # Never
    => nextTick < s.pubTime + HaInterval + TickInterval

HaInv ==
  /\ has \in [HaItems -> HaItem] /\ haLink \in [up : BOOLEAN, ever : BOOLEAN]
  /\ loop # "stopped" => \A h \in HaItems : HaTimely(has[h])

-----------------------------------------------------------------------------
(* The summary.                                                              *)

LinkInv ==
  /\ link \in [up : BOOLEAN, ever : BOOLEAN, at : Nat \cup {Never}]
  /\ link.up => loop = "pumping" /\ link.at \in Nat /\ link.at <= now

SummaryInv ==
  /\ summary \in [content : [alarms : SUBSET Counted, warns : SUBSET Counted,
                             unknown : SUBSET Counted], at : Nat \cup {Never}]
  /\ Counted = {} => summary.at = Never
  /\ SummaryTrue

-----------------------------------------------------------------------------
(* Notifications.                                                            *)

Notification ==
  [sev : Severities \cup {NoReading},
   pub : {"missing", "stale", "ok", NoReading} \X (Severities \cup {NoReading}),
   pubTime : Nat \cup {Never}]

\* What was heard is true unless a report of a change is under way.
Informed(n) ==
  due[n] = Never =>
    \/ note[n].sev = NoReading /\ ~active[n]
    \/ note[n].sev = IF active[n] THEN "alarm" ELSE "ok"

\* A report under way is of a change no longer ago than it takes, or of a notification that was
\* raised when the connection opened and of which nothing was heard.
Reported(n) ==
  due[n] # Never =>
    /\ now <= due[n]
    /\ \/ due[n] <= changedAt[n] + Resend
       \/ note[n].sev = NoReading /\ active[n] /\ due[n] <= link.at + Resend

\* What is shown is what was heard; silence is shown as fine only when it has lasted.
Shown(n) ==
  LET sev == note[n].sev shown == note[n].pub[2] IN
  /\ sev \in {NoReading, "ok", "alarm"}
  /\ sev # NoReading => shown = sev
  /\ sev = NoReading => shown = "unknown" \/ (shown = "ok" /\ ~Settling(link))

NoteInv ==
  /\ note \in [Notifications -> Notification]
  /\ active \in [Notifications -> BOOLEAN]
  /\ changedAt \in [Notifications -> Nat] /\ due \in [Notifications -> Nat \cup {Never}]
  /\ \A n \in Notifications : changedAt[n] <= now
  /\ link.up => \A n \in Notifications : Informed(n) /\ Reported(n) /\ Shown(n)
  /\ ~link.up => \A n \in Notifications : note[n].sev = NoReading /\ due[n] = Never

-----------------------------------------------------------------------------
(* The clock and the instruments.                                            *)

\* What the handlers leave to the loop.
LEMMA HandlersKeepTime ==
  ASSUME NEW n, NEW i, NEW raw, NEW up, NEW h, NEW x,
         NotificationArrives(n) \/ ReadingArrives(i, raw) \/ HaConnects(up) \/ HaStateArrives(h, x)
  PROVE  UNCHANGED <<now, loop, connectBy, nextTick>>
BY DEF NotificationArrives, ReadingArrives, HaConnects, HaStateArrives, PublishSummary, loopVars

LEMMA ClockInit == Init => ClockInv
BY TimesAssumption DEF Init, ClockInv

LEMMA ClockStep == ClockInv /\ [Next]_vars => ClockInv'
<1> SUFFICES ASSUME ClockInv, [Next]_vars PROVE ClockInv' OBVIOUS
<1>1. TickInterval \in Nat \ {0} /\ ConnectTimeout \in Nat BY TimesAssumption
<1>2. ASSUME UNCHANGED <<now, loop, connectBy, nextTick>> PROVE ClockInv' BY <1>2 DEF ClockInv
<1>3. CASE \E n \in Notifications : Toggle(n) BY <1>2, <1>3 DEF Toggle, loopVars
<1>4. CASE \/ \E n \in Notifications : NotificationArrives(n)
           \/ \E i \in Instruments, raw \in Raws : ReadingArrives(i, raw)
           \/ \E up \in BOOLEAN : HaConnects(up)
           \/ \E h \in HaItems, x \in HaStates : HaStateArrives(h, x)
  BY <1>2, <1>4, HandlersKeepTime
<1>5. CASE SignalkOpens
  BY <1>1, <1>5 DEF SignalkOpens, SetSignalk, PublishSummary, ClockInv
<1>6. CASE SignalkFails BY <1>1, <1>6 DEF SignalkFails, ClockInv
<1>7. CASE SignalkCloses BY <1>1, <1>7 DEF SignalkCloses, SetSignalk, PublishSummary, ClockInv
<1>8. CASE Retry BY <1>1, <1>8 DEF Retry, ClockInv
<1>9. CASE Tick
  <2>1. /\ now' = now /\ nextTick' = now + TickInterval /\ loop \in {"pumping", "waiting"}
        /\ UNCHANGED <<loop, connectBy>>
    BY <1>9 DEF Tick, Looping, PublishSummary
  <2> QED BY <1>1, <2>1 DEF ClockInv
<1>10. CASE Shutdown BY <1>1, <1>10 DEF Shutdown, ClockInv
<1>11. CASE Elapse BY <1>1, <1>11 DEF Elapse, loopVars, ClockInv
<1>12. CASE UNCHANGED vars BY <1>2, <1>12 DEF vars, loopVars
<1> QED BY <1>3, <1>4, <1>5, <1>6, <1>7, <1>8, <1>9, <1>10, <1>11, <1>12 DEF Next

\* _emit: nothing waits any more.
LEMMA EmitTimes ==
  ASSUME NEW s \in Instrument, NEW i
  PROVE  LET e == EmitInstrument(s, i) IN
         e.pubState = s.state /\ e.state = s.state /\ e.received = s.received /\ ~e.dirty
BY DEF EmitInstrument, Instrument

LEMMA UpdateTimely ==
  ASSUME ClockInv, NEW s \in Instrument, NEW i, NEW raw \in Int, Timely(s)
  PROVE  Timely(UpdateInstrument(s, i, raw))
<1> DEFINE u == UpdateInstrument(s, i, raw)
           r == Received(s, i, raw)
<1>1. /\ now \in Nat /\ nextTick \in Nat /\ nextTick <= now + TickInterval
      /\ TickInterval \in Nat /\ MinInterval \in Nat /\ StaleAfter \in Nat
  BY TimesAssumption DEF ClockInv
<1>2. r \in Instrument
  <2>1. RoundHalfUp(raw) \in Int BY RoundInt
  <2>2. \A prev : NumericSev(RoundHalfUp(raw), Thresholds[i], prev) \in Levels \cup {NoReading}
    BY SevIsLevel
  <2> DEFINE v == RoundHalfUp(raw)
             m == NumericSev(v, Thresholds[i], IF s.state = "ok" THEN s.sev ELSE NoReading)
             rs == IF HasThresholds(i) THEN m ELSE s.sev
  <2>3. rs \in Levels \cup {NoReading} BY <2>2 DEF Instrument
  <2>4. r = [s EXCEPT !.value = v, !.sev = rs, !.received = now, !.state = "ok"] BY DEF Received
  <2>5. v \in Int BY <2>1
  <2> HIDE DEF v, m, rs, r
  <2> QED BY <1>1, <2>3, <2>4, <2>5 DEF Instrument, States
<1>3. /\ r.state = "ok" /\ r.received = now /\ r.pubTime = s.pubTime /\ r.pubState = s.pubState
      /\ r.dirty = s.dirty
  BY DEF Received, Instrument
<1>4. \/ u = EmitInstrument(r, i)
      \/ u = r /\ s.pubState = "ok"
      \/ u = Postponed(r) /\ now - s.pubTime < MinInterval /\ s.pubState = "ok"
  <2>1. now - s.pubTime >= MinInterval <=> ~(now - s.pubTime < MinInterval)
    BY <1>1 DEF Instrument, Never
  <2> QED BY <2>1, Zenon DEF UpdateInstrument
<1> HIDE DEF r, u
<1>5. CASE u = EmitInstrument(r, i)
  <2>1. /\ u.pubState = "ok" /\ u.state = "ok" /\ u.received = now /\ ~u.dirty
    BY <1>2, <1>3, <1>5, EmitTimes
  <2> QED BY <1>1, <2>1 DEF Timely, u
<1>6. CASE u = r /\ s.pubState = "ok"
  <2>1. s.dirty => nextTick < s.pubTime + MinInterval + TickInterval BY DEF Timely
  <2> QED BY <1>1, <1>3, <1>6, <2>1 DEF Timely, u
<1>7. CASE u = Postponed(r) /\ now - s.pubTime < MinInterval /\ s.pubState = "ok"
  <2>1. u.state = "ok" /\ u.received = now /\ u.pubTime = s.pubTime
    BY <1>2, <1>3, <1>7 DEF Postponed, Instrument
  <2>2. s.pubTime \in Int BY DEF Instrument, Never
  <2> QED BY <1>1, <1>7, <2>1, <2>2 DEF Timely, u
<1> QED BY <1>4, <1>5, <1>6, <1>7

LEMMA TickTimely ==
  ASSUME ClockInv, nextTick' = now + TickInterval, NEW s \in Instrument, NEW i, Timely(s)
  PROVE  LET t == TickInstrument(s, i) IN
         /\ t.pubState = "ok" => t.state = "ok"
         /\ t.dirty => now + TickInterval < t.pubTime + MinInterval + TickInterval
         /\ t.state = "ok" => now + TickInterval <= t.received + StaleAfter + TickInterval
<1> DEFINE t == TickInstrument(s, i)
<1>1. /\ now \in Nat /\ TickInterval \in Nat /\ MinInterval \in Nat /\ StaleAfter \in Nat
      /\ s.pubTime \in Int /\ s.received \in Int
  BY TimesAssumption DEF ClockInv, Instrument, Never
<1>2. CASE Outdated(s)
  <2>1. Stale(s) \in Instrument /\ Stale(s).state = "stale" BY DEF Stale, Instrument, States
  <2>2. t = EmitInstrument(Stale(s), i) BY <1>2 DEF TickInstrument
  <2> HIDE DEF t
  <2>3. t.pubState = "stale" /\ t.state = "stale" /\ ~t.dirty BY <2>1, <2>2, EmitTimes
  <2> QED BY <2>3 DEF t
<1>3. CASE ~Outdated(s)
  <2>1. s.state = "ok" => now + TickInterval <= s.received + StaleAfter + TickInterval
    BY <1>1, <1>3 DEF Outdated
  <2>2. CASE Overdue(s)
    <3>1. t = EmitInstrument(s, i) BY <1>3, <2>2 DEF TickInstrument
    <3> HIDE DEF t
    <3>2. t.pubState = s.state /\ t.state = s.state /\ ~t.dirty /\ t.received = s.received
      BY <3>1, EmitTimes
    <3> QED BY <2>1, <3>2 DEF t
  <2>3. CASE ~Overdue(s)
    <3>1. t = s BY <1>3, <2>3 DEF TickInstrument
    <3>2. s.dirty => now + TickInterval < s.pubTime + MinInterval + TickInterval
      BY <1>1, <2>3 DEF Overdue
    <3> QED BY <2>1, <3>1, <3>2 DEF Timely
  <2> QED BY <2>2, <2>3
<1> QED BY <1>2, <1>3

LEMMA TimelyInit == Init => InstrumentsTimely
<1> SUFFICES ASSUME Init, NEW i \in Instruments PROVE Timely(inst[i]) BY DEF InstrumentsTimely
<1>1. inst[i].pubState = NoReading /\ inst[i].state = "missing" /\ ~inst[i].dirty BY DEF Init
<1> QED BY <1>1 DEF Timely, NoReading

LEMMA TimelyStep == EngineInv /\ ClockInv /\ InstrumentsTimely /\ [Next]_vars => InstrumentsTimely'
<1> SUFFICES ASSUME EngineInv, ClockInv, InstrumentsTimely, [Next]_vars PROVE InstrumentsTimely'
  OBVIOUS
<1>1. ASSUME UNCHANGED <<inst, nextTick>> PROVE InstrumentsTimely'
  BY <1>1 DEF InstrumentsTimely, Timely
<1>2. inst \in [Instruments -> Instrument] BY DEF EngineInv
<1>3. ASSUME NEW i \in Instruments, NEW raw \in Raws, ReadingArrives(i, raw)
      PROVE  InstrumentsTimely'
  <2>1. UNCHANGED nextTick BY <1>3, HandlersKeepTime
  <2>2. inst' = [inst EXCEPT ![i] = IF Readable(raw) THEN UpdateInstrument(@, i, raw) ELSE @]
    BY <1>3 DEF ReadingArrives
  <2>3. raw \in Int BY ItemsAssumption
  <2>4. ASSUME NEW j \in Instruments PROVE Timely(inst[j])'
    <3>1. Timely(inst[j]) BY DEF InstrumentsTimely
    <3>2. inst'[j] = inst[j] \/ inst'[j] = UpdateInstrument(inst[j], j, raw) BY <1>2, <2>2
    <3>3. Timely(UpdateInstrument(inst[j], j, raw)) BY <1>2, <2>3, <3>1, UpdateTimely
    <3>4. Timely(inst'[j])
      <4>1. CASE inst'[j] = inst[j] BY <3>1, <4>1
      <4>2. CASE inst'[j] = UpdateInstrument(inst[j], j, raw) BY <3>3, <4>2
      <4> QED BY <3>2, <4>1, <4>2
    <3> QED BY <2>1, <3>4 DEF Timely
  <2> QED BY <2>4 DEF InstrumentsTimely
<1>4. CASE Tick
  <2>1. nextTick' = now + TickInterval /\ inst' = [i \in Instruments |-> TickInstrument(inst[i], i)]
    BY <1>4 DEF Tick
  <2>2. ASSUME NEW j \in Instruments PROVE Timely(inst[j])'
    <3>1. Timely(inst[j]) /\ inst'[j] = TickInstrument(inst[j], j)
      BY <2>1 DEF InstrumentsTimely
    <3> DEFINE t == TickInstrument(inst[j], j)
    <3>2. /\ t.pubState = "ok" => t.state = "ok"
          /\ t.dirty => now + TickInterval < t.pubTime + MinInterval + TickInterval
          /\ t.state = "ok" => now + TickInterval <= t.received + StaleAfter + TickInterval
      BY <1>2, <2>1, <3>1, TickTimely
    <3> HIDE DEF t
    <3>3. inst'[j] = t BY <3>1 DEF t
    <3> QED BY <2>1, <3>2, <3>3 DEF Timely
  <2> QED BY <2>2 DEF InstrumentsTimely
<1>5. CASE \/ \E n \in Notifications : NotificationArrives(n)
           \/ \E up \in BOOLEAN : HaConnects(up)
           \/ \E h \in HaItems, x \in HaStates : HaStateArrives(h, x)
  BY <1>1, <1>5 DEF NotificationArrives, HaConnects, HaStateArrives, loopVars
<1>6. CASE \E n \in Notifications : Toggle(n) BY <1>1, <1>6 DEF Toggle, loopVars, engineVars
<1>7. CASE SignalkOpens \/ SignalkCloses \/ SignalkFails \/ Retry \/ Shutdown
  BY <1>1, <1>7 DEF SignalkOpens, SignalkCloses, SignalkFails, Retry, Shutdown, engineVars
<1>8. CASE Elapse \/ UNCHANGED vars BY <1>1, <1>8 DEF Elapse, vars, loopVars, engineVars
<1> QED BY <1>3, <1>4, <1>5, <1>6, <1>7, <1>8 DEF Next

LEMMA EngineHolds == Spec => [](EngineInv /\ ClockInv /\ InstrumentsTimely)
<1> DEFINE I == EngineInv /\ ClockInv /\ InstrumentsTimely
<1>1. Init => I BY EngineInit, ClockInit, TimelyInit
<1>2. I /\ [Next]_vars => I' BY EngineInductive, ClockStep, TimelyStep
<1> QED BY <1>1, <1>2, PTL DEF Spec

\* Engine: nothing is shown "ok" longer than stale_after_s after its last reading, but for one gap
\* between ticks, whatever the readings, heartbeats and connection attempts.
THEOREM StaleIsSeen == Spec => []StaleInTime
<1>1. EngineInv /\ ClockInv /\ InstrumentsTimely => StaleInTime
  <2> SUFFICES ASSUME EngineInv, ClockInv, InstrumentsTimely, loop # "stopped",
                      NEW i \in Instruments, inst[i].pubState = "ok"
               PROVE  now - inst[i].received <= StaleAfter + MaxGap
    BY DEF StaleInTime
  <2>1. nextTick <= inst[i].received + StaleAfter + TickInterval BY DEF InstrumentsTimely, Timely
  <2>2. inst[i].received \in Int BY DEF EngineInv, Instrument, Never
  <2>3. now \in Nat /\ nextTick \in Nat /\ now <= nextTick + ConnectTimeout BY DEF ClockInv
  <2>4. StaleAfter \in Nat /\ TickInterval \in Nat /\ ConnectTimeout \in Nat BY TimesAssumption
  <2> QED BY <2>1, <2>2, <2>3, <2>4 DEF MaxGap
<1> QED BY <1>1, EngineHolds, PTL

-----------------------------------------------------------------------------
(* Home Assistant items.                                                     *)

LEMMA HaViewTyped ==
  ASSUME NEW s \in HaItem, NEW up \in BOOLEAN, NEW ever \in BOOLEAN
  PROVE  HaView(s, up, ever) \in Views
<1>1. Missing \in Views /\ <<"stale", "unknown", 0, 0>> \in Views
  BY DEF Missing, Views, Severities
<1>2. s.result \in Views BY DEF HaItem
<1> QED BY <1>1, <1>2, Zenon DEF HaView

\* _emit of an item: the display gets the item's view.
LEMMA EmitHaIs ==
  ASSUME NEW s \in HaItem, NEW up \in BOOLEAN, NEW ever \in BOOLEAN, now \in Nat
  PROVE  /\ EmitHa(s, up, ever) \in HaItem
         /\ EmitHa(s, up, ever).pub = HaView(EmitHa(s, up, ever), up, ever)
<1> DEFINE v == HaView(s, up, ever)
           e == EmitHa(s, up, ever)
<1>1. v \in Views BY HaViewTyped
<1>2. e = [s EXCEPT !.pub = v, !.pubTime = now] BY DEF EmitHa
<1> HIDE DEF v, e
<1>3. e \in HaItem /\ e.pub = v /\ e.result = s.result BY <1>1, <1>2 DEF HaItem
<1>4. HaView(e, up, ever) = HaView(s, up, ever) BY <1>3 DEF HaView
<1> QED BY <1>3, <1>4 DEF v, e

LEMMA HaResultTyped ==
  ASSUME NEW h, NEW x \in HaStates, NEW prev
  PROVE  HaResult(h, x, prev) \in Views
<1>1. \/ x \in [kind : {"gone"}]
      \/ x \in [kind : {"number"}, raw : Int]
      \/ x \in [kind : {"state"}, index : Nat, sev : Levels]
  BY ItemsAssumption
<1>2. CASE x \in [kind : {"gone"}]
  <2>1. HaResult(h, x, prev) = Missing BY <1>2 DEF HaResult
  <2> QED BY <2>1 DEF Missing, Views, Severities
<1>3. CASE x \in [kind : {"number"}, raw : Int]
  <2> DEFINE v == RoundHalfUp(x.raw)
             m == IF HasThresholds(h) THEN NumericSev(v, Thresholds[h], prev) ELSE "ok"
  <2>1. v \in Int /\ m \in Levels BY <1>3, RoundInt, SevIsLevel DEF Levels
  <2>2. HaResult(h, x, prev) = <<"ok", m, 0, v>> BY <1>3 DEF HaResult
  <2> HIDE DEF v, m
  <2> QED BY <2>1, <2>2 DEF Views, Severities
<1>4. CASE x \in [kind : {"state"}, index : Nat, sev : Levels]
  <2>1. HaResult(h, x, prev) = <<"ok", x.sev, x.index, 0>> BY <1>4 DEF HaResult
  <2>2. x.sev \in Levels /\ x.index \in Nat BY <1>4
  <2> QED BY <2>1, <2>2 DEF Views, Severities
<1> QED BY <1>1, <1>2, <1>3, <1>4

\* HaEngine.set_state: a number that is not published at once was published within the rate limit.
LEMMA UpdateHaIs ==
  ASSUME ClockInv, haLink \in [up : BOOLEAN, ever : BOOLEAN],
         NEW s \in HaItem, NEW h, NEW x \in HaStates
  PROVE  UpdateHa(s, h, x) \in HaItem /\ HaTimely(UpdateHa(s, h, x))
<1> DEFINE prev == IF s.result[1] = "ok" THEN s.result[2] ELSE NoReading
           r == [s EXCEPT !.result = HaResult(h, x, prev)]
           view == HaView(r, haLink.up, haLink.ever)
           u == UpdateHa(s, h, x)
<1>1. /\ now \in Nat /\ nextTick \in Nat /\ nextTick <= now + TickInterval
      /\ TickInterval \in Nat /\ HaInterval \in Nat
  BY TimesAssumption DEF ClockInv
<1>2. HaResult(h, x, prev) \in Views BY HaResultTyped
<1> HIDE DEF prev
<1>3. r \in HaItem /\ r.pub = s.pub /\ r.pubTime = s.pubTime BY <1>2 DEF HaItem
<1>4. haLink.up \in BOOLEAN /\ haLink.ever \in BOOLEAN OBVIOUS
<1>5. \/ u = EmitHa(r, haLink.up, haLink.ever)
      \/ u = r /\ (view = s.pub \/ (s.pubTime # Never /\ ~(now - s.pubTime >= HaInterval)))
  BY DEF UpdateHa, prev
<1> HIDE DEF r, u
<1>6. CASE u = EmitHa(r, haLink.up, haLink.ever)
  <2>1. u \in HaItem /\ u.pub = HaView(u, haLink.up, haLink.ever)
    BY <1>1, <1>3, <1>4, <1>6, EmitHaIs
  <2> QED BY <2>1 DEF HaTimely, u
<1>7. CASE u = r /\ (view = s.pub \/ (s.pubTime # Never /\ ~(now - s.pubTime >= HaInterval)))
  <2>1. s.pubTime \in Int BY DEF HaItem, Never
  <2>2. r.pub = view \/ nextTick < r.pubTime + HaInterval + TickInterval
    BY <1>1, <1>3, <1>7, <2>1
  <2> QED BY <1>3, <1>7, <2>2 DEF HaTimely, u
<1> QED BY <1>5, <1>6, <1>7

LEMMA TickHaIs ==
  ASSUME ClockInv, haLink \in [up : BOOLEAN, ever : BOOLEAN], NEW s \in HaItem
  PROVE  LET t == TickHa(s) IN
         /\ t \in HaItem
         /\ t.pub # HaView(t, haLink.up, haLink.ever) /\ t.pubTime # Never
              => now + TickInterval < t.pubTime + HaInterval + TickInterval
<1> DEFINE t == TickHa(s)
<1>1. /\ now \in Nat /\ TickInterval \in Nat /\ HaInterval \in Nat /\ s.pubTime \in Int
      /\ haLink.up \in BOOLEAN /\ haLink.ever \in BOOLEAN
  BY TimesAssumption DEF ClockInv, HaItem, Never
<1>2. CASE HaOverdue(s)
  <2>1. t = EmitHa(s, haLink.up, haLink.ever) BY <1>2 DEF TickHa
  <2> HIDE DEF t
  <2>2. t \in HaItem /\ t.pub = HaView(t, haLink.up, haLink.ever) BY <1>1, <2>1, EmitHaIs
  <2> QED BY <2>2 DEF t
<1>3. CASE ~HaOverdue(s)
  <2>1. t = s BY <1>3 DEF TickHa
  <2>2. s.pub # HaView(s, haLink.up, haLink.ever) => ~(now - s.pubTime >= HaInterval)
    BY <1>3 DEF HaOverdue
  <2>3. ~(now - s.pubTime >= HaInterval) => now + TickInterval < s.pubTime + HaInterval + TickInterval
    BY <1>1
  <2> QED BY <2>1, <2>2, <2>3
<1> QED BY <1>2, <1>3

\* source_state: every item is said again.
LEMMA HaOnIs ==
  ASSUME ClockInv, NEW up \in BOOLEAN, NEW ever \in BOOLEAN, has \in [HaItems -> HaItem]
  PROVE  /\ HaOn(up, ever) \in [HaItems -> HaItem]
         /\ \A h \in HaItems : HaOn(up, ever)[h].pub = HaView(HaOn(up, ever)[h], up, ever)
<1> DEFINE s(h) == IF up THEN has[h] ELSE [has[h] EXCEPT !.result = <<NoReading, NoReading, 0, 0>>]
<1>1. <<NoReading, NoReading, 0, 0>> \in Views BY DEF Views
<1>2. \A h \in HaItems : s(h) \in HaItem BY <1>1 DEF HaItem
<1>3. HaOn(up, ever) = [h \in HaItems |-> EmitHa(s(h), up, ever)] BY DEF HaOn
<1> HIDE DEF s
<1>4. now \in Nat BY DEF ClockInv
<1>5. \A h \in HaItems : /\ EmitHa(s(h), up, ever) \in HaItem
                         /\ EmitHa(s(h), up, ever).pub = HaView(EmitHa(s(h), up, ever), up, ever)
  BY <1>2, <1>4, EmitHaIs
<1> QED BY <1>3, <1>5

LEMMA HaInit == Init => HaInv
<1> SUFFICES ASSUME Init PROVE HaInv OBVIOUS
<1>1. <<NoReading, NoReading, 0, 0>> \in Views BY DEF Views
<1>2. \A h \in HaItems : has[h] \in HaItem /\ has[h].pubTime = Never
  BY <1>1 DEF Init, HaItem
<1>3. has \in [HaItems -> HaItem] BY <1>2 DEF Init
<1>4. haLink \in [up : BOOLEAN, ever : BOOLEAN] BY DEF Init
<1> QED BY <1>2, <1>3, <1>4 DEF HaInv, HaTimely

LEMMA HaStep == HaInv /\ ClockInv /\ [Next]_vars => HaInv'
<1> SUFFICES ASSUME HaInv, ClockInv, [Next]_vars PROVE HaInv' OBVIOUS
<1>1. ASSUME UNCHANGED <<has, haLink, nextTick>>, loop' # "stopped" => loop # "stopped" PROVE HaInv'
  <2>1. \A h \in HaItems : HaTimely(has[h])' <=> HaTimely(has[h]) BY <1>1 DEF HaTimely
  <2> QED BY <1>1, <2>1 DEF HaInv
<1>2. has \in [HaItems -> HaItem] /\ haLink \in [up : BOOLEAN, ever : BOOLEAN] BY DEF HaInv
<1>3. ASSUME NEW up \in BOOLEAN, HaConnects(up) PROVE HaInv'
  <2> DEFINE ever == haLink.ever \/ up
  <2>1. haLink' = [up |-> up, ever |-> ever] /\ has' = HaOn(up, ever) BY <1>3 DEF HaConnects
  <2>2. ever \in BOOLEAN BY <1>2
  <2> HIDE DEF ever
  <2>3. /\ has' \in [HaItems -> HaItem]
        /\ \A h \in HaItems : has'[h].pub = HaView(has'[h], up, ever)
    BY <1>2, <2>1, <2>2, HaOnIs
  <2>4. \A h \in HaItems : HaTimely(has[h])' BY <2>1, <2>3 DEF HaTimely
  <2> QED BY <2>1, <2>2, <2>3, <2>4 DEF HaInv
<1>4. ASSUME NEW h \in HaItems, NEW x \in HaStates, HaStateArrives(h, x) PROVE HaInv'
  <2>1. /\ UNCHANGED <<loop, nextTick, haLink>> /\ loop # "stopped"
        /\ has' = [has EXCEPT ![h] = UpdateHa(@, h, x)]
    BY <1>4 DEF HaStateArrives, loopVars, Looping
  <2>2. UpdateHa(has[h], h, x) \in HaItem /\ HaTimely(UpdateHa(has[h], h, x))
    BY <1>2, UpdateHaIs
  <2>3. ASSUME NEW k \in HaItems PROVE HaTimely(has[k])'
    <3>1. has'[k] = IF k = h THEN UpdateHa(has[h], h, x) ELSE has[k] BY <1>2, <2>1
    <3>2. HaTimely(has[k]) BY <2>1 DEF HaInv
    <3>3. HaTimely(has'[k])
      <4>1. CASE k = h BY <2>2, <3>1, <4>1
      <4>2. CASE k # h BY <3>1, <3>2, <4>2
      <4> QED BY <4>1, <4>2
    <3> QED BY <2>1, <3>3 DEF HaTimely
  <2>4. has' \in [HaItems -> HaItem] BY <1>2, <2>1, <2>2
  <2> QED BY <1>2, <2>1, <2>3, <2>4 DEF HaInv
<1>5. CASE Tick
  <2>1. /\ nextTick' = now + TickInterval /\ UNCHANGED haLink
        /\ has' = [h \in HaItems |-> TickHa(has[h])]
    BY <1>5 DEF Tick
  <2>2. \A h \in HaItems :
           /\ TickHa(has[h]) \in HaItem
           /\ TickHa(has[h]).pub # HaView(TickHa(has[h]), haLink.up, haLink.ever)
                /\ TickHa(has[h]).pubTime # Never
                => nextTick' < TickHa(has[h]).pubTime + HaInterval + TickInterval
    BY <1>2, <2>1, TickHaIs
  <2>3. \A h \in HaItems : HaTimely(has[h])' BY <2>1, <2>2 DEF HaTimely
  <2> QED BY <1>2, <2>1, <2>2, <2>3 DEF HaInv
<1>6. CASE Shutdown
  <2>1. /\ haLink' = [haLink EXCEPT !.up = FALSE] /\ loop' = "stopped"
        /\ has' = IF haLink.up THEN HaOn(FALSE, TRUE) ELSE has
    BY <1>6 DEF Shutdown
  <2>2. HaOn(FALSE, TRUE) \in [HaItems -> HaItem] BY <1>2, HaOnIs
  <2> QED BY <1>2, <2>1, <2>2 DEF HaInv
<1>7. CASE \/ \E n \in Notifications : NotificationArrives(n)
           \/ \E i \in Instruments, raw \in Raws : ReadingArrives(i, raw)
  BY <1>1, <1>7 DEF NotificationArrives, ReadingArrives, loopVars
<1>8. CASE \E n \in Notifications : Toggle(n) BY <1>1, <1>8 DEF Toggle, loopVars, engineVars
<1>9. CASE SignalkOpens \/ SignalkCloses \/ SignalkFails \/ Retry
  BY <1>1, <1>9 DEF SignalkOpens, SignalkCloses, SignalkFails, Retry, engineVars
<1>10. CASE Elapse \/ UNCHANGED vars BY <1>1, <1>10 DEF Elapse, vars, loopVars, engineVars
<1> QED BY <1>3, <1>4, <1>5, <1>6, <1>7, <1>8, <1>9, <1>10 DEF Next

\* What a display shows lags what the bridge knows by the rate limit and one gap between ticks.
LEMMA SoonShown == EngineInv /\ ClockInv /\ InstrumentsTimely /\ HaInv => ShownSoon
<1> SUFFICES ASSUME EngineInv, ClockInv, InstrumentsTimely, HaInv, loop # "stopped"
             PROVE  /\ \A i \in Instruments : inst[i].dirty => now - inst[i].pubTime <= MinInterval + MaxGap
                    /\ \A h \in HaItems :
                         has[h].pub # HaView(has[h], haLink.up, haLink.ever) /\ has[h].pubTime # Never
                           => now - has[h].pubTime <= HaInterval + MaxGap
  BY DEF ShownSoon
<1>1. /\ now \in Nat /\ nextTick \in Nat /\ now <= nextTick + ConnectTimeout
      /\ MinInterval \in Nat /\ HaInterval \in Nat /\ TickInterval \in Nat /\ ConnectTimeout \in Nat
  BY TimesAssumption DEF ClockInv
<1>2. ASSUME NEW p \in Int, NEW d \in Nat, nextTick < p + d + TickInterval
      PROVE  now - p <= d + MaxGap
  BY <1>1, <1>2 DEF MaxGap
<1>3. ASSUME NEW i \in Instruments, inst[i].dirty PROVE now - inst[i].pubTime <= MinInterval + MaxGap
  <2>1. inst[i].pubTime \in Int BY DEF EngineInv, Instrument, Never
  <2>2. nextTick < inst[i].pubTime + MinInterval + TickInterval BY <1>3 DEF InstrumentsTimely, Timely
  <2> QED BY <1>1, <1>2, <2>1, <2>2
<1>4. ASSUME NEW h \in HaItems,
             has[h].pub # HaView(has[h], haLink.up, haLink.ever), has[h].pubTime # Never
      PROVE  now - has[h].pubTime <= HaInterval + MaxGap
  <2>1. has[h].pubTime \in Int BY DEF HaInv, HaItem, Never
  <2>2. nextTick < has[h].pubTime + HaInterval + TickInterval BY <1>4 DEF HaInv, HaTimely
  <2> QED BY <1>1, <1>2, <2>1, <2>2
<1> QED BY <1>3, <1>4

-----------------------------------------------------------------------------
(* The summary.                                                              *)

LEMMA LinkInit == Init => LinkInv
BY DEF Init, LinkInv

LEMMA LinkStep == LinkInv /\ ClockInv /\ [Next]_vars => LinkInv'
<1> SUFFICES ASSUME LinkInv, ClockInv, [Next]_vars PROVE LinkInv' OBVIOUS
<1>1. now \in Nat BY DEF ClockInv
<1>2. link \in [up : BOOLEAN, ever : BOOLEAN, at : Nat \cup {Never}] BY DEF LinkInv
<1>3. ASSUME UNCHANGED link, now' \in {now, now + 1}, link.up => loop' = "pumping" PROVE LinkInv'
  BY <1>1, <1>3 DEF LinkInv
<1>4. CASE SignalkOpens
  <2>1. loop' = "pumping" /\ now' = now /\ link' = [up |-> TRUE, ever |-> link.ever \/ TRUE, at |-> now]
    BY <1>4 DEF SignalkOpens, SetSignalk, PublishSummary
  <2> QED BY <1>1, <2>1 DEF LinkInv
<1>5. CASE SignalkCloses
  <2>1. link' = [up |-> FALSE, ever |-> link.ever \/ FALSE, at |-> Never]
    BY <1>5 DEF SignalkCloses, SetSignalk
  <2> QED BY <1>2, <2>1 DEF LinkInv
<1>6. CASE Shutdown
  <2>1. link' = [link EXCEPT !.up = FALSE, !.at = Never] BY <1>6 DEF Shutdown
  <2> QED BY <1>2, <2>1 DEF LinkInv
<1>7. CASE \/ \E n \in Notifications : NotificationArrives(n)
           \/ \E i \in Instruments, raw \in Raws : ReadingArrives(i, raw)
           \/ \E up \in BOOLEAN : HaConnects(up)
           \/ \E h \in HaItems, x \in HaStates : HaStateArrives(h, x)
           \/ Tick
  BY <1>3, <1>7
  DEF NotificationArrives, ReadingArrives, HaConnects, HaStateArrives, Tick, PublishSummary, loopVars, LinkInv
<1>8. CASE \E n \in Notifications : Toggle(n) BY <1>3, <1>8 DEF Toggle, loopVars, engineVars, LinkInv
<1>9. CASE SignalkFails \/ Retry BY <1>3, <1>9 DEF SignalkFails, Retry, engineVars, LinkInv
<1>10. CASE Elapse \/ UNCHANGED vars
  BY <1>3, <1>10 DEF Elapse, vars, loopVars, engineVars, LinkInv
<1> QED BY <1>4, <1>5, <1>6, <1>7, <1>8, <1>9, <1>10 DEF Next

Contents == [alarms : SUBSET Counted, warns : SUBSET Counted, unknown : SUBSET Counted]

\* A handler that ends with _publish_summary leaves a summary that is exact.
LEMMA Published ==
  ASSUME SummaryInv, ClockInv, PublishSummary, loop' # "stopped"
  PROVE  SummaryInv'
<1>1. now \in Nat BY DEF ClockInv
<1>2. summary \in [content : Contents, at : Nat \cup {Never}] /\ (Counted = {} => summary.at = Never)
  BY DEF SummaryInv, Contents
<1>3. Content' \in Contents BY DEF Content, CountedAs, Contents
<1>4. summary' = IF Counted # {} /\ SummaryDue THEN [content |-> Content', at |-> now] ELSE summary
  BY DEF PublishSummary
<1>5. Content'.alarms = CountedAs("alarm")' /\ Content'.warns = CountedAs("warn")'
        /\ Content'.unknown = CountedAs("unknown")'
  BY DEF Content
<1>6. ~SummaryDue => Content' = summary.content BY DEF SummaryDue
<1> DEFINE c == Content'
<1> HIDE DEF c
<1>7. summary' = summary \/ summary' = [content |-> c, at |-> now] BY <1>4 DEF c
<1>8. summary' \in [content : Contents, at : Nat \cup {Never}] BY <1>1, <1>2, <1>3, <1>7 DEF c
<1>9. Counted = {} => summary'.at = Never BY <1>2, <1>4
<1>10. Counted # {} => summary'.content = c
  <2>1. CASE SummaryDue BY <1>4, <2>1 DEF c
  <2>2. CASE ~SummaryDue BY <1>4, <1>6, <2>2 DEF c
  <2> QED BY <2>1, <2>2
<1>11. SummaryTrue'
  <2> SUFFICES ASSUME summary'.at # Never
               PROVE  /\ summary'.content.alarms = CountedAs("alarm")'
                      /\ summary'.content.warns = CountedAs("warn")'
                      /\ CountedAs("unknown")' \subseteq summary'.content.unknown
    BY DEF SummaryTrue
  <2>1. summary'.content = c BY <1>9, <1>10
  <2> QED BY <1>5, <2>1 DEF c
<1> QED BY <1>8, <1>9, <1>11 DEF SummaryInv, Contents

\* A step that leaves the engines alone: what an item counts as stays, but for silence after a
\* connection, which may turn from unknown to fine.
LEMMA SummaryStands ==
  ASSUME SummaryInv, UNCHANGED <<summary, engineVars>>, loop' = "stopped" <=> loop = "stopped",
         loop # "stopped" =>
           \A x \in Counted : \/ ItemSev(x)' = ItemSev(x)
                              \/ ItemSev(x) = "unknown" /\ ItemSev(x)' \notin {"alarm", "warn"}
  PROVE  SummaryInv'
<1>1. CASE loop = "stopped" BY <1>1 DEF SummaryInv, SummaryTrue, SummaryMax
<1>2. CASE loop # "stopped"
  <2>1. CountedAs("alarm")' = CountedAs("alarm") /\ CountedAs("warn")' = CountedAs("warn")
          /\ CountedAs("unknown")' \subseteq CountedAs("unknown")
    BY <1>2 DEF CountedAs
  <2> QED BY <1>2, <2>1 DEF SummaryInv, SummaryTrue
<1> QED BY <1>1, <1>2

LEMMA ItemsStand ==
  ASSUME UNCHANGED <<now, engineVars>>, NEW x \in Items
  PROVE  ItemSev(x)' = ItemSev(x)
<1>1. UNCHANGED <<now, inst, note, link, has, haLink>> BY DEF engineVars
<1>2. CASE x \in Instruments
  <2>1. ItemSev(x) = InstrumentSev(x) /\ ItemSev(x)' = InstrumentSev(x)' BY <1>2, ItemsAssumption DEF ItemSev
  <2>2. InstrumentSev(x)' = InstrumentSev(x) BY <1>1 DEF InstrumentSev, HasThresholds
  <2> QED BY <2>1, <2>2
<1>3. CASE x \in Notifications
  <2>1. /\ ItemSev(x) = NotificationSevNow(note[x], x, link)
        /\ ItemSev(x)' = NotificationSevNow(note[x], x, link)'
    BY <1>3, ItemsAssumption DEF ItemSev
  <2>2. NotificationSevNow(note[x], x, link)' = NotificationSevNow(note[x], x, link)
    BY <1>1 DEF NotificationSevNow, Settling
  <2> QED BY <2>1, <2>2
<1>4. CASE x \in HaItems
  <2>1. /\ ItemSev(x) = HaView(has[x], haLink.up, haLink.ever)[2]
        /\ ItemSev(x)' = HaView(has[x], haLink.up, haLink.ever)[2]'
    BY <1>4, ItemsAssumption DEF ItemSev
  <2> QED BY <1>1, <2>1 DEF HaView
<1> QED BY <1>2, <1>3, <1>4 DEF Items

LEMMA SilenceIs ==
  ASSUME NEW n
  PROVE  NotificationSev("cleared", Absent[n]) \in {"ok", "unknown"}
BY DEF NotificationSev

LEMMA ItemsAge ==
  ASSUME LinkInv, ClockInv, Elapse, NEW x \in Items
  PROVE  \/ ItemSev(x)' = ItemSev(x)
         \/ ItemSev(x) = "unknown" /\ ItemSev(x)' \notin {"alarm", "warn"}
<1>1. UNCHANGED <<inst, note, link, has, haLink>> /\ now' = now + 1 BY DEF Elapse, engineVars
<1>2. CASE x \in Instruments
  <2>1. ItemSev(x) = InstrumentSev(x) /\ ItemSev(x)' = InstrumentSev(x)' BY <1>2, ItemsAssumption DEF ItemSev
  <2>2. InstrumentSev(x)' = InstrumentSev(x) BY <1>1 DEF InstrumentSev, HasThresholds
  <2> QED BY <2>1, <2>2
<1>3. CASE x \in Notifications
  <2>1. /\ ItemSev(x) = NotificationSevNow(note[x], x, link)
        /\ ItemSev(x)' = NotificationSevNow(note[x], x, link)'
    BY <1>3, ItemsAssumption DEF ItemSev
  <2>2. CASE ~link.up
    <3>1. NotificationSevNow(note[x], x, link) = "unknown" /\ NotificationSevNow(note[x], x, link)' = "unknown"
      BY <1>1, <2>2 DEF NotificationSevNow
    <3> QED BY <2>1, <3>1
  <2>3. CASE link.up /\ note[x].sev # NoReading
    <3>1. /\ NotificationSevNow(note[x], x, link) = note[x].sev
          /\ NotificationSevNow(note[x], x, link)' = note[x].sev
      BY <1>1, <2>3 DEF NotificationSevNow
    <3> QED BY <2>1, <3>1
  <2>4. CASE link.up /\ note[x].sev = NoReading
    <3>1. /\ NotificationSevNow(note[x], x, link) =
               IF Settling(link) THEN "unknown" ELSE NotificationSev("cleared", Absent[x])
          /\ NotificationSevNow(note[x], x, link)' =
               IF Settling(link)' THEN "unknown" ELSE NotificationSev("cleared", Absent[x])
      BY <1>1, <2>4 DEF NotificationSevNow
    <3>2. Settling(link)' => Settling(link)
      <4>1. link.at \in Nat /\ now \in Nat /\ Settle \in Nat BY <2>4, TimesAssumption DEF LinkInv, ClockInv
      <4> QED BY <1>1, <4>1 DEF Settling
    <3>3. NotificationSev("cleared", Absent[x]) \in {"ok", "unknown"} BY SilenceIs
    <3>4. \/ NotificationSevNow(note[x], x, link)' = NotificationSevNow(note[x], x, link)
          \/ /\ NotificationSevNow(note[x], x, link) = "unknown"
             /\ NotificationSevNow(note[x], x, link)' \notin {"alarm", "warn"}
      BY <3>1, <3>2, <3>3
    <3> QED BY <2>1, <3>4
  <2> QED BY <2>2, <2>3, <2>4
<1>4. CASE x \in HaItems
  <2>1. /\ ItemSev(x) = HaView(has[x], haLink.up, haLink.ever)[2]
        /\ ItemSev(x)' = HaView(has[x], haLink.up, haLink.ever)[2]'
    BY <1>4, ItemsAssumption DEF ItemSev
  <2> QED BY <1>1, <2>1 DEF HaView
<1> QED BY <1>2, <1>3, <1>4 DEF Items

LEMMA SummaryInit == Init => SummaryInv
BY DEF Init, SummaryInv, SummaryTrue

LEMMA SummaryStep == SummaryInv /\ LinkInv /\ ClockInv /\ [Next]_vars => SummaryInv'
<1> SUFFICES ASSUME SummaryInv, LinkInv, ClockInv, [Next]_vars PROVE SummaryInv' OBVIOUS
<1>1. Counted \subseteq Items BY ItemsAssumption
<1>2. ASSUME UNCHANGED <<now, summary, engineVars>>, loop' = "stopped" <=> loop = "stopped"
      PROVE  SummaryInv'
  <2>1. \A x \in Counted : ItemSev(x)' = ItemSev(x) BY <1>1, <1>2, ItemsStand
  <2> QED BY <1>2, <2>1, SummaryStands
<1>3. CASE \/ \E n \in Notifications : NotificationArrives(n)
           \/ \E i \in Instruments, raw \in Raws : ReadingArrives(i, raw)
           \/ \E up \in BOOLEAN : HaConnects(up)
           \/ \E h \in HaItems, x \in HaStates : HaStateArrives(h, x)
           \/ Tick
  <2>1. PublishSummary /\ loop' # "stopped"
    BY <1>3 DEF NotificationArrives, ReadingArrives, HaConnects, HaStateArrives, Tick, Looping, loopVars
  <2> QED BY <2>1, Published
<1>4. CASE SignalkOpens \/ SignalkCloses
  <2>1. PublishSummary /\ loop' # "stopped" BY <1>4 DEF SignalkOpens, SignalkCloses, SetSignalk
  <2> QED BY <2>1, Published
<1>5. CASE \E n \in Notifications : Toggle(n) BY <1>2, <1>5 DEF Toggle, loopVars
<1>6. CASE SignalkFails \/ Retry BY <1>2, <1>6 DEF SignalkFails, Retry
<1>7. CASE Shutdown
  <2>1. /\ loop' = "stopped" /\ now \in Nat
        /\ summary' = IF Counted # {} THEN [content |-> AllUnknown, at |-> now] ELSE summary
    BY <1>7 DEF Shutdown, ClockInv
  <2>2. AllUnknown \in Contents /\ (Counted # {} => SummaryMax(AllUnknown) = "unknown")
    BY DEF AllUnknown, Contents, SummaryMax
  <2>3. CASE Counted # {}
    <3>1. summary' = [content |-> AllUnknown, at |-> now] BY <2>1, <2>3
    <3> HIDE DEF AllUnknown
    <3>2. SummaryTrue' BY <2>1, <2>2, <2>3, <3>1 DEF SummaryTrue, SummaryMax
    <3> QED BY <2>1, <2>2, <2>3, <3>1, <3>2 DEF SummaryInv, Contents
  <2>4. CASE Counted = {} BY <2>1, <2>4 DEF SummaryInv, SummaryTrue
  <2> QED BY <2>3, <2>4
<1>8. CASE Elapse
  <2>1. UNCHANGED <<summary, engineVars, loop>> BY <1>8 DEF Elapse, loopVars
  <2>2. \A x \in Counted : \/ ItemSev(x)' = ItemSev(x)
                           \/ ItemSev(x) = "unknown" /\ ItemSev(x)' \notin {"alarm", "warn"}
    BY <1>1, <1>8, ItemsAge
  <2> QED BY <2>1, <2>2, SummaryStands
<1>9. CASE UNCHANGED vars BY <1>2, <1>9 DEF vars, loopVars
<1> QED BY <1>3, <1>4, <1>5, <1>6, <1>7, <1>8, <1>9 DEF Next

LEMMA BoardHolds == Spec => [](HaInv /\ LinkInv /\ SummaryInv)
<1> DEFINE I == HaInv /\ LinkInv /\ SummaryInv
<1>1. Init => I BY HaInit, LinkInit, SummaryInit
<1>2. I /\ ClockInv /\ [Next]_vars => I' BY HaStep, LinkStep, SummaryStep
<1> QED BY <1>1, <1>2, EngineHolds, PTL DEF Spec

\* Bridge._publish_summary and the ticks: what changed is shown in time, and the alarm summary counts
\* what is shown, after every handler, connection change, silence and clean stop.
THEOREM BoardShown == Spec => []BoardTrue
<1>1. EngineInv /\ ClockInv /\ InstrumentsTimely /\ HaInv /\ SummaryInv => BoardTrue
  BY SoonShown DEF SummaryInv, BoardTrue
<1> QED BY <1>1, EngineHolds, BoardHolds, PTL

-----------------------------------------------------------------------------
(* Notifications.                                                            *)

LEMMA ViewIs ==
  ASSUME NEW s, NEW n, NEW l, s.sev \in {NoReading, "ok", "alarm"}
  PROVE  LET v == NotificationView(s, n, l) IN
         /\ v \in {"missing", "stale", "ok", NoReading} \X (Severities \cup {NoReading})
         /\ l.up /\ s.sev # NoReading => v[2] = s.sev
         /\ l.up /\ s.sev = NoReading => v[2] = "unknown" \/ (v[2] = "ok" /\ ~Settling(l))
<1> DEFINE f == Fresh(l)
           v == NotificationSevNow(s, n, l)
<1>1. f \in {"missing", "stale", "ok", NoReading} BY DEF Fresh
<1>2. NotificationSev("cleared", Absent[n]) \in {"ok", "unknown"} BY SilenceIs
<1>3. /\ ~l.up => v = "unknown"
      /\ l.up /\ s.sev # NoReading => v = s.sev
      /\ l.up /\ s.sev = NoReading => v = "unknown" \/ (v = "ok" /\ ~Settling(l))
  <2>1. CASE ~l.up BY <2>1 DEF NotificationSevNow
  <2>2. CASE l.up /\ s.sev # NoReading BY <2>2 DEF NotificationSevNow
  <2>3. CASE l.up /\ s.sev = NoReading
    <3>1. v = IF Settling(l) THEN "unknown" ELSE NotificationSev("cleared", Absent[n])
      BY <2>3 DEF NotificationSevNow
    <3> HIDE DEF v
    <3> QED BY <1>2, <2>3, <3>1
  <2> QED BY <2>1, <2>2, <2>3
<1> HIDE DEF f, v
<1>4. v \in Severities \cup {NoReading} BY <1>3 DEF Severities, Levels
<1>5. NotificationView(s, n, l) = <<f, v>> BY DEF NotificationView, f, v
<1> QED BY <1>1, <1>3, <1>4, <1>5

LEMMA EmitNotificationIs ==
  ASSUME NEW s \in Notification, NEW n, NEW l, s.sev \in {NoReading, "ok", "alarm"}, now \in Nat
  PROVE  LET e == EmitNotification(s, n, l) IN
         /\ e \in Notification /\ e.sev = s.sev
         /\ l.up /\ s.sev # NoReading => e.pub[2] = s.sev
         /\ l.up /\ s.sev = NoReading => e.pub[2] = "unknown" \/ (e.pub[2] = "ok" /\ ~Settling(l))
<1> DEFINE v == NotificationView(s, n, l)
           e == EmitNotification(s, n, l)
<1>1. /\ v \in {"missing", "stale", "ok", NoReading} \X (Severities \cup {NoReading})
      /\ l.up /\ s.sev # NoReading => v[2] = s.sev
      /\ l.up /\ s.sev = NoReading => v[2] = "unknown" \/ (v[2] = "ok" /\ ~Settling(l))
  BY ViewIs
<1>2. e = [s EXCEPT !.pub = v, !.pubTime = now] BY DEF EmitNotification
<1> HIDE DEF v, e
<1>3. e \in Notification /\ e.sev = s.sev /\ e.pub = v BY <1>1, <1>2 DEF Notification
<1> QED BY <1>1, <1>3 DEF e

\* A report: what is heard is shown.
LEMMA UpdateNotificationIs ==
  ASSUME NEW s \in Notification, NEW n, NEW state \in {"normal", "alarm"}, now \in Nat, link.up
  PROVE  LET u == UpdateNotification(s, n, state) IN
         /\ u \in Notification
         /\ u.sev = (IF state = "alarm" THEN "alarm" ELSE "ok") /\ u.pub[2] = u.sev
<1> DEFINE m == NotificationSev(state, Absent[n])
           r == [s EXCEPT !.sev = m]
           u == UpdateNotification(s, n, state)
           v == NotificationView(r, n, link)
<1>1. m = IF state = "alarm" THEN "alarm" ELSE "ok" BY DEF NotificationSev
<1> HIDE DEF m
<1>2. r \in Notification /\ r.sev = m /\ r.pub = s.pub BY <1>1 DEF Notification, Severities, Levels
<1>3. m # NoReading /\ m \in {NoReading, "ok", "alarm"} BY <1>1 DEF NoReading
<1>4. u = IF v = s.pub THEN r ELSE EmitNotification(r, n, link) BY DEF UpdateNotification, m
<1> HIDE DEF u, r
<1>5. CASE v = s.pub
  <2>1. v[2] = m BY <1>2, <1>3, ViewIs
  <2> QED BY <1>1, <1>2, <1>4, <1>5, <2>1 DEF u
<1>6. CASE v # s.pub
  <2>1. u = EmitNotification(r, n, link) BY <1>4, <1>6
  <2>2. u \in Notification /\ u.sev = m /\ u.pub[2] = m
    BY <1>2, <1>3, <2>1, EmitNotificationIs
  <2> QED BY <1>1, <2>2 DEF u
<1> QED BY <1>5, <1>6

LEMMA NoteInit == Init => NoteInv
<1> SUFFICES ASSUME Init PROVE NoteInv OBVIOUS
<1>1. [sev |-> NoReading, pub |-> <<NoReading, NoReading>>, pubTime |-> Never] \in Notification
  BY DEF Notification
<1>2. note \in [Notifications -> Notification] BY <1>1 DEF Init
<1>3. \A n \in Notifications : note[n].sev = NoReading /\ due[n] = Never BY DEF Init
<1>4. /\ active \in [Notifications -> BOOLEAN]
      /\ changedAt \in [Notifications -> Nat] /\ due \in [Notifications -> Nat \cup {Never}]
      /\ \A n \in Notifications : changedAt[n] <= now
      /\ ~link.up
  BY DEF Init
<1> QED BY <1>2, <1>3, <1>4 DEF NoteInv

\* A connection change: everything is said again, nothing is remembered of an earlier connection.
LEMMA NotificationsOnIs ==
  ASSUME NEW l, now \in Nat, note \in [Notifications -> Notification],
         \A n \in Notifications : l.up => note[n].sev = NoReading
  PROVE  /\ NotificationsOn(l) \in [Notifications -> Notification]
         /\ \A n \in Notifications :
              LET e == NotificationsOn(l)[n] IN
              /\ e.sev = NoReading
              /\ l.up => e.pub[2] = "unknown" \/ (e.pub[2] = "ok" /\ ~Settling(l))
<1> DEFINE s(n) == IF l.up THEN note[n] ELSE Forgotten(note[n])
<1>1. \A n \in Notifications : s(n) \in Notification /\ s(n).sev = NoReading
  BY DEF Forgotten, Notification
<1>2. NotificationsOn(l) = [n \in Notifications |-> EmitNotification(s(n), n, l)] BY DEF NotificationsOn
<1> HIDE DEF s
<1>3. ASSUME NEW n \in Notifications
      PROVE  LET e == EmitNotification(s(n), n, l) IN
             /\ e \in Notification /\ e.sev = NoReading
             /\ l.up => e.pub[2] = "unknown" \/ (e.pub[2] = "ok" /\ ~Settling(l))
  <2>1. s(n) \in Notification /\ s(n).sev = NoReading /\ s(n).sev \in {NoReading, "ok", "alarm"} BY <1>1
  <2> QED BY <2>1, EmitNotificationIs
<1> QED BY <1>2, <1>3

LEMMA NoteStep == NoteInv /\ LinkInv /\ ClockInv /\ [Next]_vars => NoteInv'
<1> SUFFICES ASSUME NoteInv, LinkInv, ClockInv, [Next]_vars PROVE NoteInv' OBVIOUS
<1>1. /\ note \in [Notifications -> Notification] /\ active \in [Notifications -> BOOLEAN]
      /\ changedAt \in [Notifications -> Nat] /\ due \in [Notifications -> Nat \cup {Never}]
      /\ \A n \in Notifications : changedAt[n] <= now
      /\ link.up => \A n \in Notifications : Informed(n) /\ Reported(n) /\ Shown(n)
      /\ ~link.up => \A n \in Notifications : note[n].sev = NoReading /\ due[n] = Never
  BY DEF NoteInv
<1>2. now \in Nat /\ Resend \in Nat /\ Settle \in Nat BY TimesAssumption DEF ClockInv
<1>3. link.up => link.at \in Nat /\ link.at <= now BY DEF LinkInv
<1>4. ASSUME UNCHANGED <<now, note, link, signalkVars>> PROVE NoteInv'
  <2>1. UNCHANGED <<active, changedAt, due>> BY <1>4 DEF signalkVars
  <2>2. ASSUME NEW n \in Notifications PROVE (Informed(n) /\ Reported(n) /\ Shown(n))' <=> Informed(n) /\ Reported(n) /\ Shown(n)
    BY <1>4, <2>1 DEF Informed, Reported, Shown, Settling
  <2> QED BY <1>1, <1>4, <2>1, <2>2 DEF NoteInv
<1>5. ASSUME NEW n \in Notifications, Toggle(n) PROVE NoteInv'
  <2>1. /\ UNCHANGED <<now, note, link>>
        /\ active' = [active EXCEPT ![n] = ~@] /\ changedAt' = [changedAt EXCEPT ![n] = now]
        /\ due' = [due EXCEPT ![n] = IF link.up /\ @ = Never THEN now + Resend ELSE @]
    BY <1>5 DEF Toggle, engineVars
  <2>2. /\ active' \in [Notifications -> BOOLEAN] /\ changedAt' \in [Notifications -> Nat]
        /\ due' \in [Notifications -> Nat \cup {Never}]
        /\ \A k \in Notifications : changedAt'[k] <= now
    BY <1>1, <1>2, <2>1
  <2>3. ASSUME link.up, NEW k \in Notifications PROVE Informed(k)' /\ Reported(k)' /\ Shown(k)'
    <3>1. Informed(k) /\ Reported(k) /\ Shown(k) BY <1>1, <2>3
    <3>2. Shown(k)' BY <2>1, <3>1 DEF Shown, Settling
    <3>3. CASE k # n
      <4>1. active'[k] = active[k] /\ changedAt'[k] = changedAt[k] /\ due'[k] = due[k] BY <1>1, <2>1, <3>3
      <4> QED BY <2>1, <3>1, <3>2, <4>1 DEF Informed, Reported
    <3>4. CASE k = n
      <4>1. due'[n] # Never BY <1>1, <1>2, <2>1, <2>3 DEF Never
      <4>2. Informed(n)' BY <4>1 DEF Informed
      <4>3. changedAt'[n] = now /\ now' = now BY <1>1, <2>1
      <4>4. due'[n] <= now + Resend /\ now <= due'[n]
        <5>1. CASE due[n] = Never BY <1>1, <1>2, <2>1, <2>3, <5>1
        <5>2. CASE due[n] # Never
          <6>1. due'[n] = due[n] /\ due[n] \in Nat /\ changedAt[n] \in Nat BY <1>1, <2>1, <5>2
          <6>2. now <= due[n] /\ (due[n] <= changedAt[n] + Resend \/ due[n] <= link.at + Resend)
            BY <3>1, <3>4, <5>2 DEF Reported
          <6>3. changedAt[n] <= now /\ link.at \in Nat /\ link.at <= now BY <1>1, <1>3, <2>3
          <6> QED BY <1>2, <6>1, <6>2, <6>3
        <5> QED BY <5>1, <5>2
      <4>5. Reported(n)' BY <4>3, <4>4 DEF Reported
      <4> QED BY <3>2, <3>4, <4>2, <4>5
    <3> QED BY <3>3, <3>4
  <2>4. ~link.up => \A k \in Notifications : note'[k].sev = NoReading /\ due'[k] = Never
    BY <1>1, <2>1
  <2> QED BY <1>1, <2>1, <2>2, <2>3, <2>4 DEF NoteInv
<1>6. ASSUME NEW n \in Notifications, NotificationArrives(n) PROVE NoteInv'
  <2> DEFINE state == IF active[n] THEN "alarm" ELSE "normal"
             u == UpdateNotification(note[n], n, state)
  <2>1. /\ UNCHANGED <<now, link, active, changedAt>> /\ due[n] # Never
        /\ note' = [note EXCEPT ![n] = u] /\ due' = [due EXCEPT ![n] = Never]
    BY <1>6 DEF NotificationArrives, PublishSummary
  <2>2. link.up BY <1>1, <2>1
  <2>3. /\ u \in Notification /\ u.sev = (IF state = "alarm" THEN "alarm" ELSE "ok")
        /\ u.pub[2] = u.sev
    BY <1>1, <1>2, <2>2, UpdateNotificationIs
  <2>4. u.sev = IF active[n] THEN "alarm" ELSE "ok" BY <1>1, <2>3
  <2> HIDE DEF u, state
  <2>5. note' \in [Notifications -> Notification] /\ due' \in [Notifications -> Nat \cup {Never}]
    BY <1>1, <2>1, <2>3
  <2>6. ASSUME NEW k \in Notifications PROVE Informed(k)' /\ Reported(k)' /\ Shown(k)'
    <3>1. CASE k # n
      <4>1. note'[k] = note[k] /\ due'[k] = due[k] BY <1>1, <2>1, <3>1
      <4>2. Informed(k) /\ Reported(k) /\ Shown(k) BY <1>1, <2>2
      <4> QED BY <2>1, <4>1, <4>2 DEF Informed, Reported, Shown, Settling
    <3>2. CASE k = n
      <4>1. note'[n] = u /\ due'[n] = Never BY <1>1, <2>1
      <4>2. Informed(n)' /\ Reported(n)' BY <2>1, <2>4, <4>1 DEF Informed, Reported
      <4>3. u.sev # NoReading /\ u.sev \in {NoReading, "ok", "alarm"} BY <2>4 DEF NoReading
      <4>4. Shown(n)' BY <2>3, <4>1, <4>3 DEF Shown
      <4> QED BY <3>2, <4>2, <4>4
    <3> QED BY <3>1, <3>2
  <2> QED BY <1>1, <2>1, <2>2, <2>5, <2>6 DEF NoteInv
<1>7. CASE SignalkOpens
  <2> DEFINE l == [up |-> TRUE, ever |-> link.ever \/ TRUE, at |-> now]
  <2>1. /\ link' = l /\ note' = NotificationsOn(l) /\ now' = now /\ ~link.up
        /\ due' = [n \in Notifications |-> IF active[n] THEN now + Resend ELSE Never]
        /\ UNCHANGED <<active, changedAt>>
    BY <1>7 DEF SignalkOpens, SetSignalk, PublishSummary, LinkInv
  <2>2. l.up /\ l.at = now OBVIOUS
  <2> HIDE DEF l
  <2>3. \A n \in Notifications : note[n].sev = NoReading BY <1>1, <2>1
  <2>4. /\ note' \in [Notifications -> Notification]
        /\ \A n \in Notifications :
             /\ note'[n].sev = NoReading
             /\ note'[n].pub[2] = "unknown" \/ (note'[n].pub[2] = "ok" /\ ~Settling(l))
    BY <1>1, <1>2, <2>1, <2>2, <2>3, NotificationsOnIs
  <2>5. due' \in [Notifications -> Nat \cup {Never}] BY <1>2, <2>1
  <2>6. ASSUME NEW n \in Notifications PROVE Informed(n)' /\ Reported(n)' /\ Shown(n)'
    <3>1. due'[n] = IF active[n] THEN now + Resend ELSE Never BY <2>1
    <3>2. Informed(n)' BY <1>2, <2>1, <2>4, <3>1 DEF Informed, Never
    <3>3. Reported(n)'
      <4>1. link'.at = now /\ now' = now /\ active'[n] = active[n] /\ note'[n].sev = NoReading
        BY <2>1, <2>2, <2>4
      <4>2. CASE active[n]
        <5>1. due'[n] = now + Resend BY <3>1, <4>2
        <5> QED BY <1>2, <4>1, <4>2, <5>1, ItemsAssumption DEF Reported
      <4>3. CASE ~active[n]
        <5>1. due'[n] = Never BY <3>1, <4>3
        <5> QED BY <5>1 DEF Reported
      <4> QED BY <4>2, <4>3
    <3>4. Settling(link)' <=> Settling(l) BY <2>1 DEF Settling
    <3>5. Shown(n)' BY <2>4, <3>4 DEF Shown
    <3> QED BY <3>2, <3>3, <3>5
  <2> QED BY <1>1, <2>1, <2>2, <2>4, <2>5, <2>6 DEF NoteInv
<1>8. CASE SignalkCloses
  <2> DEFINE l == [up |-> FALSE, ever |-> link.ever \/ FALSE, at |-> Never]
  <2>1. /\ link' = l /\ note' = NotificationsOn(l) /\ now' = now
        /\ due' = [n \in Notifications |-> Never] /\ UNCHANGED <<active, changedAt>>
    BY <1>8 DEF SignalkCloses, SetSignalk, PublishSummary
  <2>2. ~l.up OBVIOUS
  <2> HIDE DEF l
  <2>3. note' \in [Notifications -> Notification] /\ \A n \in Notifications : note'[n].sev = NoReading
    BY <1>1, <1>2, <2>1, <2>2, NotificationsOnIs
  <2> QED BY <1>1, <2>1, <2>2, <2>3 DEF NoteInv
<1>9. CASE Shutdown
  <2> DEFINE l == [link EXCEPT !.up = FALSE, !.at = Never]
  <2>1. /\ link' = l /\ note' = (IF link.up THEN NotificationsOn(l) ELSE note) /\ now' = now
        /\ due' = [n \in Notifications |-> Never] /\ UNCHANGED <<active, changedAt>>
    BY <1>9 DEF Shutdown
  <2>2. ~l.up BY DEF LinkInv
  <2> HIDE DEF l
  <2>3. note' \in [Notifications -> Notification] /\ \A n \in Notifications : note'[n].sev = NoReading
    BY <1>1, <1>2, <2>1, <2>2, NotificationsOnIs
  <2> QED BY <1>1, <2>1, <2>2, <2>3 DEF NoteInv
<1>10. CASE Tick
  <2>1. UNCHANGED <<now, link, active, changedAt, due>>
          /\ note' = [n \in Notifications |-> TickNotification(note[n], n)]
    BY <1>10 DEF Tick, PublishSummary, signalkVars
  <2>2. \A n \in Notifications : note[n] \in Notification /\ note[n].sev \in {NoReading, "ok", "alarm"}
    BY <1>1 DEF Shown
  <2>3. ASSUME NEW n \in Notifications
        PROVE  /\ note'[n] \in Notification /\ note'[n].sev = note[n].sev
               /\ link.up /\ note[n].sev # NoReading => note'[n].pub[2] = note[n].sev
               /\ link.up /\ note[n].sev = NoReading =>
                    note'[n].pub[2] = "unknown" \/ (note'[n].pub[2] = "ok" /\ ~Settling(link))
    <3>1. note'[n] = note[n] \/ note'[n] = EmitNotification(note[n], n, link)
      BY <2>1 DEF TickNotification
    <3>2. CASE note'[n] = note[n] BY <1>1, <2>2, <3>2 DEF Shown
    <3>3. CASE note'[n] = EmitNotification(note[n], n, link)
      BY <1>2, <2>2, <3>3, EmitNotificationIs
    <3> QED BY <3>1, <3>2, <3>3
  <2>4. note' \in [Notifications -> Notification] BY <2>1, <2>3
  <2>5. ASSUME link.up, NEW n \in Notifications PROVE Informed(n)' /\ Reported(n)' /\ Shown(n)'
    <3>1. Informed(n) /\ Reported(n) /\ Shown(n) BY <1>1, <2>5
    <3>2. Informed(n)' /\ Reported(n)' BY <2>1, <2>3, <3>1 DEF Informed, Reported
    <3>3. Settling(link)' <=> Settling(link) BY <2>1 DEF Settling
    <3>4. Shown(n)' BY <2>2, <2>3, <2>5, <3>3 DEF Shown
    <3> QED BY <3>2, <3>4
  <2> QED BY <1>1, <2>1, <2>3, <2>4, <2>5 DEF NoteInv
<1>11. CASE Elapse
  <2>1. UNCHANGED <<note, link, active, changedAt, due>> /\ now' = now + 1
          /\ \A n \in Notifications : due[n] # Never => now < due[n]
    BY <1>11 DEF Elapse, engineVars, signalkVars
  <2>2. ASSUME link.up, NEW n \in Notifications PROVE Informed(n)' /\ Reported(n)' /\ Shown(n)'
    <3>1. Informed(n) /\ Reported(n) /\ Shown(n) BY <1>1, <2>2
    <3>2. Informed(n)' BY <2>1, <3>1 DEF Informed
    <3>3. due[n] # Never => now + 1 <= due[n] BY <1>1, <1>2, <2>1
    <3>4. Reported(n)' BY <2>1, <3>1, <3>3 DEF Reported
    <3>5. ~Settling(link) => ~Settling(link)' BY <1>2, <1>3, <2>1, <2>2 DEF Settling
    <3>6. Shown(n)' BY <2>1, <3>1, <3>5 DEF Shown
    <3> QED BY <3>2, <3>4, <3>6
  <2>3. \A n \in Notifications : changedAt'[n] <= now' BY <1>1, <1>2, <2>1
  <2> QED BY <1>1, <2>1, <2>2, <2>3 DEF NoteInv
<1>12. CASE \/ \E i \in Instruments, raw \in Raws : ReadingArrives(i, raw)
            \/ \E up \in BOOLEAN : HaConnects(up)
            \/ \E h \in HaItems, x \in HaStates : HaStateArrives(h, x)
  BY <1>4, <1>12 DEF ReadingArrives, HaConnects, HaStateArrives, PublishSummary
<1>13. CASE SignalkFails \/ Retry BY <1>4, <1>13 DEF SignalkFails, Retry, engineVars
<1>14. CASE UNCHANGED vars BY <1>4, <1>14 DEF vars, engineVars
<1> QED BY <1>5, <1>6, <1>7, <1>8, <1>9, <1>10, <1>11, <1>12, <1>13, <1>14 DEF Next

LEMMA NoteHolds == Spec => []NoteInv
<1>1. NoteInv /\ HaInv /\ LinkInv /\ SummaryInv /\ EngineInv /\ ClockInv /\ InstrumentsTimely /\ [Next]_vars
        => NoteInv'
  BY NoteStep
<1> QED BY <1>1, NoteInit, EngineHolds, BoardHolds, PTL DEF Spec

\* EventEngine: against the facts a notification is green or red only for the time SignalK takes to
\* report a change, after reconnections and outages too.
LEMMA FactsShown == NoteInv /\ LinkInv /\ ClockInv => NotificationTrue
<1> SUFFICES ASSUME NoteInv, LinkInv, ClockInv, link.up, NEW n \in Notifications,
                    now - changedAt[n] > Resend
             PROVE  /\ note[n].pub[2] = "ok" => ~active[n]
                    /\ note[n].pub[2] = "alarm" => active[n]
  BY DEF NotificationTrue
<1>1. Informed(n) /\ Reported(n) /\ Shown(n) BY DEF NoteInv
<1>2. /\ now \in Nat /\ Resend \in Nat /\ Settle \in Nat /\ Resend < Settle
      /\ changedAt[n] \in Nat /\ due[n] \in Nat \cup {Never} /\ link.at \in Nat
  BY TimesAssumption DEF ClockInv, NoteInv, LinkInv
<1>3. CASE due[n] = Never BY <1>1, <1>3 DEF Informed, Shown, NoReading
<1>4. CASE due[n] # Never
  <2>1. due[n] \in Nat /\ now <= due[n] BY <1>1, <1>2, <1>4 DEF Reported
  <2>2. ~(due[n] <= changedAt[n] + Resend) BY <1>2, <2>1
  <2>3. note[n].sev = NoReading /\ active[n] /\ due[n] <= link.at + Resend
    BY <1>1, <1>4, <2>2 DEF Reported
  <2>4. Settling(link) BY <1>2, <2>1, <2>3 DEF Settling
  <2>5. note[n].pub[2] = "unknown" BY <1>1, <2>3, <2>4 DEF Shown
  <2> QED BY <2>3, <2>5
<1> QED BY <1>3, <1>4

\* The same of the summary and of Home Assistant items, and the facts about notifications.
THEOREM SourcesShown == Spec => []SourcesTrue
<1>1. EngineInv /\ ClockInv /\ InstrumentsTimely /\ HaInv /\ LinkInv /\ SummaryInv /\ NoteInv => SourcesTrue
  BY SoonShown, FactsShown DEF SummaryInv, SourcesTrue
<1> QED BY <1>1, EngineHolds, BoardHolds, NoteHolds, PTL
=============================================================================
