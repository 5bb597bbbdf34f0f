----------------------------- MODULE DisplayTiles -----------------------------
(***************************************************************************)
(* What a display shows of the items on its pages, and its header: the     *)
(* firmware displays/render.py generates (_json_handler,                   *)
(* _notification_handler, _ha_state_handler, render_tiles, render_header,  *)
(* apply_night).  ESPHome runs one handler or script at a time.            *)
(*                                                                         *)
(* The bridge and the broker are the environment: the bridge retains every *)
(* topic, repeats it every heartbeat, and may be stopped, killed (the      *)
(* broker then publishes its will within WillDelay) or lost with the       *)
(* broker's host, whose database brings the retained messages back.  A     *)
(* tick is one heartbeat, and the 1 s interval runs at its end; a message  *)
(* takes less than a tick to arrive.  Layout, fonts and pages are left     *)
(* out; a label's text is the reading, the word or the state it stands     *)
(* for, and its colour the number the colour is chosen by.                 *)
(***************************************************************************)
EXTENDS Integers, FiniteSets

CONSTANTS
  Items,          \* what the displays may show
  Kind,           \* Kind[i]: "tile", "gauge", "current", "shore", "word" or "ha"
  Judged,         \* the instruments with thresholds
  StaleAfter,     \* stale_after_s of an instrument, in heartbeats
  NoValue,        \* a reading without a number
  Messages,       \* Messages[i]: the messages [st, v, sev] of item i
  States,         \* the states of a Home Assistant item are 0..States-1, -1 the default
  Low, High,      \* the scale of a gauge
  Displays,       \* the sets of items a display may be configured with
  Flags,          \* the connections the header shows: "signalk", "homeassistant"
  Night,          \* the display has a night palette
  WillDelay,      \* the broker publishes the will after this many heartbeats
  HostFails       \* the boat may lose its power

ASSUME TilesAssumption ==
  /\ Displays \subseteq SUBSET Items /\ Flags \subseteq {"signalk", "homeassistant"}
  /\ Items \cap {"status", "clock", "signalk", "homeassistant"} = {}
  /\ \A i \in Items : Kind[i] \in {"tile", "gauge", "current", "shore", "word", "ha"}
  /\ \A i \in Items : \A m \in Messages[i] : m.sev \in 0 .. 3
  /\ \A i \in DOMAIN StaleAfter : StaleAfter[i] \in Nat
  /\ WillDelay \in Nat \ {0}

VARIABLES
  used,           \* used_instruments: the items of this display
  bridge,         \* the bridge: "up", "stopped" or "lost"
  will,           \* heartbeats until the broker publishes the will; 0 when none is due
  silent,         \* heartbeats since the bridge was last up
  retained,       \* retained messages, by topic
  pending,        \* topics with a message on its way to this display
  connected,      \* is_connected()
  online,         \* bridge_online
  ok, received, val, shownSev,  \* ins_ID_ok, heartbeats since ins_ID_seen, ins_ID_num (or _k), ins_ID_sev
  flag,           \* sk_state, ha_state
  clock,          \* heartbeats since clock_seen
  night,          \* night_active
  drawn,          \* ins_ID_drawn_sev, _gdrawn or _sdrawn
  text, level, paint,  \* on the screen: the text, the level and the colour of each item
  header          \* on the screen: the dots, the clock and the palette of the header

world == <<bridge, will, silent, retained>>
data == <<ok, received, val, shownSev>>
screen == <<drawn, text, level, paint, header>>
tilesVars == <<used, world, pending, connected, online, data, flag, clock, night, screen>>

Blank == << >>     \* BLANK_VALUE, "--"
Topics == used \cup Flags \cup {"status", "clock"}
Unknown == 0        \* severity, flag and colour number of what is not known
Neutral == 4        \* GAUGE_NEUTRAL: a gauge without thresholds
Undrawn == 255

NumericKinds == {"tile", "gauge", "current", "shore"}
IsWord(i) == Kind[i] \notin NumericKinds
HasSeverity(i) == IsWord(i) \/ i \in Judged

\* item_limit_ms, summary_stale_ms
Limit(i) == IF IsWord(i) \/ i \notin DOMAIN StaleAfter THEN 3 ELSE StaleAfter[i] + 2
ClockLimit == 3
MaxAge == 3         \* bound: ages are counted up to this, no limit is longer
Older(n) == IF n < MaxAge THEN n + 1 ELSE n

-----------------------------------------------------------------------------
(* What the scripts compute.                                                 *)

Online == online /\ connected

FreshMutant(i) == Online /\ ok[i]
Fresh(i) == Online /\ ok[i] /\ received[i] < Limit(i)

\* One if/then for each word: STATUS_WORDS by severity, the states of a Home Assistant item by index
Word(i) ==
  IF Kind[i] = "word" THEN IF shownSev[i] = Unknown THEN Blank ELSE <<"word", shownSev[i]>>
  ELSE IF val[i] \in -1 .. States - 1 THEN <<"state", val[i]>> ELSE Blank

\* SHORE_WORDS, CURRENT_WORDS
Electrical(i) ==
  IF Kind[i] = "shore" THEN IF val[i] > 0 THEN <<"ON">> ELSE <<"OFF">>
  ELSE <<val[i], IF val[i] > 0 THEN "CHG" ELSE IF val[i] < 0 THEN "DSG" ELSE "">>

Text(i) ==
  CASE ~Fresh(i) -> Blank
    [] Fresh(i) /\ IsWord(i) -> Word(i)
    [] Fresh(i) /\ Kind[i] \in {"shore", "current"} -> Electrical(i)
    [] OTHER -> <<val[i]>>

Clamp(v) == IF v < Low THEN Low ELSE IF v > High THEN High ELSE v
Level(i) == IF Kind[i] = "gauge" /\ Fresh(i) THEN Clamp(val[i]) - Low ELSE 0

GaugeColour(i) == IF ~Fresh(i) THEN Unknown ELSE IF HasSeverity(i) THEN shownSev[i] ELSE Neutral
ShoreColour(i) == IF ~Fresh(i) THEN Unknown ELSE IF val[i] > 0 THEN 1 ELSE 2

Colour(i) ==
  CASE Kind[i] = "gauge" -> GaugeColour(i)
    [] Kind[i] = "shore" -> ShoreColour(i)
    [] OTHER -> IF Fresh(i) THEN shownSev[i] ELSE Unknown

Dot(f) == IF Online THEN flag[f] ELSE Unknown
Header == [dots |-> [f \in Flags |-> Dot(f)], online |-> Online, mqtt |-> connected,
           clock |-> Online /\ clock < ClockLimit, night |-> night]

\* render_tiles, when the colours last drawn are those of "cached"
RenderTiles(cached) ==
  /\ text' = [i \in used |-> Text(i)'] /\ level' = [i \in used |-> Level(i)']
  /\ drawn' = [i \in used |-> Colour(i)']
  /\ paint' = [i \in used |-> IF Colour(i)' # cached[i] THEN <<Colour(i)', night'>>
                                                        ELSE paint[i]]
RenderHeader == header' = Header'

-----------------------------------------------------------------------------
(* The display's message handlers.                                           *)

Store(i, m) ==
  LET good == m.st = "ok" /\ (IsWord(i) \/ m.v # NoValue) IN
  /\ received' = [received EXCEPT ![i] = 0]
  /\ ok' = [ok EXCEPT ![i] = good]
  /\ val' = [val EXCEPT ![i] = IF good \/ Kind[i] = "ha" THEN m.v ELSE val[i]]
  /\ shownSev' = [shownSev EXCEPT ![i] = IF HasSeverity(i) THEN m.sev ELSE shownSev[i]]

ItemArrives(i) ==
  /\ i \in pending \cap used
  /\ pending' = pending \ {i}
  /\ Store(i, retained[i])
  /\ UNCHANGED <<used, world, connected, online, flag, clock, night, header>>
  /\ RenderTiles(drawn)

OnlineArrives ==
  /\ "status" \in pending
  /\ pending' = pending \ {"status"}
  /\ online' = (retained["status"] = "online")
  /\ UNCHANGED <<used, world, connected, data, flag, clock, night>>
  /\ RenderTiles(drawn) /\ RenderHeader

FlagArrives(f) ==
  /\ f \in pending \cap Flags
  /\ pending' = pending \ {f}
  /\ flag' = [flag EXCEPT ![f] = CASE retained[f] = "connected" -> 1
                                   [] retained[f] = "disconnected" -> 2
                                   [] OTHER -> Unknown]
  /\ UNCHANGED <<used, world, connected, online, data, clock, night, drawn, text, level, paint>>
  /\ RenderHeader

TimeArrives ==
  /\ "clock" \in pending
  /\ pending' = pending \ {"clock"}
  /\ clock' = IF retained["clock"] = "set" THEN 0 ELSE MaxAge   \* clock_h < 0
  /\ UNCHANGED <<used, world, connected, online, data, flag, night, drawn, text, level, paint>>
  /\ RenderHeader

\* apply_night: a long press or the schedule flag changes the palette.  Every tile's colour goes
\* back to the palette's plain one and its guarded colour is drawn again.
RepaintMutant == drawn
Repaint == [i \in used |-> Undrawn]

FlipNight ==
  /\ Night
  /\ night' = ~night
  /\ UNCHANGED <<used, world, pending, connected, online, data, flag, clock>>
  /\ RenderTiles(Repaint) /\ RenderHeader

\* on_disconnect: the header waits for the interval
Disconnect == online' = FALSE

ConnectionFails ==
  /\ connected
  /\ connected' = FALSE /\ Disconnect /\ pending' = {}
  /\ UNCHANGED <<used, world, data, flag, clock, night, header>>
  /\ RenderTiles(drawn)

ConnectionReturns ==
  /\ ~connected
  /\ connected' = TRUE /\ pending' = Topics
  /\ UNCHANGED <<used, world, online, data, flag, clock, night, screen>>

-----------------------------------------------------------------------------
(* The bridge and the broker.                                                *)

Publish(topics) == pending' = IF connected THEN pending \cup (topics \cap Topics) ELSE pending

\* Bridge.on_connect and its first publications; a new value
BridgeStarts ==
  /\ bridge # "up"
  /\ bridge' = "up" /\ will' = 0 /\ silent' = 0
  /\ \E r \in [used -> UNION {Messages[i] : i \in used}] :
       /\ \A i \in used : r[i] \in Messages[i]
       /\ retained' = [t \in Topics |-> CASE t = "status" -> "online" [] t = "clock" -> "set"
                                          [] t \in Flags -> "disconnected" [] OTHER -> r[t]]
  /\ Publish(Topics)
  /\ UNCHANGED <<used, connected, online, data, flag, clock, night, screen>>

ReadingChanges(i) ==
  /\ bridge = "up"
  /\ \E m \in Messages[i] : retained' = [retained EXCEPT ![i] = m]
  /\ Publish({i})
  /\ UNCHANGED <<used, bridge, will, silent, connected, online, data, flag, clock, night, screen>>

FlagChanges(f) ==
  /\ bridge = "up"
  /\ \E s \in {"connected", "disconnected"} : retained' = [retained EXCEPT ![f] = s]
  /\ Publish({f})
  /\ UNCHANGED <<used, bridge, will, silent, connected, online, data, flag, clock, night, screen>>

BridgeStops ==
  /\ bridge = "up"
  /\ bridge' = "stopped" /\ retained' = [retained EXCEPT !["status"] = "offline"]
  /\ Publish({"status"})
  /\ UNCHANGED <<used, will, silent, connected, online, data, flag, clock, night, screen>>

BridgeDies ==
  /\ bridge = "up"
  /\ bridge' = "lost" /\ will' = WillDelay
  /\ UNCHANGED <<used, silent, retained, pending, connected, online, data, flag, clock, night, screen>>

\* The broker of the restarted host knows of no connection whose will it should publish.
NewDisplay ==
  /\ online' = FALSE /\ connected' = FALSE /\ pending' = {} /\ night' = FALSE
  /\ ok' = [i \in used |-> FALSE] /\ received' = [i \in used |-> MaxAge]
  /\ val' = [i \in used |-> 0] /\ shownSev' = [i \in used |-> Unknown]
  /\ flag' = [f \in Flags |-> Unknown] /\ clock' = MaxAge
  /\ text' = [i \in used |-> Blank] /\ level' = [i \in used |-> 0]
  /\ drawn' = [i \in used |-> Undrawn] /\ paint' = [i \in used |-> <<Unknown, FALSE>>]
  /\ header' = Header'

PowerFails ==
  /\ HostFails /\ bridge = "up"
  /\ bridge' = "lost" /\ will' = 0
  /\ UNCHANGED <<used, silent, retained>>
  /\ NewDisplay

\* A heartbeat passes: messages on their way arrive within it, and the interval redraws.
\* The bridge repeats everything it has published.
Elapse ==
  /\ pending = {}
  /\ received' = [i \in used |-> Older(received[i])] /\ clock' = Older(clock)
  /\ silent' = IF bridge = "up" THEN 0 ELSE IF silent > WillDelay THEN silent ELSE silent + 1
  /\ will' = IF will > 0 THEN will - 1 ELSE 0
  /\ retained' = IF will = 1 THEN [retained EXCEPT !["status"] = "offline"] ELSE retained
  /\ Publish(IF bridge = "up" THEN Topics \ ({"status"} \cup Flags) ELSE IF will = 1 THEN {"status"} ELSE {})
  /\ UNCHANGED <<used, bridge, connected, online, ok, val, shownSev, flag, night>>
  /\ RenderTiles(drawn) /\ RenderHeader

TilesInit ==
  /\ used \in Displays
  /\ bridge = "stopped" /\ will = 0 /\ silent = WillDelay + 1
  /\ retained = [t \in Topics |-> CASE t = "status" -> "offline" [] t \in used -> [st |-> "missing", v |-> NoValue, sev |-> 0]
                                    [] OTHER -> "none"]
  /\ pending = {} /\ connected = FALSE /\ online = FALSE /\ night = FALSE
  /\ ok = [i \in used |-> FALSE] /\ received = [i \in used |-> MaxAge]
  /\ val = [i \in used |-> 0] /\ shownSev = [i \in used |-> Unknown]
  /\ flag = [f \in Flags |-> Unknown] /\ clock = MaxAge
  /\ text = [i \in used |-> Blank] /\ level = [i \in used |-> 0]
  /\ drawn = [i \in used |-> Undrawn] /\ paint = [i \in used |-> <<Unknown, FALSE>>]
  /\ header = Header

Arrives == OnlineArrives \/ TimeArrives \/ (\E i \in used : ItemArrives(i)) \/ (\E f \in Flags : FlagArrives(f))

TilesNext ==
  \/ Arrives \/ FlipNight \/ ConnectionFails \/ ConnectionReturns \/ Elapse
  \/ BridgeStarts \/ BridgeStops \/ BridgeDies \/ PowerFails
  \/ (\E i \in used : ReadingChanges(i)) \/ (\E f \in Flags : FlagChanges(f))

\* Messages arrive and time passes.
TilesFairness == []<>(pending = {}) /\ WF_tilesVars(Elapse)

TilesSpec == TilesInit /\ [][TilesNext]_tilesVars /\ TilesFairness

-----------------------------------------------------------------------------
(* Properties.                                                               *)

\* Message m gives item i something to show.
Speaks(i, m) ==
  /\ m.st = "ok"
  /\ ~IsWord(i) => m.v # NoValue
  /\ Kind[i] = "word" => m.sev # Unknown
  /\ Kind[i] = "ha" => m.v \in -1 .. States - 1

\* The screen says what message m says: blank if it says nothing, else the value, word or state of m.
Says(i, m) ==
  LET shown == text[i] IN
  /\ (shown # Blank) = Speaks(i, m)
  /\ shown # Blank => CASE Kind[i] \in {"tile", "gauge"} -> shown = <<m.v>>
                        [] Kind[i] = "current" -> shown[1] = m.v
                        [] Kind[i] = "shore" -> (shown = <<"ON">>) = (m.v > 0)
                        [] Kind[i] = "word" -> shown = <<"word", m.sev>>
                        [] OTHER -> shown = <<"state", m.v>>
  /\ level[i] # 0 => shown # Blank

\* While the bridge runs and the display is connected, once no message is on its way the tiles and
\* the header say what the bridge last published, in whatever order the retained messages came.
ShownIsCurrent ==
  bridge = "up" /\ connected /\ pending = {} =>
    /\ \A i \in used : Says(i, retained[i])
    /\ \A f \in Flags : header.dots[f] = IF retained[f] = "connected" THEN 1 ELSE 2
    /\ header.online /\ header.clock

\* Every colour on the screen is the one its item calls for, in the palette of the moment: the
\* caches that save drawing never keep a colour of the other palette or of an earlier state.
PaintAgrees ==
  \A i \in used : drawn[i] # Undrawn =>
    /\ paint[i] = <<drawn[i], night>>
    /\ text[i] = Blank /\ Kind[i] # "ha" => paint[i][1] = Unknown

\* The retained "online" of a bridge that is gone and whose will will not come: the broker's host
\* lost its power with it.
Restored == bridge = "lost" /\ will = 0 /\ retained["status"] = "online"

\* After a bridge is stopped or killed, the displays show no value of its and no green dot, as soon
\* as the broker has published its will.
SilenceShows ==
  silent > WillDelay /\ ~Restored =>
    /\ \A i \in used : text[i] = Blank /\ level[i] = 0
    /\ ~header.online /\ ~header.clock /\ \A f \in Flags : header.dots[f] = Unknown

\* All of it: a connected display shows what the bridge last published, in the right colour; after
\* the bridge is gone it shows no value and no green dot.
TilesTrue == ShownIsCurrent /\ PaintAgrees /\ SilenceShows

\* Whatever ended the bridge, a power failure included: a display that stays connected ends with
\* every tile blank.
StaleBlanks ==
  <>[](bridge # "up" /\ connected) => <>[](\A i \in used : text[i] = Blank)
=============================================================================
